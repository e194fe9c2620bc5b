------------------------------- MODULE MCSync -------------------------------
(* Initial download: the block queue, the assignment of bodies to peers,   *)
(* the header lane, the header walk and the body asks that the sessions    *)
(* share. A behaviour runs one of them, the one part names; the others are *)
(* at rest.                                                                *)
EXTENDS BlockQueue, BlockAssign, HeaderSync, BodyAsks

LanePeers == [p \in {"s", "t"} |-> 2]
LaneHas == [p \in {"s", "t"} |-> IF p = "t" THEN 2 ELSE 0]

\* Two branches over the first header, two headers each.
WalkTree == <<0, 1, 2, 1, 4>>

\* Two blocks over genesis, side by side or in line.
TwoBlocks == {<<0, 0>>, <<0, 1>>}

VARIABLE part   \* the component this behaviour runs

vars == <<part, bqVars, asVars, haVars, wkVars, askVars>>

Init ==
    /\ part \in {"queue", "assign", "lane", "walk", "asks"}
    /\ BqInit
    /\ IF part = "assign" THEN AsInit ELSE AsFrom({})
    /\ IF part = "lane" THEN HAInit ELSE HAFrom({})
    /\ WKInit
    /\ AskInit /\ (part = "asks" \/ (Parent = <<0, 0>>))

Next ==
    \/ part = "queue" /\ BqNext /\ UNCHANGED <<part, asVars, haVars, wkVars, askVars>>
    \/ part = "assign" /\ AsNext /\ UNCHANGED <<part, bqVars, haVars, wkVars, askVars>>
    \/ part = "lane" /\ HANext /\ UNCHANGED <<part, bqVars, asVars, wkVars, askVars>>
    \/ part = "walk" /\ WKNext /\ UNCHANGED <<part, bqVars, asVars, haVars, askVars>>
    \/ part = "asks" /\ AskNext /\ UNCHANGED <<part, bqVars, asVars, haVars, wkVars>>

\* The header thread drains its commands and the poll queues an ask every
\* period; time passes; a shut peer task ends; a peer that is not silent
\* answers.
HAFair ==
    /\ WF_haVars(part = "lane" /\ Ask) /\ WF_haVars(part = "lane" /\ Age) /\ WF_haVars(part = "lane" /\ StoreHeaders)
    /\ WF_haVars(part = "lane" /\ ConfirmAsked)
    /\ \A p \in HPeers :
         /\ WF_haVars(part = "lane" /\ Answer(p))
         /\ WF_haVars(part = "lane" /\ p \in hw.quiet /\ BlocksInv(p))
         /\ WF_haVars(part = "lane" /\ p \in hw.shut /\ HeaderPeerDead(p))

Spec == Init /\ [][Next]_vars /\ HAFair

\* What is asked for and what has arrived is accounted for: the request tables agree
\* with the bodies, and the byte count with the queue.
AccountsExact == AssignSafe /\ AsksSafe /\ BytesExact

\* The headers of an honest peer arrive past silent ones, and a block is asked for
\* again only when nobody is left fetching it.
SyncProgress == HeadersArrive /\ ReaskOnlyRacerless
=============================================================================
