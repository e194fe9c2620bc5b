------------------------------ MODULE MCPeers -------------------------------
(* Peer sessions: the session loop, compact block fills, the downloads it  *)
(* follows and the outbound dials. A behaviour runs one of them, the one   *)
(* part names; the others are at rest.                                     *)
EXTENDS SessionLoop, CompactFill, BodyAsks, Outbound

\* Two blocks over genesis, side by side or in line.
TwoBlocks == {<<0, 0>>, <<0, 1>>}

VARIABLE part   \* the component this behaviour runs

vars == <<part, sessVars, fillVars, askVars, obVars>>

Init ==
    /\ part \in {"session", "fill", "asks", "dials"}
    /\ SessInit
    /\ FillInit
    /\ IF part = "asks" THEN AskInit ELSE AskFrom(<<0, 0>>, {0, 1, 2}, Gone)
    /\ ObInit /\ (part = "dials" \/ (obMode = "book"))

Next ==
    \/ part = "session" /\ SessNext /\ UNCHANGED <<part, fillVars, askVars, obVars>>
    \/ part = "fill" /\ FillNext /\ UNCHANGED <<part, sessVars, askVars, obVars>>
    \/ part = "asks" /\ AskNext /\ UNCHANGED <<part, sessVars, fillVars, obVars>>
    \/ part = "dials" /\ ObNext /\ UNCHANGED <<part, sessVars, fillVars, askVars>>

\* The runtime polls a session that can move and a writer with work;
\* nothing is assumed of the peer, of timeouts or of other tasks.
SessFair ==
    /\ WF_sessVars(part = "session" /\ (LoopTop \/ DecodeArm \/ Wake
                              \/ ServeOne \/ ServeReply \/ Charge \/ DrainOne))
    /\ WF_sessVars(part = "session" /\ wdone /\ Leave)
    /\ WF_sessVars(part = "session" /\ (WriterTake \/ WriterWrite))
    /\ WF_sessVars(part = "session" /\ DecodeDone)

\* An honest peer answers the periodic getheaders with its best chain and
\* a getdata with the body, again and again; a session's own task runs;
\* the window of a staller that answers nothing runs out.
AskFair ==
    /\ \A s \in APeers :
         /\ WF_askVars(part = "asks" /\ ApplyHeaders(s))
         /\ WF_askVars(part = "asks" /\ (AcceptDone(s) \/ AcceptNeedsParent(s)))
         /\ WF_askVars(part = "asks" /\ SyncWindow(s))
    /\ \A s \in Stallers : SF_askVars(part = "asks" /\ SessionDrop(s))
    /\ \A s \in APeers \ Stallers :
         /\ SF_askVars(part = "asks" /\ ClassifyHeaders(s, Tall))
         /\ SF_askVars(part = "asks" /\ (\E b \in Bodies : OnBlock(s, b)))

\* The runtime polls every ready task; the redial interval ticks forever.
ObFair ==
    /\ WF_obVars(part = "dials" /\ RedialStep)
    /\ WF_obVars(part = "dials" /\ SupStep)
    /\ \A s \in Slots : /\ WF_obVars(part = "dials" /\ DialStep(s))
                        /\ WF_obVars(part = "dials" /\ obDials[s].stop /\ SessionEnds(s))

Spec == Init /\ [][Next]_vars /\ SessFair /\ AskFair /\ ObFair

\* The shares of a peer are kept: the fills of a compact block and the dials.
PeersSafe == FillsSafe /\ DialsSafe

\* The blocks of an honest chain arrive, a configured peer is connected again and
\* again, and a session that holds back its reads takes them up.
PeersProgress == BodiesArrive /\ ConnectKept /\ HeldIsReleased
=============================================================================
