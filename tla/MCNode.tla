------------------------------- MODULE MCNode -------------------------------
(* The node at the tip: the tip-accept lane, the hub that takes the blocks *)
(* and branches it is handed, and the life of the process around them. A   *)
(* behaviour runs one of them, the one part names; the others are at rest. *)
EXTENDS TipLane, BranchHub, NodeRun

\* A block beside a branch of three; the branch fails in its middle or at its end.
HubTree == <<0, 0, 2, 3>>
HubBad == {{3}, {4}}

VARIABLE part   \* the component this behaviour runs

vars == <<part, tlVars, hubVars, nrVars>>

AnyOf(set) == CHOOSE x \in set : TRUE

Init ==
    /\ part \in {"lane", "hub", "node"}
    /\ IF part = "lane" THEN TlInit ELSE TlRest("done", 1)
    /\ HubInit /\ (part = "hub" \/ (bad = {3}))
    /\ IF part = "node" THEN NrInit ELSE nrCfg = AnyOf(NrConfigs) /\ NrBare("gone", "overlay")

Next ==
    \/ part = "lane" /\ TlNext /\ UNCHANGED <<part, hubVars, nrVars>>
    \/ part = "hub" /\ HubNext /\ UNCHANGED <<part, tlVars, nrVars>>
    \/ part = "node" /\ NrNext /\ UNCHANGED <<part, tlVars, hubVars>>

\* Threads and woken tasks run; a mutex that keeps becoming free is taken.
TlFair ==
    /\ WF_tlVars(part = "lane" /\ LaneStep)
    /\ \A s \in Callers : WF_tlVars(part = "lane" /\ CallerStep(s))
    /\ \A w \in TlWaits : /\ WF_tlVars(part = "lane" /\ WaiterStep(w))
                          /\ SF_tlVars(part = "lane" /\ WaitLock(w))

\* Every thread keeps running; a writer that sees the flag stops; the
\* select of the follow loop returns at its ticks, and a deadline passes.
NrFair ==
    /\ WF_nrVars(part = "node" /\ MainStep) /\ SF_nrVars(part = "node" /\ LoopEnds)
    /\ WF_nrVars(part = "node" /\ LaneWork) /\ WF_nrVars(part = "node" /\ PollStop)
    /\ WF_nrVars(part = "node" /\ AppenderStep) /\ WF_nrVars(part = "node" /\ AppenderStops)
    /\ WF_nrVars(part = "node" /\ IndexStops)

Spec == Init /\ [][Next]_vars /\ TlFair /\ NrFair

\* The run and its accept lane keep their order: a job runs once and within the wait
\* for it, and the flush comes after the work it has to cover.
RunSafe == LaneSafe /\ NodeSafe

\* Every caller of the lane is answered and every wait on it returns; a stop that is
\* requested ends the run; and a wallet server is bound once the node may serve.
NodeProgress == AllAnswered /\ WaitsReturn /\ StopEnds /\ WalletsBind
=============================================================================
