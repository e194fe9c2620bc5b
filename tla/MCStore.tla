------------------------------ MODULE MCStore -------------------------------
(* The store: the tip commit, the transaction head, the Class A append and *)
(* the durable spends. The tip commit and the spends run on a header tree  *)
(* with a fork at height 1, b0 - b1 - b2 and b0 - b1x; block b1 has two    *)
(* transactions, so a torn strong image can cover half of its range. A     *)
(* behaviour runs one of them, the one part names; the others are at rest. *)
EXTENDS TipCommit, TxHead, ClassAppend, SpendDurable, TLC

CONSTANTS b0, b1, b1x, b2

MCBlocks == {b0, b1, b1x, b2}
MCParent == (b0 :> Null) @@ (b1 :> b0) @@ (b1x :> b0) @@ (b2 :> b1)
MCNTx == (b0 :> 1) @@ (b1 :> 2) @@ (b1x :> 1) @@ (b2 :> 1)
SpendParent == (b1 :> b0) @@ (b1x :> b0) @@ (b2 :> b1)

VARIABLE part   \* the component this behaviour runs

vars == <<part, tcVars, headVars, appVars, sdVars>>

Init ==
    /\ part \in {"tip", "head", "append", "spend"}
    /\ TcInit /\ (part = "tip" \/ (tip_mode))
    /\ HeadInit
    /\ AppInit
    /\ SdInit

Next ==
    \/ part = "tip" /\ TcNext /\ UNCHANGED <<part, headVars, appVars, sdVars>>
    \/ part = "head" /\ HeadNext /\ UNCHANGED <<part, tcVars, appVars, sdVars>>
    \/ part = "append" /\ AppNext /\ UNCHANGED <<part, tcVars, headVars, sdVars>>
    \/ part = "spend" /\ SdNext /\ UNCHANGED <<part, tcVars, headVars, appVars>>

\* The barrier thread, a commit holder and open run straight through.
TcFair == WF_tcVars(part = "tip" /\ Step)

Spec == Init /\ [][Next]_vars /\ TcFair

\* Open ends however often a kill interrupts it; the joiner of a tip barrier does not
\* wait for ever; and a barrier that failed is not retried before a restart.
StoreLives == OpenEnds /\ BarrierJoinable /\ FailedSticks
=============================================================================
