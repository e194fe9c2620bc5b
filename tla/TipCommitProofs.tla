--------------------------- MODULE TipCommitProofs ---------------------------
(***************************************************************************)
(* Proofs about TipCommit, for every header tree and every bound.  The     *)
(* order theorem rests on what a barrier and a disconnect still have to do *)
(* (a suffix of their step list) and on the fact that nobody else touches  *)
(* Class C in RAM until that list is empty.                                *)
(***************************************************************************)
EXTENDS TipCommit, TLAPS

BarrierRests ==
    {<<"fits", "strong", "header_txs", "confirmed", "seal", "landed">>,
     <<"strong", "header_txs", "confirmed", "seal", "landed">>,
     <<"header_txs", "confirmed", "seal", "landed">>,
     <<"confirmed", "seal", "landed">>,
     <<"seal", "landed">>, <<"landed">>, <<"skipped">>}

DisconnectRests ==
    {<<"confirmed", "seal", "shrunk", "unstrong", "strong", "done">>,
     <<"seal", "shrunk", "unstrong", "strong", "done">>,
     <<"shrunk", "unstrong", "strong", "done">>,
     <<"unstrong", "strong", "done">>, <<"strong", "done">>, <<"done">>}

(* The inductive form of TipOrder. *)
BarrierOrder ==
    owner \in BarrierOwners =>
      /\ steps \in BarrierRests
      /\ Head(steps) \in {"header_txs", "confirmed", "seal", "landed"} => d_strong = strong
      /\ Head(steps) \in {"confirmed", "seal", "landed"} => d_first = first
      /\ Head(steps) \in {"seal", "landed"} => d_len = Len(confirmed)

DisconnectOrder ==
    owner = "disconnect" =>
      /\ steps \in DisconnectRests
      /\ Head(steps) # "confirmed" => d_len = Len(confirmed)
      /\ Head(steps) \in {"shrunk", "unstrong", "strong", "done"} => d_seal = SealNow

(* A failed IBD barrier leaves nobody at work. *)
FailedIdle == tip_flush \in {"Errored", "Failed"} => steps = <<>>

(* What the list becomes when a barrier takes its first step off. *)
LEMMA BarrierRest ==
    ASSUME NEW s \in BarrierRests
    PROVE  /\ s # <<>>
           /\ Head(s) = "fits" => s = Barrier /\ Head(Tail(s)) = "strong"
           /\ Head(s) = "strong" => Head(Tail(s)) = "header_txs"
           /\ Head(s) = "header_txs" => Head(Tail(s)) = "confirmed"
           /\ Head(s) = "confirmed" => Head(Tail(s)) = "seal"
           /\ Head(s) = "seal" => Head(Tail(s)) = "landed"
           /\ Head(s) \in {"fits", "strong", "header_txs", "confirmed", "seal"}
                => Tail(s) \in BarrierRests
           /\ Head(s) \in {"fits", "strong", "header_txs", "confirmed", "seal",
                           "landed", "skipped"}
<1>1. CASE s = <<"fits", "strong", "header_txs", "confirmed", "seal", "landed">>
  BY <1>1 DEF BarrierRests, Barrier
<1>2. CASE s = <<"strong", "header_txs", "confirmed", "seal", "landed">>
  BY <1>2 DEF BarrierRests, Barrier
<1>3. CASE s = <<"header_txs", "confirmed", "seal", "landed">>
  BY <1>3 DEF BarrierRests, Barrier
<1>4. CASE s = <<"confirmed", "seal", "landed">>
  BY <1>4 DEF BarrierRests, Barrier
<1>5. CASE s = <<"seal", "landed">>
  BY <1>5 DEF BarrierRests, Barrier
<1>6. CASE s = <<"landed">>
  BY <1>6 DEF BarrierRests, Barrier
<1>7. CASE s = <<"skipped">>
  BY <1>7 DEF BarrierRests, Barrier
<1> QED
  BY <1>1, <1>2, <1>3, <1>4, <1>5, <1>6, <1>7 DEF BarrierRests

(* The same for a disconnect. *)
LEMMA DisconnectRest ==
    ASSUME NEW s \in DisconnectRests
    PROVE  /\ s # <<>>
           /\ Head(s) = "confirmed" => Head(Tail(s)) = "seal"
           /\ Head(s) = "seal" => Head(Tail(s)) = "shrunk"
           /\ Head(s) = "shrunk" => Head(Tail(s)) = "unstrong"
           /\ Head(s) = "unstrong" => Head(Tail(s)) = "strong"
           /\ Head(s) = "strong" => Head(Tail(s)) = "done"
           /\ Head(s) # "done" => Tail(s) \in DisconnectRests
           /\ Head(s) \in {"confirmed", "seal", "shrunk", "unstrong", "strong", "done"}
<1>1. CASE s = <<"confirmed", "seal", "shrunk", "unstrong", "strong", "done">>
  BY <1>1 DEF DisconnectRests
<1>2. CASE s = <<"seal", "shrunk", "unstrong", "strong", "done">>
  BY <1>2 DEF DisconnectRests
<1>3. CASE s = <<"shrunk", "unstrong", "strong", "done">>
  BY <1>3 DEF DisconnectRests
<1>4. CASE s = <<"unstrong", "strong", "done">>
  BY <1>4 DEF DisconnectRests
<1>5. CASE s = <<"strong", "done">>
  BY <1>5 DEF DisconnectRests
<1>6. CASE s = <<"done">>
  BY <1>6 DEF DisconnectRests
<1> QED
  BY <1>1, <1>2, <1>3, <1>4, <1>5, <1>6 DEF DisconnectRests

(* Every step keeps the order: one step per action, and under the actions of  *)
(* the lists one part for each kind of owner.                                 *)
LEMMA OrderStep ==
    ASSUME BarrierOrder, DisconnectOrder, FailedIdle, [TcNext]_tcVars
    PROVE  BarrierOrder' /\ DisconnectOrder' /\ FailedIdle'
<1> USE DEF BarrierOwners
<1> DEFINE Same == UNCHANGED <<confirmed, strong, first, d_slot, d_len, d_strong,
                               d_first, d_seal, steps, owner>>
<1>0. ASSUME Same, tip_flush' \in {"Errored", "Failed"} => steps = <<>>
      PROVE  BarrierOrder' /\ DisconnectOrder' /\ FailedIdle'
  BY <1>0 DEF BarrierOrder, DisconnectOrder, FailedIdle, SealNow, TipBlock
<1>1. CASE UNCHANGED tcVars
  BY <1>0, <1>1 DEF tcVars, ram, disk, ctl, FailedIdle
<1>2. ASSUME NEW r \in Runs, NEW lands, Archive(r, lands)
      PROVE  BarrierOrder' /\ DisconnectOrder' /\ FailedIdle'
  BY <1>0, <1>2 DEF Archive, ram, disk, ctl, FailedIdle
<1>3. CASE Commit
  <2>1. owner' \in {"commit", "worker"} /\ steps' = Barrier
    BY <1>3 DEF Commit
  <2>2. tip_flush' \notin {"Errored", "Failed"}
    BY <1>3 DEF Commit, Joined
  <2>3. Barrier \in BarrierRests /\ Head(Barrier) = "fits"
    BY DEF Barrier, BarrierRests
  <2> QED
    BY <2>1, <2>2, <2>3 DEF BarrierOrder, DisconnectOrder, FailedIdle
<1>4. CASE Reject
  <2>1. steps = <<>> /\ UNCHANGED <<steps, owner>> /\ tip_flush' = "Idle"
    BY <1>4 DEF Reject, CanLock, Joined
  <2>2. owner \notin BarrierOwners /\ owner # "disconnect"
    BY <2>1, BarrierRest, DisconnectRest DEF BarrierOrder, DisconnectOrder
  <2> QED
    BY <2>1, <2>2 DEF BarrierOrder, DisconnectOrder, FailedIdle
<1>5. CASE JoinFails
  BY <1>0, <1>5 DEF JoinFails, ram, disk
<1>6. CASE WriteFails
  BY <1>0, <1>6 DEF WriteFails, ram, disk, ctl, FailedIdle
<1>7. CASE TcFlush
  <2>1. owner' = "flush" /\ steps' = Barrier /\ tip_flush' = "Idle"
    BY <1>7 DEF TcFlush, Joined
  <2>2. Barrier \in BarrierRests /\ Head(Barrier) = "fits"
    BY DEF Barrier, BarrierRests
  <2> QED
    BY <2>1, <2>2 DEF BarrierOrder, DisconnectOrder, FailedIdle
<1>8. CASE Disconnect
  <2>1. owner' = "disconnect" /\ steps' = DisconnectSteps /\ tip_flush' = "Idle"
    BY <1>8 DEF Disconnect, Joined
  <2>2. DisconnectSteps \in DisconnectRests /\ Head(DisconnectSteps) = "confirmed"
    BY DEF DisconnectSteps, DisconnectRests
  <2> QED
    BY <2>1, <2>2 DEF BarrierOrder, DisconnectOrder, FailedIdle
<1>9. CASE EnterTip
  BY <1>0, <1>9 DEF EnterTip, ram, disk, FailedIdle
<1>10. CASE Fits
  <2>1. /\ Head(steps) = "fits" /\ steps # <<>>
        /\ UNCHANGED <<owner, tip_flush>>
        /\ steps' \in {Tail(steps), <<"skipped">>}
        /\ UNCHANGED <<strong, first, confirmed, d_strong, d_first, d_len, d_seal>>
    BY <1>10 DEF Fits, At, Quiet, ctl, ram, disk
  <2>2. <<"skipped">> \in BarrierRests /\ Head(<<"skipped">>) = "skipped"
    BY DEF BarrierRests
  <2>3. owner # "disconnect"
    BY <2>1, DisconnectRest DEF DisconnectOrder
  <2>4. CASE steps' = Tail(steps)
    BY <2>1, <2>3, <2>4, BarrierRest DEF BarrierOrder, DisconnectOrder, FailedIdle
  <2>5. CASE steps' = <<"skipped">>
    BY <2>1, <2>2, <2>3, <2>5 DEF BarrierOrder, DisconnectOrder, FailedIdle
  <2> QED
    BY <2>1, <2>4, <2>5
<1>11. CASE FlushStrong
  <2>1. /\ Head(steps) = "strong" /\ steps # <<>> /\ steps' = Tail(steps)
        /\ UNCHANGED <<owner, tip_flush>> /\ d_strong' = strong
        /\ UNCHANGED <<strong, first, confirmed, d_first, d_len, d_seal>>
    BY <1>11 DEF FlushStrong, At, Pop, Quiet, ctl, ram
  <2> QED
    BY <2>1, BarrierRest, DisconnectRest
       DEF BarrierOrder, DisconnectOrder, FailedIdle, SealNow, TipBlock
<1>12. CASE FlushHeaderTxs
  <2>1. /\ Head(steps) = "header_txs" /\ steps # <<>> /\ steps' = Tail(steps)
        /\ UNCHANGED <<owner, tip_flush>> /\ d_first' = first
        /\ UNCHANGED <<strong, first, confirmed, d_strong, d_len, d_seal>>
    BY <1>12 DEF FlushHeaderTxs, At, Pop, Quiet, ctl, ram
  <2> QED
    BY <2>1, BarrierRest, DisconnectRest DEF BarrierOrder, DisconnectOrder, FailedIdle
<1>13. CASE FlushConfirmed
  <2>1. /\ Head(steps) = "confirmed" /\ steps # <<>> /\ steps' = Tail(steps)
        /\ UNCHANGED <<owner, tip_flush>> /\ d_len' = Len(confirmed)
        /\ UNCHANGED <<strong, first, confirmed, d_strong, d_first, d_seal>>
    BY <1>13 DEF FlushConfirmed, At, Pop, Quiet, ctl, ram
  <2> QED
    BY <2>1, BarrierRest, DisconnectRest DEF BarrierOrder, DisconnectOrder, FailedIdle
<1>14. CASE PublishSeal
  <2>1. /\ Head(steps) \in {"seal", "publish"} /\ steps # <<>> /\ steps' = Tail(steps)
        /\ UNCHANGED <<owner, tip_flush>>
        /\ Head(steps) = "seal" => d_seal' = SealNow
        /\ UNCHANGED <<strong, first, confirmed, d_strong, d_first, d_len>>
    BY <1>14 DEF PublishSeal, At, Pop, Quiet, ctl, ram
  <2>2. Head(steps) = "seal" => d_seal' = SealNow'
    BY <2>1 DEF SealNow, TipBlock
  <2> QED
    BY <2>1, <2>2, BarrierRest, DisconnectRest
       DEF BarrierOrder, DisconnectOrder, FailedIdle
<1>15. CASE BarrierEnds
  <2>1. steps # <<>> /\ owner' = "free"
    BY <1>15 DEF BarrierEnds, At
  <2>2. tip_flush' \in {tip_flush, "Done"}
    BY <1>15 DEF BarrierEnds
  <2> QED
    BY <2>1, <2>2 DEF BarrierOrder, DisconnectOrder, FailedIdle
<1>16. CASE Shrunk
  <2>1. /\ Head(steps) = "shrunk" /\ steps # <<>> /\ steps' = Tail(steps)
        /\ UNCHANGED <<owner, tip_flush>>
        /\ UNCHANGED <<strong, first, confirmed, d_strong, d_first, d_len, d_seal>>
    BY <1>16 DEF Shrunk, At, Pop, ram, disk
  <2> QED
    BY <2>1, BarrierRest, DisconnectRest
       DEF BarrierOrder, DisconnectOrder, FailedIdle, SealNow, TipBlock
<1>17. CASE Unstrong
  <2>1. /\ Head(steps) = "unstrong" /\ steps # <<>> /\ steps' = Tail(steps)
        /\ UNCHANGED <<owner, tip_flush>>
        /\ UNCHANGED <<first, confirmed, d_strong, d_first, d_len, d_seal>>
    BY <1>17 DEF Unstrong, At, Pop, Quiet, ctl, disk
  <2> QED
    BY <2>1, BarrierRest, DisconnectRest
       DEF BarrierOrder, DisconnectOrder, FailedIdle, SealNow, TipBlock
<1>18. CASE DisconnectEnds
  BY <1>18 DEF DisconnectEnds, At, BarrierOrder, DisconnectOrder, FailedIdle
<1>19. CASE Rebuild \/ Repair \/ PastCreates \/ Trim \/ Clamp \/ Walk
  <2>1. /\ Head(steps) \in {"rebuild", "repair", "past_creates", "trim", "clamp", "walk"}
        /\ steps # <<>>
    BY <1>19 DEF Rebuild, Repair, PastCreates, Trim, Clamp, Walk, At
  <2>2. UNCHANGED <<owner, tip_flush>>
    BY <1>19 DEF Rebuild, Repair, PastCreates, Trim, Clamp, Walk, KeepTip, ShrinkTo,
                 Quiet, ctl
  <2> QED
    BY <2>1, <2>2, BarrierRest, DisconnectRest
       DEF BarrierOrder, DisconnectOrder, FailedIdle
<1>20. CASE Ready
  BY <1>20 DEF Ready, At, BarrierOrder, DisconnectOrder, FailedIdle
<1>21. CASE TcCrash
  BY <1>21 DEF TcCrash, Reopen, BarrierOrder, DisconnectOrder, FailedIdle
<1>22. CASE FlushError
  BY <1>22 DEF FlushError, BarrierOrder, DisconnectOrder, FailedIdle
<1> QED
  BY <1>1, <1>2, <1>3, <1>4, <1>5, <1>6, <1>7, <1>8, <1>9, <1>10, <1>11, <1>12,
     <1>13, <1>14, <1>15, <1>16, <1>17, <1>18, <1>19, <1>20, <1>21, <1>22
     DEF TcNext, Step

(* Tip last on connect and tip first on disconnect, for every tree, bound and *)
(* interleaving of the write thread, with withheld headers, failed flushes    *)
(* and kills: flush_class_c_tip and disconnect_tip_body keep their order.     *)
THEOREM TipOrderHolds == TcSpec => []TipOrder
<1>1. TcInit => BarrierOrder /\ DisconnectOrder /\ FailedIdle
  BY DEF TcInit, BarrierOrder, DisconnectOrder, FailedIdle, BarrierOwners
<1>2. BarrierOrder /\ DisconnectOrder => TipOrder
  BY BarrierRest, DisconnectRest DEF BarrierOrder, DisconnectOrder, TipOrder, At
<1> QED
  BY <1>1, <1>2, OrderStep, PTL DEF TcSpec

(* A failed IBD barrier sticks: join_tip_flush leaves TipFlush::Failed, and   *)
(* until a restart no step moves the confirmed chain or anything on disk.     *)
THEOREM FailedBarrierSticks == TcSpec => FailedSticks
<1>1. TcInit => BarrierOrder /\ DisconnectOrder /\ FailedIdle
  BY DEF TcInit, BarrierOrder, DisconnectOrder, FailedIdle, BarrierOwners
<1> DEFINE Sticks == tip_flush = "Failed" =>
               owner' = "open" \/ (tip_flush' = "Failed" /\ UNCHANGED <<confirmed, disk>>)
<1>2. ASSUME FailedIdle, [TcNext]_tcVars
      PROVE  [Sticks]_tcVars
  <2> SUFFICES ASSUME tip_flush = "Failed", TcNext
               PROVE  owner' = "open" \/ (tip_flush' = "Failed" /\ UNCHANGED <<confirmed, disk>>)
    BY <1>2
  <2>1. steps = <<>> /\ ~ CanLock /\ ~ Step
    BY <1>2 DEF FailedIdle, CanLock, Step, At, Fits, FlushStrong, FlushHeaderTxs,
       FlushConfirmed, PublishSeal, BarrierEnds, Shrunk, Unstrong, DisconnectEnds,
       Rebuild, Repair, PastCreates, Trim, Clamp, Walk, Ready
  <2>2. CASE \E r \in Runs, lands \in (IF Withhold THEN BOOLEAN ELSE {TRUE}) : Archive(r, lands)
    BY <2>2 DEF Archive, ram, ctl
  <2>3. CASE JoinFails \/ WriteFails \/ EnterTip
    BY <2>3 DEF JoinFails, WriteFails, EnterTip, ram, ctl
  <2>4. CASE TcCrash
    BY <2>4 DEF TcCrash, Reopen
  <2>5. ~ FlushError /\ ~ Commit /\ ~ Reject /\ ~ TcFlush /\ ~ Disconnect
    BY <2>1 DEF FlushError, Commit, Reject, TcFlush, Disconnect, At
  <2> QED
    BY <2>1, <2>2, <2>3, <2>4, <2>5 DEF TcNext
<1> QED
  BY <1>1, <1>2, OrderStep, PTL DEF TcSpec, FailedSticks
=============================================================================
