-------------------------- MODULE MempoolTipSteps ---------------------------
(***************************************************************************)
(* The steps of a tip change keep CoinInv: what connect, disconnect and    *)
(* reorg queue on the tip thread, the pauses of the chain, and the turns of *)
(* the pool's view of it.                                                  *)
(***************************************************************************)
EXTENDS MempoolCoinSteps

(* The chain gains the connected block. *)
LEMMA AdvanceStep ==
    ASSUME CoinInv, PoolInv', Advance
    PROVE  CoinInv'
<1> DEFINE b == Head1(Tip).txs
           to == IF b = {} THEN "strip" ELSE "hold"
<1>0. /\ ShapeInv /\ ChainInv /\ WorkInv /\ TipInv /\ MinedInv
      /\ chain \in Seq(SUBSET Txs) /\ view \in Nat
  BY DEF CoinInv, ShapeInv
<1>1. /\ Doing(Tip, "connect") /\ th[Tip].pc = "start"
      /\ chain' = Append(chain, b) /\ GoTo(Tip, to)
      /\ UNCHANGED <<annotated, view, moves, received, g, orphans, maintained, lock>>
  BY DEF Advance, TipAt, poolVars
<1>2. /\ Tip \in Threads /\ Work \in Seq(JobSet) /\ 1 \in DOMAIN Work /\ Head1(Tip) = Work[1]
      /\ Head1(Tip).op = "connect" /\ b \in SUBSET Txs /\ ~Admitting(Tip)
      /\ \A o : Doing(Tip, o) => o = "connect"
  BY <1>0, <1>1, TipHead
<1>3. to \in Pcs /\ to \in {"strip", "hold"}
  BY DEF Pcs
<1> HIDE DEF b, to
<1>4. PICK r \in ThreadSet :
             /\ th' = [th EXCEPT ![Tip] = r] /\ r.work = Work /\ r.pc = to
             /\ SampleOk(r.sample) /\ th'[Tip] = r
             /\ Work' = Work /\ (ScanAhead' <=> ScanAhead)
             /\ \A op : Doing(Tip, op)' <=> Doing(Tip, op)
             /\ Head1(Tip)' = Head1(Tip)
  BY <1>1, <1>2, <1>3, TipGoes
<1>5. ~Retreating /\ ~Retreating'
  BY <1>2, <1>4 DEF Retreating, TipAt
<1>6. Connects(chain, b)
  BY <1>0, <1>1, <1>2, <1>5 DEF TipInv, b
<1>7. ChainInv'
  BY <1>0, <1>1, <1>2, <1>6, AdvanceChain
<1>8. /\ chain' \in Seq(SUBSET Txs) /\ chain' # <<>> /\ WithoutLast(chain') = chain /\ LastBlock(chain') = b
      /\ Confirmed' = Confirmed \cup b
  BY <1>0, <1>1, <1>2, ChainAppend DEF Confirmed
<1>9. Joining = {} /\ Joining' = b
  <2>1. Joining = {}
    BY <1>1 DEF Joining
  <2>2. th'[Tip].pc # "start" /\ Doing(Tip, "connect")' /\ Head1(Tip)'.txs = b
    BY <1>1, <1>3, <1>4 DEF b
  <2> QED
    BY <2>1, <2>2 DEF Joining
<1>10. annotated = Confirmed /\ view % 2 = 0 /\ view % 2 # 1
  <2>1. \A pc \in Pcs \ {"start"} : ~TipAt("connect", pc) /\ ~TipAt("disconnect", pc)
    BY <1>1, <1>2 DEF TipAt
  <2>2. annotated = Confirmed /\ ~(view % 2 = 1)
    BY <2>1 DEF TipInv, Pcs, CoinInv
  <2> QED
    BY <1>0, <2>2, EvenNotOdd
<1>11. WorkInv'
  BY <1>0, <1>1, <1>2, <1>3, <1>4, StageKeepsWork
<1>12. TipInv'
  <2>1. \A i \in DOMAIN Work : Work[i].op = "connect" => i = 1
    BY <1>0, <1>2 DEF WorkInv
  <2>2. \A pc : TipAt("connect", pc)' <=> pc = to
    BY <1>1, <1>4 DEF TipAt
  <2>3. \A pc : ~TipAt("disconnect", pc)'
    BY <1>2, <1>4 DEF TipAt
  <2>4. th'[Tip].pc # "start" /\ view' % 2 # 1
    BY <1>1, <1>3, <1>4, <1>10
  <2>5. \A i \in DOMAIN Work' :
          Work'[i].op = "connect" /\ (i = 1 => th'[Tip].pc = "start") => FALSE
    BY <1>4, <2>1, <2>4
  <2>6. annotated' = IF TipAt("connect", "hold")' \/ TipAt("connect", "annotate")'
                     THEN Mined(WithoutLast(chain)') ELSE Confirmed'
    <3>1. CASE to = "hold"
      BY <1>1, <1>8, <1>10, <2>2, <3>1 DEF Confirmed
    <3>2. CASE to # "hold"
      <4>1. b = {} /\ ~TipAt("connect", "hold")' /\ ~TipAt("connect", "annotate")'
        BY <1>3, <2>2, <3>2 DEF to
      <4> QED
        BY <1>1, <1>8, <1>10, <4>1
    <3> QED
      BY <3>1, <3>2
  <2>7. /\ Doing(Tip, "connect")' /\ th'[Tip].pc # "start" =>
             chain' # <<>> /\ LastBlock(chain') = Head1(Tip)'.txs
        /\ ~(TipAt("connect", "annotate") \/ TipAt("connect", "release"))'
    BY <1>3, <1>4, <1>8, <2>2 DEF b
  <2> QED
    BY <1>5, <2>3, <2>4, <2>5, <2>6, <2>7 DEF TipInv
<1>13. MinedInv'
  BY <1>0, <1>1, <1>8, <1>9 DEF MinedInv
<1>14. /\ \A c : OnChain(c) => OnChain(c)'
       /\ \A c : Spent(c)' <=> Spent(c)
       /\ \A c : ~StripAhead(c)
  BY <1>1, <1>8, <1>9 DEF OnChain, Spent, StripAhead
<1>15. LiveInv' /\ InsertInv' /\ SampleInv' /\ th' \in [Threads -> ThreadSet]
  <2>1. \A s \in SampleSet : SampleOk(s) => SampleOk(s)'
    BY <1>1, <1>14 DEF SampleOk
  <2>2. \A c : Known(c) => Known(c)'
    BY <1>1, <1>14 DEF Known, Creator
  <2>3. ~Doing(Tip, "evict") /\ ~Doing(Tip, "evict")'
    BY <1>2, <1>4
  <2> QED
    BY Zenon, <1>1, <1>2, <1>4, <1>14, <2>1, <2>2, <2>3, ChainStep
<1>16. ShapeInv'
  BY <1>0, <1>1, <1>8, <1>15 DEF ShapeInv
<1> QED
  BY <1>7, <1>11, <1>12, <1>13, <1>15, <1>16 DEF CoinInv

(* The chain loses its last block. *)
LEMMA RetreatStep ==
    ASSUME CoinInv, PoolInv', Retreat
    PROVE  CoinInv'
<1>0. /\ ShapeInv /\ ChainInv /\ WorkInv /\ TipInv /\ MinedInv
      /\ chain \in Seq(SUBSET Txs) /\ view \in Nat /\ annotated \subseteq Txs
  BY DEF CoinInv, ShapeInv
<1>1. /\ Doing(Tip, "disconnect") /\ th[Tip].pc = "retreat"
      /\ chain' = WithoutLast(chain) /\ annotated' = annotated \ LastBlock(chain) /\ GoTo(Tip, "release")
      /\ UNCHANGED <<view, moves, received, g, orphans, maintained, lock>>
  BY DEF Retreat, TipAt, poolVars
<1>2. /\ Tip \in Threads /\ Work \in Seq(JobSet) /\ 1 \in DOMAIN Work /\ Head1(Tip) = Work[1]
      /\ Head1(Tip).op = "disconnect" /\ ~Admitting(Tip)
      /\ \A o : Doing(Tip, o) => o = "disconnect"
  BY <1>0, <1>1, TipHead
<1>3. "release" \in Pcs
  BY DEF Pcs
<1>4. PICK r \in ThreadSet :
             /\ th' = [th EXCEPT ![Tip] = r] /\ r.work = Work /\ r.pc = "release"
             /\ SampleOk(r.sample) /\ th'[Tip] = r
             /\ Work' = Work /\ (ScanAhead' <=> ScanAhead)
             /\ \A op : Doing(Tip, op)' <=> Doing(Tip, op)
             /\ Head1(Tip)' = Head1(Tip)
  BY <1>1, <1>2, <1>3, TipGoes
<1>5. Retreating /\ ~Retreating' /\ chain # <<>> /\ annotated = Confirmed /\ view % 2 = 1
  <2>1. Retreating /\ ~Retreating'
    BY <1>1, <1>4 DEF Retreating, TipAt
  <2>2. \A pc : ~TipAt("connect", pc)
    BY <1>2 DEF TipAt
  <2>3. TipAt("disconnect", "retreat")
    BY <1>1 DEF TipAt
  <2> QED
    BY <1>0, <2>1, <2>2, <2>3 DEF TipInv
<1>6. ChainInv' /\ Confirmed' = Confirmed \ LastBlock(chain) /\ chain' \in Seq(SUBSET Txs)
  BY <1>0, <1>1, <1>5, RetreatChain, FrontOfChain
<1>7. Joining = {} /\ Joining' = {}
  BY <1>2, <1>4 DEF Joining
<1>8. ScanAhead
  BY <1>0, <1>2 DEF WorkInv
<1>9. WorkInv'
  BY <1>0, <1>1, <1>2, <1>4, StageKeepsWork
<1>10. TipInv'
  <2>1. \A pc : ~TipAt("connect", pc)'
    BY <1>2, <1>4 DEF TipAt
  <2>2. TipAt("disconnect", "release")' /\ ~Doing(Tip, "connect")'
    BY <1>1, <1>2, <1>4 DEF TipAt
  <2>3. ASSUME NEW i \in DOMAIN Work', Work'[i].op = "connect" PROVE Connects(chain', Work'[i].txs)
    <3>1. i # 1
      BY <1>2, <1>4, <2>3
    <3> QED
      BY <1>0, <1>1, <1>4, <1>5, <2>3, <3>1 DEF TipInv
  <2>4. annotated' = Confirmed' /\ view' % 2 = 1
    BY <1>1, <1>5, <1>6
  <2> QED
    BY <1>5, <2>1, <2>2, <2>3, <2>4 DEF TipInv
<1>11. MinedInv'
  BY <1>0, <1>1, <1>6, <1>7 DEF MinedInv
<1>12. LiveInv' /\ InsertInv' /\ SampleInv' /\ th' \in [Threads -> ThreadSet]
  <2>1. \A s \in SampleSet : SampleOk(s) => SampleOk(s)'
    BY <1>1, <1>5 DEF SampleOk
  <2>2. \A c : Spent(c)' => Spent(c)
    BY <1>1 DEF Spent
  <2>3. ~Doing(Tip, "evict") /\ ~Doing(Tip, "evict")'
    BY <1>2, <1>4
  <2>4. \A c : ~StripAhead(c)
    BY <1>7 DEF StripAhead
  <2> QED
    BY Zenon, <1>1, <1>2, <1>4, <1>8, <2>1, <2>2, <2>3, <2>4, ChainStep
<1>13. ShapeInv'
  BY <1>0, <1>1, <1>6, <1>12 DEF ShapeInv
<1> QED
  BY <1>6, <1>9, <1>10, <1>11, <1>12, <1>13 DEF CoinInv

(* The spent marks follow the chain. *)
LEMMA AnnotateStep ==
    ASSUME CoinInv, PoolInv', Annotate
    PROVE  CoinInv'
<1> DEFINE b == Head1(Tip).txs
<1>0. /\ ShapeInv /\ ChainInv /\ WorkInv /\ TipInv /\ MinedInv
      /\ chain \in Seq(SUBSET Txs) /\ view \in Nat /\ annotated \subseteq Txs
  BY DEF CoinInv, ShapeInv
<1>1. /\ Doing(Tip, "connect") /\ th[Tip].pc = "annotate"
      /\ annotated' = annotated \cup b /\ GoTo(Tip, "release")
      /\ UNCHANGED <<chain, view, moves, received, g, orphans, maintained, lock>>
  BY DEF Annotate, TipAt, poolVars
<1>2. /\ Tip \in Threads /\ Work \in Seq(JobSet) /\ 1 \in DOMAIN Work /\ Head1(Tip) = Work[1]
      /\ Head1(Tip).op = "connect" /\ ~Admitting(Tip) /\ b \in SUBSET Txs
      /\ \A o : Doing(Tip, o) => o = "connect"
  BY <1>0, <1>1, TipHead
<1>3. "release" \in Pcs
  BY DEF Pcs
<1>4. PICK r \in ThreadSet :
             /\ th' = [th EXCEPT ![Tip] = r] /\ r.work = Work /\ r.pc = "release"
             /\ SampleOk(r.sample) /\ th'[Tip] = r
             /\ Work' = Work /\ (ScanAhead' <=> ScanAhead)
             /\ \A op : Doing(Tip, op)' <=> Doing(Tip, op)
             /\ Head1(Tip)' = Head1(Tip)
  BY <1>1, <1>2, <1>3, TipGoes
<1>5. /\ chain # <<>> /\ LastBlock(chain) = b /\ annotated = Mined(WithoutLast(chain)) /\ view % 2 = 1
  <2>1. TipAt("connect", "annotate")
    BY <1>1 DEF TipAt
  <2> QED
    BY <1>0, <1>1, <2>1 DEF TipInv
<1>6. annotated' = Confirmed /\ Confirmed' = Confirmed
  BY <1>0, <1>1, <1>5, FrontOfChain DEF Confirmed
<1>7. Joining = b /\ Joining' = b
  BY <1>1, <1>4 DEF Joining
<1>8. ChainInv'
  BY <1>0, <1>1, <1>6 DEF ChainInv
<1>9. WorkInv'
  BY <1>0, <1>1, <1>2, <1>4, StageKeepsWork
<1>10. TipInv'
  <2>1. \A pc : TipAt("connect", pc)' <=> pc = "release"
    BY <1>1, <1>4 DEF TipAt
  <2>2. \A pc : ~TipAt("disconnect", pc)'
    BY <1>2, <1>4 DEF TipAt
  <2>3. ~Retreating'
    BY <2>2 DEF Retreating
  <2>4. ASSUME NEW i \in DOMAIN Work', Work'[i].op = "connect" PROVE i = 1 /\ th'[Tip].pc # "start"
    BY <1>0, <1>2, <1>4, <2>4 DEF WorkInv
  <2>5. view' % 2 = 1 /\ chain' # <<>> /\ LastBlock(chain') = Head1(Tip)'.txs
    BY <1>1, <1>4, <1>5
  <2> QED
    BY <1>6, <2>1, <2>2, <2>3, <2>4, <2>5 DEF TipInv
<1>11. MinedInv'
  BY <1>0, <1>1, <1>6, <1>7 DEF MinedInv
<1>12. LiveInv' /\ InsertInv' /\ SampleInv' /\ th' \in [Threads -> ThreadSet]
  <2>1. \A s \in SampleSet : SampleOk(s) => SampleOk(s)'
    BY <1>1, <1>5 DEF SampleOk
  <2>2. \A c : Known(c)' <=> Known(c)
    BY <1>1, <1>6 DEF Known, Creator, OnChain
  <2>3. ~Doing(Tip, "evict") /\ ~Doing(Tip, "evict")'
    BY <1>2, <1>4
  <2>4. /\ \A c : StripAhead(c)' <=> StripAhead(c)
        /\ \A c : Spent(c)' => Spent(c) \/ StripAhead(c)'
    BY <1>1, <1>7 DEF StripAhead, Spent
  <2> QED
    BY Zenon, <1>1, <1>2, <1>4, <2>1, <2>2, <2>3, <2>4, ChainStep
<1>13. ShapeInv'
  BY <1>0, <1>1, <1>2, <1>12 DEF ShapeInv
<1> QED
  BY <1>8, <1>9, <1>10, <1>11, <1>12, <1>13 DEF CoinInv

(* The view is taken or dropped: no sample taken before is fresh any more. *)
LEMMA TurnKeeps ==
    ASSUME CoinInv, PoolInv', view' = view + 1,
           UNCHANGED <<chain, annotated, moves, received, g, orphans, maintained, lock>>,
           NEW r \in ThreadSet, th' = [th EXCEPT ![Tip] = r], SampleOk(r.sample),
           Joining' = Joining, ScanAhead => ScanAhead',
           ~Admitting(Tip), ~Doing(Tip, "evict"), ~Doing(Tip, "evict")', WorkInv', TipInv'
    PROVE  CoinInv'
<1>0. ShapeInv /\ ChainInv /\ MinedInv /\ view \in Nat
  BY DEF CoinInv, ShapeInv
<1>1. Confirmed' = Confirmed
  BY DEF Confirmed
<1>2. ChainInv' /\ MinedInv'
  BY <1>0, <1>1 DEF ChainInv, MinedInv
<1>3. LiveInv' /\ InsertInv' /\ SampleInv' /\ th' \in [Threads -> ThreadSet]
  <2>1. ASSUME NEW s \in SampleSet, SampleOk(s) PROVE SampleOk(s)'
    <3>1. s.stamp # None => s.stamp \in Nat
      BY DEF SampleSet
    <3> QED
      BY <1>0, <2>1, <3>1 DEF SampleOk
  <2>2. /\ \A c : Known(c)' <=> Known(c)
        /\ \A c : Spent(c)' <=> Spent(c)
        /\ \A c : StripAhead(c)' <=> StripAhead(c)
    BY <1>1 DEF Known, Creator, OnChain, Spent, StripAhead
  <2> QED
    BY Zenon, <2>1, <2>2, ChainStep
<1>4. ShapeInv'
  BY <1>0, <1>3 DEF ShapeInv
<1> QED
  BY <1>2, <1>3, <1>4 DEF CoinInv

(* The guard moves within a connect. *)
LEMMA TurnConnect ==
    ASSUME CoinInv, PoolInv', TurnView, NEW from, NEW to,
           TipAt("connect", from), GoTo(Tip, to),
           <<from, to>> \in {<<"hold", "annotate">>, <<"release", "strip">>}
    PROVE  CoinInv'
<1>0. /\ ShapeInv /\ WorkInv /\ TipInv /\ view \in Nat
      /\ (from = "hold" /\ to = "annotate") \/ (from = "release" /\ to = "strip")
  BY DEF CoinInv, ShapeInv
<1>1. /\ Doing(Tip, "connect") /\ th[Tip].pc = from /\ view' = view + 1
      /\ UNCHANGED <<chain, annotated, moves, received, g, orphans, maintained, lock>>
  BY DEF TurnView, TipAt, poolVars
<1>2. /\ Tip \in Threads /\ Work \in Seq(JobSet) /\ 1 \in DOMAIN Work /\ Head1(Tip) = Work[1]
      /\ Head1(Tip).op = "connect" /\ ~Admitting(Tip)
      /\ \A o : Doing(Tip, o) => o = "connect"
  BY <1>0, <1>1, TipHead
<1>3. to \in Pcs
  BY <1>0 DEF Pcs
<1>4. PICK r \in ThreadSet :
             /\ th' = [th EXCEPT ![Tip] = r] /\ r.work = Work /\ r.pc = to
             /\ SampleOk(r.sample) /\ th'[Tip] = r
             /\ Work' = Work /\ (ScanAhead' <=> ScanAhead)
             /\ \A op : Doing(Tip, op)' <=> Doing(Tip, op)
             /\ Head1(Tip)' = Head1(Tip)
  BY <1>2, <1>3, TipGoes
<1>5. Joining' = Joining
  BY <1>0, <1>1, <1>4 DEF Joining
<1>6. WorkInv'
  BY <1>0, <1>1, <1>2, <1>4, StageKeepsWork
<1>7. TipInv'
  <2>1. /\ \A pc : TipAt("connect", pc) <=> pc = from
        /\ \A pc : TipAt("connect", pc)' <=> pc = to
    BY <1>1, <1>4 DEF TipAt
  <2>2. \A pc : ~TipAt("disconnect", pc) /\ ~TipAt("disconnect", pc)'
    BY <1>2, <1>4 DEF TipAt
  <2>3. ~Retreating'
    BY <2>2 DEF Retreating
  <2>4. ASSUME NEW i \in DOMAIN Work', Work'[i].op = "connect" PROVE i = 1 /\ th'[Tip].pc # "start"
    BY <1>0, <1>2, <1>4, <2>4 DEF WorkInv
  <2>5. chain' # <<>> /\ LastBlock(chain') = Head1(Tip)'.txs
    BY <1>0, <1>1, <1>4 DEF TipInv
  <2>6. annotated' = IF to = "annotate" THEN Mined(WithoutLast(chain')) ELSE Confirmed'
    <3>1. annotated = IF from = "hold" THEN Mined(WithoutLast(chain)) ELSE Confirmed
      BY <1>0, <2>1 DEF TipInv
    <3> QED
      BY <1>0, <1>1, <3>1 DEF Confirmed
  <2>7. view' % 2 = 1 <=> to = "annotate"
    <3>1. view % 2 = 1 <=> from = "release"
      BY <1>0, <2>1, <2>2 DEF TipInv
    <3> QED
      BY <1>0, <1>1, <3>1, EvenNotOdd
  <2> QED
    BY <1>0, <2>1, <2>2, <2>3, <2>4, <2>5, <2>6, <2>7 DEF TipInv
<1>8. ~Doing(Tip, "evict") /\ ~Doing(Tip, "evict")'
  BY <1>2, <1>4
<1> QED
  BY Zenon, <1>1, <1>2, <1>4, <1>5, <1>6, <1>7, <1>8, TurnKeeps

(* It is taken for a disconnect. *)
LEMMA TurnRetreat ==
    ASSUME CoinInv, PoolInv', TurnView, TipAt("disconnect", "start"), GoTo(Tip, "retreat")
    PROVE  CoinInv'
<1>0. ShapeInv /\ WorkInv /\ TipInv /\ view \in Nat
  BY DEF CoinInv, ShapeInv
<1>1. /\ Doing(Tip, "disconnect") /\ th[Tip].pc = "start" /\ view' = view + 1
      /\ UNCHANGED <<chain, annotated, moves, received, g, orphans, maintained, lock>>
  BY DEF TurnView, TipAt, poolVars
<1>2. /\ Tip \in Threads /\ Work \in Seq(JobSet) /\ 1 \in DOMAIN Work /\ Head1(Tip) = Work[1]
      /\ Head1(Tip).op = "disconnect" /\ ~Admitting(Tip)
      /\ \A o : Doing(Tip, o) => o = "disconnect"
  BY <1>0, <1>1, TipHead
<1>3. "retreat" \in Pcs
  BY DEF Pcs
<1>4. PICK r \in ThreadSet :
             /\ th' = [th EXCEPT ![Tip] = r] /\ r.work = Work /\ r.pc = "retreat"
             /\ SampleOk(r.sample) /\ th'[Tip] = r
             /\ Work' = Work /\ (ScanAhead' <=> ScanAhead)
             /\ \A op : Doing(Tip, op)' <=> Doing(Tip, op)
             /\ Head1(Tip)' = Head1(Tip)
  BY <1>2, <1>3, TipGoes
<1>5. Joining' = Joining
  BY <1>2, <1>4 DEF Joining
<1>6. WorkInv'
  BY <1>0, <1>1, <1>2, <1>4, StageKeepsWork
<1>7. TipInv'
  <2>1. \A pc : ~TipAt("connect", pc) /\ ~TipAt("connect", pc)'
    BY <1>2, <1>4 DEF TipAt
  <2>2. /\ \A pc : TipAt("disconnect", pc) <=> pc = "start"
        /\ \A pc : TipAt("disconnect", pc)' <=> pc = "retreat"
    BY <1>1, <1>4 DEF TipAt
  <2>3. Retreating /\ Retreating'
    BY <2>2 DEF Retreating
  <2>4. ASSUME NEW i \in DOMAIN Work', Work'[i].op = "connect"
        PROVE  Connects(WithoutLast(chain'), Work'[i].txs)
    <3>1. i # 1
      BY <1>2, <1>4, <2>4
    <3> QED
      BY <1>0, <1>1, <1>4, <2>3, <2>4, <3>1 DEF TipInv
  <2>5. chain' # <<>> /\ ~Doing(Tip, "connect")'
    BY <1>0, <1>1, <1>2, <1>4, <2>3 DEF TipInv
  <2>6. annotated' = Confirmed'
    BY <1>0, <1>1, <2>1 DEF TipInv, Confirmed
  <2>7. view' % 2 = 1
    <3>1. view % 2 # 1
      BY <1>0, <2>1, <2>2 DEF TipInv
    <3> QED
      BY <1>0, <1>1, <3>1, EvenNotOdd
  <2> QED
    BY <2>1, <2>2, <2>3, <2>4, <2>5, <2>6, <2>7 DEF TipInv
<1>8. ~Doing(Tip, "evict") /\ ~Doing(Tip, "evict")'
  BY <1>2, <1>4
<1> QED
  BY Zenon, <1>1, <1>2, <1>4, <1>5, <1>6, <1>7, <1>8, TurnKeeps

(* It is dropped after a disconnect: the connect of a reorg, or the jobs     *)
(* that put the transactions back, are next.                                 *)
LEMMA TurnRelease ==
    ASSUME CoinInv, PoolInv', TurnView, TipAt("disconnect", "release"), Finish(Tip)
    PROVE  CoinInv'
<1>0. ShapeInv /\ WorkInv /\ TipInv /\ view \in Nat
  BY DEF CoinInv, ShapeInv
<1>1. /\ Doing(Tip, "disconnect") /\ th[Tip].pc = "release" /\ view' = view + 1
      /\ UNCHANGED <<chain, annotated, moves, received, g, orphans, maintained, lock>>
  BY DEF TurnView, TipAt, poolVars
<1>2. /\ Tip \in Threads /\ Work \in Seq(JobSet) /\ 1 \in DOMAIN Work /\ Head1(Tip) = Work[1]
      /\ Head1(Tip).op = "disconnect" /\ ~Admitting(Tip) /\ Work # <<>>
      /\ th[Tip] \in ThreadSet
      /\ \A o : Doing(Tip, o) => o = "disconnect"
  BY <1>0, <1>1, TipHead
<1>3. PICK r \in ThreadSet : /\ th' = [th EXCEPT ![Tip] = r]
                             /\ r.work = <<>> \o Tail(Work) /\ r.pc = "start"
                             /\ SampleOk(r.sample)
  <2>1. th[Tip].notes \in SUBSET Txs
    BY <1>2 DEF ThreadSet
  <2> QED
    BY Zenon, <1>0, <1>2, <2>1, PlainEmpty, ReplaceShape DEF Finish, Work
<1> DEFINE n == <<>> \o Tail(Work)
<1>4. /\ n \in Seq(JobSet) /\ Len(n) = Len(Work) - 1
      /\ \A k \in 2 .. Len(Work) : n[k - 1] = Work[k]
      /\ Len(Work) \in Nat /\ Len(Work) >= 1
  <2>1. <<>> \in Seq(JobSet) /\ Len(<<>>) = 0
    OBVIOUS
  <2>2. /\ n \in Seq(JobSet) /\ Len(n) = Len(<<>>) + Len(Work) - 1
        /\ \A k \in 2 .. Len(Work) : n[Len(<<>>) + k - 1] = Work[k]
        /\ Len(Work) \in Nat /\ Len(Work) >= 1
    BY <1>2, <2>1, WorkAfter
  <2> HIDE DEF n
  <2> QED
    BY <2>1, <2>2
<1> HIDE DEF n
<1>5. th'[Tip] = r /\ Work' = n /\ th'[Tip].pc = "start"
  BY Zenon, <1>0, <1>2, <1>3, ThreadMoves DEF Work, n
<1>6. ASSUME NEW i \in DOMAIN n
      PROVE  /\ i + 1 \in DOMAIN Work /\ n[i] = Work[i + 1] /\ i + 1 # 1 /\ i \in Nat
             /\ n[i].op \notin {"disconnect", "evict", "purge", "purge_drop"}
             /\ n[i].op = "connect" => i = 1
  <2>1. i \in 1 .. Len(Work) - 1 /\ i + 1 \in 2 .. Len(Work) /\ (i + 1) - 1 = i
    BY <1>4
  <2>2. n[(i + 1) - 1] = Work[i + 1]
    BY <1>4, <2>1
  <2>3. /\ i + 1 \in DOMAIN Work /\ n[i] = Work[i + 1] /\ i + 1 # 1 /\ i \in Nat
        /\ (i + 1 = 2 => i = 1) /\ Len(Work) # 1
    BY <1>2, <1>4, <2>1, <2>2
  <2> QED
    BY <1>0, <2>3 DEF WorkInv
<1>7. /\ \A op \in {"disconnect", "evict", "purge", "purge_drop"} : ~Doing(Tip, op)'
      /\ Doing(Tip, "connect")' => th'[Tip].pc = "start"
  <2>1. n # <<>> => 1 \in DOMAIN n /\ Head(n) = n[1]
    BY <1>4
  <2>2. \A op : Doing(Tip, op)' <=> n # <<>> /\ Head(n).op = op
    BY <1>5 DEF Doing, Head1, Work
  <2> QED
    BY <1>5, <1>6, <2>1, <2>2
<1>8. WorkInv'
  BY <1>5, <1>6, <1>7 DEF WorkInv
<1>9. ScanAhead => ScanAhead'
  <2>1. SUFFICES ASSUME ScanAhead PROVE ScanAhead'
    OBVIOUS
  <2>2. PICK k \in DOMAIN Work : Work[k].op = "scan"
    BY <2>1 DEF ScanAhead
  <2>3. k # 1 /\ k \in 1 .. Len(Work)
    BY <1>2, <2>2
  <2>4. k - 1 \in DOMAIN n /\ n[k - 1] = Work[k]
    BY <1>4, <2>3
  <2> QED
    BY <1>5, <2>2, <2>4 DEF ScanAhead
<1>10. Joining' = Joining
  BY <1>1, <1>2, <1>7 DEF Joining
<1>11. TipInv'
  <2>1. \A pc : ~TipAt("disconnect", pc)' /\ (TipAt("connect", pc)' => pc = "start")
    BY <1>7 DEF TipAt
  <2>2. ~Retreating'
    BY <2>1 DEF Retreating
  <2>3. ~Retreating /\ annotated = Confirmed /\ view % 2 = 1
    <3>1. TipAt("disconnect", "release")
      OBVIOUS
    <3>2. \A pc : ~TipAt("connect", pc) /\ (TipAt("disconnect", pc) => pc = "release")
      BY <1>1, <1>2 DEF TipAt
    <3> QED
      BY <1>0, <3>1, <3>2 DEF TipInv, Retreating
  <2>4. ASSUME NEW i \in DOMAIN Work', Work'[i].op = "connect" PROVE Connects(chain', Work'[i].txs)
    BY <1>0, <1>1, <1>5, <1>6, <2>3, <2>4 DEF TipInv
  <2>5. annotated' = Confirmed' /\ view' % 2 # 1
    BY <1>0, <1>1, <2>3, EvenNotOdd DEF Confirmed
  <2> QED
    BY <1>7, <2>1, <2>2, <2>4, <2>5 DEF TipInv
<1>12. ~Doing(Tip, "evict")
  BY <1>2
<1> QED
  BY Zenon, <1>1, <1>2, <1>3, <1>7, <1>8, <1>9, <1>10, <1>11, <1>12, TurnKeeps

(* The stamp of the view turns odd before and even after a change. *)
LEMMA TurnViewStep ==
    ASSUME CoinInv, PoolInv', TurnView
    PROVE  CoinInv'
BY TurnConnect, TurnRetreat, TurnRelease DEF TurnView

-----------------------------------------------------------------------------
(* The tip thread takes up a change of the tip. *)
LEMMA BeginStep ==
    ASSUME CoinInv, PoolInv', Work = <<>>, NEW jobs \in Seq(JobSet), Begin(Tip, jobs),
           UNCHANGED <<chain, annotated, view, g, orphans, maintained, lock, received>>,
           moves' \in 0 .. MaxMoves,
           \A i \in DOMAIN jobs :
             /\ jobs[i].op \in {"connect", "disconnect", "reorg", "scan", "purge"}
             /\ jobs[i].op = "disconnect" => i = 1 /\ chain # <<>>
                                             /\ \E k \in DOMAIN jobs : jobs[k].op = "scan"
             /\ jobs[i].op = "connect" =>
                  \/ i = 1 /\ Connects(chain, jobs[i].txs)
                  \/ i = 2 /\ jobs[1].op = "disconnect" /\ Connects(WithoutLast(chain), jobs[i].txs)
             /\ jobs[i].op = "purge" => Len(jobs) = 1 /\ ~maintained
    PROVE  CoinInv'
<1>0. ShapeInv /\ ChainInv /\ WorkInv /\ TipInv /\ MinedInv /\ Tip \in Threads /\ view \in Nat
  BY DEF CoinInv, ShapeInv, Threads
<1>1. /\ Ready(jobs, {}) \in ThreadSet /\ Ready(jobs, {}).work = jobs
      /\ Ready(jobs, {}).pc = "start" /\ SampleOk(Ready(jobs, {}).sample)
  <2>1. {} \in SUBSET Txs
    OBVIOUS
  <2> QED
    BY <2>1, ReadyShape
<1>2. th' = [th EXCEPT ![Tip] = Ready(jobs, {})]
  BY DEF Begin
<1>3. Work' = jobs /\ th'[Tip].pc = "start"
  BY Zenon, <1>0, <1>1, <1>2, ThreadMoves DEF Work
<1>4. /\ \A op : ~Doing(Tip, op)
      /\ ~Admitting(Tip) /\ ~ScanAhead
  BY DEF Doing, Admitting, ScanAhead, Work
<1>5. annotated = Confirmed /\ view % 2 = 0 /\ Joining = {}
  BY <1>0, <1>4, CalmTip
<1>6. /\ \A op : Doing(Tip, op)' <=> jobs # <<>> /\ jobs[1].op = op
      /\ Joining' = {}
      /\ jobs # <<>> => 1 \in DOMAIN jobs
  <2>1. jobs # <<>> => Head(jobs) = jobs[1] /\ 1 \in DOMAIN jobs
    OBVIOUS
  <2>2. Joining' = {}
    BY <1>3 DEF Joining
  <2> QED
    BY <1>3, <2>1, <2>2 DEF Doing, Head1, Work
<1>7. ~Doing(Tip, "evict")' /\ ~Doing(Tip, "purge_drop")'
  BY <1>6
<1>8. WorkInv'
  <2>1. ScanAhead' <=> \E k \in DOMAIN jobs : jobs[k].op = "scan"
    BY <1>3 DEF ScanAhead
  <2>2. ASSUME NEW i \in DOMAIN jobs PROVE jobs # <<>> /\ 1 \in DOMAIN jobs
    BY <1>6
  <2> QED
    BY <1>3, <1>6, <1>7, <2>1, <2>2 DEF WorkInv
<1>9. TipInv'
  <2>1. /\ \A pc : TipAt("connect", pc)' => pc = "start"
        /\ \A pc : TipAt("disconnect", pc)' => pc = "start"
    BY <1>3 DEF TipAt
  <2>2. Retreating' <=> jobs # <<>> /\ jobs[1].op = "disconnect"
    BY <1>3, <1>6 DEF Retreating, TipAt
  <2>3. Retreating' => chain' # <<>>
    BY <1>6, <2>2
  <2>4. ASSUME NEW i \in DOMAIN jobs, jobs[i].op = "connect"
        PROVE  Connects(IF Retreating' THEN WithoutLast(chain') ELSE chain', jobs[i].txs)
    BY <1>6, <2>2, <2>4
  <2>5. annotated' = Confirmed' /\ view' % 2 # 1
    BY <1>0, <1>5, EvenNotOdd DEF Confirmed
  <2> QED
    BY <1>3, <2>1, <2>3, <2>4, <2>5 DEF TipInv
<1>10. /\ Confirmed' = Confirmed
       /\ \A c : /\ Known(c)' <=> Known(c)
                 /\ Spent(c)' <=> Spent(c)
                 /\ StripAhead(c)' <=> StripAhead(c)
                 /\ OnChain(c)' <=> OnChain(c)
  BY <1>5, <1>6 DEF Known, Creator, OnChain, Confirmed, Spent, StripAhead
<1>11. \A s \in SampleSet : SampleOk(s) => SampleOk(s)'
  BY <1>10 DEF SampleOk
<1>12. LiveInv' /\ InsertInv' /\ SampleInv' /\ th' \in [Threads -> ThreadSet]
  BY Zenon, <1>1, <1>2, <1>4, <1>7, <1>10, <1>11, ChainStep
<1>13. ShapeInv'
  BY <1>0, <1>12 DEF ShapeInv
<1>14. ChainInv' /\ MinedInv'
  BY <1>0, <1>5, <1>6, <1>10 DEF ChainInv, MinedInv
<1> QED
  BY <1>8, <1>9, <1>12, <1>13, <1>14 DEF CoinInv

(* The jobs that put the transactions of a disconnected block back. *)
LEMMA ReacceptShape ==
    ASSUME FiniteCards, NEW gone \in SUBSET Txs
    PROVE  /\ ReacceptJobs(gone) \in Seq(JobSet)
           /\ \A i \in DOMAIN ReacceptJobs(gone) : ReacceptJobs(gone)[i].op \in {"reorg", "scan"}
           /\ \E i \in DOMAIN ReacceptJobs(gone) : ReacceptJobs(gone)[i].op = "scan"
<1> DEFINE w == Jobs("reorg", gone)
           j == Job("scan", {})
           n == w \o <<j, j>>
<1>1. w \in Seq(JobSet) /\ \A i \in 1 .. Len(w) : w[i].op = "reorg"
  <2>1. "reorg" \in Ops
    BY DEF Ops
  <2>2. w \in Seq(JobSet) /\ \A i \in DOMAIN w : w[i].op = "reorg"
    BY <2>1, JobsShape
  <2> HIDE DEF w
  <2> QED
    BY <2>2
<1>2. j \in JobSet /\ j.op = "scan"
  BY DEF Job, JobSet, Ops
<1>3. ReacceptJobs(gone) = n
  BY DEF ReacceptJobs
<1> HIDE DEF w, j
<1>4. /\ n \in Seq(JobSet) /\ Len(n) = Len(w) + 2 /\ Len(w) \in Nat
      /\ \A i \in 1 .. Len(w) : n[i] = w[i]
      /\ n[Len(w) + 1] = j /\ n[Len(w) + 2] = j
  BY <1>1, <1>2
<1> HIDE DEF n
<1>5. ASSUME NEW i \in DOMAIN n PROVE n[i].op \in {"reorg", "scan"}
  <2>1. i \in 1 .. Len(w) \/ i = Len(w) + 1 \/ i = Len(w) + 2
    BY <1>4
  <2> QED
    BY <1>1, <1>2, <1>4, <2>1
<1>6. Len(w) + 1 \in DOMAIN n
  BY <1>4
<1> QED
  BY <1>2, <1>3, <1>4, <1>5, <1>6

(* One job in front of a list. *)
LEMMA JobFirst ==
    ASSUME NEW j \in JobSet, NEW w \in Seq(JobSet)
    PROVE  /\ <<j>> \o w \in Seq(JobSet)
           /\ Len(<<j>> \o w) = Len(w) + 1 /\ Len(w) \in Nat
           /\ (<<j>> \o w)[1] = j
           /\ \A i \in 1 .. Len(w) : (<<j>> \o w)[i + 1] = w[i]
           /\ \A i \in DOMAIN (<<j>> \o w) : i = 1 \/ i - 1 \in DOMAIN w
           /\ \A i \in DOMAIN w : i + 1 \in DOMAIN (<<j>> \o w)
<1> DEFINE n == <<j>> \o w
<1>1. /\ n \in Seq(JobSet) /\ Len(n) = Len(w) + 1 /\ Len(w) \in Nat /\ n[1] = j
      /\ \A i \in 1 .. Len(w) : n[1 + i] = w[i]
  OBVIOUS
<1> HIDE DEF n
<1>2. \A i \in 1 .. Len(w) : i + 1 = 1 + i
  BY <1>1
<1>3. /\ \A i \in DOMAIN n : i = 1 \/ i - 1 \in DOMAIN w
      /\ \A i \in DOMAIN w : i + 1 \in DOMAIN n
  BY <1>1
<1> QED
  BY <1>1, <1>2, <1>3 DEF n

(* What every change of the tip has in common when it is taken up. *)
LEMMA MoveFacts ==
    ASSUME ShapeInv, NEW jobs, Move(jobs)
    PROVE  /\ Work = <<>> /\ Begin(Tip, jobs) /\ moves' \in 0 .. MaxMoves
           /\ UNCHANGED <<chain, annotated, view, g, orphans, maintained, lock, received>>
<1>1. moves \in 0 .. MaxMoves /\ moves < MaxMoves /\ moves' = moves + 1 /\ MaxMoves \in Nat
  BY HubAssumption DEF Move, ShapeInv
<1>2. TipStarts(jobs)
  BY DEF Move
<1> QED
  BY <1>1, <1>2 DEF TipStarts, poolVars, Work

(* A block to connect becomes the work of the tip thread. *)
LEMMA StartConnectStep ==
    ASSUME CoinInv, PoolInv', NEW b \in SUBSET Txs, StartConnect(b)
    PROVE  CoinInv'
<1> DEFINE j == Job("connect", b)
           jobs == <<j>>
<1>0. ShapeInv
  BY DEF CoinInv
<1>1. Connects(chain, b) /\ Move(jobs)
  BY DEF StartConnect, ConnectJobs
<1>2. j \in JobSet /\ j.op = "connect" /\ j.txs = b
  BY DEF Job, JobSet, Ops
<1> HIDE DEF j
<1>3. jobs \in Seq(JobSet) /\ \A i \in DOMAIN jobs : i = 1 /\ jobs[i] = j
  BY <1>2
<1> HIDE DEF jobs
<1>4. /\ Work = <<>> /\ Begin(Tip, jobs) /\ moves' \in 0 .. MaxMoves
      /\ UNCHANGED <<chain, annotated, view, g, orphans, maintained, lock, received>>
  BY <1>0, <1>1, MoveFacts
<1>5. ASSUME NEW i \in DOMAIN jobs
      PROVE  jobs[i].op = "connect" /\ i = 1 /\ Connects(chain, jobs[i].txs)
  BY <1>1, <1>2, <1>3
<1> QED
  BY <1>3, <1>4, <1>5, BeginStep

(* invalidateblock: disconnect, then offer the transactions again. *)
LEMMA StartInvalidateStep ==
    ASSUME FiniteCards, CoinInv, PoolInv', StartInvalidate
    PROVE  CoinInv'
<1> DEFINE j == Job("disconnect", {})
           w == ReacceptJobs(LastBlock(chain))
           jobs == <<j>> \o w
<1>0. ShapeInv /\ chain \in Seq(SUBSET Txs)
  BY DEF CoinInv, ShapeInv
<1>1. chain # <<>> /\ Move(jobs)
  BY DEF StartInvalidate, DisconnectJobs
<1>2. j \in JobSet /\ j.op = "disconnect"
  BY DEF Job, JobSet, Ops
<1>3. LastBlock(chain) \in SUBSET Txs
  BY <1>0, <1>1 DEF LastBlock
<1>4. /\ w \in Seq(JobSet) /\ \A i \in DOMAIN w : w[i].op \in {"reorg", "scan"}
      /\ \E i \in DOMAIN w : w[i].op = "scan"
  BY <1>3, ReacceptShape
<1> HIDE DEF j, w
<1>5. /\ jobs \in Seq(JobSet) /\ jobs[1] = j
      /\ \A i \in 1 .. Len(w) : jobs[i + 1] = w[i]
      /\ \A i \in DOMAIN jobs : i = 1 \/ i - 1 \in DOMAIN w
      /\ \A i \in DOMAIN w : i + 1 \in DOMAIN jobs
  BY <1>2, <1>4, JobFirst
<1> HIDE DEF jobs
<1>6. /\ Work = <<>> /\ Begin(Tip, jobs) /\ moves' \in 0 .. MaxMoves
      /\ UNCHANGED <<chain, annotated, view, g, orphans, maintained, lock, received>>
  BY <1>0, <1>1, MoveFacts
<1>7. \E k \in DOMAIN jobs : jobs[k].op = "scan"
  <2>1. PICK i \in DOMAIN w : w[i].op = "scan"
    BY <1>4
  <2>2. i \in 1 .. Len(w) /\ i + 1 \in DOMAIN jobs
    BY <1>4, <1>5, <2>1
  <2> QED
    BY <1>5, <2>1, <2>2
<1>8. ASSUME NEW i \in DOMAIN jobs
      PROVE  (i = 1 /\ jobs[i].op = "disconnect") \/ jobs[i].op \in {"reorg", "scan"}
  <2>1. CASE i = 1
    BY <1>2, <1>5, <2>1
  <2>2. CASE i - 1 \in DOMAIN w
    <3>1. i - 1 \in 1 .. Len(w) /\ (i - 1) + 1 = i
      BY <1>4, <1>5, <2>2
    <3>2. jobs[(i - 1) + 1] = w[i - 1]
      BY <1>5, <3>1
    <3> QED
      BY <1>4, <2>2, <3>1, <3>2
  <2> QED
    BY <1>5, <2>1, <2>2
<1>9. ASSUME NEW i \in DOMAIN jobs
      PROVE  /\ jobs[i].op \in {"connect", "disconnect", "reorg", "scan", "purge"}
             /\ jobs[i].op = "disconnect" => i = 1
             /\ jobs[i].op # "connect" /\ jobs[i].op # "purge"
  BY <1>8
<1> QED
  BY <1>1, <1>5, <1>6, <1>7, <1>9, BeginStep

(* A reorg: disconnect, connect, then offer the transactions again. *)
LEMMA StartReorgStep ==
    ASSUME FiniteCards, CoinInv, PoolInv', NEW b \in SUBSET Txs, StartReorg(b)
    PROVE  CoinInv'
<1> DEFINE d == Job("disconnect", {})
           j == Job("connect", b)
           w == ReacceptJobs(LastBlock(chain))
           v == <<j>> \o w
           jobs == <<d>> \o v
<1>0. ShapeInv /\ chain \in Seq(SUBSET Txs)
  BY DEF CoinInv, ShapeInv
<1>2. /\ d \in JobSet /\ d.op = "disconnect"
      /\ j \in JobSet /\ j.op = "connect" /\ j.txs = b
  BY DEF Job, JobSet, Ops
<1>3. chain # <<>> /\ Connects(WithoutLast(chain), b) /\ LastBlock(chain) \in SUBSET Txs
  <2>1. chain # <<>> /\ Connects(WithoutLast(chain), b)
    BY DEF StartReorg
  <2> QED
    BY <1>0, <2>1 DEF LastBlock
<1>4. /\ w \in Seq(JobSet) /\ \A i \in DOMAIN w : w[i].op \in {"reorg", "scan"}
      /\ \E i \in DOMAIN w : w[i].op = "scan"
  BY <1>3, ReacceptShape
<1>1. Move(jobs)
  <2>1. Move(<<d>> \o <<j>> \o w)
    BY DEF StartReorg, DisconnectJobs, ConnectJobs
  <2> HIDE DEF d, j, w
  <2>2. <<d>> \in Seq(JobSet) /\ <<j>> \in Seq(JobSet)
    BY <1>2
  <2>3. (<<d>> \o <<j>>) \o w = <<d>> \o (<<j>> \o w)
    <3>1. \A k, l, m \in Seq(JobSet) : (k \o l) \o m = k \o (l \o m)
      OBVIOUS
    <3> QED
      BY Zenon, <1>4, <2>2, <3>1
  <2> QED
    BY Zenon, <2>1, <2>3
<1> HIDE DEF d, j, w
<1>5. /\ v \in Seq(JobSet) /\ v[1] = j /\ Len(v) = Len(w) + 1 /\ Len(w) \in Nat
      /\ \A i \in 1 .. Len(w) : v[i + 1] = w[i]
      /\ \A i \in DOMAIN v : i = 1 \/ i - 1 \in DOMAIN w
      /\ \A i \in DOMAIN w : i + 1 \in DOMAIN v
  BY <1>2, <1>4, JobFirst
<1> HIDE DEF v
<1>6. /\ jobs \in Seq(JobSet) /\ jobs[1] = d /\ Len(jobs) = Len(v) + 1
      /\ \A i \in 1 .. Len(v) : jobs[i + 1] = v[i]
      /\ \A i \in DOMAIN jobs : i = 1 \/ i - 1 \in DOMAIN v
      /\ \A i \in DOMAIN v : i + 1 \in DOMAIN jobs
  BY <1>2, <1>5, JobFirst
<1> HIDE DEF jobs
<1>7. /\ Work = <<>> /\ Begin(Tip, jobs) /\ moves' \in 0 .. MaxMoves
      /\ UNCHANGED <<chain, annotated, view, g, orphans, maintained, lock, received>>
  BY <1>0, <1>1, MoveFacts
<1>8. ASSUME NEW i \in DOMAIN v
      PROVE  (i = 1 /\ v[i] = j) \/ v[i].op \in {"reorg", "scan"}
  <2>1. CASE i = 1
    BY <1>5, <2>1
  <2>2. CASE i - 1 \in DOMAIN w
    <3>1. i - 1 \in 1 .. Len(w) /\ (i - 1) + 1 = i
      BY <1>4, <1>5, <2>2
    <3>2. v[(i - 1) + 1] = w[i - 1]
      BY <1>5, <3>1
    <3> QED
      BY <1>4, <2>2, <3>1, <3>2
  <2> QED
    BY <1>5, <2>1, <2>2
<1>9. ASSUME NEW i \in DOMAIN jobs
      PROVE  \/ i = 1 /\ jobs[i] = d
             \/ i = 2 /\ jobs[i] = j
             \/ jobs[i].op \in {"reorg", "scan"}
  <2>1. CASE i = 1
    BY <1>6, <2>1
  <2>2. CASE i - 1 \in DOMAIN v
    <3>1. i - 1 \in 1 .. Len(v) /\ (i - 1) + 1 = i /\ (i - 1 = 1 => i = 2)
      BY <1>5, <1>6, <2>2
    <3>2. jobs[(i - 1) + 1] = v[i - 1]
      BY <1>6, <3>1
    <3> QED
      BY <1>8, <2>2, <3>1, <3>2
  <2> QED
    BY <1>6, <2>1, <2>2
<1>10. \E k \in DOMAIN jobs : jobs[k].op = "scan"
  <2>1. PICK i \in DOMAIN w : w[i].op = "scan"
    BY <1>4
  <2>2. i \in 1 .. Len(w) /\ i + 1 \in DOMAIN v /\ i + 1 \in 1 .. Len(v)
    BY <1>4, <1>5, <2>1
  <2>3. (i + 1) + 1 \in DOMAIN jobs /\ jobs[(i + 1) + 1] = v[i + 1] /\ v[i + 1] = w[i]
    BY <1>5, <1>6, <2>2
  <2> QED
    BY <2>1, <2>3
<1>11. ASSUME NEW i \in DOMAIN jobs
       PROVE  /\ jobs[i].op \in {"connect", "disconnect", "reorg", "scan", "purge"}
              /\ jobs[i].op = "disconnect" => i = 1
              /\ jobs[i].op = "connect" => i = 2 /\ Connects(WithoutLast(chain), jobs[i].txs)
              /\ jobs[i].op # "purge"
  BY <1>2, <1>3, <1>9
<1>12. jobs[1].op = "disconnect"
  BY <1>2, <1>6
<1> QED
  BY <1>3, <1>6, <1>7, <1>10, <1>11, <1>12, BeginStep

(* The purge that makes a loaded pool a maintained one. *)
LEMMA StartMaintainStep ==
    ASSUME CoinInv, PoolInv', StartMaintain
    PROVE  CoinInv'
<1> DEFINE j == Job("purge", {})
           jobs == <<j>>
<1>0. ShapeInv
  BY DEF CoinInv
<1>1. ~maintained /\ TipStarts(jobs) /\ moves' = moves
  BY DEF StartMaintain
<1>2. j \in JobSet /\ j.op = "purge"
  BY DEF Job, JobSet, Ops
<1> HIDE DEF j
<1>3. jobs \in Seq(JobSet) /\ Len(jobs) = 1 /\ \A i \in DOMAIN jobs : i = 1 /\ jobs[i] = j
  BY <1>2
<1> HIDE DEF jobs
<1>4. /\ Work = <<>> /\ Begin(Tip, jobs) /\ moves' \in 0 .. MaxMoves
      /\ UNCHANGED <<chain, annotated, view, g, orphans, maintained, lock, received>>
  BY <1>0, <1>1 DEF TipStarts, poolVars, Work, ShapeInv
<1>5. ASSUME NEW i \in DOMAIN jobs PROVE jobs[i].op = "purge"
  BY <1>2, <1>3
<1> QED
  BY <1>1, <1>3, <1>4, <1>5, BeginStep

=============================================================================
