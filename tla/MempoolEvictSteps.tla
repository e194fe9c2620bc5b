------------------------- MODULE MempoolEvictSteps --------------------------
(***************************************************************************)
(* Stripping a connected block from the pool and evicting what lost its    *)
(* coins keep CoinInv; the initial state has it, and what it says of the   *)
(* pool: types, spendable coins, children, and the steps of CoinPool.      *)
(***************************************************************************)
EXTENDS MempoolCoinSteps

(* What the strip of a block leaves to a maintained pool. *)
LEMMA StripStep ==
    ASSUME FiniteCards, CoinInv, PoolInv', Strip
    PROVE  CoinInv'
<1>0. /\ ShapeInv /\ ChainInv /\ WorkInv /\ TipInv /\ LiveInv /\ MinedInv /\ PoolInv
      /\ view \in Nat /\ maintained \in BOOLEAN
  BY DEF CoinInv, ShapeInv
<1> DEFINE b == Head1(Tip).txs
<1>1. /\ Doing(Tip, "connect") /\ th[Tip].pc = "strip" /\ lock = None /\ lock' = None
      /\ UNCHANGED <<chain, annotated, view, moves, received, orphans, maintained>>
  BY DEF Strip, TipAt, chainVars
<1>2. /\ Tip \in Threads /\ th[Tip] \in ThreadSet /\ Work \in Seq(JobSet) /\ Work # <<>>
      /\ Head1(Tip).op = "connect" /\ b \in SUBSET Txs
      /\ ~Doing(Tip, "disconnect") /\ ~Doing(Tip, "scan") /\ ~Doing(Tip, "evict")
  BY <1>0, <1>1, TipHead
<1>3. annotated = Confirmed /\ view % 2 = 0 /\ Joining = b /\ b \subseteq Confirmed
  <2>1. \A pc : TipAt("connect", pc) => pc = "strip"
    BY <1>1 DEF TipAt
  <2>2. \A pc : ~TipAt("disconnect", pc)
    BY <1>2 DEF TipAt
  <2>3. annotated = Confirmed /\ view % 2 # 1
    BY <1>0, <2>1, <2>2 DEF TipInv
  <2>4. Joining = b
    BY <1>1 DEF Joining
  <2>5. Joining \subseteq Confirmed
    BY <1>0, AnnotatedConfirmed
  <2> QED
    BY <1>0, <2>3, <2>4, <2>5, EvenNotOdd
<1>c. Confirmed' = Confirmed
  BY <1>1 DEF Confirmed
<1>4. ASSUME NEW jobs \in PlainJobs, NEW notes \in SUBSET Txs, Replace(Tip, jobs, notes)
      PROVE  /\ \E r \in ThreadSet : th' = [th EXCEPT ![Tip] = r] /\ SampleOk(r.sample)
             /\ WorkInv' /\ TipInv' /\ Joining' = {} /\ (ScanAhead => ScanAhead')
             /\ ~Doing(Tip, "evict")'
  <2>1. PICK r \in ThreadSet : /\ th' = [th EXCEPT ![Tip] = r]
                               /\ r.work = jobs \o Tail(Work) /\ SampleOk(r.sample)
    BY <1>0, <1>2, <1>4, ReplaceShape DEF Work
  <2>2. th'[Tip].work = jobs \o Tail(Work)
    BY Zenon, <1>0, <1>2, <2>1, ThreadMoves
  <2>3. th'[Tip].work \in Seq(JobSet) /\ TipRest' /\ (ScanAhead => ScanAhead')
    BY <1>0, <1>2, <2>2, ReplaceTip
  <2>4. annotated' = Confirmed' /\ view' \in Nat /\ view' % 2 = 0
    BY <1>0, <1>1, <1>3, <1>c
  <2> QED
    BY Zenon, <2>1, <2>3, <2>4, RestTip
<1> HIDE DEF b
<1>5. CASE ~maintained
  <2>1. Finish(Tip) /\ g' = g
    BY <1>5 DEF Strip
  <2>2. th[Tip].notes \in SUBSET Txs
    BY <1>2 DEF ThreadSet
  <2>3. /\ \E r \in ThreadSet : th' = [th EXCEPT ![Tip] = r] /\ SampleOk(r.sample)
        /\ WorkInv' /\ TipInv' /\ Joining' = {} /\ (ScanAhead => ScanAhead')
        /\ ~Doing(Tip, "evict")'
    BY <1>4, <2>1, <2>2, PlainEmpty DEF Finish
  <2>4. \A c : Known(c)' <=> Known(c)
    BY <1>c, <2>1 DEF Known, Creator, OnChain
  <2>5. LiveInv'
    BY <1>0, <1>1, <1>5, <2>1, <2>3, <2>4 DEF LiveInv
  <2>6. MinedInv'
    BY <1>1, <1>5 DEF MinedInv
  <2> QED
    BY Zenon, <1>1, <1>0, <2>3, <2>5, <2>6, LockedStep
<1>6. CASE maintained
  <2> DEFINE coins == UNION {Ins[t] : t \in b}
             walks == Jobs("take", b)
             jobs == [i \in 1 .. 2 * Len(walks) |->
                        IF i % 2 = 1 THEN walks[(i + 1) \div 2] ELSE Job("end", {})]
                     \o <<Job("erase", b)>>
  <2>1. g' = Stripped(b, coins) /\ Replace(Tip, jobs, {})
    BY <1>6 DEF Strip, b
  <2>2. jobs \in PlainJobs
    <3> DEFINE m == [i \in 1 .. 2 * Len(walks) |->
                       IF i % 2 = 1 THEN walks[(i + 1) \div 2] ELSE Job("end", {})]
    <3>1. walks \in PlainJobs
      BY <1>2, JobsShape DEF PlainJobs, PlainOps, Ops, b
    <3> HIDE DEF walks
    <3>2. m \in PlainJobs
      BY Zenon, <3>1, JobsBetween DEF PlainOps
    <3>3. Job("erase", b) \in JobSet /\ Job("erase", b).op \in PlainOps
      BY <1>2 DEF Job, JobSet, Ops, PlainOps, b
    <3> HIDE DEF m
    <3>4. m \o <<Job("erase", b)>> \in PlainJobs
      BY <3>2, <3>3, PlainThen
    <3> QED
      BY <3>4 DEF m
  <2> HIDE DEF jobs
  <2>3. /\ \E r \in ThreadSet : th' = [th EXCEPT ![Tip] = r] /\ SampleOk(r.sample)
        /\ WorkInv' /\ TipInv' /\ Joining' = {} /\ (ScanAhead => ScanAhead')
        /\ ~Doing(Tip, "evict")'
    BY <1>4, <2>1, <2>2
  <2> HIDE DEF coins
  <2>4. ASSUME NEW t \in g'.live, NEW c \in Ins[t]
        PROVE  /\ t \in g.live \ b /\ c \notin coins
               /\ Maker[c] \in g.live \ g'.live => Maker[c] \in b
    BY <1>0, <2>1, StrippedLeaves DEF PoolInv, GraphAgrees
  <2>5. LiveInv'
    <3>1. ASSUME NEW t \in g'.live, NEW c \in Ins[t]
          PROVE  (Known(c)' \/ ScanAhead') /\ ~Spent(c)'
      <4>1. /\ Known(c) \/ ScanAhead
            /\ Spent(c) => StripAhead(c)
        BY <1>0, <1>6, <2>4 DEF LiveInv
      <4>2. Known(c) => Known(c)'
        BY <1>3, <1>c, <2>4 DEF Known, Creator, OnChain
      <4>3. ~StripAhead(c)
        BY <1>3, <2>4 DEF StripAhead, coins
      <4> QED
        BY <1>1, <2>3, <4>1, <4>2, <4>3 DEF Spent
    <3> QED
      BY <2>3, <3>1 DEF LiveInv
  <2>6. MinedInv'
    <3>1. ASSUME NEW t \in g'.live PROVE t \in g.live \ b
      <4>1. t \in Txs
        BY DEF PoolInv, Graph
      <4>2. PICK c \in Ins[t] : TRUE
        BY <4>1, GraphAssumption
      <4> QED
        BY <2>4, <4>2
    <3> QED
      BY <1>0, <1>3, <1>6, <1>c, <3>1 DEF MinedInv
  <2> QED
    BY Zenon, <1>1, <1>0, <2>3, <2>5, <2>6, LockedStep
<1> QED
  BY <1>5, <1>6

(* reorg_evict lists what has no coin: the list holds everything unknown. *)
LEMMA EvictScanStep ==
    ASSUME CoinInv, PoolInv', EvictScan
    PROVE  CoinInv'
<1> DEFINE bad == {t \in g.live : \E c \in Ins[t] : ~Creator(g, c) /\ ~HasCoin(c)}
<1>0. /\ ShapeInv /\ WorkInv /\ TipInv /\ LiveInv /\ MinedInv /\ PoolInv
      /\ view \in Nat /\ maintained \in BOOLEAN /\ {} \in SUBSET Txs
  BY DEF CoinInv, ShapeInv
<1>1. /\ Doing(Tip, "scan") /\ lock = None /\ lock' = None
      /\ UNCHANGED <<chain, annotated, view, moves, received, orphans, maintained, g>>
  BY DEF EvictScan, chainVars, poolVars
<1>2. /\ Tip \in Threads /\ th[Tip] \in ThreadSet /\ Work \in Seq(JobSet) /\ Work # <<>>
      /\ ~Doing(Tip, "disconnect") /\ ~Doing(Tip, "connect") /\ ~Doing(Tip, "evict")
  BY <1>0, <1>1, TipHead
<1>3. annotated = Confirmed /\ view % 2 = 0 /\ Joining = {} /\ ~Retreating
  BY <1>0, <1>2, CalmTip
<1>c. /\ Confirmed' = Confirmed /\ annotated' = Confirmed' /\ view' \in Nat /\ view' % 2 = 0
      /\ \A c : (Known(c)' <=> Known(c)) /\ (Spent(c)' <=> Spent(c))
  BY <1>0, <1>1, <1>3 DEF Confirmed, Known, Creator, OnChain, Spent
<1>4. \A t \in g.live \ bad : \A c \in Ins[t] : Known(c)
  BY HasCoinMeans DEF Known
<1>5. \A t \in g.live : \A c \in Ins[t] : Spent(c) => ~maintained
  BY <1>0, <1>3 DEF LiveInv, StripAhead
<1>6. Joining' = {} => MinedInv'
  BY <1>0, <1>1, <1>3, <1>c DEF MinedInv
<1>b. bad \in SUBSET Txs
  BY <1>0 DEF PoolInv, Graph
<1>7. CASE bad = {}
  <2>1. Finish(Tip)
    BY <1>7 DEF EvictScan
  <2>2. th[Tip].notes \in SUBSET Txs
    BY <1>2 DEF ThreadSet
  <2>3. PICK r \in ThreadSet : /\ th' = [th EXCEPT ![Tip] = r]
                               /\ r.work = <<>> \o Tail(Work) /\ SampleOk(r.sample)
    BY Zenon, <1>0, <1>2, <2>1, <2>2, PlainEmpty, ReplaceShape DEF Finish, Work
  <2>4. th'[Tip].work = <<>> \o Tail(Work)
    BY Zenon, <1>0, <1>2, <2>3, ThreadMoves
  <2>5. th'[Tip].work \in Seq(JobSet) /\ TipRest'
    BY <1>0, <1>2, <2>4, PlainEmpty, ReplaceTip
  <2>6. WorkInv' /\ TipInv' /\ Joining' = {}
    BY <1>c, <2>5, RestTip
  <2>7. LiveInv'
    BY <1>1, <1>4, <1>5, <1>7, <1>c DEF LiveInv
  <2> QED
    BY Zenon, <1>0, <1>1, <1>6, <2>3, <2>6, <2>7, LockedStep
<1>8. CASE bad # {}
  <2> DEFINE jobs == <<Job("evict", bad), Job("scan", {})>>
             n == jobs \o Tail(Work)
  <2>1. Replace(Tip, jobs, {})
    BY <1>8 DEF EvictScan
  <2> HIDE DEF bad
  <2>2. /\ jobs \in Seq(JobSet) /\ Len(jobs) = 2
        /\ jobs[1].op = "evict" /\ jobs[1].txs = bad /\ jobs[2].op = "scan"
    <3>1. /\ Job("evict", bad) \in JobSet /\ Job("scan", {}) \in JobSet
          /\ Job("evict", bad).op = "evict" /\ Job("evict", bad).txs = bad
          /\ Job("scan", {}).op = "scan"
      BY <1>b DEF Job, JobSet, Ops
    <3> DEFINE j1 == Job("evict", bad)
               j2 == Job("scan", {})
    <3> HIDE DEF j1, j2
    <3>2. j1 \in JobSet /\ j2 \in JobSet
      BY <3>1 DEF j1, j2
    <3>3. <<j1, j2>> \in Seq(JobSet) /\ Len(<<j1, j2>>) = 2 /\ <<j1, j2>>[1] = j1 /\ <<j1, j2>>[2] = j2
      BY <3>2
    <3> QED
      BY <3>1, <3>3 DEF j1, j2
  <2> HIDE DEF jobs
  <2>3. /\ n \in Seq(JobSet) /\ Len(n) = Len(Work) + 1 /\ Len(Work) \in Nat /\ Len(Work) >= 1
        /\ n[1].op = "evict" /\ n[1].txs = bad /\ n[2].op = "scan"
        /\ \A k \in 2 .. Len(Work) : n[k + 1] = Work[k]
    <3>0. /\ n \in Seq(JobSet) /\ Len(n) = Len(jobs) + Len(Work) - 1
          /\ \A i \in 1 .. Len(jobs) : n[i] = jobs[i]
          /\ \A k \in 2 .. Len(Work) : n[Len(jobs) + k - 1] = Work[k]
          /\ Len(Work) \in Nat /\ Len(Work) >= 1
      <4>1. Work \in Seq(JobSet) /\ Work # <<>> /\ jobs \in Seq(JobSet)
        BY <1>2, <2>2
      <4> QED
        BY <4>1, WorkAfter
    <3> HIDE DEF n
    <3>1. /\ n \in Seq(JobSet) /\ Len(n) = 2 + Len(Work) - 1
          /\ \A i \in 1 .. 2 : n[i] = jobs[i]
          /\ \A k \in 2 .. Len(Work) : n[2 + k - 1] = Work[k]
          /\ Len(Work) \in Nat /\ Len(Work) >= 1
      BY <2>2, <3>0
    <3>2. \A k \in 2 .. Len(Work) : 2 + k - 1 = k + 1
      BY <3>1
    <3>3. n[1] = jobs[1] /\ n[2] = jobs[2]
      BY <3>1
    <3> QED
      BY <2>2, <3>1, <3>2, <3>3
  <2>4. th' = [th EXCEPT ![Tip] = Ready(n, {})]
    BY <2>1 DEF Replace, Work
  <2> HIDE DEF n
  <2>5. Ready(n, {}) \in ThreadSet /\ Ready(n, {}).work = n /\ SampleOk(Ready(n, {}).sample)
    BY <1>0, <2>3, ReadyShape
  <2>6. Work' = n
    BY Zenon, <1>0, <1>2, <2>4, <2>5, ThreadMoves DEF Work
  <2>7. /\ \A op : Doing(Tip, op)' => op = "evict"
        /\ Head1(Tip)'.txs = bad
    <3>1. n # <<>> /\ Head(n) = n[1]
      BY <2>3
    <3> QED
      BY <2>3, <2>6, <3>1 DEF Doing, Head1, Work
  <2>8. ScanAhead'
    <3>1. 2 \in DOMAIN n
      BY <2>3
    <3> QED
      BY <2>3, <2>6, <3>1 DEF ScanAhead
  <2>9. ASSUME NEW i \in DOMAIN n
        PROVE  /\ n[i].op \notin {"connect", "disconnect", "purge", "purge_drop"}
               /\ n[i].op = "evict" => i = 1
    <3>1. i = 1 \/ i = 2 \/ i - 1 \in 2 .. Len(Work)
      BY <2>3
    <3>2. CASE i = 1 \/ i = 2
      BY <2>3, <3>2
    <3>3. CASE i - 1 \in 2 .. Len(Work)
      <4>1. n[(i - 1) + 1] = Work[i - 1] /\ (i - 1) + 1 = i /\ i \in Nat
        BY <2>3, <3>3
      <4>2. i - 1 \in DOMAIN Work /\ i - 1 # 1 /\ Len(Work) # 1
        BY <1>2, <3>3
      <4> QED
        BY <1>0, <1>2, <4>1, <4>2 DEF WorkInv
    <3> QED
      BY <3>1, <3>2, <3>3
  <2>10. WorkInv'
    <3>1. Len(n) > 1
      BY <2>3
    <3> QED
      BY <2>3, <2>6, <2>7, <2>9, <3>1 DEF WorkInv
  <2>11. TipInv'
    <3>1. \A pc : ~TipAt("connect", pc)' /\ ~TipAt("disconnect", pc)'
      BY <2>7 DEF TipAt
    <3>2. ~Retreating' /\ ~Doing(Tip, "connect")'
      BY <2>7, <3>1 DEF Retreating
    <3>3. view' % 2 # 1
      BY <1>0, <1>1, <1>3, EvenNotOdd
    <3>4. \A i \in DOMAIN Work' : Work'[i].op # "connect"
      BY <2>6, <2>9
    <3> QED
      BY Zenon, <1>c, <3>1, <3>2, <3>3, <3>4 DEF TipInv
  <2>12. LiveInv'
    <3>1. ASSUME NEW t \in g'.live, NEW c \in Ins[t]
          PROVE  Known(c)' \/ t \in bad
      BY <1>1, <1>4, <1>c
    <3> QED
      BY <1>1, <1>5, <1>c, <2>7, <2>8, <3>1 DEF LiveInv
  <2>13. MinedInv'
    <3>1. Joining' = {}
      BY <2>7 DEF Joining
    <3> QED
      BY <1>6, <3>1
  <2> QED
    BY Zenon, <1>0, <1>1, <2>4, <2>5, <2>10, <2>11, <2>12, <2>13, LockedStep
<1> QED
  BY <1>7, <1>8

(* A worklist without its first job, and without its first two. *)
LEMMA TailWork ==
    ASSUME NEW w \in Seq(JobSet), w # <<>>
    PROVE  /\ Tail(w) \in Seq(JobSet) /\ Len(Tail(w)) = Len(w) - 1
           /\ Len(w) \in Nat /\ Len(w) >= 1
           /\ \A i \in DOMAIN Tail(w) : i + 1 \in DOMAIN w /\ i + 1 # 1 /\ Tail(w)[i] = w[i + 1]
OBVIOUS

(* The trees of the list go.  When nothing went, nothing listed was live.    *)
LEMMA EvictDropStep ==
    ASSUME CoinInv, PoolInv', EvictDrop
    PROVE  CoinInv'
<1> DEFINE roots == Head1(Tip).txs \cap g.live
           n == IF g' = g THEN Tail(Tail(Work)) ELSE Tail(Work)
<1>0. /\ ShapeInv /\ WorkInv /\ TipInv /\ LiveInv /\ MinedInv /\ PoolInv
      /\ view \in Nat /\ maintained \in BOOLEAN /\ {} \in SUBSET Txs
  BY DEF CoinInv, ShapeInv
<1>1. /\ Doing(Tip, "evict") /\ lock = None /\ lock' = None
      /\ UNCHANGED <<chain, annotated, view, moves, received, orphans, maintained>>
      /\ g' = Unlink(g, Trees(g, roots))
      /\ th' = [th EXCEPT ![Tip] = Ready(n, {})]
  BY DEF EvictDrop, chainVars, Begin, Work
<1>2. /\ Tip \in Threads /\ th[Tip] \in ThreadSet /\ Work \in Seq(JobSet) /\ Work # <<>>
      /\ 1 \in DOMAIN Work /\ Head1(Tip) = Work[1] /\ Work[1].op = "evict"
      /\ ~Doing(Tip, "disconnect") /\ ~Doing(Tip, "connect")
  BY <1>0, <1>1, TipHead
<1>3. annotated = Confirmed /\ view % 2 = 0 /\ Joining = {} /\ ~Retreating
  BY <1>0, <1>2, CalmTip
<1>c. /\ Confirmed' = Confirmed /\ annotated' = Confirmed' /\ view' \in Nat /\ view' % 2 = 0
      /\ \A c : Spent(c)' <=> Spent(c)
  BY <1>0, <1>1, <1>3 DEF Confirmed, Spent
<1>4. Len(Work) > 1 /\ Work[2].op = "scan"
  BY <1>0, <1>2 DEF WorkInv
<1>5. ASSUME NEW i \in DOMAIN Work, i # 1
      PROVE  Work[i].op \notin {"connect", "disconnect", "evict", "purge", "purge_drop"}
  <2>1. Len(Work) # 1
    BY <1>2, <1>4
  <2> QED
    BY <1>0, <1>2, <1>5, <2>1 DEF WorkInv
<1> DEFINE w == Tail(Work)
<1>6. /\ w \in Seq(JobSet) /\ w # <<>> /\ 1 \in DOMAIN w /\ w[1].op = "scan"
      /\ \A i \in DOMAIN w : i + 1 \in DOMAIN Work /\ i + 1 # 1 /\ w[i] = Work[i + 1]
  <2>1. /\ w \in Seq(JobSet) /\ Len(w) = Len(Work) - 1
        /\ Len(Work) \in Nat /\ Len(Work) >= 1
        /\ \A i \in DOMAIN w : i + 1 \in DOMAIN Work /\ i + 1 # 1 /\ w[i] = Work[i + 1]
    BY <1>2, TailWork
  <2> HIDE DEF w
  <2>2. w # <<>> /\ 1 \in DOMAIN w
    BY <1>4, <2>1
  <2>3. w[1] = Work[1 + 1]
    BY <2>1, <2>2
  <2> QED
    BY <1>4, <2>1, <2>2, <2>3
<1>7. /\ n \in Seq(JobSet)
      /\ \A i \in DOMAIN n : n[i].op \notin {"connect", "disconnect", "evict", "purge", "purge_drop"}
  <2>1. n = IF g' = g THEN Tail(w) ELSE w
    OBVIOUS
  <2> HIDE DEF n, w
  <2>2. \A i \in DOMAIN w : w[i].op \notin {"connect", "disconnect", "evict", "purge", "purge_drop"}
    BY <1>5, <1>6
  <2>3. /\ Tail(w) \in Seq(JobSet)
        /\ \A i \in DOMAIN Tail(w) : i + 1 \in DOMAIN w /\ Tail(w)[i] = w[i + 1]
    BY <1>6, TailWork
  <2> QED
    BY <1>6, <2>1, <2>2, <2>3
<1>8. n = IF g' = g THEN Tail(w) ELSE w
  OBVIOUS
<1> HIDE DEF n, w
<1>9. Ready(n, {}) \in ThreadSet /\ Ready(n, {}).work = n /\ SampleOk(Ready(n, {}).sample)
  BY <1>0, <1>7, ReadyShape
<1>10. th'[Tip].work = n /\ Work' = n
  BY Zenon, <1>0, <1>1, <1>2, <1>9, ThreadMoves DEF Work
<1>11. th'[Tip].work \in Seq(JobSet) /\ TipRest'
  BY <1>7, <1>10 DEF TipRest
<1>12. WorkInv' /\ TipInv' /\ Joining' = {} /\ ~Doing(Tip, "evict")'
  BY <1>c, <1>11, RestTip
<1>13. g'.live = g.live \ Trees(g, roots)
  BY <1>0, <1>1, UnlinkLive DEF PoolInv
<1>14. LiveInv'
  <2>1. ASSUME NEW t \in g'.live, NEW c \in Ins[t] PROVE Spent(c)' => ~maintained'
    BY Zenon, <1>0, <1>1, <1>3, <1>13, <1>c DEF LiveInv, StripAhead
  <2>2. CASE g' # g
    <3>1. ScanAhead'
      BY <1>6, <1>8, <1>10, <2>2 DEF ScanAhead
    <3> QED
      BY <1>12, <2>1, <3>1 DEF LiveInv
  <2>3. CASE g' = g
    <3>1. roots \subseteq Trees(g, roots)
      BY DEF Trees, Tree
    <3>2. roots = {}
      BY <1>13, <2>3, <3>1
    <3>3. ASSUME NEW t \in g'.live, NEW c \in Ins[t] PROVE Known(c)'
      <4>1. Known(c)
        BY <1>0, <1>1, <2>3, <3>2 DEF LiveInv
      <4> QED
        BY <1>c, <2>3, <4>1 DEF Known, Creator, OnChain
    <3> QED
      BY <2>1, <3>3 DEF LiveInv
  <2> QED
    BY <2>2, <2>3
<1>15. MinedInv'
  BY Zenon, <1>0, <1>1, <1>3, <1>12, <1>13, <1>c DEF MinedInv
<1> QED
  BY Zenon, <1>0, <1>1, <1>9, <1>12, <1>14, <1>15, LockedStep

(* Jobs in front of the rest of a list of one. *)
LEMMA LastJob ==
    ASSUME NEW w \in Seq(JobSet), Len(w) = 1, NEW jobs \in Seq(JobSet)
    PROVE  jobs \o Tail(w) = jobs
<1>1. Tail(w) \in Seq(JobSet) /\ Len(Tail(w)) = 0
  OBVIOUS
<1>2. Tail(w) = <<>>
  <2>1. \A v \in Seq(JobSet) : Len(v) = 0 => v = <<>>
    OBVIOUS
  <2> QED
    BY Zenon, <1>1, <2>1
<1>3. jobs \o <<>> = jobs
  OBVIOUS
<1> QED
  BY Zenon, <1>2, <1>3

(* purge_confirmed lists what is confirmed. *)
LEMMA PurgeListStep ==
    ASSUME CoinInv, PoolInv', PurgeList
    PROVE  CoinInv'
<1> DEFINE j == Job("purge_drop", g.live \cap Confirmed)
<1>0. /\ ShapeInv /\ WorkInv /\ TipInv /\ LiveInv /\ MinedInv /\ PoolInv
      /\ view \in Nat /\ maintained \in BOOLEAN /\ {} \in SUBSET Txs
  BY DEF CoinInv, ShapeInv
<1>1. /\ Doing(Tip, "purge") /\ lock = None /\ lock' = None
      /\ UNCHANGED <<chain, annotated, view, moves, received, orphans, maintained, g>>
      /\ th' = [th EXCEPT ![Tip] = Ready(<<j>> \o Tail(Work), {})]
  BY DEF PurgeList, chainVars, poolVars, Replace, Work
<1>2. /\ Tip \in Threads /\ th[Tip] \in ThreadSet /\ Work \in Seq(JobSet) /\ Work # <<>>
      /\ 1 \in DOMAIN Work /\ Head1(Tip) = Work[1] /\ Work[1].op = "purge"
      /\ ~Doing(Tip, "disconnect") /\ ~Doing(Tip, "connect") /\ ~Doing(Tip, "evict")
  BY <1>0, <1>1, TipHead
<1>3. annotated = Confirmed /\ view % 2 = 0 /\ Joining = {} /\ ~Retreating
  BY <1>0, <1>2, CalmTip
<1>4. Len(Work) = 1 /\ ~maintained
  BY <1>0, <1>2 DEF WorkInv
<1>5. j \in JobSet /\ j.op = "purge_drop" /\ j.txs = g.live \cap Confirmed
  BY <1>0 DEF Job, JobSet, Ops, PoolInv, Graph
<1> HIDE DEF j
<1>6. <<j>> \o Tail(Work) = <<j>>
  <2>1. Work \in Seq(JobSet) /\ Len(Work) = 1 /\ <<j>> \in Seq(JobSet) /\ Work # <<>>
    BY <1>2, <1>4, <1>5
  <2> QED
    BY Zenon, <2>1, LastJob
<1>7. /\ Ready(<<j>>, {}) \in ThreadSet /\ Ready(<<j>>, {}).work = <<j>>
      /\ SampleOk(Ready(<<j>>, {}).sample)
  <2>1. <<j>> \in Seq(JobSet)
    BY <1>5
  <2> QED
    BY Zenon, <1>0, <2>1, ReadyShape
<1>8. th' = [th EXCEPT ![Tip] = Ready(<<j>>, {})]
  BY Zenon, <1>1, <1>6
<1>9. Work' = <<j>>
  BY Zenon, <1>0, <1>2, <1>7, <1>8, ThreadMoves DEF Work
<1>10. /\ \A i \in DOMAIN Work' : i = 1 /\ Work'[i].op = "purge_drop"
       /\ Len(Work') = 1
       /\ \A op : Doing(Tip, op)' => op = "purge_drop"
       /\ Head1(Tip)' = j
  <2>1. DOMAIN <<j>> = {1} /\ <<j>>[1] = j /\ Len(<<j>>) = 1 /\ Head(<<j>>) = j /\ <<j>> # <<>>
    OBVIOUS
  <2> QED
    BY <1>5, <1>9, <2>1 DEF Doing, Head1, Work
<1>c. /\ Confirmed' = Confirmed /\ annotated' = Confirmed'
      /\ \A c : Known(c)' <=> Known(c)
  BY <1>1, <1>3 DEF Confirmed, Known, Creator, OnChain
<1>11. WorkInv'
  BY <1>1, <1>4, <1>5, <1>10, <1>c DEF WorkInv
<1>12. TipInv'
  <2>1. \A pc : ~TipAt("connect", pc)' /\ ~TipAt("disconnect", pc)'
    BY <1>10 DEF TipAt
  <2>2. ~Retreating' /\ ~Doing(Tip, "connect")'
    BY <1>10, <2>1 DEF Retreating
  <2>3. view' % 2 # 1
    BY <1>0, <1>1, <1>3, EvenNotOdd
  <2> QED
    BY <1>10, <1>c, <2>1, <2>2, <2>3 DEF TipInv
<1>13. LiveInv'
  <2>1. ~ScanAhead
    <3>1. DOMAIN Work = {1}
      BY <1>2, <1>4
    <3> QED
      BY <1>2, <3>1 DEF ScanAhead
  <2> QED
    BY <1>0, <1>1, <1>4, <1>c, <2>1 DEF LiveInv
<1>14. MinedInv'
  BY <1>1, <1>4 DEF MinedInv
<1> QED
  BY Zenon, <1>0, <1>1, <1>7, <1>8, <1>11, <1>12, <1>13, <1>14, LockedStep

(* purge_confirmed drops its list and what the chain double spends: nothing  *)
(* that stays is confirmed or spends a coin that the chain has spent.        *)
LEMMA PurgeDropStep ==
    ASSUME Grounded, CoinInv, PoolInv', PurgeDrop
    PROVE  CoinInv'
<1> DEFINE confirmed == Head1(Tip).txs \cap g.live
           remain == g.live \ confirmed
           spent == {c \in UNION {Ins[t] : t \in remain} :
                       Maker[c] \notin remain /\ ChainPrevout(c) = "unavailable"}
<1>0. /\ ShapeInv /\ ChainInv /\ WorkInv /\ TipInv /\ LiveInv /\ MinedInv /\ PoolInv
      /\ view \in Nat /\ chain \in Seq(SUBSET Txs) /\ g'.live \subseteq Txs
  BY DEF CoinInv, ShapeInv, PoolInv, Graph
<1>1. /\ Doing(Tip, "purge_drop") /\ lock = None /\ lock' = None /\ maintained' = TRUE
      /\ UNCHANGED <<chain, annotated, view, moves, received, orphans>>
      /\ g' = Stripped(confirmed, spent)
      /\ Finish(Tip)
  BY DEF PurgeDrop, chainVars
<1>2. /\ Tip \in Threads /\ th[Tip] \in ThreadSet /\ Work \in Seq(JobSet) /\ Work # <<>>
      /\ 1 \in DOMAIN Work /\ Head1(Tip) = Work[1] /\ Work[1].op = "purge_drop"
      /\ ~Doing(Tip, "disconnect") /\ ~Doing(Tip, "connect") /\ ~Doing(Tip, "evict")
  BY <1>0, <1>1, TipHead
<1>3. annotated = Confirmed /\ view % 2 = 0 /\ Joining = {} /\ ~Retreating
  BY <1>0, <1>2, CalmTip
<1>4. Len(Work) = 1 /\ confirmed \subseteq Confirmed
  BY <1>0, <1>1, <1>2 DEF WorkInv
<1>5. ~ScanAhead
  <2>1. DOMAIN Work = {1}
    BY <1>2, <1>4
  <2> QED
    BY <1>2, <2>1 DEF ScanAhead
<1>c. /\ Confirmed' = Confirmed /\ annotated' = Confirmed' /\ view' \in Nat /\ view' % 2 = 0
      /\ \A c : (Spent(c)' <=> Spent(c)) /\ (OnChain(c)' <=> OnChain(c))
  BY <1>0, <1>1, <1>3 DEF Confirmed, Spent, OnChain
<1>6. PICK r \in ThreadSet : /\ th' = [th EXCEPT ![Tip] = r]
                             /\ r.work = <<>> \o Tail(Work) /\ SampleOk(r.sample)
  <2>1. th[Tip].notes \in SUBSET Txs
    BY <1>2 DEF ThreadSet
  <2> QED
    BY Zenon, <1>0, <1>1, <1>2, <2>1, PlainEmpty, ReplaceShape DEF Finish, Work
<1>7. th'[Tip].work = <<>> \o Tail(Work)
  BY Zenon, <1>0, <1>2, <1>6, ThreadMoves
<1>8. th'[Tip].work \in Seq(JobSet) /\ TipRest'
  BY <1>0, <1>2, <1>7, PlainEmpty, ReplaceTip
<1>9. WorkInv' /\ TipInv' /\ Joining' = {}
  BY <1>c, <1>8, RestTip
<1> HIDE DEF spent
<1>10. ASSUME NEW t \in g'.live, NEW c \in Ins[t]
       PROVE  /\ t \in remain /\ c \notin spent
              /\ Maker[c] \in g.live \ g'.live => Maker[c] \in confirmed
  BY <1>0, <1>1, StrippedLeaves DEF PoolInv, GraphAgrees
<1>11. ASSUME NEW t \in g'.live, NEW c \in Ins[t], Spent(c)
       PROVE  Maker[c] \in g'.live \cap Confirmed
  <2>1. PICK u \in Confirmed : c \in Ins[u]
    BY <1>3, <1>11 DEF Spent
  <2>2. OnChain(c)
    BY <1>0, <2>1, SpentOnChain
  <2>3. ChainPrevout(c) = "unavailable"
    BY <1>11, <2>2, HasCoinMeans
  <2>4. Maker[c] \in remain
    BY <1>10, <2>3 DEF spent
  <2>5. Maker[c] # Base
    BY <1>0, <2>4, GraphAssumption DEF PoolInv, Graph
  <2> QED
    BY <1>10, <2>2, <2>4, <2>5 DEF OnChain
<1>12. g'.live \cap Confirmed = {}
  <2> DEFINE S == g'.live \cap Confirmed
  <2>1. ASSUME NEW t \in S PROVE \E c \in Ins[t] : Maker[c] \in S
    <3>1. PICK c \in Ins[t] : TRUE
      BY <1>0, GraphAssumption
    <3>2. Spent(c)
      BY <1>3, <2>1, <3>1 DEF Spent
    <3> QED
      BY <1>11, <2>1, <3>1, <3>2
  <2>2. S \in SUBSET Txs
    BY <1>0
  <2> HIDE DEF S
  <2>3. S = {}
    BY Zenon, <2>1, <2>2 DEF Grounded
  <2> QED
    BY <2>3 DEF S
<1>13. LiveInv'
  <2>1. ASSUME NEW t \in g'.live, NEW c \in Ins[t] PROVE Known(c)' /\ ~Spent(c)'
    <3>1. Known(c)
      BY <1>0, <1>5, <1>10 DEF LiveInv
    <3>2. Known(c)'
      BY <1>4, <1>10, <1>c, <3>1 DEF Known, Creator, OnChain
    <3> QED
      BY <1>11, <1>12, <1>c, <3>2
  <2> QED
    BY <2>1 DEF LiveInv
<1>14. MinedInv'
  BY <1>12, <1>c DEF MinedInv
<1> QED
  BY Zenon, <1>0, <1>1, <1>6, <1>9, <1>13, <1>14, LockedStep

-----------------------------------------------------------------------------
(* The invariant holds at the start. *)
LEMMA CoinInit == MhInit => CoinInv
<1> SUFFICES ASSUME MhInit PROVE CoinInv
  OBVIOUS
<1>1. PoolInv
  BY PoolInit
<1>2. /\ chain = <<>> /\ annotated = {} /\ view = 0 /\ g.live = {} /\ maintained = FALSE
      /\ lock = None /\ moves = 0 /\ received = 0 /\ orphans = [t \in Txs |-> {}]
      /\ th = [a \in Threads |-> Ready(<<>>, {})]
  BY DEF MhInit, EmptyGraph
<1>3. Ready(<<>>, {}) \in ThreadSet /\ Ready(<<>>, {}).work = <<>>
  <2>1. <<>> \in Seq(JobSet) /\ {} \in SUBSET Txs
    OBVIOUS
  <2> QED
    BY Zenon, <2>1, ReadyShape
<1>4. Ready(<<>>, {}).sample.stamp = None
  BY DEF Ready, NoSample
<1>5. Tip \in Threads /\ Work = <<>>
  BY <1>2, <1>3 DEF Threads, Work
<1>6. ShapeInv
  <2>1. th \in [Threads -> ThreadSet] /\ orphans \in [Txs -> SUBSET Txs]
    BY <1>2, <1>3
  <2>2. moves \in 0 .. MaxMoves /\ received \in 0 .. MaxEvents /\ view \in Nat
    BY <1>2, HubAssumption
  <2>3. chain \in Seq(SUBSET Txs)
    BY <1>2
  <2>4. annotated \subseteq Txs /\ maintained \in BOOLEAN
    BY Zenon, <1>2
  <2> QED
    BY <1>2, <2>1, <2>2, <2>3, <2>4 DEF ShapeInv
<1>7. Confirmed = {}
  <2>1. chain \in Seq(SUBSET Txs) /\ Len(chain) = 0
    BY <1>2
  <2>2. ASSUME NEW t PROVE ~(t \in Mined(chain))
    <3>1. t \in Mined(chain) <=> \E i \in 1 .. Len(chain) : t \in chain[i]
      BY Zenon, <2>1, MinedMember
    <3>2. 1 .. Len(chain) = {}
      BY <2>1
    <3> QED
      BY <3>1, <3>2
  <2> QED
    BY <2>2 DEF Confirmed
<1>8. ChainInv
  BY <1>2, <1>7 DEF ChainInv
<1>9. \A op : ~Doing(Tip, op)
  BY <1>5 DEF Doing, Work
<1>10. WorkInv
  BY <1>5, <1>9 DEF WorkInv
<1>11. TipInv
  <2>1. ~Retreating /\ \A op, pc : ~TipAt(op, pc)
    BY <1>9 DEF Retreating, TipAt
  <2>2. view % 2 # 1
    BY <1>2
  <2> QED
    BY <1>2, <1>5, <1>7, <1>9, <2>1, <2>2 DEF TipInv
<1>12. SampleInv /\ LiveInv /\ MinedInv /\ InsertInv
  BY <1>2, <1>4 DEF SampleInv, LiveInv, MinedInv, InsertInv
<1> QED
  BY <1>1, <1>6, <1>8, <1>10, <1>11, <1>12 DEF CoinInv

(* A step that changes nothing. *)
LEMMA CoinStutter ==
    ASSUME CoinInv, PoolInv', UNCHANGED mhVars
    PROVE  CoinInv'
<1>0. /\ ShapeInv /\ ChainInv /\ WorkInv /\ TipInv /\ SampleInv /\ LiveInv /\ MinedInv /\ InsertInv
      /\ UNCHANGED <<chain, annotated, view, g, orphans, maintained, lock, th, moves, received>>
  BY DEF CoinInv, mhVars
<1>1. /\ Confirmed' = Confirmed /\ Work' = Work
      /\ \A a : Head1(a)' = Head1(a)
      /\ \A a, op : Doing(a, op)' <=> Doing(a, op)
      /\ \A op, pc : TipAt(op, pc)' <=> TipAt(op, pc)
      /\ \A a : Admitting(a)' <=> Admitting(a)
  BY <1>0 DEF Confirmed, Work, Head1, Doing, TipAt, Admitting
<1>2. Joining' = Joining /\ (Retreating' <=> Retreating) /\ (ScanAhead' <=> ScanAhead)
  BY <1>0, <1>1 DEF Joining, Retreating, ScanAhead
<1>3. \A c : /\ Known(c)' <=> Known(c)
             /\ OnChain(c)' <=> OnChain(c)
             /\ Spent(c)' <=> Spent(c)
             /\ StripAhead(c)' <=> StripAhead(c)
  BY <1>0, <1>1, <1>2 DEF Known, OnChain, Creator, Spent, StripAhead
<1>4. ShapeInv' /\ ChainInv' /\ WorkInv' /\ MinedInv'
  BY <1>0, <1>1, <1>2 DEF ShapeInv, ChainInv, WorkInv, MinedInv
<1>5. TipInv'
  BY <1>0, <1>1, <1>2 DEF TipInv
<1>6. SampleInv' /\ LiveInv'
  BY <1>0, <1>1, <1>2, <1>3 DEF SampleInv, LiveInv
<1>7. InsertInv'
  BY <1>0, <1>1, <1>2, <1>3 DEF InsertInv
<1> QED
  BY <1>4, <1>5, <1>6, <1>7 DEF CoinInv

(* What the invariant says at rest. *)
LEMMA CoinsSpendable == CoinInv => LiveSpendable
<1>1. SUFFICES ASSUME CoinInv, maintained, Work = <<>>, NEW t \in g.live, NEW c \in Ins[t]
               PROVE  Creator(g, c) \/ HasCoin(c)
  BY DEF LiveSpendable, Work
<1>2. ~ScanAhead
  BY <1>1 DEF ScanAhead
<1>3. Joining = {}
  BY <1>1 DEF Joining, Doing, Work
<1>4. LiveInv
  BY <1>1 DEF CoinInv
<1>5. Known(c) /\ ~Spent(c)
  BY <1>1, <1>2, <1>3, <1>4 DEF LiveInv, StripAhead
<1> QED
  BY <1>5, HasCoinMeans DEF Known

(* The invariant implies the type invariant of the hub. *)
LEMMA CoinsTyped == CoinInv => MhTypeOK
<1> SUFFICES ASSUME CoinInv PROVE MhTypeOK
  OBVIOUS
<1>1. ShapeInv /\ g \in Graph
  BY DEF CoinInv, PoolInv
<1>2. ASSUME NEW a \in Threads
      PROVE  /\ \A i \in DOMAIN th[a].work : th[a].work[i].txs \subseteq Txs
             /\ th[a].missing \subseteq Txs /\ th[a].notes \subseteq Txs
             /\ th[a].sample.had \cup th[a].sample.coins \subseteq Coins
  <2>1. th[a] \in ThreadSet
    BY <1>1 DEF ShapeInv
  <2>2. th[a].work \in Seq(JobSet) /\ th[a].sample \in SampleSet
    BY <2>1 DEF ThreadSet
  <2>3. th[a].missing \subseteq Txs /\ th[a].notes \subseteq Txs
    BY <2>1 DEF ThreadSet
  <2>4. \A w \in Seq(JobSet) : \A i \in DOMAIN w : w[i].txs \subseteq Txs
    <3>1. \A j \in JobSet : j.txs \subseteq Txs
      BY DEF JobSet
    <3> QED
      BY <3>1
  <2>5. th[a].sample.had \cup th[a].sample.coins \subseteq Coins
    BY <2>2 DEF SampleSet
  <2> QED
    BY <2>2, <2>3, <2>4, <2>5
<1> QED
  BY <1>1, <1>2 DEF MhTypeOK, ShapeInv

(* A step that removes an unconfirmed transaction removes its descendants.   *)
LEMMA ChildrenStep == CoinInv /\ [MhNext]_mhVars => [ChildrenLeaveToo]_mhVars
<1> SUFFICES ASSUME CoinInv, MhNext, NEW t \in g'.live, NEW c \in Ins[t],
                    Maker[c] \in g.live \ g'.live
             PROVE  Maker[c] \in Confirmed
  BY DEF ChildrenLeaveToo
<1>0. PoolInv /\ ShapeInv /\ TipInv /\ WorkInv /\ g \in Graph /\ GraphOk(g)
  BY DEF CoinInv, PoolInv, GraphAgrees
<1>1. CASE g' = g
  BY <1>1
<1>2. ASSUME NEW a \in Threads, NEW x \in Txs, CommitInsert(a, x) PROVE FALSE
  BY <1>0, <1>2, CommitLeaves
<1>3. ASSUME Strip, g' # g PROVE Maker[c] \in Confirmed
  <2> DEFINE b == Head1(Tip).txs
  <2>1. g' = Stripped(b, UNION {Ins[u] : u \in b}) /\ TipAt("connect", "strip")
    BY <1>3 DEF Strip
  <2>2. Joining = b
    BY <2>1 DEF Joining, TipAt
  <2>3. b \subseteq Confirmed
    BY <1>0, <2>2, AnnotatedConfirmed
  <2> HIDE DEF b
  <2>4. Maker[c] \in b
    BY <1>0, <2>1, StrippedLeaves
  <2> QED
    BY <2>3, <2>4
<1>4. ASSUME EvictDrop PROVE FALSE
  <2> DEFINE roots == Head1(Tip).txs \cap g.live
  <2>1. g' = Unlink(g, Trees(g, roots))
    BY <1>4 DEF EvictDrop
  <2> HIDE DEF roots
  <2>2. g'.live = g.live \ Trees(g, roots)
    BY <1>0, <2>1, UnlinkLive
  <2>3. t \in g.live /\ Maker[c] \in Trees(g, roots)
    BY <2>2
  <2>4. t \in Trees(g, roots)
    BY <1>0, <2>3, ChildInTrees
  <2> QED
    BY <2>2, <2>4
<1>5. ASSUME PurgeDrop PROVE Maker[c] \in Confirmed
  <2> DEFINE confirmed == Head1(Tip).txs \cap g.live
  <2>1. PICK spent : g' = Stripped(confirmed, spent)
    BY Zenon, <1>5 DEF PurgeDrop
  <2>2. confirmed \subseteq Confirmed
    BY <1>0, <1>5 DEF PurgeDrop, WorkInv
  <2> HIDE DEF confirmed
  <2>3. Maker[c] \in confirmed
    BY <1>0, <2>1, StrippedLeaves
  <2> QED
    BY <2>2, <2>3
<1>6. ASSUME NEW a \in Threads, Step(a), ~\E x \in Txs : CommitInsert(a, x) PROVE g' = g
  BY <1>6 DEF Step, Prepare, ParkOrphan, SampleStamp, SampleCreators, SampleCoins,
              CommitRecheck, TakeOrphans, EndWalk, poolVars
<1>7. ASSUME TipStep, ~Strip, ~EvictDrop, ~PurgeDrop PROVE g' = g
  BY <1>7 DEF TipStep, Advance, Retreat, TurnView, Annotate, EraseForBlock, EvictScan,
              PurgeList, poolVars
<1>8. ASSUME \/ \E a \in Admitters, x \in Txs : Receive(a, x)
             \/ \E b \in SUBSET Txs : StartConnect(b) \/ StartReorg(b)
             \/ StartInvalidate \/ StartMaintain
      PROVE  g' = g
  BY Zenon, <1>8 DEF Receive, StartConnect, StartReorg, StartInvalidate, StartMaintain, Move,
              TipStarts, poolVars
<1> QED
  BY <1>1, <1>2, <1>3, <1>4, <1>5, <1>6, <1>7, <1>8 DEF MhNext, TipStep

(* One spender per outpoint, read off the conflict map. *)
LEMMA GraphOneSpender ==
    ASSUME NEW h \in Graph, GraphOk(h)
    PROVE  Pool!OneSpender(h.live)
<1> SUFFICES ASSUME NEW t \in h.live, NEW u \in h.live, NEW c \in Ins[t] \cap Ins[u]
             PROVE  t = u
  BY DEF Pool!OneSpender
<1>1. h.conflicts[c] = t /\ h.conflicts[c] = u
  BY DEF GraphOk
<1> QED
  BY <1>1

(* The atomic pool, step by step. *)
LEMMA AtomicInit == MhInit => Pool!Init
<1> SUFFICES ASSUME MhInit PROVE Pool!Init
  OBVIOUS
<1>1. Confirmed = {}
  BY DEF MhInit, Confirmed, Mined, Range
<1> QED
  BY <1>1 DEF MhInit, EmptyGraph, Pool!Init

(* Every step of the hub is a step of the atomic pool, or leaves it alone. *)
LEMMA AtomicStep ==
    CoinInv /\ CoinInv' /\ [MhNext]_mhVars /\ [ChildrenLeaveToo]_mhVars
      => [Pool!Next]_<<g.live, Confirmed>>
<1> SUFFICES ASSUME CoinInv, CoinInv', MhNext, ChildrenLeaveToo,
                    ~UNCHANGED <<g.live, Confirmed>>
             PROVE  Pool!Next
  BY DEF mhVars, Confirmed
<1>0. g \in Graph /\ GraphOk(g) /\ g' \in Graph /\ GraphOk(g')
  BY DEF CoinInv, PoolInv, GraphAgrees
<1>1. Pool!WithDescendants
  BY DEF ChildrenLeaveToo, Pool!WithDescendants
<1>2. ASSUME g'.live \subseteq g.live, chain' = chain PROVE Pool!Next
  BY <1>1, <1>2 DEF Pool!Next, Pool!Leave, Confirmed
<1>3. ASSUME NEW a \in Threads, NEW x \in Txs, CommitInsert(a, x) PROVE Pool!Next
  <2>1. chain' = chain
    BY <1>3 DEF CommitInsert, chainVars
  <2>2. \A h, t, gone : /\ Insert(h, t).live = h.live \cup {t}
                        /\ Unlink(h, gone).live = h.live \ gone
    BY DEF Insert, Unlink
  <2>3. g'.live \subseteq g.live \cup {x}
    <3>1. CASE ~Plan(x)
      BY <1>3, <3>1 DEF CommitInsert
    <3>2. CASE Plan(x)
      <4>1. PICK undone, worst :
               g' = Unlink(Insert(Unlink(g, undone), x),
                           Trees(Insert(Unlink(g, undone), x), worst))
        BY <1>3, <3>2 DEF CommitInsert
      <4> QED
        BY <2>2, <4>1
    <3> QED
      BY <3>1, <3>2
  <2>4. CASE x \in g'.live /\ x \notin g.live
    <3>1. Pool!OneSpender(g'.live)
      BY <1>0, GraphOneSpender
    <3> QED
      BY <1>1, <2>1, <2>3, <2>4, <3>1 DEF Pool!Next, Pool!Enter, Confirmed
  <2>5. CASE ~(x \in g'.live /\ x \notin g.live)
    BY <1>2, <2>1, <2>3, <2>5
  <2> QED
    BY <2>4, <2>5
<1>4. ASSUME Strip \/ EvictDrop \/ PurgeDrop PROVE Pool!Next
  <2>1. chain' = chain
    BY <1>4 DEF Strip, EvictDrop, PurgeDrop, chainVars
  <2>2. \A h, gone : Unlink(h, gone).live = h.live \ gone
    BY DEF Unlink
  <2>3. g'.live \subseteq g.live
    <3>1. CASE g' = g
      BY <3>1
    <3>2. CASE \E b, coins : g' = Stripped(b, coins)
      BY <2>2, <3>2 DEF Stripped
    <3>3. CASE \E gone : g' = Unlink(g, gone)
      BY <2>2, <3>3
    <3>4. Strip => g' = g \/ \E b, coins : g' = Stripped(b, coins)
      BY DEF Strip
    <3>5. EvictDrop => \E gone : g' = Unlink(g, gone)
      BY Zenon DEF EvictDrop
    <3>6. PurgeDrop => \E b, coins : g' = Stripped(b, coins)
      BY Zenon DEF PurgeDrop
    <3> QED
      BY <1>4, <3>1, <3>2, <3>3, <3>4, <3>5, <3>6
  <2> QED
    BY <1>2, <2>1, <2>3
<1>5. CASE Advance
  <2>1. g' = g /\ chain' = Append(chain, Head1(Tip).txs)
    BY <1>5 DEF Advance, poolVars
  <2>2. chain \in Seq(SUBSET Txs) /\ chain' \in Seq(SUBSET Txs)
    BY DEF CoinInv, ShapeInv
  <2>3. Confirmed \subseteq Confirmed'
    <3> SUFFICES ASSUME NEW t \in Confirmed PROVE t \in Confirmed'
      OBVIOUS
    <3>1. PICK i \in DOMAIN chain : t \in chain[i]
      BY DEF Confirmed, Mined, Range
    <3>2. i \in DOMAIN chain' /\ chain'[i] = chain[i]
      BY <2>1, <2>2
    <3> QED
      BY <3>1, <3>2 DEF Confirmed, Mined, Range
  <2>4. Confirmed' \subseteq Txs
    BY <2>2 DEF Confirmed, Mined, Range
  <2> QED
    BY <2>1, <2>3, <2>4 DEF Pool!Next, Pool!Connect
<1>6. CASE Retreat
  <2>1. g' = g /\ chain' = WithoutLast(chain)
    BY <1>6 DEF Retreat, poolVars
  <2>2. chain \in Seq(SUBSET Txs)
    BY DEF CoinInv, ShapeInv
  <2>3. Confirmed' \subseteq Confirmed
    <3> SUFFICES ASSUME NEW t \in Confirmed' PROVE t \in Confirmed
      OBVIOUS
    <3>1. PICK i \in DOMAIN chain' : t \in chain'[i]
      BY DEF Confirmed, Mined, Range
    <3>2. i \in DOMAIN chain /\ chain'[i] = chain[i]
      BY <2>1, <2>2 DEF WithoutLast
    <3> QED
      BY <3>1, <3>2 DEF Confirmed, Mined, Range
  <2> QED
    BY <2>1, <2>3 DEF Pool!Next, Pool!Disconnect
<1>7. ASSUME NEW a \in Threads, Step(a), ~\E x \in Txs : CommitInsert(a, x)
      PROVE  g' = g /\ chain' = chain
  BY <1>7 DEF Step, Prepare, ParkOrphan, SampleStamp, SampleCreators, SampleCoins,
              CommitRecheck, TakeOrphans, EndWalk, poolVars, chainVars
<1>8. ASSUME TurnView \/ Annotate \/ EraseForBlock \/ EvictScan \/ PurgeList
      PROVE  g' = g /\ chain' = chain
  BY <1>8 DEF TurnView, Annotate, EraseForBlock, EvictScan, PurgeList, poolVars, chainVars
<1>9. ASSUME \/ \E a \in Admitters, x \in Txs : Receive(a, x)
             \/ \E b \in SUBSET Txs : StartConnect(b) \/ StartReorg(b)
             \/ StartInvalidate \/ StartMaintain
      PROVE  g' = g /\ chain' = chain
  BY Zenon, <1>9 DEF Receive, StartConnect, StartReorg, StartInvalidate, StartMaintain, Move,
              TipStarts, poolVars
<1> QED
  BY <1>3, <1>4, <1>5, <1>6, <1>7, <1>8, <1>9 DEF MhNext, TipStep, Confirmed
=============================================================================
