-------------------------- MODULE MempoolHubProofs --------------------------
(***************************************************************************)
(* For every set of transactions, every number of admission tasks and any  *)
(* number of tip changes: the graph's indexes agree with the live bodies,  *)
(* and no transaction is both live and parked.                             *)
(***************************************************************************)
EXTENDS MempoolHub, TLAPS

(* A removal takes entries out of the live set and nothing else. *)
LEMMA UnlinkLive ==
    ASSUME NEW h \in Graph, NEW gone
    PROVE  Unlink(h, gone) \in Graph /\ Unlink(h, gone).live = h.live \ gone
BY DEF Unlink, Graph

(* graph.rs remove: the edges and the conflict map of what stays are exact. *)
LEMMA UnlinkKeepsGraph ==
    ASSUME NEW h \in Graph, GraphOk(h), NEW gone
    PROVE  GraphOk(Unlink(h, gone))
<1> DEFINE u == Unlink(h, gone)
<1>0. u \in Graph /\ u.live = h.live \ gone
  BY UnlinkLive
<1>1. ASSUME NEW t \in u.live
      PROVE  u.parents[t] = {Maker[c] : c \in Ins[t]} \cap u.live
  <2>1. t \in h.live /\ t \notin gone /\ t \in Txs
    BY <1>0 DEF Graph
  <2>2. u.parents[t] = h.parents[t] \ {y \in gone : t \in h.children[y]}
    BY <2>1 DEF Unlink
  <2>3. h.parents[t] = {Maker[c] : c \in Ins[t]} \cap h.live
    BY <2>1 DEF GraphOk
  <2>4. ASSUME NEW y \in h.parents[t]
        PROVE  t \in h.children[y]
    <3>1. PICK c \in Ins[t] : Maker[c] = y
      BY <2>3
    <3>2. y \in h.live /\ c \in Coins
      BY <2>1, <2>3, GraphAssumption
    <3>3. c \in Ins[t] \cap Outs(y)
      BY <3>1, <3>2 DEF Outs
    <3> QED
      BY <2>1, <3>2, <3>3 DEF GraphOk
  <2> QED
    BY <1>0, <2>2, <2>3, <2>4
<1>2. ASSUME NEW t \in u.live
      PROVE  u.children[t] = {x \in u.live : Ins[x] \cap Outs(t) # {}}
  <2>1. t \in h.live /\ t \notin gone /\ t \in Txs
    BY <1>0 DEF Graph
  <2>2. u.children[t] = h.children[t] \ {y \in gone : t \in h.parents[y]}
    BY <2>1 DEF Unlink
  <2>3. h.children[t] = {x \in h.live : Ins[x] \cap Outs(t) # {}}
    BY <2>1 DEF GraphOk
  <2>4. ASSUME NEW y \in h.children[t]
        PROVE  t \in h.parents[y]
    <3>1. PICK c \in Ins[y] : c \in Outs(t)
      BY <2>3
    <3>2. y \in h.live /\ Maker[c] = t
      BY <2>3, <3>1 DEF Outs
    <3> QED
      BY <2>1, <3>1, <3>2 DEF GraphOk
  <2> QED
    BY <1>0, <2>2, <2>3, <2>4
<1>3. ASSUME NEW t \in Txs \ u.live
      PROVE  u.parents[t] = {} /\ u.children[t] = {}
  <2>1. CASE t \in gone
    BY <2>1 DEF Unlink
  <2>2. CASE t \notin gone
    <3>1. h.parents[t] = {} /\ h.children[t] = {}
      BY <1>0, <2>2 DEF GraphOk
    <3> QED
      BY <2>2, <3>1 DEF Unlink
  <2> QED
    BY <2>1, <2>2
<1>4. ASSUME NEW c \in Coins, u.conflicts[c] # None
      PROVE  u.conflicts[c] \in u.live /\ c \in Ins[u.conflicts[c]]
  <2>1. h.conflicts[c] \notin gone /\ u.conflicts[c] = h.conflicts[c]
    BY <1>4 DEF Unlink
  <2> QED
    BY <1>0, <1>4, <2>1 DEF GraphOk
<1>5. ASSUME NEW t \in u.live, NEW c \in Ins[t]
      PROVE  u.conflicts[c] = t
  <2>1. t \in h.live /\ t \notin gone /\ c \in Coins
    BY <1>0, GraphAssumption DEF Graph
  <2>2. h.conflicts[c] = t
    BY <2>1 DEF GraphOk
  <2> QED
    BY <2>1, <2>2 DEF Unlink
<1> QED
  BY <1>1, <1>2, <1>3, <1>4, <1>5 DEF GraphOk

(* graph.rs insert: once the conflicts are out, the new entry, its parents  *)
(* and the children it had while it was confirmed are linked both ways.     *)
LEMMA InsertKeepsGraph ==
    ASSUME NEW h \in Graph, GraphOk(h), NEW t \in Txs, t \notin h.live,
           \A c \in Ins[t] : h.conflicts[c] = None
    PROVE  Insert(h, t) \in Graph /\ GraphOk(Insert(h, t))
           /\ Insert(h, t).live = h.live \cup {t}
<1> DEFINE n == Insert(h, t)
           up == {Maker[c] : c \in Ins[t]} \cap h.live
           down == Spenders(h, Outs(t))
<1>0. /\ n.live = h.live \cup {t}
      /\ n.parents = [x \in Txs |-> IF x = t THEN up
                                    ELSE IF x \in down THEN h.parents[x] \cup {t}
                                    ELSE h.parents[x]]
      /\ n.children = [x \in Txs |-> IF x = t THEN down
                                     ELSE IF x \in up THEN h.children[x] \cup {t}
                                     ELSE h.children[x]]
      /\ n.conflicts = [c \in Coins |-> IF c \in Ins[t] THEN t ELSE h.conflicts[c]]
  BY DEF Insert
<1>a. /\ h.live \subseteq Txs /\ h.parents \in [Txs -> SUBSET Txs]
      /\ h.children \in [Txs -> SUBSET Txs] /\ h.conflicts \in [Coins -> Txs \cup {None}]
  BY DEF Graph
<1>b. Outs(t) \subseteq Coins
  BY DEF Outs
<1>1. down = {x \in h.live : Ins[x] \cap Outs(t) # {}}
  <2>1. ASSUME NEW x \in down
        PROVE  x \in h.live /\ Ins[x] \cap Outs(t) # {}
    <3>1. PICK c \in Outs(t) : h.conflicts[c] = x /\ x # None
      BY DEF Spenders
    <3> QED
      BY <3>1, <1>b DEF GraphOk
  <2>2. ASSUME NEW x \in h.live, Ins[x] \cap Outs(t) # {}
        PROVE  x \in down
    <3>1. PICK c \in Ins[x] : c \in Outs(t)
      BY <2>2
    <3>2. h.conflicts[c] = x /\ x # None
      BY <1>a, GraphAssumption DEF GraphOk
    <3> QED
      BY <3>1, <3>2 DEF Spenders
  <2> QED
    BY <2>1, <2>2
<1>2. n \in Graph
  <2>1. down \subseteq Txs /\ up \subseteq Txs
    BY <1>1, <1>a
  <2>2. n.conflicts \in [Coins -> Txs \cup {None}]
    BY <1>0, <1>a
  <2> QED
    BY <1>0, <1>a, <2>1, <2>2 DEF Insert, Graph
<1>3. Ins[t] \cap Outs(t) = {}
  BY GraphAssumption DEF Outs
<1>4. ASSUME NEW x \in n.live
      PROVE  n.parents[x] = {Maker[c] : c \in Ins[x]} \cap n.live
  <2>1. CASE x = t
    <3>1. t \notin {Maker[c] : c \in Ins[t]}
      BY GraphAssumption
    <3> QED
      BY <1>0, <2>1, <3>1
  <2>2. CASE x # t
    <3>1. x \in h.live /\ x \in Txs /\ h.parents[x] = {Maker[c] : c \in Ins[x]} \cap h.live
      BY <1>0, <1>a, <2>2 DEF GraphOk
    <3>2. x \in down <=> t \in {Maker[c] : c \in Ins[x]}
      <4>1. ASSUME NEW c \in Ins[x] PROVE c \in Outs(t) <=> Maker[c] = t
        BY <3>1, GraphAssumption DEF Outs
      <4> QED
        BY <1>1, <3>1, <4>1
    <3>3. n.parents[x] = IF x \in down THEN h.parents[x] \cup {t} ELSE h.parents[x]
      BY Zenon, <1>0, <2>2, <3>1
    <3> QED
      BY <1>0, <3>1, <3>2, <3>3
  <2> QED
    BY <2>1, <2>2
<1>5. ASSUME NEW x \in n.live
      PROVE  n.children[x] = {y \in n.live : Ins[y] \cap Outs(x) # {}}
  <2>1. CASE x = t
    BY <1>0, <1>1, <1>3, <2>1
  <2>2. CASE x # t
    <3>1. x \in h.live /\ x \in Txs /\ h.children[x] = {y \in h.live : Ins[y] \cap Outs(x) # {}}
      BY <1>0, <1>a, <2>2 DEF GraphOk
    <3>2. x \in up <=> Ins[t] \cap Outs(x) # {}
      <4>1. ASSUME NEW c \in Ins[t] PROVE c \in Outs(x) <=> Maker[c] = x
        BY GraphAssumption DEF Outs
      <4> QED
        BY <3>1, <4>1
    <3>3. n.children[x] = IF x \in up THEN h.children[x] \cup {t} ELSE h.children[x]
      BY Zenon, <1>0, <2>2, <3>1
    <3> QED
      BY <1>0, <3>1, <3>2, <3>3
  <2> QED
    BY <2>1, <2>2
<1>6. ASSUME NEW x \in Txs \ n.live
      PROVE  n.parents[x] = {} /\ n.children[x] = {}
  <2>1. x # t /\ x \notin h.live /\ x \notin down /\ x \notin up
    BY <1>0, <1>1
  <2> QED
    BY <1>0, <2>1 DEF GraphOk
<1>7. ASSUME NEW c \in Coins, n.conflicts[c] # None
      PROVE  n.conflicts[c] \in n.live /\ c \in Ins[n.conflicts[c]]
  BY <1>0, <1>7 DEF GraphOk
<1>8. ASSUME NEW x \in n.live, NEW c \in Ins[x]
      PROVE  n.conflicts[c] = x
  <2>1. CASE x = t
    BY <1>0, <2>1, GraphAssumption
  <2>2. CASE x # t
    <3>1. c \in Coins /\ x \in Txs /\ h.conflicts[c] = x
      BY <1>0, <1>a, <2>2, GraphAssumption DEF GraphOk
    <3>2. c \notin Ins[t]
      BY <3>1, GraphAssumption
    <3> QED
      BY <1>0, <3>1, <3>2
  <2> QED
    BY <2>1, <2>2
<1> QED
  BY Zenon, <1>0, <1>2, <1>4, <1>5, <1>6, <1>7, <1>8 DEF GraphOk

-----------------------------------------------------------------------------

(* The inductive invariant: GraphAgrees needs the graph's type, and the      *)
(* orphanage must be a function on Txs for a park to touch one entry only.   *)
PoolInv == /\ g \in Graph
           /\ GraphAgrees
           /\ orphans = [t \in Txs |-> orphans[t]]
           /\ LiveNotParked

(* Removing entries keeps the invariant when the orphanage stays. *)
LEMMA RemovalKeepsPool ==
    ASSUME PoolInv, NEW gone, g' = Unlink(g, gone), orphans' = orphans
    PROVE  PoolInv'
<1>1. g' \in Graph /\ g'.live = g.live \ gone
  BY UnlinkLive DEF PoolInv
<1>2. GraphOk(g')
  BY UnlinkKeepsGraph DEF PoolInv, GraphAgrees
<1> QED
  BY <1>1, <1>2 DEF PoolInv, GraphAgrees, LiveNotParked

(* A block strip is two removals. *)
LEMMA StripKeepsPool ==
    ASSUME PoolInv, NEW listed, NEW coins, g' = Stripped(listed, coins), orphans' = orphans
    PROVE  PoolInv'
<1> DEFINE h == Unlink(g, listed)
           gone == Below(h, Spenders(h, coins))
<1>1. h \in Graph /\ GraphOk(h) /\ h.live = g.live \ listed
  BY UnlinkLive, UnlinkKeepsGraph DEF PoolInv, GraphAgrees
<1>2. g' = Unlink(h, gone)
  BY DEF Stripped
<1> HIDE DEF h, gone
<1>3. g' \in Graph /\ GraphOk(g') /\ g'.live = h.live \ gone
  BY <1>1, <1>2, UnlinkLive, UnlinkKeepsGraph
<1> QED
  BY <1>1, <1>3 DEF PoolInv, GraphAgrees, LiveNotParked

(* The commit: every live spender of the new inputs is in the conflict set,  *)
(* so the insert finds them free, and plan_after_script refused a parked tx. *)
LEMMA CommitKeepsPool ==
    ASSUME PoolInv, NEW a \in Threads, NEW x \in Txs, CommitInsert(a, x)
    PROVE  PoolInv'
<1> DEFINE undone == Below(g, Direct(x))
           h == Unlink(g, undone)
           added == Insert(h, x)
<1>1. CASE ~Plan(x)
  BY <1>1 DEF CommitInsert, PoolInv, GraphAgrees, LiveNotParked
<1>2. CASE Plan(x)
  <2>1. x \notin g.live /\ orphans[x] = {}
    BY <1>2 DEF Plan
  <2>2. PICK worst : g' = Unlink(added, Trees(added, worst))
    BY <1>2 DEF CommitInsert
  <2>3. orphans' = orphans
    BY DEF CommitInsert
  <2>4. h \in Graph /\ GraphOk(h) /\ h.live = g.live \ undone
    BY UnlinkLive, UnlinkKeepsGraph DEF PoolInv, GraphAgrees
  <2>5. ASSUME NEW c \in Ins[x] PROVE h.conflicts[c] = None
    <3>1. c \in Coins
      BY GraphAssumption
    <3>2. CASE g.conflicts[c] = None
      BY <3>1, <3>2 DEF Unlink
    <3>3. CASE g.conflicts[c] # None
      <4>1. g.conflicts[c] \in Direct(x) \cap g.live
        BY <3>1, <3>3 DEF Direct, Spenders, PoolInv, GraphAgrees, GraphOk
      <4>2. g.conflicts[c] \in undone
        BY <4>1 DEF Below, PoolInv
      <4> QED
        BY <3>1, <4>2 DEF Unlink
    <3> QED
      BY <3>2, <3>3
  <2> HIDE DEF undone, h
  <2>6. added \in Graph /\ GraphOk(added) /\ added.live = h.live \cup {x}
    BY <2>1, <2>4, <2>5, InsertKeepsGraph
  <2> HIDE DEF added
  <2>7. g' \in Graph /\ GraphOk(g') /\ g'.live \subseteq added.live
    BY <2>2, <2>6, UnlinkLive, UnlinkKeepsGraph
  <2> QED
    BY <2>1, <2>3, <2>4, <2>6, <2>7 DEF PoolInv, GraphAgrees, LiveNotParked
<1> QED
  BY <1>1, <1>2

(* The initial pool satisfies PoolInv. *)
LEMMA PoolInit == MhInit => PoolInv
BY GraphAssumption
   DEF MhInit, PoolInv, EmptyGraph, Graph, GraphAgrees, GraphOk, LiveNotParked

(* Every step of the hub keeps PoolInv. *)
LEMMA PoolStep == PoolInv /\ [MhNext]_mhVars => PoolInv'
<1> SUFFICES ASSUME PoolInv, [MhNext]_mhVars PROVE PoolInv'
  OBVIOUS
<1> DEFINE Same == UNCHANGED <<g, orphans>>
<1>s. ASSUME Same PROVE PoolInv'
  BY <1>s DEF PoolInv, GraphAgrees, LiveNotParked
<1>1. ASSUME NEW a \in Threads, NEW x \in Txs,
             \/ Prepare(a, x) \/ SampleStamp(a, x) \/ SampleCreators(a, x)
             \/ SampleCoins(a, x) \/ CommitRecheck(a, x)
      PROVE  PoolInv'
  <2>1. Same
    BY <1>1 DEF Prepare, SampleStamp, SampleCreators, SampleCoins, CommitRecheck, poolVars
  <2> QED
    BY <2>1, <1>s
<1>2. ASSUME NEW a \in Threads, NEW x \in Txs, ParkOrphan(a, x)
      PROVE  PoolInv'
  <2>1. g' = g
    BY <1>2 DEF ParkOrphan
  <2>2. CASE x \in g.live \/ orphans[x] # {}
    BY <1>2, <2>1, <2>2, <1>s DEF ParkOrphan
  <2>3. CASE ~(x \in g.live \/ orphans[x] # {})
    <3>1. orphans' = [orphans EXCEPT ![x] = th[a].missing]
      BY <1>2, <2>3 DEF ParkOrphan
    <3>2. orphans' = [t \in Txs |-> IF t = x THEN th[a].missing ELSE orphans[t]]
      BY <3>1 DEF PoolInv
    <3>3. g.live \subseteq Txs
      BY DEF PoolInv, Graph
    <3>4. orphans' = [t \in Txs |-> orphans'[t]]
      BY <3>2
    <3>5. LiveNotParked'
      BY <2>1, <2>3, <3>2, <3>3 DEF PoolInv, LiveNotParked
    <3> QED
      BY <2>1, <3>4, <3>5 DEF PoolInv, GraphAgrees
  <2> QED
    BY <2>2, <2>3
<1>3. ASSUME NEW a \in Threads, NEW x \in Txs, CommitInsert(a, x)
      PROVE  PoolInv'
  BY <1>3, CommitKeepsPool
<1>4. ASSUME NEW a \in Threads, TakeOrphans(a)
      PROVE  PoolInv'
  <2>1. g' = g
    BY <1>4 DEF TakeOrphans
  <2>2. PICK kids : orphans' = [k \in Txs |-> IF k \in kids THEN {} ELSE orphans[k]]
    BY Zenon, <1>4 DEF TakeOrphans
  <2>3. g.live \subseteq Txs
    BY DEF PoolInv, Graph
  <2> QED
    BY <2>1, <2>2, <2>3 DEF PoolInv, GraphAgrees, LiveNotParked
<1>5. ASSUME NEW a \in Threads, EndWalk(a)
      PROVE  PoolInv'
  BY <1>5, <1>s DEF EndWalk, poolVars
<1>6. ASSUME NEW a \in Admitters, NEW x \in Txs, Receive(a, x)
      PROVE  PoolInv'
  BY <1>6, <1>s DEF Receive, poolVars
<1>7. ASSUME Advance \/ Retreat \/ TurnView \/ Annotate \/ EvictScan \/ PurgeList
      PROVE  PoolInv'
  BY <1>7, <1>s DEF Advance, Retreat, TurnView, Annotate, EvictScan, PurgeList, poolVars
<1>8. ASSUME Strip
      PROVE  PoolInv'
  <2>1. orphans' = orphans
    BY <1>8 DEF Strip
  <2>2. g' = g \/ \E coins : g' = Stripped(Head1(Tip).txs, coins)
    BY <1>8 DEF Strip
  <2> QED
    BY <2>1, <2>2, <1>s, StripKeepsPool
<1>9. ASSUME EraseForBlock
      PROVE  PoolInv'
  <2>1. g' = g
    BY <1>9 DEF EraseForBlock
  <2>2. PICK b : orphans' = [t \in Txs |-> IF t \in b THEN {} ELSE orphans[t]]
    BY <1>9 DEF EraseForBlock
  <2>3. g.live \subseteq Txs
    BY DEF PoolInv, Graph
  <2> QED
    BY <2>1, <2>2, <2>3 DEF PoolInv, GraphAgrees, LiveNotParked
<1>10. ASSUME EvictDrop
       PROVE  PoolInv'
  <2>1. orphans' = orphans /\ \E gone : g' = Unlink(g, gone)
    BY <1>10 DEF EvictDrop
  <2> QED
    BY <2>1, RemovalKeepsPool
<1>11. ASSUME PurgeDrop
       PROVE  PoolInv'
  <2>1. orphans' = orphans /\ \E listed, coins : g' = Stripped(listed, coins)
    BY <1>11 DEF PurgeDrop
  <2> QED
    BY <2>1, StripKeepsPool
<1>12. ASSUME \/ \E blk \in SUBSET Txs : StartConnect(blk) \/ StartReorg(blk)
              \/ StartInvalidate \/ StartMaintain
       PROVE  PoolInv'
  BY <1>12, <1>s
     DEF StartConnect, StartReorg, StartInvalidate, StartMaintain, Move, TipStarts, poolVars
<1>13. CASE UNCHANGED mhVars
  BY <1>13, <1>s DEF mhVars
<1> QED
  BY <1>1, <1>2, <1>3, <1>4, <1>5, <1>6, <1>7, <1>8, <1>9, <1>10, <1>11, <1>12, <1>13
     DEF MhNext, Step, TipStep

(* However the admission tasks and the tip thread interleave, the edges and  *)
(* the conflict map that replacement, eviction and block strips walk are     *)
(* those of the live bodies.                                                 *)
THEOREM GraphAlwaysAgrees == MhSpec => []GraphAgrees
<1>1. PoolInv => GraphAgrees
  BY DEF PoolInv
<1> QED
  BY <1>1, PoolInit, PoolStep, PTL DEF MhSpec

(* No interleaving of a park, a commit and a promote leaves one transaction  *)
(* in the live set and in the orphanage at once.                             *)
THEOREM NeverLiveAndParked == MhSpec => []LiveNotParked
<1>1. PoolInv => LiveNotParked
  BY DEF PoolInv
<1> QED
  BY <1>1, PoolInit, PoolStep, PTL DEF MhSpec
=============================================================================
