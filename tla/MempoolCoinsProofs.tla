------------------------- MODULE MempoolCoinsProofs -------------------------
(***************************************************************************)
(* For every set of transactions, every number of admission tasks and any  *)
(* number of tip changes: between tip changes the transactions of a        *)
(* maintained pool spend coins that exist and that the chain has not       *)
(* spent, a child never outlives a parent that leaves unconfirmed, and the *)
(* pool implements the atomic one of CoinPool.  The steps of the argument  *)
(* are in MempoolCoinSteps, MempoolTipSteps and MempoolEvictSteps.         *)
(***************************************************************************)
EXTENDS MempoolTipSteps, MempoolEvictSteps, FiniteSetTheorems, WellFoundedInduction

(* Sets of transactions are finite. *)
LEMMA CardsFinite == FiniteCards
BY FS_Subset, FS_CardinalityType, HubAssumption DEF FiniteCards

(* A non-empty set of naturals has a least member. *)
LEMMA LeastNat ==
    ASSUME NEW T, T \subseteq Nat, T # {}
    PROVE  \E m \in T : \A k \in T : m <= k
<1> DEFINE R == OpToRel(<, Nat)
<1>0. \A p, q \in Nat : p < q => <<p, q>> \in R
  BY DEF OpToRel
<1>3. IsWellFoundedOn(R, Nat)
  BY Zenon, NatLessThanWellFounded
<1> HIDE DEF R
<1>1. PICK x \in T : \A y \in T : ~ (<<y, x>> \in R)
  BY Zenon, <1>3, WFMin
<1>2. ASSUME NEW y \in T PROVE x <= y
  <2>1. x \in Nat /\ y \in Nat /\ ~ (y < x)
    BY Zenon, <1>1, <1>0
  <2> QED BY <2>1
<1> QED BY <1>2

(* A set of transactions that holds a maker of an input of each of its       *)
(* members is empty: the first of them in Order has no such maker.           *)
LEMMA NoEndlessParents == Grounded
<1>1. SUFFICES ASSUME NEW S \in SUBSET Txs, S # {},
                      \A t \in S : \E c \in Ins[t] : Maker[c] \in S
               PROVE  FALSE
  BY DEF Grounded
<1> DEFINE T == {i \in DOMAIN Order : Order[i] \in S}
<1>2. T \subseteq Nat /\ T # {}
  <2>1. Order \in Seq(Txs) /\ Txs \subseteq {Order[i] : i \in DOMAIN Order}
    BY HubAssumption
  <2> QED
    BY <1>1, <2>1
<1>3. PICK m \in T : \A k \in T : m <= k
  BY Zenon, <1>2, LeastNat
<1>4. PICK c \in Ins[Order[m]] : Maker[c] \in S
  BY <1>1, <1>3
<1>5. PICK k \in DOMAIN Order : Maker[c] = Order[k]
  BY <1>4, HubAssumption
<1>6. k < m
  BY <1>3, <1>4, <1>5, HubAssumption
<1>7. k \in T
  BY <1>4, <1>5
<1> QED
  BY <1>2, <1>3, <1>6, <1>7

(* Every step of the hub keeps CoinInv. *)
LEMMA CoinStep ==
    ASSUME FiniteCards, Grounded
    PROVE  CoinInv /\ [MhNext]_mhVars => CoinInv'
<1> SUFFICES ASSUME CoinInv, [MhNext]_mhVars PROVE CoinInv'
  OBVIOUS
<1>0. PoolInv'
  BY PoolStep DEF CoinInv
<1>1. CASE UNCHANGED mhVars
  BY <1>0, <1>1, CoinStutter
<1>2. ASSUME NEW a \in Threads, Step(a) PROVE CoinInv'
  BY <1>0, <1>2, PrepareStep, ParkOrphanStep, SampleStampStep, SampleCreatorsStep,
     SampleCoinsStep, CommitRecheckStep, CommitInsertStep, TakeOrphansStep, EndWalkStep
     DEF Step
<1>3. ASSUME NEW a \in Admitters, NEW x \in Txs, Receive(a, x) PROVE CoinInv'
  BY <1>0, <1>3, ReceiveStep
<1>4. CASE TipStep
  BY <1>0, <1>4, AdvanceStep, RetreatStep, TurnViewStep, AnnotateStep, StripStep, EraseStep,
     EvictScanStep, EvictDropStep, PurgeListStep, PurgeDropStep DEF TipStep
<1>5. ASSUME NEW b \in SUBSET Txs, StartConnect(b) \/ StartReorg(b) PROVE CoinInv'
  BY <1>0, <1>5, StartConnectStep, StartReorgStep
<1>6. CASE StartInvalidate
  BY <1>0, <1>6, StartInvalidateStep
<1>7. CASE StartMaintain
  BY <1>0, <1>7, StartMaintainStep
<1> QED
  BY <1>1, <1>2, <1>3, <1>4, <1>5, <1>6, <1>7 DEF MhNext

(* CoinInv holds in every reachable state. *)
LEMMA CoinAlways == MhSpec => []CoinInv
<1>1. CoinInv /\ [MhNext]_mhVars => CoinInv'
  BY CardsFinite, NoEndlessParents, CoinStep
<1> QED
  BY <1>1, CoinInit, PTL DEF MhSpec

(* Between tip changes every input of a maintained pool can be spent,        *)
(* whatever the commits that sampled their coins before a connect, a reorg   *)
(* or the purge at the end of the download; no transaction is both live and  *)
(* parked, and every variable keeps its shape.                               *)
THEOREM CoinsAlwaysSafe == MhSpec => []CoinsSafe
<1>1. CoinInv => CoinsSafe
  BY CoinsSpendable, CoinsTyped DEF CoinsSafe, CoinInv, PoolInv
<1> QED
  BY <1>1, CoinAlways, PTL

(* Whoever removes a transaction that is not confirmed removes its live      *)
(* descendants in the same step: replacement, eviction for weight, the       *)
(* strip of a block, the eviction after a reorg and the purge.               *)
THEOREM ChildrenAlwaysLeaveToo == MhSpec => [][ChildrenLeaveToo]_mhVars
BY CoinAlways, ChildrenStep, PTL DEF MhSpec

(* The staged, locked and concurrent admission implements the atomic pool:   *)
(* the live set and the confirmed transactions of every behaviour are a      *)
(* behaviour of CoinPool.                                                    *)
THEOREM PoolIsAtomic == MhSpec => AtomicPool
BY AtomicInit, AtomicStep, CoinAlways, ChildrenAlwaysLeaveToo, PTL
   DEF MhSpec, AtomicPool, Pool!Spec
=============================================================================
