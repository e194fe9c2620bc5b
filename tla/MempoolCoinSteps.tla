-------------------------- MODULE MempoolCoinSteps --------------------------
(***************************************************************************)
(* For every set of transactions, every number of admission tasks and any  *)
(* number of tip changes: between tip changes the transactions of a        *)
(* maintained pool spend coins that exist and that the chain has not       *)
(* spent, and a child never outlives a parent that leaves unconfirmed.     *)
(***************************************************************************)
EXTENDS MempoolHubProofs

(* Two facts about the finite, acyclic set of transactions, which            *)
(* MempoolCoinsProofs derives from the assumptions on the constants.         *)
FiniteCards == \A txs \in SUBSET Txs : Cardinality(txs) \in Nat
Grounded == \A S \in SUBSET Txs :
               (\A t \in S : \E c \in Ins[t] : Maker[c] \in S) => S = {}

(* The conflict set is live, holds its seeds and is closed under children. *)
LEMMA BelowClosed ==
    ASSUME NEW h, NEW direct
    PROVE  /\ Below(h, direct) \subseteq h.live
           /\ direct \cap h.live \subseteq Below(h, direct)
           /\ \A y \in Below(h, direct) : h.children[y] \cap h.live \subseteq Below(h, direct)
BY DEF Below

(* Over exact edges: the spender of an output of the set is in the set. *)
LEMMA ChildBelow ==
    ASSUME NEW h \in Graph, GraphOk(h), NEW direct,
           NEW t \in h.live, NEW c \in Ins[t], Maker[c] \in Below(h, direct)
    PROVE  t \in Below(h, direct)
<1>1. Maker[c] \in h.live
  BY BelowClosed
<1>2. t \in Txs /\ c \in Coins
  BY GraphAssumption DEF Graph
<1>3. c \in Ins[t] \cap Outs(Maker[c])
  BY <1>2 DEF Outs
<1>4. t \in h.children[Maker[c]]
  BY <1>1, <1>3 DEF GraphOk
<1> QED
  BY <1>4, BelowClosed

(* unlink_tree takes the spenders of what it takes. *)
LEMMA ChildInTrees ==
    ASSUME NEW h \in Graph, GraphOk(h), NEW roots,
           NEW t \in h.live, NEW c \in Ins[t], Maker[c] \in Trees(h, roots)
    PROVE  t \in Trees(h, roots)
<1>1. PICK r \in roots : Maker[c] \in Tree(h, r)
  BY DEF Trees
<1>2. t \in Txs /\ c \in Coins /\ t # None
  BY GraphAssumption DEF Graph
<1>3. CASE Maker[c] \in Below(h, Spenders(h, Outs(r)))
  BY <1>1, <1>3, ChildBelow DEF Tree, Trees
<1>4. CASE Maker[c] = r
  <2>1. c \in Outs(r)
    BY <1>2, <1>4 DEF Outs
  <2>2. h.conflicts[c] = t
    BY DEF GraphOk
  <2>3. t \in Spenders(h, Outs(r)) \cap h.live
    BY <1>2, <2>1, <2>2 DEF Spenders
  <2> QED
    BY <2>3, BelowClosed DEF Tree, Trees
<1> QED
  BY <1>1, <1>3, <1>4 DEF Tree

(* What a block strip leaves: none of the listed, no spender of the coins,   *)
(* and no child of a transaction that left, unless that one was listed.      *)
LEMMA StrippedLeaves ==
    ASSUME g \in Graph, GraphOk(g), NEW b, NEW coins,
           NEW t \in Stripped(b, coins).live, NEW c \in Ins[t]
    PROVE  /\ t \in g.live \ b
           /\ c \notin coins
           /\ Maker[c] \in g.live \ Stripped(b, coins).live => Maker[c] \in b
<1> DEFINE h == Unlink(g, b)
           gone == Below(h, Spenders(h, coins))
<1>1. h \in Graph /\ GraphOk(h) /\ h.live = g.live \ b
  BY UnlinkLive, UnlinkKeepsGraph
<1>2. Stripped(b, coins) = Unlink(h, gone)
  BY DEF Stripped
<1>3. Stripped(b, coins).live = h.live \ gone
  BY <1>1, <1>2, UnlinkLive
<1>4. t \in h.live /\ t \notin gone /\ t \in Txs /\ c \in Coins /\ t # None
  BY <1>1, <1>3, GraphAssumption DEF Graph
<1> HIDE DEF h
<1>5. c \notin coins
  <2>1. SUFFICES ASSUME c \in coins PROVE FALSE
    OBVIOUS
  <2>2. h.conflicts[c] = t
    BY <1>1, <1>4 DEF GraphOk
  <2>3. t \in Spenders(h, coins) \cap h.live
    BY <1>4, <2>1, <2>2 DEF Spenders
  <2> QED
    BY <1>4, <2>3, BelowClosed
<1>6. Maker[c] \notin gone
  BY <1>1, <1>4, ChildBelow
<1> QED
  BY <1>1, <1>3, <1>4, <1>5, <1>6

(* What a commit leaves: at most x is new, and every live maker of an input  *)
(* of what stays has stayed.                                                 *)
LEMMA CommitLeaves ==
    ASSUME PoolInv, NEW a \in Threads, NEW x \in Txs, CommitInsert(a, x),
           NEW t \in g'.live, NEW c \in Ins[t]
    PROVE  /\ t \in g.live \cup {x}
           /\ Maker[c] \in g.live => Maker[c] \in g'.live
<1> DEFINE undone == Below(g, Direct(x))
           h == Unlink(g, undone)
           added == Insert(h, x)
<1>1. CASE ~Plan(x)
  BY <1>1 DEF CommitInsert
<1>2. CASE Plan(x)
  <2>0. g \in Graph /\ GraphOk(g)
    BY DEF PoolInv, GraphAgrees
  <2>1. x \notin g.live /\ \A i \in Ins[x] : Maker[i] \notin undone
    BY <1>2 DEF Plan
  <2>2. PICK worst : g' = Unlink(added, Trees(added, worst))
    BY <1>2 DEF CommitInsert
  <2>3. h \in Graph /\ GraphOk(h) /\ h.live = g.live \ undone
    BY <2>0, UnlinkLive, UnlinkKeepsGraph
  <2>4. added \in Graph /\ GraphOk(added) /\ added.live = h.live \cup {x}
    <3>1. ASSUME NEW i \in Ins[x] PROVE h.conflicts[i] = None
      <4>1. i \in Coins
        BY GraphAssumption
      <4>2. CASE g.conflicts[i] = None
        BY <4>1, <4>2 DEF Unlink
      <4>3. CASE g.conflicts[i] # None
        <5>1. g.conflicts[i] \in Direct(x) \cap g.live
          BY <2>0, <4>1, <4>3 DEF Direct, Spenders, GraphOk
        <5>2. g.conflicts[i] \in undone
          BY <5>1, BelowClosed
        <5> QED
          BY <4>1, <5>2 DEF Unlink
      <4> QED
        BY <4>2, <4>3
    <3> HIDE DEF undone, h
    <3> QED
      BY <2>1, <2>3, <3>1, InsertKeepsGraph
  <2> HIDE DEF h, added
  <2>5. g'.live = added.live \ Trees(added, worst)
    BY <2>2, <2>4, UnlinkLive
  <2>6. t \in added.live /\ t \notin Trees(added, worst)
    BY <2>5
  <2>7. Maker[c] \notin Trees(added, worst)
    BY <2>4, <2>6, ChildInTrees
  <2>8. Maker[c] \notin undone
    <3>1. CASE t = x
      BY <2>1, <3>1
    <3>2. CASE t # x
      <4>1. t \in g.live /\ t \notin undone
        BY <2>3, <2>4, <2>6, <3>2
      <4> QED
        BY <2>0, <4>1, ChildBelow
    <3> QED
      BY <3>1, <3>2
  <2> QED
    BY <2>3, <2>4, <2>5, <2>6, <2>7, <2>8
<1> QED
  BY <1>1, <1>2

-----------------------------------------------------------------------------
(* The inductive invariant of LiveSpendable.  What the pool spends may be     *)
(* wrong only while the tip thread has the job that puts it right ahead of    *)
(* it: the strip of the block it is connecting, or a scan after a disconnect. *)

Work == th[Tip].work

Spent(c) == \E u \in annotated : c \in Ins[u]

OnChain(c) == Maker[c] \in Confirmed \cup {Base}

Known(c) == Creator(g, c) \/ OnChain(c)

ScanAhead == \E i \in DOMAIN Work : Work[i].op = "scan"

(* The block whose rows are visible and whose strip is ahead. *)
Joining == IF Doing(Tip, "connect") /\ th[Tip].pc # "start" THEN Head1(Tip).txs ELSE {}

StripAhead(c) == \E u \in Joining : c \in Ins[u]

Ops == {"relay", "restore", "reorg", "take", "end", "erase", "scan", "evict",
        "connect", "disconnect", "purge", "purge_drop"}

Pcs == {"start", "park", "stamp", "creators", "coins", "commit", "insert",
        "hold", "annotate", "release", "strip", "retreat"}

JobSet == [op : Ops, txs : SUBSET Txs]

SampleSet == [stamp : Nat \cup {None}, had : SUBSET Coins, coins : SUBSET Coins]

ThreadSet == [work : Seq(JobSet), pc : Pcs, missing : SUBSET Txs,
              sample : SampleSet, notes : SUBSET Txs]

(* Shapes. *)
ShapeInv ==
    /\ chain \in Seq(SUBSET Txs) /\ annotated \subseteq Txs /\ view \in Nat
    /\ orphans \in [Txs -> SUBSET Txs] /\ maintained \in BOOLEAN
    /\ lock \in Threads \cup {None}
    /\ th \in [Threads -> ThreadSet]
    /\ moves \in 0 .. MaxMoves /\ received \in 0 .. MaxEvents

(* The blocks are disjoint, spend what they or their ancestors make, and     *)
(* spend it once.                                                            *)
ChainInv ==
    /\ \A i \in DOMAIN chain : \A t \in chain[i] : \A c \in Ins[t] :
         Maker[c] = Base \/ \E j \in 1 .. i : Maker[c] \in chain[j]
    /\ \A i, j \in DOMAIN chain : i # j => chain[i] \cap chain[j] = {}
    /\ \A t, u \in Confirmed : t # u => Ins[t] \cap Ins[u] = {}

(* Where the tip thread is: a disconnect and a connect are in front, scans   *)
(* follow every disconnect, a purge is alone.                                *)
WorkInv ==
    /\ \A i \in DOMAIN Work :
         /\ Work[i].op = "disconnect" => i = 1 /\ ScanAhead
         /\ Work[i].op = "connect" => i = 1 \/ (i = 2 /\ Doing(Tip, "disconnect"))
         /\ Work[i].op \in {"purge", "purge_drop"} => Len(Work) = 1 /\ ~maintained
         /\ Work[i].op = "evict" => i = 1 /\ Len(Work) > 1 /\ Work[2].op = "scan"
    /\ Doing(Tip, "connect") => th[Tip].pc \in {"start", "hold", "annotate", "release", "strip"}
    /\ Doing(Tip, "disconnect") => th[Tip].pc \in {"start", "retreat", "release"}
    /\ Doing(Tip, "purge_drop") => Head1(Tip).txs \subseteq Confirmed

Retreating == TipAt("disconnect", "start") \/ TipAt("disconnect", "retreat")

(* The chain on which the next connect was found to be valid. *)
TipInv ==
    /\ Retreating => chain # <<>>
    /\ \A i \in DOMAIN Work :
         Work[i].op = "connect" /\ (i = 1 => th[Tip].pc = "start") =>
           Connects(IF Retreating THEN WithoutLast(chain) ELSE chain, Work[i].txs)
    /\ Doing(Tip, "connect") /\ th[Tip].pc # "start" =>
         chain # <<>> /\ LastBlock(chain) = Head1(Tip).txs
    /\ annotated = IF TipAt("connect", "hold") \/ TipAt("connect", "annotate")
                   THEN Mined(WithoutLast(chain)) ELSE Confirmed
    /\ view % 2 = 1 <=> \/ TipAt("connect", "annotate") \/ TipAt("connect", "release")
                        \/ TipAt("disconnect", "retreat") \/ TipAt("disconnect", "release")

(* A sample that is still fresh is true. *)
SampleInv ==
    \A a \in Threads : LET s == th[a].sample IN
      s.stamp # None =>
        /\ s.stamp <= view /\ s.stamp % 2 = 0
        /\ s.stamp = view => \A c \in s.coins : OnChain(c) /\ ~Spent(c)

LiveInv ==
    \A t \in g.live : \A c \in Ins[t] :
      /\ Known(c) \/ (ScanAhead /\ (Doing(Tip, "evict") => t \in Head1(Tip).txs))
      /\ Spent(c) => ~maintained \/ StripAhead(c)

(* A maintained pool holds no confirmed transaction but those the strip takes. *)
MinedInv == maintained => g.live \cap Confirmed \subseteq Joining

(* The same for the transaction whose coins were just rechecked. *)
InsertInv ==
    lock # None =>
      /\ Admitting(lock) /\ th[lock].pc = "insert"
      /\ \A x \in Head1(lock).txs : \A c \in Ins[x] :
           /\ Known(c) \/ (ScanAhead /\ ~Doing(Tip, "evict"))
           /\ Spent(c) => ~maintained \/ StripAhead(c)

CoinInv == /\ PoolInv /\ ShapeInv /\ ChainInv /\ WorkInv /\ TipInv
           /\ SampleInv /\ LiveInv /\ MinedInv /\ InsertInv

-----------------------------------------------------------------------------
(* The chain. *)

(* The members of a chain are those of its blocks. *)
LEMMA MinedMember ==
    ASSUME NEW S, NEW blocks \in Seq(S), NEW t
    PROVE  t \in Mined(blocks) <=> \E i \in 1 .. Len(blocks) : t \in blocks[i]
BY DEF Mined, Range

(* A chain without its last block, and with one more. *)
LEMMA FrontOfChain ==
    ASSUME NEW S, NEW blocks \in Seq(S), blocks # <<>>
    PROVE  /\ WithoutLast(blocks) \in Seq(S)
           /\ Len(WithoutLast(blocks)) = Len(blocks) - 1
           /\ \A i \in 1 .. Len(blocks) - 1 : WithoutLast(blocks)[i] = blocks[i]
           /\ Mined(blocks) = Mined(WithoutLast(blocks)) \cup LastBlock(blocks)
<1>1. /\ WithoutLast(blocks) \in Seq(S)
      /\ Len(WithoutLast(blocks)) = Len(blocks) - 1
      /\ \A i \in 1 .. Len(blocks) - 1 : WithoutLast(blocks)[i] = blocks[i]
      /\ Len(blocks) \in Nat /\ Len(blocks) >= 1
  BY DEF WithoutLast
<1>2. LastBlock(blocks) = blocks[Len(blocks)]
  BY DEF LastBlock
<1>3. ASSUME NEW t PROVE t \in Mined(blocks) <=> t \in Mined(WithoutLast(blocks)) \cup LastBlock(blocks)
  <2>1. t \in Mined(blocks) <=> \E i \in 1 .. Len(blocks) : t \in blocks[i]
    BY MinedMember
  <2>2. t \in Mined(WithoutLast(blocks)) <=> \E i \in 1 .. Len(blocks) - 1 : t \in blocks[i]
    BY <1>1, MinedMember
  <2> QED
    BY <1>1, <1>2, <2>1, <2>2
<1> QED
  BY <1>1, <1>3

(* A block appended to the chain is its last, and adds its transactions. *)
LEMMA ChainAppend ==
    ASSUME NEW S, NEW blocks \in Seq(S), NEW b \in S
    PROVE  /\ Append(blocks, b) \in Seq(S) /\ Append(blocks, b) # <<>>
           /\ Len(Append(blocks, b)) = Len(blocks) + 1
           /\ WithoutLast(Append(blocks, b)) = blocks
           /\ LastBlock(Append(blocks, b)) = b
           /\ Mined(Append(blocks, b)) = Mined(blocks) \cup b
<1> DEFINE n == Append(blocks, b)
<1>1. /\ n \in Seq(S) /\ n # <<>> /\ Len(n) = Len(blocks) + 1
      /\ n[Len(n)] = b
      /\ \A i \in 1 .. Len(blocks) : n[i] = blocks[i]
  OBVIOUS
<1>2. LastBlock(n) = b
  BY <1>1 DEF LastBlock
<1>3. WithoutLast(n) = blocks
  BY <1>1 DEF WithoutLast
<1> HIDE DEF n
<1>4. Mined(n) = Mined(blocks) \cup b
  BY <1>1, <1>2, <1>3, FrontOfChain
<1> QED
  BY <1>1, <1>2, <1>3, <1>4 DEF n

(* A block that connects keeps the chain consistent. *)
LEMMA AdvanceChain ==
    ASSUME chain \in Seq(SUBSET Txs), ChainInv,
           NEW b \in SUBSET Txs, Connects(chain, b), chain' = Append(chain, b)
    PROVE  ChainInv'
<1>0. /\ Len(chain) \in Nat /\ Len(chain') = Len(chain) + 1
      /\ DOMAIN chain = 1 .. Len(chain) /\ DOMAIN chain' = 1 .. Len(chain) + 1
      /\ chain'[Len(chain) + 1] = b
      /\ \A i \in 1 .. Len(chain) : chain'[i] = chain[i]
  OBVIOUS
<1>1. Confirmed' = Confirmed \cup b
  BY ChainAppend DEF Confirmed
<1>2. /\ b \cap Confirmed = {}
      /\ \A t \in b : \A c \in Ins[t] : /\ Maker[c] \in Confirmed \cup b \cup {Base}
                                        /\ \A u \in (Confirmed \cup b) \ {t} : c \notin Ins[u]
  BY DEF Connects, Confirmed
<1>m. \A t : t \in Confirmed <=> \E i \in 1 .. Len(chain) : t \in chain[i]
  BY MinedMember DEF Confirmed
<1>3. ASSUME NEW i \in DOMAIN chain', NEW t \in chain'[i], NEW c \in Ins[t]
      PROVE  Maker[c] = Base \/ \E j \in 1 .. i : Maker[c] \in chain'[j]
  <2>1. CASE i = Len(chain) + 1
    <3>1. Maker[c] \in Confirmed \cup b \cup {Base}
      BY <1>0, <1>2, <2>1
    <3>2. CASE Maker[c] \in Confirmed
      <4>1. PICK j \in 1 .. Len(chain) : Maker[c] \in chain[j]
        BY <1>m, <3>2
      <4>2. j \in 1 .. i /\ Maker[c] \in chain'[j]
        BY <1>0, <2>1, <4>1
      <4> QED
        BY <4>2
    <3>3. CASE Maker[c] \in b
      <4>1. i \in 1 .. i /\ Maker[c] \in chain'[i]
        BY <1>0, <2>1, <3>3
      <4> QED
        BY <4>1
    <3> QED
      BY <3>1, <3>2, <3>3
  <2>2. CASE i # Len(chain) + 1
    <3>1. i \in DOMAIN chain /\ t \in chain[i]
      BY <1>0, <2>2
    <3>2. Maker[c] = Base \/ \E j \in 1 .. i : Maker[c] \in chain[j]
      BY <3>1 DEF ChainInv
    <3>3. \A j \in 1 .. i : chain'[j] = chain[j]
      BY <1>0, <3>1
    <3> QED
      BY <3>2, <3>3
  <2> QED
    BY <2>1, <2>2
<1>4. ASSUME NEW i \in DOMAIN chain', NEW j \in DOMAIN chain', i # j
      PROVE  chain'[i] \cap chain'[j] = {}
  <2>1. ASSUME NEW k \in 1 .. Len(chain) PROVE chain[k] \cap b = {}
    BY <1>2, <1>m
  <2> QED
    BY <1>0, <1>4, <2>1 DEF ChainInv
<1>5. ASSUME NEW t \in Confirmed', NEW u \in Confirmed', t # u
      PROVE  Ins[t] \cap Ins[u] = {}
  BY <1>1, <1>2, <1>5 DEF ChainInv
<1> QED
  BY <1>3, <1>4, <1>5 DEF ChainInv

(* So does the disconnect of the last block. *)
LEMMA RetreatChain ==
    ASSUME chain \in Seq(SUBSET Txs), ChainInv, chain # <<>>, chain' = WithoutLast(chain)
    PROVE  /\ ChainInv'
           /\ Confirmed' = Confirmed \ LastBlock(chain)
<1>0. /\ Len(chain) \in Nat /\ Len(chain) >= 1 /\ Len(chain') = Len(chain) - 1
      /\ DOMAIN chain = 1 .. Len(chain) /\ DOMAIN chain' = 1 .. Len(chain) - 1
      /\ \A i \in 1 .. Len(chain) - 1 : chain'[i] = chain[i]
      /\ LastBlock(chain) = chain[Len(chain)]
  BY FrontOfChain DEF LastBlock
<1>1. Confirmed = Confirmed' \cup LastBlock(chain)
  BY FrontOfChain DEF Confirmed
<1>m. \A t : t \in Confirmed' <=> \E i \in 1 .. Len(chain) - 1 : t \in chain[i]
  BY <1>0, FrontOfChain, MinedMember DEF Confirmed
<1>2. Confirmed' \cap LastBlock(chain) = {}
  <2>1. ASSUME NEW i \in 1 .. Len(chain) - 1 PROVE chain[i] \cap LastBlock(chain) = {}
    BY <1>0 DEF ChainInv
  <2> QED
    BY <1>m, <2>1
<1>3. ASSUME NEW i \in DOMAIN chain', NEW t \in chain'[i], NEW c \in Ins[t]
      PROVE  Maker[c] = Base \/ \E j \in 1 .. i : Maker[c] \in chain'[j]
  <2>1. i \in DOMAIN chain /\ t \in chain[i] /\ \A j \in 1 .. i : chain'[j] = chain[j]
    BY <1>0
  <2>2. Maker[c] = Base \/ \E j \in 1 .. i : Maker[c] \in chain[j]
    BY <2>1 DEF ChainInv
  <2> QED
    BY <2>1, <2>2
<1>4. ASSUME NEW i \in DOMAIN chain', NEW j \in DOMAIN chain', i # j
      PROVE  chain'[i] \cap chain'[j] = {}
  BY <1>0, <1>4 DEF ChainInv
<1>5. ASSUME NEW t \in Confirmed', NEW u \in Confirmed', t # u
      PROVE  Ins[t] \cap Ins[u] = {}
  BY <1>1, <1>5 DEF ChainInv
<1> QED
  BY <1>1, <1>2, <1>3, <1>4, <1>5 DEF ChainInv

(* What a confirmed transaction spends was made by the chain, and if the     *)
(* last block made it, the last block spends it.                             *)
LEMMA SpentOnChain ==
    ASSUME chain \in Seq(SUBSET Txs), ChainInv, NEW u \in Confirmed, NEW c \in Ins[u]
    PROVE  /\ OnChain(c)
           /\ chain # <<>> /\ Maker[c] \in LastBlock(chain) /\ Maker[c] # Base => u \in LastBlock(chain)
<1>m. \A t : t \in Confirmed <=> \E i \in 1 .. Len(chain) : t \in chain[i]
  BY MinedMember DEF Confirmed
<1>1. PICK i \in 1 .. Len(chain) : u \in chain[i]
  BY <1>m
<1>2. Maker[c] = Base \/ \E j \in 1 .. i : Maker[c] \in chain[j]
  BY <1>1 DEF ChainInv
<1>3. OnChain(c)
  <2>1. CASE Maker[c] = Base
    BY <2>1 DEF OnChain
  <2>2. CASE Maker[c] # Base
    <3>1. PICK j \in 1 .. i : Maker[c] \in chain[j]
      BY <1>2, <2>2
    <3>2. j \in 1 .. Len(chain)
      BY <1>1
    <3> QED
      BY <1>m, <3>1, <3>2 DEF OnChain
  <2> QED
    BY <2>1, <2>2
<1>4. ASSUME chain # <<>>, Maker[c] \in LastBlock(chain), Maker[c] # Base PROVE u \in LastBlock(chain)
  <2>1. PICK j \in 1 .. i : Maker[c] \in chain[j]
    BY <1>2, <1>4
  <2>2. Len(chain) \in DOMAIN chain /\ j \in DOMAIN chain /\ LastBlock(chain) = chain[Len(chain)]
    BY <1>1, <1>4 DEF LastBlock
  <2>3. j = Len(chain)
    BY <1>4, <2>1, <2>2 DEF ChainInv
  <2>4. i = Len(chain)
    BY <2>3, <2>1, <1>1
  <2> QED
    BY <1>1, <2>2, <2>4
<1> QED
  BY <1>3, <1>4

-----------------------------------------------------------------------------
(* Worklists. *)

PlainOps == {"relay", "restore", "reorg", "take", "end", "erase"}

PlainJobs == {jobs \in Seq(JobSet) : \A i \in DOMAIN jobs : jobs[i].op \in PlainOps}

(* The tip thread has no job that moves the chain or removes from the pool. *)
TipRest == \A i \in DOMAIN Work :
             Work[i].op \notin {"connect", "disconnect", "evict", "purge", "purge_drop"}

(* A list of jobs in front of the rest of a worklist. *)
LEMMA WorkAfter ==
    ASSUME NEW w \in Seq(JobSet), w # <<>>, NEW jobs \in Seq(JobSet)
    PROVE  /\ jobs \o Tail(w) \in Seq(JobSet)
           /\ Len(jobs \o Tail(w)) = Len(jobs) + Len(w) - 1
           /\ \A i \in 1 .. Len(jobs) : (jobs \o Tail(w))[i] = jobs[i]
           /\ \A k \in 2 .. Len(w) : (jobs \o Tail(w))[Len(jobs) + k - 1] = w[k]
<1>1. /\ Tail(w) \in Seq(JobSet) /\ Len(Tail(w)) = Len(w) - 1
      /\ \A k \in 1 .. Len(w) - 1 : Tail(w)[k] = w[k + 1]
      /\ Len(w) \in Nat /\ Len(w) >= 1 /\ Len(jobs) \in Nat
  OBVIOUS
<1> DEFINE v == Tail(w)
<1> HIDE DEF v
<1>2. /\ jobs \o v \in Seq(JobSet)
      /\ Len(jobs \o v) = Len(jobs) + Len(v)
      /\ \A i \in 1 .. Len(jobs) : (jobs \o v)[i] = jobs[i]
      /\ \A i \in 1 .. Len(v) : (jobs \o v)[Len(jobs) + i] = v[i]
  <2>1. v \in Seq(JobSet)
    BY <1>1 DEF v
  <2> QED
    BY <2>1
<1>3. ASSUME NEW k \in 2 .. Len(w) PROVE (jobs \o v)[Len(jobs) + k - 1] = w[k]
  <2>1. k - 1 \in 1 .. Len(v)
    BY <1>1 DEF v
  <2>2. (jobs \o v)[Len(jobs) + (k - 1)] = v[k - 1] /\ v[k - 1] = w[(k - 1) + 1]
    BY <1>1, <1>2, <2>1 DEF v
  <2> QED
    BY <1>1, <2>2
<1> QED
  BY <1>1, <1>2, <1>3 DEF v

(* One job for each of a set of transactions. *)
LEMMA JobsShape ==
    ASSUME FiniteCards, NEW op \in Ops, NEW txs \in SUBSET Txs
    PROVE  Jobs(op, txs) \in Seq(JobSet) /\ \A i \in DOMAIN Jobs(op, txs) : Jobs(op, txs)[i].op = op
<1>1. Cardinality(txs) \in Nat
  BY DEF FiniteCards
<1>2. PICK F : /\ Jobs(op, txs) = [i \in 1 .. Cardinality(txs) |-> Job(op, F[i])]
               /\ F \in [1 .. Cardinality(txs) -> SUBSET Txs]
  <2> DEFINE before(x) == {y \in txs : \E i, j \in DOMAIN Order :
                                        i <= j /\ Order[i] = y /\ Order[j] = x}
             F == [i \in 1 .. Cardinality(txs) |-> {x \in txs : Cardinality(before(x)) = i}]
  <2>1. Jobs(op, txs) = [i \in 1 .. Cardinality(txs) |-> Job(op, F[i])]
    BY DEF Jobs
  <2>2. F \in [1 .. Cardinality(txs) -> SUBSET Txs]
    OBVIOUS
  <2> QED
    BY Zenon, <2>1, <2>2
<1>3. ASSUME NEW i \in 1 .. Cardinality(txs)
      PROVE  Job(op, F[i]) \in JobSet /\ Job(op, F[i]).op = op
  BY <1>2 DEF Job, JobSet
<1> DEFINE n == [i \in 1 .. Cardinality(txs) |-> Job(op, F[i])]
<1>4. n \in Seq(JobSet) /\ \A i \in DOMAIN n : n[i].op = op
  BY <1>1, <1>3
<1> QED
  BY <1>2, <1>4

(* The same with a job of another kind after each. *)
LEMMA JobsBetween ==
    ASSUME NEW w \in PlainJobs, NEW op \in PlainOps
    PROVE  [i \in 1 .. 2 * Len(w) |-> IF i % 2 = 1 THEN w[(i + 1) \div 2] ELSE Job(op, {})]
              \in PlainJobs
<1> DEFINE n == [i \in 1 .. 2 * Len(w) |-> IF i % 2 = 1 THEN w[(i + 1) \div 2] ELSE Job(op, {})]
<1>1. /\ w \in Seq(JobSet) /\ Len(w) \in Nat
      /\ \A i \in 1 .. Len(w) : w[i] \in JobSet /\ w[i].op \in PlainOps
  BY DEF PlainJobs
<1>2. Job(op, {}) \in JobSet /\ Job(op, {}).op = op
  BY DEF Job, JobSet, Ops, PlainOps
<1>3. ASSUME NEW i \in 1 .. 2 * Len(w) PROVE n[i] \in JobSet /\ n[i].op \in PlainOps
  <2>1. CASE i % 2 = 1
    <3>1. (i + 1) \div 2 \in 1 .. Len(w)
      BY <1>1, <2>1
    <3> QED
      BY <1>1, <2>1, <3>1
  <2>2. CASE i % 2 # 1
    BY <1>2, <2>2
  <2> QED
    BY <2>1, <2>2
<1>4. n \in Seq(JobSet) /\ DOMAIN n = 1 .. 2 * Len(w)
  BY <1>1, <1>3
<1> QED
  BY <1>3, <1>4 DEF PlainJobs

(* Away from a connect and a disconnect the view is even and complete. *)
LEMMA CalmTip ==
    ASSUME TipInv, ~Doing(Tip, "connect"), ~Doing(Tip, "disconnect"), view \in Nat
    PROVE  annotated = Confirmed /\ view % 2 = 0 /\ Joining = {} /\ ~Retreating
BY DEF TipInv, TipAt, Joining, Retreating

(* The parity of the view: even at rest, odd while the tip moves. *)
LEMMA EvenNotOdd ==
    \A v \in Nat : /\ v % 2 = 0 <=> v % 2 # 1
                  /\ v % 2 = 0 <=> (v + 1) % 2 = 1
                  /\ v + 1 \in Nat
OBVIOUS

(* A tip thread with no change of the tip in hand satisfies WorkInv and TipInv. *)
LEMMA RestTip ==
    ASSUME th'[Tip].work \in Seq(JobSet), TipRest', annotated' = Confirmed',
           view' \in Nat, view' % 2 = 0
    PROVE  /\ WorkInv' /\ TipInv' /\ Joining' = {}
           /\ ~Doing(Tip, "evict")' /\ ~Doing(Tip, "connect")' /\ ~Doing(Tip, "disconnect")'
<1>1. ASSUME NEW op \in {"connect", "disconnect", "evict", "purge", "purge_drop"}
      PROVE  ~(th'[Tip].work # <<>> /\ Head(th'[Tip].work).op = op)
  <2>1. CASE th'[Tip].work = <<>>
    BY <2>1
  <2>2. CASE th'[Tip].work # <<>>
    <3>1. 1 \in DOMAIN th'[Tip].work /\ Head(th'[Tip].work) = th'[Tip].work[1]
      BY <2>2
    <3> QED
      BY <3>1 DEF TipRest, Work
  <2> QED
    BY <2>1, <2>2
<1>2. /\ ~Doing(Tip, "connect")' /\ ~Doing(Tip, "disconnect")' /\ ~Doing(Tip, "evict")'
      /\ ~Doing(Tip, "purge_drop")'
  BY <1>1 DEF Doing, Head1
<1>3. WorkInv'
  BY <1>2 DEF WorkInv, TipRest
<1>4. Joining' = {} /\ ~Retreating' /\ \A pc : ~TipAt("connect", pc)' /\ ~TipAt("disconnect", pc)'
  BY <1>2 DEF TipAt, Joining, Retreating
<1>5. \A i \in DOMAIN Work' : Work'[i].op # "connect"
  BY DEF TipRest
<1>6. view' % 2 # 1
  <2>1. \A v : v \in Nat /\ v % 2 = 0 => v % 2 # 1
    BY EvenNotOdd
  <2> QED
    BY Zenon, <2>1
<1>7. TipInv'
  BY Zenon, <1>2, <1>4, <1>5, <1>6 DEF TipInv
<1> QED
  BY <1>2, <1>3, <1>4, <1>7

(* The job in hand makes way for plain ones. *)
LEMMA ReplaceTip ==
    ASSUME Work \in Seq(JobSet), WorkInv, Work # <<>>, ~Doing(Tip, "disconnect"),
           NEW jobs \in PlainJobs, th'[Tip].work = jobs \o Tail(Work)
    PROVE  /\ th'[Tip].work \in Seq(JobSet)
           /\ TipRest'
           /\ ScanAhead /\ ~Doing(Tip, "scan") => ScanAhead'
<1> DEFINE n == jobs \o Tail(Work)
<1>0. jobs \in Seq(JobSet) /\ \A i \in 1 .. Len(jobs) : jobs[i].op \in PlainOps
  BY DEF PlainJobs
<1>1. /\ n \in Seq(JobSet)
      /\ Len(n) = Len(jobs) + Len(Work) - 1
      /\ \A i \in 1 .. Len(jobs) : n[i] = jobs[i]
      /\ \A k \in 2 .. Len(Work) : n[Len(jobs) + k - 1] = Work[k]
      /\ Len(Work) \in Nat /\ Len(jobs) \in Nat /\ Len(Work) >= 1
  BY <1>0, WorkAfter
<1>2. Work' = n
  BY DEF Work
<1>3. ASSUME NEW k \in 2 .. Len(Work)
      PROVE  Work[k].op \notin {"connect", "disconnect", "evict", "purge", "purge_drop"}
  BY <1>1 DEF WorkInv
<1> HIDE DEF n
<1>4. ASSUME NEW i \in DOMAIN n
      PROVE  n[i].op \notin {"connect", "disconnect", "evict", "purge", "purge_drop"}
  <2>1. i \in 1 .. Len(jobs) + Len(Work) - 1
    BY <1>1
  <2>2. CASE i <= Len(jobs)
    <3>1. i \in 1 .. Len(jobs)
      BY <1>1, <2>1, <2>2
    <3>2. n[i].op \in PlainOps
      BY <1>0, <1>1, <3>1
    <3> QED
      BY <3>2 DEF PlainOps
  <2>3. CASE i > Len(jobs)
    <3>1. i - Len(jobs) + 1 \in 2 .. Len(Work)
      BY <1>1, <2>1, <2>3
    <3>2. n[Len(jobs) + (i - Len(jobs) + 1) - 1] = Work[i - Len(jobs) + 1]
      BY <1>1, <3>1
    <3>3. Len(jobs) + (i - Len(jobs) + 1) - 1 = i
      BY <1>1, <2>1
    <3> QED
      BY <1>3, <3>1, <3>2, <3>3
  <2> QED
    BY <1>1, <2>1, <2>2, <2>3
<1>5. ASSUME ScanAhead, ~Doing(Tip, "scan") PROVE ScanAhead'
  <2>1. PICK k \in 1 .. Len(Work) : Work[k].op = "scan"
    BY <1>5 DEF ScanAhead
  <2>2. k # 1
    BY <1>5, <2>1 DEF Doing, Head1, Work
  <2>3. Len(jobs) + k - 1 \in DOMAIN n /\ n[Len(jobs) + k - 1].op = "scan"
    BY <1>1, <2>1, <2>2
  <2> QED
    BY <1>2, <2>3 DEF ScanAhead
<1> QED
  BY Zenon, <1>1, <1>2, <1>4, <1>5 DEF TipRest, Work

-----------------------------------------------------------------------------
(* Steps that leave the chain, the view and the tip thread's chain jobs.     *)

SampleOk(s) ==
    s.stamp # None =>
      /\ s.stamp <= view /\ s.stamp % 2 = 0
      /\ s.stamp = view => \A c \in s.coins : OnChain(c) /\ ~Spent(c)

(* The tip thread keeps its jobs, or a plain one makes way for plain ones. *)
SoftTip ==
    \/ /\ th'[Tip].work = Work
       /\ th'[Tip].pc = th[Tip].pc \/ Admitting(Tip)
    \/ /\ Work # <<>> /\ Head1(Tip).op \in PlainOps
       /\ \E jobs \in PlainJobs : th'[Tip].work = jobs \o Tail(Work)

Quiet == UNCHANGED <<chain, annotated, view, maintained>> /\ SoftTip

(* A step that leaves the chain alone keeps the invariants of the tip. *)
LEMMA QuietTip ==
    ASSUME ShapeInv, ChainInv, WorkInv, TipInv, Quiet
    PROVE  /\ ChainInv' /\ WorkInv' /\ TipInv' /\ Joining' = Joining
           /\ ScanAhead => ScanAhead'
           /\ Doing(Tip, "evict")' => Doing(Tip, "evict") /\ Head1(Tip)' = Head1(Tip)
<1>0. /\ Tip \in Threads /\ th[Tip] \in ThreadSet /\ Work \in Seq(JobSet) /\ view \in Nat
      /\ UNCHANGED <<chain, annotated, view, maintained>>
  BY DEF ShapeInv, Threads, ThreadSet, Work, Quiet
<1>1. ChainInv' /\ Confirmed' = Confirmed
  BY <1>0 DEF ChainInv, Confirmed
<1>2. CASE th'[Tip].work = Work /\ (th'[Tip].pc = th[Tip].pc \/ Admitting(Tip))
  <2>1. /\ Work' = Work
        /\ \A op : Doing(Tip, op)' <=> Doing(Tip, op)
        /\ Head1(Tip)' = Head1(Tip)
    BY <1>2 DEF Work, Doing, Head1
  <2>2. Doing(Tip, "connect") \/ Doing(Tip, "disconnect") => th'[Tip].pc = th[Tip].pc
    BY <1>2 DEF Admitting, Doing
  <2>3. /\ \A pc : TipAt("connect", pc)' <=> TipAt("connect", pc)
        /\ \A pc : TipAt("disconnect", pc)' <=> TipAt("disconnect", pc)
    BY <2>1, <2>2 DEF TipAt
  <2>4. Joining' = Joining /\ (Retreating' <=> Retreating) /\ (ScanAhead' <=> ScanAhead)
    BY <2>1, <2>2, <2>3 DEF Joining, Retreating, ScanAhead
  <2>5. WorkInv'
    BY <1>0, <1>1, <2>1, <2>2, <2>4 DEF WorkInv
  <2>6. ASSUME NEW i \in DOMAIN Work, Work[i].op = "connect", i = 1 => th'[Tip].pc = "start"
        PROVE  i = 1 => th[Tip].pc = "start"
    <3>1. i = 1 => Doing(Tip, "connect")
      BY <1>0, <2>6 DEF Doing, Head1, Work
    <3> QED
      BY <2>2, <2>6, <3>1
  <2>7. TipInv'
    BY <1>0, <1>1, <2>1, <2>2, <2>3, <2>4, <2>6 DEF TipInv
  <2> QED
    BY <1>1, <2>1, <2>4, <2>5, <2>7
<1>3. CASE /\ Work # <<>> /\ Head1(Tip).op \in PlainOps
           /\ \E jobs \in PlainJobs : th'[Tip].work = jobs \o Tail(Work)
  <2>1. \A op \in {"connect", "disconnect", "scan"} : ~Doing(Tip, op)
    BY <1>3 DEF Doing, PlainOps
  <2>2. annotated = Confirmed /\ view % 2 = 0 /\ Joining = {}
    BY <1>0, <2>1, CalmTip
  <2>3. /\ th'[Tip].work \in Seq(JobSet) /\ TipRest'
        /\ ScanAhead => ScanAhead'
    BY Zenon, <1>0, <1>3, <2>1, ReplaceTip
  <2>4. annotated' = Confirmed' /\ view' \in Nat /\ view' % 2 = 0
    BY <1>0, <1>1, <2>2
  <2> QED
    BY <1>1, <2>2, <2>3, <2>4, RestTip
<1> QED
  BY <1>2, <1>3 DEF Quiet, SoftTip

(* What the pool spends stays as good as it was. *)
LEMMA QuietPool ==
    ASSUME ShapeInv, ChainInv, WorkInv, TipInv, Quiet, g' = g, LiveInv, MinedInv
    PROVE  LiveInv' /\ MinedInv'
<1>1. /\ Joining' = Joining
      /\ ScanAhead => ScanAhead'
      /\ Doing(Tip, "evict")' => Doing(Tip, "evict") /\ Head1(Tip)' = Head1(Tip)
  BY QuietTip
<1>2. UNCHANGED <<chain, annotated, maintained>>
  BY DEF Quiet
<1>3. /\ \A c : Known(c)' <=> Known(c)
      /\ \A c : Spent(c)' <=> Spent(c)
      /\ \A c : StripAhead(c)' <=> StripAhead(c)
      /\ Confirmed' = Confirmed
  BY <1>1, <1>2 DEF Known, OnChain, Creator, Spent, StripAhead, Confirmed
<1>4. LiveInv'
  BY <1>1, <1>2, <1>3 DEF LiveInv
<1>5. MinedInv'
  BY <1>1, <1>2, <1>3 DEF MinedInv
<1> QED
  BY <1>4, <1>5

(* One thread moves, and only its own record. *)
LEMMA ThreadMoves ==
    ASSUME ShapeInv, NEW a \in Threads, NEW r \in ThreadSet, th' = [th EXCEPT ![a] = r]
    PROVE  /\ th' \in [Threads -> ThreadSet]
           /\ th'[a] = r
           /\ \A b \in Threads : b # a => th'[b] = th[b]
BY DEF ShapeInv

(* The step of one thread that leaves the chain and the view: what it keeps. *)
LEMMA QuietStep ==
    ASSUME CoinInv, NEW a \in Threads, NEW r \in ThreadSet, th' = [th EXCEPT ![a] = r],
           UNCHANGED <<chain, annotated, view, maintained>>,
           orphans' \in [Txs -> SUBSET Txs], lock' \in Threads \cup {None},
           moves' \in 0 .. MaxMoves, received' \in 0 .. MaxEvents,
           SampleOk(r.sample),
           \/ a # Tip
           \/ r.work = th[a].work /\ (r.pc = th[a].pc \/ Admitting(a))
           \/ /\ th[a].work # <<>> /\ Head1(a).op \in PlainOps
              /\ \E jobs \in PlainJobs : r.work = jobs \o Tail(th[a].work)
    PROVE  /\ Quiet /\ ShapeInv' /\ ChainInv' /\ WorkInv' /\ TipInv' /\ SampleInv'
           /\ th'[a] = r /\ \A b \in Threads : b # a => th'[b] = th[b]
           /\ \A c : OnChain(c)' <=> OnChain(c)
           /\ \A c : Spent(c)' <=> Spent(c)
           /\ \A c : StripAhead(c)' <=> StripAhead(c)
<1>1. ShapeInv /\ ChainInv /\ WorkInv /\ TipInv /\ SampleInv
  BY DEF CoinInv
<1>2. /\ th' \in [Threads -> ThreadSet] /\ th'[a] = r
      /\ \A b \in Threads : b # a => th'[b] = th[b]
  BY Zenon, <1>1, ThreadMoves
<1>3. Tip \in Threads
  BY DEF Threads
<1>4. Quiet
  BY Zenon, <1>2, <1>3 DEF Quiet, SoftTip, Work
<1>5. ChainInv' /\ WorkInv' /\ TipInv' /\ Joining' = Joining
  BY <1>1, <1>4, QuietTip
<1>6. ShapeInv'
  BY <1>1, <1>2 DEF ShapeInv
<1>7. /\ \A c : OnChain(c)' <=> OnChain(c)
      /\ \A c : Spent(c)' <=> Spent(c)
      /\ \A c : StripAhead(c)' <=> StripAhead(c)
  BY <1>5 DEF OnChain, Spent, StripAhead, Confirmed
<1>8. SampleInv'
  <2>1. ASSUME NEW b \in Threads PROVE SampleOk(th'[b].sample)
    BY <1>1, <1>2 DEF SampleInv, SampleOk
  <2> QED
    BY <1>7, <2>1 DEF SampleInv, SampleOk
<1> QED
  BY <1>2, <1>4, <1>5, <1>6, <1>7, <1>8

(* The step of a thread that does not hold the write lock and changes        *)
(* nothing but the orphanage and its own record.                             *)
LEMMA SoftStep ==
    ASSUME CoinInv, NEW a \in Threads, NEW r \in ThreadSet, th' = [th EXCEPT ![a] = r],
           UNCHANGED <<chain, annotated, view, g, maintained, lock>>,
           orphans' \in [Txs -> SUBSET Txs], PoolInv',
           moves' \in 0 .. MaxMoves, received' \in 0 .. MaxEvents,
           SampleOk(r.sample), lock # a,
           \/ a # Tip
           \/ r.work = th[a].work /\ (r.pc = th[a].pc \/ Admitting(a))
           \/ /\ th[a].work # <<>> /\ Head1(a).op \in PlainOps
              /\ \E jobs \in PlainJobs : r.work = jobs \o Tail(th[a].work)
    PROVE  CoinInv'
<1>1. /\ ShapeInv /\ ChainInv /\ WorkInv /\ TipInv
      /\ LiveInv /\ MinedInv /\ InsertInv
  BY DEF CoinInv
<1>2. lock' \in Threads \cup {None}
  BY <1>1 DEF ShapeInv
<1>3. /\ Quiet /\ ShapeInv' /\ ChainInv' /\ WorkInv' /\ TipInv' /\ SampleInv'
      /\ \A b \in Threads : b # a => th'[b] = th[b]
      /\ \A c : OnChain(c)' <=> OnChain(c)
      /\ \A c : Spent(c)' <=> Spent(c)
      /\ \A c : StripAhead(c)' <=> StripAhead(c)
  BY Zenon, <1>2, QuietStep
<1>4. LiveInv' /\ MinedInv'
  BY <1>1, <1>3, QuietPool
<1>5. InsertInv'
  <2>1. SUFFICES ASSUME lock # None PROVE InsertInv'
    BY DEF InsertInv
  <2>2. lock \in Threads /\ th'[lock] = th[lock]
    BY <1>1, <1>3, <2>1 DEF ShapeInv
  <2>3. (Admitting(lock) <=> Admitting(lock)') /\ Head1(lock)' = Head1(lock)
    BY <2>2 DEF Admitting, Doing, Head1
  <2>4. /\ ScanAhead => ScanAhead'
        /\ Doing(Tip, "evict")' => Doing(Tip, "evict")
    BY <1>1, <1>3, QuietTip
  <2>5. \A c : Known(c)' <=> Known(c)
    BY <1>3 DEF Known, Creator
  <2> QED
    BY <1>1, <1>3, <2>1, <2>2, <2>3, <2>4, <2>5 DEF InsertInv
<1> QED
  BY <1>3, <1>4, <1>5 DEF CoinInv

-----------------------------------------------------------------------------
(* The steps of an admission before the insert, and the walk over orphans.   *)

(* Ready builds a thread record at its start, with no sample. *)
LEMMA ReadyShape ==
    ASSUME NEW work \in Seq(JobSet), NEW notes \in SUBSET Txs
    PROVE  /\ Ready(work, notes) \in ThreadSet
           /\ Ready(work, notes).work = work
           /\ Ready(work, notes).pc = "start"
           /\ SampleOk(Ready(work, notes).sample)
<1>1. Ready(work, notes) = [work |-> work, pc |-> "start", missing |-> {},
                            sample |-> NoSample, notes |-> notes]
  BY DEF Ready
<1>2. NoSample \in SampleSet
  BY DEF NoSample, SampleSet
<1>3. NoSample.stamp = None
  BY DEF NoSample
<1>4. SampleOk(NoSample)
  BY <1>3 DEF SampleOk
<1>5. [work |-> work, pc |-> "start", missing |-> {}, sample |-> NoSample, notes |-> notes]
        \in ThreadSet
  <2>1. "start" \in Pcs
    BY DEF Pcs
  <2> DEFINE S1 == Seq(JobSet)
             S2 == SUBSET Txs
  <2>2. work \in S1 /\ notes \in S2 /\ {} \in S2
    OBVIOUS
  <2> HIDE DEF S1, S2
  <2>3. [work |-> work, pc |-> "start", missing |-> {}, sample |-> NoSample, notes |-> notes]
          \in [work : S1, pc : Pcs, missing : S2, sample : SampleSet, notes : S2]
    BY <1>2, <2>1, <2>2
  <2> QED
    BY <2>3 DEF ThreadSet, S1, S2
<1> QED
  BY <1>1, <1>4, <1>5

(* A job makes way for plain ones: the record it leaves. *)
LEMMA ReplaceShape ==
    ASSUME ShapeInv, NEW a \in Threads, th[a].work # <<>>,
           NEW jobs \in PlainJobs, NEW notes \in SUBSET Txs, Replace(a, jobs, notes)
    PROVE  \E r \in ThreadSet :
             /\ th' = [th EXCEPT ![a] = r]
             /\ r.work = jobs \o Tail(th[a].work)
             /\ r.pc = "start"
             /\ SampleOk(r.sample)
<1>1. th[a].work \in Seq(JobSet) /\ jobs \in Seq(JobSet)
  BY DEF ShapeInv, ThreadSet, PlainJobs
<1> DEFINE w == jobs \o Tail(th[a].work)
<1>2. w \in Seq(JobSet)
  <2> DEFINE v == th[a].work
  <2>1. v \in Seq(JobSet) /\ v # <<>>
    BY <1>1
  <2> HIDE DEF v
  <2>2. jobs \o Tail(v) \in Seq(JobSet)
    BY <1>1, <2>1, WorkAfter
  <2> QED
    BY <2>2 DEF v
<1>3. th' = [th EXCEPT ![a] = Ready(w, notes)]
  BY DEF Replace
<1> HIDE DEF w
<1> QED
  BY Zenon, <1>2, <1>3, ReadyShape DEF w

(* No jobs are plain jobs. *)
LEMMA PlainEmpty == <<>> \in PlainJobs
BY DEF PlainJobs

(* A thread that admits: its head is plain, and it holds a list of jobs. *)
LEMMA AtFacts ==
    ASSUME ShapeInv, NEW a \in Threads, NEW x, NEW pc, At(a, x, pc)
    PROVE  /\ th[a].work # <<>> /\ Head1(a).op \in PlainOps /\ Head1(a).txs = {x}
           /\ Admitting(a) /\ th[a].pc = pc
           /\ th[a] \in ThreadSet /\ th[a].notes \in SUBSET Txs /\ a # None
<1>1. Admitting(a) /\ Head1(a).txs = {x} /\ th[a].pc = pc
  BY DEF At
<1>2. th[a].work # <<>> /\ Head1(a).op \in PlainOps
  BY <1>1 DEF Admitting, Doing, PlainOps
<1> QED
  BY <1>1, <1>2, HubAssumption DEF ShapeInv, ThreadSet

(* The end of a job that leaves the shared state alone. *)
LEMMA FinishStep ==
    ASSUME CoinInv, NEW a \in Threads, th[a].work # <<>>, Head1(a).op \in PlainOps, lock # a,
           NEW jobs \in PlainJobs, NEW notes \in SUBSET Txs, Replace(a, jobs, notes),
           UNCHANGED <<chain, annotated, view, g, maintained, lock, moves, received>>,
           orphans' \in [Txs -> SUBSET Txs], PoolInv'
    PROVE  CoinInv'
<1>1. ShapeInv
  BY DEF CoinInv
<1>2. PICK r \in ThreadSet : /\ th' = [th EXCEPT ![a] = r]
                             /\ r.work = jobs \o Tail(th[a].work)
                             /\ SampleOk(r.sample)
  BY <1>1, ReplaceShape
<1>3. moves' \in 0 .. MaxMoves /\ received' \in 0 .. MaxEvents
  BY <1>1 DEF ShapeInv
<1> QED
  BY Zenon, <1>2, <1>3, SoftStep

(* A step inside an admission: the record changes, the jobs do not. *)
LEMMA InsideStep ==
    ASSUME CoinInv, NEW a \in Threads, NEW x \in Txs, NEW pc, At(a, x, pc), lock # a,
           NEW r \in ThreadSet, th' = [th EXCEPT ![a] = r], r.work = th[a].work,
           SampleOk(r.sample), PoolInv',
           UNCHANGED <<chain, annotated, view, g, orphans, maintained, lock, moves, received>>
    PROVE  CoinInv'
<1>1. ShapeInv
  BY DEF CoinInv
<1>2. Admitting(a)
  BY DEF At
<1>3. /\ moves' \in 0 .. MaxMoves /\ received' \in 0 .. MaxEvents
      /\ orphans' \in [Txs -> SUBSET Txs]
  BY <1>1 DEF ShapeInv
<1> QED
  BY Zenon, <1>2, <1>3, SoftStep

(* Whoever holds the lock is at its insert. *)
LEMMA HolderInserts ==
    ASSUME CoinInv, NEW a \in Threads
    PROVE  lock = a => Admitting(a) /\ th[a].pc = "insert"
BY HubAssumption DEF CoinInv, InsertInv

(* A thread's record with another program counter, missing set or sample. *)
LEMMA RecordShape ==
    ASSUME NEW r \in ThreadSet, NEW pc \in Pcs
    PROVE  /\ [r EXCEPT !.pc = pc] \in ThreadSet
           /\ [r EXCEPT !.pc = pc].work = r.work /\ [r EXCEPT !.pc = pc].sample = r.sample
           /\ [r EXCEPT !.pc = pc].pc = pc
BY DEF ThreadSet

(* Typing and fields of the record updates of prepare. *)
LEMMA ParkShape ==
    ASSUME NEW r \in ThreadSet, NEW pc \in Pcs, NEW m \in SUBSET Txs
    PROVE  /\ [r EXCEPT !.pc = pc, !.missing = m] \in ThreadSet
           /\ [r EXCEPT !.pc = pc, !.missing = m].work = r.work
           /\ [r EXCEPT !.pc = pc, !.missing = m].sample = r.sample
BY Zenon DEF ThreadSet

(* Typing and fields of the record updates of the sampling steps. *)
LEMMA SampledShape ==
    ASSUME NEW r \in ThreadSet, NEW pc \in Pcs, NEW s \in SampleSet
    PROVE  /\ [r EXCEPT !.sample = s, !.pc = pc] \in ThreadSet
           /\ [r EXCEPT !.sample = s, !.pc = pc].work = r.work
           /\ [r EXCEPT !.sample = s, !.pc = pc].sample = s
BY Zenon DEF ThreadSet

(* Typing and fields of the updates of a sample. *)
LEMMA SampleShape ==
    ASSUME NEW s \in SampleSet, NEW stamp \in Nat \cup {None}, NEW coins \in SUBSET Coins
    PROVE  /\ [NoSample EXCEPT !.stamp = stamp] \in SampleSet
           /\ [NoSample EXCEPT !.stamp = stamp].stamp = stamp
           /\ [NoSample EXCEPT !.stamp = stamp].coins = {}
           /\ [s EXCEPT !.had = coins] \in SampleSet
           /\ [s EXCEPT !.had = coins].stamp = s.stamp
           /\ [s EXCEPT !.had = coins].coins = s.coins
           /\ [s EXCEPT !.coins = coins] \in SampleSet
           /\ [s EXCEPT !.coins = coins].stamp = s.stamp
           /\ [s EXCEPT !.coins = coins].coins = coins
BY DEF SampleSet, NoSample

(* A step that only moves an admission to another stage keeps the invariant. *)
LEMMA GoToStep ==
    ASSUME CoinInv, NEW a \in Threads, NEW x \in Txs, NEW pc, At(a, x, pc), lock # a,
           NEW to \in Pcs, GoTo(a, to), PoolInv',
           UNCHANGED <<chain, annotated, view, g, orphans, maintained, lock, moves, received>>
    PROVE  CoinInv'
<1> DEFINE r == [th[a] EXCEPT !.pc = to]
<1>1. ShapeInv /\ SampleInv
  BY DEF CoinInv
<1>2. th[a] \in ThreadSet /\ {} \in SUBSET Txs /\ th[a].sample \in SampleSet
  BY <1>1 DEF ShapeInv, ThreadSet
<1>3. r \in ThreadSet /\ r.work = th[a].work /\ r.sample = th[a].sample
  BY <1>2, RecordShape
<1>4. th' = [th EXCEPT ![a] = r]
  BY DEF GoTo
<1>5. SampleOk(th[a].sample)
  BY <1>1 DEF SampleInv, SampleOk
<1> HIDE DEF r
<1> QED
  BY Zenon, <1>3, <1>4, <1>5, InsideStep

(* The unknown parents are transactions. *)
LEMMA MissingTxs ==
    ASSUME NEW x \in Txs
    PROVE  Missing(x) \subseteq Txs
BY GraphAssumption DEF Missing, ChainPrevout

(* prepare_admit: parked, refused, or on to the sample. *)
LEMMA PrepareStep ==
    ASSUME CoinInv, PoolInv', NEW a \in Threads, NEW x \in Txs, Prepare(a, x)
    PROVE  CoinInv'
<1>0. ShapeInv /\ SampleInv
  BY DEF CoinInv
<1>1. /\ At(a, x, "start") /\ lock # a
      /\ UNCHANGED <<chain, annotated, view, g, orphans, maintained, lock, moves, received>>
  BY HubAssumption DEF Prepare, chainVars, poolVars
<1>2. /\ th[a].work # <<>> /\ Head1(a).op \in PlainOps
      /\ th[a] \in ThreadSet /\ th[a].notes \in SUBSET Txs
  BY <1>0, <1>1, AtFacts
<1>3. orphans' \in [Txs -> SUBSET Txs]
  BY <1>0, <1>1 DEF ShapeInv
<1>4. CASE Finish(a)
  BY <1>1, <1>2, <1>3, <1>4, PlainEmpty, FinishStep DEF Finish
<1>5. CASE GoTo(a, "stamp")
  BY <1>1, <1>5, GoToStep DEF Pcs
<1>6. ASSUME NEW m \in SUBSET Txs, th' = [th EXCEPT ![a].pc = "park", ![a].missing = m]
      PROVE  CoinInv'
  <2> DEFINE r == [th[a] EXCEPT !.pc = "park", !.missing = m]
  <2>1. "park" \in Pcs /\ th[a].sample \in SampleSet
    BY <1>2 DEF Pcs, ThreadSet
  <2>2. r \in ThreadSet /\ r.work = th[a].work /\ r.sample = th[a].sample
    BY Zenon, <1>2, <2>1, ParkShape
  <2>3. th' = [th EXCEPT ![a] = r]
    BY Zenon, <1>0, <1>6 DEF ShapeInv
  <2>4. SampleOk(th[a].sample)
    BY <1>0 DEF SampleInv, SampleOk
  <2> HIDE DEF r
  <2> QED
    BY Zenon, <1>1, <2>2, <2>3, <2>4, InsideStep
<1>7. orphans[x] \in SUBSET Txs /\ Missing(x) \in SUBSET Txs
  BY <1>0, MissingTxs DEF ShapeInv
<1>8. \/ Finish(a) \/ GoTo(a, "stamp")
      \/ \E m \in SUBSET Txs : th' = [th EXCEPT ![a].pc = "park", ![a].missing = m]
  BY <1>7 DEF Prepare
<1> QED
  BY <1>4, <1>5, <1>6, <1>8

(* Parking an orphan leaves the pool alone. *)
LEMMA ParkOrphanStep ==
    ASSUME CoinInv, PoolInv', NEW a \in Threads, NEW x \in Txs, ParkOrphan(a, x)
    PROVE  CoinInv'
<1>0. ShapeInv
  BY DEF CoinInv
<1>1. /\ At(a, x, "park") /\ lock # a /\ Finish(a)
      /\ UNCHANGED <<chain, annotated, view, g, maintained, lock, moves, received>>
  BY HubAssumption DEF ParkOrphan, chainVars
<1>2. /\ th[a].work # <<>> /\ Head1(a).op \in PlainOps
      /\ th[a] \in ThreadSet /\ th[a].notes \in SUBSET Txs
  BY <1>0, <1>1, AtFacts
<1>3. orphans' \in [Txs -> SUBSET Txs]
  <2>1. th[a].missing \in SUBSET Txs /\ orphans \in [Txs -> SUBSET Txs]
    BY <1>0, <1>2 DEF ShapeInv, ThreadSet
  <2> QED
    BY <2>1 DEF ParkOrphan
<1> QED
  BY <1>1, <1>2, <1>3, PlainEmpty, FinishStep DEF Finish

(* The stamp of the view is read before the coins. *)
LEMMA SampleStampStep ==
    ASSUME CoinInv, PoolInv', NEW a \in Threads, NEW x \in Txs, SampleStamp(a, x)
    PROVE  CoinInv'
<1> DEFINE s == [NoSample EXCEPT !.stamp = ViewStamp]
           to == IF ViewStamp = None THEN "commit" ELSE "creators"
           r == [th[a] EXCEPT !.sample = s, !.pc = to]
<1>0. ShapeInv /\ view \in Nat
  BY DEF CoinInv, ShapeInv
<1>1. /\ At(a, x, "stamp")
      /\ UNCHANGED <<chain, annotated, view, g, orphans, maintained, lock, moves, received>>
      /\ th' = [th EXCEPT ![a].sample = s, ![a].pc = to]
  BY DEF SampleStamp, chainVars, poolVars
<1>2. th[a] \in ThreadSet /\ to \in Pcs /\ lock # a
  <2>1. th[a] \in ThreadSet /\ th[a].pc = "stamp"
    BY <1>0, <1>1, AtFacts
  <2> QED
    BY <2>1, HolderInserts DEF Pcs
<1>3. /\ ViewStamp \in Nat \cup {None}
      /\ ViewStamp # None => ViewStamp <= view /\ ViewStamp % 2 = 0
  BY <1>0 DEF ViewStamp
<1>4. s \in SampleSet /\ s.stamp = ViewStamp /\ s.coins = {}
  <2>1. th[a].sample \in SampleSet /\ {} \in SUBSET Coins
    BY <1>2 DEF ThreadSet
  <2> QED
    BY Zenon, <1>3, <2>1, SampleShape
<1>5. SampleOk(s)
  BY <1>3, <1>4 DEF SampleOk
<1> HIDE DEF s, to
<1>6. r \in ThreadSet /\ r.work = th[a].work /\ r.sample = s
  BY Zenon, <1>2, <1>4 DEF ThreadSet
<1>7. th' = [th EXCEPT ![a] = r]
  BY Zenon, <1>0, <1>1 DEF ShapeInv
<1> HIDE DEF r
<1> QED
  BY Zenon, <1>1, <1>2, <1>5, <1>6, <1>7, InsideStep

(* The creators in the pool are read after the stamp. *)
LEMMA SampleCreatorsStep ==
    ASSUME CoinInv, PoolInv', NEW a \in Threads, NEW x \in Txs, SampleCreators(a, x)
    PROVE  CoinInv'
<1> DEFINE had == {c \in Ins[x] : Creator(g, c)}
           s == [th[a].sample EXCEPT !.had = had]
           r == [th[a] EXCEPT !.sample = s, !.pc = "coins"]
<1>0. ShapeInv /\ SampleInv
  BY DEF CoinInv
<1>1. /\ At(a, x, "creators") /\ lock # a
      /\ UNCHANGED <<chain, annotated, view, g, orphans, maintained, lock, moves, received>>
      /\ th' = [th EXCEPT ![a].sample.had = had, ![a].pc = "coins"]
  BY HubAssumption DEF SampleCreators, chainVars, poolVars
<1>2. th[a] \in ThreadSet /\ "coins" \in Pcs /\ th[a].sample \in SampleSet /\ had \in SUBSET Coins
  BY <1>0, <1>1, AtFacts, GraphAssumption DEF Pcs, ThreadSet
<1> HIDE DEF had
<1>3. s \in SampleSet /\ s.stamp = th[a].sample.stamp /\ s.coins = th[a].sample.coins
  <2>1. None \in Nat \cup {None}
    OBVIOUS
  <2> QED
    BY Zenon, <1>2, <2>1, SampleShape
<1>4. SampleOk(s)
  BY <1>0, <1>3 DEF SampleInv, SampleOk
<1>5. th' = [th EXCEPT ![a] = r]
  BY Zenon, <1>0, <1>1 DEF ShapeInv
<1> HIDE DEF s
<1>6. r \in ThreadSet /\ r.work = th[a].work /\ r.sample = s
  BY Zenon, <1>2, <1>3, SampledShape
<1> HIDE DEF r
<1> QED
  BY Zenon, <1>1, <1>4, <1>5, <1>6, InsideStep

(* The coins of the chain are read last. *)
LEMMA SampleCoinsStep ==
    ASSUME CoinInv, PoolInv', NEW a \in Threads, NEW x \in Txs, SampleCoins(a, x)
    PROVE  CoinInv'
<1> DEFINE coins == {c \in Ins[x] \ th[a].sample.had : HasCoin(c)}
           s == [th[a].sample EXCEPT !.coins = coins]
           r == [th[a] EXCEPT !.sample = s, !.pc = "commit"]
<1>0. ShapeInv /\ SampleInv
  BY DEF CoinInv
<1>1. /\ At(a, x, "coins")
      /\ UNCHANGED <<chain, annotated, view, g, orphans, maintained, lock, moves, received>>
      /\ th' = [th EXCEPT ![a].sample.coins = coins, ![a].pc = "commit"]
  BY DEF SampleCoins, chainVars, poolVars
<1>2. th[a] \in ThreadSet /\ "commit" \in Pcs /\ th[a].sample \in SampleSet
      /\ coins \in SUBSET Coins
  BY <1>0, <1>1, AtFacts, GraphAssumption DEF Pcs, ThreadSet
<1>a. lock # a
  <2>1. th[a].pc = "coins"
    BY <1>1 DEF At
  <2> QED
    BY <2>1, HolderInserts
<1>b. \A c \in coins : OnChain(c) /\ ~Spent(c)
  BY DEF HasCoin, ChainPrevout, OnChain, Spent
<1> HIDE DEF coins
<1>3. s \in SampleSet /\ s.stamp = th[a].sample.stamp /\ s.coins = coins
  BY <1>2 DEF SampleSet
<1>4. SampleOk(s)
  BY <1>0, <1>3, <1>b DEF SampleInv, SampleOk
<1>5. th' = [th EXCEPT ![a] = r]
  BY Zenon, <1>0, <1>1 DEF ShapeInv
<1> HIDE DEF s
<1>6. r \in ThreadSet /\ r.work = th[a].work /\ r.sample = s
  BY Zenon, <1>2, <1>3, SampledShape
<1> HIDE DEF r
<1> QED
  BY Zenon, <1>1, <1>4, <1>5, <1>6, <1>a, InsideStep

(* The children that waited for an accepted parent become jobs. *)
LEMMA TakeOrphansStep ==
    ASSUME FiniteCards, CoinInv, PoolInv', NEW a \in Threads, TakeOrphans(a)
    PROVE  CoinInv'
<1> DEFINE kids == {k \in Txs : orphans[k] \cap (Head1(a).txs \cup th[a].notes) # {}}
           then == Jobs("relay", kids)
           jobs == [i \in 1 .. 2 * Len(then) |->
                      IF i % 2 = 1 THEN then[(i + 1) \div 2] ELSE Job("take", {})]
<1>0. ShapeInv
  BY DEF CoinInv
<1>1. /\ Doing(a, "take") /\ lock # a /\ Replace(a, jobs, {})
      /\ UNCHANGED <<chain, annotated, view, g, maintained, lock, moves, received>>
      /\ orphans' = [k \in Txs |-> IF k \in kids THEN {} ELSE orphans[k]]
  BY HubAssumption DEF TakeOrphans, chainVars
<1>2. then \in PlainJobs
  <2>1. kids \in SUBSET Txs /\ "relay" \in Ops
    BY DEF Ops
  <2> HIDE DEF kids
  <2>2. then \in Seq(JobSet) /\ \A i \in DOMAIN then : then[i].op = "relay"
    BY <2>1, JobsShape
  <2> QED
    BY <2>2 DEF PlainJobs, PlainOps
<1>3. orphans' \in [Txs -> SUBSET Txs]
  BY <1>0, <1>1 DEF ShapeInv
<1> HIDE DEF then
<1>4. jobs \in PlainJobs
  <2>1. "take" \in PlainOps
    BY DEF PlainOps
  <2> QED
    BY <1>2, <2>1, JobsBetween
<1>5. th[a].work # <<>> /\ Head1(a).op \in PlainOps /\ {} \in SUBSET Txs
  BY <1>1 DEF Doing, PlainOps
<1> HIDE DEF jobs
<1> QED
  BY <1>1, <1>3, <1>4, <1>5, FinishStep

(* The walk over waiting children ends. *)
LEMMA EndWalkStep ==
    ASSUME CoinInv, PoolInv', NEW a \in Threads, EndWalk(a)
    PROVE  CoinInv'
<1>0. ShapeInv
  BY DEF CoinInv
<1>1. /\ Doing(a, "end") /\ Replace(a, <<>>, {})
      /\ UNCHANGED <<chain, annotated, view, g, orphans, maintained, lock, moves, received>>
  BY DEF EndWalk, chainVars, poolVars
<1>2. /\ th[a].work # <<>> /\ Head1(a).op \in PlainOps /\ {} \in SUBSET Txs
      /\ orphans' \in [Txs -> SUBSET Txs]
  BY <1>0, <1>1 DEF Doing, PlainOps, ShapeInv
<1>3. lock # a
  BY <1>1, HolderInserts DEF Admitting, Doing
<1> QED
  BY <1>1, <1>2, <1>3, PlainEmpty, FinishStep

(* Erasing the waiting rows of a block leaves the pool alone. *)
LEMMA EraseStep ==
    ASSUME CoinInv, PoolInv', EraseForBlock
    PROVE  CoinInv'
<1>0. ShapeInv /\ Tip \in Threads
  BY DEF CoinInv, Threads
<1>1. /\ Doing(Tip, "erase") /\ lock # Tip /\ Finish(Tip)
      /\ UNCHANGED <<chain, annotated, view, g, maintained, lock, moves, received>>
      /\ orphans' = [t \in Txs |-> IF t \in Head1(Tip).txs THEN {} ELSE orphans[t]]
  BY <1>0, HubAssumption DEF EraseForBlock, chainVars
<1>2. /\ th[Tip].work # <<>> /\ Head1(Tip).op \in PlainOps /\ th[Tip].notes \in SUBSET Txs
      /\ orphans' \in [Txs -> SUBSET Txs]
  BY <1>0, <1>1 DEF Doing, PlainOps, ShapeInv, ThreadSet
<1> QED
  BY <1>0, <1>1, <1>2, PlainEmpty, FinishStep DEF Finish

(* A received transaction becomes a job of an idle admission task. *)
LEMMA ReceiveStep ==
    ASSUME CoinInv, PoolInv', NEW a \in Admitters, NEW x \in Txs, Receive(a, x)
    PROVE  CoinInv'
<1> DEFINE jobs == <<Job("relay", {x})>>
<1>0. ShapeInv /\ a \in Threads /\ a # Tip
  BY HubAssumption DEF CoinInv, Threads
<1>1. /\ th[a].work = <<>> /\ received + moves < MaxEvents /\ received' = received + 1
      /\ th' = [th EXCEPT ![a] = Ready(jobs, {})]
      /\ UNCHANGED <<chain, annotated, view, moves, g, orphans, maintained, lock>>
  BY DEF Receive, Begin, poolVars
<1>2. jobs \in Seq(JobSet) /\ {} \in SUBSET Txs
  BY DEF Job, JobSet, Ops
<1> HIDE DEF jobs
<1>3. Ready(jobs, {}) \in ThreadSet /\ SampleOk(Ready(jobs, {}).sample)
  BY <1>2, ReadyShape
<1>4. lock # a
  BY <1>0, <1>1, HolderInserts DEF Admitting, Doing
<1>5. /\ moves' \in 0 .. MaxMoves /\ received' \in 0 .. MaxEvents
      /\ orphans' \in [Txs -> SUBSET Txs]
  BY <1>0, <1>1, HubAssumption DEF ShapeInv
<1> QED
  BY Zenon, <1>0, <1>1, <1>3, <1>4, <1>5, SoftStep

-----------------------------------------------------------------------------
(* The commit. *)

(* The rows that are visible and not annotated are those of the block that   *)
(* the tip thread is connecting.                                             *)
LEMMA AnnotatedConfirmed ==
    ASSUME ShapeInv, TipInv
    PROVE  /\ annotated \subseteq Confirmed
           /\ Confirmed \ annotated \subseteq Joining
           /\ Joining # {} => chain # <<>> /\ LastBlock(chain) = Joining
           /\ Joining \subseteq Confirmed
<1>0. chain \in Seq(SUBSET Txs)
  BY DEF ShapeInv
<1>1. Joining # {} => chain # <<>> /\ LastBlock(chain) = Joining
  BY DEF TipInv, Joining
<1>2. chain # <<>> => Confirmed = Mined(WithoutLast(chain)) \cup LastBlock(chain)
  BY <1>0, FrontOfChain DEF Confirmed
<1>3. CASE TipAt("connect", "hold") \/ TipAt("connect", "annotate")
  <2>1. annotated = Mined(WithoutLast(chain))
    BY <1>3 DEF TipInv
  <2>2. Doing(Tip, "connect") /\ th[Tip].pc # "start"
    BY <1>3 DEF TipAt
  <2>3. chain # <<>> /\ LastBlock(chain) = Joining
    BY <2>2 DEF TipInv, Joining
  <2> QED
    BY <1>2, <2>1, <2>3
<1>4. CASE ~(TipAt("connect", "hold") \/ TipAt("connect", "annotate"))
  <2>1. annotated = Confirmed
    BY <1>4 DEF TipInv
  <2> QED
    BY <1>1, <1>2, <2>1
<1> QED
  BY <1>3, <1>4

(* sampled_coins_fresh or a second look: the inputs exist, and one that the  *)
(* chain has spent is about to be stripped.                                  *)
LEMMA RecheckedCoins ==
    ASSUME CoinInv, NEW a \in Threads, NEW x \in Txs, NEW c \in Ins[x],
           IF Fresh(a, x) THEN Ins[x] \subseteq th[a].sample.had \cup th[a].sample.coins
           ELSE \A i \in Ins[x] : Creator(g, i) \/ HasCoin(i)
    PROVE  /\ Known(c)
           /\ Spent(c) => ~maintained \/ StripAhead(c)
<1>0. /\ ShapeInv /\ ChainInv /\ TipInv /\ SampleInv /\ MinedInv /\ PoolInv
      /\ chain \in Seq(SUBSET Txs) /\ g.live \subseteq Txs
  BY DEF CoinInv, ShapeInv, PoolInv, Graph
<1>1. Creator(g, c) \/ (OnChain(c) /\ ~Spent(c))
  <2>1. CASE Fresh(a, x)
    <3>1. th[a].sample.stamp # None /\ th[a].sample.stamp = view
      BY <2>1 DEF Fresh, ViewStamp
    <3>2. \A i \in th[a].sample.coins : OnChain(i) /\ ~Spent(i)
      BY <1>0, <3>1 DEF SampleInv
    <3>3. c \in th[a].sample.had => Creator(g, c)
      BY <2>1 DEF Fresh
    <3> QED
      BY <2>1, <3>2, <3>3
  <2>2. CASE ~Fresh(a, x)
    <3>1. Creator(g, c) \/ HasCoin(c)
      BY <2>2
    <3>2. HasCoin(c) => OnChain(c) /\ ~Spent(c)
      BY DEF HasCoin, ChainPrevout, OnChain, Spent
    <3> QED
      BY <3>1, <3>2
  <2> QED
    BY <2>1, <2>2
<1>2. ASSUME Spent(c), maintained PROVE StripAhead(c)
  <2>1. Creator(g, c)
    BY <1>1, <1>2
  <2>2. PICK u \in annotated : c \in Ins[u]
    BY <1>2 DEF Spent
  <2>3. u \in Confirmed
    BY <1>0, <2>2, AnnotatedConfirmed
  <2>4. Maker[c] # Base /\ Maker[c] \in g.live
    BY <1>0, <2>1, GraphAssumption DEF Creator
  <2>5. Maker[c] \in Confirmed
    BY <1>0, <2>2, <2>3, <2>4, SpentOnChain DEF OnChain
  <2>6. Maker[c] \in Joining
    BY <1>0, <1>2, <2>4, <2>5 DEF MinedInv
  <2>7. chain # <<>> /\ LastBlock(chain) = Joining
    BY <1>0, <2>6, AnnotatedConfirmed
  <2>8. u \in Joining
    BY <1>0, <2>2, <2>3, <2>4, <2>6, <2>7, SpentOnChain
  <2> QED
    BY <2>2, <2>8 DEF StripAhead
<1> QED
  BY <1>1, <1>2 DEF Known

(* Under the write lock the stamp decides between insert and a new sample. *)
LEMMA CommitRecheckStep ==
    ASSUME CoinInv, PoolInv', NEW a \in Threads, NEW x \in Txs, CommitRecheck(a, x)
    PROVE  CoinInv'
<1>0. ShapeInv /\ SampleInv /\ ChainInv /\ WorkInv /\ TipInv /\ LiveInv /\ MinedInv
  BY DEF CoinInv
<1>1. /\ At(a, x, "commit") /\ lock = None
      /\ UNCHANGED <<chain, annotated, view, g, orphans, maintained, moves, received>>
  BY DEF CommitRecheck, chainVars, poolVars
<1>2. /\ th[a].work # <<>> /\ Head1(a).op \in PlainOps /\ Head1(a).txs = {x}
      /\ th[a] \in ThreadSet /\ th[a].notes \in SUBSET Txs /\ a # None /\ Admitting(a)
  BY <1>0, <1>1, AtFacts
<1>3. orphans' \in [Txs -> SUBSET Txs]
  BY <1>0, <1>1 DEF ShapeInv
<1>4. CASE Finish(a) /\ lock' = lock
  BY <1>1, <1>2, <1>3, <1>4, PlainEmpty, FinishStep DEF Finish
<1>5. CASE /\ GoTo(a, "insert") /\ lock' = a
           /\ IF Fresh(a, x) THEN Ins[x] \subseteq th[a].sample.had \cup th[a].sample.coins
              ELSE \A i \in Ins[x] : Creator(g, i) \/ HasCoin(i)
  <2> DEFINE r == [th[a] EXCEPT !.pc = "insert"]
  <2>1. r \in ThreadSet /\ r.work = th[a].work /\ r.sample = th[a].sample /\ r.pc = "insert"
    <3>1. "insert" \in Pcs
      BY DEF Pcs
    <3> QED
      BY <1>2, <3>1, RecordShape
  <2>2. th' = [th EXCEPT ![a] = r] /\ lock' \in Threads \cup {None}
    BY <1>5 DEF GoTo
  <2>3. SampleOk(th[a].sample) /\ moves' \in 0 .. MaxMoves /\ received' \in 0 .. MaxEvents
    BY <1>0, <1>1 DEF SampleInv, SampleOk, ShapeInv
  <2> HIDE DEF r
  <2>4. /\ Quiet /\ ShapeInv' /\ ChainInv' /\ WorkInv' /\ TipInv' /\ SampleInv'
        /\ th'[a] = r
        /\ \A c : OnChain(c)' <=> OnChain(c)
        /\ \A c : Spent(c)' <=> Spent(c)
        /\ \A c : StripAhead(c)' <=> StripAhead(c)
    BY Zenon, <1>1, <1>2, <1>3, <2>1, <2>2, <2>3, QuietStep
  <2>5. LiveInv' /\ MinedInv'
    BY <1>0, <1>1, <2>4, QuietPool
  <2>6. Admitting(a)' /\ Head1(a)' = Head1(a) /\ th'[a].pc = "insert"
    BY <1>2, <2>1, <2>4 DEF Admitting, Doing, Head1
  <2>7. InsertInv'
    <3>1. ASSUME NEW c \in Ins[x]
          PROVE  Known(c)' /\ (Spent(c)' => ~maintained' \/ StripAhead(c)')
      <4>1. Known(c) /\ (Spent(c) => ~maintained \/ StripAhead(c))
        BY <1>5, RecheckedCoins
      <4> QED
        BY <1>1, <2>4, <4>1 DEF Known, Creator
    <3>2. Admitting(lock)' /\ th'[lock'].pc = "insert" /\ Head1(lock)'.txs = {x}
      BY <1>2, <1>5, <2>6 DEF Admitting, Doing, Head1
    <3> QED
      BY <3>1, <3>2 DEF InsertInv
  <2> QED
    BY <2>4, <2>5, <2>7 DEF CoinInv
<1> QED
  BY <1>4, <1>5 DEF CommitRecheck

(* However the insert ends, plain jobs take its place. *)
LEMMA CommitReplaces ==
    ASSUME FiniteCards, ShapeInv, PoolInv, NEW a \in Threads, NEW x \in Txs, CommitInsert(a, x)
    PROVE  \E jobs \in PlainJobs, notes \in SUBSET Txs : Replace(a, jobs, notes)
<1>1. At(a, x, "insert")
  BY DEF CommitInsert
<1>2. th[a].notes \in SUBSET Txs
  BY <1>1, AtFacts
<1>3. CASE Finish(a)
  BY <1>2, <1>3, PlainEmpty DEF Finish
<1>4. CASE Promote(a, x)
  <2>1. <<Job("take", {x}), Job("end", {})>> \in PlainJobs
    BY DEF PlainJobs, PlainOps, Job, JobSet, Ops
  <2>2. th[a].notes \cup {x} \in SUBSET Txs /\ {} \in SUBSET Txs
    BY <1>2
  <2> QED
    BY <1>4, <2>1, <2>2, PlainEmpty DEF Promote
<1>5. CASE Replace(a, Jobs("restore", Below(g, Direct(x))), th[a].notes)
  <2>1. Below(g, Direct(x)) \in SUBSET Txs /\ "restore" \in Ops
    BY BelowClosed DEF PoolInv, Graph, Ops
  <2>2. Jobs("restore", Below(g, Direct(x))) \in PlainJobs
    BY <2>1, JobsShape DEF PlainJobs, PlainOps
  <2> QED
    BY <1>2, <1>5, <2>2
<1> QED
  BY <1>3, <1>4, <1>5 DEF CommitInsert

(* Insertion, with the conflicts and what hangs off them taken out. *)
LEMMA CommitInsertStep ==
    ASSUME FiniteCards, CoinInv, PoolInv', NEW a \in Threads, NEW x \in Txs, CommitInsert(a, x)
    PROVE  CoinInv'
<1>0. /\ ShapeInv /\ ChainInv /\ WorkInv /\ TipInv /\ LiveInv /\ MinedInv /\ InsertInv /\ PoolInv
      /\ g'.live \subseteq Txs
  BY DEF CoinInv, PoolInv, Graph
<1>1. /\ At(a, x, "insert") /\ lock = a /\ lock' = None
      /\ UNCHANGED <<chain, annotated, view, orphans, maintained, moves, received>>
  BY DEF CommitInsert, chainVars
<1>2. /\ th[a].work # <<>> /\ Head1(a).op \in PlainOps /\ Head1(a).txs = {x} /\ a # None
  BY <1>0, <1>1, AtFacts
<1>3. PICK r \in ThreadSet : /\ th' = [th EXCEPT ![a] = r]
                             /\ \E jobs \in PlainJobs : r.work = jobs \o Tail(th[a].work)
                             /\ SampleOk(r.sample)
  BY Zenon, <1>0, <1>2, CommitReplaces, ReplaceShape
<1>4. /\ orphans' \in [Txs -> SUBSET Txs] /\ lock' \in Threads \cup {None}
      /\ moves' \in 0 .. MaxMoves /\ received' \in 0 .. MaxEvents
  BY <1>0, <1>1 DEF ShapeInv
<1>5. /\ Quiet /\ ShapeInv' /\ ChainInv' /\ WorkInv' /\ TipInv' /\ SampleInv'
      /\ \A c : OnChain(c)' <=> OnChain(c)
      /\ \A c : Spent(c)' <=> Spent(c)
      /\ \A c : StripAhead(c)' <=> StripAhead(c)
  BY Zenon, <1>1, <1>2, <1>3, <1>4, QuietStep
<1>6. /\ Joining' = Joining
      /\ ScanAhead => ScanAhead'
      /\ Doing(Tip, "evict")' => Doing(Tip, "evict") /\ Head1(Tip)' = Head1(Tip)
  BY <1>0, <1>5, QuietTip
<1>7. \A c \in Ins[x] : /\ Known(c) \/ (ScanAhead /\ ~Doing(Tip, "evict"))
                        /\ Spent(c) => ~maintained \/ StripAhead(c)
  BY <1>0, <1>1, <1>2 DEF InsertInv
<1>8. ASSUME NEW t \in g'.live, NEW c \in Ins[t]
      PROVE  /\ t \in g.live \cup {x}
             /\ Known(c) => Known(c)'
  <2>1. t \in g.live \cup {x} /\ (Maker[c] \in g.live => Maker[c] \in g'.live)
    BY <1>0, CommitLeaves
  <2> QED
    BY <1>5, <2>1 DEF Known, Creator
<1>9. LiveInv'
  <2>1. ASSUME NEW t \in g'.live, NEW c \in Ins[t]
        PROVE  /\ Known(c)' \/ (ScanAhead' /\ (Doing(Tip, "evict")' => t \in Head1(Tip)'.txs))
               /\ Spent(c)' => ~maintained' \/ StripAhead(c)'
    <3>1. CASE t = x
      BY <1>1, <1>5, <1>6, <1>7, <1>8, <3>1
    <3>2. CASE t \in g.live
      <4>1. /\ Known(c) \/ (ScanAhead /\ (Doing(Tip, "evict") => t \in Head1(Tip).txs))
            /\ Spent(c) => ~maintained \/ StripAhead(c)
        BY <1>0, <3>2 DEF LiveInv
      <4> QED
        BY <1>1, <1>5, <1>6, <1>8, <4>1
    <3> QED
      BY <1>8, <3>1, <3>2
  <2> QED
    BY <2>1 DEF LiveInv
<1>10. MinedInv'
  <2>1. SUFFICES ASSUME maintained, NEW t \in g'.live, t \in Confirmed
                 PROVE  t \in Joining
    BY <1>1, <1>6 DEF MinedInv, Confirmed
  <2>2. PICK c \in Ins[t] : TRUE
    BY <1>0, GraphAssumption
  <2>3. CASE t \in g.live
    BY <1>0, <2>1, <2>3 DEF MinedInv
  <2>4. CASE t = x /\ t \in annotated
    <3>1. StripAhead(c)
      BY <1>7, <2>1, <2>2, <2>4 DEF Spent
    <3>2. PICK u \in Joining : c \in Ins[u]
      BY <3>1 DEF StripAhead
    <3>3. u \in Confirmed
      BY <1>0, <3>2, AnnotatedConfirmed
    <3>4. u = t
      BY <1>0, <2>1, <2>2, <3>2, <3>3 DEF ChainInv
    <3> QED
      BY <3>2, <3>4
  <2>5. CASE t \notin annotated
    BY <1>0, <2>1, <2>5, AnnotatedConfirmed
  <2> QED
    BY <1>8, <2>2, <2>3, <2>4, <2>5
<1>11. InsertInv'
  BY <1>1 DEF InsertInv
<1> QED
  BY <1>5, <1>9, <1>10, <1>11 DEF CoinInv

-----------------------------------------------------------------------------
(* The tip thread moves the chain.  What follows for the pool when no        *)
(* eviction is in hand: an input stays known or a scan is ahead, and one     *)
(* that became spent is about to be stripped.                                *)
LEMMA ChainStep ==
    ASSUME CoinInv, NEW r \in ThreadSet, th' = [th EXCEPT ![Tip] = r],
           UNCHANGED <<g, lock, maintained>>,
           ~Admitting(Tip), ~Doing(Tip, "evict"), ~Doing(Tip, "evict")',
           SampleOk(r.sample), \A s \in SampleSet : SampleOk(s) => SampleOk(s)',
           \A c : Known(c) \/ ScanAhead => Known(c)' \/ ScanAhead',
           maintained => \A c : (Spent(c) => StripAhead(c)) => (Spent(c)' => StripAhead(c)')
    PROVE  LiveInv' /\ InsertInv' /\ SampleInv' /\ th' \in [Threads -> ThreadSet] /\ th'[Tip] = r
<1>0. ShapeInv /\ SampleInv /\ LiveInv /\ InsertInv /\ Tip \in Threads
  BY DEF CoinInv, Threads
<1>1. /\ th' \in [Threads -> ThreadSet] /\ th'[Tip] = r
      /\ \A b \in Threads : b # Tip => th'[b] = th[b]
  BY Zenon, <1>0, ThreadMoves
<1>2. LiveInv'
  BY <1>0 DEF LiveInv
<1>3. SampleInv'
  <2>1. ASSUME NEW b \in Threads PROVE SampleOk(th'[b].sample) /\ th'[b].sample \in SampleSet
    BY <1>0, <1>1 DEF SampleInv, SampleOk, ThreadSet
  <2>2. ASSUME NEW b \in Threads PROVE SampleOk(th[b].sample)'
    BY <2>1
  <2> QED
    BY <2>2 DEF SampleInv, SampleOk
<1>4. InsertInv'
  <2>1. SUFFICES ASSUME lock # None PROVE InsertInv'
    BY DEF InsertInv
  <2>2. lock \in Threads /\ lock # Tip
    BY <1>0, <2>1 DEF InsertInv, ShapeInv
  <2>3. th'[lock] = th[lock]
    BY <1>1, <2>2
  <2>4. (Admitting(lock) <=> Admitting(lock)') /\ Head1(lock)' = Head1(lock)
    BY <2>3 DEF Admitting, Doing, Head1
  <2> QED
    BY <1>0, <2>1, <2>3, <2>4 DEF InsertInv
<1> QED
  BY <1>1, <1>2, <1>3, <1>4

(* The job in hand of the tip thread. *)
LEMMA TipHead ==
    ASSUME ShapeInv, NEW op, Doing(Tip, op)
    PROVE  /\ Tip \in Threads /\ th[Tip] \in ThreadSet /\ Work \in Seq(JobSet) /\ Work # <<>>
           /\ 1 \in DOMAIN Work /\ Head1(Tip) = Work[1] /\ Head1(Tip).op = op
           /\ Head1(Tip).txs \in SUBSET Txs
           /\ \A o : Doing(Tip, o) => o = op
           /\ op \notin {"relay", "restore", "reorg"} => ~Admitting(Tip)
<1>1. Tip \in Threads
  BY DEF Threads
<1>2. th[Tip] \in ThreadSet /\ th[Tip].work \in Seq(JobSet) /\ th[Tip].work # <<>>
  BY <1>1 DEF ShapeInv, ThreadSet, Doing
<1>3. 1 \in DOMAIN Work /\ Head1(Tip) = Work[1] /\ Work[1] \in JobSet
  BY <1>2 DEF Work, Head1
<1>4. Head1(Tip).op = op /\ Head1(Tip).txs \in SUBSET Txs
  BY <1>3 DEF Doing, JobSet
<1>5. \A o : Doing(Tip, o) => o = op
  BY <1>4 DEF Doing
<1> QED
  BY <1>1, <1>2, <1>3, <1>4, <1>5 DEF Work, Admitting

(* The tip thread goes on to another stage of its job. *)
LEMMA TipGoes ==
    ASSUME CoinInv, Tip \in Threads, NEW to \in Pcs, GoTo(Tip, to)
    PROVE  \E r \in ThreadSet :
             /\ th' = [th EXCEPT ![Tip] = r] /\ r.work = Work /\ r.pc = to
             /\ r.sample = th[Tip].sample /\ SampleOk(r.sample)
             /\ th'[Tip] = r
             /\ Work' = Work /\ (ScanAhead' <=> ScanAhead)
             /\ \A op : Doing(Tip, op)' <=> Doing(Tip, op)
             /\ Head1(Tip)' = Head1(Tip)
<1> DEFINE r == [th[Tip] EXCEPT !.pc = to]
<1>0. ShapeInv /\ SampleInv /\ th[Tip] \in ThreadSet
  BY DEF CoinInv, ShapeInv
<1>1. r \in ThreadSet /\ r.work = th[Tip].work /\ r.sample = th[Tip].sample /\ r.pc = to
  BY <1>0, RecordShape
<1>2. th' = [th EXCEPT ![Tip] = r]
  BY DEF GoTo
<1> HIDE DEF r
<1>3. th'[Tip] = r
  BY Zenon, <1>0, <1>1, <1>2, ThreadMoves
<1>4. Work' = Work /\ Head1(Tip)' = Head1(Tip) /\ \A op : Doing(Tip, op)' <=> Doing(Tip, op)
  BY <1>1, <1>3 DEF Work, Head1, Doing
<1>5. ScanAhead' <=> ScanAhead
  BY <1>4 DEF ScanAhead
<1>6. SampleOk(r.sample)
  BY <1>0, <1>1 DEF SampleInv, SampleOk
<1> QED
  BY Zenon, <1>1, <1>2, <1>3, <1>4, <1>5, <1>6 DEF Work

(* The jobs stay, the stage is a legal one: the list stays in order. *)
LEMMA StageKeepsWork ==
    ASSUME WorkInv, Work' = Work, ScanAhead' <=> ScanAhead, maintained' = maintained,
           \A op : Doing(Tip, op)' <=> Doing(Tip, op), ~Doing(Tip, "purge_drop"),
           Doing(Tip, "connect") => th'[Tip].pc \in {"start", "hold", "annotate", "release", "strip"},
           Doing(Tip, "disconnect") => th'[Tip].pc \in {"start", "retreat", "release"}
    PROVE  WorkInv'
BY DEF WorkInv

(* A tip step under the write lock, from the invariants it can disturb. *)
LEMMA LockedStep ==
    ASSUME CoinInv, PoolInv', lock = None, lock' = None, maintained' \in BOOLEAN,
           UNCHANGED <<chain, annotated, view, moves, received, orphans>>,
           NEW r \in ThreadSet, th' = [th EXCEPT ![Tip] = r], SampleOk(r.sample),
           WorkInv', TipInv', LiveInv', MinedInv'
    PROVE  CoinInv'
<1>0. ShapeInv /\ ChainInv /\ SampleInv /\ Tip \in Threads
  BY DEF CoinInv, Threads
<1>1. /\ th' \in [Threads -> ThreadSet] /\ th'[Tip] = r
      /\ \A b \in Threads : b # Tip => th'[b] = th[b]
  BY Zenon, <1>0, ThreadMoves
<1>2. ShapeInv'
  BY <1>0, <1>1 DEF ShapeInv
<1>3. ChainInv' /\ Confirmed' = Confirmed
  BY <1>0 DEF ChainInv, Confirmed
<1>4. SampleInv'
  <2>1. ASSUME NEW b \in Threads PROVE SampleOk(th'[b].sample)
    BY <1>0, <1>1 DEF SampleInv, SampleOk
  <2>2. \A c : (OnChain(c)' <=> OnChain(c)) /\ (Spent(c)' <=> Spent(c))
    BY <1>3 DEF OnChain, Spent
  <2> QED
    BY <2>1, <2>2 DEF SampleInv, SampleOk
<1>5. InsertInv'
  BY DEF InsertInv
<1> QED
  BY <1>2, <1>3, <1>4, <1>5 DEF CoinInv

(* One plain job more. *)
LEMMA PlainThen ==
    ASSUME NEW w \in PlainJobs, NEW j \in JobSet, j.op \in PlainOps
    PROVE  w \o <<j>> \in PlainJobs
<1>1. w \in Seq(JobSet) /\ \A i \in 1 .. Len(w) : w[i].op \in PlainOps
  BY DEF PlainJobs
<1> DEFINE n == w \o <<j>>
<1>2. /\ n \in Seq(JobSet) /\ Len(n) = Len(w) + 1 /\ Len(w) \in Nat
      /\ \A i \in 1 .. Len(w) : n[i] = w[i]
      /\ n[Len(w) + 1] = j
  BY <1>1
<1> HIDE DEF n
<1>3. ASSUME NEW i \in DOMAIN n PROVE n[i].op \in PlainOps
  <2>1. i \in 1 .. Len(w) \/ i = Len(w) + 1
    BY <1>2
  <2> QED
    BY <1>1, <1>2, <2>1
<1>4. n \in PlainJobs
  BY <1>2, <1>3 DEF PlainJobs
<1> QED
  BY <1>4 DEF n

(* The chain has a coin: it was made there and not spent. *)
LEMMA HasCoinMeans ==
    ASSUME NEW c
    PROVE  /\ HasCoin(c) <=> OnChain(c) /\ ~Spent(c)
           /\ ChainPrevout(c) = "unavailable" <=> OnChain(c) /\ Spent(c)
BY DEF HasCoin, ChainPrevout, OnChain, Spent
=============================================================================
