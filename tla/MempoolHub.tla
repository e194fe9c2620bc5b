----------------------------- MODULE MempoolHub -----------------------------
(***************************************************************************)
(* The graph of live transactions of crates/rbitcoin-mempool/src/graph.rs: *)
(* entries with parent and child edges, and the map from an outpoint to    *)
(* the live transaction that spends it.  Pure operators on a graph value;  *)
(* MempoolHub holds the graph under its write lock.  A transaction is a    *)
(* member of Txs, an outpoint a member of Coins; fees and weights are left *)
(* to the users of this module.                                            *)
(***************************************************************************)
EXTENDS Naturals, FiniteSets, Sequences, Functions

CONSTANTS Txs,     \* transactions
          Coins,   \* outpoints
          Maker,   \* outpoint -> the transaction that creates it, or Base
          Ins,     \* transaction -> the outpoints it spends
          Base,    \* maker of the outpoints that every chain holds
          None     \* no transaction

ASSUME GraphAssumption ==
    /\ Maker \in [Coins -> Txs \cup {Base}]
    /\ Ins \in [Txs -> SUBSET Coins]
    /\ None \notin Txs
    /\ Base \notin Txs
    /\ \A t \in Txs : Ins[t] # {} /\ \A c \in Ins[t] : Maker[c] # t

Outs(t) == {c \in Coins : Maker[c] = t}

Graph == [live      : SUBSET Txs,
          parents   : [Txs -> SUBSET Txs],
          children  : [Txs -> SUBSET Txs],
          conflicts : [Coins -> Txs \cup {None}]]

EmptyGraph == [live      |-> {},
               parents   |-> [t \in Txs |-> {}],
               children  |-> [t \in Txs |-> {}],
               conflicts |-> [c \in Coins |-> None]]

(* creator(op): the outpoint is made by a live transaction. *)
Creator(g, c) == Maker[c] \in g.live

(* The live spenders of a set of outpoints. *)
Spenders(g, coins) == {g.conflicts[c] : c \in coins} \ {None}

(* Mutated form: a child accepted while its parent was confirmed is not linked again. *)
InsertAbove(g, t) ==
    LET up == {Maker[c] : c \in Ins[t]} \cap g.live
    IN [live      |-> g.live \cup {t},
        parents   |-> [g.parents EXCEPT ![t] = up],
        children  |-> [x \in Txs |-> IF x = t THEN {}
                                     ELSE IF x \in up THEN g.children[x] \cup {t}
                                     ELSE g.children[x]],
        conflicts |-> [c \in Coins |-> IF c \in Ins[t] THEN t ELSE g.conflicts[c]]]

(* Edges to the live parents, and to the children accepted while t was confirmed. *)
Insert(g, t) ==
    LET up   == {Maker[c] : c \in Ins[t]} \cap g.live
        down == Spenders(g, Outs(t))
    IN [live      |-> g.live \cup {t},
        parents   |-> [x \in Txs |-> IF x = t THEN up
                                     ELSE IF x \in down THEN g.parents[x] \cup {t}
                                     ELSE g.parents[x]],
        children  |-> [x \in Txs |-> IF x = t THEN down
                                     ELSE IF x \in up THEN g.children[x] \cup {t}
                                     ELSE g.children[x]],
        conflicts |-> [c \in Coins |-> IF c \in Ins[t] THEN t ELSE g.conflicts[c]]]

(* remove, for every member of a set: the order does not matter. *)
Unlink(g, gone) ==
    [live      |-> g.live \ gone,
     parents   |-> [x \in Txs |-> IF x \in gone THEN {}
                                  ELSE g.parents[x] \ {y \in gone : x \in g.children[y]}],
     children  |-> [x \in Txs |-> IF x \in gone THEN {}
                                  ELSE g.children[x] \ {y \in gone : x \in g.parents[y]}],
     conflicts |-> [c \in Coins |-> IF g.conflicts[c] \in gone THEN None
                                    ELSE g.conflicts[c]]]

(* conflict_set: the live ones of a set with everything reached over child   *)
(* edges, the least set of live transactions closed under them.              *)
Below(g, direct) ==
    {x \in g.live : \A s \in SUBSET g.live :
        /\ direct \cap g.live \subseteq s
        /\ \A y \in s : g.children[y] \cap g.live \subseteq s
        => x \in s}

(* unlink_tree: a transaction and whatever spends its outputs. *)
Tree(g, t) == Below(g, Spenders(g, Outs(t))) \cup ({t} \cap g.live)

Trees(g, ts) == UNION {Tree(g, t) : t \in ts}

-----------------------------------------------------------------------------

(* The indexes of the graph name the same transactions: an entry's parents   *)
(* are the live makers of its inputs, its children the live spenders of its  *)
(* outputs, and the conflict map leads from an outpoint to its one live      *)
(* spender.  Replacement, tree eviction and the block strip all walk these   *)
(* edges instead of the bodies.                                              *)
GraphOk(g) ==
    /\ \A t \in g.live : /\ g.parents[t]  = {Maker[c] : c \in Ins[t]} \cap g.live
                         /\ g.children[t] = {x \in g.live : Ins[x] \cap Outs(t) # {}}
    /\ \A t \in Txs \ g.live : g.parents[t] = {} /\ g.children[t] = {}
    /\ \A c \in Coins : g.conflicts[c] # None => g.conflicts[c] \in g.live
                                                 /\ c \in Ins[g.conflicts[c]]
    /\ \A t \in g.live : \A c \in Ins[t] : g.conflicts[c] = t

-----------------------------------------------------------------------------
(***************************************************************************)
(* The staged admission of crates/rbitcoin-net/src/tx_relay.rs.  Admission *)
(* tasks and the tip-accept thread share one live graph and one orphanage  *)
(* under a read/write lock, and read coins from a chain that only the tip  *)
(* thread moves.  A transaction is prepared under the read lock, its coins *)
(* are sampled with the lock free, and the commit takes the write lock and *)
(* trusts the sample only when the stamp of the UTXO view and the set of   *)
(* live parents are unchanged.  Scripts and fees are data: every           *)
(* transaction of Txs is valid, Beats says which replacements pay.         *)
(*                                                                         *)
(* A thread is a worklist.  Its head is the job in hand; a job that        *)
(* succeeds or fails puts the jobs that its caller runs next in front.     *)
(***************************************************************************)

CONSTANTS Beats,      \* transaction -> the direct conflicts it pays for
          Order,      \* the transactions, parents first
          Admitters,  \* admission tasks
          Tip,        \* the tip-accept thread
          Weight,     \* transaction -> weight
          MaxWeight,  \* weight budget of the pool
          MaxMoves,   \* bound: tip changes in one behaviour
          MaxEvents   \* bound: tip changes and transactions offered in one behaviour

Threads == Admitters \cup {Tip}

ASSUME HubAssumption ==
    /\ IsFiniteSet(Txs)
    /\ Beats \in [Txs -> SUBSET Txs]
    /\ Order \in Seq(Txs)
    /\ Txs \subseteq {Order[i] : i \in DOMAIN Order}
    /\ \A i, j \in DOMAIN Order : \A c \in Ins[Order[i]] : Maker[c] = Order[j] => j < i
    /\ Tip \notin Admitters
    /\ None \notin Threads
    /\ Weight \in [Txs -> Nat] /\ MaxWeight \in Nat
    /\ MaxMoves \in Nat
    /\ MaxEvents \in Nat

VARIABLES chain,       \* the blocks above the base, as sets of transactions
          annotated,   \* transactions whose spends the chain has recorded
          view,        \* stamp of the UTXO view, odd while it is held
          g,           \* the live graph
          orphans,     \* transaction -> missing parents, {} when not parked
          maintained,  \* pool_maintained
          lock,        \* the holder of the pool's write lock
          th,          \* thread -> its worklist and locals
          moves,       \* tip changes so far
          received     \* transactions offered so far

chainVars == <<chain, annotated, view, moves, received>>
poolVars == <<g, orphans, maintained>>
mhVars == <<chain, annotated, view, g, orphans, maintained, lock, th, moves, received>>

Job(op, txs) == [op |-> op, txs |-> txs]

(* One job per transaction, parents first. *)
Jobs(op, txs) ==
    LET before(x) == {y \in txs : \E i, j \in DOMAIN Order :
                                     i <= j /\ Order[i] = y /\ Order[j] = x}
    IN [i \in 1 .. Cardinality(txs) |->
          Job(op, {x \in txs : Cardinality(before(x)) = i})]

NoSample == [stamp |-> None, had |-> {}, coins |-> {}]

Ready(jobs, notes) ==
    [work |-> jobs, pc |-> "start", missing |-> {}, sample |-> NoSample, notes |-> notes]

MhInit == /\ chain = <<>>
          /\ annotated = {}
          /\ view = 0
          /\ g = EmptyGraph
          /\ orphans = [t \in Txs |-> {}]
          /\ maintained = FALSE
          /\ lock = None
          /\ th = [a \in Threads |-> Ready(<<>>, {})]
          /\ moves = 0
          /\ received = 0

-----------------------------------------------------------------------------
(* The chain as the pool reads it. *)

Mined(blocks) == UNION Range(blocks)
LastBlock(blocks) == blocks[Len(blocks)]
WithoutLast(blocks) == SubSeq(blocks, 1, Len(blocks) - 1)

Confirmed == Mined(chain)

(* chain_prevout: the creator comes from the connected rows, the spend from *)
(* the annotation, and the two are written at different moments.            *)
ChainPrevout(c) ==
    IF Maker[c] \notin Confirmed \cup {Base} THEN "unknown"
    ELSE IF \E t \in annotated : c \in Ins[t] THEN "unavailable"
    ELSE "unspent"

HasCoin(c) == ChainPrevout(c) = "unspent"

ViewStamp == IF view % 2 = 0 THEN view ELSE None

-----------------------------------------------------------------------------
(* Worklists. *)

Head1(a) == Head(th[a].work)
Doing(a, op) == th[a].work # <<>> /\ Head1(a).op = op
Admitting(a) == \E op \in {"relay", "restore", "reorg"} : Doing(a, op)
At(a, x, pc) == Admitting(a) /\ Head1(a).txs = {x} /\ th[a].pc = pc

(* A promote walk of this thread is running: its end is still ahead. *)
InWalk(a) == \E i \in DOMAIN th[a].work : th[a].work[i].op = "end"

Begin(a, jobs) == th' = [th EXCEPT ![a] = Ready(jobs, {})]

Replace(a, jobs, notes) == th' = [th EXCEPT ![a] = Ready(jobs \o Tail(th[a].work), notes)]

Finish(a) == Replace(a, <<>>, th[a].notes)

GoTo(a, pc) == th' = [th EXCEPT ![a].pc = pc]

(* promote_orphans_staged: a thread that is already walking only notes the parent. *)
Promote(a, x) == IF InWalk(a) THEN Replace(a, <<>>, th[a].notes \cup {x})
                 ELSE Replace(a, <<Job("take", {x}), Job("end", {})>>, {})

-----------------------------------------------------------------------------
(* One admission. *)

Receive(a, x) ==
    /\ th[a].work = <<>>
    /\ received + moves < MaxEvents
    /\ received' = received + 1
    /\ Begin(a, <<Job("relay", {x})>>)
    /\ UNCHANGED <<chain, annotated, view, moves, poolVars, lock>>

(* collect_admit_inputs: the parents that neither the pool nor the chain knows. *)
Missing(x) == {Maker[c] : c \in {c \in Ins[x] : ~Creator(g, c) /\ ChainPrevout(c) = "unknown"}}

(* prepare_admit under the read lock.  Only the relay path parks. *)
Prepare(a, x) ==
    LET gone == \E c \in Ins[x] : ~Creator(g, c) /\ ChainPrevout(c) = "unavailable"
        Park(missing) == th' = [th EXCEPT ![a].pc = "park", ![a].missing = missing]
    IN /\ At(a, x, "start")
       /\ lock = None
       /\ IF x \in g.live THEN Finish(a)
          ELSE IF Doing(a, "relay") /\ orphans[x] # {} THEN Park(orphans[x])
          ELSE IF gone THEN Finish(a)
          ELSE IF Missing(x) = {} THEN GoTo(a, "stamp")
          ELSE IF Doing(a, "relay") THEN Park(Missing(x))
          ELSE Finish(a)
       /\ UNCHANGED <<chainVars, poolVars, lock>>

(* park_orphan_from, with the missing set that prepare saw. *)
ParkOrphan(a, x) ==
    /\ At(a, x, "park")
    /\ lock = None
    /\ orphans' = IF x \in g.live \/ orphans[x] # {} THEN orphans
                  ELSE [orphans EXCEPT ![x] = th[a].missing]
    /\ Finish(a)
    /\ UNCHANGED <<chainVars, g, maintained, lock>>

SampleStamp(a, x) ==
    /\ At(a, x, "stamp")
    /\ th' = [th EXCEPT ![a].sample = [NoSample EXCEPT !.stamp = ViewStamp],
                        ![a].pc = IF ViewStamp = None THEN "commit" ELSE "creators"]
    /\ UNCHANGED <<chainVars, poolVars, lock>>

SampleCreators(a, x) ==
    /\ At(a, x, "creators")
    /\ lock = None
    /\ th' = [th EXCEPT ![a].sample.had = {c \in Ins[x] : Creator(g, c)},
                        ![a].pc = "coins"]
    /\ UNCHANGED <<chainVars, poolVars, lock>>

SampleCoins(a, x) ==
    /\ At(a, x, "coins")
    /\ th' = [th EXCEPT ![a].sample.coins = {c \in Ins[x] \ th[a].sample.had : HasCoin(c)},
                        ![a].pc = "commit"]
    /\ UNCHANGED <<chainVars, poolVars, lock>>

(* Mutated form: only the creators are compared. *)
FreshCreators(a, x) ==
    /\ th[a].sample.stamp # None
    /\ \A c \in Ins[x] : Creator(g, c) <=> c \in th[a].sample.had

(* sampled_coins_fresh *)
Fresh(a, x) ==
    /\ th[a].sample.stamp # None
    /\ th[a].sample.stamp = ViewStamp
    /\ \A c \in Ins[x] : Creator(g, c) <=> c \in th[a].sample.had

(* The coins half of commit_rechecked.  The write lock is held from here to *)
(* the insert; the chain is not, and moves on.                              *)
CommitRecheck(a, x) ==
    LET ok == IF Fresh(a, x)
              THEN Ins[x] \subseteq th[a].sample.had \cup th[a].sample.coins
              ELSE \A c \in Ins[x] : Creator(g, c) \/ HasCoin(c)
    IN /\ At(a, x, "commit")
       /\ lock = None
       /\ IF ok THEN GoTo(a, "insert") /\ lock' = a
                ELSE Finish(a) /\ UNCHANGED lock
       /\ UNCHANGED <<chainVars, poolVars>>

Direct(x) == Spenders(g, Ins[x])

NewUnconfirmed(x) == \* reject_new_unconfirmed
    /\ Direct(x) # {}
    /\ \E c \in Ins[x] : /\ Creator(g, c)
                         /\ \A d \in Direct(x) : \A i \in Ins[d] : Maker[i] # Maker[c]

(* plan_after_script: the admission is not refused. *)
Plan(x) ==
    /\ x \notin g.live
    /\ orphans[x] = {}
    /\ Direct(x) \subseteq Beats[x]
    /\ ~NewUnconfirmed(x)
    /\ \A c \in Ins[x] : Maker[c] \notin Below(g, Direct(x))

(* finish_commit: the conflicts leave, x enters, and the worst chunks are    *)
(* evicted while the pool is over its budget (any of the others may be the   *)
(* worst; x alone never is taken).  When x goes with an evicted parent the   *)
(* conflicts are put back by jobs of their own, after the lock is released.  *)
CommitInsert(a, x) ==
    LET undone == Below(g, Direct(x))
        added  == Insert(Unlink(g, undone), x)
        full   == SumFunctionOnSet(Weight, added.live) > MaxWeight
    IN /\ At(a, x, "insert")
       /\ lock = a
       /\ lock' = None
       /\ IF ~Plan(x) THEN Finish(a) /\ UNCHANGED g
          ELSE \E worst \in IF full THEN SUBSET (added.live \ {x}) ELSE {{}} :
                 /\ g' = Unlink(added, Trees(added, worst))
                 /\ IF x \notin g'.live
                    THEN Replace(a, Jobs("restore", undone), th[a].notes)
                    ELSE \/ Promote(a, x)
                         \/ Doing(a, "restore") /\ Finish(a) \* still indexed for relay
       /\ UNCHANGED <<chainVars, orphans, maintained>>

(* enqueue_noted_orphans: the children of the noted parents leave the *)
(* orphanage and are admitted one by one.                             *)
TakeOrphans(a) ==
    LET kids == {k \in Txs : orphans[k] \cap (Head1(a).txs \cup th[a].notes) # {}}
        then == Jobs("relay", kids)
    IN /\ Doing(a, "take")
       /\ lock = None
       /\ orphans' = [k \in Txs |-> IF k \in kids THEN {} ELSE orphans[k]]
       /\ Replace(a, [i \in 1 .. 2 * Len(then) |->
                        IF i % 2 = 1 THEN then[(i + 1) \div 2] ELSE Job("take", {})], {})
       /\ UNCHANGED <<chainVars, g, maintained, lock>>

EndWalk(a) ==
    /\ Doing(a, "end")
    /\ Replace(a, <<>>, {})
    /\ UNCHANGED <<chainVars, poolVars, lock>>

-----------------------------------------------------------------------------
(* The tip-accept thread. *)

(* The blocks that connect on a chain. *)
Connects(blocks, b) ==
    /\ b \cap Mined(blocks) = {}
    /\ \A t \in b : \A c \in Ins[t] :
         /\ Maker[c] \in Mined(blocks) \cup b \cup {Base}
         /\ \A u \in (Mined(blocks) \cup b) \ {t} : c \notin Ins[u]

(* A connect and a disconnect go through stages, the pc of the tip thread. *)
ConnectJobs(b) == <<Job("connect", b)>>

DisconnectJobs == <<Job("disconnect", {})>>

TipAt(op, pc) == Doing(Tip, op) /\ th[Tip].pc = pc

(* reorg_reaccept and the two evictions after it. *)
ReacceptJobs(gone) == Jobs("reorg", gone) \o <<Job("scan", {}), Job("scan", {})>>

TipStarts(jobs) ==
    /\ th[Tip].work = <<>>
    /\ Begin(Tip, jobs)
    /\ UNCHANGED <<chain, annotated, view, received, poolVars, lock>>

Move(jobs) ==
    /\ moves < MaxMoves /\ received + moves < MaxEvents
    /\ moves' = moves + 1
    /\ TipStarts(jobs)

StartConnect(b) == th[Tip].work = <<>> /\ Connects(chain, b) /\ Move(ConnectJobs(b))

StartInvalidate == chain # <<>> /\ Move(DisconnectJobs \o ReacceptJobs(LastBlock(chain)))

(* A branch reorg puts the disconnected transactions back after its connect. *)
StartReorg(b) == /\ th[Tip].work = <<>>
                 /\ chain # <<>>
                 /\ b # LastBlock(chain)
                 /\ Connects(WithoutLast(chain), b)
                 /\ Move(DisconnectJobs \o ConnectJobs(b) \o ReacceptJobs(LastBlock(chain)))

StartMaintain == /\ ~maintained
                 /\ TipStarts(<<Job("purge", {})>>)
                 /\ UNCHANGED moves

(* The connected rows become visible before the spends are annotated.  A     *)
(* block without spends leaves the view alone.                               *)
Advance == /\ TipAt("connect", "start")
           /\ chain' = Append(chain, Head1(Tip).txs)
           /\ GoTo(Tip, IF Head1(Tip).txs = {} THEN "strip" ELSE "hold")
           /\ UNCHANGED <<annotated, view, moves, received, poolVars, lock>>

Retreat == /\ TipAt("disconnect", "retreat")
           /\ chain' = WithoutLast(chain)
           /\ annotated' = annotated \ LastBlock(chain)
           /\ GoTo(Tip, "release")
           /\ UNCHANGED <<view, moves, received, poolVars, lock>>

(* UtxoViewGuard: taken and dropped. *)
TurnView == /\ \/ TipAt("connect", "hold") /\ GoTo(Tip, "annotate")
               \/ TipAt("connect", "release") /\ GoTo(Tip, "strip")
               \/ TipAt("disconnect", "start") /\ GoTo(Tip, "retreat")
               \/ TipAt("disconnect", "release") /\ Finish(Tip)
            /\ view' = view + 1
            /\ UNCHANGED <<chain, annotated, moves, received, poolVars, lock>>

Annotate == /\ TipAt("connect", "annotate")
            /\ annotated' = annotated \cup Head1(Tip).txs
            /\ GoTo(Tip, "release")
            /\ UNCHANGED <<chain, view, moves, received, poolVars, lock>>

(* remove_block_txids: the listed leave alone, their conflicts with their descendants. *)
Stripped(b, coins) == LET listed == Unlink(g, b)
                      IN Unlink(listed, Below(listed, Spenders(listed, coins)))

(* remove_for_block_spent: during the initial download the pool is left alone. *)
Strip ==
    LET b     == Head1(Tip).txs
        walks == Jobs("take", b)
    IN /\ TipAt("connect", "strip")
       /\ lock = None
       /\ IF ~maintained THEN Finish(Tip) /\ UNCHANGED g
          ELSE /\ g' = Stripped(b, UNION {Ins[t] : t \in b})
               /\ Replace(Tip, [i \in 1 .. 2 * Len(walks) |->
                                  IF i % 2 = 1 THEN walks[(i + 1) \div 2] ELSE Job("end", {})]
                               \o <<Job("erase", b)>>, {})
       /\ UNCHANGED <<chainVars, orphans, maintained, lock>>

EraseForBlock ==
    /\ Doing(Tip, "erase")
    /\ lock = None
    /\ orphans' = [t \in Txs |-> IF t \in Head1(Tip).txs THEN {} ELSE orphans[t]]
    /\ Finish(Tip)
    /\ UNCHANGED <<chainVars, g, maintained, lock>>

(* reorg_evict: the coins are checked with the lock free, then the trees go. *)
EvictScan ==
    LET bad == {t \in g.live : \E c \in Ins[t] : ~Creator(g, c) /\ ~HasCoin(c)}
    IN /\ Doing(Tip, "scan")
       /\ lock = None
       /\ IF bad = {} THEN Finish(Tip)
          ELSE Replace(Tip, <<Job("evict", bad), Job("scan", {})>>, {})
       /\ UNCHANGED <<chainVars, poolVars, lock>>

(* Mutated form: only the transactions of the list go. *)
EvictListed ==
    /\ Doing(Tip, "evict")
    /\ lock = None
    /\ g' = Unlink(g, Head1(Tip).txs)
    /\ Begin(Tip, IF g' = g THEN Tail(Tail(th[Tip].work)) ELSE Tail(th[Tip].work))
    /\ UNCHANGED <<chainVars, orphans, maintained, lock>>

EvictDrop ==
    /\ Doing(Tip, "evict")
    /\ lock = None
    /\ g' = Unlink(g, Trees(g, Head1(Tip).txs \cap g.live))
    /\ Begin(Tip, IF g' = g THEN Tail(Tail(th[Tip].work)) ELSE Tail(th[Tip].work))
    /\ UNCHANGED <<chainVars, orphans, maintained, lock>>

(* purge_confirmed lists the confirmed live transactions ... *)
PurgeList == /\ Doing(Tip, "purge")
             /\ lock = None
             /\ Replace(Tip, <<Job("purge_drop", g.live \cap Confirmed)>>, {})
             /\ UNCHANGED <<chainVars, poolVars, lock>>

(* ... and drops them under the write lock with whatever the chain double  *)
(* spends; begin_pool_maintenance publishes the flag afterwards.           *)
PurgeDrop ==
    LET confirmed == Head1(Tip).txs \cap g.live
        remain    == g.live \ confirmed
        spent     == {c \in UNION {Ins[t] : t \in remain} :
                        Maker[c] \notin remain /\ ChainPrevout(c) = "unavailable"}
    IN /\ Doing(Tip, "purge_drop")
       /\ lock = None
       /\ g' = Stripped(confirmed, spent)
       /\ maintained' = TRUE
       /\ Finish(Tip)
       /\ UNCHANGED <<chainVars, orphans, lock>>

-----------------------------------------------------------------------------

Step(a) == \/ \E x \in Txs : \/ Prepare(a, x) \/ ParkOrphan(a, x)
                              \/ SampleStamp(a, x) \/ SampleCreators(a, x) \/ SampleCoins(a, x)
                              \/ CommitRecheck(a, x) \/ CommitInsert(a, x)
           \/ TakeOrphans(a)
           \/ EndWalk(a)

TipStep == \/ Advance \/ Retreat \/ TurnView \/ Annotate
           \/ Strip \/ EraseForBlock
           \/ EvictScan \/ EvictDrop
           \/ PurgeList \/ PurgeDrop

MhNext == \/ \E a \in Threads : Step(a)
          \/ \E a \in Admitters, x \in Txs : Receive(a, x)
          \/ TipStep
          \/ \E blk \in SUBSET Txs : StartConnect(blk) \/ StartReorg(blk)
          \/ StartInvalidate
          \/ StartMaintain

MhSpec == MhInit /\ [][MhNext]_mhVars

-----------------------------------------------------------------------------

(* Every variable keeps its shape. *)
MhTypeOK ==
    /\ chain \in Seq(SUBSET Txs)
    /\ annotated \subseteq Txs
    /\ view \in Nat
    /\ g \in Graph
    /\ orphans \in [Txs -> SUBSET Txs]
    /\ maintained \in BOOLEAN
    /\ lock \in Threads \cup {None}
    /\ moves \in 0 .. MaxMoves
    /\ received \in 0 .. MaxEvents
    /\ \A a \in Threads :
         /\ \A i \in DOMAIN th[a].work : th[a].work[i].txs \subseteq Txs
         /\ th[a].missing \subseteq Txs /\ th[a].notes \subseteq Txs
         /\ th[a].sample.had \cup th[a].sample.coins \subseteq Coins

(* The graph's edges and its conflict map stay what the live bodies say,    *)
(* through replacement, eviction, block strips and the re-admission of a    *)
(* parent whose child was accepted while the parent was confirmed.          *)
GraphAgrees == GraphOk(g)

(* No transaction is both live and parked: park_orphan_from refuses a live  *)
(* one and plan_after_script a parked one, although each of them decided    *)
(* what to do before it took the write lock.                                *)
LiveNotParked == \A t \in g.live : orphans[t] = {}

(* Between tip changes every input of a maintained pool can be spent: a     *)
(* live transaction makes it, or the chain holds it unspent.  A commit that *)
(* sampled its coins before a connect, or that held the write lock while    *)
(* the tip moved, must not leave a double spend of the chain behind.        *)
LiveSpendable ==
    maintained /\ th[Tip].work = <<>> =>
      \A t \in g.live : \A c \in Ins[t] : Creator(g, c) \/ HasCoin(c)

(* A child never outlives a parent that leaves unconfirmed: whoever removes *)
(* a transaction removes its live descendants under the same write lock.    *)
(* "A template read cannot observe the child after the parent is gone."     *)
ChildrenLeaveToo ==
    \A t \in g.live' : \A c \in Ins[t] :
      Maker[c] \in g.live \ g.live' => Maker[c] \in Confirmed

(* The staged admission implements an atomic pool: whatever the tasks, the  *)
(* tip thread and the lock do, each step of a behaviour is one transaction  *)
(* entering with its conflicts leaving, some leaving with their             *)
(* descendants, a move of the chain, or nothing a reader of the pool sees.  *)
Pool == INSTANCE CoinPool WITH live <- g.live, mined <- Confirmed

AtomicPool == Pool!Spec

(* The pool is well formed, no transaction is both live and parked, and at  *)
(* rest every live transaction spends coins that exist.                     *)
CoinsSafe == MhTypeOK /\ LiveNotParked /\ LiveSpendable
=============================================================================
