----------------------------- MODULE Orphanage ------------------------------
(***************************************************************************)
(* The side pool of transactions whose parents are missing                 *)
(* (crates/rbitcoin-mempool/src/orphanage.rs) with the parking entry       *)
(* points of accept.rs.  The pool write lock makes each call one action.   *)
(* An orphan can also be out: a promotion or a package lift holds a        *)
(* snapshot of it, works without the lock, and then parks it again or      *)
(* settles it, while peers disconnect and send the same transaction again. *)
(* A transaction is its wtxid, with its txid, weight and inputs' parents.  *)
(***************************************************************************)
EXTENDS Naturals, SequencesExt, Integers, FiniteSets, Bags

CONSTANTS Txids, Wtxids, Peers, Parents, NoEntry,
          TxidOf,      \* wtxid -> txid
          OrphanWeight,      \* wtxid -> weight
          ParentsOf,   \* txid -> parents its inputs spend
          Reserve,     \* ORPHAN_RESERVED_WEIGHT_PER_PEER = MAX_ORPHAN_TX_WEIGHT
          MaxOrphanWeight,   \* cap on the unique weight
          MaxCount,    \* cap on the number of orphans
          ExpireAge,   \* ORPHAN_EXPIRE_MS in ticks
          MaxNow,      \* bound: clock ticks
          MaxParks,    \* bound: fresh inserts
          MaxGen       \* bound: takes

ASSUME OrphanAssumption ==
    /\ Peers \subseteq Nat /\ NoEntry \notin Peers \cup Txids
    /\ TxidOf \in [Wtxids -> Txids] /\ OrphanWeight \in [Wtxids -> Nat \ {0}]
    /\ ParentsOf \in [Txids -> SUBSET Parents]
    /\ Reserve \in Nat /\ MaxOrphanWeight \in Nat /\ MaxOrphanWeight >= Reserve
    /\ MaxCount \in Nat \ {0}

VARIABLES o,       \* the Orphanage struct
          held,    \* snapshots the callers hold
          now,     \* the clock that arrived_ms and expire read
          parks,   \* fresh inserts so far
          gone,    \* peers erase_for_peer has run for
          twice    \* txids that were out under two holders at once

orVars == <<o, held, now, parks, gone, twice>>

Entry == [wtxid : Wtxids, missing : SUBSET Parents, announcers : SUBSET Peers,
          arrived : 0 .. MaxNow]

TakenClaim == [announcers : SUBSET Peers, drop : BOOLEAN, gen : 1 .. MaxGen]

Snapshot == [wtxid : Wtxids, announcers : SUBSET Peers, gen : 1 .. MaxGen]

Parked(s) == {t \in Txids : s.by_txid[t] # NoEntry}

Lowest(S) == CHOOSE p \in S : \A q \in S : p <= q

SatSub(a, b) == IF b <= a THEN a - b ELSE 0

OrInit == /\ o = [by_txid      |-> [t \in Txids |-> NoEntry],
                  by_wtxid     |-> [w \in Wtxids |-> NoEntry],
                  by_parent    |-> [p \in Parents |-> {}],
                  fifo         |-> <<>>,
                  total_weight |-> 0,
                  peer_weight  |-> [p \in Peers |-> 0],
                  taken        |-> [t \in Txids |-> NoEntry],
                  taken_gen    |-> 0]
          /\ held = {} /\ now = 0 /\ parks = 0 /\ gone = {} /\ twice = {}

-----------------------------------------------------------------------------

(* Mutated form: only one announcer is released. *)
UnaccountOne(s, e) ==
    [s EXCEPT !.total_weight = SatSub(@, OrphanWeight[e.wtxid]),
              !.peer_weight = [p \in Peers |->
                  IF e.announcers # {} /\ p = Lowest(e.announcers)
                  THEN SatSub(@[p], OrphanWeight[e.wtxid]) ELSE @[p]]]

Unaccount(s, e) ==
    [s EXCEPT !.total_weight = SatSub(@, OrphanWeight[e.wtxid]),
              !.peer_weight = [p \in Peers |->
                  IF p \in e.announcers THEN SatSub(@[p], OrphanWeight[e.wtxid]) ELSE @[p]]]

(* Its ids in the fifo stay. *)
RemoveTxid(s, t) ==
    LET e == s.by_txid[t]
    IN IF e = NoEntry THEN s
       ELSE Unaccount([s EXCEPT !.by_txid[t] = NoEntry,
                                !.by_wtxid[e.wtxid] = NoEntry,
                                !.by_parent = [p \in Parents |->
                                    IF p \in e.missing THEN @[p] \ {t} ELSE @[p]]], e)

RemoveAll(s, ts) ==
    LET order == SetToSeq(ts)
        step[n \in 0 .. Len(order)] ==
            IF n = 0 THEN s ELSE LET before == step[n - 1] IN RemoveTxid(before, order[n])
    IN step[Len(order)]

RetainFifo(s) == [s EXCEPT !.fifo = SelectSeq(@, LAMBDA t : s.by_txid[t] # NoEntry)]

Expire(s, at) ==
    RemoveAll(s, {t \in Parked(s) : at - s.by_txid[t].arrived >= ExpireAge})

(* No reserve is consulted here. *)
AddAnnouncer(s, t, peer) ==
    IF s.by_txid[t] = NoEntry \/ peer \in s.by_txid[t].announcers THEN s
    ELSE [s EXCEPT !.by_txid[t].announcers = @ \cup {peer},
                   !.peer_weight[peer] = @ + OrphanWeight[s.by_txid[t].wtxid]]

DropAnnouncer(s, t, peer) ==
    LET less == [s EXCEPT !.by_txid[t].announcers = @ \ {peer},
                          !.peer_weight[peer] = SatSub(@, OrphanWeight[s.by_txid[t].wtxid])]
    IN IF less.by_txid[t].announcers = {} THEN RemoveTxid(less, t) ELSE less

Announces(s, t, peer) == s.by_txid[t] # NoEntry /\ peer \in s.by_txid[t].announcers

(* The oldest orphan the peer announced loses that announcer. *)
EvictOneFromPeer(s, peer) ==
    LET i == SelectInSeq(s.fifo, LAMBDA t : Announces(s, t, peer))
    IN IF i = 0 THEN s ELSE RetainFifo(DropAnnouncer(s, s.fifo[i], peer))

OverReserve(s, peer, w) == s.peer_weight[peer] + OrphanWeight[w] > Reserve

(* insert_from_at's first loop: every turn takes one announcement away. *)
ShedPeer(s, peer, w) ==
    LET turn[n \in 0 .. Cardinality(Txids)] ==
            IF n = 0 THEN s
            ELSE LET before == turn[n - 1]
                 IN IF OverReserve(before, peer, w) THEN EvictOneFromPeer(before, peer)
                    ELSE before
    IN turn[Cardinality(Txids)]

WithinReserve(s, t) == \E p \in s.by_txid[t].announcers : s.peer_weight[p] <= Reserve

(* evict_oldest_filtered: the first victim of the fifo goes.  Ids not parked  *)
(* any more are dropped on the way; ids passed over keep their place.         *)
EvictFirst(s, victims) ==
    LET i == SelectInSeq(s.fifo, LAMBDA t : t \in victims)
        passed == SelectSeq(SubSeq(s.fifo, 1, i - 1), LAMBDA t : s.by_txid[t] # NoEntry)
    IN RemoveTxid([s EXCEPT !.fifo = passed \o SubSeq(@, i + 1, Len(@))], s.fifo[i])

(* The reserve is a preference: when it protects every orphan the oldest goes. *)
EvictOldest(s) ==
    LET queued == Range(s.fifo) \cap Parked(s)
        open == {t \in queued : ~ WithinReserve(s, t)}
    IN IF open # {} THEN EvictFirst(s, open)
       ELSE IF queued # {} THEN EvictFirst(RetainFifo(s), queued)
       ELSE RetainFifo(s)

OverCaps(s, w) == /\ Parked(s) # {}
                  /\ \/ Cardinality(Parked(s)) >= MaxCount
                     \/ s.total_weight + OrphanWeight[w] > MaxOrphanWeight

(* insert_from_at's second loop: every turn removes one orphan. *)
MakeRoom(s, w) ==
    LET turn[n \in 0 .. Cardinality(Txids)] ==
            IF n = 0 THEN s
            ELSE LET before == turn[n - 1]
                 IN IF OverCaps(before, w) THEN EvictOldest(before) ELSE before
    IN turn[Cardinality(Txids)]

Fits(s, w) == /\ Cardinality(Parked(s)) < MaxCount
              /\ SatSub(MaxOrphanWeight, s.total_weight) >= OrphanWeight[w]

Push(s, w, missing, from, at) ==
    [s EXCEPT
       !.by_parent = [p \in Parents |-> IF p \in missing THEN @[p] \cup {TxidOf[w]} ELSE @[p]],
       !.by_wtxid[w] = TxidOf[w],
       !.by_txid[TxidOf[w]] = [wtxid |-> w, missing |-> missing,
                               announcers |-> from, arrived |-> at],
       !.fifo = Append(@, TxidOf[w]),
       !.total_weight = @ + OrphanWeight[w],
       !.peer_weight = [p \in Peers |-> IF p \in from THEN @[p] + OrphanWeight[w] ELSE @[p]]]

(* from holds the announcing peer, or nobody.  A same-txid orphan with other *)
(* witness data has left even when this one is then refused.                 *)
InsertFrom(s, w, missing, from, at) ==
    LET fresh == RemoveTxid(Expire(s, at), TxidOf[w])
        shed == IF from = {} THEN fresh ELSE ShedPeer(fresh, Lowest(from), w)
        room == MakeRoom(shed, w)
    IN IF OrphanWeight[w] > Reserve THEN fresh
       ELSE IF from # {} /\ OverReserve(shed, Lowest(from), w) THEN shed
       ELSE IF Fits(room, w) THEN Push(room, w, missing, from, at)
       ELSE room

(* park_orphan_from: the same bytes parked already only gain an announcer. *)
ParkOrphanFrom(s, w, missing, from, at) ==
    IF s.by_txid[TxidOf[w]] # NoEntry /\ s.by_wtxid[w] # NoEntry
    THEN IF from = {} THEN s ELSE AddAnnouncer(s, TxidOf[w], Lowest(from))
    ELSE InsertFrom(s, w, missing, from, at)

AddAnnouncers(s, t, peers) ==
    LET order == SetToSeq(peers)
        step[n \in 0 .. Len(order)] ==
            IF n = 0 THEN s ELSE LET before == step[n - 1] IN AddAnnouncer(before, t, order[n])
    IN step[Len(order)]

-----------------------------------------------------------------------------

(* A transaction with missing parents arrives: from a peer or from an RPC. *)
ReceiveOrphan(w, missing, from) ==
    /\ parks < MaxParks /\ missing # {} /\ from \cap gone = {}
    /\ parks' = IF o.by_wtxid[w] = NoEntry THEN parks + 1 ELSE parks
    /\ o' = ParkOrphanFrom(o, w, missing, from, now)
    /\ UNCHANGED <<held, now, gone, twice>>

(* An inv for bytes that are parked: add_announcer_wtxid. *)
Announce(w, peer) ==
    /\ peer \notin gone /\ o.by_wtxid[w] # NoEntry
    /\ o' = AddAnnouncer(o, o.by_wtxid[w], peer)
    /\ UNCHANGED <<held, now, parks, gone, twice>>

NoteTaken(s, t, announcers) ==
    [s EXCEPT !.taken_gen = @ + 1,
              !.taken[t] = [announcers |-> announcers, drop |-> FALSE,
                            gen |-> s.taken_gen + 1]]

HeldTxids == {TxidOf[h.wtxid] : h \in held}

(* lift_parked_member, the package's take of one orphan.  The generation is *)
(* a u64 that never wraps within the bound.                                 *)
Lift(t) ==
    LET e == o.by_txid[t]
    IN /\ e # NoEntry /\ o.taken_gen < MaxGen
       /\ o' = NoteTaken(RemoveTxid(o, t), t, e.announcers)
       /\ held' = held \cup {[wtxid |-> e.wtxid, announcers |-> e.announcers,
                              gen |-> o.taken_gen + 1]}
       /\ twice' = twice \cup ({t} \cap HeldTxids)
       /\ UNCHANGED <<now, parks, gone>>

(* Promotion takes every orphan that waits on the parent. *)
TakeChildrenOf(parent) ==
    LET kids == SetToSeq(o.by_parent[parent])
        step[n \in 0 .. Len(kids)] ==
            IF n = 0 THEN o
            ELSE LET before == step[n - 1]
                 IN NoteTaken(RemoveTxid(before, kids[n]), kids[n],
                              before.by_txid[kids[n]].announcers)
    IN /\ kids # <<>> /\ o.taken_gen + Len(kids) <= MaxGen
       /\ o' = step[Len(kids)]
       /\ held' = held \cup {[wtxid |-> o.by_txid[kids[n]].wtxid,
                              announcers |-> o.by_txid[kids[n]].announcers,
                              gen |-> o.taken_gen + n] : n \in 1 .. Len(kids)}
       /\ twice' = twice \cup (o.by_parent[parent] \cap HeldTxids)
       /\ UNCHANGED <<now, parks, gone>>

(* park_announced: a parent is still missing.  The record of the take, when  *)
(* there is one, overrides the announcers the snapshot carries.              *)
Repark(h, missing) ==
    LET t == TxidOf[h.wtxid]
        claim == o.taken[t]
        rest == [o EXCEPT !.taken[t] = NoEntry]
        live == IF claim = NoEntry THEN h.announcers ELSE claim.announcers
        first == IF live = {} THEN {} ELSE {Lowest(live)}
        left == claim # NoEntry /\ claim.drop
    IN /\ parks < MaxParks /\ missing # {}
       /\ parks' = IF left THEN parks ELSE parks + 1
       /\ o' = IF left THEN rest
               ELSE AddAnnouncers(ParkOrphanFrom(rest, h.wtxid, missing, first, now),
                                  t, live \ first)
       /\ held' = held \ {h}
       /\ UNCHANGED <<now, gone, twice>>

(* The orphan was admitted or rejected: forget_taken_gen. *)
Settle(h) ==
    LET t == TxidOf[h.wtxid]
    IN /\ o' = IF o.taken[t] # NoEntry /\ o.taken[t].gen = h.gen
               THEN [o EXCEPT !.taken[t] = NoEntry] ELSE o
       /\ held' = held \ {h}
       /\ UNCHANGED <<now, parks, gone, twice>>

(* erase_for_peer, when a session ends.  Peer ids are not used again, and the *)
(* messages of that session are done.  The hub skips the call when a reactor  *)
(* thread finds the lock busy: such a peer never enters gone.                 *)
EraseForPeer(peer) ==
    LET listed == SetToSeq({t \in Txids : Announces(o, t, peer)})
        step[n \in 0 .. Len(listed)] ==
            IF n = 0 THEN o
            ELSE LET before == step[n - 1] IN DropAnnouncer(before, listed[n], peer)
        kept == RetainFifo(step[Len(listed)])
        Edit(k) == IF k = NoEntry \/ peer \notin k.announcers THEN k
                   ELSE [k EXCEPT !.announcers = @ \ {peer},
                                  !.drop = @ \/ k.announcers = {peer}]
    IN /\ peer \notin gone
       /\ gone' = gone \cup {peer}
       /\ o' = [kept EXCEPT !.taken = [t \in Txids |-> Edit(@[t])]]
       /\ UNCHANGED <<held, now, parks, twice>>

OrphansForBlock(block) ==
    /\ block \cap Parked(o) # {}
    /\ o' = RetainFifo(RemoveAll(o, block))
    /\ UNCHANGED <<held, now, parks, gone, twice>>

Tick == /\ now < MaxNow
        /\ now' = now + 1
        /\ UNCHANGED <<o, held, parks, gone, twice>>

OrNext == \/ \E w \in Wtxids : \E missing \in SUBSET ParentsOf[TxidOf[w]] :
               \E from \in {{}} \cup {{p} : p \in Peers} : ReceiveOrphan(w, missing, from)
          \/ \E w \in Wtxids, p \in Peers : Announce(w, p)
          \/ \E t \in Txids : Lift(t)
          \/ \E p \in Parents : TakeChildrenOf(p)
          \/ \E h \in held : \E missing \in SUBSET ParentsOf[TxidOf[h.wtxid]] :
               Repark(h, missing)
          \/ \E h \in held : Settle(h)
          \/ \E p \in Peers : EraseForPeer(p)
          \/ \E t \in Txids : OrphansForBlock({t})
          \/ Tick

OrSpec == OrInit /\ [][OrNext]_orVars
-----------------------------------------------------------------------------

(* Every variable keeps its shape. *)
OrTypeOK ==
    /\ o.by_txid \in [Txids -> Entry \cup {NoEntry}]
    /\ o.by_wtxid \in [Wtxids -> Txids \cup {NoEntry}]
    /\ o.by_parent \in [Parents -> SUBSET Txids]
    /\ Range(o.fifo) \subseteq Txids
    /\ o.total_weight \in Nat /\ o.peer_weight \in [Peers -> Nat]
    /\ o.taken \in [Txids -> TakenClaim \cup {NoEntry}] /\ o.taken_gen \in 0 .. MaxGen
    /\ held \subseteq Snapshot /\ now \in 0 .. MaxNow /\ parks \in 0 .. MaxParks
    /\ gone \subseteq Peers /\ twice \subseteq Txids

(* by_wtxid and by_parent, which promotion and the duplicate test read, name *)
(* exactly the orphans by_txid holds.                                        *)
IndexesAgree ==
    /\ \A w \in Wtxids : \A t \in Txids :
         o.by_wtxid[w] = t <=> (o.by_txid[t] # NoEntry /\ o.by_txid[t].wtxid = w)
    /\ \A p \in Parents :
         o.by_parent[p] = {t \in Parked(o) : p \in o.by_txid[t].missing}

WeightOver(S) == FoldSet(LAMBDA t, n : n + OrphanWeight[o.by_txid[t].wtxid], 0, S)

(* The running weights eviction reads are the sums over what is parked, so no *)
(* saturating subtraction clips and no peer keeps a charge it cannot shed.    *)
WeightsExact ==
    /\ o.total_weight = WeightOver(Parked(o))
    /\ \A p \in Peers :
         o.peer_weight[p] = WeightOver({t \in Parked(o) : p \in o.by_txid[t].announcers})

(* The pool never exceeds its caps, and every orphan stands in the fifo, where *)
(* eviction looks for it.                                                      *)
CapsHold ==
    /\ Cardinality(Parked(o)) <= MaxCount
    /\ o.total_weight <= MaxOrphanWeight
    /\ Parked(o) \subseteq Range(o.fifo)

(* insert_from_at makes room: a new transaction within the per-transaction     *)
(* limit is parked, whoever sends it and whichever orphans are there before.   *)
InsertMakesRoom ==
    Parked(o) # {} =>
    \A w \in {x \in Wtxids : o.by_wtxid[x] = NoEntry /\ OrphanWeight[x] <= Reserve} :
      \A from \in {{}} \cup {{p} : p \in Peers} :
        InsertFrom(o, w, ParentsOf[TxidOf[w]], from, now).by_wtxid[w] = TxidOf[w]

(* Once erase_for_peer has run, no parked orphan lists the peer, also when the *)
(* orphan was out meanwhile, as long as one caller at a time held it.          *)
GoneForgotten ==
    \A t \in Parked(o) \ twice : o.by_txid[t].announcers \cap gone = {}

(* The orphanage's indexes, weights and caps are exact, an insert finds room, *)
(* and a departed peer is forgotten.                                          *)
OrphansSafe ==
    /\ OrTypeOK
    /\ IndexesAgree
    /\ WeightsExact
    /\ CapsHold
    /\ InsertMakesRoom
    /\ GoneForgotten

-----------------------------------------------------------------------------
(***************************************************************************)
(* The tracker of transaction requests: which peers announced a hash, who  *)
(* was asked for it and until when, and who is asked next.  An             *)
(* announcement is by txid or by wtxid (w).  One record T holds the table  *)
(* and its indexes, as one mutex does, and every operation is a function   *)
(* from T to T.                                                            *)
(***************************************************************************)

CONSTANTS
    QPeers,         \* announcing peers
    Preferred,      \* the outbound ones
    Hashes,         \* announced hashes
    Window,         \* GETDATA_TX_INTERVAL_SECS
    TxidDelay,      \* TXID_RELAY_DELAY_SECS
    NonPrefDelay,   \* NONPREF_PEER_TX_DELAY_SECS
    PeerCap,        \* MAX_PARENT_ANN_PER_PEER
    GlobalCap,      \* MAX_PARENT_ANN_GLOBAL
    ParkMax,        \* MAX_PARENTS_PER_PARK
    QMaxNow         \* the clock's bound

VARIABLES
    T,              \* the tracker
    qnow            \* the clock

reqVars == <<T, qnow>>

NoPeer == -1
Ann(p, req, due, until, w) ==
    [peer |-> p, pref |-> p \in Preferred, req |-> req, due |-> due, until |-> until,
     failed |-> FALSE, w |-> w]

\* The per-peer indexes are bags: a hash stands once per announcement.
index_at(B, p, t, h) == B (+) SetToBag({<<p, t, h>>})
unindex(B, p, t, h) == B (-) SetToBag({<<p, t, h>>})

Where(s, P(_)) == {i \in 1..Len(s) : P(s[i])}
First(S) == CHOOSE i \in S : \A j \in S : i <= j

KindUntil(R, h, w) == {R.slot[h][i].until : i \in Where(R.slot[h], LAMBDA a : a.w = w /\ a.until # NoPeer)}
AllFailed(R, h) == R.slot[h] # <<>> /\ \A i \in 1..Len(R.slot[h]) : R.slot[h][i].failed
peer_at_cap(R, p) == R.cnt[p] >= PeerCap
global_full(R) == R.total >= GlobalCap

\* add_ann: the row, the counters and one of the two indexes.
add_ann(R, h, a) ==
    [R EXCEPT !.slot[h] = Append(@, a), !.cnt[a.peer] = @ + 1, !.total = @ + 1,
              !.hashes[a.peer] = @ \cup {h},
              !.fly = IF a.until # NoPeer THEN index_at(@, a.peer, a.until, h) ELSE @,
              !.due = IF a.until = NoPeer THEN index_at(@, a.peer, a.due, h) ELSE @]

\* release_waiters: with no request of this kind left, its waiters are due at
\* their own announcement time.
release_waiters(R, h, w) ==
    LET W == Where(R.slot[h], LAMBDA a : a.w = w /\ ~a.failed /\ a.due # NoPeer /\ a.due > a.req)
        Move(i, Q) ==
            LET a == Q.slot[h][i]
            IN  [Q EXCEPT !.slot[h][i].due = a.req,
                          !.due = index_at(unindex(@, a.peer, a.due, h), a.peer, a.req, h)]
    IN  IF KindUntil(R, h, w) # {} THEN R ELSE FoldSet(Move, R, W)

\* note_removed_ann, after the row left the slot.
note_removed(R, h, a) ==
    LET still == \E i \in 1..Len(R.slot[h]) : R.slot[h][i].peer = a.peer
        Q == [R EXCEPT !.total = @ - 1, !.cnt[a.peer] = @ - 1,
                       !.hashes[a.peer] = IF still THEN @ ELSE @ \ {h},
                       !.fly = IF a.until # NoPeer THEN unindex(@, a.peer, a.until, h) ELSE @,
                       !.due = IF a.due # NoPeer THEN unindex(@, a.peer, a.due, h) ELSE @]
    IN  IF a.until # NoPeer THEN release_waiters(Q, h, a.w) ELSE Q

\* remove_hash: the slot first, then each row's bookkeeping.
remove_hash(R, h) ==
    FoldSeq(LAMBDA a, Q : note_removed(Q, h, a), [R EXCEPT !.slot[h] = <<>>], R.slot[h])

\* remove_peer_ann_kind and its loops: rows leave one by one (swap_remove).
SwapRemove(s, i) == IF i = Len(s) THEN Front(s) ELSE [Front(s) EXCEPT ![i] = s[Len(s)]]
remove_where(R, h, P(_)) ==
    LET Step(n, Q) ==
            LET W == Where(Q.slot[h], P)
                i == First(W)
            IN  IF W = {} THEN Q
                ELSE note_removed([Q EXCEPT !.slot[h] = SwapRemove(@, i)], h, Q.slot[h][i])
    IN  FoldSet(Step, R, 1..Len(R.slot[h]))

\* fail_inflight: the row of p whose window ends at exp.
fail_inflight(R, h, p, exp) ==
    LET W == Where(R.slot[h], LAMBDA a : a.peer = p /\ a.until = exp)
        Q == [R EXCEPT !.fly = unindex(@, p, exp, h)]
    IN  IF W = {} THEN Q
        ELSE [Q EXCEPT !.slot[h][First(W)].until = NoPeer, !.slot[h][First(W)].failed = TRUE]

\* The rows in flight for h that F picks fail, and a slot with nothing but
\* failed rows goes: expire_hash_inflight, expire_peer_inflight, resolve.
Fail(R, h, F(_)) ==
    LET W == Where(R.slot[h], LAMBDA a : a.until # NoPeer /\ F(a))
        Step(i, Q) == fail_inflight(Q, h, R.slot[h][i].peer, R.slot[h][i].until)
    IN  FoldSet(Step, R, W)
FailAndClean(R, h, F(_)) ==
    LET Q == Fail(R, h, F) IN IF AllFailed(Q, h) THEN remove_hash(Q, h) ELSE Q

\* Mutated form: a preferred announcer that failed still goes first.
selectFailedFirst(R, p, clk, h) ==
    LET s == R.slot[h]
        hasPref == \E i \in 1..Len(s) : s[i].pref /\ s[i].req <= clk
        W == Where(s, LAMBDA a : ~a.failed /\ a.req <= clk /\ a.peer = p /\ (~hasPref \/ a.pref))
    IN  IF W = {} \/ \E i \in 1..Len(s) : s[i].until # NoPeer THEN 0 ELSE First(W)

\* select: a preferred announcer that is ready goes first, and a request in
\* flight for these bytes blocks another.  0, or the row.
select(R, p, clk, h) ==
    LET s == R.slot[h]
        hasPref == \E i \in 1..Len(s) : s[i].pref /\ ~s[i].failed /\ s[i].req <= clk
        W == Where(s, LAMBDA a : ~a.failed /\ a.req <= clk /\ a.peer = p /\ (~hasPref \/ a.pref))
    IN  IF W = {} \/ \E i \in 1..Len(s) : s[i].until # NoPeer THEN 0 ELSE First(W)

Ask(R, p, clk, h, i) ==
    LET a == R.slot[h][i]
        from == IF a.due = NoPeer THEN a.req ELSE a.due
    IN  [R EXCEPT !.slot[h][i].until = clk + Window, !.slot[h][i].due = NoPeer,
                  !.due = IF a.due = NoPeer THEN @ ELSE unindex(@, p, from, h),
                  !.fly = index_at(@, p, clk + Window, h)]

DueHashes(R, p, clk) == {x[3] : x \in {y \in BagToSet(R.due) : y[1] = p /\ y[2] <= clk}}

-----------------------------------------------------------------------------
Times == 0 .. QMaxNow + Window + TxidDelay + NonPrefDelay
ReqInit ==
    /\ T = [slot |-> [h \in Hashes |-> <<>>], cnt |-> [p \in QPeers |-> 0], total |-> 0,
            hashes |-> [p \in QPeers |-> {}],
            due |-> EmptyBag, fly |-> EmptyBag]
    /\ qnow = 0

ReqTick == qnow < QMaxNow /\ qnow' = qnow + 1 /\ UNCHANGED T

\* note_inv and rearm_existing.
NoteInv(p, h, w) ==
    LET s == T.slot[h]
        own == Where(s, LAMBDA a : a.peer = p /\ a.w = w)
        i == First(own)
        until == KindUntil(T, h, w)
    IN  /\ T' = IF own # {}
                THEN IF s[i].until # NoPeer \/ s[i].failed \/ until # {}
                     THEN T ELSE Ask(T, p, qnow, h, i)
                ELSE IF peer_at_cap(T, p) \/ global_full(T) THEN T
                ELSE IF until # {} THEN add_ann(T, h, Ann(p, qnow, Min(until), NoPeer, w))
                ELSE add_ann(T, h, Ann(p, qnow, NoPeer, qnow + Window, w))
        /\ UNCHANGED qnow

\* schedule_orphan_parents for one missing parent that is not had.
Schedule(p, h) ==
    LET req == qnow + TxidDelay + (IF p \in Preferred THEN 0 ELSE NonPrefDelay)
    IN  /\ Where(T.slot[h], LAMBDA a : a.peer = p /\ ~a.w) = {}
        /\ ~peer_at_cap(T, p) /\ ~global_full(T)
        /\ T' = add_ann(T, h, Ann(p, req, req, NoPeer, FALSE))
        /\ UNCHANGED qnow

\* note_not_found: p's requests for h are over; the slot is not cleaned.
NoteNotFound(p, h) ==
    LET W == Where(T.slot[h], LAMBDA a : a.peer = p /\ a.until # NoPeer)
        Step(i, Q) == release_waiters(fail_inflight(Q, h, p, T.slot[h][i].until), h, T.slot[h][i].w)
    IN  /\ W # {}
        /\ T' = FoldSet(Step, T, W)
        /\ UNCHANGED qnow

\* forget_peer: the session ended.
ForgetPeer(p) ==
    LET Drop(B) == [x \in {y \in DOMAIN B : y[1] # p} |-> B[x]]
        Q == [T EXCEPT !.due = Drop(@), !.fly = Drop(@),
                       !.hashes[p] = {}]
        Own(a) == a.peer = p
        Step(h, R) == remove_where(R, h, Own)
    IN  /\ T.cnt[p] > 0
        /\ T' = FoldSet(Step, Q, T.hashes[p])
        /\ UNCHANGED qnow

\* resolve: the transaction came; admitted, or its requests are over.
Resolve(h, admitted) ==
    LET Each(a) == TRUE
    IN  /\ T.slot[h] # <<>>
        /\ T' = IF admitted THEN remove_hash(T, h) ELSE FailAndClean(T, h, Each)
        /\ UNCHANGED qnow

\* take_due on p's heartbeat: p's expired requests fail, then each due hash
\* is asked for, dropped because it is had, or left.
TakeDue(p, had) ==
    LET Own(a) == a.peer = p /\ a.until <= qnow
        Old(a) == a.until <= qnow
        Expired(h, R) == FailAndClean(R, h, Own)
        T0 == FoldSet(Expired, T, Hashes)
        Step(h, RO) ==
            LET R == FailAndClean(RO[1], h, Old)
                i == select(R, p, qnow, h)
                Kind(a) == a.w = R.slot[h][i].w
            IN  IF RO[2] >= ParkMax THEN RO
                ELSE IF i = 0 THEN <<R, RO[2]>>
                ELSE IF h \in had THEN <<remove_where(Ask(R, p, qnow, h, i), h, Kind), RO[2]>>
                ELSE <<Ask(R, p, qnow, h, i), RO[2] + 1>>
        end == FoldSeq(Step, <<T0, 0>>, SetToSeq(DueHashes(T0, p, qnow)))
    IN  /\ T.cnt[p] > 0
        /\ T' = end[1]
        /\ UNCHANGED qnow

ReqNext ==
    \/ ReqTick
    \/ \E p \in QPeers :
         \/ ForgetPeer(p)
         \/ \E had \in SUBSET Hashes : TakeDue(p, had)
         \/ \E h \in Hashes :
              \/ Schedule(p, h) \/ NoteNotFound(p, h)
              \/ \E w \in BOOLEAN : NoteInv(p, h, w)
    \/ \E h \in Hashes, ok \in BOOLEAN : Resolve(h, ok)

ReqSpec == ReqInit /\ [][ReqNext]_reqVars

-----------------------------------------------------------------------------
Rows(p, h) == Where(T.slot[h], LAMBDA a : a.peer = p)

\* The counters and all three indexes say exactly what the rows say, after
\* any mix of rearming, expiry, notfound, release of waiters and departures:
\* a leaked count caps an honest peer for good, a lost index entry means its
\* announcement is never asked for.
IndexesExact ==
    /\ \A p \in QPeers, h \in Hashes :
         /\ (h \in T.hashes[p]) = (Rows(p, h) # {})
         /\ \A t \in Times :
              /\ CopiesIn(<<p, t, h>>, T.due) = Cardinality({i \in Rows(p, h) : T.slot[h][i].due = t})
              /\ CopiesIn(<<p, t, h>>, T.fly) = Cardinality({i \in Rows(p, h) : T.slot[h][i].until = t})
    /\ \A p \in QPeers : T.cnt[p] = MapThenSumSet(LAMBDA h : Cardinality(Rows(p, h)), Hashes)
    /\ T.total <= GlobalCap /\ \A p \in QPeers : T.cnt[p] <= PeerCap

\* One request in flight per hash and kind: a second peer's announcement
\* never makes the node fetch the same bytes twice at a time.
OneRequestPerKind ==
    \A h \in Hashes, w \in BOOLEAN :
      Cardinality(Where(T.slot[h], LAMBDA a : a.w = w /\ a.until # NoPeer)) <= 1

\* No announcement is stranded: with no request in flight for a hash, some
\* peer that still can serve it will be picked by its own heartbeat, at the
\* latest when every delay has run out.
SomeoneIsAskedNext ==
    \A h \in Hashes :
      LET s == T.slot[h]
          late == QMaxNow + Window + TxidDelay + NonPrefDelay
      IN  /\ \E i \in 1..Len(s) : ~s[i].failed
          /\ \A i \in 1..Len(s) : s[i].until = NoPeer
          => \E p \in QPeers : h \in DueHashes(T, p, late) /\ select(T, p, late, h) # 0

\* The request tracker's indexes are exact, it asks one peer at a time, and
\* it always has a next one.
RequestsSafe == IndexesExact /\ OneRequestPerKind /\ SomeoneIsAskedNext
=============================================================================
