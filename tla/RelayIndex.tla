----------------------------- MODULE RelayIndex -----------------------------
(***************************************************************************)
(* The relay indexes of MempoolHub in rbitcoin-net/src/tx_relay.rs: rows   *)
(* for INV, serving and expiry, written after the commit released the      *)
(* pool's write lock, and dropped after a removal released it.  The six    *)
(* maps of insert_relay_maps change under their six mutexes together; the  *)
(* scripthash index, the recent-confirmed window and the unbroadcast set   *)
(* have locks of their own.  A wtxid is a txid with a witness.             *)
(***************************************************************************)
EXTENDS Naturals, FiniteSets, FiniteSetsExt

CONSTANTS RTxs,       \* txids
          Wits,       \* witnesses of a txid
          RTasks,     \* tasks that admit, strip and unindex
          Lim,        \* expiry_secs
          Scan,       \* EXPIRE_SCAN
          RMaxNow,    \* bound: the clock
          RMaxGen     \* bound: rows inserted in one behaviour

ASSUME RelayAssumption ==
    /\ Lim \in Nat \ {0} /\ Scan \in Nat \ {0} /\ RMaxNow \in Nat /\ RMaxGen \in Nat

VARIABLES r_live,   \* the pool: txid -> witness, for the live ones
          by_tx,    \* wtxid_by_txid
          rows,     \* wtxid -> accept_at, accept_gen (relay_seq has the same keys)
          age,      \* age_inv: due time, gen, wtxid
          order,    \* expiry_order: accept_at, wtxid
          min_at,   \* min_live_accept_at
          shs,      \* txids of the scripthash index
          r_gen,    \* next_accept_gen
          task,     \* task -> what it has still to do
          r_now

relayVars == <<r_live, by_tx, rows, age, order, min_at, shs, r_gen, task, r_now>>
maps == <<by_tx, rows, age, order, min_at>>

Inf == RMaxNow + 1
Free == [pc |-> "free"]
NoFun == [x \in {} |-> x]
RowsWith(f, x, v) == [y \in DOMAIN f \cup {x} |-> IF y = x THEN v ELSE f[y]]
RowsWithout(f, xs) == [y \in DOMAIN f \ xs |-> f[y]]
MinAt(rs) == Min({rs[w].at : w \in DOMAIN rs} \cup {Inf})

RelayInit == /\ r_live = NoFun /\ by_tx = NoFun /\ rows = NoFun
             /\ age = {} /\ order = {} /\ min_at = Inf /\ shs = {}
             /\ r_gen = 1 /\ task = [t \in RTasks |-> Free] /\ r_now = 0

(* finish_commit: x enters, others are evicted or replaced; the relay rows   *)
(* follow without the lock.                                                  *)
AdmitRelay(t, x, wit, evicted) ==
    /\ task[t] = Free
    /\ x \notin DOMAIN r_live
    /\ r_gen + Cardinality({u \in RTasks : task[u].pc = "index"}) <= RMaxGen
    /\ r_live' = RowsWith(RowsWithout(r_live, evicted), x, wit)
    /\ task' = [task EXCEPT ![t] = [pc |-> "drop", gone |-> evicted, tx |-> x,
                                    wit |-> wit, at |-> r_now, then |-> "index"]]
    /\ UNCHANGED <<maps, shs, r_gen, r_now>>

(* remove_block_txids and the other removals under the write lock. *)
StripRelay(t, gone) ==
    /\ task[t] = Free
    /\ gone # {} /\ gone \subseteq DOMAIN r_live
    /\ r_live' = RowsWithout(r_live, gone)
    /\ task' = [task EXCEPT ![t] = [pc |-> "drop", gone |-> gone, then |-> "free"]]
    /\ UNCHANGED <<maps, shs, r_gen, r_now>>

(* remove_relay_maps *)
RemoveRelayMaps(x) ==
    IF x \notin DOMAIN by_tx THEN UNCHANGED maps
    ELSE LET w == by_tx[x]
         IN /\ by_tx' = RowsWithout(by_tx, {x})
            /\ rows' = RowsWithout(rows, {w})
            /\ age' = age \ {<<rows[w].at + 1, rows[w].gen, w>>}
            /\ order' = order \ {<<rows[w].at, w>>}
            /\ min_at' = MinAt(rows')

(* unindex_evicted, one unindex_txid at a time. *)
UnindexNext(t) ==
    /\ task[t].pc = "drop"
    /\ IF task[t].gone = {}
       THEN /\ task' = [task EXCEPT ![t] = IF @.then = "free" THEN Free
                                           ELSE [@ EXCEPT !.pc = "index"]]
            /\ UNCHANGED <<maps, shs>>
       ELSE \E x \in task[t].gone :
              /\ task' = [task EXCEPT ![t].gone = @ \ {x}]
              /\ shs' = shs \ {x}
              /\ RemoveRelayMaps(x)
    /\ UNCHANGED <<r_live, r_gen, r_now>>

(* Mutated form: the minimum is only read back on a removal. *)
InsertRelayMapsNoMin(x, w, at) ==
    LET old == IF x \in DOMAIN by_tx THEN {<<rows[by_tx[x]].at, by_tx[x]>>} ELSE {}
    IN /\ by_tx' = RowsWith(by_tx, x, w)
       /\ rows' = RowsWith(rows, w, [at |-> at, gen |-> r_gen])
       /\ age' = age \cup {<<at + 1, r_gen, w>>}
       /\ order' = (order \ old) \cup {<<at, w>>}
       /\ min_at' = IF min_at = Inf THEN at ELSE min_at
       /\ r_gen' = r_gen + 1

(* insert_relay_maps *)
InsertRelayMaps(x, w, at) ==
    LET old == IF x \in DOMAIN by_tx THEN {<<rows[by_tx[x]].at, by_tx[x]>>} ELSE {}
    IN /\ by_tx' = RowsWith(by_tx, x, w)
       /\ rows' = RowsWith(rows, w, [at |-> at, gen |-> r_gen])
       /\ age' = age \cup {<<at + 1, r_gen, w>>}
       /\ order' = (order \ old) \cup {<<at, w>>}
       /\ min_at' = Min({min_at, at})
       /\ r_gen' = r_gen + 1

(* index_for_relay, up to the scripthash index. *)
IndexForRelay(t) ==
    /\ task[t].pc = "index"
    /\ InsertRelayMaps(task[t].tx, <<task[t].tx, task[t].wit>>, task[t].at)
    /\ task' = [task EXCEPT ![t].pc = "scripthash"]
    /\ UNCHANGED <<r_live, shs, r_now>>

IndexTxid(t) ==
    /\ task[t].pc = "scripthash"
    /\ shs' = shs \cup {task[t].tx}
    /\ task' = [task EXCEPT ![t] = Free]
    /\ UNCHANGED <<r_live, maps, r_gen, r_now>>

Expired(e) == r_now - e[1] >= Lim

(* expire_stale_inner and expired_roots_in: the oldest accepts, at most Scan. *)
ExpireScan(t) ==
    LET due == {e \in order : Expired(e)}
    IN /\ task[t] = Free
       /\ min_at # Inf /\ r_now - min_at >= Lim
       /\ \E roots \in kSubset(Min({Scan, Cardinality(due)}), due) :
            /\ roots # {}
            /\ \A e \in roots : \A d \in due \ roots : e[1] <= d[1]
            /\ task' = [task EXCEPT ![t] = [pc |-> "expire", gone |-> {e[2][1] : e \in roots}]]
       /\ UNCHANGED <<r_live, maps, shs, r_gen, r_now>>

(* remove_expired_roots: a root leaves the pool if it is still there, and its *)
(* rows go in either case, under the write lock.                              *)
RemoveExpired(t) ==
    /\ task[t].pc = "expire"
    /\ \E x \in task[t].gone :
         /\ r_live' = RowsWithout(r_live, {x})
         /\ shs' = shs \ {x}
         /\ RemoveRelayMaps(x)
         /\ task' = [task EXCEPT ![t] = IF @.gone = {x} THEN Free
                                         ELSE [@ EXCEPT !.gone = @ \ {x}]]
    /\ UNCHANGED <<r_gen, r_now>>

RelayTick == /\ r_now < RMaxNow
             /\ r_now' = r_now + 1
             /\ UNCHANGED <<r_live, maps, shs, r_gen, task>>

TaskStep(t) == UnindexNext(t) \/ IndexForRelay(t) \/ IndexTxid(t) \/ RemoveExpired(t)

RelayNext == \/ \E t \in RTasks :
                  \/ \E x \in RTxs, wit \in Wits :
                       \E ev \in SUBSET (DOMAIN r_live) : AdmitRelay(t, x, wit, ev)
                  \/ \E gone \in SUBSET RTxs : StripRelay(t, gone)
                  \/ TaskStep(t) \/ ExpireScan(t)
             \/ RelayTick

-----------------------------------------------------------------------------
(* The expiry order holds one row per indexed transaction, at its stamp,     *)
(* whatever order commits, evictions and late unindexes come in: the oldest  *)
(* row is what the 256-entry scan reads.                                     *)
OrderExact == order = {<<rows[by_tx[x]].at, by_tx[x]>> : x \in DOMAIN by_tx}

(* min_live_accept_at never runs ahead of a row: expire_stale and the INV    *)
(* tick return early on it, so a row below it would never be looked at.      *)
MinCovers == \A w \in DOMAIN rows : min_at <= rows[w].at

(* A row that outlived its transaction (the commit published it after the    *)
(* removal was unindexed) leaves once it is past the expiry time.            *)
StaleRowsLeave ==
    \A x \in RTxs : (x \in DOMAIN by_tx /\ RMaxNow - rows[by_tx[x]].at >= Lim)
                      ~> (x \notin DOMAIN by_tx \/ RMaxNow - rows[by_tx[x]].at < Lim)

(* The expiry order and the oldest stamp cover every indexed row. *)
OrderSafe == OrderExact /\ MinCovers
=============================================================================
