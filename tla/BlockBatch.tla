----------------------------- MODULE BlockBatch -----------------------------
(***************************************************************************)
(* Blocks that are validated in batches, several batches ahead of the      *)
(* chain, against a store that keeps creates and spends by row id.         *)
(*                                                                         *)
(*   lookup  takes a wave of blocks, notes how far the chain is durable,   *)
(*           then resolves the parents the wave does not create itself     *)
(*   load    cuts the wave in batches, gives every transaction its row id  *)
(*           (or takes the archived one), binds every input to one create  *)
(*           row and finds what a batch can contradict by itself           *)
(*   write   appends the rows, checks every spend against the store and    *)
(*           the blocks before it in the batch, and connects the blocks    *)
(*                                                                         *)
(* A transaction id may occur again on a chain (BIP30, before BIP34), so   *)
(* an id names several rows.  A block is named by the path that leads to   *)
(* it.  The reference is the coin set that connecting the path one block   *)
(* after another leaves.                                                   *)
(***************************************************************************)
EXTENDS Integers, Sequences, FiniteSets, SequencesExt

CONSTANTS
    BbTx,          \* txid -> [ins, outs, rel]; no inputs: a coinbase
    BbPaths,       \* the chains offered: sequences of blocks, each a sequence
                   \* of txids
    BbMaturity,    \* coinbase_maturity
    BbBip34,       \* the height from which a coinbase commits its height
    BbRepeat,      \* the blocks (paths) excepted from BIP30
    BbMaxRows,     \* bound on the rows of the store
    BbWave,        \* bound on the blocks of a wave
    BbPack,        \* hard_max_blocks of a load batch
    BbUndo         \* bound on the disconnects

VARIABLES
    bbRows,     \* Class A: row id -> [tx, edges]
    bbBody,     \* header_txs: path -> first row of its body
    bbSlots,    \* spent slots: <<create row, vout, spender row>>
    bbChain,    \* the connected path
    bbWaves,    \* loadq: looked-up waves
    bbFlight,   \* InFlight of the load thread
    bbLoaded,   \* batches between load and write
    bbLast,     \* the last batch refused
    bbUndone    \* disconnects so far

bbVars == <<bbRows, bbBody, bbSlots, bbChain, bbWaves, bbFlight, bbLoaded,
            bbLast, bbUndone>>

Txids == DOMAIN BbTx
BbNone == [path |-> << >>, probe |-> FALSE]
EmptyFlight == [ids |-> [t \in {} |-> 0], packs |-> {},
                ev |-> [t \in Txids |-> 0]]

IsCb(t) == BbTx[t].ins = << >>
Outs(t) == 0 .. BbTx[t].outs - 1
MaxOr0(S) == IF S = {} THEN 0 ELSE CHOOSE x \in S : \A y \in S : y <= x

-----------------------------------------------------------------------------
(* The reference: coins are <<txid, vout, height of the create>>.          *)

RefIn(st, h, t, inp) ==
    LET coin == {c \in st.coins : c[1] = inp[1] /\ c[2] = inp[2]}
    IN  IF coin = {} THEN [st EXCEPT !.ok = FALSE]
        ELSE LET c == CHOOSE c \in coin : TRUE
             IN  [ok    |-> /\ st.ok
                            /\ IsCb(c[1]) => h >= c[3] + BbMaturity
                            /\ h >= c[3] + BbTx[t].rel,
                  coins |-> st.coins \ coin]

RefTx(st, h, t) ==
    LET spent == FoldLeft(LAMBDA s, i : RefIn(s, h, t, i), st, BbTx[t].ins)
    IN  [spent EXCEPT !.coins = {c \in @ : c[1] # t}
                                 \cup {<<t, v, h>> : v \in Outs(t)}]

RefBlock(st, path) ==
    LET blk   == path[Len(path)]
        bip30 == \/ path \in BbRepeat
                 \/ \A c \in st.coins : \A i \in 1 .. Len(blk) : c[1] # blk[i]
    IN  FoldLeft(LAMBDA s, t : RefTx(s, Len(path), t),
                 [st EXCEPT !.ok = @ /\ bip30], blk)

RefChain(path) ==
    FoldLeft(LAMBDA s, n : RefBlock(s, SubSeq(path, 1, n)),
             [ok |-> TRUE, coins |-> {}], [n \in 1 .. Len(path) |-> n])

ValidPath(path) == RefChain(path).ok
CoinsAt(path) == RefChain(path).coins

-----------------------------------------------------------------------------
(* The store                                                               *)

PathAt(h) == SubSeq(bbChain, 1, h)

\* tx_height: the height whose connected body holds the row
tx_height(fk) ==
    MaxOr0({h \in 1 .. Len(bbChain) :
              /\ bbBody[PathAt(h)] <= fk
              /\ fk < bbBody[PathAt(h)] + Len(bbChain[h])})

\* get_fk_by_txid: the newest connected copy of a transaction
TipOnly(t) == MaxOr0({fk \in 1 .. Len(bbRows) :
                        bbRows[fk].tx = t /\ tx_height(fk) > 0})

\* has_confirmed_strong_spender_create
StrongSpent(fk, v) ==
    \E s \in bbSlots : s[1] = fk /\ s[2] = v /\ tx_height(s[3]) > 0

-----------------------------------------------------------------------------
(* In-flight creates                                                       *)

note_create_fk(f, t, fk) ==
    [f EXCEPT !.ids = [x \in DOMAIN f.ids \cup {t} |->
                         IF x = t THEN fk ELSE f.ids[x]],
              !.ev[t] = IF t \in DOMAIN f.ids /\ f.ids[t] # fk
                        THEN @ + 1 ELSE @]

Without1(f, t) == [x \in DOMAIN f \ {t} |-> f[x]]

\* remove_keys: without a clobbered id every key of the pack goes; with one,
\* only a key the pack still owns
remove_keys(f, pack) ==
    IF \A t \in Txids : f.ev[t] = 0
    THEN [f EXCEPT !.ids = [x \in DOMAIN f.ids \ {r.tx : r \in pack.rows} |->
                              f.ids[x]],
                   !.packs = @ \ {pack}]
    ELSE FoldSet(LAMBDA r, g :
                   IF r.tx \in DOMAIN g.ids /\ g.ids[r.tx] = r.fk
                   THEN [g EXCEPT !.ids = Without1(g.ids, r.tx)]
                   ELSE [g EXCEPT !.ev[r.tx] = MaxOr0({0, @ - 1})],
                 [f EXCEPT !.packs = @ \ {pack}], pack.rows)

RemovePacks(f, packs) == FoldSet(LAMBDA p, g : remove_keys(g, p), f, packs)

\* note_pins, note_creates: one pack per batch, tagged with its last height
note_pack(f, rows) ==
    FoldLeft(LAMBDA g, r : note_create_fk(g, r.tx, r.fk),
             [f EXCEPT !.packs = @ \cup
                {[h |-> rows[Len(rows)].h, rows |-> ToSet(rows)]}], rows)

drop_from_height(f, h) == RemovePacks(f, {p \in f.packs : p.h >= h})
prune_below_height(f, h) == RemovePacks(f, {p \in f.packs : p.h < h})

-----------------------------------------------------------------------------
(* Lookup                                                                  *)

Ahead == FoldLeft(LAMBDA p, b : p \o b.blks, bbChain, bbLoaded)
AllAhead == FoldLeft(LAMBDA p, w : p \o w.todo, Ahead, bbWaves)

\* push_resolve_keys: parents neither in an earlier block of the wave nor in
\* the block itself
WaveKeys(blks) ==
    UNION {LET made == UNION {ToSet(blks[k]) : k \in 1 .. n}
           IN  {BbTx[t].ins[i][1] : <<t, i>> \in
                  {ti \in ToSet(blks[n]) \X (1 .. 3) :
                     ti[2] <= Len(BbTx[ti[1]].ins)}} \ made
           : n \in 1 .. Len(blks)}

OfferedAbove(path, n) ==
    {SubSeq(p, Len(path) + 1, Len(path) + n) :
       p \in {p \in BbPaths : Len(p) >= Len(path) + n /\ IsPrefix(path, p)}}

\* confirm_bq_resolve_wave: the drain height is read before the ids
LookupHi ==
    /\ Len(bbWaves) < 2
    /\ \A k \in 1 .. Len(bbWaves) : bbWaves[k].ready
    /\ \E n \in 1 .. BbWave : \E blks \in OfferedAbove(AllAhead, n) :
         bbWaves' = Append(bbWaves, [todo |-> blks, hi |-> Len(bbChain),
                                     ids |-> [t \in {} |-> 0], ready |-> FALSE])
    /\ UNCHANGED <<bbRows, bbBody, bbSlots, bbChain, bbFlight, bbLoaded,
                   bbLast, bbUndone>>

LookupIds ==
    /\ \E k \in 1 .. Len(bbWaves) :
         /\ ~bbWaves[k].ready
         /\ bbWaves' = [bbWaves EXCEPT ![k].ready = TRUE,
                          ![k].ids = [t \in {t \in WaveKeys(bbWaves[k].todo) :
                                               TipOnly(t) > 0} |-> TipOnly(t)]]
    /\ UNCHANGED <<bbRows, bbBody, bbSlots, bbChain, bbFlight, bbLoaded,
                   bbLast, bbUndone>>

-----------------------------------------------------------------------------
(* Load                                                                    *)

\* The rows of a batch of blocks above base, given each block's first row
BatchRows(base, blks, firsts) ==
    FlattenSeq([n \in 1 .. Len(blks) |->
      [j \in 1 .. Len(blks[n]) |->
         [h |-> base + n, j |-> j, tx |-> blks[n][j], fk |-> firsts[n] + j - 1]]])

\* archive_plan_batch_from_wire: rows numbered on from the last planned one
PlanFirsts(start, blks) ==
    [n \in 1 .. Len(blks) |->
       start + FoldLeft(LAMBDA a, b : a + Len(b), 0, SubSeq(blks, 1, n - 1))]

NextStart ==
    Len(bbRows) + 1
      + FoldLeft(LAMBDA a, b : IF b.new THEN a + Len(b.rows) ELSE a, 0, bbLoaded)

BatchCopies(rows, t) == {rows[k].fk : k \in {k \in 1 .. Len(rows) : rows[k].tx = t}}

batch_copy_before(rows, t, spender) ==
    MaxOr0({fk \in BatchCopies(rows, t) : fk < spender})

Outside(t, ids, flight) == t \in DOMAIN ids \cup DOMAIN flight.ids
\* stamp_external_parents: in flight first, then the wave's lookup
Resolved(t, ids, flight) ==
    IF t \in DOMAIN flight.ids THEN flight.ids[t] ELSE ids[t]

\* The create row of an input; 0: unresolved
EdgeOf(rows, r, inp, ids, flight) ==
    LET before == batch_copy_before(rows, inp[1], r.fk)
    IN  IF before > 0 THEN before
        ELSE IF Outside(inp[1], ids, flight)
        THEN Resolved(inp[1], ids, flight)
        ELSE MaxOr0(BatchCopies(rows, inp[1]))

EdgesOf(rows, ids, flight) ==
    [k \in 1 .. Len(rows) |->
       [i \in 1 .. Len(BbTx[rows[k].tx].ins) |->
          EdgeOf(rows, rows[k], BbTx[rows[k].tx].ins[i], ids, flight)]]

\* stamp_parent_pin_archived probes every id an archived block below BIP34
\* creates, and stamp_external_parents fails on any id the wave did not find
ProbesMissed(rows, ids, flight) ==
    \E k \in 1 .. Len(rows) :
      /\ rows[k].h < BbBip34
      /\ ~Outside(rows[k].tx, ids, flight)

-----------------------------------------------------------------------------
(* Assembly of a batch: what it contradicts by itself                      *)

\* Position of a transaction in the block at a height of the batch; 0: none
IndexIn(rows, h, t) ==
    MaxOr0({rows[k].j : k \in {k \in 1 .. Len(rows) :
                                 rows[k].h = h /\ rows[k].tx = t}})

\* resolve_prevout: the parent has that output
resolve_prevout(inp) == inp[2] \in Outs(inp[1])

\* assemble_non_cb_inputs: no outpoint twice, no later or immature parent of
\* the same block
AssembleIn(st, rows, r, edge, inp) ==
    LET same == IndexIn(rows, r.h, inp[1])
    IN  [st EXCEPT
           !.ok = /\ @
                  /\ <<inp[1], inp[2]>> \notin st.spent
                  /\ same # 0 => same < r.j /\ same # 1
                  /\ resolve_prevout(inp),
           !.spent = @ \cup {<<inp[1], inp[2]>>},
           !.txs = @ \cup {inp[1]},
           !.spends = Append(@, [tx |-> inp[1], v |-> inp[2], by |-> r.tx,
                                 sfk |-> r.fk, h |-> r.h,
                                 cfk |-> IF same # 0 THEN 0 ELSE edge])]

\* release_repeated_outputs: a copy made here, or made again after a spend
Released(st, r) ==
    IF r.tx \in st.made \cup st.txs
    THEN {op \in st.spent : op[1] # r.tx} ELSE st.spent

assemble_non_cb_tx(st, rows, r, edges) ==
    FoldLeft(LAMBDA s, i : AssembleIn(s, rows, r, edges[i], BbTx[r.tx].ins[i]),
             st, [i \in 1 .. Len(edges) |-> i])

\* assemble_block_prevouts, one transaction
AssembleTx(st, rows, r, edges) ==
    LET done == assemble_non_cb_tx(st, rows, r, edges)
    IN  [done EXCEPT !.spent = Released(done, r), !.made = @ \cup {r.tx}]

assemble_run(rows, edges) ==
    FoldLeft(LAMBDA s, k : AssembleTx(s, rows, rows[k], edges[k]),
             [ok |-> TRUE, spent |-> {}, txs |-> {}, made |-> {},
              spends |-> << >>],
             [k \in 1 .. Len(rows) |-> k])

-----------------------------------------------------------------------------
\* One batch from the head of the first wave: blocks of one kind, archived or
\* not.  Its creates go in flight, then the wave's last batch prunes.
LoadRest(n, w) ==
    IF n = Len(w.todo) THEN Tail(bbWaves)
    ELSE [bbWaves EXCEPT ![1].todo = SubSeq(@, n + 1, Len(@))]

\* Mutated form: the in-flight prune follows the chain, not the wave
PruneAtTip(n, w, rows) ==
    IF n = Len(w.todo)
    THEN prune_below_height(note_pack(bbFlight, rows), Len(bbChain))
    ELSE note_pack(bbFlight, rows)

NoteAndPrune(n, w, rows) ==
    IF n = Len(w.todo)
    THEN prune_below_height(note_pack(bbFlight, rows), w.hi)
    ELSE note_pack(bbFlight, rows)

\* A refused batch: the batches below it are written first, then load, lookup
\* and the in-flight creates start over from the chain
Refuse(path, probe) ==
    /\ bbLoaded = << >>
    /\ bbWaves' = << >>
    /\ bbFlight' = EmptyFlight
    /\ bbLast' = [path |-> path, probe |-> probe]
    /\ UNCHANGED <<bbRows, bbBody, bbSlots, bbChain, bbLoaded, bbUndone>>

LoadBatch(n, w, blks, new, rows, edges, asm) ==
    LET lost  == \E k \in 1 .. Len(rows) : \E i \in 1 .. Len(edges[k]) :
                   edges[k][i] = 0
        probe == ~new /\ ProbesMissed(rows, w.ids, bbFlight)
    IN  IF lost \/ probe \/ ~asm.ok
        THEN Refuse(Ahead \o blks, probe)
        ELSE /\ bbLoaded' = Append(bbLoaded,
                  [blks |-> blks, new |-> new, rows |-> rows, edges |-> edges,
                   spends |-> asm.spends])
             /\ bbFlight' = NoteAndPrune(n, w, rows)
             /\ bbWaves' = LoadRest(n, w)
             /\ UNCHANGED <<bbRows, bbBody, bbSlots, bbChain, bbLast, bbUndone>>

Archived(blks, n) == Ahead \o SubSeq(blks, 1, n) \in DOMAIN bbBody

Load ==
    /\ bbWaves # << >> /\ bbWaves[1].ready
    /\ Len(bbLoaded) < 3
    /\ \E n \in 1 .. Min({BbPack, Len(bbWaves[1].todo)}) :
         \E blks \in {SubSeq(bbWaves[1].todo, 1, n)} :
         \E new \in {~Archived(blks, 1)} :
           /\ \A k \in 1 .. n : Archived(blks, k) = ~new
           /\ \E firsts \in
                {IF new THEN PlanFirsts(NextStart, blks)
                 ELSE [k \in 1 .. n |-> bbBody[Ahead \o SubSeq(blks, 1, k)]]} :
              \E rows \in {BatchRows(Len(Ahead), blks, firsts)} :
              /\ new => NextStart + Len(rows) <= BbMaxRows + 1
              /\ \E edges \in {EdgesOf(rows, bbWaves[1].ids, bbFlight)} :
                 \E asm \in {assemble_run(rows, edges)} :
                   LoadBatch(n, bbWaves[1], blks, new, rows, edges, asm)

-----------------------------------------------------------------------------
(* Write                                                                   *)

\* append_contiguous: batches of one kind that wait together are one write
Merged(k) ==
    [new    |-> bbLoaded[1].new,
     blks   |-> FlattenSeq([i \in 1 .. k |-> bbLoaded[i].blks]),
     rows   |-> FlattenSeq([i \in 1 .. k |-> bbLoaded[i].rows]),
     edges  |-> FlattenSeq([i \in 1 .. k |-> bbLoaded[i].edges]),
     spends |-> FlattenSeq([i \in 1 .. k |-> bbLoaded[i].spends])]

\* RunCreateHeight: the height a row has in the batch; 0: none
RunHeight(rows, fk) ==
    MaxOr0({rows[k].h : k \in {k \in 1 .. Len(rows) : rows[k].fk = fk}})

same_copy(rows, a, b) ==
    a = b \/ (RunHeight(rows, a) > 0 /\ RunHeight(rows, a) = RunHeight(rows, b))

\* reject_bip30_unspent_overwrite: a prior copy in the batch, then one on the
\* chain, may not leave an output unspent
Bip30Ok(st, rows, h, path) ==
    \/ path \in BbRepeat
    \/ \A t \in ToSet(path[Len(path)]) :
         /\ t \in DOMAIN st.made =>
              \A v \in Outs(t) :
                /\ <<t, v>> \in DOMAIN st.pend
                /\ RunHeight(rows, st.pend[<<t, v>>]) = st.made[t]
         /\ TipOnly(t) > 0 =>
              \A v \in Outs(t) :
                \/ <<t, v>> \in DOMAIN st.pend
                \/ StrongSpent(TipOnly(t), v)

\* structural_abs_heights: the height on the chain, else in the batch
CreateHeight(rows, fk) ==
    IF tx_height(fk) > 0 THEN tx_height(fk) ELSE RunHeight(rows, fk)

\* structural_create_heights, reject_one_create
CreateOk(sp, ch) ==
    sp.cfk # 0 => /\ 0 < ch /\ ch <= sp.h
                  /\ IsCb(sp.tx) => sp.h >= ch + BbMaturity

\* structural_bip68: a create of the same block counts from this height
structural_bip68(sp, ch) ==
    sp.h >= BbTx[sp.by].rel + (IF sp.cfk = 0 THEN sp.h ELSE ch)

\* structural_load_durable_spent
DurableSpent(sp) == sp.cfk # 0 /\ StrongSpent(sp.cfk, sp.v)

\* structural_mark_pending
SpendOnce(st, rows, sp) ==
    LET key  == <<sp.tx, sp.v>>
        copy == IF sp.cfk = 0 THEN sp.sfk ELSE sp.cfk
        again == key \in DOMAIN st.pend /\ same_copy(rows, st.pend[key], copy)
    IN  [st EXCEPT
           !.ok = /\ @ /\ ~again
                  /\ ~DurableSpent(sp)
                  /\ CreateOk(sp, CreateHeight(rows, sp.cfk))
                  /\ structural_bip68(sp, CreateHeight(rows, sp.cfk)),
           !.pend = [x \in DOMAIN st.pend \cup {key} |->
                       IF x = key THEN copy ELSE st.pend[x]]]

structural_validate_spends(st, b, path) ==
    LET h    == Len(path)
        made == ToSet(path[h])
        st2  == [st EXCEPT !.ok = @ /\ Bip30Ok(st, b.rows, h, path),
                           !.made = [t \in DOMAIN st.made \cup made |->
                                       IF t \in made THEN h ELSE st.made[t]]]
    IN  FoldLeft(LAMBDA s, sp : SpendOnce(s, b.rows, sp), st2,
                 SelectSeq(b.spends, LAMBDA sp : sp.h = h))

structural_run(b) ==
    FoldLeft(LAMBDA s, n :
               structural_validate_spends(s, b, bbChain \o SubSeq(b.blks, 1, n)),
             [ok |-> TRUE, pend |-> [x \in {} |-> 0], made |-> [x \in {} |-> 0]],
             [n \in 1 .. Len(b.blks) |-> n])

\* same_batch_spent_overlay: edges between rows of the plan, written with them
Overlay(b) ==
    {<<b.edges[k][i], BbTx[b.rows[k].tx].ins[i][2], b.rows[k].fk>> :
       <<k, i>> \in {ki \in (1 .. Len(b.rows)) \X (1 .. 3) :
                       /\ ki[2] <= Len(b.edges[ki[1]])
                       /\ \E m \in 1 .. Len(b.rows) :
                            b.rows[m].fk = b.edges[ki[1]][ki[2]]}}

AppendRows(b) ==
    IF b.new
    THEN /\ bbRows' = bbRows \o [k \in 1 .. Len(b.rows) |->
                        [tx |-> b.rows[k].tx, edges |-> b.edges[k]]]
         /\ bbBody' = [p \in DOMAIN bbBody
                             \cup {bbChain \o SubSeq(b.blks, 1, n) :
                                     n \in 1 .. Len(b.blks)} |->
                         IF p \in DOMAIN bbBody THEN bbBody[p]
                         ELSE b.rows[MaxOr0({k \in 1 .. Len(b.rows) :
                                b.rows[k].h = Len(p) /\ b.rows[k].j = 1})].fk]
    ELSE UNCHANGED <<bbRows, bbBody>>

\* fill_overlay_skip: the slots the rows of this write brought with them
OverlaySkip(b, sp) == b.new /\ <<sp.cfk, sp.v, sp.sfk>> \in Overlay(b)

\* post_commit: the spender of every other create outside the spender's block
Annotated(b) ==
    {<<sp.cfk, sp.v, sp.sfk>> :
       sp \in {s \in ToSet(b.spends) : s.cfk # 0 /\ ~OverlaySkip(b, s)}}

Connect(b, k) ==
    /\ bbChain' = bbChain \o b.blks
    /\ bbSlots' = bbSlots \cup Annotated(b) \cup (IF b.new THEN Overlay(b) ELSE {})
    /\ bbLoaded' = SubSeq(bbLoaded, k + 1, Len(bbLoaded))
    /\ UNCHANGED <<bbWaves, bbFlight, bbLast, bbUndone>>

\* The rows stay archived; everything loaded or looked up above starts over
RefuseWrite(b) ==
    /\ bbSlots' = bbSlots \cup (IF b.new THEN Overlay(b) ELSE {})
    /\ bbLoaded' = << >>
    /\ bbWaves' = << >>
    /\ bbFlight' = EmptyFlight
    /\ bbLast' = [path |-> bbChain \o b.blks, probe |-> FALSE]
    /\ UNCHANGED <<bbChain, bbUndone>>

WriteBatch(b, k) ==
    /\ AppendRows(b)
    /\ IF structural_run(b).ok THEN Connect(b, k) ELSE RefuseWrite(b)

Write ==
    \E k \in 1 .. Len(bbLoaded) :
      /\ \A i \in 1 .. k : bbLoaded[i].new = bbLoaded[1].new
      /\ \E b \in {Merged(k)} : WriteBatch(b, k)

-----------------------------------------------------------------------------
\* A reorganisation disconnects the tip block with nothing loaded above it;
\* the load thread drops what it holds in flight from that height on
DisconnectTip ==
    /\ bbChain # << >> /\ bbLoaded = << >> /\ bbWaves = << >>
    /\ bbUndone < BbUndo
    /\ bbUndone' = bbUndone + 1
    /\ bbFlight' = drop_from_height(bbFlight, Len(bbChain))
    /\ bbChain' = Front(bbChain)
    /\ UNCHANGED <<bbRows, bbBody, bbSlots, bbWaves, bbLoaded, bbLast>>

BbInit ==
    /\ bbRows = << >> /\ bbBody = [p \in {} |-> 0] /\ bbSlots = {}
    /\ bbChain = << >> /\ bbWaves = << >> /\ bbFlight = EmptyFlight
    /\ bbLoaded = << >> /\ bbLast = BbNone /\ bbUndone = 0

BbNext == LookupHi \/ LookupIds \/ Load \/ Write \/ DisconnectTip

BbSpec == BbInit /\ [][BbNext]_bbVars

-----------------------------------------------------------------------------
\* Every connected chain is one that connecting its blocks one after another
\* accepts: batching, in-flight ids and archived bodies let nothing through.
ConnectedIsValid == ValidPath(bbChain)

\* A batch is refused only when its path is invalid, except for an archived
\* batch whose BIP30 probes were not looked up.
RefusedIsInvalid ==
    bbLast # BbNone /\ ~bbLast.probe => ~ValidPath(bbLast.path)

\* The store answers for coins as the chain does: the newest connected copy of
\* a transaction has an output with no connected spender exactly when the coin
\* set of the chain holds that output.
StoreMatchesCoins ==
    \A t \in Txids : \A v \in Outs(t) :
      (TipOnly(t) > 0 /\ ~StrongSpent(TipOnly(t), v))
        <=> \E c \in CoinsAt(bbChain) : c[1] = t /\ c[2] = v

\* A connected input's archived edge names a connected copy of its parent,
\* not above it: the copy whose coin it spent.
EdgesFindTheCoin ==
    \A h \in 1 .. Len(bbChain) : \A j \in 1 .. Len(bbChain[h]) :
      LET fk == bbBody[PathAt(h)] + j - 1
          t  == bbChain[h][j]
      IN  \A i \in 1 .. Len(BbTx[t].ins) :
            LET c == bbRows[fk].edges[i]
            IN  /\ bbRows[c].tx = BbTx[t].ins[i][1]
                /\ c = MaxOr0({x \in 1 .. fk - 1 :
                                 /\ bbRows[x].tx = BbTx[t].ins[i][1]
                                 /\ 0 < tx_height(x) /\ tx_height(x) <= h})

\* Batching changes no verdict: what connects, what is refused and what the
\* store then says of coins are as block by block.
BatchSafe ==
    /\ EdgesFindTheCoin
    /\ ConnectedIsValid
    /\ RefusedIsInvalid
    /\ StoreMatchesCoins
=============================================================================
