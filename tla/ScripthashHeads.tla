------------------------- MODULE ScripthashHeads -------------------------
(***************************************************************************)
(* Where a scripthash key lives (rbitcoin-store scripthash.rs,             *)
(* scripthash_head.rs, scripthash_sorted_head.rs, scripthash_mphf.rs).     *)
(*                                                                         *)
(* A lookup probes the ingest table, the sealed overflow files newest      *)
(* first, the one compacted overflow head behind its fuse filter, and the  *)
(* packed main head.  A batch of creates finds each key's home, appends to *)
(* its list and writes the new list word back at that home; new keys go to *)
(* the ingest table, which is sealed to a file when it is full, and sealed *)
(* files are compacted once there are enough of them.                      *)
(*                                                                         *)
(* A list is the set of its create fks.  A table is a function from the    *)
(* keys that own a slot to lists; an empty list is the zero word.          *)
(***************************************************************************)
EXTENDS Naturals, Sequences, FiniteSets, SequencesExt

CONSTANTS ShKeys,        \* scripthashes: naturals, in key order
          ShMain,        \* the keys packed in the main head
          SealAt,        \* ingest slots in use at SH_SEAL_LOAD
          CompactFiles,  \* SEALED_OVF_COMPACT_FILES
          MaxBatch,      \* keys of one batch
          MaxFk,         \* creates in all
          MaxSeals,      \* sealed files written in all
          MaxUnlinks, MaxCuts

VARIABLES ingest, l0, fuse8, l1, main,   \* the files
          sealed,                        \* open sealed files, oldest first
          job,                           \* the batch under way
          shref,                         \* the creates of every key
          fk, seals, unlinks, cuts

shVars == <<ingest, l0, fuse8, l1, main, sealed, job, shref, fk, seals, unlinks, cuts>>

Idle == [at |-> "idle"]
NoL1 == [id |-> 0, on |-> FALSE, vals |-> <<>>]
None == <<>>

Live(table) == [k \in {x \in DOMAIN table : table[x] # {}} |-> table[k]]
With(table, k, v) == [x \in DOMAIN table \cup {k} |-> IF x = k THEN v ELSE table[x]]
Without(table, k) == [x \in DOMAIN table \ {k} |-> table[x]]
Ids(files) == SetToSortSeq(DOMAIN files, <)

\* A sealed file answers for the keys of its fuse filter that its rows hold.
InFile(i, k) == k \in fuse8[i] /\ k \in DOMAIN l0[i]
InL1(k) == l1.on /\ k \in DOMAIN l1.vals

\* The newest sealed file that holds k, 0 when none does.
SealedAt(k) ==
    LET hits == {p \in DOMAIN sealed : InFile(sealed[p], k)}
    IN IF hits = {} THEN 0 ELSE CHOOSE p \in hits : \A q \in hits : q <= p

\* Mutated form: the ingest table is probed after the sealed files.
locate_headSealedFirst(k) ==
    IF SealedAt(k) # 0
    THEN [home |-> "l0", val |-> l0[sealed[SealedAt(k)]][k]]
    ELSE IF k \in DOMAIN ingest /\ ingest[k] # {}
    THEN [home |-> "ingest", val |-> ingest[k]]
    ELSE IF InL1(k) /\ k \in fuse8[l1.id]
    THEN [home |-> "l1", val |-> l1.vals[k]]
    ELSE IF k \in DOMAIN main
    THEN [home |-> "main", val |-> main[k]]
    ELSE [home |-> "absent", val |-> {}]

\* locate_head: the home that answers for k and the list it holds.
locate_head(k) ==
    IF k \in DOMAIN ingest /\ ingest[k] # {}
    THEN [home |-> "ingest", val |-> ingest[k]]
    ELSE IF SealedAt(k) # 0
    THEN [home |-> "l0", val |-> l0[sealed[SealedAt(k)]][k]]
    ELSE IF InL1(k) /\ k \in fuse8[l1.id]
    THEN [home |-> "l1", val |-> l1.vals[k]]
    ELSE IF k \in DOMAIN main
    THEN [home |-> "main", val |-> main[k]]
    ELSE [home |-> "absent", val |-> {}]

ShInit ==
    /\ ingest = None /\ l0 = None /\ fuse8 = None /\ l1 = NoL1
    /\ main = [k \in ShMain |-> {1}]
    /\ sealed = <<>> /\ job = Idle
    /\ shref = [k \in ShKeys |-> IF k \in ShMain THEN {1} ELSE {}]
    /\ fk = 2 /\ seals = 0 /\ unlinks = 0 /\ cuts = 0

-----------------------------------------------------------------------------
(* put_create_batch_append and apply_head_upserts                          *)

\* A sealed-home word goes to the newest file that has the key, then to L1.
SealedWrite(tables, k, v) ==
    LET p == SealedAt(k)
    IN IF p # 0
       THEN [tables EXCEPT !.l0[sealed[p]][k] = v]
       ELSE [tables EXCEPT !.l1.vals[k] = v]

\* The heads after the words of the keys `ks` were written at homes that
\* take an update in place; the other words are ingest upserts.
InPlace(ks, found) ==
    FoldSet(LAMBDA k, t : IF found[k].home \in {"l0", "l1"}
                          THEN SealedWrite(t, k, found[k].val \cup {fk})
                          ELSE [t EXCEPT !.main[k] = found[k].val \cup {fk}],
            [l0 |-> l0, l1 |-> l1, main |-> main],
            {k \in ks : found[k].home \in {"l0", "l1", "main"}})

IngestUps(ks, found) ==
    LET mine == {k \in ks : found[k].home \in {"ingest", "absent"}}
    IN [i \in DOMAIN SetToSortSeq(mine, <) |->
           LET k == SetToSortSeq(mine, <)[i]
           IN [key |-> k, val |-> found[k].val \cup {fk}]]

\* One block creates an output for every key of ks.  A key whose list already
\* ends at this create is skipped.
put_create_batch_append(ks) ==
    /\ job = Idle /\ fk <= MaxFk
    /\ \E found \in {[k \in ks |-> locate_head(k)]} :
       \E add \in {{k \in ks : fk \notin found[k].val}} :
       \E t \in {InPlace(add, found)} :
          /\ l0' = t.l0 /\ l1' = t.l1 /\ main' = t.main
          /\ job' = [at |-> "ingest", keys |-> ks, ups |-> IngestUps(add, found)]
    /\ UNCHANGED <<ingest, fuse8, sealed, shref, fk, seals, unlinks, cuts>>

room_before_seal == IF Cardinality(DOMAIN ingest) >= SealAt
                    THEN 0 ELSE SealAt - Cardinality(DOMAIN ingest)

\* ingest_insert_many ends: the block's creates are indexed.
PutDone ==
    /\ job.at = "ingest" /\ job.ups = <<>>
    /\ shref' = [k \in ShKeys |-> IF k \in job.keys THEN shref[k] \cup {fk} ELSE shref[k]]
    /\ fk' = fk + 1 /\ job' = Idle
    /\ UNCHANGED <<ingest, l0, fuse8, l1, main, sealed, seals, unlinks, cuts>>

InsertAll(table, ups) ==
    FoldSeq(LAMBDA u, t : With(t, u.key, u.val), table, ups)

\* As many upserts as there is room for, whether or not they need a slot;
\* maybe_seal_ingest follows every group.
ingest_insert_many ==
    /\ job.at = "ingest" /\ job.ups # <<>> /\ room_before_seal > 0
    /\ \E n \in {IF Len(job.ups) < room_before_seal THEN Len(job.ups) ELSE room_before_seal} :
       \E table \in {InsertAll(ingest, SubSeq(job.ups, 1, n))} :
          /\ ingest' = table
          /\ job' = [job EXCEPT !.ups = SubSeq(job.ups, n + 1, Len(job.ups)),
                                !.at = IF Cardinality(DOMAIN table) >= SealAt
                                       THEN "seal" ELSE "ingest"]
    /\ UNCHANGED <<l0, fuse8, l1, main, sealed, shref, fk, seals, unlinks, cuts>>

NoRoom ==
    /\ job.at = "ingest" /\ job.ups # <<>> /\ room_before_seal = 0
    /\ job' = [job EXCEPT !.at = "seal"]
    /\ UNCHANGED <<ingest, l0, fuse8, l1, main, sealed, shref, fk, seals, unlinks, cuts>>

-----------------------------------------------------------------------------
(* seal_ingest and compact_sealed_ovf                                      *)

\* The sealed file is named by the number of open files.
SealId == Len(sealed)

\* SortedHead::write: the rows first, then the index and the fuse filter.
SealRows ==
    /\ job.at = "seal" /\ Live(ingest) # None /\ seals < MaxSeals
    /\ l0' = With(l0, SealId, Live(ingest))
    /\ seals' = seals + 1
    /\ job' = [job EXCEPT !.at = "sealing"]
    /\ UNCHANGED <<ingest, fuse8, l1, main, sealed, shref, fk, unlinks, cuts>>

SealFuse ==
    /\ job.at = "sealing"
    /\ fuse8' = With(fuse8, SealId, DOMAIN l0[SealId])
    /\ job' = [job EXCEPT !.at = "sealed"]
    /\ UNCHANGED <<ingest, l0, l1, main, sealed, shref, fk, seals, unlinks, cuts>>

\* The file is opened and the ingest table starts over empty;
\* maybe_compact_sealed_ovf follows.
SealSwap ==
    /\ job.at = "sealed"
    /\ sealed' = Append(sealed, SealId)
    /\ ingest' = None
    /\ job' = [job EXCEPT !.at = IF ~l1.on /\ Len(sealed) + 1 >= CompactFiles
                                 THEN "compact" ELSE "ingest"]
    /\ UNCHANGED <<l0, fuse8, l1, main, shref, fk, seals, unlinks, cuts>>

\* Every non-empty row of every sealed file; a key seen twice is refused and
\* the batch ends with the error.
DualHome == \E p, q \in DOMAIN sealed :
                p # q /\ DOMAIN Live(l0[sealed[p]]) \cap DOMAIN Live(l0[sealed[q]]) # {}

CompactRefused ==
    /\ job.at = "compact" /\ DualHome
    /\ job' = Idle
    /\ UNCHANGED <<ingest, l0, fuse8, l1, main, sealed, shref, fk, seals, unlinks, cuts>>

Merged == LET keys == UNION {DOMAIN Live(l0[sealed[p]]) : p \in DOMAIN sealed}
          IN [k \in keys |-> l0[sealed[CHOOSE p \in DOMAIN sealed :
                                           k \in DOMAIN Live(l0[sealed[p]])]][k]]

NextId == 1 + Max({sealed[p] : p \in DOMAIN sealed})

\* MphfHead::write_pack8 and then the fuse filter beside it.
CompactHead ==
    /\ job.at = "compact" /\ ~DualHome
    /\ l1' = [id |-> NextId, on |-> FALSE, vals |-> Merged]
    /\ job' = [job EXCEPT !.at = "compacting"]
    /\ UNCHANGED <<ingest, l0, fuse8, main, sealed, shref, fk, seals, unlinks, cuts>>

CompactInstall ==
    /\ job.at = "compacting"
    /\ fuse8' = With(fuse8, l1.id, DOMAIN l1.vals)
    /\ l1' = [l1 EXCEPT !.on = TRUE]
    /\ sealed' = <<>>
    /\ job' = [job EXCEPT !.at = "drop"]
    /\ UNCHANGED <<ingest, l0, main, shref, fk, seals, unlinks, cuts>>

\* The replaced files are removed one by one, oldest first.
CompactDrop ==
    /\ job.at = "drop"
    /\ IF DOMAIN l0 = {}
       THEN job' = [job EXCEPT !.at = "ingest"] /\ UNCHANGED <<l0, fuse8>>
       ELSE \E i \in {Ids(l0)[1]} :
               /\ l0' = Without(l0, i)
               /\ fuse8' = Without(fuse8, i)
               /\ UNCHANGED job
    /\ UNCHANGED <<ingest, l1, main, sealed, shref, fk, seals, unlinks, cuts>>

-----------------------------------------------------------------------------
(* Disconnect and restart                                                  *)

\* unlink_one for the newest create of k, written at the home found.
unlink_one(k) ==
    /\ job = Idle /\ unlinks < MaxUnlinks /\ shref[k] # {}
    /\ \E top \in {Max(shref[k])} : \E at \in {locate_head(k)} :
       \E v \in {at.val \ {top}} :
          /\ shref' = [shref EXCEPT ![k] = @ \ {top}]
          /\ ingest' = IF at.home = "ingest" THEN [ingest EXCEPT ![k] = v] ELSE ingest
          /\ main' = IF at.home = "main" THEN [main EXCEPT ![k] = v] ELSE main
          /\ \E t \in {IF at.home \in {"l0", "l1"}
                       THEN SealedWrite([l0 |-> l0, l1 |-> l1], k, v)
                       ELSE [l0 |-> l0, l1 |-> l1]} : l0' = t.l0 /\ l1' = t.l1
    /\ unlinks' = unlinks + 1
    /\ UNCHANGED <<fuse8, sealed, job, fk, seals, cuts>>

\* A kill, and open_with_scale: the sealed files by number, L1 when both of
\* its head files are there.  A sealed file without its index or filter, or
\* an L1 without its filter, is an error and the table does not open.
Openable == /\ DOMAIN l0 \subseteq DOMAIN fuse8
            /\ l1.vals # None => l1.id \in DOMAIN fuse8

Restart ==
    /\ job.at # "down" /\ cuts < MaxCuts /\ cuts' = cuts + 1
    /\ IF Openable
       THEN /\ sealed' = Ids(l0)
            /\ l1' = IF l1.vals # None THEN [l1 EXCEPT !.on = TRUE] ELSE NoL1
            /\ job' = Idle
       ELSE job' = [at |-> "down"] /\ UNCHANGED <<sealed, l1>>
    /\ UNCHANGED <<ingest, l0, fuse8, main, shref, fk, seals, unlinks>>

ShNext ==
    \/ \E ks \in SUBSET ShKeys : ks # {} /\ Cardinality(ks) <= MaxBatch
                                 /\ put_create_batch_append(ks)
    \/ ingest_insert_many \/ NoRoom \/ PutDone
    \/ SealRows \/ SealFuse \/ SealSwap
    \/ CompactRefused \/ CompactHead \/ CompactInstall \/ CompactDrop
    \/ \E k \in ShKeys : unlink_one(k)
    \/ Restart

ShSpec == ShInit /\ [][ShNext]_shVars

-----------------------------------------------------------------------------
\* A lookup never misses a create that a finished batch indexed and no
\* disconnect removed: whatever seals, compactions, restarts and unlinks lie
\* between, the home that answers first holds the whole list.
NothingLost ==
    job.at # "down" => \A k \in ShKeys : shref[k] \subseteq locate_head(k).val

=============================================================================
