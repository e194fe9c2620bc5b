-------------------------- MODULE ScripthashCold --------------------------
(* The cold build of the scripthash index: two scans of Class A (every      *)
(* create, in order), the pack of each head shard, the include mark, and    *)
(* the tail that covers what was created meanwhile.  Blocks arrive          *)
(* (submitblock) and the process is killed at any step; a restart resumes   *)
(* from what is on disk.                                                    *)
(*                                                                          *)
(* Create number fk pays the script CmKeyOf[fk]; a block holds one create,  *)
(* so heights and creates are the same numbers.  An index entry is the set  *)
(* of creates it lists.                                                     *)
EXTENDS Naturals, FiniteSets, Sequences

CONSTANTS
    CmKeyOf,        \* the script paid by each create
    CmShards,       \* main head shards
    CmShardOf,      \* the shard of a script
    CmStart,        \* creates in Class A at first
    CmForce,        \* RBITCOIN_SH_FORCE_REBUILD
    CmWindows,      \* blocks and kills also fall into the three windows below
    CmKillMax       \* bound on kills

VARIABLES
    cmTxs,      \* creates in Class A
    cmDir,      \* scripthash.unsorted: phase marks, keys, multi fuses, postings
    cmHead,     \* the index files
    cmMark,     \* include_hwm and SEAL
    cmRam,      \* the process
    cmKills

cmVars == <<cmTxs, cmDir, cmHead, cmMark, cmRam, cmKills>>

Scripts == {CmKeyOf[fk] : fk \in DOMAIN CmKeyOf}
ScriptsOf(s) == {k \in Scripts : CmShardOf[k] = s}
MaxOf(S) == IF S = {} THEN 0 ELSE CHOOSE x \in S : \A y \in S : y <= x
Larger(a, b) == IF a > b THEN a ELSE b
CreatesOf(k, first, last) == {fk \in first..last : CmKeyOf[fk] = k}

\* DONE.keys and DONE.post hold the last create of their scan, 0 when absent.
EmptyDir == [keys |-> 0, post |-> 0,
             key |-> [k \in Scripts |-> {}],
             multi |-> {}, list |-> [k \in Scripts |-> {}]]

\* slots: scripts with an MPHF slot; word: what the slot lists, {} for the
\* zero word; live: shards whose allocator counts a row.
EmptyHead == [slots |-> {}, word |-> [k \in Scripts |-> {}], packed |-> {},
              ingest |-> [k \in Scripts |-> {}], live |-> {}]

Down == [pc |-> "down", mode |-> "tip", main |-> {}, first |-> 0, last |-> 0,
         todo |-> CmShards, stage |-> [s \in CmShards |-> 0],
         kept |-> 0, top |-> 0, pend |-> <<>>, through |-> 0, applied |-> 0]

At(pc) == cmRam.pc = pc

durable_sh_inclusion_floor(m) == IF m.hwm > 0 THEN m.hwm ELSE m.seal

has_durable_index(h) == h.packed = CmShards

sh_is_tip_ready ==
    has_durable_index(cmHead) /\ durable_sh_inclusion_floor(cmMark) >= cmTxs

\* Monotonic marks.
Published(m, fk) == [hwm |-> Larger(m.hwm, fk), seal |-> Larger(m.seal, fk)]

\* Ingest is read first, then the loaded main shard.
Lookup(h, main, k) ==
    IF h.ingest[k] # {} THEN h.ingest[k]
    ELSE IF CmShardOf[k] \in main /\ k \in h.slots THEN h.word[k] ELSE {}

\* Append one create past the script's tail, where the script lives.
put_create(h, main, fk) ==
    LET k == CmKeyOf[fk]
        old == Lookup(h, main, k)
    IN IF MaxOf(old) >= fk THEN h
       ELSE IF h.ingest[k] = {} /\ old # {}
       THEN [h EXCEPT !.word[k] = @ \cup {fk}]
       ELSE [h EXCEPT !.ingest[k] = @ \cup {fk}, !.live = @ \cup {CmShardOf[k]}]

ColdAppend(h, main, first, last) ==
    LET f[fk \in (first - 1)..last] ==
            IF fk < first THEN h ELSE put_create(f[fk - 1], main, fk)
    IN IF last < first THEN h ELSE f[last]

head_is_empty(h, main) ==
    /\ \A k \in h.slots : CmShardOf[k] \notin main
    /\ \A k \in Scripts : h.ingest[k] = {}

\* The bodies are emptied and the pack marks unlinked.  Head words stay: one
\* create is in the word itself, a longer list is left pointing at nothing.
Dangling(L) == IF Cardinality(L) > 1 THEN {0} ELSE L

reinit_empty_for_cold_materialize(h) ==
    [h EXCEPT !.packed = {}, !.live = {},
              !.word = [k \in Scripts |-> Dangling(@[k])],
              !.ingest = [k \in Scripts |-> Dangling(@[k])]]

\* The first create to scan: 0 skips the scan, 1 starts over.
plan_unsorted_collect(done, last, sealed, present) ==
    IF done = 0 THEN 1
    ELSE IF done >= last \/ sealed THEN 0
    ELSE IF ~present THEN 1
    ELSE done + 1

CmFrom(txs, head, ram) ==
    /\ cmTxs = txs
    /\ cmDir = EmptyDir
    /\ cmHead = head
    /\ cmMark = [hwm |-> 0, seal |-> 0]
    /\ cmRam = ram
    /\ cmKills = 0
CmInit == CmFrom(CmStart, EmptyHead, Down)

---------------------------------------------------------------------------
(* Start-up and tip entry *)

CmBoot ==
    LET floor == durable_sh_inclusion_floor(cmMark)
        durable == has_durable_index(cmHead)
        unproven == durable /\ floor = 0
        tip == durable /\ ~unproven
    IN /\ At("down")
       /\ cmHead' = IF unproven THEN reinit_empty_for_cold_materialize(cmHead)
                    ELSE cmHead
       /\ cmMark' = [cmMark EXCEPT !.seal = Larger(@, cmMark.hwm)]
       /\ cmRam' = [Down EXCEPT !.pc = "idle",
                        !.main = IF unproven THEN {} ELSE cmHead.packed,
                        !.through = floor,
                        !.pend = IF tip THEN [i \in 1..(cmTxs - floor) |-> floor + i]
                                 ELSE <<>>,
                        !.mode = IF tip THEN "tip" ELSE "direct"]
       /\ UNCHANGED <<cmTxs, cmDir, cmKills>>

\* A durable head stays in Tip mode and is not collected again.
EnterDurable ==
    /\ At("idle") /\ ~CmForce /\ has_durable_index(cmHead)
    /\ cmMark' = [hwm |-> durable_sh_inclusion_floor(cmMark),
                  seal |-> Larger(cmMark.seal, cmMark.hwm)]
    /\ cmRam' = [cmRam EXCEPT !.pc = "run", !.mode = "tip",
                    !.through = IF sh_is_tip_ready THEN cmTxs ELSE @]
    /\ UNCHANGED <<cmTxs, cmDir, cmHead, cmKills>>

\* FORCE_REBUILD wipes first; over a durable head that is already Tip mode.
EnterCollect ==
    /\ At("idle") /\ (CmForce \/ ~has_durable_index(cmHead))
    /\ cmRam' = [cmRam EXCEPT !.pc = "start",
                    !.mode = IF has_durable_index(cmHead) THEN "tip" ELSE "direct",
                    !.main = IF CmForce THEN {} ELSE @]
    /\ IF CmForce
       THEN /\ cmMark' = [hwm |-> 0, seal |-> 0]
            /\ cmHead' = reinit_empty_for_cold_materialize(cmHead)
            /\ cmDir' = EmptyDir
       ELSE UNCHANGED <<cmMark, cmHead, cmDir>>
    /\ UNCHANGED <<cmTxs, cmKills>>

---------------------------------------------------------------------------
(* Pass 1: keys *)

\* Samples Class A.  Whether a shard is sealed is read before the reinit.
CollectKeys ==
    LET fresh == head_is_empty(cmHead, cmRam.main) /\ cmHead.live = {}
        first == plan_unsorted_collect(cmDir.keys, cmTxs, cmRam.main # {},
                     \E k \in Scripts : cmDir.key[k] # {})
    IN /\ At("start")
       /\ cmHead' = IF fresh THEN reinit_empty_for_cold_materialize(cmHead) ELSE cmHead
       /\ cmMark' = IF fresh THEN [cmMark EXCEPT !.seal = 0] ELSE cmMark
       /\ cmDir' = IF first = 1 THEN EmptyDir ELSE cmDir
       /\ cmRam' = [cmRam EXCEPT !.main = IF fresh THEN {} ELSE @,
                        !.first = first, !.last = cmTxs, !.kept = cmDir.keys,
                        !.todo = CmShards,
                        !.pc = IF first = 0 THEN "mphf" ELSE "keys"]
       /\ UNCHANGED <<cmTxs, cmKills>>

\* The workers spill every script of the span to its shard's key files.
spill_keys(files, first, last) ==
    [k \in Scripts |-> files[k] \cup CreatesOf(k, first, last)]

ScanKeys ==
    /\ At("keys")
    /\ cmDir' = [cmDir EXCEPT !.key = spill_keys(@, cmRam.first, cmRam.last)]
    /\ cmRam' = [cmRam EXCEPT !.pc = "merge"]
    /\ UNCHANGED <<cmTxs, cmHead, cmMark, cmKills>>

\* A script created once carries its create, one created again the zero word.
insert_key_word(creates) == IF Cardinality(creates) > 1 THEN {} ELSE creates

load_keys_shard_map(s) == {k \in ScriptsOf(s) : cmDir.key[k] # {}}

\* The shard's head, and the scripts created again for the multi fuse.
MergeShard(s) ==
    LET keys == load_keys_shard_map(s)
        many == {k \in keys : insert_key_word(cmDir.key[k]) = {}}
    IN /\ At("merge") /\ s \in cmRam.todo
       /\ cmHead' = [cmHead EXCEPT
            !.slots = (@ \ ScriptsOf(s)) \cup keys,
            !.word = [k \in Scripts |-> 
                        IF k \in ScriptsOf(s) THEN insert_key_word(cmDir.key[k])
                        ELSE @[k]],
            !.live = IF keys = many THEN @ \ {s} ELSE @ \cup {s}]
       /\ cmDir' = [cmDir EXCEPT !.multi = (@ \ ScriptsOf(s)) \cup many,
                        !.key = [k \in Scripts |->
                            IF k \in ScriptsOf(s) THEN {} ELSE @[k]]]
       /\ cmRam' = [cmRam EXCEPT !.todo = @ \ {s}]
       /\ UNCHANGED <<cmTxs, cmMark, cmKills>>

KeysDone ==
    /\ At("merge") /\ cmRam.todo = {}
    /\ cmDir' = [cmDir EXCEPT !.keys = cmRam.last]
    /\ cmRam' = [cmRam EXCEPT !.pc = "mphf", !.kept = cmRam.last]
    /\ UNCHANGED <<cmTxs, cmHead, cmMark, cmKills>>

---------------------------------------------------------------------------
(* Pass 2: postings *)

\* Samples Class A again.
CollectPosts ==
    LET first == plan_unsorted_collect(cmDir.post, cmTxs, cmRam.main # {}, TRUE)
    IN /\ At("mphf")
       /\ cmDir' = IF first = 1 THEN [cmDir EXCEPT !.list = EmptyDir.list] ELSE cmDir
       /\ cmRam' = [cmRam EXCEPT !.first = first, !.last = cmTxs, !.top = 0,
                        !.stage = [s \in CmShards |-> IF s \in cmRam.main THEN 3 ELSE 0],
                        !.pc = IF first = 0 THEN "pack" ELSE "posts"]
       /\ UNCHANGED <<cmTxs, cmHead, cmMark, cmKills>>

spill_posts(files, hits, first, last) ==
    [k \in Scripts |-> files[k] \cup (IF k \in hits THEN CreatesOf(k, first, last) ELSE {})]

\* Creates of scripts the multi fuse holds; the fuse may also pass one script
\* of the head it does not hold.
ScanPosts ==
    /\ At("posts")
    /\ \E extra \in {{}} \cup {{k} : k \in cmHead.slots} :
         cmDir' = [cmDir EXCEPT !.list =
                     spill_posts(@, cmDir.multi \cup extra, cmRam.first, cmRam.last)]
    /\ cmRam' = [cmRam EXCEPT !.pc = "post"]
    /\ UNCHANGED <<cmTxs, cmHead, cmMark, cmKills>>

PostsDone ==
    /\ At("post")
    /\ cmDir' = [cmDir EXCEPT !.post = cmRam.last]
    /\ cmRam' = [cmRam EXCEPT !.pc = "pack"]
    /\ UNCHANGED <<cmTxs, cmHead, cmMark, cmKills>>

---------------------------------------------------------------------------
(* Pack.  Workers take different shards. *)

InStage(s, n) == At("pack") /\ cmRam.stage[s] = n

\* Lists of one create are false positives of the fuse and are left inline.
load_post_shard_map(s) == {k \in ScriptsOf(s) : Cardinality(cmDir.list[k]) > 1}

\* The session streams each list to the body and keeps its word by slot.
bulk_words(s, word) ==
    [k \in Scripts |-> IF k \in load_post_shard_map(s) THEN cmDir.list[k] ELSE word[k]]

\* Body chains and head words are written and the shard is installed.
PackShardMarksFirst(s) ==
    /\ InStage(s, 0)
    /\ cmHead' = [cmHead EXCEPT !.packed = @ \cup {s}]
    /\ cmRam' = [cmRam EXCEPT !.stage[s] = 1]
    /\ UNCHANGED <<cmTxs, cmDir, cmMark, cmKills>>
PackShard(s) ==
    /\ InStage(s, 0)
    /\ cmHead' = [cmHead EXCEPT
            !.word = bulk_words(s, @),
            !.live = IF load_post_shard_map(s) = {} THEN @ ELSE @ \cup {s}]
    /\ cmRam' = [cmRam EXCEPT !.stage[s] = 1, !.main = @ \cup {s},
                    !.top = Larger(@, MaxOf(UNION {
                        cmDir.list[k] : k \in load_post_shard_map(s)}))]
    /\ UNCHANGED <<cmTxs, cmDir, cmMark, cmKills>>

note_shard_packed(s) ==
    /\ InStage(s, 1)
    /\ cmHead' = [cmHead EXCEPT !.packed = @ \cup {s}]
    /\ cmRam' = [cmRam EXCEPT !.stage[s] = 2]
    /\ UNCHANGED <<cmTxs, cmDir, cmMark, cmKills>>

\* Ingest rows of scripts the shard now holds are cleared, then the shard's
\* postings are unlinked.
drop_ingest_covered_by_packed_main(s) ==
    /\ InStage(s, 2)
    /\ cmHead' = [cmHead EXCEPT !.ingest = [k \in Scripts |->
                    IF k \in cmHead.slots \cap ScriptsOf(s) THEN {} ELSE @[k]]]
    /\ cmDir' = [cmDir EXCEPT !.list = [k \in Scripts |->
                    IF k \in ScriptsOf(s) THEN {} ELSE @[k]]]
    /\ cmRam' = [cmRam EXCEPT !.stage[s] = 3]
    /\ UNCHANGED <<cmTxs, cmMark, cmKills>>

PackDone ==
    /\ At("pack") /\ \A s \in CmShards : cmRam.stage[s] = 3
    /\ cmDir' = EmptyDir
    /\ cmRam' = [cmRam EXCEPT !.pc = "seal", !.top = Larger(@, cmRam.kept)]
    /\ UNCHANGED <<cmTxs, cmHead, cmMark, cmKills>>

PublishSeal ==
    /\ At("seal")
    /\ cmMark' = [cmMark EXCEPT !.seal = Larger(@, cmRam.top)]
    /\ cmRam' = [cmRam EXCEPT !.pc = "hwm"]
    /\ UNCHANGED <<cmTxs, cmDir, cmHead, cmKills>>

NoteInclude ==
    /\ At("hwm")
    /\ cmMark' = [cmMark EXCEPT !.hwm = Larger(@, cmRam.top)]
    /\ cmRam' = [cmRam EXCEPT !.pc = "tail"]
    /\ UNCHANGED <<cmTxs, cmDir, cmHead, cmKills>>

---------------------------------------------------------------------------
(* Tail: creates after the mark, until the mark covers Class A *)

TailReady ==
    /\ At("tail") /\ sh_is_tip_ready
    /\ cmRam' = [cmRam EXCEPT !.pc = "ready", !.through = cmTxs]
    /\ UNCHANGED <<cmTxs, cmDir, cmHead, cmMark, cmKills>>

TailSample ==
    /\ At("tail") /\ ~sh_is_tip_ready
    /\ cmRam' = [cmRam EXCEPT !.last = cmTxs,
                    !.pc = IF cmMark.hwm >= cmTxs THEN "gap" ELSE "fill"]
    /\ UNCHANGED <<cmTxs, cmDir, cmHead, cmMark, cmKills>>

\* One hold of sh.appender.
backfill_sh_creates ==
    /\ At("fill")
    /\ cmHead' = ColdAppend(cmHead, cmRam.main,
                    durable_sh_inclusion_floor(cmMark) + 1, cmRam.last)
    /\ cmRam' = [cmRam EXCEPT !.pc = "filled"]
    /\ UNCHANGED <<cmTxs, cmDir, cmMark, cmKills>>

NoteFilled ==
    /\ At("filled")
    /\ cmMark' = Published(cmMark, cmRam.last)
    /\ cmRam' = [cmRam EXCEPT !.pc = "tail"]
    /\ UNCHANGED <<cmTxs, cmDir, cmHead, cmKills>>

EnterTip ==
    /\ At("ready")
    /\ cmRam' = [cmRam EXCEPT !.pc = "run", !.mode = "tip"]
    /\ UNCHANGED <<cmTxs, cmDir, cmHead, cmMark, cmKills>>

---------------------------------------------------------------------------
(* Blocks, the write-behind appender, kills *)

\* A block between the two samples of Class A, or between the last look at
\* Class A and Tip mode.
BlockWindow == cmRam.pc \in {"keys", "merge", "mphf", "ready"}

\* A kill between the last pack mark and the removal of the unsorted files.
KillWindow == At("pack") /\ has_durable_index(cmHead)

Confirm ==
    /\ cmTxs < Len(CmKeyOf) /\ ~At("down")
    /\ CmWindows \/ ~BlockWindow
    /\ cmTxs' = cmTxs + 1
    /\ cmRam' = IF cmRam.mode = "tip" /\ cmTxs + 1 > cmRam.through
                THEN [cmRam EXCEPT !.pend = Append(@, cmTxs + 1)] ELSE cmRam
    /\ UNCHANGED <<cmDir, cmHead, cmMark, cmKills>>

apply_sh_job ==
    /\ ~At("down") /\ cmRam.pend # <<>>
    /\ LET fk == Head(cmRam.pend)
       IN IF cmRam.mode = "tip" /\ fk > cmRam.through
          THEN /\ cmHead' = put_create(cmHead, cmRam.main, fk)
               /\ cmMark' = Published(cmMark, Larger(cmRam.applied, fk))
               /\ cmRam' = [cmRam EXCEPT !.pend = Tail(@), !.through = fk,
                                !.applied = Larger(@, fk)]
          ELSE /\ cmRam' = [cmRam EXCEPT !.pend = Tail(@)]
               /\ UNCHANGED <<cmHead, cmMark>>
    /\ UNCHANGED <<cmTxs, cmDir, cmKills>>

\* A cancelled build leaves the same files as a killed one.
CmKill ==
    /\ ~At("down") /\ cmKills < CmKillMax
    /\ CmWindows \/ ~KillWindow
    /\ cmKills' = cmKills + 1
    /\ cmRam' = Down
    /\ UNCHANGED <<cmTxs, cmDir, cmHead, cmMark>>

CmBuild ==
    \/ CmBoot \/ EnterDurable \/ EnterCollect
    \/ CollectKeys \/ ScanKeys \/ KeysDone \/ CollectPosts \/ ScanPosts \/ PostsDone
    \/ \E s \in CmShards :
         \/ MergeShard(s) \/ PackShard(s) \/ note_shard_packed(s)
         \/ drop_ingest_covered_by_packed_main(s)
    \/ PackDone \/ PublishSeal \/ NoteInclude
    \/ TailReady \/ TailSample \/ backfill_sh_creates \/ NoteFilled \/ EnterTip

CmNext == CmBuild \/ Confirm \/ apply_sh_job \/ CmKill

CmSpec == CmInit /\ [][CmNext]_cmVars

---------------------------------------------------------------------------
(* Properties *)

\* Every create up to the include mark of a complete index is listed under its
\* script, whatever blocks arrived during the build and wherever it was killed
\* and resumed: nothing looks below the mark again, so a create missing there
\* is missing for good (advance_sh_include_hwm, backfill, recovery).
IncludedIsIndexed ==
    has_durable_index(cmHead) =>
        \A fk \in 1..durable_sh_inclusion_floor(cmMark) :
            fk \in Lookup(cmHead, CmShards, CmKeyOf[fk])

\* A shard with a pack mark lists every create the keys pass covered: the mark
\* is written after the words it vouches for, and a restart that skips the
\* shard loses nothing (publish_packed_shard, pack-mark resume).
PackedIsWhole ==
    \A fk \in 1..cmDir.keys :
        CmShardOf[CmKeyOf[fk]] \in cmHead.packed =>
            fk \in Lookup(cmHead, cmHead.packed, CmKeyOf[fk])

\* The build ends: the node comes to run in Tip mode with every create
\* covered, not in the refused create-gap state (finalize_sh_unsorted).
CmReachesTip == <>[](At("run") /\ sh_is_tip_ready)

\* The durable marks of the cold build never claim a create the index does
\* not list.
ColdSafe == PackedIsWhole /\ IncludedIsIndexed
===========================================================================
