------------------------------- MODULE TxHead -------------------------------
(***************************************************************************)
(* The segmented index from txid to create number (fk).  The open tail is  *)
(* an open-address table; when its span is full a new tail opens and a     *)
(* sidecar thread seals the old one from txid.body.  The write thread      *)
(* queues new creates and drains the queue as one insert job.  A process   *)
(* crash keeps the page cache, a power loss keeps what was synced; opening *)
(* the store repairs the index from the bodies.                            *)
(***************************************************************************)
EXTENDS Integers, FiniteSets, SequencesExt

CONSTANTS
    HMaxFk,         \* creates at most
    MaxKeys,        \* the fk span of one segment
    RebuildKeys,    \* the span of one rebuilt segment
    HMaxCrash,      \* crashes and power losses at most
    HMaxFail        \* failed inserts and seals at most

VARIABLES
    hbody,          \* creates in txid.body
    hsynced,        \* creates that survive a power loss
    pend,           \* the queue of creates not yet in the head
    batch,          \* the batch a drain took, for putting back
    job,            \* what is left to insert of it
    phase,          \* "down", "idle", "loop" (inserting), "open" (backfilling)
    segs,           \* [id, first, count, sealed, rows]
    nextId,         \* next_file_id
    seal,           \* the sidecar: [st, id, first, count]
    dmeta,          \* the meta file: [id, first, count, sealed]
    pages,          \* id -> rows of the open table known synced
    hcrashes, fails, \* faults so far
    lossy,          \* history: a power loss happened
    miss            \* a look-up of a connected parent: [k, bound, says]

indexVars == <<hbody, hsynced, pend, batch, job, phase, segs, nextId, seal, dmeta, pages, hcrashes, fails, lossy>>
headVars == <<hbody, hsynced, pend, batch, job, phase, segs, nextId, seal, dmeta, pages, hcrashes, fails, lossy, miss>>

Span(s) == s.first .. s.first + s.count - 1
NoSeal == [st |-> "none", id |-> 0, first |-> 0, count |-> 0]
TailOf(S) == S[Len(S)]
Meta(S) == [i \in 1..Len(S) |-> [id |-> S[i].id, first |-> S[i].first, count |-> S[i].count, sealed |-> S[i].sealed]]
OpenSegment(id, first) == [id |-> id, first |-> first, count |-> 0, sealed |-> FALSE, rows |-> {}]
last_inserted(S) ==
    LET N == {i \in 1..Len(S) : S[i].count > 0}
    IN  IF N = {} THEN 0 ELSE S[Max(N)].first + S[Max(N)].count - 1
\* The first fk of the oldest unsealed segment.
unsynced_first(S) ==
    LET U == {i \in 1..Len(S) : ~S[i].sealed}
    IN  IF U = {} THEN last_inserted(S) + 1 ELSE S[Min(U)].first
Found == UNION {segs[i].rows : i \in 1..Len(segs)}

\* apply_seal_publish: the segment takes its rows from the sealed files, the
\* meta names it sealed, the open table is unlinked.
Publish(S, sl) ==
    [i \in 1..Len(S) |-> IF S[i].id = sl.id /\ sl.st = "ready"
                         THEN [S[i] EXCEPT !.sealed = TRUE, !.rows = Span(S[i])] ELSE S[i]]

-----------------------------------------------------------------------------
HeadInit ==
    /\ hbody = 0 /\ hsynced = 0 /\ pend = {} /\ batch = {} /\ job = {} /\ phase = "idle"
    /\ segs = <<>> /\ nextId = 0 /\ seal = NoSeal /\ dmeta = <<>>
    /\ pages = [i \in 0 .. HMaxFk + HMaxFail |-> {}]
    /\ hcrashes = 0 /\ fails = 0 /\ lossy = FALSE
    /\ miss = [k |-> 0, bound |-> 0, says |-> ""]

\* archive_commit_plan: the bodies are published, then the pair is queued.
AppendCreate ==
    /\ phase \in {"idle", "loop"} /\ hbody < HMaxFk
    /\ hbody' = hbody + 1 /\ pend' = pend \cup {hbody + 1}
    /\ UNCHANGED <<hsynced, batch, job, phase, segs, nextId, seal, dmeta, pages, hcrashes, fails, lossy, miss>>

\* Store flush of the bodies.
SyncBodies ==
    /\ phase # "down" /\ hsynced < hbody /\ hsynced' = hbody
    /\ UNCHANGED <<hbody, pend, batch, job, phase, segs, nextId, seal, dmeta, pages, hcrashes, fails, lossy, miss>>

\* take_pending_queued and submit: try_publish_seal, then the loop.  A failed
\* seal surfaces here, and the batch goes back.
DrainBegin ==
    /\ phase = "idle" /\ pend # {}
    /\ IF seal.st = "err"
       THEN /\ seal' = NoSeal
            /\ UNCHANGED <<pend, batch, job, phase, segs, dmeta>>
       ELSE /\ batch' = pend /\ job' = pend /\ pend' = {} /\ phase' = "loop"
            /\ segs' = Publish(segs, seal)
            /\ dmeta' = IF seal.st = "ready" THEN Meta(segs') ELSE dmeta
            /\ seal' = IF seal.st = "ready" THEN NoSeal ELSE seal
    /\ UNCHANGED <<hbody, hsynced, nextId, pages, hcrashes, fails, lossy, miss>>

inLoop == phase \in {"loop", "open"}
noTail == IF segs = <<>> THEN TRUE ELSE TailOf(segs).sealed
needRoll == ~noTail /\ TailOf(segs).count >= MaxKeys

\* ensure_open_for: no segment yet, or the tail is sealed.
OpenFirst ==
    /\ inLoop /\ job # {} /\ noTail
    /\ segs' = Append(segs, OpenSegment(nextId, Min(job))) /\ nextId' = nextId + 1
    /\ dmeta' = Meta(segs')
    /\ UNCHANGED <<hbody, hsynced, pend, batch, job, phase, seal, pages, hcrashes, fails, lossy, miss>>

\* The chunk of the job inside the tail's span; count is the span it covers.
InsertChunk ==
    LET t == TailOf(segs)
        chunk == {k \in job : k < t.first + MaxKeys}
    IN  /\ inLoop /\ job # {} /\ ~noTail /\ ~needRoll
        /\ Min(job) >= t.first
        /\ segs' = [segs EXCEPT ![Len(segs)].rows = @ \cup chunk,
                                ![Len(segs)].count = Max({@, Max(chunk) - t.first + 1})]
        /\ job' = job \ chunk
        /\ UNCHANGED <<hbody, hsynced, pend, batch, phase, nextId, seal, dmeta, pages, hcrashes, fails, lossy, miss>>

\* roll_tail_background: wait for the previous seal and publish it, sync the
\* tail's pages, open the next tail, write the meta, start the sidecar.
Roll ==
    LET S == Publish(segs, seal)
        t == TailOf(S)
    IN  /\ inLoop /\ needRoll /\ seal.st \in {"none", "ready"}
        /\ pages' = [pages EXCEPT ![t.id] = t.rows]
        /\ segs' = Append(S, OpenSegment(nextId, t.first + t.count)) /\ nextId' = nextId + 1
        /\ dmeta' = Meta(segs')
        /\ seal' = [st |-> "run", id |-> t.id, first |-> t.first, count |-> t.count]
        /\ UNCHANGED <<hbody, hsynced, pend, batch, job, phase, hcrashes, fails, lossy, miss>>

\* The job is in: the meta is written and the drain joined.
DrainEnd ==
    /\ phase = "loop" /\ job = {} /\ ~needRoll
    /\ dmeta' = Meta(segs) /\ batch' = {} /\ phase' = "idle"
    /\ UNCHANGED <<hbody, hsynced, pend, job, segs, nextId, seal, pages, hcrashes, fails, lossy, miss>>

\* An IO fault in the loop, or the error of the previous seal: the whole
\* batch goes back to the queue.
DrainFails ==
    /\ phase = "loop"
    /\ \/ fails < HMaxFail /\ fails' = fails + 1 /\ UNCHANGED seal
       \/ needRoll /\ seal.st = "err" /\ seal' = NoSeal /\ UNCHANGED fails
    /\ pend' = pend \cup batch /\ batch' = {} /\ job' = {} /\ phase' = "idle"
    /\ UNCHANGED <<hbody, hsynced, segs, nextId, dmeta, pages, hcrashes, lossy, miss>>

\* The queue starts below the tail: "insert fk before segment".
Refused == inLoop /\ job # {} /\ ~noTail /\ ~needRoll /\ Min(job) < TailOf(segs).first
DrainRefused ==
    /\ Refused
    /\ pend' = pend \cup batch /\ batch' = {} /\ job' = {} /\ phase' = "idle"
    /\ UNCHANGED <<hbody, hsynced, segs, nextId, seal, dmeta, pages, hcrashes, fails, lossy, miss>>

\* collect_and_seal on the sidecar: keys from txid.body, files synced.
SealRuns ==
    /\ phase # "down" /\ seal.st = "run"
    /\ \/ seal' = [seal EXCEPT !.st = "ready"] /\ UNCHANGED fails
       \/ fails < HMaxFail /\ fails' = fails + 1 /\ seal' = [seal EXCEPT !.st = "err"]
    /\ UNCHANGED <<hbody, hsynced, pend, batch, job, phase, segs, nextId, dmeta, pages, hcrashes, lossy, miss>>

\* flush: sync every open table, wait for the seal, write the meta.
HeadFlush ==
    /\ phase = "idle" /\ seal.st \in {"none", "ready"} /\ segs # <<>>
    /\ pages' = [i \in DOMAIN pages |->
                   IF \E k \in 1..Len(segs) : segs[k].id = i /\ ~segs[k].sealed
                   THEN (CHOOSE s \in Range(segs) : s.id = i).rows ELSE pages[i]]
    /\ segs' = Publish(segs, seal) /\ seal' = NoSeal /\ dmeta' = Meta(segs')
    /\ UNCHANGED <<hbody, hsynced, pend, batch, job, phase, nextId, hcrashes, fails, lossy, miss>>

\* The process dies: RAM is gone, the page cache is not.  On a power loss the
\* open tables keep their synced rows and any others, and the bodies may be
\* cut to any length past the synced one (Class A repair truncates them).
Dies(keep, n) ==
    /\ phase # "down" /\ hcrashes < HMaxCrash /\ hcrashes' = hcrashes + 1
    /\ phase' = "down" /\ pend' = {} /\ batch' = {} /\ job' = {} /\ seal' = NoSeal
    /\ hbody' = n
    /\ segs' = [i \in 1..Len(segs) |-> IF segs[i].sealed THEN segs[i]
                  ELSE [segs[i] EXCEPT !.rows = (segs[i].rows \cap keep) \cup (pages[segs[i].id] \cap segs[i].rows)]]
    /\ miss' = [k |-> 0, bound |-> 0, says |-> ""]
    /\ UNCHANGED <<nextId, dmeta, pages, fails>>
HeadCrash == Dies(1..HMaxFk, hbody) /\ UNCHANGED <<hsynced, lossy>>
PowerLoss == \E keep \in SUBSET (1..hbody), n \in hsynced..hbody :
                Dies(keep, n) /\ lossy' = TRUE /\ hsynced' = n

\* Segments as open reads them: the meta's, with the rows found in the files.
FromMeta ==
    [i \in 1..Len(dmeta) |->
       LET d == dmeta[i]
           file == {k \in 1..Len(segs) : segs[k].id = d.id}
           rows == IF d.sealed THEN Span(d) ELSE UNION {segs[k].rows : k \in file}
       IN  [id |-> d.id, first |-> d.first, count |-> d.count, sealed |-> d.sealed, rows |-> rows]]
Gapless(S) == \A i \in 1..Len(S) - 1 : S[i+1].first = S[i].first + S[i].count
NonTails(S) == {i \in 1..Len(S) - 1 : ~S[i].sealed}

\* rebuild_head_from_bodies: sealed ranges and an empty tail.
Rebuilt ==
    LET m == (hbody + RebuildKeys - 1) \div RebuildKeys
        Cut(i) == LET f == (i - 1) * RebuildKeys + 1
                      c == Min({RebuildKeys, hbody - f + 1})
                  IN  [id |-> i - 1, first |-> f, count |-> c, sealed |-> TRUE, rows |-> f .. f + c - 1]
    IN  IF hbody = 0 THEN <<>> ELSE Append([i \in 1..m |-> Cut(i)], OpenSegment(m, hbody + 1))

\* Mutated form: the rows past the meta are not put back.
OpenStoreNoBackfill ==
    LET S == FromMeta
        bad == ~Gapless(S) \/ Cardinality(NonTails(S)) > 1 \/ last_inserted(S) > hbody
               \/ (hbody > 0 /\ last_inserted(S) = 0)
    IN  /\ phase = "down"
        /\ IF bad
           THEN /\ segs' = Rebuilt /\ dmeta' = Meta(Rebuilt) /\ nextId' = Len(Rebuilt)
                /\ pages' = [i \in DOMAIN pages |-> {}]
           ELSE /\ segs' = S /\ nextId' = IF S = <<>> THEN 1 ELSE Max({S[i].id : i \in 1..Len(S)}) + 1
                /\ UNCHANGED <<dmeta, pages>>
        /\ phase' = "open" /\ job' = {}
        /\ UNCHANGED <<hbody, hsynced, pend, batch, seal, hcrashes, fails, lossy, miss>>

\* open_seqsigwit: read the meta; unreadable, ahead of the bodies or empty
\* means rebuild; otherwise the missing tail is backfilled by the same loop.
OpenStore ==
    LET S == FromMeta
        bad == ~Gapless(S) \/ Cardinality(NonTails(S)) > 1 \/ last_inserted(S) > hbody
               \/ (hbody > 0 /\ last_inserted(S) = 0)
    IN  /\ phase = "down"
        /\ IF bad
           THEN /\ segs' = Rebuilt /\ dmeta' = Meta(Rebuilt) /\ nextId' = Len(Rebuilt)
                /\ job' = {} /\ pages' = [i \in DOMAIN pages |-> {}]
           ELSE /\ segs' = S /\ nextId' = IF S = <<>> THEN 1 ELSE Max({S[i].id : i \in 1..Len(S)}) + 1
                /\ job' = last_inserted(S) + 1 .. hbody
                /\ UNCHANGED <<dmeta, pages>>
        /\ phase' = "open"
        /\ UNCHANGED <<hbody, hsynced, pend, batch, seal, hcrashes, fails, lossy, miss>>

\* The rest of open: flush, then seal what a crash left unsealed behind the
\* tail, from the bodies.
OpenDone ==
    LET S == Publish(segs, seal)
        done == [i \in 1..Len(S) |-> IF i \in NonTails(S) /\ S[i].count > 0
                                     THEN [S[i] EXCEPT !.sealed = TRUE, !.rows = Span(S[i])] ELSE S[i]]
    IN  /\ phase = "open" /\ job = {} /\ ~needRoll /\ seal.st \in {"none", "ready"}
        /\ segs' = done /\ dmeta' = Meta(done) /\ seal' = NoSeal /\ phase' = "idle"
        /\ UNCHANGED <<hbody, hsynced, pend, batch, job, nextId, pages, hcrashes, fails, lossy, miss>>

\* parent_missing_from_chain on the load thread, for a connected parent k:
\* the bound is read first, then the head is probed; a miss at or above the
\* bound is looked for in txid.body, below it the block is blamed.
LookupParent ==
    /\ phase \in {"idle", "loop"} /\ miss.k = 0
    /\ \E k \in (1..hbody) \ (pend \cup batch) :
         miss' = [k |-> k, bound |-> unsynced_first(segs), says |-> ""]
    /\ UNCHANGED indexVars
ProbeParent ==
    /\ phase \in {"idle", "loop"} /\ miss.k # 0
    /\ miss' = IF miss.k \in Found THEN [k |-> 0, bound |-> 0, says |-> "found"]
               ELSE IF miss.k >= miss.bound THEN [k |-> 0, bound |-> 0, says |-> "scanned"]
               ELSE [k |-> 0, bound |-> 0, says |-> "missing"]
    /\ UNCHANGED indexVars

HeadNext ==
    \/ AppendCreate \/ SyncBodies \/ DrainBegin \/ OpenFirst \/ InsertChunk \/ Roll \/ DrainEnd
    \/ DrainFails \/ DrainRefused \/ SealRuns \/ HeadFlush \/ HeadCrash \/ PowerLoss \/ OpenStore \/ OpenDone
    \/ LookupParent \/ ProbeParent

HeadSpec == HeadInit /\ [][HeadNext]_headVars

-----------------------------------------------------------------------------
\* Without a power loss every create that left the queue is found: in the
\* tail, in the segment being sealed, in a sealed one, and after a crash at
\* any point once the store is open.
DrainedAreFound ==
    ~lossy /\ phase = "idle" => (1..hbody) \ pend \subseteq Found

\* After a power loss the head may miss creates, but a look-up never takes a
\* connected parent for missing, whatever the write thread and the sidecar
\* publish between its read of the bound and its probe.
NoFalseBlame == miss.says # "missing"

\* Until a seal fails, the meta a crash would leave behind can be opened as it
\* is: its segments join without a gap, at most one behind the tail is
\* unsealed.  Open restores this before the next roll, also after a crash in
\* the middle of a seal.
MetaOpens ==
    Gapless(dmeta) /\ (phase \in {"idle", "loop"} /\ fails = 0 => Cardinality(NonTails(dmeta)) <= 1)

\* The head finds what was drained into it, blames no connected parent, and
\* leaves a meta that opens.
HeadSafe == DrainedAreFound /\ NoFalseBlame /\ MetaOpens
=============================================================================
