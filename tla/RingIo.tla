------------------------------- MODULE RingIo -------------------------------
(***************************************************************************)
(* The completion session one thread uses for bulk reads and for the       *)
(* read-modify-write of spent.body pages (uring_session, bulk_io,          *)
(* spend_annotate_uring), on io_uring or on the worker pool.               *)
(*                                                                         *)
(* A submitted operation owns its buffer until its completion is           *)
(* harvested.  Completions come in any order; an operation may fail or be  *)
(* short, and the ring may lose a completion, repeat an old one, overflow  *)
(* or refuse an enter.  A machine that fails drains before its frame, and  *)
(* with it the buffers, goes; what cannot be drained aborts the process.   *)
(*                                                                         *)
(* A byte of spent.body is the set of spenders of the slot it belongs to.  *)
(***************************************************************************)
EXTENDS Integers, Sequences, FiniteSets, SequencesExt

CONSTANTS RgBackends,  \* subset of {"uring", "pool"}
          RgJobs,      \* what the thread may be asked: records [kind, edges]
          RgRounds,    \* how many jobs it runs
          RgPub,       \* published length of spent.body
          RgPage, RgMeta, RgHeader,   \* page, slot and file header length
          RgEntries,   \* submission queue depth
          RgSlots,     \* page buffers of the annotate machine (MAX_SLOTS)
          RgEpochs,    \* the epoch wraps here
          RgIoFaults, RgRingFaults    \* how many of each kind may happen

VARIABLES rgBackend,
          rgDisk,      \* spent.body: byte -> spenders
          rgBefore,    \* rgDisk when the current job began
          rgQ,         \* operations the kernel (or a worker) still owns
          rgCq,        \* completions not harvested yet
          rgDone,      \* user data already completed on this ring
          rgSess,      \* [pending, epoch, poisoned]
          rgPc, rgJob, rgM,
          rgOk,        \* how the machine will return
          rgRound, rgIo, rgRing

rgVars == <<rgBackend, rgDisk, rgBefore, rgQ, rgCq, rgDone, rgSess, rgPc, rgJob, rgM,
            rgOk, rgRound, rgIo, rgRing>>

-----------------------------------------------------------------------------
(* Pages of spent.body. *)

Offsets == 0..(RgPub - 1)
spent_meta_page_span(abs) ==
  [lo |-> (abs \div RgPage) * RgPage,
   hi |-> ((abs + RgMeta - 1) \div RgPage) * RgPage + RgPage]
clip_spent_page_window(lo, hi) ==
  [off |-> Max({lo, RgHeader}), end |-> Min({hi, RgPub})]

\* Slots in order; a slot that reaches into the group's last page joins it.
JoinPage(groups, e, span) ==
  IF groups # <<>> /\ span.lo < Last(groups).hi
  THEN Append(Front(groups), [Last(groups) EXCEPT !.hi = Max({@, span.hi}), !.edges = @ \cup {e}])
  ELSE Append(groups, [lo |-> span.lo, hi |-> span.hi, edges |-> {e}])

group_writes_by_spent_page(edges) ==
  LET raw == FoldLeft(LAMBDA g, e : JoinPage(g, e, spent_meta_page_span(e.abs)), <<>>,
                      SetToSortSeq(edges, LAMBDA a, b : a.abs < b.abs))
  IN  [i \in 1..Len(raw) |->
        [off |-> clip_spent_page_window(raw[i].lo, raw[i].hi).off,
         end |-> clip_spent_page_window(raw[i].lo, raw[i].hi).end,
         edges |-> raw[i].edges]]

\* Edges past the published body are the caller's to fail on.
OutOfBounds(job) == {e \in job.edges : e.abs + RgMeta > RgPub}
PagesOf(job) ==
  IF job.kind = "pread" THEN SetToSortSeq(job.edges, LAMBDA a, b : a.off < b.off)
  ELSE group_writes_by_spent_page(job.edges \ OutOfBounds(job))

\* A slot that has the spender already is left alone; another joins its list.
decide_annotate(have, v) == have \cup {v}

poke_spent_page(buf, edges) ==
  [b \in DOMAIN buf |->
     LET at == {e \in edges : b \in e.abs..(e.abs + RgMeta - 1)}
     IN  IF at = {} THEN buf[b]
         ELSE decide_annotate(buf[b], (CHOOSE e \in at : TRUE).v)]

-----------------------------------------------------------------------------
(* The session. *)

NewSession == [pending |-> {}, epoch |-> 0, poisoned |-> FALSE]
pack_ud(kind, epoch, slot) == [kind |-> kind, epoch |-> epoch, slot |-> slot]
free_sq(pending) == RgEntries - Cardinality(pending)

begin_batch(sess) == [sess EXCEPT !.epoch = (@ + 1) % RgEpochs]

\* Completions that were asked for, once each; any other poisons.
Expected(pending, cq) == pending \cap {cq[i].ud : i \in 1..Len(cq)}
Unexpected(pending, cq) ==
  \E i \in 1..Len(cq) :
    cq[i].ud \notin pending \/ \E j \in 1..(i - 1) : cq[j].ud = cq[i].ud

-----------------------------------------------------------------------------
(* The machines: one buffer per page (or per read), read then write. *)

NoPage == [phase |-> "free"]
NoMachine == [pages |-> <<>>, slots |-> <<>>, todo |-> <<>>, cold |-> {}, res |-> <<>>, push |-> {}, err |-> FALSE]
Pages == rgM.pages
Width(job, pages) == IF job.kind = "pread" THEN Len(pages) ELSE Min({RgSlots, Len(pages)})

StartMachine(job, pages) ==
  [pages |-> pages,
   slots |-> [s \in 1..Width(job, pages) |-> NoPage],
   todo |-> [i \in 1..Len(pages) |-> i],
   cold |-> IF job.kind = "pread" THEN {} ELSE OutOfBounds(job),
   res |-> [i \in 1..Len(pages) |-> "unset"],
   push |-> {}, err |-> FALSE]

SlotFor(m, kind) ==
  IF kind = "pread" THEN {Head(m.todo)}
  ELSE {s \in DOMAIN m.slots : m.slots[s].phase = "free"}

ArmOne(m, kind, pages, epoch, room) ==
  IF m.err \/ m.todo = <<>> THEN m
  ELSE IF Cardinality(m.push) >= room \/ SlotFor(m, kind) = {} THEN m
  ELSE LET s == Min(SlotFor(m, kind))
           g == Head(m.todo)
       IN  [m EXCEPT !.todo = Tail(@),
                     !.slots[s] = [phase |-> "read", g |-> g,
                                   buf |-> [b \in pages[g].off..(pages[g].end - 1) |-> {}]],
                     !.push = @ \cup {[ud |-> pack_ud("read", epoch, s), off |-> pages[g].off,
                                       end |-> pages[g].end]}]

arm(m, kind, pages, epoch, room) ==
  FoldLeft(LAMBDA x, i : ArmOne(x, kind, pages, epoch, room), m, [i \in 1..Len(pages) |-> i])

\* A page was read: poke it and write it back, unless nothing changed (the
\* unknown path looks; the known path decided before).
ReadDone(m, s, kind, pages, epoch) ==
  LET st == m.slots[s]
      poked == poke_spent_page(st.buf, pages[st.g].edges)
  IN  IF kind = "unknown" /\ poked = st.buf THEN [m EXCEPT !.slots[s] = NoPage]
      ELSE [m EXCEPT !.slots[s] = [st EXCEPT !.phase = "write", !.buf = poked],
                     !.push = @ \cup {[ud |-> pack_ud("write", epoch, s),
                                       off |-> pages[st.g].off, end |-> pages[st.g].end]}]

PreadDone(m, c) ==
  [m EXCEPT !.res[c.ud.slot] = c.res, !.slots[c.ud.slot].phase = "read done"]

\* One completion.  A short or failed page ends the machine; a short or
\* failed bulk read is only that read's result.
OnCqe(m, c, kind, pages, epoch) ==
  IF m.err THEN m
  ELSE IF m.slots[c.ud.slot].phase # c.ud.kind THEN [m EXCEPT !.err = TRUE]
  ELSE IF kind = "pread" THEN PreadDone(m, c)
  ELSE IF c.res # "full" THEN [m EXCEPT !.err = TRUE, !.slots[c.ud.slot] = NoPage]
  ELSE IF c.ud.kind = "read" THEN ReadDone(m, c.ud.slot, kind, pages, epoch)
  ELSE [m EXCEPT !.slots[c.ud.slot] = NoPage]

OnCqes(m, cq, kind, pages, epoch) ==
  FoldLeft(LAMBDA x, c : OnCqe(x, c, kind, pages, epoch), m, cq)

-----------------------------------------------------------------------------
(* The kernel, or a pool worker. *)

Slice(op) == [b \in op.off..(op.end - 1) |-> rgDisk[b]]
Merge(disk, op, buf, end) ==
  [b \in Offsets |-> IF b \in op.off..(end - 1) THEN buf[b] ELSE disk[b]]

Post(op, res) ==
  /\ rgQ' = rgQ \ {op}
  /\ rgCq' = Append(rgCq, [ud |-> op.ud, res |-> res])
  /\ rgDone' = rgDone \cup {op.ud}

\* A short write leaves its first byte behind.
Complete(op, res) ==
  /\ res = "full" \/ rgIo > 0
  /\ Post(op, res)
  /\ rgIo' = IF res = "full" THEN rgIo ELSE rgIo - 1
  /\ IF op.ud.kind = "read" /\ res = "full"
     THEN rgM' = [rgM EXCEPT !.slots[op.ud.slot].buf = Slice(op)] /\ UNCHANGED rgDisk
     ELSE IF op.ud.kind = "write" /\ res # "err"
     THEN /\ rgDisk' = Merge(rgDisk, op, rgM.slots[op.ud.slot].buf,
                             IF res = "full" THEN op.end ELSE op.off + 1)
          /\ UNCHANGED rgM
     ELSE UNCHANGED <<rgM, rgDisk>>
  /\ UNCHANGED <<rgBackend, rgBefore, rgSess, rgPc, rgJob, rgOk, rgRound, rgRing>>

\* io_uring only: a completion that never comes, or comes again.
LoseCqe(op) ==
  /\ rgBackend = "uring" /\ rgRing > 0 /\ rgRing' = rgRing - 1
  /\ rgQ' = rgQ \ {op}
  /\ UNCHANGED <<rgBackend, rgDisk, rgBefore, rgCq, rgDone, rgSess, rgPc, rgJob, rgM, rgOk, rgRound, rgIo>>
RepeatCqe(ud) ==
  /\ rgBackend = "uring" /\ rgRing > 0 /\ rgRing' = rgRing - 1
  /\ rgCq' = Append(rgCq, [ud |-> ud, res |-> "full"])
  /\ UNCHANGED <<rgBackend, rgDisk, rgBefore, rgQ, rgDone, rgSess, rgPc, rgJob, rgM, rgOk, rgRound, rgIo>>

-----------------------------------------------------------------------------
(* The thread. *)

\* with_thread_local: a poisoned session was dropped; then begin_batch, and
\* the machine's first arm.
Begin(job) ==
  /\ rgPc = "idle" /\ rgRound < RgRounds
  /\ rgRound' = rgRound + 1
  /\ rgJob' = job /\ rgBefore' = rgDisk /\ rgOk' = TRUE
  /\ \E pages \in {PagesOf(job)}, sess \in {begin_batch(rgSess)} :
     \E m \in {arm(StartMachine(job, pages), job.kind, pages, sess.epoch, RgEntries)} :
       /\ rgM' = [m EXCEPT !.push = {}]
       /\ rgSess' = [sess EXCEPT !.pending = {op.ud : op \in m.push}]
       /\ rgQ' = rgQ \cup m.push
  /\ rgPc' = "run"
  /\ UNCHANGED <<rgBackend, rgDisk, rgCq, rgDone, rgIo, rgRing>>

\* The machine gives up: its guard drains before the buffers go.
GiveUp(sess) == rgPc' = "drain" /\ rgOk' = FALSE /\ rgSess' = sess

\* harvest_ready, the completions, then arm what fits.
Harvest ==
  /\ rgPc = "run"
  /\ IF Unexpected(rgSess.pending, rgCq)
     THEN /\ GiveUp([rgSess EXCEPT !.poisoned = TRUE,
                                   !.pending = @ \ Expected(@, rgCq)])
          /\ rgCq' = <<>> /\ UNCHANGED <<rgM, rgQ>>
     ELSE IF rgSess.pending = {}
     THEN rgPc' = "drain" /\ UNCHANGED <<rgOk, rgSess, rgCq, rgM, rgQ>>
     ELSE IF rgCq = <<>>
     THEN rgPc' = "wait" /\ UNCHANGED <<rgOk, rgSess, rgCq, rgM, rgQ>>
     ELSE \E left \in {rgSess.pending \ Expected(rgSess.pending, rgCq)},
             m \in {OnCqes(rgM, rgCq, rgJob.kind, Pages, rgSess.epoch)} :
          \E a \in {arm(m, rgJob.kind, Pages, rgSess.epoch, free_sq(left))} :
            /\ rgCq' = <<>>
            /\ rgM' = [a EXCEPT !.push = {}]
            /\ rgQ' = rgQ \cup a.push
            /\ rgSess' = [rgSess EXCEPT !.pending = left \cup {op.ud : op \in a.push}]
            /\ rgPc' = IF a.err THEN "drain" ELSE "run"
            /\ rgOk' = ~a.err
  /\ UNCHANGED <<rgBackend, rgDisk, rgBefore, rgDone, rgJob, rgRound, rgIo, rgRing>>

\* The overflow counter is read before the queue; what was in it is gone.
HarvestOverflow ==
  /\ rgPc = "run" /\ rgCq # <<>>
  /\ rgBackend = "uring" /\ rgRing > 0 /\ rgRing' = rgRing - 1
  /\ GiveUp([rgSess EXCEPT !.poisoned = TRUE]) /\ rgCq' = <<>>
  /\ UNCHANGED <<rgBackend, rgDisk, rgBefore, rgQ, rgDone, rgJob, rgM, rgRound, rgIo>>

\* submit_and_wait_one on the ring: a completion is there, or the window
\* passed and the wait goes on (no step).
WaitReady ==
  /\ rgPc = "wait" /\ rgCq # <<>>
  /\ rgPc' = "run"
  /\ UNCHANGED <<rgBackend, rgDisk, rgBefore, rgQ, rgCq, rgDone, rgSess, rgJob, rgM, rgOk, rgRound, rgIo, rgRing>>

\* The pool's wait ended without a completion in the queue; its lock is
\* released before the operations in flight are counted.
PoolTimeout ==
  /\ rgBackend = "pool" /\ rgPc = "wait" /\ rgCq = <<>>
  /\ rgPc' = "count"
  /\ UNCHANGED <<rgBackend, rgDisk, rgBefore, rgQ, rgCq, rgDone, rgSess, rgJob, rgM, rgOk, rgRound, rgIo, rgRing>>
PoolCount ==
  /\ rgPc = "count"
  /\ IF rgQ = {} THEN GiveUp([rgSess EXCEPT !.poisoned = TRUE])
     ELSE rgPc' = "wait" /\ UNCHANGED <<rgOk, rgSess>>
  /\ UNCHANGED <<rgBackend, rgDisk, rgBefore, rgQ, rgCq, rgDone, rgJob, rgM, rgRound, rgIo, rgRing>>

NothingComes == rgQ = {} /\ rgCq = <<>>

\* A bug: the clock only runs while nothing is pending.
WaitHardCapIdle ==
  /\ rgPc = "wait" /\ rgBackend = "uring" /\ NothingComes /\ rgSess.pending = {}
  /\ GiveUp([rgSess EXCEPT !.poisoned = TRUE])
  /\ UNCHANGED <<rgBackend, rgDisk, rgBefore, rgQ, rgCq, rgDone, rgJob, rgM, rgRound, rgIo, rgRing>>

\* The zero-completion clock reached the hard cap while waiting.
WaitHardCap ==
  /\ rgPc = "wait" /\ rgBackend = "uring" /\ NothingComes
  /\ GiveUp([rgSess EXCEPT !.poisoned = TRUE])
  /\ UNCHANGED <<rgBackend, rgDisk, rgBefore, rgQ, rgCq, rgDone, rgJob, rgM, rgRound, rgIo, rgRing>>
EnterFails ==
  /\ rgPc = "wait" /\ rgBackend = "uring" /\ rgCq = <<>>
  /\ rgRing > 0 /\ rgRing' = rgRing - 1
  /\ GiveUp([rgSess EXCEPT !.poisoned = TRUE])
  /\ UNCHANGED <<rgBackend, rgDisk, rgBefore, rgQ, rgCq, rgDone, rgJob, rgM, rgRound, rgIo>>

abort_uring_unusable ==
  /\ rgPc' = "abort"
  /\ UNCHANGED <<rgBackend, rgDisk, rgBefore, rgQ, rgCq, rgDone, rgSess, rgJob, rgM, rgOk, rgRound, rgIo>>

\* A panic with operations in flight cannot tell whose buffers are left.
Panic ==
  /\ rgPc = "run" /\ rgSess.pending # {}
  /\ rgRing > 0 /\ rgRing' = rgRing - 1
  /\ abort_uring_unusable

\* Where the frame ends: the buffers go, a poisoned ring is not kept.  A
\* failed job of decided writes, or of bulk reads, goes on without the ring.
Leave(ok, poisoned, pending) ==
  /\ rgPc' = IF ok THEN "idle"
             ELSE IF rgJob.kind = "unknown" THEN "failed" ELSE "fallback"
  /\ rgOk' = ok
  /\ rgM' = IF ok THEN rgM ELSE [rgM EXCEPT !.slots = [s \in DOMAIN @ |-> NoPage]]
  /\ rgSess' = IF poisoned THEN NewSession ELSE [rgSess EXCEPT !.pending = pending]
  /\ rgDone' = IF poisoned THEN {} ELSE rgDone
  /\ rgCq' = <<>>

\* A bug: an error is returned at once, with operations still in flight.
drain_allEarly ==
  /\ rgPc = "drain"
  /\ Leave(rgOk, rgSess.poisoned, rgSess.pending)
  /\ UNCHANGED <<rgBackend, rgDisk, rgBefore, rgQ, rgJob, rgRound, rgIo, rgRing>>

\* drain_all: wait for every completion.  One that was never asked for
\* poisons the ring, and aborts when others are still out.
drain_all ==
  /\ rgPc = "drain" /\ (rgCq # <<>> \/ rgSess.pending = {})
  /\ \E odd \in {Unexpected(rgSess.pending, rgCq)},
        left \in {rgSess.pending \ Expected(rgSess.pending, rgCq)} :
       IF left = {}
       THEN Leave(rgOk /\ (odd => rgJob.kind \in {"known", "unknown"}), rgSess.poisoned \/ odd, {}) /\ UNCHANGED <<rgQ>>
       ELSE /\ IF odd THEN rgPc' = "abort" ELSE UNCHANGED rgPc
            /\ rgSess' = [rgSess EXCEPT !.pending = left, !.poisoned = @ \/ odd]
            /\ rgCq' = <<>>
            /\ UNCHANGED <<rgOk, rgM, rgDone, rgQ>>
  /\ UNCHANGED <<rgBackend, rgDisk, rgBefore, rgJob, rgRound, rgIo, rgRing>>

\* Nothing more will come (or the enter fails): leftovers abort.
DrainHardCap ==
  /\ rgPc = "drain" /\ rgSess.pending # {} /\ NothingComes
  /\ UNCHANGED rgRing /\ abort_uring_unusable
DrainEnterFails ==
  /\ rgPc = "drain" /\ rgSess.pending # {} /\ rgBackend = "uring"
  /\ rgRing > 0 /\ rgRing' = rgRing - 1
  /\ abort_uring_unusable

\* The libc path: every page (or read) again, in order.  A page that cannot
\* be read or written is left cold, for the caller to fail on.
Fallback ==
  /\ rgPc = "fallback"
  /\ \E bad \in {{}} \cup (IF rgIo > 0 THEN {{i} : i \in 1..Len(Pages)} ELSE {}) :
       /\ rgIo' = IF bad = {} THEN rgIo ELSE rgIo - 1
       /\ IF rgJob.kind = "pread"
          THEN /\ rgM' = [rgM EXCEPT
                    !.res = [i \in DOMAIN @ |-> IF i \in bad THEN "err" ELSE "full"],
                    !.slots = [i \in DOMAIN @ |->
                      [phase |-> "read done", g |-> i, buf |-> Slice(Pages[i])]]]
               /\ UNCHANGED rgDisk
          ELSE /\ rgDisk' = FoldLeft(LAMBDA d, i :
                    Merge(d, Pages[i],
                      poke_spent_page([b \in Pages[i].off..(Pages[i].end - 1) |-> d[b]], Pages[i].edges),
                      Pages[i].end), rgDisk,
                    SelectSeq([i \in 1..Len(Pages) |-> i], LAMBDA i : i \notin bad))
               /\ rgM' = [rgM EXCEPT !.cold = OutOfBounds(rgJob) \cup UNION {Pages[i].edges : i \in bad}]
  /\ rgPc' = "idle" /\ rgOk' = TRUE
  /\ UNCHANGED <<rgBackend, rgBefore, rgQ, rgCq, rgDone, rgSess, rgJob, rgRound, rgRing>>

\* The unknown path returns its error; the caller looks again later.
Failed ==
  /\ rgPc = "failed" /\ rgPc' = "idle"
  /\ UNCHANGED <<rgBackend, rgDisk, rgBefore, rgQ, rgCq, rgDone, rgSess, rgJob, rgM, rgOk, rgRound, rgIo, rgRing>>

RgInit ==
  /\ rgBackend \in RgBackends
  /\ rgDisk = [b \in Offsets |-> {}] /\ rgBefore = rgDisk
  /\ rgQ = {} /\ rgCq = <<>> /\ rgDone = {}
  /\ rgSess = NewSession
  /\ rgPc = "idle" /\ rgJob = [kind |-> "pread", edges |-> {}] /\ rgM = NoMachine
  /\ rgOk = TRUE /\ rgRound = 0
  /\ rgIo = RgIoFaults /\ rgRing = RgRingFaults

KernelStep == \E op \in rgQ, res \in {"full", "short", "err"} : Complete(op, res)

ThreadStep ==
  \/ Harvest \/ WaitReady \/ PoolTimeout \/ PoolCount \/ WaitHardCap
  \/ drain_all \/ DrainHardCap \/ Fallback \/ Failed

RgNext ==
  /\ rgPc # "abort"
  /\ \/ \E job \in RgJobs : Begin(job)
     \/ KernelStep \/ ThreadStep
     \/ \E op \in rgQ : LoseCqe(op)
     \/ \E ud \in rgDone : RepeatCqe(ud)
     \/ HarvestOverflow \/ EnterFails \/ Panic \/ DrainEnterFails

RgSpec == RgInit /\ [][RgNext]_rgVars

-----------------------------------------------------------------------------
\* No operation in flight points into a buffer that is gone: the kernel never
\* reads or writes freed memory, whatever failed (drain_all: "use-after-free").
BuffersLive ==
  rgPc # "abort" =>
    /\ rgQ # {} => rgPc \in {"run", "wait", "count", "drain"}
    /\ \A op \in rgQ : rgM.slots[op.ud.slot].phase = op.ud.kind

AnnotateOver == rgPc = "idle" /\ rgRound > 0 /\ rgJob.kind # "pread"

SlotBytes(e) == e.abs..(e.abs + RgMeta - 1)

\* What an annotate job did to spent.body: when it returned its cold edges,
\* every other edge is there, over both bytes of its slot; when it failed it
\* may have done part of its work.  No byte of another slot changed, and no
\* spender that was there is lost, page writes, retries and short writes
\* notwithstanding.
AnnotatedExactly ==
  AnnotateOver =>
    \A b \in Offsets :
      LET sure == IF rgOk THEN {e \in rgJob.edges \ rgM.cold : b \in SlotBytes(e)} ELSE {}
          maybe == {e \in rgJob.edges : b \in SlotBytes(e)}
      IN  /\ rgBefore[b] \cup {e.v : e \in sure} \subseteq rgDisk[b]
          /\ rgDisk[b] \subseteq rgBefore[b] \cup {e.v : e \in maybe}

\* A bulk read reported full has the file's bytes in its buffer: a
\* completion of another wave, or of the ring before, never stands for it.
ReadsTrue ==
  rgPc = "idle" /\ rgRound > 0 /\ rgJob.kind = "pread" =>
    \A i \in 1..Len(Pages) :
      rgM.res[i] = "full" => rgM.slots[i].buf = Slice(Pages[i])

\* A failed or short operation never takes the process down: it aborts only
\* when the ring itself misbehaved or the thread panicked.
AbortOnlyOnRingFault == rgPc = "abort" => rgRing < RgRingFaults

\* Every job ends: it returns, or the process aborts.
JobEnds == (rgPc # "idle") ~> (rgPc \in {"idle", "abort"})

\* What a job on the ring did is what it reported, and no buffer is freed
\* under the kernel.
RingSafe ==
    /\ BuffersLive
    /\ AnnotatedExactly
    /\ ReadsTrue
    /\ AbortOnlyOnRingFault
=============================================================================
