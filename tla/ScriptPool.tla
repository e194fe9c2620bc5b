----------------------------- MODULE ScriptPool -----------------------------
(***************************************************************************)
(* The script-check pool (rbitcoin-consensus/src/script_pool.rs): waves of *)
(* jobs that worker threads steal in chunks, detached jobs, the idle list  *)
(* with its epoch and park permits, and the publisher that waits for its   *)
(* wave, takes the first error and frees the job list.                     *)
(*                                                                         *)
(* A step is one atomic operation or one critical section of the code.  A  *)
(* job ends in one of SpOutcomes: it passes, it raises a warn-and-apply    *)
(* fault, it raises a fault that stops the wave, or it panics.             *)
(***************************************************************************)
EXTENDS Naturals, SequencesExt

CONSTANTS SpWorkers,   \* the rbtc-scripts threads
          SpPubs,      \* publishers, each with one wave
          SpCpu,       \* callers of run_cpu
          SpJoin,      \* callers of run_detached_join
          SpN,         \* jobs of a wave
          SpChunk,     \* jobs per steal
          SpKeep,      \* keep_faults
          SpOutcomes,  \* what a job may end in
          SpScenes     \* which threads take part: a spawn may fail

VARIABLES spWave,      \* Wave, one per publisher
          spSnap,      \* WAVES and its published copy
          spJobs,      \* ScriptWorkers::jobs: the clients queued
          spEpoch,     \* ScriptWorkers::epoch
          spIdle,      \* IDLE_THREADS
          spPermit,    \* workers holding a park permit
          spW,         \* the worker threads
          spC          \* publishers and clients

spVars == <<spWave, spSnap, spJobs, spEpoch, spIdle, spPermit, spW, spC>>

SpClients == SpCpu \cup SpJoin

(* A wave before start_wave. *)
NewWave ==
  [st |-> "none", next |-> 1, in |-> 0, failed |-> FALSE, err |-> "none",
   keep |-> SpKeep, faults |-> {}, ran |-> [i \in 1..SpN |-> 0]]

(* A worker at the top of its loop. *)
AtTop == [at |-> "epoch", sub |-> "load", todo |-> << >>, wave |-> "none",
          lo |-> 1, hi |-> 0, ran |-> FALSE, epoch |-> 0]

SpInit == \E scene \in SpScenes :
  /\ spWave = [p \in SpPubs |-> NewWave]
  /\ spSnap = << >>
  /\ spJobs = << >>
  /\ spEpoch = 0
  /\ spIdle = << >>
  /\ spPermit = {}
  /\ spW = [w \in SpWorkers |-> IF w \in scene THEN AtTop ELSE [AtTop EXCEPT !.at = "dead"]]
  /\ spC = [c \in SpPubs \cup SpClients |->
              [pc |-> IF c \in scene THEN "start" ELSE "end", wakes |-> 0, result |-> "none"]]

has_unclaimed(v) == ~spWave[v].failed /\ spWave[v].next <= SpN

(* Both counters read: every chunk claimed, or the wave failed, and no     *)
(* worker inside.                                                          *)
is_complete(v) ==
  /\ spWave[v].next > SpN \/ spWave[v].failed
  /\ spWave[v].in = 0

unclaimed_chunks(v) ==
  IF has_unclaimed(v) THEN (SpN + 1 - spWave[v].next + SpChunk - 1) \div SpChunk ELSE 0

work_pending == spJobs # << >> \/ \E i \in 1..Len(spSnap) : has_unclaimed(spSnap[i])

queued_wake_count ==
  FoldLeft(LAMBDA n, v : n + unclaimed_chunks(v), Len(spJobs), spSnap)

Goes(w, rec) == spW' = [spW EXCEPT ![w] = rec]

(* The stages of one turn of the worker loop: the epoch is read; a steal;  *)
(* a detached job; then the way to park.  The tries before the epoch is    *)
(* read, the steal after the detached job and the second look of           *)
(* park_if_still_idle are these steps once more and are not repeated.      *)
Stages == <<"epoch", "steal", "job", "compare", "register", "check", "park">>

NextStage(at) ==
  LET i == CHOOSE i \in 1..Len(Stages) : Stages[i] = at IN Stages[i + 1]

OnTo(w) ==
  [AtTop EXCEPT !.at = NextStage(spW[w].at), !.epoch = spW[w].epoch]

Stealing(w, sub) ==
  spW[w].at = "steal" /\ spW[w].sub = sub

(* steal_chunk loads the published list once and tries its waves in order; *)
(* a failed wave is passed over.                                           *)
TryWaves(w, waves) ==
  LET open == SelectSeq(waves, LAMBDA v : ~spWave[v].failed)
  IN  IF open = << >> THEN OnTo(w)
      ELSE [spW[w] EXCEPT !.sub = "enter", !.wave = Head(open), !.todo = Tail(open)]

steal_chunk(w) ==
  /\ Stealing(w, "load")
  /\ Goes(w, TryWaves(w, spSnap))
  /\ UNCHANGED <<spWave, spSnap, spJobs, spEpoch, spIdle, spPermit, spC>>

(* in_wave is counted before next is taken. *)
StealEnter(w) ==
  /\ Stealing(w, "enter")
  /\ spWave' = [spWave EXCEPT ![spW[w].wave].in = @ + 1]
  /\ Goes(w, [spW[w] EXCEPT !.sub = "claim"])
  /\ UNCHANGED <<spSnap, spJobs, spEpoch, spIdle, spPermit, spC>>

ChunkEnd(i) == IF i + SpChunk - 1 <= SpN THEN i + SpChunk - 1 ELSE SpN

claim_chunk(w) ==
  /\ Stealing(w, "claim")
  /\ \E v \in {spW[w].wave} :
       IF spWave[v].failed
       THEN Goes(w, [spW[w] EXCEPT !.sub = "leave"]) /\ UNCHANGED spWave
       ELSE /\ spWave' = [spWave EXCEPT ![v].next = IF @ > SpN THEN @ ELSE @ + SpChunk]
            /\ Goes(w, IF spWave[v].next > SpN THEN [spW[w] EXCEPT !.sub = "leave"]
                       ELSE [spW[w] EXCEPT !.sub = "run", !.lo = spWave[v].next,
                                           !.hi = ChunkEnd(spWave[v].next), !.ran = TRUE])
  /\ UNCHANGED <<spSnap, spJobs, spEpoch, spIdle, spPermit, spC>>

(* What a job's outcome does to the wave: a warning is kept if the wave    *)
(* keeps faults; any other error fails the wave, and the first is kept.    *)
Failing(wave, i, out) ==
  [wave EXCEPT !.ran[i] = @ + 1, !.failed = TRUE,
               !.err = IF @ = "none" THEN out ELSE @]

Applied(wave, i, out) ==
  CASE out = "ok" -> [wave EXCEPT !.ran[i] = @ + 1]
    [] out = "warn" /\ wave.keep ->
         [wave EXCEPT !.ran[i] = @ + 1, !.faults = @ \cup {i}]
    [] OTHER -> Failing(wave, i, out)

Stops(wave, out) == ~(out = "ok" \/ (out = "warn" /\ wave.keep))

(* run_chunk: the wave's failed flag ends the chunk before each job. *)
run_chunk(w) ==
  /\ Stealing(w, "run")
  /\ Goes(w, IF spW[w].lo > spW[w].hi \/ spWave[spW[w].wave].failed
             THEN [spW[w] EXCEPT !.sub = "leave", !.lo = 1, !.hi = 0]
             ELSE [spW[w] EXCEPT !.sub = "apply"])
  /\ UNCHANGED <<spWave, spSnap, spJobs, spEpoch, spIdle, spPermit, spC>>

(* The job reads the publisher's list and ends. *)
ApplyJob(w) ==
  /\ Stealing(w, "apply")
  /\ \E v \in {spW[w].wave}, out \in SpOutcomes :
       /\ spWave' = [spWave EXCEPT ![v] = Applied(@, spW[w].lo, out)]
       /\ Goes(w, IF Stops(spWave[v], out)
                  THEN [spW[w] EXCEPT !.sub = "leave", !.lo = 1, !.hi = 0]
                  ELSE [spW[w] EXCEPT !.sub = "run", !.lo = @ + 1])
  /\ UNCHANGED <<spSnap, spJobs, spEpoch, spIdle, spPermit, spC>>

(* InWave dropped, on every path out of a claim. *)
StealLeave(w) ==
  /\ Stealing(w, "leave")
  /\ spWave' = [spWave EXCEPT ![spW[w].wave].in = @ - 1]
  /\ Goes(w, [spW[w] EXCEPT !.sub = "notify"])
  /\ UNCHANGED <<spSnap, spJobs, spEpoch, spIdle, spPermit, spC>>

(* A chunk that ran ends the turn; an empty claim tries the next wave. *)
AfterClaim(w) ==
  IF spW[w].ran THEN AtTop ELSE TryWaves(w, spW[w].todo)

notify_if_complete(w) ==
  /\ Stealing(w, "notify")
  /\ \E v \in {spW[w].wave} :
       spC' = IF is_complete(v) /\ spC[v].pc = "asleep"
              THEN [spC EXCEPT ![v].pc = "wait"] ELSE spC
  /\ Goes(w, AfterClaim(w))
  /\ UNCHANGED <<spWave, spSnap, spJobs, spEpoch, spIdle, spPermit>>

(* A detached job: its client gets the value, or nothing when it panicked. *)
(* run_cpu catches the panic; a panic under run_detached_join ends the     *)
(* thread.                                                                 *)
take_detached_job(w) ==
  /\ spW[w].at = "job"
  /\ IF spJobs = << >>
     THEN Goes(w, OnTo(w)) /\ UNCHANGED <<spJobs, spC>>
     ELSE \E out \in SpOutcomes \cap {"ok", "panic"} :
            /\ spJobs' = Tail(spJobs)
            /\ spC' = [spC EXCEPT ![Head(spJobs)].result = out]
            /\ Goes(w, IF out = "panic" /\ Head(spJobs) \in SpJoin
                       THEN [AtTop EXCEPT !.at = "dead"] ELSE AtTop)
  /\ UNCHANGED <<spWave, spSnap, spEpoch, spIdle, spPermit>>

ReadEpoch(w) ==
  /\ spW[w].at = "epoch"
  /\ Goes(w, [OnTo(w) EXCEPT !.epoch = spEpoch])
  /\ UNCHANGED <<spWave, spSnap, spJobs, spEpoch, spIdle, spPermit, spC>>

CompareEpoch(w) ==
  /\ spW[w].at = "compare"
  /\ Goes(w, IF spW[w].epoch # spEpoch THEN AtTop ELSE OnTo(w))
  /\ UNCHANGED <<spWave, spSnap, spJobs, spEpoch, spIdle, spPermit, spC>>

register_idle(w) ==
  /\ spW[w].at = "register"
  /\ spIdle' = IF Contains(spIdle, w) THEN spIdle ELSE Append(spIdle, w)
  /\ Goes(w, OnTo(w))
  /\ UNCHANGED <<spWave, spSnap, spJobs, spEpoch, spPermit, spC>>

Unregistered(w) == SelectSeq(spIdle, LAMBDA x : x # w)

Missed(w) == work_pending \/ spW[w].epoch # spEpoch

park_if_still_idle(w) ==
  /\ spW[w].at = "check"
  /\ IF Missed(w) THEN Goes(w, AtTop) /\ spIdle' = Unregistered(w)
     ELSE Goes(w, OnTo(w)) /\ UNCHANGED spIdle
  /\ UNCHANGED <<spWave, spSnap, spJobs, spEpoch, spPermit, spC>>

(* park returns when there is a permit, and uses it up. *)
Unpark(w) ==
  /\ spW[w].at = "park" /\ w \in spPermit
  /\ spPermit' = spPermit \ {w}
  /\ spIdle' = Unregistered(w)
  /\ Goes(w, AtTop)
  /\ UNCHANGED <<spWave, spSnap, spJobs, spEpoch, spC>>

At(c, pc) == spC[c].pc = pc

Turns(c, pc) == [spC EXCEPT ![c].pc = pc]

(* The wave joins the published list. *)
start_wave(c) ==
  /\ c \in SpPubs /\ At(c, "start")
  /\ spWave' = [spWave EXCEPT ![c].st = "live"]
  /\ spSnap' = Append(spSnap, c)
  /\ spC' = Turns(c, "epoch")
  /\ UNCHANGED <<spJobs, spEpoch, spIdle, spPermit, spW>>

spawn_detached(c) ==
  /\ c \in SpClients /\ At(c, "start")
  /\ spJobs' = Append(spJobs, c)
  /\ spC' = Turns(c, "epoch")
  /\ UNCHANGED <<spWave, spSnap, spEpoch, spIdle, spPermit, spW>>

(* wake_steal_workers: the epoch, the count of what is queued, and that    *)
(* many idle threads drained and unparked.                                 *)
BumpEpoch(c) ==
  /\ At(c, "epoch")
  /\ spEpoch' = spEpoch + 1
  /\ spC' = Turns(c, "count")
  /\ UNCHANGED <<spWave, spSnap, spJobs, spIdle, spPermit, spW>>

CountQueued(c) ==
  /\ At(c, "count")
  /\ spC' = [spC EXCEPT ![c].wakes = queued_wake_count, ![c].pc = "unpark"]
  /\ UNCHANGED <<spWave, spSnap, spJobs, spEpoch, spIdle, spPermit, spW>>

unpark_idle(c) ==
  /\ At(c, "unpark")
  /\ \E n \in {IF spC[c].wakes <= Len(spIdle) THEN spC[c].wakes ELSE Len(spIdle)} :
       /\ spPermit' = spPermit \cup ToSet(SubSeq(spIdle, 1, n))
       /\ spIdle' = SubSeq(spIdle, n + 1, Len(spIdle))
  /\ spC' = [spC EXCEPT ![c].wakes = 0, ![c].pc = IF c \in SpPubs THEN "wait" ELSE "await"]
  /\ UNCHANGED <<spWave, spSnap, spJobs, spEpoch, spW>>

(* The reply of a detached job arrives; a dropped reply is an answer too. *)
Answer(c) ==
  /\ At(c, "await") /\ spC[c].result # "none"
  /\ spC' = Turns(c, "end")
  /\ UNCHANGED <<spWave, spSnap, spJobs, spEpoch, spIdle, spPermit, spW>>

(* wait_done holds the done lock from the test to the wait. *)
wait_doneOnFail(c) ==
  /\ c \in SpPubs /\ At(c, "wait")
  /\ spC' = Turns(c, IF is_complete(c) \/ spWave[c].failed THEN "finish" ELSE "asleep")
  /\ UNCHANGED <<spWave, spSnap, spJobs, spEpoch, spIdle, spPermit, spW>>
wait_done(c) ==
  /\ c \in SpPubs /\ At(c, "wait")
  /\ spC' = Turns(c, IF is_complete(c) THEN "finish" ELSE "asleep")
  /\ UNCHANGED <<spWave, spSnap, spJobs, spEpoch, spIdle, spPermit, spW>>

(* finish takes the error; dropping the owner takes the wave off the list  *)
(* and frees its jobs.                                                     *)
finish(c) ==
  /\ c \in SpPubs /\ At(c, "finish")
  /\ spC' = [spC EXCEPT ![c].pc = "drop",
                        ![c].result = IF spWave[c].err = "none" THEN "ok" ELSE spWave[c].err]
  /\ UNCHANGED <<spWave, spSnap, spJobs, spEpoch, spIdle, spPermit, spW>>

unpublish_fg(c) ==
  /\ c \in SpPubs /\ At(c, "drop")
  /\ spSnap' = SelectSeq(spSnap, LAMBDA v : v # c)
  /\ spWave' = [spWave EXCEPT ![c] = [NewWave EXCEPT !.st = "freed", !.next = SpN + 1,
                                                          !.in = spWave[c].in,
                                                          !.failed = spWave[c].failed]]
  /\ spC' = Turns(c, "end")
  /\ UNCHANGED <<spJobs, spEpoch, spIdle, spPermit, spW>>

SpNext ==
  \/ \E w \in SpWorkers :
       \/ steal_chunk(w) \/ StealEnter(w) \/ claim_chunk(w)
       \/ run_chunk(w) \/ ApplyJob(w) \/ StealLeave(w) \/ notify_if_complete(w)
       \/ take_detached_job(w) \/ ReadEpoch(w) \/ CompareEpoch(w)
       \/ register_idle(w) \/ park_if_still_idle(w) \/ Unpark(w)
  \/ \E c \in SpPubs \cup SpClients :
       \/ start_wave(c) \/ spawn_detached(c) \/ BumpEpoch(c) \/ CountQueued(c)
       \/ unpark_idle(c) \/ Answer(c) \/ wait_done(c) \/ finish(c) \/ unpublish_fg(c)

(***************************************************************************)
(* Properties                                                              *)
(***************************************************************************)

(* A worker applies a job only while the publisher still owns the job      *)
(* list: the unsafe dereference in Apply never reads a freed box, however  *)
(* claims, failures and the owner's drop interleave.                       *)
JobsAlive ==
  \A w \in SpWorkers :
    Stealing(w, "apply") => spWave[spW[w].wave].st = "live"

(* When finish returns Ok every job of the wave ran exactly once; when it  *)
(* returns an error no job ran twice.                                      *)
WaveDone ==
  \A c \in SpPubs :
    spC[c].pc = "drop" =>
      /\ \A i \in 1..SpN : spWave[c].ran[i] <= 1
      /\ spC[c].result = "ok" => \A i \in 1..SpN : spWave[c].ran[i] = 1

Sleeps(w) == spW[w].at = "dead" \/ (spW[w].at = "park" /\ w \notin spPermit)

(* No wakeup is lost: once every publisher is through wake_steal_workers,  *)
(* the workers are not all asleep while a chunk or a detached job waits.   *)
NotStranded ==
  ((\A w \in SpWorkers : Sleeps(w))
    /\ (\A c \in SpPubs \cup SpClients : spC[c].pc \notin {"epoch", "count", "unpark"}))
  => ~work_pending

(* The publisher sleeps on a complete wave only while the worker that      *)
(* completed it is on its way to notify: an empty claim that comes last    *)
(* wakes it too.                                                           *)
PublisherWoken ==
  \A c \in SpPubs :
    (spC[c].pc = "asleep" /\ is_complete(c)) =>
      \E w \in SpWorkers : Stealing(w, "notify") /\ spW[w].wave = c

(* Jobs run once, on live memory, and nobody sleeps through a wake-up. *)
PoolSafe == JobsAlive /\ WaveDone /\ NotStranded /\ PublisherWoken
====
