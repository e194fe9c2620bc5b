------------------------------ MODULE TipLane ------------------------------
(***************************************************************************)
(* The tip-accept lane (rbitcoin-net/src/tip_accept.rs): one thread runs    *)
(* every tip connect, from a bounded queue.  Peer sessions hand it a job    *)
(* with try_send and park on a Notify when the queue is full; a session's   *)
(* future may be dropped at any await.  RPC threads block in send and on    *)
(* the result channel.  wait_idle and wait_current_job sleep on a condvar.  *)
(***************************************************************************)
EXTENDS Integers, Sequences, FiniteSets, SequencesExt

CONSTANTS
    TlAsync,    \* sessions (run_on_tip_accept_async), one job each
    TlSync,     \* blocking callers (run_on_tip_accept), one job each
    TlWaits,    \* callers of wait_current_job or wait_idle, one call each
    TlCap       \* QUEUE_CAP

VARIABLES
    tlQ,        \* the sync channel
    tlLane,     \* the lane thread: [at, job]
    tlN,        \* Inflight.n
    tlSend,     \* caller -> where it stands
    tlPark,     \* slot_freed's waiters, oldest first
    tlPermit,   \* slot_freed's stored permit
    tlCell,     \* caller -> [done, waker]: JobCell, or the result channel
    tlWait,     \* waiter -> [at, call, moved]; moved: gen is no longer the snapshot
    tlMu,       \* holder of Inflight.mu, or "none"
    tlRan,      \* history: caller -> times its job ran
    tlOwes      \* history: waiters that called while a job ran that still runs

tlVars == <<tlQ, tlLane, tlN, tlSend, tlPark, tlPermit, tlCell, tlWait, tlMu, tlRan, tlOwes>>

Callers == TlAsync \cup TlSync
LaneFree == [at |-> "recv", job |-> "none"]

-----------------------------------------------------------------------------
(* tokio's Notify, as the lane uses it.                                     *)

\* notify_one: wake the oldest waiter, or keep one permit.
Woken(send, park) ==
    IF park = <<>> THEN send
    ELSE [send EXCEPT ![Head(park)] = IF @ = "enabled" THEN "early" ELSE "woken"]
notify_one(send) ==
    /\ tlSend' = Woken(send, tlPark)
    /\ tlPark' = IF tlPark = <<>> THEN tlPark ELSE Tail(tlPark)
    /\ tlPermit' = (tlPermit \/ tlPark = <<>>)

-----------------------------------------------------------------------------
(* Sessions.                                                               *)

\* poll_try_enqueue.  Sent: note_async_enqueued wakes one parked sender.
try_enqueue(s, full) ==
    IF Len(tlQ) < TlCap
    THEN tlQ' = Append(tlQ, s) /\ notify_one([tlSend EXCEPT ![s] = "join"])
    ELSE tlSend' = [tlSend EXCEPT ![s] = full] /\ UNCHANGED <<tlQ, tlPark, tlPermit>>

\* The first try of the loop.
FirstTry(s) ==
    /\ tlSend[s] \in {"new", "again"} /\ s \in TlAsync
    /\ try_enqueue(s, "full")
    /\ UNCHANGED <<tlLane, tlN, tlCell, tlWait, tlMu, tlRan, tlOwes>>

\* Notified::enable: consume the permit and loop, or register.
Enable(s) ==
    /\ tlSend[s] = "full"
    /\ IF tlPermit
       THEN /\ tlSend' = [tlSend EXCEPT ![s] = "again"]
            /\ tlPermit' = FALSE /\ UNCHANGED tlPark
       ELSE /\ tlSend' = [tlSend EXCEPT ![s] = "enabled"]
            /\ tlPark' = Append(tlPark, s) /\ UNCHANGED tlPermit
    /\ UNCHANGED <<tlQ, tlLane, tlN, tlCell, tlWait, tlMu, tlRan, tlOwes>>

\* Every other sender tries again before it sleeps.  A sender that is sent
\* drops its registration; a notification it already had goes to the next.
SecondTry(s) ==
    /\ tlSend[s] = "enabled"
    /\ IF Len(tlQ) < TlCap
       THEN LET rest == SelectSeq(tlPark, LAMBDA x : x # s) IN
            /\ tlQ' = Append(tlQ, s)
            /\ tlSend' = Woken([tlSend EXCEPT ![s] = "join"], rest)
            /\ tlPark' = IF rest = <<>> THEN rest ELSE Tail(rest)
            /\ tlPermit' = (tlPermit \/ rest = <<>>)
       ELSE /\ tlSend' = [tlSend EXCEPT ![s] = "parked"]
            /\ UNCHANGED <<tlQ, tlPark, tlPermit>>
    /\ UNCHANGED <<tlLane, tlN, tlCell, tlWait, tlMu, tlRan, tlOwes>>

\* The same try by a sender notified since it registered: sent, it passes
\* its notification on besides its own wake of one sender; full, its await
\* is ready at once.
NotifiedTry(s) ==
    /\ tlSend[s] = "early"
    /\ IF Len(tlQ) < TlCap
       THEN LET rest == IF tlPark = <<>> THEN tlPark ELSE Tail(tlPark)
                one == Woken([tlSend EXCEPT ![s] = "join"], tlPark)
            IN /\ tlQ' = Append(tlQ, s)
               /\ tlSend' = Woken(one, rest)
               /\ tlPark' = IF rest = <<>> THEN rest ELSE Tail(rest)
               /\ tlPermit' = (tlPermit \/ rest = <<>>)
       ELSE /\ tlSend' = [tlSend EXCEPT ![s] = "again"]
            /\ UNCHANGED <<tlQ, tlPark, tlPermit>>
    /\ UNCHANGED <<tlLane, tlN, tlCell, tlWait, tlMu, tlRan, tlOwes>>

\* `notified.await` returned.
Wake(s) ==
    /\ tlSend[s] = "woken"
    /\ tlSend' = [tlSend EXCEPT ![s] = "again"]
    /\ UNCHANGED <<tlQ, tlPark, tlPermit, tlLane, tlN, tlCell, tlWait, tlMu, tlRan, tlOwes>>

\* JoinOnDrop::poll, under the result lock: take the result or leave a waker.
Poll(s) ==
    /\ tlSend[s] \in {"join", "rejoin"}
    /\ IF tlCell[s].done
       THEN tlSend' = [tlSend EXCEPT ![s] = "done"] /\ UNCHANGED tlCell
       ELSE /\ tlCell' = [tlCell EXCEPT ![s].waker = TRUE]
            /\ tlSend' = [tlSend EXCEPT ![s] = "joining"]
    /\ UNCHANGED <<tlQ, tlPark, tlPermit, tlLane, tlN, tlWait, tlMu, tlRan, tlOwes>>

\* The session goes away at an await.  A parked sender leaves the waiters;
\* a notification it holds is passed on.  A job already sent still runs.
DropSession(s) ==
    /\ s \in TlAsync /\ tlSend[s] \in {"parked", "woken", "joining"}
    /\ IF tlSend[s] = "woken"
       THEN notify_one([tlSend EXCEPT ![s] = "dropped"])
       ELSE /\ tlSend' = [tlSend EXCEPT ![s] = "dropped"]
            /\ tlPark' = SelectSeq(tlPark, LAMBDA x : x # s)
            /\ UNCHANGED tlPermit
    /\ UNCHANGED <<tlQ, tlLane, tlN, tlCell, tlWait, tlMu, tlRan, tlOwes>>

-----------------------------------------------------------------------------
(* Blocking callers.                                                       *)

SyncSend(s) ==
    /\ s \in TlSync /\ tlSend[s] = "new" /\ Len(tlQ) < TlCap
    /\ tlQ' = Append(tlQ, s)
    /\ tlSend' = [tlSend EXCEPT ![s] = "joining"]
    /\ UNCHANGED <<tlPark, tlPermit, tlLane, tlN, tlCell, tlWait, tlMu, tlRan, tlOwes>>
SyncRecv(s) ==
    /\ s \in TlSync /\ tlSend[s] = "joining" /\ tlCell[s].done
    /\ tlSend' = [tlSend EXCEPT ![s] = "done"]
    /\ UNCHANGED <<tlQ, tlPark, tlPermit, tlLane, tlN, tlCell, tlWait, tlMu, tlRan, tlOwes>>

-----------------------------------------------------------------------------
(* The lane thread.                                                        *)

LaneRecv ==
    /\ tlLane.at = "recv" /\ tlQ # <<>>
    /\ tlQ' = Tail(tlQ)
    /\ tlLane' = [at |-> "freed", job |-> Head(tlQ)]
    /\ UNCHANGED <<tlSend, tlPark, tlPermit, tlN, tlCell, tlWait, tlMu, tlRan, tlOwes>>
\* A bug: a recv wakes nobody.
LaneFreedSilent ==
    /\ tlLane.at = "freed"
    /\ tlLane' = [tlLane EXCEPT !.at = "begin"]
    /\ UNCHANGED <<tlQ, tlSend, tlPark, tlPermit, tlN, tlCell, tlWait, tlMu, tlRan, tlOwes>>
LaneFreed ==
    /\ tlLane.at = "freed"
    /\ notify_one(tlSend)
    /\ tlLane' = [tlLane EXCEPT !.at = "begin"]
    /\ UNCHANGED <<tlQ, tlN, tlCell, tlWait, tlMu, tlRan, tlOwes>>

\* begin_job: gen, then n.
AllMoved == [w \in TlWaits |-> [tlWait[w] EXCEPT !.moved = tlWait[w].at \notin {"off", "back"}]]
BeginGen ==
    /\ tlLane.at = "begin"
    /\ tlWait' = AllMoved
    /\ tlLane' = [tlLane EXCEPT !.at = "counted"]
    /\ UNCHANGED <<tlQ, tlSend, tlPark, tlPermit, tlN, tlCell, tlMu, tlRan, tlOwes>>
BeginN ==
    /\ tlLane.at = "counted"
    /\ tlN' = tlN + 1
    /\ tlLane' = [tlLane EXCEPT !.at = "run"]
    /\ UNCHANGED <<tlQ, tlSend, tlPark, tlPermit, tlCell, tlWait, tlMu, tlRan, tlOwes>>

\* The job runs, then finish_cell stores the result and takes the waker.
RunJob ==
    /\ tlLane.at = "run"
    /\ tlRan' = [tlRan EXCEPT ![tlLane.job] = @ + 1]
    /\ tlCell' = [tlCell EXCEPT ![tlLane.job].done = TRUE]
    /\ tlLane' = [tlLane EXCEPT !.at = "wake"]
    /\ UNCHANGED <<tlQ, tlSend, tlPark, tlPermit, tlN, tlWait, tlMu, tlOwes>>
WakeJoin ==
    /\ tlLane.at = "wake"
    /\ tlCell' = [tlCell EXCEPT ![tlLane.job].waker = FALSE]
    /\ tlSend' = IF tlCell[tlLane.job].waker /\ tlSend[tlLane.job] = "joining" /\ tlLane.job \in TlAsync
                 THEN [tlSend EXCEPT ![tlLane.job] = "rejoin"] ELSE tlSend
    /\ tlLane' = [tlLane EXCEPT !.at = "end"]
    /\ UNCHANGED <<tlQ, tlPark, tlPermit, tlN, tlWait, tlMu, tlRan, tlOwes>>

\* end_job: the count, then the notify under the mutex.
EndJob ==
    /\ tlLane.at = "end"
    /\ tlN' = tlN - 1
    /\ tlLane' = IF tlN = 1 THEN [tlLane EXCEPT !.at = "notify"] ELSE LaneFree
    /\ tlOwes' = {}
    /\ UNCHANGED <<tlQ, tlSend, tlPark, tlPermit, tlCell, tlWait, tlMu, tlRan>>
Roused == [w \in TlWaits |-> IF tlWait[w].at = "asleep" THEN [tlWait[w] EXCEPT !.at = "roused"] ELSE tlWait[w]]
NotifyAll ==
    /\ tlLane.at = "notify" /\ tlMu = "none"
    /\ tlWait' = Roused /\ tlLane' = LaneFree
    /\ UNCHANGED <<tlQ, tlSend, tlPark, tlPermit, tlN, tlCell, tlMu, tlRan, tlOwes>>

-----------------------------------------------------------------------------
(* wait_idle and wait_current_job.                                          *)

\* Take the mutex; a new call of wait_current_job also snapshots gen.
WaitCall(w) ==
    /\ tlWait[w].at = "off" /\ tlMu = "none"
    /\ tlMu' = w
    /\ \E c \in {"current", "idle"} : tlWait' = [tlWait EXCEPT ![w] = [at |-> "test", call |-> c, moved |-> FALSE]]
    /\ tlOwes' = IF tlLane.at \in {"run", "wake"} THEN tlOwes \cup {w} ELSE tlOwes
    /\ UNCHANGED <<tlQ, tlSend, tlPark, tlPermit, tlLane, tlN, tlCell, tlRan>>
WaitLock(w) ==
    /\ tlWait[w].at = "roused" /\ tlMu = "none"
    /\ tlMu' = w
    /\ tlWait' = [tlWait EXCEPT ![w].at = "test"]
    /\ UNCHANGED <<tlQ, tlSend, tlPark, tlPermit, tlLane, tlN, tlCell, tlRan, tlOwes>>
MustWait(w) == tlN > 0 /\ (tlWait[w].call = "current" => ~tlWait[w].moved)
WaitTest(w) ==
    /\ tlWait[w].at = "test"
    /\ IF MustWait(w)
       THEN tlWait' = [tlWait EXCEPT ![w].at = "sleep"] /\ UNCHANGED tlMu
       ELSE tlWait' = [tlWait EXCEPT ![w] = [@ EXCEPT !.at = "back", !.moved = FALSE]] /\ tlMu' = "none"
    /\ UNCHANGED <<tlQ, tlSend, tlPark, tlPermit, tlLane, tlN, tlCell, tlRan, tlOwes>>
WaitSleep(w) ==
    /\ tlWait[w].at = "sleep"
    /\ tlWait' = [tlWait EXCEPT ![w].at = "asleep"] /\ tlMu' = "none"
    /\ UNCHANGED <<tlQ, tlSend, tlPark, tlPermit, tlLane, tlN, tlCell, tlRan, tlOwes>>

-----------------------------------------------------------------------------
\* A lane at rest, every caller at the same point.
TlRest(at, ran) ==
    /\ tlQ = <<>> /\ tlLane = LaneFree /\ tlN = 0
    /\ tlSend = [s \in Callers |-> at]
    /\ tlPark = <<>> /\ tlPermit = FALSE
    /\ tlCell = [s \in Callers |-> [done |-> ran > 0, waker |-> FALSE]]
    /\ tlWait = [w \in TlWaits |-> [at |-> "off", call |-> "idle", moved |-> FALSE]]
    /\ tlMu = "none"
    /\ tlRan = [s \in Callers |-> ran] /\ tlOwes = {}
TlInit == TlRest("new", 0)

LaneStep == LaneRecv \/ LaneFreed \/ BeginGen \/ BeginN \/ RunJob \/ WakeJoin
            \/ EndJob \/ NotifyAll
CallerStep(s) == FirstTry(s) \/ Enable(s) \/ SecondTry(s) \/ NotifiedTry(s) \/ Wake(s) \/ Poll(s) \/ SyncSend(s) \/ SyncRecv(s)
WaiterStep(w) == WaitTest(w) \/ WaitSleep(w)
TlNext == \/ LaneStep
          \/ \E s \in Callers : CallerStep(s) \/ DropSession(s)
          \/ \E w \in TlWaits : WaiterStep(w) \/ WaitLock(w) \/ WaitCall(w)

TlSpec == TlInit /\ [][TlNext]_tlVars

-----------------------------------------------------------------------------
Handed(s) == tlSend[s] \in {"join", "joining", "rejoin", "done"}
Undone(s) == s \in ToSet(tlQ) \/ (tlLane.job = s /\ tlLane.at \in {"freed", "begin", "counted", "run"})

\* Every job handed to the lane runs once: it is queued, being run, or has
\* run, never two of these, and never lost to a full queue.  A blocking
\* caller's frame, which its job borrows, is left only after the job ran
\* (the SAFETY note of erase_lifetime).
JobsRunOnce ==
    /\ \A s \in Callers : Handed(s) => tlRan[s] + (IF Undone(s) THEN 1 ELSE 0) = 1
    /\ \A s \in Callers : tlRan[s] <= 1 /\ (tlRan[s] = 1 => ~Undone(s))
    /\ \A s \in Callers : tlSend[s] = "done" => tlRan[s] = 1

\* wait_idle and wait_current_job return only after the job that was running
\* when they looked has ended.
WaitOutlivesJob == \A w \in TlWaits : tlWait[w].at = "back" => w \notin tlOwes

\* Every session and every blocking caller gets its result unless it was
\* dropped: a free slot never stays empty under a sleeping sender.
AllAnswered == <>[](\A s \in Callers : tlSend[s] \in {"done", "dropped"})

\* A caller that waits for the running job is let go: no lost wakeup.
WaitsReturn == \A w \in TlWaits : (tlWait[w].at = "test") ~> (tlWait[w].at = "back")

\* Each job runs once, and a wait outlives the job it saw.
LaneSafe == JobsRunOnce /\ WaitOutlivesJob
=============================================================================
