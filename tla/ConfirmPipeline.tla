--------------------------- MODULE ConfirmPipeline ---------------------------
(***************************************************************************)
(* The confirm engine of crates/rbitcoin-ibd/src/ibd/confirm/mod.rs: the   *)
(* lookup, load, scripts and write threads with the bounded channels       *)
(* between them, the feed they share, and the coordinator that fetches     *)
(* bodies, applies rejects and rewinds to a heavier header path.  A block  *)
(* is <<height, branch>> with one transaction; two branches share the      *)
(* blocks up to ForkH.  Genesis is height 0 and always confirmed, so the   *)
(* mark "nothing taken" is height 0.                                       *)
(***************************************************************************)
EXTENDS Integers, SequencesExt, FiniteSets

CONSTANTS Top,        \* branch -> its best header height
          ForkH,      \* last height the branches share
          LoadCap,    \* capacity of loadq
          ScriptCap,  \* capacity of scriptq
          WavesMax,   \* SCRIPT_WAVES_MAX
          WriteCap,   \* capacity of writeq
          WaveMax,    \* blocks of one lookup wave
          Bad,        \* invalid blocks, each with the stage that finds it
          Faults,     \* classes of a transient fault
          MaxFault,   \* bound: faults in one behaviour, an invalid block being one
          MaxGen      \* bound: re-arms of lookup in one behaviour

ASSUME PipelineAssumption ==
    /\ "a" \in DOMAIN Top /\ \A br \in DOMAIN Top : Top[br] \in Nat
    /\ {ForkH, LoadCap, ScriptCap, WavesMax, WriteCap, WaveMax, MaxFault, MaxGen} \subseteq Nat
    /\ Faults \subseteq {"cascade", "engine", "session"}

VARIABLES chain,    \* confirmed[] above genesis
          body_n,   \* Class A rows appended (tx_body_count)
          body_fk,  \* archived block -> its Class A row (header_txs)
          bq,       \* body queue: height -> block
          taken,    \* lookup_taken: generation and high-water
          feed,     \* ConfirmFeed: inflight, claimed_epoch, epoch, force_single_until, dropped
          loadq, scriptq, waves, writeq,
          lookup, load, scripts, write,    \* thread-local state
          events,   \* confirm events on their way to the coordinator
          path,     \* the work path: branch and top height
          known,    \* branches whose headers have arrived
          main,     \* coordinator: place in its turn, tip mark, quiesce, rewind under way
          asked,    \* bodies requested from peers
          rejected, \* hashes marked invalid
          strikes,  \* cascade_at, tip_child_bad_prev, engine_fault_seen, halt
          bad,      \* the invalid block of this behaviour
          faults    \* faults so far

store == <<chain, body_n, body_fk>>
queues == <<loadq, scriptq, waves, writeq>>
threads == <<lookup, load, scripts, write>>
coord == <<path, known, main, asked, rejected, strikes>>
vars == <<store, bq, taken, feed, queues, threads, events, coord, bad, faults>>

-----------------------------------------------------------------------------

On(h, br) == <<h, IF h <= ForkH THEN "a" ELSE br>>

Parent(b) == On(b[1] - 1, b[2])

Branch(br) == {On(h, br) : h \in 1 .. Top[br]}

Block == UNION {Branch(br) : br \in DOMAIN Top}

None == <<>>

TipH == Len(chain)
Tip == IF chain = <<>> THEN On(0, "a") ELSE Last(chain)

(* has_block and is_connected: confirmed at its height. *)
Connected(b) == b[1] <= TipH /\ chain[b[1]] = b

PathAt(h) == On(h, path.br)
OnPath(b) == b[1] <= path.top /\ b = PathAt(b[1])

Heights(bs) == {bs[i][1] : i \in 1 .. Len(bs)}

Without(f, xs) == [x \in DOMAIN f \ xs |-> f[x]]

Contiguous(bs) == \A i \in 1 .. Len(bs) - 1 : bs[i + 1][1] = bs[i][1] + 1

-----------------------------------------------------------------------------
(* The body queue and the lookup mark. *)

(* block_queue_offer_vec: the first body at a height wins. *)
Offered(bs) ==
    [h \in DOMAIN bq \cup Heights(bs) |->
        IF h \in DOMAIN bq THEN bq[h]
        ELSE CHOOSE b \in ToSet(bs) : b[1] = h]

(* prepare_offer_back keeps what is not connected. *)
NotConnected(bs) == SelectSeq(bs, LAMBDA b : ~Connected(b))

(* set_lookup_taken_hi: every re-arm starts a generation. *)
Rearmed(hi) == [gen |-> taken.gen + 1, hi |-> hi]

(* block_queue_unresolved_heights: from the mark up to the first hole. *)
Unresolved(lo, skip, cap) ==
    LET start == IF taken.hi >= lo THEN taken.hi + 1 ELSE lo
        run == {h \in DOMAIN bq : h >= start /\ start .. h \subseteq DOMAIN bq} \ skip
        rows == SetToSortSeq(run, <)
    IN  SubSeq(rows, 1, IF Len(rows) < cap THEN Len(rows) ELSE cap)

(* Mutated form: the mark is read as the first height not taken. *)
ReadyAtMark(b) ==
    \/ Connected(b)
    \/ /\ b \notin rejected
       /\ \/ b[1] <= taken.hi + 1
          \/ b[1] \in DOMAIN bq /\ bq[b[1]] = b

(* claim_ready: no further getdata for this height. *)
ClaimReady(b) ==
    \/ Connected(b)
    \/ /\ b \notin rejected
       /\ \/ b[1] <= taken.hi
          \/ b[1] \in DOMAIN bq /\ bq[b[1]] = b

-----------------------------------------------------------------------------
(* The feed. *)

Finish(heights) ==
    [feed EXCEPT !.inflight = @ \ heights, !.claimed = Without(@, heights)]

Clear(f) == [f EXCEPT !.inflight = {}, !.epoch = @ + 1, !.until = 0]

StalePlan(h) == \/ h # TipH + 1
                \/ h \in DOMAIN feed.claimed /\ feed.claimed[h] # feed.epoch

-----------------------------------------------------------------------------
(* Rejects. *)

(* Mutated form: the first block of a batch answers for all of it. *)
BlameFirst(cls, n) == cls

IsolateIfBatched(cls, n) ==
    IF cls \in {"invalid", "soft"} /\ n > 1 THEN "cascade" ELSE cls

(* A verdict counts only when the parent is the tip. *)
TrustConsensus(cls, b) ==
    IF cls = "invalid" /\ Parent(b) # Tip THEN "cascade" ELSE cls

Meets(stage, bs) == bad # None /\ bad[2] = stage /\ bad[1] \in ToSet(bs)

(* A stage judges a batch: the class it rejects with, or "ok".  The invalid *)
(* block is found every time, a transient fault at most MaxFault times.     *)
Judged(stage, bs, cls) ==
    \/ cls = "invalid" /\ Meets(stage, bs) /\ UNCHANGED faults
    \/ cls = "ok" /\ ~Meets(stage, bs) /\ UNCHANGED faults
    \/ cls \in Faults /\ faults < MaxFault /\ faults' = faults + 1

NoEvent == "none"

(* What rearm_after_reject does with a rejected wave bs, as data for the     *)
(* three steps below: the bodies to offer back, the isolation and the        *)
(* dropped bodies to note, and the event to send.                            *)
Rearm(cls, bs, first, n, event) ==
    LET retried == IsolateIfBatched(cls, Len(bs)) = "cascade"
        requeue == retried \/ cls = "engine"
    IN  [pc |-> "isolate",
         offer |-> IF requeue THEN NotConnected(bs) ELSE <<>>,
         until |-> IF retried /\ Len(bs) > 1 THEN first[1] + Len(bs) - 1 ELSE 0,
         drop |-> IF ~requeue /\ cls = "invalid" THEN ToSet(bs) ELSE {},
         reject |-> [b |-> first, cls |-> event, n |-> n, bad_prev |-> FALSE]]

NoteReject(r) ==
    /\ r.pc = "isolate"
    /\ feed' = [feed EXCEPT !.until = IF r.until > 0 THEN r.until ELSE @,
                            !.dropped = @ \cup r.drop]
    /\ UNCHANGED <<store, bq, taken, queues, lookup, events, coord, bad, faults>>

RearmLookup(r) ==
    /\ r.pc = "rearm"
    /\ taken' = Rearmed(TipH)
    /\ UNCHANGED <<store, bq, feed, queues, lookup, events, coord, bad, faults>>

(* offer_back, then emit_confirm_reject. *)
OfferBack(r) ==
    LET cls == IsolateIfBatched(r.reject.cls, r.reject.n)
    IN  /\ r.pc = "offer"
        /\ bq' = Offered(r.offer)
        /\ feed' = IF cls = "cascade" /\ r.reject.n > 1
                   THEN [feed EXCEPT !.until = r.reject.b[1] + r.reject.n - 1]
                   ELSE feed
        /\ events' = IF cls = NoEvent THEN events
                     ELSE Append(events, [r.reject EXCEPT !.cls = cls])
        /\ UNCHANGED <<store, taken, queues, lookup, coord, bad, faults>>

Idle == [pc |-> "idle"]

NoRewind == [br |-> "none", lca |-> 0, top |-> 0]

-----------------------------------------------------------------------------

(* bad is chosen once: a block stays as it is. *)
Init ==
    /\ chain = <<>> /\ body_n = 0 /\ body_fk = None
    /\ bq = None
    /\ taken = [gen |-> 0, hi |-> 0]
    /\ feed = [inflight |-> {}, claimed |-> None, epoch |-> 0, until |-> 0,
               dropped |-> {}]
    /\ loadq = <<>> /\ scriptq = <<>> /\ waves = <<>> /\ writeq = <<>>
    /\ lookup = [pc |-> "idle", disc |-> FALSE]
    /\ load = [pc |-> "idle", next |-> 1, last |-> None, gen |-> -1]
    /\ scripts = Idle /\ write = Idle
    /\ events = <<>>
    /\ path = [br |-> "a", top |-> Top["a"]]
    /\ known = {"a"}
    /\ main = [pc |-> "work", mark |-> 0, quiesce |-> FALSE, rewind |-> NoRewind]
    /\ asked = {} /\ rejected = {}
    /\ strikes = [cascade |-> None, child |-> None, engine |-> {}, halt |-> FALSE]
    /\ bad \in {None} \cup Bad
    /\ faults = IF bad = None THEN 0 ELSE 1

-----------------------------------------------------------------------------
(* The lookup thread. *)

LookupUnchanged == UNCHANGED <<store, scriptq, waves, writeq, load, scripts, write,
                               events, coord, bad, faults>>

LookupIdle == [pc |-> "idle", disc |-> lookup.disc]

LookupDisconnect ==
    /\ lookup.pc = "idle" /\ lookup.disc
    /\ lookup' = [pc |-> "idle", disc |-> FALSE]
    /\ taken' = Rearmed(0)
    /\ UNCHANGED <<bq, feed, loadq>> /\ LookupUnchanged

LookupBegin ==
    /\ lookup.pc = "idle" /\ ~lookup.disc
    /\ Len(loadq) < LoadCap
    /\ lookup' = [pc |-> "gen", disc |-> FALSE, skip |-> feed.inflight, tip |-> TipH,
                  room |-> LoadCap - Len(loadq)]
    /\ UNCHANGED <<bq, taken, feed, loadq>> /\ LookupUnchanged

LookupGen ==
    LET single == feed.until # 0
    IN  /\ lookup.pc = "gen"
        /\ lookup' = IF single /\ (lookup.skip # {} \/ taken.hi > lookup.tip)
                     THEN LookupIdle
                     ELSE [pc |-> "select", disc |-> lookup.disc, skip |-> lookup.skip,
                           tip |-> lookup.tip, room |-> lookup.room,
                           gen |-> taken.gen, single |-> single]
        /\ UNCHANGED <<bq, taken, feed, loadq>> /\ LookupUnchanged

LookupSelect ==
    LET rows == Unresolved(lookup.tip + 1, lookup.skip,
                           IF lookup.single THEN 1 ELSE WaveMax)
    IN  /\ lookup.pc = "select"
        /\ lookup' = IF taken.gen # lookup.gen \/ rows = <<>> THEN LookupIdle
                     ELSE [pc |-> "resolve", disc |-> lookup.disc, room |-> lookup.room,
                           gen |-> lookup.gen, rows |-> rows]
        /\ UNCHANGED <<bq, taken, feed, loadq>> /\ LookupUnchanged

(* The wave reads each row's body; a row dequeued meanwhile is left out. *)
LookupResolve ==
    LET rows == SelectSeq(lookup.rows, LAMBDA h : h \in DOMAIN bq)
    IN  /\ lookup.pc = "resolve"
        /\ lookup' = IF rows = <<>> THEN LookupIdle
                     ELSE [pc |-> "take", disc |-> lookup.disc, room |-> lookup.room,
                           gen |-> lookup.gen,
                           epoch |-> feed.epoch,
                           bs |-> [i \in 1 .. Len(rows) |-> bq[rows[i]]],
                           have |-> DOMAIN body_fk]
        /\ UNCHANGED <<bq, taken, feed, loadq>> /\ LookupUnchanged

(* split_wave_into_load_batches_kind: a batch of one kind, of any length up  *)
(* to the rest of the wave (the input budget is data).                       *)
OneKind(bs, have) == ToSet(bs) \subseteq have \/ ToSet(bs) \cap have = {}

(* advance_lookup_taken_hi: the compare-and-swap loses to a re-arm. *)
LookupAdvance(n) ==
    /\ lookup.pc = "take"
    /\ OneKind(SubSeq(lookup.bs, 1, n), lookup.have)
    /\ IF taken.gen = lookup.gen
       THEN /\ taken' = [gen |-> taken.gen, hi |-> lookup.bs[n][1]]
            /\ lookup' = [lookup EXCEPT !.pc = "send"] @@ [n |-> n]
       ELSE UNCHANGED taken /\ lookup' = LookupIdle
    /\ UNCHANGED <<bq, feed, loadq>> /\ LookupUnchanged

LookupSend ==
    LET batch == SubSeq(lookup.bs, 1, lookup.n)
        rest == SubSeq(lookup.bs, lookup.n + 1, Len(lookup.bs))
    IN  /\ lookup.pc = "send"
        /\ bq' = Without(bq, Heights(batch))
        /\ loadq' = Append(loadq, [bs |-> batch, epoch |-> lookup.epoch, gen |-> lookup.gen])
        /\ lookup' = IF rest = <<>> \/ lookup.room = 1 THEN LookupIdle
                     ELSE [pc |-> "take", disc |-> lookup.disc, room |-> lookup.room - 1,
                           gen |-> lookup.gen,
                           epoch |-> lookup.epoch, bs |-> rest, have |-> lookup.have]
        /\ UNCHANGED <<taken, feed>> /\ LookupUnchanged

Lookup == \/ LookupDisconnect \/ LookupBegin \/ LookupGen \/ LookupSelect
          \/ LookupResolve \/ LookupSend
          \/ lookup.pc = "take" /\ \E n \in 1 .. Len(lookup.bs) : LookupAdvance(n)

-----------------------------------------------------------------------------
(* The load thread: claim, stamp the plan against the look-ahead, send on.  *)

LoadUnchanged == UNCHANGED <<chain, body_n, body_fk, waves, writeq, lookup, scripts,
                             write, coord, bad>>

Ahead(pc) == [pc |-> pc, next |-> load.next, last |-> load.last, gen |-> load.gen]

(* A batch of an older epoch goes back to the body queue. *)
LoadRecv ==
    /\ load.pc = "idle" /\ loadq # <<>>
    /\ loadq' = Tail(loadq)
    /\ LET batch == Head(loadq)
       IN  IF batch.epoch # feed.epoch
           THEN /\ bq' = Offered(NotConnected(batch.bs))
                /\ feed' = Finish(Heights(batch.bs))
                /\ UNCHANGED load
           ELSE /\ load' = Ahead("claim") @@ [batch |-> batch]
                /\ UNCHANGED <<bq, feed>>
    /\ UNCHANGED <<taken, scriptq, events, faults>> /\ LoadUnchanged

(* clear_all: plan from the published body count. *)
Forgotten(r) == [r EXCEPT !.next = body_n + 1, !.last = None]

(* A wave of another generation than the last stamp drops the look-ahead. *)
LoadClaim ==
    LET batch == load.batch
        run == SelectSeq(batch.bs, LAMBDA b : ~Connected(b) /\ b[1] \notin feed.inflight)
        next == [Ahead(IF run = <<>> THEN "idle" ELSE "stamp") EXCEPT !.gen = batch.gen]
        ahead == IF load.gen = batch.gen THEN next ELSE Forgotten(next)
    IN  /\ load.pc = "claim"
        /\ feed' = [feed EXCEPT
                      !.inflight = @ \cup Heights(run),
                      !.claimed = [h \in DOMAIN @ \cup Heights(run) |->
                                     IF h \in Heights(run) THEN batch.epoch ELSE @[h]]]
        /\ load' = IF run = <<>> THEN ahead ELSE ahead @@ [bs |-> run]
        /\ UNCHANGED <<bq, taken, loadq, scriptq, events, faults>> /\ LoadUnchanged

(* stamp_check_header_link: the first block hangs on the look-ahead unless   *)
(* it is the child of the tip height; every other one on the block before.   *)
Unlinked(bs, i) ==
    IF i > 1 THEN Parent(bs[i]) # bs[i - 1]
    ELSE \/ bs[1][1] < TipH + 1
         \/ /\ bs[1][1] > TipH + 1
            /\ Parent(bs[1]) # load.last

(* The reject class of the stamp.  Structure is checked block by block, each *)
(* before its link.                                                          *)
StampClass(bs) ==
    LET broken == {i \in 1 .. Len(bs) : Unlinked(bs, i)}
        invalid == {i \in 1 .. Len(bs) : Meets("load", <<bs[i]>>)}
    IN  IF ~Contiguous(bs) THEN "invalid"
        ELSE IF \E i \in invalid : \A j \in broken : i <= j THEN "invalid"
        ELSE IF broken # {} THEN "soft"
        ELSE IF ~OneKind(bs, DOMAIN body_fk) THEN "cascade"
        ELSE "ok"

MaxOf(S) == CHOOSE x \in S : \A y \in S : y <= x

(* A planned batch takes the next Class A rows; an archived one brings its   *)
(* own and resumes behind them.                                              *)
LoadStamped(bs) ==
    LET archived == ToSet(bs) \subseteq DOMAIN body_fk
    IN  load' = [pc |-> "send", gen |-> load.gen, last |-> Last(bs), bs |-> bs,
                 next |-> IF archived THEN 1 + MaxOf({body_fk[b] : b \in ToSet(bs)})
                          ELSE load.next + Len(bs),
                 fks |-> IF archived THEN <<>>
                         ELSE [i \in 1 .. Len(bs) |-> load.next + i - 1]]

LoadFailed(bs, cls, pin) ==
    load' = Ahead("await") @@ [bs |-> bs, cls |-> cls, pin |-> pin]

LoadStamp ==
    /\ load.pc = "stamp"
    /\ \/ /\ StampClass(load.bs) = "ok"
          /\ LoadStamped(load.bs) /\ UNCHANGED faults
       \/ /\ StampClass(load.bs) # "ok"
          /\ LoadFailed(load.bs, StampClass(load.bs), FALSE) /\ UNCHANGED faults
       \/ /\ faults < MaxFault /\ faults' = faults + 1
          /\ \E cls \in Faults, pin \in BOOLEAN : LoadFailed(load.bs, cls, pin)
    /\ UNCHANGED <<bq, taken, feed, loadq, scriptq, events>> /\ LoadUnchanged

(* The send to scriptq, then sync_body_hwm. *)
LoadSend ==
    /\ load.pc = "send" /\ Len(scriptq) < ScriptCap
    /\ scriptq' = Append(scriptq, [bs |-> load.bs, fks |-> load.fks])
    /\ load' = [pc |-> "idle", gen |-> load.gen,
                next |-> IF load.next > body_n THEN load.next ELSE body_n + 1,
                last |-> IF load.last[1] <= TipH THEN None ELSE load.last]
    /\ UNCHANGED <<bq, taken, feed, loadq, events, faults>> /\ LoadUnchanged

(* await_batches_below_reject, then load_reject_class and what               *)
(* load_fail_rewind_wave will do.                                            *)
LoadAwait ==
    LET bs == load.bs
        cls == IF load.cls = "session" THEN "engine"
               ELSE IF Len(bs) = 1 THEN TrustConsensus(load.cls, bs[1]) ELSE load.cls
        rewind == IF load.pin /\ load.cls = "engine" THEN "cascade" ELSE cls
        drop == Len(bs) = 1 /\ rewind \notin {"engine", "cascade"}
    IN  /\ load.pc = "await"
        /\ \A h \in feed.inflight : h >= bs[1][1]
        /\ load' = Forgotten(Ahead("clear"))
                   @@ [offer |-> IF drop THEN <<>> ELSE NotConnected(bs),
                       until |-> IF Len(bs) > 1 /\ rewind # "engine"
                                 THEN bs[1][1] + Len(bs) - 1 ELSE 0,
                       drop |-> IF drop /\ rewind = "invalid" THEN {bs[1]} ELSE {},
                       reject |-> [b |-> bs[1], n |-> Len(bs), bad_prev |-> load.cls = "soft",
                                   cls |-> IF load.cls = "session" THEN NoEvent ELSE cls]]
        /\ UNCHANGED <<bq, taken, feed, loadq, scriptq, events, faults>> /\ LoadUnchanged

LoadClear ==
    /\ load.pc = "clear"
    /\ feed' = Clear(Finish({load.reject.b[1]}))
    /\ load' = [load EXCEPT !.pc = "isolate"]
    /\ UNCHANGED <<bq, taken, loadq, scriptq, events, faults>> /\ LoadUnchanged

LoadRewind ==
    /\ \/ NoteReject(load) /\ load' = [load EXCEPT !.pc = "rearm"]
       \/ RearmLookup(load) /\ load' = [load EXCEPT !.pc = "offer"]
       \/ OfferBack(load) /\ load' = Ahead("idle")
    /\ UNCHANGED <<scripts, write>>

Load == \/ LoadRecv \/ LoadClaim \/ LoadStamp \/ LoadSend \/ LoadAwait \/ LoadClear
        \/ LoadRewind

-----------------------------------------------------------------------------
(* The scripts thread: waves verify together and leave in order. *)

ScriptUnchanged == UNCHANGED <<store, bq, taken, loadq, lookup, load, write, events,
                               coord, bad>>

ScriptTake ==
    /\ scripts.pc = "idle" /\ scriptq # <<>> /\ Len(waves) < WavesMax
    /\ scriptq' = Tail(scriptq)
    /\ waves' = Append(waves, Head(scriptq))
    /\ UNCHANGED <<feed, writeq, scripts, faults>> /\ ScriptUnchanged

ScriptOk ==
    /\ scripts.pc = "idle" /\ waves # <<>> /\ Len(writeq) < WriteCap
    /\ Judged("script", waves[1].bs, "ok")
    /\ waves' = Tail(waves)
    /\ writeq' = Append(writeq, waves[1])
    /\ UNCHANGED <<feed, scriptq, scripts>> /\ ScriptUnchanged

(* on_err for a batch and the batches dropped behind it: finish the claims,  *)
(* then re-arm with what goes back.                                          *)
ScriptReject(batch, tail, cls) ==
    LET full == batch.bs \o FlattenSeq([i \in 1 .. Len(tail) |-> tail[i].bs])
        first == batch.bs[1]
        isolated == IsolateIfBatched(cls, Len(batch.bs))
        back == IF isolated \in {"cascade", "engine"} THEN full ELSE <<>>
        r == Rearm(isolated, back, first, Len(batch.bs), cls)
    IN  /\ feed' = Finish(Heights(full))
        /\ scripts' = IF cls = "session" THEN Rearm("engine", full, first, 1, NoEvent)
                      ELSE IF isolated = "invalid" THEN [r EXCEPT !.drop = {first}]
                      ELSE r

ScriptErr(cls) ==
    /\ scripts.pc = "idle" /\ waves # <<>> /\ cls # "ok"
    /\ Judged("script", waves[1].bs, cls)
    /\ waves' = <<>>
    /\ ScriptReject(waves[1], Tail(waves), cls)
    /\ UNCHANGED <<scriptq, writeq>> /\ ScriptUnchanged

(* Inflight::start fails (a single job runs there): this batch only, the     *)
(* waves before it go on.                                                    *)
ScriptStartErr(cls) ==
    /\ scripts.pc = "idle" /\ scriptq # <<>> /\ Len(waves) < WavesMax /\ cls # "ok"
    /\ Judged("script", Head(scriptq).bs, cls)
    /\ scriptq' = Tail(scriptq)
    /\ ScriptReject(Head(scriptq), <<>>, cls)
    /\ UNCHANGED <<waves, writeq>> /\ ScriptUnchanged

ScriptRewind ==
    /\ \/ NoteReject(scripts) /\ scripts' = [scripts EXCEPT !.pc = "rearm"]
       \/ RearmLookup(scripts) /\ scripts' = [scripts EXCEPT !.pc = "offer"]
       \/ OfferBack(scripts) /\ scripts' = Idle
    /\ UNCHANGED <<load, write>>

Scripts == \/ ScriptTake \/ ScriptOk \/ ScriptRewind
           \/ \E cls \in Faults \cup {"invalid"} : ScriptErr(cls) \/ ScriptStartErr(cls)

-----------------------------------------------------------------------------
(* The write thread. *)

WriteUnchanged == UNCHANGED <<taken, loadq, scriptq, waves, lookup, load, scripts,
                              coord, bad>>

(* drain_script_ok_write_queue: how many queued batches merge into one, by   *)
(* height and by plan polarity.  A leftover is the next batch either way.    *)
Mergeable(k) ==
    \A i \in 1 .. k - 1 :
        /\ writeq[i + 1].bs[1][1] = Last(writeq[i].bs)[1] + 1
        /\ (writeq[i].fks = <<>>) = (writeq[i + 1].fks = <<>>)

WriteRecv ==
    /\ write.pc = "idle" /\ writeq # <<>>
    /\ LET k == MaxOf({i \in 1 .. Len(writeq) : Mergeable(i)})
           bs == FlattenSeq([i \in 1 .. k |-> writeq[i].bs])
           fks == FlattenSeq([i \in 1 .. k |-> writeq[i].fks])
       IN  /\ writeq' = SubSeq(writeq, k + 1, Len(writeq))
           /\ IF StalePlan(bs[1][1])
              THEN feed' = Finish(Heights(bs)) /\ UNCHANGED write
              ELSE write' = [pc |-> "class_a", bs |-> bs, fks |-> fks] /\ UNCHANGED feed
    /\ UNCHANGED <<store, bq, events, faults>> /\ WriteUnchanged

WriteFails(cls) == write' = [pc |-> "err", bs |-> write.bs, cls |-> cls]

(* Mutated form: the planned rows are published without the comparison. *)
TrustPlan ==
    LET need == IF write.fks = <<>> THEN {}
                ELSE {i \in 1 .. Len(write.bs) : write.bs[i] \notin DOMAIN body_fk}
    IN  /\ write.pc = "class_a"
        /\ body_n' = body_n + Cardinality(need)
        /\ write' = [pc |-> "class_c", bs |-> write.bs,
                     ranges |-> [b \in {write.bs[i] : i \in need} |->
                                   write.fks[CHOOSE i \in need : write.bs[i] = b]]]
        /\ UNCHANGED <<chain, body_fk, bq, feed, writeq, events, faults>> /\ WriteUnchanged

(* archive_commit_plan: headers that have a body leave the plan, the rest is *)
(* appended, and only then are the rows compared with the planned ones.      *)
WriteClassA ==
    LET need == IF write.fks = <<>> THEN {}
                ELSE {i \in 1 .. Len(write.bs) : write.bs[i] \notin DOMAIN body_fk}
        row(i) == body_n + Cardinality({j \in need : j <= i})
    IN  /\ write.pc = "class_a"
        /\ \/ /\ body_n' = body_n + Cardinality(need)
              /\ IF \A i \in need : row(i) = write.fks[i]
                 THEN write' = [pc |-> "class_c", bs |-> write.bs,
                                ranges |-> [b \in {write.bs[i] : i \in need} |->
                                              row(CHOOSE i \in need : write.bs[i] = b)]]
                 ELSE WriteFails("cascade")
              /\ UNCHANGED faults
           \/ /\ faults < MaxFault /\ faults' = faults + 1
              /\ \E cls \in Faults : WriteFails(cls)
              /\ UNCHANGED body_n
        /\ UNCHANGED <<chain, body_fk, bq, feed, writeq, events>> /\ WriteUnchanged

Appended == [b \in DOMAIN body_fk \cup DOMAIN write.ranges |->
               IF b \in DOMAIN write.ranges THEN write.ranges[b] ELSE body_fk[b]]

(* The structural check and the Class C commit; header_txs is stored in      *)
(* either case.  check_run_extends_tip compares heights.                     *)
WriteClassC ==
    /\ write.pc = "class_c"
    /\ body_fk' = Appended
    /\ \E cls \in Faults \cup {"ok", "invalid"} :
        /\ Judged("write", write.bs, cls)
        /\ IF cls # "ok" THEN WriteFails(cls) /\ UNCHANGED chain
           ELSE IF write.bs[1][1] # TipH + 1 THEN WriteFails("cascade") /\ UNCHANGED chain
           ELSE /\ chain' = chain \o write.bs
                /\ write' = [pc |-> "note", bs |-> write.bs]
    /\ UNCHANGED <<body_n, bq, feed, writeq, events>> /\ WriteUnchanged

(* Annotate or the head drain fails behind the commit. *)
WritePostCommitErr(cls) ==
    /\ write.pc = "note" /\ faults < MaxFault
    /\ faults' = faults + 1
    /\ WriteFails(cls)
    /\ UNCHANGED <<store, bq, feed, writeq, events>> /\ WriteUnchanged

Accepted == IF events # <<>> /\ Last(events) = Idle THEN events ELSE Append(events, Idle)

(* Dequeue the rows, send Accepted, finish the claims. *)
WriteNote ==
    /\ write.pc = "note"
    /\ bq' = Without(bq, Heights(write.bs))
    /\ events' = Accepted
    /\ feed' = Finish(Heights(write.bs))
    /\ write' = Idle
    /\ UNCHANGED <<store, writeq, faults>> /\ WriteUnchanged

WriteErr ==
    LET bs == write.bs
        cls == write.cls
    IN  /\ write.pc = "err"
        /\ feed' = Finish(Heights(bs))
        /\ IF cls = "session" /\ \A b \in ToSet(bs) : Connected(b)
           THEN /\ bq' = Without(bq, Heights(bs)) /\ events' = Accepted /\ write' = Idle
           ELSE IF cls = "session"
           THEN /\ write' = Rearm("engine", bs, bs[1], 1, NoEvent) /\ UNCHANGED <<bq, events>>
           ELSE IF StalePlan(bs[1][1])
           THEN write' = Idle /\ UNCHANGED <<bq, events>>
           ELSE write' = Rearm(cls, bs, bs[1], Len(bs), cls) /\ UNCHANGED <<bq, events>>
        /\ UNCHANGED <<store, writeq, faults>> /\ WriteUnchanged

WriteRewind ==
    /\ \/ NoteReject(write) /\ write' = [write EXCEPT !.pc = "rearm"]
       \/ RearmLookup(write) /\ write' = [write EXCEPT !.pc = "offer"]
       \/ OfferBack(write) /\ write' = Idle
    /\ UNCHANGED <<load, scripts>>

Write == \/ WriteRecv \/ WriteClassA \/ WriteClassC \/ WriteNote \/ WriteErr \/ WriteRewind
         \/ \E cls \in Faults : WritePostCommitErr(cls)

-----------------------------------------------------------------------------
(* The coordinator. *)

MainUnchanged == UNCHANGED <<body_n, body_fk, queues, load, scripts, write, bad, faults>>

HandleAccepted ==
    /\ main.pc = "events" /\ events # <<>> /\ Head(events) = Idle
    /\ events' = Tail(events)
    /\ feed' = IF TipH >= feed.until THEN [feed EXCEPT !.until = 0] ELSE feed
    /\ UNCHANGED <<chain, bq, taken, lookup, coord>> /\ MainUnchanged

Struck(at, b) == IF at # None /\ at[1] = b /\ at[2] = Tip THEN <<b, Tip, at[3] + 1>>
                 ELSE <<b, Tip, 1>>

(* drop_dead_path: forget the path above keep and the bodies queued for it. *)
DropDeadPath(keep) ==
    /\ path' = [path EXCEPT !.top = keep]
    /\ bq' = [h \in {x \in DOMAIN bq : x <= keep} |-> bq[h]]
    /\ main' = [main EXCEPT !.quiesce = TRUE]

KeepPath(h) == bq' = Without(bq, {h}) /\ UNCHANGED <<path, main>>

(* A BadPrev reject: its parent is the tip, is still committing, or is on    *)
(* another fork, which gives the height and the path above it up.            *)
SoftReject(b) ==
    LET tip == Parent(b) = Tip
        offpath == ~tip /\ PathAt(b[1] - 1) # Parent(b)
        child == Struck(strikes.child, b)
    IN  /\ IF offpath /\ OnPath(b) THEN DropDeadPath(b[1] - 1) ELSE KeepPath(b[1])
        /\ strikes' = IF tip THEN [strikes EXCEPT !.child = child, !.halt = child[3] >= 3]
                      ELSE strikes
        /\ UNCHANGED rejected

CascadeReject(b) ==
    LET n == Struck(strikes.cascade, b)
    IN  /\ strikes' = [strikes EXCEPT !.cascade = n, !.halt = n[3] >= 3]
        /\ UNCHANGED <<bq, path, main, rejected>>

EngineReject(b) ==
    /\ strikes' = [strikes EXCEPT !.engine = @ \cup {b}, !.halt = b \in strikes.engine]
    /\ IF b \in strikes.engine THEN KeepPath(b[1]) ELSE UNCHANGED <<bq, path, main>>
    /\ UNCHANGED rejected

InvalidReject(b) ==
    /\ rejected' = rejected \cup {b}
    /\ IF OnPath(b) THEN DropDeadPath(b[1] - 1) ELSE KeepPath(b[1])
    /\ UNCHANGED strikes

(* apply_confirm_reject_pending samples the tip again. *)
AppliedClass(e) == IsolateIfBatched(TrustConsensus(e.cls, e.b), e.n)

HandleReject ==
    LET e == Head(events)
        cls == AppliedClass(e)
        offpath == e.bad_prev /\ Parent(e.b) # Tip /\ PathAt(e.b[1] - 1) # Parent(e.b)
    IN  /\ main.pc = "events" /\ events # <<>> /\ e # Idle
        /\ events' = Tail(events)
        /\ asked' = asked \ {e.b}
        /\ feed' = [feed EXCEPT !.dropped = @ \ {e.b},
                      !.until = IF ~offpath /\ cls = "cascade" /\ e.n > 1
                                THEN e.b[1] + e.n - 1 ELSE @]
        /\ IF offpath \/ cls = "soft" THEN SoftReject(e.b)
           ELSE IF cls = "cascade" THEN CascadeReject(e.b)
           ELSE IF cls = "engine" THEN EngineReject(e.b)
           ELSE InvalidReject(e.b)
        /\ UNCHANGED <<chain, taken, lookup, known>> /\ MainUnchanged

(* take_confirm_events ends with the clear a rewind or a dead path asked for. *)
Quiesce ==
    /\ main.pc = "events" /\ main.quiesce /\ events = <<>>
    /\ feed' = Clear(feed)
    /\ main' = [main EXCEPT !.quiesce = FALSE]
    /\ UNCHANGED <<chain, bq, taken, lookup, events, path, known, asked, rejected, strikes>>
    /\ MainUnchanged

(* The turn: confirm events until none is left, peer bodies, the settle      *)
(* window with the lock down, then assign.  The feed is cleared again when   *)
(* the tip is lower than at the start of the events or of the window.        *)
Step(pcs, to) ==
    /\ main.pc \in pcs
    /\ main' = [main EXCEPT !.pc = to, !.mark = IF to = "work" THEN 0 ELSE TipH]
    /\ feed' = IF TipH < main.mark THEN Clear(feed) ELSE feed
    /\ UNCHANGED <<chain, bq, taken, lookup, events, path, known, asked, rejected, strikes>>
    /\ MainUnchanged

(* connecting_search_candidates: the path's next block is not a child of the *)
(* tip, so the settle window rewinds before it lets assign run.              *)
Competing == TipH < path.top /\ Parent(PathAt(TipH + 1)) # Tip

Turn == \/ Step({"work", "assign"}, "events")
        \/ events = <<>> /\ ~main.quiesce /\ Step({"events"}, "work")
        \/ Step({"work"}, "settle")
        \/ ~Competing /\ Step({"settle"}, "assign")

(* need_hash_at: a queued body of another hash is dropped and the path's is  *)
(* requested.                                                                *)
Assign(h) ==
    LET b == PathAt(h)
    IN  /\ main.pc = "assign"
        /\ h \in TipH + 1 .. path.top
        /\ ~ClaimReady(b)
        /\ b \notin asked \cup rejected \cup feed.dropped
        /\ bq' = Without(bq, {h})
        /\ asked' = asked \cup {b}
        /\ UNCHANGED <<chain, taken, feed, lookup, events, path, known, main, rejected, strikes>>
        /\ MainUnchanged

(* apply_block_framed *)
Arrive(b) ==
    /\ main.pc = "work" /\ b \in asked
    /\ asked' = asked \ {b}
    /\ bq' = IF b \in rejected \/ ~OnPath(b) \/ ClaimReady(b) THEN bq ELSE Offered(<<b>>)
    /\ UNCHANGED <<chain, taken, feed, lookup, events, path, known, main, rejected, strikes>>
    /\ MainUnchanged

ValidTop(br) == MaxOf({h \in 0 .. Top[br] : \A i \in 1 .. h : On(i, br) \notin rejected})

(* Headers of a branch arrive, or the path is filled again from the stored   *)
(* ones: both when the coordinator is between two turns.                     *)
Headers(br) ==
    /\ main.pc = "work"
    /\ br \notin known \/ (br = path.br /\ path.top < ValidTop(br))
    /\ known' = known \cup {br}
    /\ path' = IF br = path.br THEN [path EXCEPT !.top = ValidTop(br)] ELSE path
    /\ UNCHANGED <<chain, bq, taken, feed, lookup, events, main, asked, rejected, strikes>>
    /\ MainUnchanged

(* The highest confirmed block of the branch. *)
Lca(br) == MaxOf({h \in 0 .. TipH : \A i \in 1 .. h : chain[i] = On(i, br)})

(* connecting_hashes_heavier_disconnected: a branch other than the path, or  *)
(* the path when it left the tip, forks below the tip and is longer.         *)
Heavier(br) == /\ br \in known
               /\ br # path.br \/ Competing
               /\ Lca(br) < TipH /\ ValidTop(br) > TipH

(* prepare_header_rewind: the store side, a disconnect down to the fork, on  *)
(* the header thread or the coordinator with the lock down.  Every           *)
(* disconnected block re-arms lookup; one re-arm stands for them all.        *)
RewindPrepare(br) ==
    /\ main.rewind = NoRewind /\ main.pc # "drain" /\ Heavier(br)
    /\ main' = [main EXCEPT !.rewind = [br |-> br, lca |-> Lca(br), top |-> ValidTop(br)]]
    /\ chain' = SubSeq(chain, 1, Lca(br))
    /\ taken' = Rearmed(Lca(br)) /\ lookup' = [lookup EXCEPT !.disc = TRUE]
    /\ UNCHANGED <<bq, feed, events, path, known, asked, rejected, strikes>> /\ MainUnchanged

(* The commit waits for the lock and is given up when the tip has moved or   *)
(* the branch was found invalid meanwhile.                                   *)
RewindGiveUp ==
    /\ main.rewind # NoRewind /\ main.pc \in {"events", "work", "settle"}
    /\ TipH # main.rewind.lca \/ ValidTop(main.rewind.br) < main.rewind.top
    /\ main' = [main EXCEPT !.rewind = NoRewind, !.pc = IF @ = "settle" THEN "assign" ELSE @]
    /\ UNCHANGED <<chain, bq, taken, feed, lookup, events, path, known, asked, rejected, strikes>>
    /\ MainUnchanged

(* commit_header_rewind up to the path slots, then the rest of it.           *)
RewindCommit ==
    /\ main.rewind # NoRewind /\ main.pc \in {"events", "work", "settle"}
    /\ TipH = main.rewind.lca /\ ValidTop(main.rewind.br) >= main.rewind.top
    /\ taken' = Rearmed(main.rewind.lca)
    /\ path' = [br |-> main.rewind.br, top |-> main.rewind.top]
    /\ main' = [main EXCEPT !.pc = "drain"] @@ [back |-> main.pc]
    /\ UNCHANGED <<chain, bq, feed, lookup, events, known, asked, rejected, strikes>>
    /\ MainUnchanged

(* A commit between two turns is followed by the events of the next one. *)
RewindDrain ==
    /\ main.pc = "drain"
    /\ bq' = [h \in {x \in DOMAIN bq : x <= main.rewind.lca} |-> bq[h]]
    /\ main' = [pc |-> IF main.back = "work" THEN "events" ELSE main.back,
                mark |-> IF main.back = "work" THEN TipH ELSE main.mark,
                quiesce |-> TRUE, rewind |-> NoRewind]
    /\ UNCHANGED <<chain, taken, feed, lookup, events, path, known, asked, rejected, strikes>>
    /\ MainUnchanged

Rewind == \/ RewindGiveUp \/ RewindCommit \/ RewindDrain
          \/ \E br \in DOMAIN Top : RewindPrepare(br)

Fetch == \/ \E h \in 1 .. path.top : Assign(h)
         \/ \E b \in asked : Arrive(b)

Main == \/ HandleAccepted \/ HandleReject \/ Quiesce \/ Turn \/ Fetch \/ Rewind
        \/ \E br \in DOMAIN Top : Headers(br)

(* A halt ends the run. *)
Running == ~strikes.halt /\ taken.gen <= MaxGen

Next == Running /\ (Lookup \/ Load \/ Scripts \/ Write \/ Main)

Spec == Init /\ [][Next]_vars

(* Every thread runs.  The coordinator's loop comes to each of its places    *)
(* again and again, and a peer answers each getdata.                         *)
Fairness ==
    /\ WF_vars(Running /\ Lookup) /\ WF_vars(Running /\ Load)
    /\ WF_vars(Running /\ Scripts) /\ WF_vars(Running /\ Write)
    /\ WF_vars(Running /\ (HandleAccepted \/ HandleReject \/ Quiesce))
    /\ WF_vars(Running /\ Turn)
    /\ SF_vars(Running /\ Step({"work"}, "settle"))
    /\ \A h \in {b[1] : b \in Block} : SF_vars(Running /\ Assign(h))
    /\ \A b \in Block : SF_vars(Running /\ Arrive(b))
    /\ \A br \in DOMAIN Top : SF_vars(Running /\ Headers(br))

LiveSpec == Spec /\ Fairness

-----------------------------------------------------------------------------

(* Every queue, mark and batch keeps its shape: a queued body sits at its    *)
(* own height and no stage passes on an empty batch.                         *)
TypeOK ==
    /\ chain \in Seq(Block)
    /\ body_n \in Nat
    /\ \A h \in DOMAIN bq : bq[h] \in Block /\ bq[h][1] = h
    /\ taken \in [gen : Nat, hi : Nat]
    /\ \A q \in {loadq, scriptq, waves, writeq} : \A i \in 1 .. Len(q) : q[i].bs # <<>>
    /\ Len(loadq) <= LoadCap /\ Len(scriptq) <= ScriptCap
    /\ Len(waves) <= WavesMax /\ Len(writeq) <= WriteCap

(* A hash is blacklisted for ever only when the block itself is invalid: a   *)
(* batch-mate, a block judged before its parent was the tip, or one met by a *)
(* transient fault is retried, never marked (isolate_if_batched,             *)
(* trust_consensus).                                                         *)
RejectedAreBad == rejected \subseteq {b \in Block : bad # None /\ b = bad[1]}

InQueue(q) == UNION {Heights(q[i].bs) : i \in 1 .. Len(q)}

HeldBy(r) == (IF "bs" \in DOMAIN r THEN Heights(r.bs) ELSE {})
             \cup (IF "offer" \in DOMAIN r THEN Heights(r.offer) ELSE {})
             \cup (IF "batch" \in DOMAIN r THEN Heights(r.batch.bs) ELSE {})
             \cup (IF "drop" \in DOMAIN r THEN {b[1] : b \in r.drop} ELSE {})

Claimed == InQueue(scriptq) \cup InQueue(waves) \cup InQueue(writeq)
           \cup HeldBy(load) \cup HeldBy(write)

(* No claim leaks: a height marked inflight in the feed belongs to a batch   *)
(* some stage still holds, so wait_claims_below cannot wait for ever and     *)
(* lookup cannot skip the height for ever.  (Load drops its batch one step   *)
(* before the clear.)                                                        *)
ClaimsHeld == load.pc # "clear" => feed.inflight \subseteq Claimed

(* No two archived blocks share a Class A row, and no row is published       *)
(* before it was appended, although load plans rows ahead of write and a     *)
(* reject, a fault or a rewind can take the planned batches away.            *)
RowsDistinct ==
    /\ \A b \in DOMAIN body_fk : body_fk[b] \in 1 .. body_n
    /\ \A b, c \in DOMAIN body_fk : body_fk[b] = body_fk[c] => b = c

Undisturbed == (faults = 0 \/ bad # None) /\ known = {"a"}

(* Without transient faults and rewinds the plan never misses: outside a     *)
(* commit every Class A row belongs to an archived block.  (A row appended   *)
(* under a plan that then fails the comparison stays behind, owned by        *)
(* nobody.)                                                                  *)
RowsOwned ==
    Undisturbed /\ write.pc # "class_c" => body_n = Cardinality(DOMAIN body_fk)

Quiet == /\ queues = <<<<>>, <<>>, <<>>, <<>>>>
         /\ lookup.pc # "send" /\ ~lookup.disc
         /\ load.pc = "idle" /\ scripts.pc = "idle" /\ write.pc = "idle"
         /\ events = <<>>
         /\ main.pc = "work" /\ ~main.quiesce /\ main.rewind = NoRewind

(* Rejects alone leave no phantom: when the pipeline is empty and the         *)
(* coordinator has seen every event, no height above the tip is still marked *)
(* as taken onto loadq: such a height counts as in hand (claim_ready) and is *)
(* not fetched.                                                              *)
NoPhantom == Undisturbed /\ Quiet /\ TipH < path.top => taken.hi <= TipH

(* With honest blocks and at most MaxFault transient faults, the path is     *)
(* confirmed to its top or the engine says it halts: no order of the         *)
(* threads leaves it waiting.                                                *)
Synced == <>(TipH = path.top \/ ~Running)

(* What the feed believes is in the pipeline is there, and no two batches *)
(* hold one row of the archive.                                           *)
PipeSafe == TypeOK /\ ClaimsHeld /\ NoPhantom /\ RowsDistinct /\ RowsOwned
=============================================================================
