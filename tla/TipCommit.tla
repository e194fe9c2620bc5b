------------------------------ MODULE TipCommit ------------------------------
(***************************************************************************)
(* The Class C tip commit of rbitcoin: confirmed[], strong_tx, header_txs  *)
(* and the height fence live in RAM and reach the disk only in a barrier.  *)
(* A connect flushes the tip last, a disconnect flushes it first, IBD runs *)
(* the connect barrier on the rbtc-tip-flush thread, and open repairs      *)
(* whatever a kill between two of those steps left behind.                 *)
(*                                                                         *)
(* A height is a 1-based position (code height + 1), so a length of 0 is   *)
(* the code's None.  Whoever holds tip_commit, the barrier thread and open *)
(* never overlap (every taker joins the barrier first), so one sequence,   *)
(* steps, holds what the current one still has to do.                      *)
(***************************************************************************)
EXTENDS Integers, Sequences, FiniteSets, FiniteSetsExt, Functions

CONSTANTS Blocks,      \* blocks of the header tree
          Null,        \* the null header fk, and the parent of genesis
          Parent,      \* Blocks -> Blocks \cup {Null}
          NTx,         \* Blocks -> number of transactions
          Window,      \* -checkblocks after widening, 0 = whole chain
          MaxFk,       \* bound: creates appended to Class A
          MaxLen,      \* bound: confirmed heights
          MaxRun,      \* bound: blocks in one confirm run
          MaxCrash,    \* bound: kills
          MaxCrashWithheld, \* bound: kills where a locator header missed
          Withhold,    \* a locator header pwrite may miss
          FlushFails   \* owners whose table flush may return an error

ASSUME TipAssumption ==
    /\ Null \notin Blocks
    /\ Parent \in [Blocks -> Blocks \cup {Null}]
    /\ NTx \in [Blocks -> Nat \ {0}]
    /\ {Window, MaxFk, MaxLen, MaxRun, MaxCrash, MaxCrashWithheld} \subseteq Nat
    /\ Withhold \in BOOLEAN
    /\ FlushFails \subseteq {"commit", "worker", "flush", "disconnect"}

VARIABLES
    body,        \* Class A: the block each create fk was appended for
    loc_count,   \* creates the landed locator headers name
    withheld,    \* history: a locator header missed
    confirmed, strong, first, fence,     \* Class C in RAM
    d_slot, d_len, d_strong, d_first,    \* Class C on disk
    d_seal,      \* tip_seal: [len, block], len 0 = no file
    steps, owner,                        \* work in progress and who does it
    before, gone,                        \* tip before the commit; creates of the leaving block
    tip_flush, reply,                    \* IBD barrier state and its result
    run, ranges,                         \* write thread: appended run, unpublished ranges
    sealed_tip, tip_mode,
    tcCrashes,
    landed       \* auxiliary: the chain of the last completed barrier

disk == <<d_slot, d_len, d_strong, d_first, d_seal>>
ram == <<confirmed, strong, first, fence>>
classA == <<body, loc_count, withheld>>
writer == <<run, ranges>>
ctl == <<before, gone, tip_flush, reply, sealed_tip, tip_mode>>
tcVars == <<classA, ram, disk, steps, owner, ctl, writer, tcCrashes, landed>>

-----------------------------------------------------------------------------
(* Ranges, the fence and what is derived from them *)

Fks(b, f) == IF f[b] = 0 THEN {} ELSE f[b] .. f[b] + NTx[b] - 1

(* header_tx_end, 0 for None *)
HeaderTxEnd(c, f, i) ==
    IF c[i] = Null \/ f[c[i]] = 0 THEN 0 ELSE f[c[i]] + NTx[c[i]] - 1

FromConfirmed(c, f) ==
    {[height |-> i, first |-> f[c[i]], count |-> NTx[c[i]]] :
        i \in {j \in 1 .. Len(c) : HeaderTxEnd(c, f, j) # 0}}

FenceFks(fn) == UNION {r.first .. r.first + r.count - 1 : r \in fn}

(* class_a_confirmed_cut, 0 for None.  Its two binary searches are the       *)
(* minimum and the maximum here: ranges grow with height.                    *)
FirstPast(c, f, hi, covered) ==
    Min({i \in 1 .. hi : HeaderTxEnd(c, f, i) > covered})

ClassACut(c, f, covered) ==
    LET with == {i \in 1 .. Len(c) : HeaderTxEnd(c, f, i) # 0}
    IN IF c = <<>> THEN 0
       ELSE IF Len(c) \in with
            THEN IF HeaderTxEnd(c, f, Len(c)) <= covered THEN 0
                 ELSE FirstPast(c, f, Len(c), covered)
       ELSE IF 1 \notin with THEN 0
       ELSE IF HeaderTxEnd(c, f, Max(with)) > covered
            THEN FirstPast(c, f, Max(with), covered)
       ELSE Max(with) + 1

TipFits == loc_count = Len(body) \/ ClassACut(confirmed, first, loc_count) = 0

-----------------------------------------------------------------------------
(* The step lists *)

Barrier == <<"fits", "strong", "header_txs", "confirmed", "seal", "landed">>
DisconnectSteps == <<"confirmed", "seal", "shrunk", "unstrong", "strong", "done">>
ShrinkSteps == <<"confirmed", "seal", "rebuild", "repair", "strong">>
OpenSteps == <<"past_creates", "trim", "clamp", "walk", "publish", "repair",
               "strong", "ready">>

BarrierOwners == {"commit", "worker", "flush"}
Owners == BarrierOwners \cup {"free", "disconnect", "open"}

At(s) == steps # <<>> /\ Head(steps) = s

(* lock_tip_commit succeeds: nobody works and the last IBD barrier, if any,  *)
(* joins without an error.                                                   *)
CanLock == steps = <<>> /\ tip_flush \in {"Idle", "Done"}

JoinedTip == IF tip_flush = "Done" /\ reply # 0 THEN reply ELSE sealed_tip

ForPrune(sealed, was) == IF sealed # 0 THEN sealed ELSE was

-----------------------------------------------------------------------------

NoRanges == [b \in Blocks |-> 0]

TcInit ==
    /\ body = <<>> /\ loc_count = 0 /\ withheld = FALSE
    /\ confirmed = <<>> /\ strong = {} /\ first = NoRanges /\ fence = {}
    /\ d_slot = [i \in 1 .. MaxLen |-> Null] /\ d_len = 0
    /\ d_strong = {} /\ d_first = NoRanges
    /\ d_seal = [len |-> 0, block |-> Null]
    /\ steps = <<>> /\ owner = "free" /\ before = 0 /\ gone = {}
    /\ tip_flush = "Idle" /\ reply = 0
    /\ run = <<>> /\ ranges = NoRanges
    /\ sealed_tip = 0 /\ tip_mode \in BOOLEAN
    /\ tcCrashes = 0 /\ landed = <<>>

TipBlock(c) == IF c = <<>> THEN Null ELSE c[Len(c)]

Linked(r, tip) ==
    \A i \in 1 .. Len(r) : Parent[r[i]] = IF i = 1 THEN tip ELSE r[i - 1]

Runs == UNION {[1 .. n -> Blocks] : n \in 1 .. MaxRun}

(* Creates of the run's blocks, in append order. *)
RunBody(r) ==
    LET sum[i \in 0 .. Len(r)] ==
          IF i = 0 THEN <<>> ELSE sum[i - 1] \o [k \in 1 .. NTx[r[i]] |-> r[i]]
    IN sum[Len(r)]

-----------------------------------------------------------------------------
(* The write thread.  Class A is appended outside tip_commit, so this        *)
(* overlaps the barrier thread and a disconnect.                             *)

Archive(r, lands) ==
    /\ owner # "open" /\ run = <<>>
    /\ Len(confirmed) + Len(r) <= MaxLen
    /\ Linked(r, TipBlock(confirmed))
    /\ confirmed = <<>> => Len(r) = 1 /\ lands   \* ensure_genesis, on its own
    /\ \/ /\ \A i \in 1 .. Len(r) : first[r[i]] = 0
          /\ Len(body) + Len(RunBody(r)) <= MaxFk
          /\ body' = body \o RunBody(r)
          /\ loc_count' = IF lands THEN Len(body') ELSE loc_count
          /\ withheld' = (withheld \/ ~lands)
          /\ ranges' = [b \in Blocks |->
                          IF b \in Range(r)
                          THEN Min({k \in Len(body) + 1 .. Len(body') : body'[k] = b})
                          ELSE 0]
       \/ /\ \A i \in 1 .. Len(r) : first[r[i]] # 0
          /\ lands
          /\ ranges' = NoRanges
          /\ UNCHANGED classA
    /\ run' = r
    /\ UNCHANGED <<ram, disk, steps, owner, ctl, tcCrashes, landed>>

Published == [b \in Blocks |-> IF ranges[b] # 0 THEN ranges[b] ELSE first[b]]

Joined == /\ tip_flush' = "Idle" /\ reply' = 0

(* check_run_extends_tip, under tip_commit *)
RunExtendsTip == Linked(run, TipBlock(confirmed))

(* confirm_blocks_run_with_create_pins *)
Commit ==
    /\ run # <<>> /\ CanLock /\ RunExtendsTip
    /\ first' = Published
    /\ strong' = strong \cup UNION {Fks(b, first') : b \in Range(run)}
    /\ confirmed' = confirmed \o run
    /\ fence' = fence \cup
                {[height |-> Len(confirmed) + i, first |-> first'[run[i]],
                  count |-> NTx[run[i]]] : i \in 1 .. Len(run)}
    /\ before' = Len(confirmed)
    /\ steps' = Barrier
    /\ IF tip_mode
       THEN /\ owner' = "commit" /\ Joined
            /\ sealed_tip' = JoinedTip
       ELSE /\ owner' = "worker"
            /\ tip_flush' = "Running" /\ reply' = 0
            /\ sealed_tip' = ForPrune(JoinedTip, Len(confirmed))
    /\ run' = <<>> /\ ranges' = NoRanges
    /\ UNCHANGED <<classA, disk, gone, tip_mode, tcCrashes, landed>>

(* Mutated form: the ranges are stored without joining the barrier. *)
RejectBeforeJoin ==
    /\ run # <<>> /\ owner # "open"
    /\ first' = Published
    /\ run' = <<>> /\ ranges' = NoRanges
    /\ UNCHANGED <<classA, confirmed, strong, fence, disk, steps, owner, ctl,
                   tcCrashes, landed>>

(* A structural reject, or a run that no longer extends the tip: the ranges  *)
(* are stored after the join so a retry does not append the body again.      *)
Reject ==
    /\ run # <<>> /\ CanLock
    /\ first' = Published
    /\ run' = <<>> /\ ranges' = NoRanges
    /\ Joined /\ sealed_tip' = JoinedTip
    /\ UNCHANGED <<classA, confirmed, strong, fence, disk, steps, owner, before,
                   gone, tip_mode, tcCrashes, landed>>

(* The joiner finds the barrier's error.  It sticks until restart.           *)
JoinFails ==
    /\ steps = <<>> /\ tip_flush = "Errored"
    /\ tip_flush' = "Failed"
    /\ UNCHANGED <<classA, ram, disk, steps, owner, before, gone, reply,
                   sealed_tip, tip_mode, writer, tcCrashes, landed>>

(* Commit and publish_archived_header_ranges both return the stuck error.    *)
WriteFails ==
    /\ run # <<>> /\ steps = <<>> /\ tip_flush = "Failed"
    /\ run' = <<>> /\ ranges' = NoRanges
    /\ UNCHANGED <<classA, ram, disk, steps, owner, ctl, tcCrashes, landed>>

(* Query::flush and flush_for_shutdown *)
TcFlush ==
    /\ CanLock /\ owner = "free"
    /\ steps' = Barrier /\ owner' = "flush" /\ Joined /\ sealed_tip' = JoinedTip
    /\ UNCHANGED <<classA, ram, disk, before, gone, tip_mode, writer, tcCrashes, landed>>

Disconnect ==
    /\ CanLock /\ Len(confirmed) > 1         \* every branch forks at or above genesis
    /\ confirmed' = SubSeq(confirmed, 1, Len(confirmed) - 1)
    /\ fence' = {r \in fence : r.height # Len(confirmed)}
    /\ gone' = Fks(TipBlock(confirmed), first)
    /\ landed' = SubSeq(landed, 1, Min({Len(landed), Len(confirmed')}))
    /\ steps' = DisconnectSteps /\ owner' = "disconnect"
    /\ Joined /\ sealed_tip' = JoinedTip
    /\ UNCHANGED <<classA, strong, first, disk, before, tip_mode, writer, tcCrashes>>

EnterTip ==
    /\ ~tip_mode /\ owner = "free" /\ tip_mode' = TRUE
    /\ UNCHANGED <<classA, ram, disk, steps, owner, before, gone, tip_flush, reply,
                   sealed_tip, writer, tcCrashes, landed>>

-----------------------------------------------------------------------------
(* Steps of the barrier, the disconnect and open *)

Pop == steps' = Tail(steps)

(* What every step that stays inside its list leaves alone. *)
Quiet == UNCHANGED <<classA, owner, ctl, writer, tcCrashes>>

(* A withheld locator header skips the whole barrier. *)
Fits ==
    /\ At("fits")
    /\ steps' = IF TipFits THEN Tail(steps) ELSE <<"skipped">>
    /\ UNCHANGED <<ram, disk, landed>> /\ Quiet

FlushStrong ==
    /\ At("strong") /\ Pop
    /\ d_strong' = strong
    /\ UNCHANGED <<ram, d_slot, d_len, d_first, d_seal, landed>> /\ Quiet

FlushHeaderTxs ==
    /\ At("header_txs") /\ Pop
    /\ d_first' = first
    /\ UNCHANGED <<ram, d_slot, d_len, d_strong, d_seal, landed>> /\ Quiet

(* Only the length drops on a shrink: the bytes above it stay in the file.   *)
FlushConfirmed ==
    /\ At("confirmed") /\ Pop
    /\ d_slot' = [i \in 1 .. MaxLen |->
                    IF i <= Len(confirmed) THEN confirmed[i] ELSE d_slot[i]]
    /\ d_len' = Len(confirmed)
    /\ UNCHANGED <<ram, d_strong, d_first, d_seal, landed>> /\ Quiet

(* publish_tip_seal: tmp, sync, rename, so the file is the old or the new one. *)
SealNow == IF confirmed = <<>> THEN [len |-> 0, block |-> Null]
           ELSE IF TipBlock(confirmed) = Null THEN d_seal
           ELSE [len |-> Len(confirmed), block |-> TipBlock(confirmed)]

PublishSeal ==
    /\ At("seal") \/ At("publish")
    /\ Pop
    /\ d_seal' = IF At("publish") /\ confirmed = <<>> THEN d_seal ELSE SealNow
    /\ landed' = IF owner \in BarrierOwners THEN confirmed ELSE landed
    /\ UNCHANGED <<ram, d_slot, d_len, d_strong, d_first>> /\ Quiet

(* The barrier returns the tip it sealed, or None when it was skipped.       *)
BarrierEnds ==
    /\ At("landed") \/ At("skipped")
    /\ LET sealed == IF At("landed") THEN Len(confirmed) ELSE 0
       IN CASE owner = "worker" ->
                 /\ tip_flush' = "Done" /\ reply' = sealed
                 /\ UNCHANGED sealed_tip
            [] owner = "commit" ->
                 /\ sealed_tip' = IF sealed # 0 THEN sealed
                                  ELSE ForPrune(sealed_tip, before)
                 /\ UNCHANGED <<tip_flush, reply>>
            [] OTHER -> UNCHANGED <<tip_flush, reply, sealed_tip>>
    /\ Pop /\ owner' = "free"
    /\ UNCHANGED <<classA, ram, disk, before, gone, tip_mode, writer, tcCrashes, landed>>

(* SealedTip::shrunk_to *)
ShrunkTo(now) == IF sealed_tip = 0 \/ now < sealed_tip THEN now ELSE sealed_tip

Shrunk ==
    /\ At("shrunk") /\ Pop
    /\ sealed_tip' = ShrunkTo(Len(confirmed))
    /\ UNCHANGED <<classA, ram, disk, owner, before, gone, tip_flush, reply,
                   tip_mode, writer, tcCrashes, landed>>

Unstrong ==
    /\ At("unstrong") /\ Pop
    /\ strong' = strong \ gone
    /\ UNCHANGED <<confirmed, first, fence, disk, landed>> /\ Quiet

DisconnectEnds ==
    /\ At("done") /\ Pop /\ owner' = "free" /\ gone' = {}
    /\ UNCHANGED <<classA, ram, disk, before, tip_flush, reply, sealed_tip,
                   tip_mode, writer, tcCrashes, landed>>

Rebuild ==
    /\ At("rebuild") /\ Pop
    /\ fence' = FromConfirmed(confirmed, first)
    /\ UNCHANGED <<confirmed, strong, first, disk, landed>> /\ Quiet

(* repair_strong_not_on_fence: the holes of the fence and the suffix above it *)
Repair ==
    /\ At("repair") /\ Pop
    /\ strong' = strong \cap FenceFks(fence)
    /\ UNCHANGED <<confirmed, first, fence, disk, landed>> /\ Quiet

-----------------------------------------------------------------------------
(* Open *)

(* shrink_tip_to: cut the RAM tip, then the steps that make it durable. *)
ShrinkTo(n, cleared, more) ==
    /\ confirmed' = SubSeq(confirmed, 1, n)
    /\ first' = [b \in Blocks |-> IF b \in cleared THEN 0 ELSE first[b]]
    /\ steps' = more
    /\ UNCHANGED <<strong, fence, disk, landed>> /\ Quiet

KeepTip == Pop /\ UNCHANGED <<ram, disk, landed>> /\ Quiet

(* drop_confirmed_past_creates: the cleared ranges are durable before the tip. *)
PastCreates ==
    /\ At("past_creates")
    /\ LET covered == Len(body)
           bad == ClassACut(confirmed, first, covered)
           strongPast == covered + 1 \in strong
       IN CASE bad # 0 /\ bad <= Len(confirmed) /\ HeaderTxEnd(confirmed, first, bad) > covered ->
                 ShrinkTo(bad - 1, {confirmed[i] : i \in bad .. Len(confirmed)},
                          <<"header_txs">> \o ShrinkSteps \o Tail(steps))
            [] /\ bad # 0 /\ HeaderTxEnd(confirmed, first, bad) = 0 /\ strongPast ->
                 ShrinkTo(bad - 1, {}, ShrinkSteps \o Tail(steps))
            [] /\ bad = 0 /\ confirmed # <<>> /\ strongPast
               /\ \A i \in 1 .. Len(confirmed) : HeaderTxEnd(confirmed, first, i) = 0 ->
                 ShrinkTo(0, {}, ShrinkSteps \o Tail(steps))
            [] OTHER -> KeepTip

(* Mutated form: one null slot too many is kept and the trim starts again. *)
TrimAgain ==
    /\ At("trim")
    /\ LET keep == Max({0} \cup {i \in 1 .. Len(confirmed) : confirmed[i] # Null})
       IN IF keep = Len(confirmed) THEN KeepTip
          ELSE ShrinkTo(keep + 1, {}, ShrinkSteps \o steps)

(* trim_trailing_nulls, with the seal of the trimmed tip *)
Trim ==
    /\ At("trim")
    /\ LET keep == Max({0} \cup {i \in 1 .. Len(confirmed) : confirmed[i] # Null})
       IN IF keep = Len(confirmed) THEN KeepTip
          ELSE ShrinkTo(keep, {}, ShrinkSteps \o Tail(steps))

(* Mutated form: the sealed height itself goes too. *)
ClampBelow ==
    /\ At("clamp")
    /\ IF d_seal.len # 0 /\ Len(confirmed) > d_seal.len
       THEN ShrinkTo(d_seal.len - 1, {}, ShrinkSteps \o Tail(steps))
       ELSE KeepTip

(* clamp_to_tip_seal: a tip past the seal, or another block at its height.   *)
Clamp ==
    /\ At("clamp")
    /\ LET n == Len(confirmed)
       IN CASE d_seal.len # 0 /\ n > d_seal.len ->
                 ShrinkTo(d_seal.len, {}, ShrinkSteps \o Tail(steps))
            [] n # 0 /\ n = d_seal.len /\ confirmed[n] \notin {d_seal.block, Null} ->
                 ShrinkTo(n - 1, {}, ShrinkSteps \o Tail(steps))
            [] OTHER -> KeepTip

(* check_confirmed_height *)
Misplaced(i) ==
    \/ confirmed[i] = Null
    \/ Parent[confirmed[i]] # IF i = 1 THEN Null ELSE confirmed[i - 1]

BadBody(i) ==
    /\ first[confirmed[i]] # 0
    /\ \E k \in Fks(confirmed[i], first) : k > Len(body) \/ body[k] # confirmed[i]

BadHeight(i) ==
    \/ Misplaced(i)
    \/ BadBody(i)
    \/ ~ (Fks(confirmed[i], first) \subseteq strong)

(* revalidate_tip_window_n from the lowest height of the window up *)
Walk ==
    /\ At("walk")
    /\ LET lo == IF Window = 0 THEN 1 ELSE Max({1, Len(confirmed) - Window + 1})
           bad == {i \in lo .. Len(confirmed) : BadHeight(i)}
       IN IF bad = {} THEN KeepTip
          ELSE LET i == Min(bad)
                   cleared == IF ~ Misplaced(i) /\ BadBody(i) THEN {confirmed[i]} ELSE {}
               IN ShrinkTo(i - 1, cleared, ShrinkSteps \o <<"header_txs">> \o Tail(steps))

Ready ==
    /\ At("ready") /\ Pop /\ owner' = "free"
    /\ sealed_tip' = Len(confirmed)
    /\ UNCHANGED <<classA, ram, disk, before, gone, tip_flush, reply, tip_mode,
                   writer, tcCrashes, landed>>

-----------------------------------------------------------------------------
(* Kills and failed flushes *)

(* The table being flushed is any mix of its old and its new image. *)
TornStrong ==
    IF At("strong")
    THEN {(d_strong \cap strong) \cup s :
            s \in SUBSET ((d_strong \cup strong) \ (d_strong \cap strong))}
    ELSE {d_strong}

TornFirst ==
    IF At("header_txs")
    THEN {[b \in Blocks |-> IF b \in s THEN first[b] ELSE d_first[b]] :
            s \in SUBSET {b \in Blocks : first[b] # d_first[b]}}
    ELSE {d_first}

TornSlots ==
    IF At("confirmed")
    THEN {[i \in 1 .. MaxLen |-> IF i \in s THEN confirmed[i] ELSE d_slot[i]] :
            s \in SUBSET {i \in 1 .. Len(confirmed) : confirmed[i] # d_slot[i]}}
    ELSE {d_slot}

TornLen == IF At("confirmed") THEN {d_len, Len(confirmed)} ELSE {d_len}

Tear == /\ d_strong' \in TornStrong /\ d_first' \in TornFirst
        /\ d_slot' \in TornSlots /\ d_len' \in TornLen
        /\ UNCHANGED d_seal

(* Class A keeps what its locator headers name; everything else is read back. *)
Reopen ==
    /\ body' = SubSeq(body, 1, loc_count) /\ UNCHANGED <<loc_count, withheld>>
    /\ confirmed' = SubSeq(d_slot', 1, d_len')
    /\ strong' = d_strong' /\ first' = d_first'
    /\ fence' = FromConfirmed(confirmed', first')
    /\ steps' = OpenSteps /\ owner' = "open"
    /\ before' = 0 /\ gone' = {} /\ tip_flush' = "Idle" /\ reply' = 0
    /\ run' = <<>> /\ ranges' = NoRanges /\ sealed_tip' = 0
    /\ UNCHANGED <<tip_mode, landed>>

TcCrash ==
    /\ tcCrashes < MaxCrash /\ (withheld => tcCrashes < MaxCrashWithheld)
    /\ tcCrashes' = tcCrashes + 1
    /\ Tear /\ Reopen

(* A table flush returns an error: the call stops there.  Open itself fails  *)
(* and the node exits, which is a kill.                                      *)
FlushError ==
    /\ owner \in FlushFails
    /\ At("strong") \/ At("header_txs") \/ At("confirmed")
    /\ Tear
    /\ steps' = <<>> /\ owner' = "free" /\ gone' = {}
    /\ tip_flush' = IF owner = "worker" THEN "Errored" ELSE tip_flush
    /\ UNCHANGED <<classA, ram, before, reply, sealed_tip, tip_mode, writer,
                   tcCrashes, landed>>

-----------------------------------------------------------------------------

Step == \/ Fits \/ FlushStrong \/ FlushHeaderTxs \/ FlushConfirmed \/ PublishSeal
        \/ BarrierEnds \/ Shrunk \/ Unstrong \/ DisconnectEnds
        \/ Rebuild \/ Repair
        \/ PastCreates \/ Trim \/ Clamp \/ Walk \/ Ready

TcNext == \/ \E r \in Runs, lands \in (IF Withhold THEN BOOLEAN ELSE {TRUE}) :
               Archive(r, lands)
          \/ Commit \/ Reject \/ JoinFails \/ WriteFails
          \/ TcFlush \/ Disconnect \/ EnterTip
          \/ Step
          \/ TcCrash \/ FlushError

TcSpec == TcInit /\ [][TcNext]_tcVars

-----------------------------------------------------------------------------

(* Every variable keeps its shape. *)
TcTypeOK ==
    /\ body \in Seq(Blocks) /\ Len(body) <= MaxFk /\ loc_count \in 0 .. Len(body)
    /\ confirmed \in Seq(Blocks \cup {Null}) /\ Len(confirmed) <= MaxLen
    /\ strong \subseteq 1 .. MaxFk /\ d_strong \subseteq 1 .. MaxFk
    /\ first \in [Blocks -> 0 .. MaxFk] /\ d_first \in [Blocks -> 0 .. MaxFk]
    /\ fence \subseteq [height : 1 .. MaxLen, first : 1 .. MaxFk, count : Nat]
    /\ d_slot \in [1 .. MaxLen -> Blocks \cup {Null}] /\ d_len \in 0 .. MaxLen
    /\ d_seal \in [len : 0 .. MaxLen, block : Blocks \cup {Null}]
    /\ owner \in Owners /\ before \in 0 .. MaxLen /\ gone \subseteq 1 .. MaxFk
    /\ tip_flush \in {"Idle", "Running", "Done", "Errored", "Failed"}
    /\ reply \in 0 .. MaxLen /\ sealed_tip \in 0 .. MaxLen /\ tip_mode \in BOOLEAN
    /\ run \in Seq(Blocks) /\ ranges \in [Blocks -> 0 .. MaxFk]
    /\ tcCrashes \in 0 .. MaxCrash /\ landed \in Seq(Blocks)

(* Tip is the commit point: with no operation in progress, also after any     *)
(* kill and the open that repairs it, every confirmed block sits on its       *)
(* parent, has its own bodies and has all its transactions strong, unless a   *)
(* locator header was withheld.                                               *)
ConfirmedWhole ==
    steps = <<>> /\ ~withheld => \A i \in 1 .. Len(confirmed) :
                      ~ BadHeight(i) /\ first[confirmed[i]] # 0

(* The RAM fence, moved by extend and pop_height, is the one a rebuild from   *)
(* confirmed[] and header_txs would give.                                     *)
FenceAgrees == steps = <<>> => fence = FromConfirmed(confirmed, first)

(* Never tip-ahead-of-strong, never tip-high-with-unstrong: at every instant  *)
(* outside open, the disk alone shows the slot, the range and the strong bits *)
(* of every height a completed barrier sealed, so a kill there cannot leave a *)
(* sealed tip open has to drop, unless a locator header was withheld.         *)
SealedDurable ==
    owner # "open" /\ ~withheld => \A i \in 1 .. Len(landed) :
      /\ i <= d_len /\ d_slot[i] = landed[i]
      /\ d_first[landed[i]] # 0
      /\ Fks(landed[i], d_first) \subseteq d_strong

(* Tip last on connect, tip first on disconnect, whatever the write thread     *)
(* does meanwhile: when the barrier writes confirmed[], the strong bits and    *)
(* ranges on disk are those in RAM, and a leaving block loses its strong bits  *)
(* only under a tip that is already short on disk and in the seal.             *)
TipOrder ==
    /\ owner \in BarrierOwners =>
         /\ (At("confirmed") \/ At("seal") \/ At("landed")) =>
              d_strong = strong /\ d_first = first
         /\ (At("seal") \/ At("landed")) => d_len = Len(confirmed)
    /\ owner = "disconnect" /\ (At("unstrong") \/ At("strong") \/ At("done")) =>
         d_len = Len(confirmed) /\ d_seal = SealNow

(* Open leaves no strong bit off the fence, in RAM or on disk: the repair     *)
(* sees the fence of the tip that revalidation settled on.                    *)
RepairedStrong == At("ready") => strong \subseteq FenceFks(fence) /\ d_strong = strong

(* A kill loses only uncommitted progress: what a completed barrier sealed    *)
(* and no disconnect took back is still confirmed after open.                 *)
SealedSurvives ==
    (steps = <<>> \/ At("ready")) =>
      Len(landed) <= Len(confirmed) /\ SubSeq(confirmed, 1, Len(landed)) = landed

(* The prune anchor SealedTip never names a height the disk has not sealed.   *)
PruneAnchorSealed == steps = <<>> => sealed_tip <= d_seal.len

(* A failed IBD barrier is not retried: every later commit and disconnect     *)
(* fails until restart.                                                       *)
FailedSticks ==
    [][tip_flush = "Failed" =>
         owner' = "open" \/ (tip_flush' = "Failed" /\ UNCHANGED <<confirmed, disk>>)]_tcVars

(* Open, however often a kill interrupts it, hands the store over.            *)
OpenEnds == owner = "open" ~> owner = "free"

(* The joiner of an IBD barrier does not wait forever.                        *)
BarrierJoinable == tip_flush = "Running" ~> tip_flush # "Running"

(* What a reader of the tip relies on, after any kill and repair: a whole *)
(* chain, its fence, durable rows under the seal, no stray strong bit,    *)
(* nothing sealed lost, no anchor above the seal.                         *)
TipSafe ==
    /\ TcTypeOK
    /\ ConfirmedWhole
    /\ FenceAgrees
    /\ SealedDurable
    /\ RepairedStrong
    /\ SealedSurvives
    /\ PruneAnchorSealed
=============================================================================
