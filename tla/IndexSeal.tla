----------------------------- MODULE IndexSeal -----------------------------
(***************************************************************************)
(* The block indexes of rbitcoin-query and rbitcoin-store: the BIP158      *)
(* filter table and the silent payment tweak table, one row per confirmed  *)
(* height.  Rows are appended by the confirm batch itself (live) or by the *)
(* write-behind reader and its CPU worker, cut by a disconnect, and        *)
(* repaired at startup after the process or the machine went down.         *)
(*                                                                         *)
(* A header is the path of sides that leads to it, so one header has one   *)
(* height and one parent.  Filter and tweak contents are those of their    *)
(* header; a tweak row is whole when it was built from the block's         *)
(* witnesses.                                                              *)
(***************************************************************************)
EXTENDS Integers, SequencesExt

CONSTANTS IsSides,    \* the alternatives for the block at one height
          IsTop,      \* bound: highest height
          IsOrigin,   \* sptweaks_origin
          IsWindow,   \* WINDOW_HEIGHTS
          IsGap,      \* INDEX_STARTUP_GAP_HEIGHTS
          IsDrops,    \* bound on disconnects
          IsKills     \* bound on restarts

VARIABLES isMode,     \* down, sync, live, writer or a failure
          isChain,    \* confirmed: the sides of heights 0 .. tip
          isStep,     \* where the connect or disconnect in progress stands
          isRel,      \* index_released_through
          isFt,       \* the filter rows
          isTw,       \* the tweak rows, in the page cache
          isDisk,     \* the tweak rows the disk holds if a cut is lost
          isBody,     \* tweak records in the body file
          isIo,       \* io_loop
          isQ,        \* the windows between io_loop and cpu_worker
          isResync,   \* the flag between the two
          isCpu,      \* cpu_worker
          isPast      \* history: rows a power cut brought back, bounds

isVars == <<isMode, isChain, isStep, isRel, isFt, isTw, isDisk, isBody,
            isIo, isQ, isResync, isCpu, isPast>>

EarlierOf(a, b) == IF a <= b THEN a ELSE b

LaterOf(a, b) == IF a >= b THEN a ELSE b

(* Height of the tip, and the header confirmed at a height up to it. *)
TipHeight == Len(isChain) - 1

FkAt(chain, h) == SubSeq(chain, 1, h + 1)

(* The filter header at h: a hash chain over the filters from height 0. *)
FilterHead(prev, fk) == Append(prev, fk)

FilterRow(rows, fk) ==
  [fk |-> fk,
   head |-> FilterHead(IF rows = << >> THEN << >> ELSE rows[Len(rows)].head, fk)]

(* Heights each table seals next. *)
filter_index_next(ft) == Len(ft)

tweak_index_next(tw) == IsOrigin + Len(tw)

next_needed == EarlierOf(filter_index_next(isFt), tweak_index_next(isTw))

index_target == EarlierOf(isRel - 1, TipHeight)

index_caught_up(next, tip) == next > tip

(* The rows of a sequence of blocks, appended to the filter table. *)
AppendFilters(ft, rows) ==
  FoldLeft(LAMBDA acc, r : Append(acc, FilterRow(acc, r.fk)), ft, rows)

(* The rows of a sequence of blocks, appended to the tweak table; they are *)
(* calm when no disconnect came between planning the read and the build.   *)
AppendTweaks(tw, rows, drops) ==
  tw \o [i \in 1..Len(rows) |-> [fk |-> rows[i].fk, whole |-> rows[i].wit,
                                 calm |-> rows[i].seen = drops]]

(* One block as the reader or the confirm batch holds it: with or without  *)
(* witnesses, planned after `seen` disconnects.                            *)
BlockRow(chain, h, wit, seen) ==
  [h |-> h, fk |-> FkAt(chain, h), wit |-> wit, seen |-> seen]

(* Rows of a window from height h on. *)
RowsFrom(rows, h) == SelectSeq(rows, LAMBDA r : r.h >= h)

(* The rows run on from h without a hole. *)
NoHole(rows, h) == \A i \in 1..Len(rows) : rows[i].h = h + i - 1

(* Every row is still the confirmed block at its height. *)
StillConfirmed(rows, chain) ==
  \A i \in 1..Len(rows) : /\ rows[i].h < Len(chain)
                          /\ FkAt(chain, rows[i].h) = rows[i].fk

Moved(rows, next, chain) ==
  rows # << >> /\ ~(NoHole(rows, next) /\ StillConfirmed(rows, chain))

IdleIo == [pc |-> "off", cursor |-> -1, target |-> 0, start |-> 0, end |-> 0,
           from |-> 0, got |-> << >>, seen |-> 0, stale |-> FALSE]

IdleCpu == [pc |-> "idle", rows |-> << >>, twFrom |-> 0, seen |-> 0]

NoHistory == [left |-> {}, drops |-> 0, kills |-> 0]

WholeTweaks(chain) ==
  AppendTweaks(<< >>, [i \in 1..(Len(chain) - IsOrigin) |->
                         BlockRow(chain, IsOrigin + i - 1, TRUE, 0)], 0)

(* Indexes turned on over an existing chain: both empty, or the filter     *)
(* index added to a node whose tweaks are at the tip.                      *)
IsInit ==
  /\ isMode = "down"
  /\ isChain \in {c \in UNION {[1..n -> IsSides] : n \in 2..IsTop} :
                    \A i \in 1..Len(c) : c[i] = c[1]}
  /\ isStep = "idle"
  /\ isRel = 0
  /\ isFt = << >>
  /\ isTw \in {<< >>, WholeTweaks(isChain)}
  /\ isDisk = isTw
  /\ isBody = Len(isTw)
  /\ isIo = IdleIo
  /\ isQ = << >>
  /\ isResync = FALSE
  /\ isCpu = IdleCpu
  /\ isPast = NoHistory

Up == isMode \in {"sync", "live", "writer"}

writerVars == <<isIo, isQ, isResync, isCpu>>

tableVars == <<isFt, isTw, isDisk, isBody>>

(* Startup: the filter rows above the tip go, then those off the best      *)
(* chain from the top down to the first that is on it.                     *)
trim_block_filters_to_best_chain(ft, chain) ==
  LET kept == SubSeq(ft, 1, EarlierOf(Len(ft), Len(chain)))
      on(i) == kept[i].fk = FkAt(chain, i - 1)
      last == {i \in 1..Len(kept) : on(i) /\ \A j \in i+1..Len(kept) : ~on(j)}
  IN  SubSeq(kept, 1, IF last = {} THEN 0 ELSE CHOOSE i \in last : TRUE)

(* Tweak rows through the tip. *)
truncate_through_tip(tw, tip) ==
  SubSeq(tw, 1, EarlierOf(Len(tw), LaterOf(0, tip + 1 - IsOrigin)))

(* Rows whose body bytes are missing are dropped from the end; body bytes  *)
(* past the last row are cut.  No row names its header.                    *)
trim_last_record(tw, body) == SubSeq(tw, 1, EarlierOf(Len(tw), body))

(* A gap of at most IsGap heights is sealed before confirm runs. *)
repair_from(next, tip) == next <= tip /\ tip + 1 - next <= IsGap

seal_through(next, chain) ==
  [i \in 1..(Len(chain) - next) |-> BlockRow(chain, next + i - 1, TRUE, 0)]

SealFiltersGap(ft, chain) ==
  IF repair_from(filter_index_next(ft), Len(chain) - 1)
  THEN AppendFilters(ft, seal_through(filter_index_next(ft), chain)) ELSE ft

SealTweaksGap(tw, chain) ==
  IF repair_from(tweak_index_next(tw), Len(chain) - 1)
  THEN AppendTweaks(tw, seal_through(tweak_index_next(tw), chain), 0) ELSE tw

(* index_live is decided once, before the first confirm. *)
prepare_live_indexes(ft, tw, tip) ==
  /\ index_caught_up(filter_index_next(ft), tip)
  /\ index_caught_up(tweak_index_next(tw), tip)

IsBoot ==
  /\ isMode = "down"
  /\ \E ft \in {SealFiltersGap(trim_block_filters_to_best_chain(isFt, isChain), isChain)},
        cut \in {truncate_through_tip(isTw, TipHeight)} :
       \E tw \in {SealTweaksGap(trim_last_record(cut, isBody), isChain)} :
         /\ isFt' = ft
         /\ isTw' = tw
         /\ isDisk' = IF tw = cut THEN isDisk ELSE tw
         /\ isBody' = Len(tw)
         /\ isMode' = IF prepare_live_indexes(ft, tw, TipHeight) THEN "live" ELSE "sync"
  /\ UNCHANGED <<isChain, isStep, isRel, writerVars, isPast>>

(* Tip entry spawns the write-behind only while a watermark is behind; it  *)
(* releases the tip it starts from.                                        *)
index_tip_entry ==
  /\ isMode = "sync" /\ isStep = "idle"
  /\ next_needed <= TipHeight
  /\ isMode' = "writer"
  /\ isRel' = LaterOf(isRel, TipHeight + 1)
  /\ isIo' = [IdleIo EXCEPT !.pc = "top"]
  /\ UNCHANGED <<isChain, isStep, tableVars, isQ, isResync, isCpu, isPast>>

(* A block is confirmed; a live index is sealed with its batch. *)
Connect(s) ==
  /\ Up /\ isStep = "idle" /\ TipHeight < IsTop
  /\ isChain' = Append(isChain, s)
  /\ isStep' = IF isMode = "live" THEN "sealFilters" ELSE "idle"
  /\ UNCHANGED <<isMode, isRel, tableVars, writerVars, isPast>>

(* The rows a confirm batch built for its block, from the pinned parents. *)
LiveRows == <<BlockRow(isChain, TipHeight, TRUE, 0)>>

(* seal_live_indexes: rows of the batch must start at the watermark. *)
SealFilters ==
  /\ isStep = "sealFilters"
  /\ \E rows \in {RowsFrom(LiveRows, filter_index_next(isFt))} :
       IF Moved(rows, filter_index_next(isFt), isChain)
       THEN isMode' = "liveFault" /\ isStep' = "idle" /\ UNCHANGED isFt
       ELSE /\ isFt' = AppendFilters(isFt, rows)
            /\ isStep' = "sealTweaks" /\ UNCHANGED isMode
  /\ UNCHANGED <<isChain, isRel, isTw, isDisk, isBody, writerVars, isPast>>

(* put_blocks: body, then idx, each synced. *)
PutTweaks(rows, drops) ==
  /\ isTw' = AppendTweaks(isTw, rows, drops)
  /\ isDisk' = IF rows = << >> THEN isDisk ELSE isTw'
  /\ isBody' = Len(isTw')

SealTweaks ==
  /\ isStep = "sealTweaks"
  /\ \E rows \in {RowsFrom(LiveRows, tweak_index_next(isTw))} :
       IF Moved(rows, tweak_index_next(isTw), isChain)
       THEN isMode' = "liveFault" /\ UNCHANGED <<isTw, isDisk, isBody>>
       ELSE PutTweaks(rows, 0) /\ UNCHANGED isMode
  /\ isStep' = "idle"
  /\ UNCHANGED <<isChain, isRel, isFt, writerVars, isPast>>

(* The node has announced the block: the write-behind may seal it. *)
release_index_writebehind ==
  /\ isMode = "writer" /\ isStep = "idle"
  /\ isRel < TipHeight + 1
  /\ isRel' = TipHeight + 1
  /\ UNCHANGED <<isMode, isChain, isStep, tableVars, writerVars, isPast>>

clamp_index_released_before(h) == EarlierOf(isRel, h)

(* disconnect_tip_body holds the index appender lock from the pop of the   *)
(* confirmed height to the end of both cuts.                               *)
DisconnectPop ==
  /\ Up /\ isStep = "idle" /\ TipHeight > 0
  /\ isPast.drops < IsDrops
  /\ isChain' = Front(isChain)
  /\ isRel' = clamp_index_released_before(TipHeight)
  /\ isStep' = "cutTweaks"
  /\ isIo' = [isIo EXCEPT !.stale = isIo.cursor # -1 \/ isIo.pc \notin {"off", "top"}]
  /\ UNCHANGED <<isMode, tableVars, isQ, isResync, isCpu, isPast>>

(* The cut of the tweak files is not synced. *)
DisconnectCutTweaks ==
  /\ isStep = "cutTweaks"
  /\ isTw' = truncate_through_tip(isTw, TipHeight)
  /\ isBody' = Len(isTw')
  /\ isStep' = "cutFilters"
  /\ isPast' = [isPast EXCEPT !.drops = @ + 1]
  /\ UNCHANGED <<isMode, isChain, isRel, isFt, isDisk, writerVars>>

DisconnectCutFilters ==
  /\ isStep = "cutFilters"
  /\ isFt' = SubSeq(isFt, 1, EarlierOf(Len(isFt), Len(isChain)))
  /\ isStep' = "idle"
  /\ UNCHANGED <<isMode, isChain, isRel, isTw, isDisk, isBody, writerVars, isPast>>

AppenderFree == isStep \notin {"cutTweaks", "cutFilters"}

(* The head of io_loop: a resync forgets the cursor; past the target it    *)
(* waits for a release.                                                    *)
IoTop ==
  /\ isMode = "writer" /\ isIo.pc = "top"
  /\ \E c \in {IF isResync THEN -1 ELSE isIo.cursor} :
       \E start \in {IF c = -1 THEN next_needed ELSE c} :
         isIo' = [isIo EXCEPT !.cursor = c, !.stale = c # -1 /\ @,
                              !.pc = IF start > index_target THEN "top" ELSE "plan",
                              !.start = IF start > index_target THEN 0 ELSE start,
                              !.target = IF start > index_target THEN 0 ELSE index_target]
  /\ isResync' = FALSE
  /\ UNCHANGED <<isMode, isChain, isStep, isRel, tableVars, isQ, isCpu, isPast>>

Fatal == isMode' = "writerFault" /\ UNCHANGED isIo

(* The window ends at the target, at IsWindow heights or at its tx bound;  *)
(* a height that is not confirmed any more ends the thread.                *)
plan_window ==
  /\ isMode = "writer" /\ isIo.pc = "plan"
  /\ \E end \in isIo.start..EarlierOf(isIo.target, isIo.start + IsWindow - 1) :
       IF end > isIo.start /\ end > TipHeight THEN Fatal
       ELSE /\ isIo' = [isIo EXCEPT !.pc = "read", !.end = end,
                                    !.from = tweak_index_next(isTw),
                                    !.seen = isPast.drops]
            /\ UNCHANGED isMode
  /\ UNCHANGED <<isChain, isStep, isRel, tableVars, isQ, isResync, isCpu, isPast>>

WithWitnesses(h, from) == h >= from

(* index_heights, one confirmed height after the other; witnesses are read *)
(* for the heights the tweak table lacked when the window was planned.     *)
index_heightsNoWitness ==
  /\ isMode = "writer" /\ isIo.pc = "read"
  /\ \E h \in {isIo.start + Len(isIo.got)} :
       IF h > TipHeight THEN Fatal
       ELSE /\ isIo' = [isIo EXCEPT
                 !.got = Append(@, BlockRow(isChain, h, h > isIo.from, isIo.seen)),
                 !.pc = IF h = isIo.end THEN "send" ELSE "read"]
            /\ UNCHANGED isMode
  /\ UNCHANGED <<isChain, isStep, isRel, tableVars, isQ, isResync, isCpu, isPast>>
index_heights ==
  /\ isMode = "writer" /\ isIo.pc = "read"
  /\ \E h \in {isIo.start + Len(isIo.got)} :
       IF h > TipHeight THEN Fatal
       ELSE /\ isIo' = [isIo EXCEPT
                 !.got = Append(@, BlockRow(isChain, h, WithWitnesses(h, isIo.from), isIo.seen)),
                 !.pc = IF h = isIo.end THEN "send" ELSE "read"]
            /\ UNCHANGED isMode
  /\ UNCHANGED <<isChain, isStep, isRel, tableVars, isQ, isResync, isCpu, isPast>>

(* The channel holds two windows. *)
IoSend ==
  /\ isMode = "writer" /\ isIo.pc = "send" /\ Len(isQ) < 2
  /\ isQ' = Append(isQ, isIo.got)
  /\ isIo' = [IdleIo EXCEPT !.pc = "top", !.cursor = isIo.end + 1, !.stale = isIo.stale]
  /\ UNCHANGED <<isMode, isChain, isStep, isRel, tableVars, isResync, isCpu, isPast>>

(* A window is skipped while a resync is pending; otherwise the rows each  *)
(* table lacks now are built.                                              *)
CpuTake ==
  /\ isMode = "writer" /\ isCpu.pc = "idle" /\ isQ # << >>
  /\ isQ' = Tail(isQ)
  /\ isCpu' = IF isResync THEN isCpu
              ELSE [pc |-> "filters",
                    rows |-> RowsFrom(Head(isQ), EarlierOf(filter_index_next(isFt),
                                                           tweak_index_next(isTw))),
                    twFrom |-> tweak_index_next(isTw), seen |-> isPast.drops]
  /\ UNCHANGED <<isMode, isChain, isStep, isRel, tableVars, isIo, isResync, isPast>>

CpuMoved ==
  /\ isCpu' = IdleCpu
  /\ isIo' = [isIo EXCEPT !.stale = FALSE]
  /\ isResync' = TRUE

commit_filters ==
  /\ isMode = "writer" /\ isCpu.pc = "filters" /\ AppenderFree
  /\ \E rows \in {RowsFrom(isCpu.rows, filter_index_next(isFt))} :
       IF Moved(rows, filter_index_next(isFt), isChain)
       THEN CpuMoved /\ UNCHANGED isFt
       ELSE /\ isFt' = AppendFilters(isFt, rows)
            /\ isCpu' = [isCpu EXCEPT !.pc = "tweaks"]
            /\ UNCHANGED <<isResync, isIo>>
  /\ UNCHANGED <<isMode, isChain, isStep, isRel, isTw, isDisk, isBody, isQ, isPast>>

(* The tweak rows of a window, from the watermark they were built for. *)
TweakRows == RowsFrom(RowsFrom(isCpu.rows, isCpu.twFrom), tweak_index_next(isTw))

commit_tweaks ==
  /\ isMode = "writer" /\ isCpu.pc = "tweaks" /\ AppenderFree
  /\ IF Moved(TweakRows, tweak_index_next(isTw), isChain)
     THEN CpuMoved /\ UNCHANGED <<isTw, isDisk, isBody>>
     ELSE PutTweaks(TweakRows, isCpu.seen) /\ isCpu' = IdleCpu
          /\ UNCHANGED <<isResync, isIo>>
  /\ UNCHANGED <<isMode, isChain, isStep, isRel, isFt, isQ, isPast>>

(* What is in memory is gone. *)
Restarted ==
  /\ isMode' = "down" /\ isStep' = "idle" /\ isRel' = 0
  /\ isIo' = IdleIo /\ isQ' = << >> /\ isResync' = FALSE /\ isCpu' = IdleCpu
  /\ UNCHANGED <<isChain, isFt>>

(* Body records a put in progress may have written before its idx slots,   *)
(* or a cut in progress not yet taken from the body.                       *)
BodyLens ==
  {Len(isTw)}
    \cup (IF isStep = "sealTweaks" THEN {Len(isTw) + 1} ELSE {})
    \cup (IF isCpu.pc = "tweaks" THEN {Len(isTw) + Len(TweakRows)} ELSE {})

(* The process ends at any point; the files stay as the kernel holds them. *)
IsKill ==
  /\ isMode # "down" /\ isPast.kills < IsKills
  /\ Restarted
  /\ isBody' \in BodyLens
  /\ UNCHANGED <<isTw, isDisk>>
  /\ isPast' = [isPast EXCEPT !.kills = @ + 1]

(* The machine ends: a cut that was not synced may be undone, in the idx,  *)
(* in the body or in both.                                                 *)
PowerCut ==
  /\ isMode # "down" /\ isPast.kills < IsKills
  /\ isDisk # isTw
  /\ Restarted
  /\ isTw' \in {isTw, isDisk}
  /\ isDisk' = isTw'
  /\ isBody' \in {Len(isTw), Len(isDisk)}
  /\ isPast' = [isPast EXCEPT !.kills = @ + 1,
                              !.left = @ \cup {isTw'[i].fk : i \in Len(isTw)+1..Len(isTw')}]

IsNext ==
  \/ IsBoot \/ index_tip_entry \/ release_index_writebehind
  \/ \E s \in IsSides : Connect(s)
  \/ SealFilters \/ SealTweaks
  \/ DisconnectPop \/ DisconnectCutTweaks \/ DisconnectCutFilters
  \/ IoTop \/ plan_window \/ index_heights \/ IoSend
  \/ CpuTake \/ commit_filters \/ commit_tweaks
  \/ IsKill \/ PowerCut

IsSpec == IsInit /\ [][IsNext]_isVars

(***************************************************************************)
(* Properties                                                              *)
(***************************************************************************)

(* Whenever no disconnect is under way, every filter row is the confirmed  *)
(* block's and its filter header commits to the rows below it; every tweak *)
(* row is the confirmed block's too, except one a power cut brought back   *)
(* after its cut (a slot holds no header, so startup cannot tell).  Late   *)
(* windows of the write-behind, reorganisations between read and commit,   *)
(* and restarts inside a disconnect or a put do not break it.              *)
RowsBacked ==
  (Up /\ isStep \notin {"cutTweaks", "cutFilters"}) =>
    /\ Len(isFt) <= Len(isChain)
    /\ \A i \in 1..Len(isFt) :
         /\ isFt[i].fk = FkAt(isChain, i - 1)
         /\ isFt[i].head = [j \in 1..i |-> FkAt(isChain, j - 1)]
    /\ IsOrigin + Len(isTw) <= LaterOf(IsOrigin, Len(isChain))
    /\ \A i \in 1..Len(isTw) :
         isTw[i].fk \in isPast.left \/ isTw[i].fk = FkAt(isChain, IsOrigin + i - 1)

(* A tweak row is built from its block's witnesses, unless the chain was   *)
(* shortened between the read of its window and the build.                 *)
RowsWhole ==
  \A i \in 1..Len(isTw) : isTw[i].calm => isTw[i].whole

(* Without the exception: a committed tweak row always holds the tweaks of *)
(* its block.  A window read while the tweak table was ahead carries no    *)
(* witnesses; a disconnect and a connect in between lower the watermark,   *)
(* and the row is committed with no tweaks at all.                         *)
RowsWholeAlways == \A i \in 1..Len(isTw) : isTw[i].whole

(* Nothing is in flight and the reader waits for a release. *)
QuietWriter ==
  /\ isMode = "writer" /\ isStep = "idle"
  /\ isRel = TipHeight + 1
  /\ isQ = << >> /\ isCpu.pc = "idle" /\ ~isResync
  /\ isIo.pc = "top"
  /\ (IF isIo.cursor = -1 THEN next_needed ELSE isIo.cursor) > index_target

(* When the write-behind rests with the tip released, both tables reach    *)
(* the tip, unless a disconnect moved the chain under its cursor and no    *)
(* window has been refused since: skipped and refused windows and the      *)
(* resync flag never lose a height.                                        *)
CaughtUp ==
  (QuietWriter /\ ~isIo.stale) => next_needed > TipHeight

(* A confirm batch finds both watermarks at its own height: neither a      *)
(* restart in the middle of a seal or a disconnect, nor a reorganisation,  *)
(* ends the node with "invariant: live index commit".                      *)
LiveInStep == isMode # "liveFault"

(* The filter and tweak tables hold the rows of the chain, whole, to the tip, *)
(* and never stop the node.                                                   *)
RowsSafe == RowsBacked /\ RowsWhole /\ CaughtUp /\ LiveInStep
====
