----------------------------- MODULE BranchHub -----------------------------
(***************************************************************************)
(* The chain hub's choice of tip (rbitcoin-net/src/chain.rs): bodies that   *)
(* do not extend the tip are held, the heaviest held branch is connected    *)
(* with the old path disconnected and put back on failure, and an operator  *)
(* invalidates, reconsiders or prefers a block.  Every handler runs on the  *)
(* single tip-accept thread, so it is one step.  The store keeps every body *)
(* that was ever connected.  Headers are synced before bodies: the header   *)
(* of every block of the tree is known, and each block carries one unit of  *)
(* work.                                                                    *)
(***************************************************************************)
EXTENDS Naturals, Sequences, SequencesExt, FiniteSets

CONSTANTS BlockTree,  \* the parent of each block, 0 the genesis; a parent has the lower number
          BadSets,    \* the possible sets of blocks whose connect fails a rule
          HeldCap,    \* HeldBodies::CAP
          StaleBelow, \* HeldBodies::STALE_BELOW
          ForkTipCap, \* FORK_TIP_CAP
          FileCap,    \* INVALID_FILE_CAP
          BMaxInval,  \* bound: invalidated paths on record
          BMaxFault   \* bound: local store faults

VARIABLES bad,     \* blocks that fail at connect
          hub,     \* the chain hub and the files it owns
          faults,  \* local faults so far
          settled, \* no fault since the last handler that ran to its end
          torn,    \* a fault ended a disconnect half-way
          lastOp   \* an invalidation and the reconsideration that undoes it

hubVars == <<bad, hub, faults, settled, torn, lastOp>>

HubNodes == 1..Len(BlockTree)

\* The path from the genesis (excluded) to b.
Paths[n \in 0..Len(BlockTree)] == IF n = 0 THEN <<>> ELSE Append(Paths[BlockTree[n]], n)
Lineage(b) == Paths[b]
Ancestry[n \in 0..Len(BlockTree)] == {0} \cup ToSet(Paths[n])
Weight(b) == Len(Lineage(b))
Linked(h, b) == b \in Ancestry[h.tip]

\* The blocks of b's path that are not connected, oldest first.
SidePath(h, b) == SelectSeq(Lineage(b), LAMBDA x : ~Linked(h, x))
ForkOf(h, br) == BlockTree[br[1]]

SideSet(h, b) == Ancestry[b] \ Ancestry[h.tip]

is_block_invalid(h, b) == SideSet(h, b) \cap h.inv # {}
Loadable(h, b) == b \in ToSet(h.held) \cup h.arch
Assembles(h, b) == ~Linked(h, b) /\ \A x \in SideSet(h, b) : Loadable(h, x)

DropHeld(h, bs) == [h EXCEPT !.held = SelectSeq(@, LAMBDA x : x \notin bs)]

hold_body(h, b, victim) ==
    IF Linked(h, b) \/ Weight(h.tip) > Weight(b) + StaleBelow \/ b \in ToSet(h.held) THEN h
    ELSE LET room == IF Len(h.held) < HeldCap THEN h ELSE DropHeld(h, {victim})
         IN  [room EXCEPT !.held = Append(@, b)]

Trim(h) == DropHeld(h, {x \in ToSet(h.held) : Weight(h.tip) > Weight(x) + StaleBelow})

ForkInsert(h, b) ==
    IF b = 0 \/ b \in ToSet(h.forks) THEN h
    ELSE [h EXCEPT !.forks = Append(IF Len(@) = ForkTipCap THEN Tail(@) ELSE @, b)]

(* The marks of blocks that failed to connect go to block.invalid.         *)
WriteMarks(h, f) ==
    IF f.kind = "write" THEN [h EXCEPT !.pend = TRUE]
    ELSE [h EXCEPT !.file = h.failed, !.pend = FALSE]
keep_failed(h, b, f) ==
    IF b \in ToSet(h.failed)
    THEN IF h.pend THEN WriteMarks(h, f) ELSE h
    ELSE WriteMarks([h EXCEPT !.failed = Append(IF Len(@) >= FileCap THEN Tail(@) ELSE @, b)], f)
note_failed_connect(h, b, f) ==
    keep_failed(DropHeld([h EXCEPT !.inv = @ \cup {b}], {b}), b, f)
prune_failed(h, f) ==
    LET kept == SelectSeq(h.failed, LAMBDA x : x \in h.inv)
    IN  IF kept # h.failed \/ h.pend THEN WriteMarks([h EXCEPT !.failed = kept], f) ELSE h

\* connect_at on the tip: the body is archived, the tip event is recorded.
connect_at(h, b) == Trim([h EXCEPT !.tip = b, !.arch = @ \cup {b}])

RECURSIVE ConnectAll(_, _)
ConnectAll(h, br) == IF br = <<>> THEN h ELSE ConnectAll(connect_at(h, Head(br)), Tail(br))

(***************************************************************************)
(* accept_branch_prefix: disconnect to the fork, connect the branch, and on *)
(* a failing block keep the prefix if it alone beats the old path, else put *)
(* the old path back.  f is the local fault of this handler: "connect" of   *)
(* f.blk, "restore" (that connect fails and the old path cannot be put      *)
(* back), "disc" (the disconnect stops at f.blk).                           *)
(***************************************************************************)
Weaker(h, br, old) ==
    LET gain == Weight(h.tip) - old IN
    /\ Len(br) <= gain
    /\ ~(Last(br) = h.prec /\ Len(br) = gain)

Adopted(h0, h, part) ==
    LET dropped == DropHeld([h EXCEPT !.event = Last(part)], ToSet(part))
        forked  == IF h0.tip = ForkOf(h0, part) THEN dropped ELSE ForkInsert(dropped, h0.tip)
    IN  [forked EXCEPT !.forks = SelectSeq(@, LAMBDA x : x \notin ToSet(part))]

\* Mutated form: the tips of the undone branch are announced although it was undone.
accept_branch_restoreNoClear(h0, h, part) ==
    [h EXCEPT !.tip = h0.tip, !.event = IF part = <<>> THEN @ ELSE Last(part)]
accept_branch_restore(h0, h, part) ==
    [h EXCEPT !.tip = h0.tip, !.event = IF part = <<>> THEN @ ELSE h0.tip]

accept_branch_prefix(h, br, f) ==
    LET fork  == ForkOf(h, br)
        stops == {i \in 1..Len(br) : br[i] \in bad \/ (f.kind \in {"connect", "restore"} /\ br[i] = f.blk)}
        k     == CHOOSE i \in stops : \A j \in stops : i <= j
        part  == SubSeq(br, 1, k - 1)
        done  == ConnectAll([h EXCEPT !.tip = fork], IF stops = {} THEN br ELSE part)
        R(out, g, at) == [out |-> out, h |-> g, at |-> at]
    IN CASE \E x \in ToSet(br) : is_block_invalid(h, x) -> R("invalidated", h, 0)
         [] ~Linked(h, fork) -> R("orphan", h, 0)
         [] Linked(h, fork) /\ Weaker(h, br, Weight(fork)) -> R("weaker", h, 0)
         [] f.kind = "disc" /\ f.blk \in ToSet(Lineage(h.tip)) /\ Weight(f.blk) > Weight(fork) ->
                R("torn", [h EXCEPT !.tip = f.blk], 0)
         [] stops = {} -> R("accepted", Adopted(h, done, br), 0)
         [] br[k] \in bad /\ Len(part) > Weight(h.tip) - Weight(fork) ->
                R("prefix", Adopted(h, note_failed_connect(done, br[k], f), part), br[k])
         [] f.kind = "restore" /\ f.blk = br[k] -> R("torn", [done EXCEPT !.tip = fork], 0)
         [] OTHER -> R(IF br[k] \in bad THEN "failed" ELSE "fault",
                       accept_branch_restore(h, done, part), br[k])

(* Held branches compete by work, then the preferred tip, then arrival.    *)
HeldSeq(h, b) == IF b \in ToSet(h.held) THEN CHOOSE i \in 1..Len(h.held) : h.held[i] = b
               ELSE Len(h.held) + 1
held_branch_beats(h, c, b) ==
    \/ b = 0
    \/ Weight(c) > Weight(b)
    \/ Weight(c) = Weight(b) /\ b # h.prec /\ (c = h.prec \/ HeldSeq(h, c) < HeldSeq(h, b))
BestOfStarts(h, starts) ==
    FoldLeft(LAMBDA b, c : IF held_branch_beats(h, c, b) THEN c ELSE b, 0,
             SelectSeq(starts, LAMBDA s : /\ s # 0
                                          /\ Assembles(h, s)
                                          /\ ~is_block_invalid(h, s)
                                          /\ Linked(h, ForkOf(h, SidePath(h, s)))))

best_held_branch(h) == BestOfStarts(h, h.held \o <<h.prec>>)

RECURSIVE try_apply_held(_, _, _)
try_apply_held(h, f, n) ==
    LET b == best_held_branch(h)
        r == accept_branch_prefix(h, SidePath(h, b), f)
    IN  IF n = 0 \/ b = 0 THEN [h |-> h, out |-> "none"]
        ELSE CASE r.out = "prefix" -> try_apply_held(r.h, f, n - 1)
               [] r.out = "failed" ->
                    LET next == try_apply_held(note_failed_connect(r.h, r.at, f), f, n - 1)
                    IN  [next EXCEPT !.out = IF @ \in {"none", "weaker"} THEN "failed" ELSE @]
               [] OTHER -> [h |-> r.h, out |-> r.out]
ApplyHeld(h, f) == try_apply_held(h, f, Len(h.held) + 1)

(***************************************************************************)
(* Operator commands.                                                       *)
(***************************************************************************)
side_starts(h, leaves) == h.forks \o h.held \o <<h.prec>> \o leaves

RECURSIVE activate_best_side_branch(_, _, _, _)
activate_best_side_branch(h, leaves, tried, f) ==
    LET b == BestOfStarts(h, SelectSeq(side_starts(h, leaves), LAMBDA s : s \notin tried))
        r == accept_branch_prefix(h, SidePath(h, b), f)
    IN  IF b = 0 THEN [h |-> h, out |-> "none"]
        ELSE CASE r.out = "prefix" -> activate_best_side_branch(r.h, leaves, tried \cup {b}, f)
               [] r.out = "failed" ->
                    activate_best_side_branch(note_failed_connect(r.h, r.at, f), leaves, tried \cup {b}, f)
               [] OTHER -> [h |-> r.h, out |-> r.out]

RECURSIVE RelatedPaths(_, _)
RelatedPaths(paths, seeds) ==
    LET hit == {i \in 1..Len(paths) : \/ ToSet(paths[i].hashes) \cap seeds # {}
                                      \/ BlockTree[paths[i].hashes[1]] \in seeds}
        more == seeds \cup UNION {ToSet(paths[i].hashes) : i \in hit}
    IN  IF more = seeds THEN hit ELSE RelatedPaths(paths, more)

\* Leaves that a reconsideration restored and that were once connected stay known as forks.
park_restored_leaves(h, leaves, validated) ==
    LET sides   == {s \in ToSet(side_starts(h, leaves)) :
                        s # 0 /\ Assembles(h, s) /\ ~is_block_invalid(h, s)}
        below(s) == SideSet(h, s) \ {s}
        since(s) == {x \in SideSet(h, s) :
                        ~\E y \in SideSet(h, s) : y \in ToSet(h.forks) /\ Weight(y) >= Weight(x)}
        kept    == {s \in sides : s \in ToSet(leaves) /\ since(s) \subseteq validated}
        under   == UNION {below(s) : s \in kept \cup (sides \cap ToSet(h.forks))}
        order   == SelectSeq(leaves, LAMBDA s : s \in kept \ under)
    IN  FoldLeft(LAMBDA g, s : ForkInsert(g, s), h, order)
-----------------------------------------------------------------------------
NoFault == [kind |-> "none", blk |-> 0]
NoOp == [op |-> "none", blk |-> 0, work |-> 0]
FaultSet == {NoFault} \cup
    (IF faults < BMaxFault THEN [kind : {"connect", "restore", "disc"}, blk : HubNodes]
                                    \cup [kind : {"write"}, blk : {0}] ELSE {})

HubInit ==
    /\ bad \in BadSets
    /\ hub = [tip |-> 0, arch |-> {}, held |-> <<>>, forks |-> <<>>, inv |-> {}, paths |-> <<>>,
              failed |-> <<>>, file |-> <<>>, pend |-> FALSE, prec |-> 0, event |-> 0]
    /\ faults = 0 /\ settled = TRUE /\ torn = FALSE /\ lastOp = NoOp

\* The end of a handler that met fault f and ended with outcome out.
Finish(h, out, f) ==
    /\ hub' = h
    /\ faults' = IF f = NoFault THEN faults ELSE faults + 1
    /\ settled' = IF out = "kept" THEN settled ELSE out \notin {"fault", "torn"}
    /\ torn' = (torn \/ out = "torn")
    /\ UNCHANGED bad

(* accept_received_block: accept_incoming with holding, then the held      *)
(* branches, then the memory of a failed connect.                          *)
ReceiveDirect(b, f) ==
    LET h == DropHeld([connect_at(hub, b) EXCEPT !.event = b], {b})
        r == ApplyHeld(h, f)
    IN  IF b \in bad THEN Finish(note_failed_connect(hub, b, f), "kept", f)
        ELSE IF f.kind = "connect" /\ f.blk = b THEN Finish(hub, "fault", f)
        ELSE Finish(r.h, r.out, f)
\* A body at the tip's height is offered as a branch of one block.
ReceiveAtTip(b, f, victim) ==
    LET h == hold_body(hub, b, victim)
        r == accept_branch_prefix(h, <<b>>, f)
        g == IF b \in ToSet(hub.held) \/ r.out = "weaker" THEN r.h ELSE DropHeld(r.h, {b})
        a == ApplyHeld(DropHeld(g, IF r.out = "accepted" THEN {b} ELSE {}), f)
    IN  CASE r.out \in {"weaker", "accepted"} -> Finish(a.h, a.out, f)
          [] r.out = "failed" -> Finish(note_failed_connect(g, b, f), "kept", f)
          [] OTHER -> Finish(g, r.out, f)
ReceiveSide(b, f, victim) ==
    LET a == ApplyHeld(hold_body(hub, b, victim), f) IN Finish(a.h, a.out, f)
ReceiveBody(b, f, victim) ==
    IF BlockTree[b] = hub.tip THEN ReceiveDirect(b, f)
    ELSE IF Linked(hub, BlockTree[b]) /\ Weight(b) = Weight(hub.tip) THEN ReceiveAtTip(b, f, victim)
    ELSE ReceiveSide(b, f, victim)
Receive(b, f, victim) ==
    /\ ~Linked(hub, b) /\ b \notin hub.inv
    /\ BlockTree[b] = hub.tip \/ ~is_block_invalid(hub, BlockTree[b])
    /\ ReceiveBody(b, f, victim)
    /\ lastOp' = NoOp

\* A copy of b whose transactions do not match its header: b is not marked.
ReceiveMutated(b) ==
    /\ ~Linked(hub, b) /\ ~is_block_invalid(hub, b)
    /\ Finish(DropHeld(hub, {b}), "kept", NoFault)
    /\ lastOp' = NoOp

\* accept_block without holding: a block this node or its miner just found.
Mine(b) ==
    /\ BlockTree[b] = hub.tip /\ b \notin bad
    /\ \A x \in ToSet(hub.held) \cup hub.arch \cup hub.inv : b \notin ToSet(Lineage(x))
    /\ Finish([connect_at(hub, b) EXCEPT !.event = b], "kept", NoFault)
    /\ lastOp' = NoOp

\* Initial sync found that b fails to connect.
MarkFailed(b, f) ==
    /\ b \in bad /\ ~Linked(hub, b)
    /\ Finish(note_failed_connect(hub, b, f), "kept", f)
    /\ lastOp' = NoOp

MarkPath(h, b) ==
    LET path == SelectSeq(Lineage(h.tip), LAMBDA x : Weight(x) >= Weight(b))
    IN  DropHeld([h EXCEPT !.inv = @ \cup ToSet(path),
                           !.paths = Append(@, [hashes |-> path, connected |-> TRUE])], ToSet(path))

invalidate_block(b, f) ==
    LET marked == MarkPath(hub, b)
        stump  == [marked EXCEPT !.tip = BlockTree[b]]
        a      == activate_best_side_branch(stump, <<>>, {}, f)
        loose  == activate_best_side_branch(
                    [hub EXCEPT !.inv = @ \cup {b},
                                !.paths = Append(@, [hashes |-> <<b>>, connected |-> FALSE])], <<>>, {}, f)
    IN  /\ Len(hub.paths) < BMaxInval
        /\ IF ~Linked(hub, b) THEN Finish(loose.h, loose.out, f)
           ELSE IF f.kind = "disc" /\ f.blk \in ToSet(Lineage(hub.tip)) /\ Weight(f.blk) >= Weight(b)
           THEN Finish([marked EXCEPT !.tip = f.blk], "torn", f)
           ELSE Finish([a.h EXCEPT !.event = IF a.h.tip = BlockTree[b] THEN a.h.tip ELSE @], a.out, f)
        /\ lastOp' = IF f = NoFault THEN [op |-> "invalidated", blk |-> b, work |-> Weight(hub.tip)]
                     ELSE NoOp

ReconsiderLeaves(paths, hit, b) ==
    Append([i \in 1..Cardinality(hit) |-> Last(SetToSortSeq({<<j, paths[j].hashes>> : j \in hit},
                                                  LAMBDA x, y : x[1] < y[1])[i][2])], b)

reconsider_block(b, f) ==
    LET related == {b} \cup SideSet(hub, b) \cup
                   (IF SidePath(hub, b) = <<>> THEN {BlockTree[b]} ELSE {ForkOf(hub, SidePath(hub, b))})
        hit     == RelatedPaths(hub.paths, related)
        hashes  == UNION {ToSet(hub.paths[i].hashes) : i \in hit}
        valid   == UNION {ToSet(hub.paths[i].hashes) : i \in {j \in hit : hub.paths[j].connected}}
        leaves  == ReconsiderLeaves(hub.paths, hit, b)
        cleared == prune_failed([hub EXCEPT !.inv = (@ \ related) \ hashes,
                                            !.paths = [i \in 1..(Len(@) - Cardinality(hit)) |->
                                                SetToSortSeq((1..Len(@)) \ hit, <)[i]]], f)
        kept    == [cleared EXCEPT !.paths = [i \in DOMAIN @ |-> hub.paths[@[i]]]]
        a       == activate_best_side_branch(kept, leaves, {}, f)
    IN  /\ Finish(park_restored_leaves(a.h, leaves, valid), a.out, f)
        /\ lastOp' = IF f = NoFault /\ lastOp.op = "invalidated" /\ lastOp.blk = b
                     THEN [lastOp EXCEPT !.op = "undone"] ELSE NoOp

precious_block(b, f) ==
    LET pref == [hub EXCEPT !.prec = b]
        br   == SidePath(pref, b)
        r    == accept_branch_prefix(pref, br, f)
        a    == ApplyHeld(pref, f)
        Back(h) == [h EXCEPT !.prec = hub.prec]
    IN  /\ ~is_block_invalid(hub, b)
        /\ Assembles(hub, b) \/ Linked(hub, b)
        /\ IF Linked(hub, b)
           THEN Finish(IF a.out \in {"failed", "fault", "torn"} THEN Back(a.h) ELSE a.h,
                       IF a.out \in {"fault", "torn"} THEN a.out ELSE "kept", f)
           ELSE Finish(IF r.out \in {"failed", "fault", "torn", "prefix"} THEN Back(r.h) ELSE r.h,
                       IF r.out \in {"fault", "torn"} THEN r.out ELSE "kept", f)
        /\ lastOp' = NoOp

\* The process ends and the store is opened again.
Restart ==
    /\ hub' = [hub EXCEPT !.held = <<>>, !.forks = <<>>, !.inv = ToSet(hub.file), !.paths = <<>>,
                          !.failed = hub.file, !.pend = FALSE, !.prec = 0, !.event = hub.tip]
    /\ settled' = TRUE /\ torn' = FALSE /\ lastOp' = NoOp
    /\ UNCHANGED <<bad, faults>>

Victims == IF Len(hub.held) = HeldCap THEN ToSet(hub.held) ELSE {0}

HubNext ==
    \/ \E b \in HubNodes, f \in FaultSet : \E v \in Victims : Receive(b, f, v)
    \/ \E b \in HubNodes : ReceiveMutated(b)
    \/ \E b \in HubNodes : Mine(b)
    \/ \E b \in HubNodes, f \in FaultSet : MarkFailed(b, f)
    \/ \E b \in HubNodes, f \in FaultSet : invalidate_block(b, f)
    \/ \E b \in HubNodes, f \in FaultSet : reconsider_block(b, f)
    \/ \E b \in HubNodes, f \in FaultSet : precious_block(b, f)
    \/ Restart

HubSpec == HubInit /\ [][HubNext]_hubVars
-----------------------------------------------------------------------------
(* Shape of the hub's state: the held rows and the fork tips are distinct  *)
(* and within their caps.                                                  *)
HubTypeOK ==
    /\ hub.tip \in 0..Len(BlockTree) /\ hub.arch \subseteq HubNodes
    /\ IsInjective(hub.held) /\ Len(hub.held) <= HeldCap
    /\ IsInjective(hub.forks) /\ Len(hub.forks) <= ForkTipCap
    /\ Len(hub.failed) <= FileCap

(* The tip is a heaviest branch: no branch the hub can assemble from a held *)
(* body, a fork tip or the preferred block, without a marked block, has     *)
(* more work than the tip.  After a local fault the same holds of the held  *)
(* bodies once a later handler ran to its end.                              *)
BestWins ==
    settled => \A s \in ToSet(hub.held) \cup {hub.prec} \cup (IF faults = 0 THEN ToSet(hub.forks) ELSE {}) :
        s # 0 /\ Assembles(hub, s) /\ ~is_block_invalid(hub, s) => Weight(s) <= Weight(hub.tip)

(* A marked block is not on the connected chain, and a block that extends   *)
(* the chain over a mark is not connected either: while the old path could  *)
(* be disconnected, invalidating a block takes its descendants off too.     *)
MarkedIsOff == ~torn => \A b \in hub.inv : ~Linked(hub, b)

(* The marks that survive a restart are marks of blocks that failed to      *)
(* connect, each is also a mark in memory, and the file holds them as soon  *)
(* as a write succeeded.                                                    *)
FailedMarksExact ==
    /\ ToSet(hub.failed) \subseteq hub.inv \cap bad
    /\ ~hub.pend => hub.file = hub.failed

(* The last tip that was announced is the tip, also when a branch was       *)
(* connected in part and undone.                                            *)
AnnouncedIsTip == ~torn => hub.event = hub.tip

(* Invalidating a block and reconsidering it at once leads back to a chain  *)
(* with at least the work of the one that was left.                         *)
UndoRestoresWork == lastOp.op = "undone" => Weight(hub.tip) >= lastOp.work

(* The hub stands on a heaviest branch without a marked block, and what it *)
(* remembers and announced is in step.                                     *)
HubSafe ==
    /\ HubTypeOK
    /\ BestWins
    /\ MarkedIsOff
    /\ FailedMarksExact
    /\ AnnouncedIsTip
    /\ UndoRestoresWork
=============================================================================
