---------------------------- MODULE BlockAssign ----------------------------
(***************************************************************************)
(* Who is asked for which block body during initial block download: the    *)
(* coordinator's request table (IbdWorkState.inflight), the peers' own     *)
(* queues (PeerSlot), the body presence map, the densify cursor, and the   *)
(* handlers that hand work out and take answers, refusals, stalls, deaths  *)
(* and confirm verdicts back.                                              *)
(*                                                                         *)
(* The path holds one hash per height, so a hash is its height.  Rates and *)
(* clocks enter as the choices they decide: whether the asks made before   *)
(* this call are old (per peer), which peers received something lately,    *)
(* in which order peers rank.                                              *)
(***************************************************************************)
EXTENDS Naturals, FiniteSets, Sequences, SequencesExt

CONSTANTS
  AsPeers,     \* connection ids, never reused
  AsFirst,     \* the ids connected at the start
  AsManual,    \* ids of addnode/connect peers: paused, never kicked
  AsTop,       \* highest header on the path
  AsTipMax,    \* TIP_HOLE_MAX
  AsRacers,    \* TIP_HOLE_MAX_PEERS
  AsPerPeer,   \* cfg.per_peer
  AsWindow,    \* cfg.window
  AsStop,      \* cfg.assign_stop_bytes, in bodies
  AsQuarter,   \* queued bodies that make a tip gap a hole
  AsFree,      \* queued bodies below which densify is unrestricted
  AsAhead,     \* blocks confirm takes in one soft window
  AsFaults     \* bound on refusals, deaths, stalls, bad bodies, rejects

VARIABLES
  asSt,        \* the coordinator's work state
  asHub,       \* what the confirm side owns: tip, taken, queue, ...
  asLeft       \* faults left

asVars == <<asSt, asHub, asLeft>>

AsH == 1 .. AsTop
NoSlot == [up |-> FALSE, paused |-> FALSE, inf |-> {}, late |-> {}]

AsFrom(first) ==
  /\ asSt = [slot |-> [p \in AsPeers |-> [NoSlot EXCEPT !.up = p \in first]],
             racing |-> [h \in AsH |-> {}], retired |-> [h \in AsH |-> {}],
             lacks |-> {}, body |-> [h \in AsH |-> "none"],
             scan |-> 0, ready |-> 0, lo |-> 0, stuck |-> FALSE, used |-> first,
             room |-> 0, old |-> {}]
  /\ asHub = [tip |-> 0, taken |-> 0, queue |-> {}, back |-> {},
              dropped |-> {}, verdicts |-> {}]
  /\ asLeft = AsFaults
AsInit == AsFrom(AsFirst)

(***************************************************************************)
(* Reading the work state.                                                 *)
(***************************************************************************)
claim_ready(h) == h <= asHub.taken \/ h <= asHub.tip \/ h \in asHub.queue
holders(s, h) == s.racing[h] \cup s.retired[h]
AskedFor(s) == {h \in AsH : holders(s, h) # {}}
inflight_needs_racer(s, h) == s.racing[h] = {} /\ s.retired[h] # {}
live_getdata_cover(s, h) == \E p \in s.racing[h] : s.slot[p].up
takes_block_requests(s) == {p \in AsPeers : s.slot[p].up /\ ~s.slot[p].paused}
peer_has_slot(s, p) == s.slot[p].up /\ Cardinality(s.slot[p].inf) < AsPerPeer
path_lo == asHub.tip + 1
TipBatch == {h \in AsH : h >= path_lo /\ h < path_lo + AsTipMax}

need_contig_ahead(s) ==
  \E h \in AsH : h > asHub.tip /\ s.body[h] # "known" /\ h \notin asHub.queue
download_gate_closed(s) == s.stuck /\ ~need_contig_ahead(s)

(***************************************************************************)
(* PeerSlot bookkeeping.                                                   *)
(***************************************************************************)
track_remove(sl, h) ==
  IF h \in sl.inf THEN [sl EXCEPT !.inf = @ \ {h}, !.late = @ \cup {h}] ELSE sl
note_answer(sl, h) == [sl EXCEPT !.inf = @ \ {h}, !.late = @ \ {h}]
track_retain(sl, keep, aged) ==
  LET inf  == sl.inf \cap keep
      late == (IF aged THEN {} ELSE sl.late) \cup (sl.inf \ keep)
  IN [sl EXCEPT !.inf = inf, !.late = late]

Forget(s, h) == [s EXCEPT !.racing[h] = {}, !.retired[h] = {}]
clear_hash_inflight(s, h) ==
  [Forget(s, h) EXCEPT !.slot = [p \in AsPeers |-> track_remove(s.slot[p], h)]]
mark_missing(s, h) == [s EXCEPT !.body[h] = "missing"]

reopen_for_densify(s, freed) ==
  IF freed = {} THEN s
  ELSE [s EXCEPT !.scan = Min({@} \cup freed), !.ready = Min({@} \cup freed)]

(* p no longer holds the hashes in owed: the table forgets it, and what it *)
(* alone held is free again.                                               *)
release_block_requests(s, p, owed) ==
  LET freed == {h \in owed : holders(s, h) = {p}}
  IN reopen_for_densify(
       [s EXCEPT !.racing = [h \in AsH |-> IF h \in owed THEN s.racing[h] \ {p} ELSE s.racing[h]],
                 !.retired = [h \in AsH |-> IF h \in owed THEN s.retired[h] \ {p} ELSE s.retired[h]],
                 !.body = [h \in AsH |-> IF h \in freed /\ s.body[h] = "pending"
                                         THEN "missing" ELSE s.body[h]]],
       freed)
release_peer_block_work(s, p) ==
  release_block_requests([s EXCEPT !.slot[p] = NoSlot], p, s.slot[p].inf)
disconnect_peer(s, p) == IF s.slot[p].up THEN release_peer_block_work(s, p) ELSE s
pause_block_download(s, p) ==
  release_block_requests(
    [s EXCEPT !.slot[p] = [@ EXCEPT !.inf = {}, !.late = @ \cup s.slot[p].inf,
                                    !.paused = TRUE]], p, s.slot[p].inf)

(***************************************************************************)
(* Handing out requests.                                                   *)
(***************************************************************************)
Sent(s, p, h) ==
  [s EXCEPT !.slot[p].inf = @ \cup {h},
            !.racing[h] = @ \cup {p}, !.retired[h] = @ \ {p},
            !.old = @ \ {<<h, p>>}]
CanIssue(s, p, h) ==
  /\ s.slot[p].up
  /\ h \notin s.slot[p].inf
  /\ <<p, h>> \notin s.lacks
  /\ \/ h \in AskedFor(s)
     \/ Cardinality(asHub.queue) + Cardinality(AskedFor(s)) + 1 <= AsStop
issue_one(s, p, h) ==
  [Sent(s, p, h) EXCEPT !.room = IF h \in AskedFor(s) \/ @ = 0 THEN @ ELSE @ - 1]

retire_hash_owner(s, h, p) ==
  IF p \in s.racing[h]
  THEN [s EXCEPT !.racing[h] = @ \ {p}, !.retired[h] = @ \cup {p}] ELSE s

demote_zombie_pending_for_fetch(s, h) ==
  IF s.body[h] = "pending" /\ ~claim_ready(h) THEN mark_missing(s, h) ELSE s

(* The owner of a tip hole to drop from the race.  slow is the peer the    *)
(* rates single out; fresh are the peers that received something lately.   *)
fifo_blocked_owner_to_drop(s, h, slow) ==
  {p \in s.racing[h] \cap slow :
     /\ s.slot[p].up /\ Cardinality(s.slot[p].inf) > 1 /\ <<h, p>> \in s.old
     /\ \E q \in AsPeers \ holders(s, h) : peer_has_slot(s, q) /\ h \notin s.slot[q].inf}
tip_hole_owner_to_drop(s, h, slow, fresh) ==
  LET own   == s.racing[h]
      fifo  == fifo_blocked_owner_to_drop(s, h, slow)
      stale == own \ fresh
      up    == {p \in AsPeers : s.slot[p].up}
  IN IF fifo # {} THEN fifo
     ELSE IF Cardinality(own) = 1
     THEN {p \in own : <<h, p>> \in s.old /\ (p \in stale \/ Cardinality(up) > 1)}
     ELSE IF own \subseteq stale THEN {}
     ELSE IF stale # {} THEN {CHOOSE p \in stale : TRUE} ELSE own \cap slow

(* Ask peers in rank order until need more of them hold h. *)
RECURSIVE AskInOrder(_, _, _, _, _)
AskInOrder(s, h, rank, need, avoid) ==
  IF rank = <<>> \/ need = 0 THEN [s |-> s, need |-> need]
  ELSE LET p  == Head(rank)
           ok == /\ p \notin avoid \cup holders(s, h) /\ peer_has_slot(s, p)
                 /\ CanIssue(s, p, h)
       IN IF ok THEN AskInOrder(issue_one(s, p, h), h, Tail(rank), need - 1, avoid)
          ELSE AskInOrder(s, h, Tail(rank), need, avoid)

reask_aged_retired_owner(r, h) ==
  LET aged == {p \in r.s.retired[h] : <<h, p>> \in r.s.old /\ r.s.slot[p].up}
  IN IF r.need = 0 \/ aged = {} THEN r.s ELSE Sent(r.s, CHOOSE p \in aged : TRUE, h)

Cover(s, h, max, drop, rank, alone) ==
  LET held == Min({Cardinality(holders(s, h)), max})
      r    == AskInOrder(s, h, rank, Max({max - held, IF alone THEN 1 ELSE 0}), drop)
  IN IF alone THEN reask_aged_retired_owner(r, h) ELSE r.s
Contest(s, h, max, drop, rank) ==
  Cover(s, h, max, drop, rank, inflight_needs_racer(s, h))
Drop(s, h, max, v, drop) ==
  Contest(FoldSet(LAMBDA p, t : retire_hash_owner(t, h, p), s, drop), h, max, drop, v.rank)
Race(s, h, max, v) == Drop(s, h, max, v, tip_hole_owner_to_drop(s, h, v.slow, v.fresh))
Settled(h) == h \in asHub.dropped \/ claim_ready(h)
CoverHole(s, h, max, v) ==
  IF Settled(h) THEN s ELSE Race(demote_zombie_pending_for_fetch(s, h), h, max, v)

\* A hole nobody could be asked for ends the pass over the holes.
RECURSIVE cover_tip_holes(_, _, _, _)
cover_tip_holes(s, holes, max, v) ==
  IF holes = <<>> THEN s
  ELSE LET next(t) == IF holders(t, Head(holes)) # {} \/ Settled(Head(holes))
                      THEN cover_tip_holes(t, Tail(holes), max, v) ELSE t
       IN next(CoverHole(s, Head(holes), max, v))

contiguous_tip_holes ==
  LET stop == {h \in path_lo .. AsTop : h \in asHub.dropped \/ claim_ready(h)}
      end  == Min(stop \cup {AsTop + 1, path_lo + AsTipMax})
  IN [i \in 1 .. end - path_lo |-> asHub.tip + i]
first_pre_hole(s) ==
  LET open == {h \in TipBatch : ~claim_ready(h) /\ h \notin asHub.dropped}
  IN IF open = {} THEN <<>> ELSE <<Min(open)>>
pre_hole_should_extra_racer(s, h, v) ==
  \/ s.racing[h] = {}
  \/ \A p \in s.racing[h] : <<h, p>> \in s.old
  \/ s.racing[h] \cap v.slow # {}

(***************************************************************************)
(* Densify: fill the band above the tip from the cursor up.                *)
(***************************************************************************)
Steal(s, h, v) ==
  LET own    == CHOOSE p \in s.racing[h] : TRUE
      place  == CHOOSE i \in DOMAIN v.rank : v.rank[i] = own
      faster == SelectSeq(SubSeq(v.rank, 1, place - 1),
                          LAMBDA p : p \notin holders(s, h) /\ <<p, h>> \notin s.lacks)
      dest   == SelectSeq(faster, LAMBDA p : peer_has_slot(s, p))
      t      == retire_hash_owner(s, h, own)
  IN IF own \notin ToSet(v.rank) \/ faster = <<>> THEN s
     ELSE IF dest # <<>>
     THEN IF CanIssue(t, Head(dest), h) THEN issue_one(t, Head(dest), h) ELSE t
     ELSE [t EXCEPT !.scan = Min({@, h})]
steal_hung_densify(s, v) ==
  LET hung == {h \in AsH : /\ Cardinality(s.racing[h]) = 1 /\ ~claim_ready(h)
                           /\ h >= path_lo + AsTipMax
                           /\ \A p \in s.racing[h] : /\ s.slot[p].up /\ p \notin v.fresh
                                                     /\ <<h, p>> \in s.old}
  IN FoldSet(LAMBDA h, t : Steal(t, h, v), s, hung)

\* Mutated form: the cursor only ever moves up.
NeverRewound(s) == [s EXCEPT !.ready = Max({path_lo, @})]
rewind_densify_scan_lo(s) ==
  LET from == Max({path_lo, s.ready})
      gap  == {h \in from .. s.scan - 1 : ~claim_ready(h)}
  IN IF s.scan <= from THEN [s EXCEPT !.ready = from]
     ELSE IF gap = {} THEN [s EXCEPT !.ready = s.scan]
     ELSE [s EXCEPT !.ready = Min(gap), !.scan = Min(gap)]

soft_densify_band_hi ==
  LET n       == Cardinality(asHub.queue)
      near    == Min({asHub.tip + Max({AsAhead, 1}), AsTop})
      fetched == Max(asHub.queue \cup {asHub.taken})
  IN IF n >= AsStop THEN IF fetched >= path_lo THEN Min({near, fetched}) ELSE asHub.tip
     ELSE IF n > AsFree THEN near ELSE AsTop

densify_issue_allowed(s, h) == s.room > 0 \/ inflight_needs_racer(s, h)
need_hash_at(s, h) ==
  /\ ~claim_ready(h) /\ ~live_getdata_cover(s, h) /\ h \notin asHub.dropped
  /\ densify_issue_allowed(s, h) /\ s.body[h] # "known"
densify_prefix_filled(s, h) ==
  claim_ready(h) \/ live_getdata_cover(s, h) \/ s.body[h] = "known"

(* The heights of the band that want a body, and the cursor moved over the *)
(* prefix that is filled or being fetched.                                 *)
collect_height_band(s, lo, hi) ==
  LET need == SetToSortSeq({h \in lo .. hi : need_hash_at(s, h)}, <)
      q    == SubSeq(need, 1, Min({Len(need), Max({s.room, 1})}))
      cut  == IF Len(q) < Len(need) THEN q[Len(q)] ELSE hi
      open == {h \in lo .. cut : h \in ToSet(q) \/ ~densify_prefix_filled(s, h)}
      t    == FoldLeft(LAMBDA u, h : demote_zombie_pending_for_fetch(u, h), s, q)
  IN [q |-> q, s |-> [t EXCEPT !.scan = Max({@, Min(open \cup {cut + 1})})]]

RECURSIVE Spread(_, _, _)
Spread(s, q, rank) ==
  IF q = <<>> \/ rank = <<>> THEN s
  ELSE LET h == Head(q)
           p == Head(rank)
       IN IF ~peer_has_slot(s, p) THEN Spread(s, q, Tail(rank))
          ELSE IF s.body[h] = "pending" \/ live_getdata_cover(s, h)
          THEN Spread(s, Tail(q), rank)
          ELSE IF p \in holders(s, h) THEN Spread(s, q, Tail(rank))
          ELSE IF ~densify_issue_allowed(s, h) THEN s
          ELSE IF ~CanIssue(s, p, h) THEN Spread(s, q, Tail(rank))
          ELSE Spread(issue_one(s, p, h), Tail(q), rank)

Collected(r, rank) == Spread(r.s, r.q, rank)
Fill(s, v) ==
  IF \/ s.room = 0 /\ ~\E h \in AsH : inflight_needs_racer(s, h)
     \/ ~\E p \in ToSet(v.rank) : peer_has_slot(s, p)
  THEN s
  ELSE Collected(collect_height_band(s, Max({path_lo, s.scan}), soft_densify_band_hi), v.rank)
Rescan(s) ==
  [s EXCEPT !.room = AsWindow - Min({AsWindow, Cardinality(AskedFor(s))}),
            !.scan = IF path_lo < s.lo THEN path_lo ELSE Max({@, path_lo}),
            !.ready = IF path_lo < s.lo THEN path_lo ELSE @, !.lo = path_lo]
assign_densify(s, v) == Fill(rewind_densify_scan_lo(Rescan(steal_hung_densify(s, v))), v)

(***************************************************************************)
(* assign_work_ordered.  v holds what clocks and rates decide.             *)
(***************************************************************************)
Resumed(s, due) ==
  LET idle == ~\E p \in AsPeers : p \in takes_block_requests(s) \/ (due /\ s.slot[p].paused)
  IN [s EXCEPT !.slot = [p \in AsPeers |-> [s.slot[p] EXCEPT !.paused = @ /\ ~due /\ ~idle]]]
prune_satisfied_inflight(s) ==
  LET want == {h \in AsH : h > asHub.tip}
  IN [s EXCEPT !.racing = [h \in AsH |-> IF h \in want THEN s.racing[h] ELSE {}],
               !.retired = [h \in AsH |-> IF h \in want THEN s.retired[h] ELSE {}],
               !.slot = [p \in AsPeers |-> IF s.slot[p].up
                                           THEN track_retain(s.slot[p], want, s.old # {})
                                           ELSE s.slot[p]]]
expire_stale_pending(s) ==
  FoldSet(LAMBDA h, t : clear_hash_inflight(mark_missing(t, h), h), s,
          {h \in TipBatch : s.body[h] = "pending"})

\* Not racing: the frontier's owners that timed out on headers lose it.
retire_header_timeout_frontier_owners(s, h, v, timed) ==
  IF timed = {} THEN s
  ELSE cover_tip_holes(FoldSet(LAMBDA p, t : retire_hash_owner(t, h, p), s, timed), <<h>>, 1, v)
cover_first_pre_hole(s, pre, v) ==
  IF pre = <<>> THEN s
  ELSE cover_tip_holes(s, pre, IF pre_hole_should_extra_racer(s, Head(pre), v) THEN 2 ELSE 1, v)
CoverTip(s, holes, v) ==
  IF holes = <<>> THEN cover_first_pre_hole(s, first_pre_hole(s), v)
  ELSE IF Cardinality(asHub.queue) >= AsQuarter
  THEN cover_tip_holes(cover_tip_holes(s, <<Head(holes)>>, AsRacers, v), Tail(holes), 1, v)
  ELSE IF asHub.queue # {} /\ Len(v.rank) > 1
  THEN retire_header_timeout_frontier_owners(s, Head(holes), v, v.slow \cap holders(s, Head(holes)))
  ELSE s

Expired(s) == IF s.old # {} THEN expire_stale_pending(s) ELSE s
assign_work_ordered(s, full, v) ==
  LET densify(t) == IF full THEN assign_densify(t, v) ELSE t
  IN IF download_gate_closed(s) THEN s
     ELSE densify(CoverTip(Expired(prune_satisfied_inflight(s)), contiguous_tip_holes, v))

\* What the rates say of the peers in rank order: all receiving, none, all
\* but the slowest, or all with the slowest an outlier.
Views(on) ==
  UNION {{[rank |-> r, fresh |-> on, slow |-> {}], [rank |-> r, fresh |-> {}, slow |-> {}],
          [rank |-> r, fresh |-> on, slow |-> {Last(r)}],
          [rank |-> r, fresh |-> on \ {Last(r)}, slow |-> {Last(r)}]} : r \in SetToSeqs(on)}

Assign(full) ==
  \E aged \in SUBSET AsPeers, due \in {d \in BOOLEAN : d => \E p \in AsPeers : asSt.slot[p].paused} :
    LET s0 == Resumed([asSt EXCEPT !.old = AsH \X aged], due)
        on == takes_block_requests(s0)
    IN /\ on # {}
       /\ \E v \in Views(on) : \E s \in {assign_work_ordered(s0, full, v)} :
            asSt' = [s EXCEPT !.room = 0, !.old = {}]
       /\ UNCHANGED <<asHub, asLeft>>

(***************************************************************************)
(* What comes back.                                                        *)
(***************************************************************************)
\* A block p still owes: asked for, or taken off it and not yet forgotten.
Owed(p) == asSt.slot[p].inf \cup asSt.slot[p].late

\* bad: the queue refuses the bytes, and the sender goes.
apply_block_framed(p, h, bad) ==
  LET late == h \in asSt.slot[p].late
      s1   == [asSt EXCEPT !.slot[p] = note_answer(@, h)]
      s2   == clear_hash_inflight(s1, h)
  IN /\ h \in Owed(p)
     /\ asLeft' = IF bad THEN asLeft - 1 ELSE asLeft
     /\ bad => asLeft > 0
     /\ IF ~late /\ holders(asSt, h) = {} THEN ~bad /\ asSt' = s1 /\ UNCHANGED asHub
        ELSE IF claim_ready(h) THEN ~bad /\ asSt' = s2 /\ UNCHANGED asHub
        ELSE IF bad
        THEN /\ asSt' = disconnect_peer(reopen_for_densify(mark_missing(s2, h), {h}), p)
             /\ UNCHANGED asHub
        ELSE /\ asSt' = [s2 EXCEPT !.body[h] = "pending"]
             /\ asHub' = [asHub EXCEPT !.queue = @ \cup {h}]
ApplyFramed(p, h) == \E bad \in BOOLEAN : apply_block_framed(p, h, bad)

Fault == asLeft > 0 /\ asLeft' = asLeft - 1
apply_notfound(p, h) ==
  /\ h \in Owed(p) /\ Fault
  /\ asSt' = release_block_requests(
               [asSt EXCEPT !.slot[p] = note_answer(@, h), !.lacks = @ \cup {<<p, h>>}],
               p, {h} \cap {x \in AsH : p \in holders(asSt, x)})
  /\ UNCHANGED asHub
\* A frame too short to hold a header: whoever sent it, the request is over.
apply_block_decode_failed(p, h) ==
  LET s == clear_hash_inflight(asSt, h)
  IN /\ h \in Owed(p) /\ Fault
     /\ asSt' = IF asSt.body[h] = "pending" THEN mark_missing(s, h) ELSE s
     /\ UNCHANGED asHub
apply_peer_dead(p) ==
  /\ asSt.slot[p].up /\ Fault
  /\ asSt' = release_peer_block_work(asSt, p)
  /\ UNCHANGED asHub
\* A manual peer is paused, and only when another peer can take a block.
disconnect_stalled_block_peers(p) ==
  LET sl      == asSt.slot[p]
      handoff == \E q \in takes_block_requests(asSt) \ {p} :
                   \E h \in sl.inf : <<q, h>> \notin asSt.lacks
  IN /\ sl.up /\ sl.inf # {} /\ Fault
     /\ p \in AsManual => handoff
     /\ asSt' = IF p \in AsManual THEN pause_block_download(asSt, p)
                ELSE release_peer_block_work(asSt, p)
     /\ UNCHANGED asHub
apply_dial_result(p) ==
  /\ p \notin asSt.used
  /\ asSt' = [asSt EXCEPT !.slot[p].up = TRUE, !.used = @ \cup {p}]
  /\ UNCHANGED <<asHub, asLeft>>

\* Time passes for a notfound a peer once sent.
Recall(p, h) ==
  /\ <<p, h>> \in asSt.lacks
  /\ asSt' = [asSt EXCEPT !.lacks = @ \ {<<p, h>>}]
  /\ UNCHANGED <<asHub, asLeft>>

(***************************************************************************)
(* The confirm side.  A failing block takes the taken run back to the tip; *)
(* the bodies that are still good are offered back a moment later, and the *)
(* coordinator learns of the verdict later still.                          *)
(***************************************************************************)
take_load_batch ==
  LET h == asHub.taken + 1
  IN /\ h \in asHub.queue
     /\ asHub' = [asHub EXCEPT !.taken = h, !.queue = @ \ {h}]
     /\ UNCHANGED <<asSt, asLeft>>
Accepted ==
  /\ asHub.tip < asHub.taken
  /\ asHub' = [asHub EXCEPT !.tip = @ + 1, !.queue = @ \ {path_lo}, !.back = @ \ {path_lo}]
  /\ asSt' = [asSt EXCEPT !.body[path_lo] = "known", !.stuck = FALSE]
  /\ UNCHANGED asLeft
\* "wire": a malformed copy.  "verdict": judged invalid on a stale parent.
\* "plan": a stale plan, the body is kept.
load_fail_rewind_wave(class) ==
  LET bad  == IF class = "plan" THEN {} ELSE {path_lo}
  IN /\ asHub.tip < asHub.taken /\ Fault
     /\ asHub' = [asHub EXCEPT !.taken = asHub.tip,
                               !.back = @ \cup ((path_lo .. asHub.taken) \ bad),
                               !.dropped = IF class = "verdict" THEN @ \cup bad ELSE @,
                               !.verdicts = @ \cup {<<path_lo, class>>}]
     /\ UNCHANGED asSt
offer_back ==
  /\ asHub.back # {}
  /\ asHub' = [asHub EXCEPT !.queue = @ \cup {h \in asHub.back : h > asHub.tip}, !.back = {}]
  /\ UNCHANGED <<asSt, asLeft>>
apply_confirm_reject(h, class) ==
  LET s1 == clear_hash_inflight(asSt, h)
      s2 == IF class = "wire" THEN s1 ELSE [s1 EXCEPT !.stuck = TRUE]
  IN /\ <<h, class>> \in asHub.verdicts
     /\ asHub' = [asHub EXCEPT !.verdicts = @ \ {<<h, class>>}, !.dropped = @ \ {h},
                               !.queue = IF class = "wire" THEN @ \ {h} ELSE @]
     /\ asSt' = IF class = "plan" THEN s2
                ELSE reopen_for_densify(mark_missing(s2, h), {h})
     /\ UNCHANGED asLeft

Answers == \E p \in AsPeers, h \in AsH : ApplyFramed(p, h)
ConfirmSide == take_load_batch \/ Accepted \/ offer_back
Verdict == \E h \in AsH, class \in {"wire", "verdict", "plan"} : apply_confirm_reject(h, class)
AsNext ==
  \/ \E full \in BOOLEAN : Assign(full)
  \/ Answers \/ ConfirmSide \/ Verdict
  \/ \E p \in AsPeers, h \in AsH : \/ apply_notfound(p, h) \/ apply_block_decode_failed(p, h)
                                     \/ Recall(p, h)
  \/ \E p \in AsPeers : \/ apply_peer_dead(p) \/ disconnect_stalled_block_peers(p)
                         \/ apply_dial_result(p)
  \/ \E class \in {"wire", "verdict", "plan"} : load_fail_rewind_wave(class)

AsSpec == AsInit /\ [][AsNext]_asVars

(* The request table and the peers' own queues agree: a connection holds a *)
(* body's request (racing or retired) exactly when its slot counts it.     *)
HoldersAgree ==
  \A p \in AsPeers, h \in AsH :
    (h \in asSt.slot[p].inf) <=> p \in holders(asSt, h)

(* The densify cursor never passes a body nobody has: below                *)
(* densify_ready_through every height above the tip is in the queue or the *)
(* pipeline, or a verdict or a hand-back about it is still on its way.     *)
NoGapBelowReady ==
  \A h \in AsH :
    asHub.tip < h /\ h < asSt.ready =>
      claim_ready(h) \/ h \in asHub.back \/ \E c \in asHub.verdicts : c[1] = h

(* A retired owner is asked again only for a hash its racers all lost.     *)
ReaskOnlyRacerless ==
  [][\A h \in AsH, p \in AsPeers :
       p \in asSt.retired[h] /\ p \in asSt'.racing[h] =>
         asSt.racing[h] \cap asSt'.racing[h] = {}]_asVars

(* The next body is never given up: whenever nobody holds the request for  *)
(* the height above the tip, no verdict about it is on its way and a peer  *)
(* that has it takes requests and has room, one pass of assign asks a live *)
(* peer for it, whatever the rates say.                                    *)
NextBodyAsked ==
  LET on == takes_block_requests(asSt)
  IN /\ path_lo <= AsTop /\ ~claim_ready(path_lo) /\ holders(asSt, path_lo) = {}
     /\ path_lo \notin asHub.back /\ \A c \in asHub.verdicts : c[1] # path_lo
     /\ \E p \in on : peer_has_slot(asSt, p) /\ <<p, path_lo>> \notin asSt.lacks
     => \A v \in Views(on) : live_getdata_cover(assign_work_ordered(asSt, TRUE, v), path_lo)

(* The request tables agree, the cursor passes no missing body, and the next *)
(* body can always be asked for.                                             *)
AssignSafe == HoldersAgree /\ NoGapBelowReady /\ NextBodyAsked
=============================================================================
