----------------------------- MODULE HeaderSync -----------------------------
(***************************************************************************)
(* The one header request of initial block download                        *)
(* (rbitcoin-ibd/src/ibd/header_walk.rs, ibd/events/mod.rs).                *)
(*                                                                         *)
(* The node keeps one getheaders in flight, the lane.  A fresh lane blocks  *)
(* the next ask; a lane older than LOOKAHEAD_ASK is expired: its peer is    *)
(* remembered as prev (a late answer is still an answer) and has one more   *)
(* miss.  Three kinds of request share the lane: a challenge (a peer, or a  *)
(* block inv relayed from outside, says there is a block this node has not  *)
(* seen), a probe (what does a peer that was never asked have above the     *)
(* path), and the walk itself, sent to the reserved peer.  A peer whose     *)
(* reply brought nothing is quiet: it is not asked again until it announces *)
(* a block.                                                                *)
(*                                                                         *)
(* The coordinator thread (invs, deaths, probe choice, polls) and the       *)
(* header thread (asks, replies) share the state under one lock; a reply    *)
(* that has headers to write releases it between planning and storing.     *)
(*                                                                         *)
(* The chain here is one line of heights above the work floor: htip is the  *)
(* candidate tip, hconf the confirmed tip.  Which of two branches the walk  *)
(* follows is HeaderWalk.                                                   *)
(***************************************************************************)
EXTENDS Naturals, Sequences, FiniteSets, SequencesExt

CONSTANTS
    HPeers,      \* the peers of the session, dialed once each (ids are fresh)
    Claimed,     \* [HPeers -> Nat]: PeerSlot::peer_height
    Has,         \* [HPeers -> Nat]: the height the peer can serve headers to
    Silent,      \* peers that never answer getheaders
    Productive,  \* peers with recent solicited block bytes
    QCap,        \* ORDERED_HEADERS_SOFT_CAP
    WireCap,     \* bound: unanswered requests of one answering peer
    MaxInv       \* bound: block invs

NoPeer == "none"
NoTop == 0

VARIABLES
    hw,      \* HeaderWalk's lane fields and the slots' alive and chain marks
    htip,    \* height of the candidate tip
    hconf,   \* height of the confirmed tip
    wire,    \* [HPeers -> Seq(request)]: sent and not answered yet
    held,    \* the planned batch being written, or the empty sequence
    invs     \* block invs so far

haVars == <<hw, htip, hconf, wire, held, invs>>

Min2(a, b) == IF a < b THEN a ELSE b
MaxHas == CHOOSE h \in {Has[p] : p \in HPeers \ Silent} :
             \A p \in HPeers \ Silent : Has[p] <= h

HAFrom(alive) ==
    /\ hw = [peer |-> NoPeer, fresh |-> FALSE, prev |-> NoPeer,
             reserved |-> NoPeer, challenge |-> NoPeer, external |-> FALSE,
             challengeOpen |-> NoPeer, probe |-> NoPeer, probeOpen |-> NoPeer,
             probeTop |-> NoTop, misses |-> [p \in HPeers |-> 0],
             timeouts |-> {}, quiet |-> {}, alive |-> alive, shut |-> {},
             probed |-> {}, fromTip |-> {}]
    /\ htip = 0
    /\ hconf = 0
    /\ wire = [p \in HPeers |-> <<>>]
    /\ held = <<>>
    /\ invs = 0
HAInit == HAFrom(HPeers)

---------------------------------------------------------------------------
(* What the lane code asks of the state.                                   *)

path_top(tip, conf) == Min2(tip, conf + QCap)
walk_ahead_of_queue(tip, conf) == tip > path_top(tip, conf)
peer_can_head(w, p, above) ==
    p \in w.alive /\ Claimed[p] > above /\ p \notin w.quiet
wants_lookahead(w, tip) == \E p \in HPeers : peer_can_head(w, p, tip)
probe_or_challenge_owed(w) ==
    w.challenge # NoPeer \/ w.probe # NoPeer \/ w.probeOpen # NoPeer
walk_busy(w, p) ==
    p \in {w.reserved, w.challengeOpen, w.peer, w.prev} \/ w.misses[p] > 0

release_lane(w) ==
    [w EXCEPT !.prev = IF w.peer # NoPeer THEN w.peer ELSE w.prev,
              !.peer = NoPeer, !.fresh = FALSE]

note_lane(w, p) ==
    [w EXCEPT !.prev = IF w.peer \notin {NoPeer, p} THEN w.peer ELSE w.prev,
              !.peer = p, !.fresh = TRUE]

(* disconnect_peer: Shutdown to the peer task, whose death is an event of  *)
(* its own (PeerDies).                                                     *)
DropHeaderPeer(w, p) ==
    IF p \in w.alive
    THEN [w EXCEPT !.alive = @ \ {p}, !.shut = @ \cup {p}] ELSE w

HEADER_MISS_DISCONNECT == 2
PRODUCTIVE_HEADER_MISS_DISCONNECT == HEADER_MISS_DISCONNECT + 2

finish_header_timeout(w, p) ==
    IF w.misses[p] < PRODUCTIVE_HEADER_MISS_DISCONNECT
       /\ p \in w.alive /\ p \in Productive
    THEN [w EXCEPT !.timeouts = @ \cup {p},
                   !.reserved = IF @ = p THEN NoPeer ELSE @]
    ELSE DropHeaderPeer([w EXCEPT !.misses[p] = 0], p)

(* Mutated: the stale ask is forgotten, no miss and no other peer.         *)
expire_header_askForgets(w) ==
    [w |-> [w EXCEPT !.peer = NoPeer, !.fresh = FALSE, !.probeOpen = NoPeer,
                     !.challengeOpen = NoPeer],
     skip |-> NoPeer]

(* The lane is given up: its peer is now prev, with one more miss.  Returns *)
(* the state and the peer the next walk ask avoids.                        *)
expire_header_ask(w) ==
    LET p == w.peer
        m == [w EXCEPT !.prev = p, !.peer = NoPeer, !.fresh = FALSE,
                       !.misses[p] = @ + 1]
        out == m.misses[p] >= HEADER_MISS_DISCONNECT
        Fin(x) == IF out THEN finish_header_timeout(x, p) ELSE x
        challenged == [m EXCEPT !.challengeOpen = NoPeer, !.external = FALSE]
        walked == [m EXCEPT !.reserved = IF @ = p THEN NoPeer ELSE @]
    IN  IF p = NoPeer THEN [w |-> w, skip |-> NoPeer]
        ELSE IF w.probeOpen = p
        THEN [w |-> Fin([m EXCEPT !.probeOpen = NoPeer, !.probeTop = NoTop]),
              skip |-> NoPeer]
        ELSE IF w.challengeOpen = p
        THEN [w |-> IF ~out /\ ~(p \in w.alive /\ p \in Productive)
                    THEN [challenged EXCEPT !.quiet = @ \cup {p}]
                    ELSE Fin(challenged),
              skip |-> NoPeer]
        ELSE [w |-> Fin(walked), skip |-> IF out THEN NoPeer ELSE p]

(* pick_header_peer and pick_any_header_peer: a peer without header         *)
(* timeouts first (the measured latency that orders the rest is a choice);  *)
(* the skipped peer only when there is no other.                           *)
Preferred(w, ps) == IF ps \subseteq w.timeouts THEN ps ELSE ps \ w.timeouts
PickFrom(w, ps, skip) ==
    IF ps \ {skip} # {} THEN Preferred(w, ps \ {skip})
    ELSE ps \cap {skip}

pick_header_peer(w, above, skip) ==
    PickFrom(w, {p \in HPeers : peer_can_head(w, p, above)}, skip)

pick_any_header_peer(w, skip) ==
    LET talking == PickFrom(w, w.alive \ w.quiet, skip)
    IN  IF talking # {} THEN talking ELSE PickFrom(w, w.alive, skip)

(* ensure_reserved, then the last resort: the peers the walk may reserve.   *)
ensure_reserved(w, above, skip) ==
    LET r == w.reserved
        unjudged == w.challengeOpen = r /\ w.external
        heads == pick_header_peer(w, above, skip)
    IN  IF r # NoPeer /\ (unjudged \/ (peer_can_head(w, r, above) /\ skip # r))
        THEN {r}
        ELSE IF heads # {} THEN heads ELSE pick_any_header_peer(w, skip)

---------------------------------------------------------------------------
(* Sending.  An outcome is the new state with the request sent, if any.     *)

HdrRequest(kind, loc) == [kind |-> kind, loc |-> loc]
Outcome(w, to, req) == [w |-> w, to |-> to, req |-> req]
Quietly(w) == Outcome(w, NoPeer, HdrRequest("walk", 0))

(* arm_header_ask: nothing while the lane is fresh; else expire it and send *)
(* the challenge, or the probe, or the walk's own ask.                     *)
arm_header_ask(w0) ==
    LET e == expire_header_ask(w0)
        w1 == [e.w EXCEPT !.challenge = NoPeer]
        c == e.w.challenge
        take_challenge == c # NoPeer /\ c \in w1.alive /\ c \notin w1.quiet
        w2 == [w1 EXCEPT !.probe = NoPeer]
        q == w1.probe
        take_probe == q # NoPeer /\ q \in w2.alive /\ ~walk_busy(w2, q)
        above == path_top(htip, hconf)
        top == IF above > hconf /\ q \notin w2.fromTip THEN above ELSE NoTop
        rs == ensure_reserved(w2, above, e.skip)
        Walk(r) == LET w3 == [w2 EXCEPT !.reserved = r]
                   IN  IF r \in w2.alive
                       THEN Outcome(note_lane(w3, r), r, HdrRequest("walk", htip))
                       ELSE Quietly(w3)
    IN  IF w0.fresh THEN {Quietly(w0)}
        ELSE IF take_challenge
        THEN {Outcome([note_lane(w1, c) EXCEPT !.challengeOpen = c], c,
                      HdrRequest("walk", htip))}
        ELSE IF take_probe
        THEN {Outcome([note_lane(w2, q) EXCEPT
                         !.probeOpen = q, !.probeTop = top, !.probed = @ \cup {q},
                         !.fromTip = IF top = NoTop THEN @ \ {q} ELSE @], q,
                      HdrRequest("probe", IF top = NoTop THEN hconf ELSE top))}
        ELSE IF rs = {} THEN {Quietly([w2 EXCEPT !.reserved = NoPeer])}
        ELSE {Walk(r) : r \in rs}

send_getheaders(w) ==
    IF probe_or_challenge_owed(w) \/ wants_lookahead(w, htip)
         \/ walk_ahead_of_queue(htip, hconf)
    THEN arm_header_ask(w) ELSE {Quietly(release_lane(w))}

Transmit(o, wr) ==
    IF o.to = NoPeer \/ o.to \in Silent THEN wr
    ELSE [wr EXCEPT ![o.to] = Append(@, o.req)]
HasRoom(o, wr) == o.to \in HPeers => Len(wr[o.to]) < WireCap

(* The header thread runs a HeaderCmd::Ask the poll queued.                 *)
Ask ==
    /\ held = <<>>
    /\ \E o \in send_getheaders(hw) :
         /\ HasRoom(o, wire)
         /\ hw' = o.w
         /\ wire' = Transmit(o, wire)
    /\ UNCHANGED <<htip, hconf, held, invs>>

(* LOOKAHEAD_ASK passes without an answer.                                  *)
Age ==
    /\ hw.fresh
    /\ hw' = [hw EXCEPT !.fresh = FALSE]
    /\ UNCHANGED <<htip, hconf, wire, held, invs>>

---------------------------------------------------------------------------
(* A reply from p: header h, one above its parent h - 1, or 0 when empty.   *)

(* Clears the ask p answers; solicited when p was on the lane or was the    *)
(* last one expired from it.                                               *)
take_header_ask(w, p) ==
    IF p \notin {w.peer, w.prev} THEN w
    ELSE [w EXCEPT !.fresh = IF w.peer = p THEN FALSE ELSE @,
                   !.peer = IF @ = p THEN NoPeer ELSE @,
                   !.prev = IF @ = p THEN NoPeer ELSE @,
                   !.timeouts = @ \ {p}, !.misses[p] = 0]

note_block_inv(w0, p) ==
    LET w == [w0 EXCEPT !.external = FALSE, !.quiet = @ \ {p}]
        walk_will_ask == w.reserved = p /\ wants_lookahead(w, htip)
                         /\ peer_can_head(w, p, htip)
    IN  IF walk_will_ask THEN w ELSE [w EXCEPT !.challenge = p]

settle_walk_peer(w, p, extended) ==
    IF extended THEN [w EXCEPT !.quiet = @ \ {p}]
    ELSE IF w.challengeOpen = p /\ w.external THEN w
    ELSE [w EXCEPT !.quiet = @ \cup {p}]

note_reservation(w, p, beat) ==
    LET judged == [w EXCEPT !.challengeOpen = NoPeer, !.external = FALSE]
    IN  IF w.challengeOpen = p
        THEN IF beat
             THEN [judged EXCEPT !.reserved = p, !.quiet = @ \ {p}]
             ELSE IF w.external THEN judged
             ELSE [judged EXCEPT !.quiet = @ \cup {p},
                                 !.reserved = IF @ = p THEN NoPeer ELSE @]
        ELSE [w EXCEPT !.reserved = IF @ = p /\ p \in w.quiet THEN NoPeer ELSE @]

(* answer_probe: the reply has the shape of an answer to the open probe.    *)
ProbeShaped(w, p, h) ==
    /\ w.probeOpen = p
    /\ h = 0 \/ IF w.probeTop = NoTop THEN h - 1 <= hconf
                ELSE h - 1 \in {w.probeTop, 0}

answer_probe(w0, p, h) ==
    LET w1 == take_header_ask([w0 EXCEPT !.probeOpen = NoPeer,
                                         !.probeTop = NoTop], p)
        w2 == IF h > htip THEN note_block_inv(w1, p) ELSE w1
    IN  CASE w0.probeTop = NoTop ->
               IF h = 0 THEN [w2 EXCEPT !.probed = @ \cup {p}] ELSE w2
          [] w0.probeTop # NoTop /\ h # 0
               /\ (h - 1 = w0.probeTop \/ h > hconf + 1) -> w2
          [] OTHER -> [w2 EXCEPT !.probed = @ \ {p}, !.fromTip = @ \cup {p}]

(* An empty reply to anything but a probe.  Below a streak of eight the     *)
(* node asks again at once (again), before the reservation is judged.      *)
EmptyReply(p, wr) ==
    LET w1 == IF hw.reserved # p THEN [hw EXCEPT !.probed = @ \ {p}] ELSE hw
        w2 == settle_walk_peer(w1, p, FALSE)
        w3 == IF w2.probeOpen = p THEN w2 ELSE take_header_ask(w2, p)
    IN  \E again \in BOOLEAN :
        \E o \in IF again THEN send_getheaders(w3) ELSE {Quietly(w3)} :
            /\ HasRoom(o, wr)
            /\ hw' = note_reservation(o.w, p, FALSE)
            /\ wire' = Transmit(o, wr)
            /\ UNCHANGED held

(* A batch that builds on the candidate tip is written (held) if it was     *)
(* asked for or the queue has room; any other brings nothing.              *)
BatchReply(p, h, wr) ==
    LET solicited == hw.probeOpen # p /\ p \in {hw.peer, hw.prev}
        w1 == IF hw.probeOpen = p THEN hw ELSE take_header_ask(hw, p)
        stores == h = htip + 1 /\ (solicited \/ htip - hconf < QCap)
    IN  /\ IF stores
           THEN held' = <<p, h>> /\ hw' = w1
           ELSE /\ hw' = note_reservation(settle_walk_peer(w1, p, FALSE), p, FALSE)
                /\ UNCHANGED held
        /\ wire' = wr

plan_header_batch(p, h, wr) ==
    IF ProbeShaped(hw, p, h)
    THEN hw' = answer_probe(hw, p, h) /\ wire' = wr /\ UNCHANGED held
    ELSE IF h = 0 THEN EmptyReply(p, wr) ELSE BatchReply(p, h, wr)

(* What p serves for a locator at loc: the next header it has.  A path top  *)
(* that is not on its chain is answered from genesis.  Headers come only as *)
(* answers, late ones included: the session sends no sendheaders, so a peer *)
(* announces a block by inv.                                               *)
Served(p, req) ==
    IF Has[p] > req.loc THEN req.loc + 1
    ELSE IF Has[p] < req.loc /\ req.kind = "probe" /\ Has[p] > 0 THEN 1 ELSE 0

Answer(p) ==
    /\ held = <<>>
    /\ p \in hw.alive
    /\ wire[p] # <<>>
    /\ plan_header_batch(p, Served(p, Head(wire[p])), [wire EXCEPT ![p] = Tail(@)])
    /\ UNCHANGED <<htip, hconf, invs>>

(* The second half of run_header_batch: on_headers_batch, finish_mark.      *)
StoreHeaders ==
    /\ held # <<>>
    /\ htip' = held[2]
    /\ hw' = note_reservation(settle_walk_peer(hw, held[1], TRUE), held[1], TRUE)
    /\ held' = <<>>
    /\ UNCHANGED <<hconf, wire, invs>>

---------------------------------------------------------------------------
(* Coordinator steps; they may fall between a plan and its store.          *)

BlocksInv(p) ==
    /\ invs < MaxInv \/ p \in hw.quiet \ Silent
    /\ invs' = Min2(invs + 1, MaxInv)
    /\ p \in hw.alive
    /\ p \in Silent \/ Has[p] > htip
    /\ hw' = note_block_inv(hw, p)
    /\ UNCHANGED <<htip, hconf, wire, held>>

(* A block inv on the tip-follow side: the first live slot is challenged,   *)
(* and an ask already on the lane becomes that challenge.                  *)
note_external_block_inv ==
    /\ invs < MaxInv /\ invs' = invs + 1
    /\ \E p \in hw.alive :
         LET w == note_block_inv(hw, p)
         IN  hw' = IF w.challenge # p THEN w
                   ELSE IF w.peer = p
                   THEN [w EXCEPT !.external = TRUE, !.challenge = NoPeer,
                                  !.challengeOpen = p]
                   ELSE [w EXCEPT !.external = TRUE]
    /\ UNCHANGED <<htip, hconf, wire, held>>

probe_unprobed_peer ==
    /\ hw.probe = NoPeer /\ hw.probeOpen = NoPeer
    /\ Cardinality(hw.alive) >= 2
    /\ \E p \in hw.alive \ hw.probed :
         ~walk_busy(hw, p) /\ hw' = [hw EXCEPT !.probe = p]
    /\ UNCHANGED <<htip, hconf, wire, held, invs>>

forget_walk_peer(w, p) ==
    [w EXCEPT !.quiet = @ \ {p}, !.timeouts = @ \ {p}, !.misses[p] = 0,
              !.reserved = IF @ = p THEN NoPeer ELSE @,
              !.external = IF p \in {w.challenge, w.challengeOpen} THEN FALSE ELSE @,
              !.challenge = IF @ = p THEN NoPeer ELSE @,
              !.challengeOpen = IF @ = p THEN NoPeer ELSE @,
              !.probe = IF @ = p THEN NoPeer ELSE @,
              !.probeTop = IF w.probeOpen = p THEN NoTop ELSE @,
              !.probeOpen = IF @ = p THEN NoPeer ELSE @]

(* The event of a peer task that ended: told to by disconnect_peer, or      *)
(* because a silent peer closed.                                           *)
HeaderPeerDead(p) ==
    /\ p \in hw.shut \/ (p \in hw.alive /\ p \in Silent)
    /\ hw' = [forget_walk_peer(hw, p) EXCEPT !.alive = @ \ {p},
                                             !.shut = @ \ {p}]
    /\ wire' = [wire EXCEPT ![p] = <<>>]
    /\ UNCHANGED <<htip, hconf, held, invs>>

ConfirmAsked ==
    /\ hconf < htip
    /\ hconf' = hconf + 1
    /\ UNCHANGED <<hw, htip, wire, held, invs>>

HANext ==
    \/ Ask \/ Age \/ StoreHeaders
    \/ note_external_block_inv \/ probe_unprobed_peer \/ ConfirmAsked
    \/ \E p \in HPeers : Answer(p) \/ BlocksInv(p)
                         \/ HeaderPeerDead(p)

HASpec == HAInit /\ [][HANext]_haVars

---------------------------------------------------------------------------
(* The lane, the marks and the slots agree: a fresh lane has a peer, a peer *)
(* is never both alive and shut, nobody reaches a fifth missed ask without  *)
(* being disconnected, and the candidate is never behind the confirmed tip. *)
HATypeOK ==
    /\ hw.peer \in HPeers \cup {NoPeer} /\ hw.prev \in HPeers \cup {NoPeer}
    /\ hw.fresh => hw.peer # NoPeer
    /\ hw.misses \in [HPeers -> 0..PRODUCTIVE_HEADER_MISS_DISCONNECT]
    /\ hw.alive \cap hw.shut = {}
    /\ hconf <= htip /\ htip <= MaxHas

(* An open probe is always the request on the lane, so its expiry closes    *)
(* it: a probe left open with no request behind it would stop every later   *)
(* probe (probe_unprobed_peer) and keep the node asking for ever            *)
(* (probe_or_challenge_owed).                                              *)
ProbeOnLane == hw.probeOpen # NoPeer => hw.peer = hw.probeOpen

(* Header download reaches the tallest answering peer's height unless that  *)
(* peer was disconnected: silent peers, late answers taken for duplicates,  *)
(* peers gone quiet and probes never leave the node with nobody to ask.     *)
HeadersArrive ==
    <>(htip = MaxHas \/ \A p \in HPeers : Has[p] = MaxHas => p \notin hw.alive)

-----------------------------------------------------------------------------
(***************************************************************************)
(* The header candidate of initial block download: which chain of headers   *)
(* the node follows (rbitcoin-ibd/src/ibd/header_walk.rs).                  *)
(*                                                                         *)
(* The candidate is a base and one checkpoint per accepted reply; the last  *)
(* one is the tip.  One competing chain, the challenger, is kept the same   *)
(* way until it has more work.  Below the work floor a tip every peer left  *)
(* empty is a dead end and the walk steps back one checkpoint.  A block     *)
(* that fails to connect cuts the candidate back to its parent.  The        *)
(* candidate is written to header.adopt at every change and read back on    *)
(* start; the file is not kept while the marks of failed blocks are not on  *)
(* disk themselves.                                                        *)
(*                                                                         *)
(* Headers are nodes of a constant tree, each one unit of work.  The path   *)
(* slots (height_to_hash) and the ordered queue are the download path the   *)
(* candidate is compared with.  Which peer is asked is HeaderAsk; a fork    *)
(* below the confirmed tip, which rewinds the store, is not here.           *)
(***************************************************************************)

CONSTANTS
    WTree,      \* parent of each header 1..N, 0 is genesis
    WBad,       \* headers whose block fails to connect
    WFloor,     \* work floor (milestone.min_work)
    WQCap,      \* ORDERED_HEADERS_SOFT_CAP
    WBatch,     \* MAX_HEADERS_RESULTS
    MaxCrash,   \* bound: restarts
    MaxUnsaved  \* bound: failed writes of block.invalid

Headers == 1..Len(WTree)
Nodes == 0..Len(WTree)
NoTip == Len(WTree) + 1   \* a walk read back without checkpoints
NoChal == [fork |-> NoTip, tip |-> NoTip, cps |-> <<>>]
NoFile == [cps |-> <<>>, base |-> NoTip]
NoPend == [r |-> [prev |-> NoTip, last |-> NoTip], n |-> 0]

Chain[n \in Nodes] == IF n = 0 THEN <<0>> ELSE Append(Chain[WTree[n]], n)
Line[n \in Nodes] == Range(Chain[n])
Ht[n \in Nodes \cup {NoTip}] == IF n = NoTip THEN 0 ELSE Len(Chain[n]) - 1
Last1(s) == s[Len(s)]
Through(a, n) == Line[n] \ Line[a]

(* A reply: the headers after prev up to last, linked.                     *)
Replies == {r \in [prev : Nodes, last : Headers] :
              /\ r.prev \in Line[r.last] /\ r.prev # r.last
              /\ Ht[r.last] - Ht[r.prev] <= WBatch}
Batch(r) == SubSeq(Chain[r.last], Ht[r.prev] + 2, Ht[r.last] + 1)

VARIABLES
    walk,     \* [tip, cps, base, chal, dead, badTips, proven]
    slots,    \* headers in height_to_hash
    queue,    \* ordered: headers to download, oldest first
    wconf,    \* confirmed tip
    stored,   \* headers in the header store
    rejected, \* marks of failed blocks: reorg.invalid and the hub's set
    marked,   \* those marks in block.invalid on disk
    adopt,    \* header.adopt: [cps, base] or NoFile
    pend,     \* reply planned, lock dropped for the store write: [r, n]
    crashes, unsaved

wkVars == <<walk, slots, queue, wconf, stored, rejected, marked, adopt,
            pend, crashes, unsaved>>

Origin(base) ==
    [tip |-> base, cps |-> <<>>, base |-> base, chal |-> NoChal, dead |-> {},
     badTips |-> {}, proven |-> Ht[base] >= WFloor]

WKInit ==
    /\ walk = Origin(0)
    /\ slots = {} /\ queue = <<>> /\ wconf = 0 /\ stored = {}
    /\ rejected = {} /\ marked = {} /\ adopt = NoFile
    /\ pend = NoPend /\ crashes = 0 /\ unsaved = 0

---------------------------------------------------------------------------
(* The state a reply is judged in: the walk w, the slots s, the queue q.    *)

St(w, s, q) == [w |-> w, s |-> s, q |-> q]
below_floor(w) == Ht[w.tip] < WFloor
under(q) == Len(q) < WQCap
stored_top(q) == IF q = <<>> THEN wconf ELSE Last1(q)
proved_above_floor(w) == w.proven /\ ~below_floor(w)
publish_work(w) == [w EXCEPT !.proven = @ \/ ~below_floor(w)]
ChalNodes(w) == IF w.chal = NoChal THEN {}
                ELSE Range(w.chal.cps) \cup {w.chal.tip}

(* work_at: the walk knows it, or it is confirmed, or the slots link it to  *)
(* a checkpoint, the base or the confirmed tip.                            *)
known(w, n) == n \in {w.tip, w.base} \cup Range(w.cps) \cup ChalNodes(w)
stored_path_state(w, s, n) ==
    n \in s /\ \E a \in Range(w.cps) \cup {w.base, wconf} :
                  a \in Line[n] /\ Through(a, n) \subseteq s
work_at(w, s, n) ==
    known(w, n) \/ n \in Line[wconf] \/ stored_path_state(w, s, n)

candidate_prev(w, s, q, n) ==
    \/ q # <<>> /\ Last1(q) = n
    \/ n \in {w.base, w.tip} \cup Range(w.cps) \cup s

At(s, h) == {n \in s : Ht[n] = h}
CutCps(cps, h) == SelectSeq(cps, LAMBDA c : Ht[c] <= h)

drop_queue_above(x, h, keep) ==
    LET gone(n) == n \notin keep /\ Ht[n] > h
    IN  [x EXCEPT !.q = SelectSeq(@, LAMBDA n : ~gone(n)),
                  !.s = {n \in @ : ~gone(n)}]

(* clear_path_above: the slots go; the queue loses a dropped front.        *)
clear_path_above(x, h) ==
    LET kept == {n \in x.s : Ht[n] <= h}
        live(n) == n \in kept \/ n \notin x.s
        first == {i \in DOMAIN x.q : live(x.q[i])}
    IN  [x EXCEPT !.s = kept,
                  !.q = IF first = {} THEN <<>>
                        ELSE SubSeq(@, CHOOSE i \in first :
                                         \A j \in first : i <= j, Len(@))]

---------------------------------------------------------------------------
(* Changes of the candidate.                                               *)

extend_tip(x, r) ==
    [x EXCEPT !.w = publish_work([@ EXCEPT !.tip = r.last,
                                           !.cps = Append(@, r.last)])]

adopt_heavier(x, r) ==
    drop_queue_above(
      [x EXCEPT !.w = publish_work(
         [@ EXCEPT !.tip = r.last, !.chal = NoChal, !.dead = {},
                   !.cps = Append(CutCps(@, Ht[r.prev]), r.last)])],
      Ht[r.prev], Range(Batch(r)))

note_challenger(w, r) ==
    IF w.chal # NoChal /\ Ht[r.last] <= Ht[w.chal.tip] THEN w
    ELSE [w EXCEPT !.chal = [fork |-> r.prev, tip |-> r.last,
                             cps |-> <<r.last>>]]

promote_challenger(x) ==
    LET ch == x.w.chal
    IN  drop_queue_above(
          [x EXCEPT !.w = publish_work(
             [@ EXCEPT !.tip = ch.tip, !.chal = NoChal, !.dead = {},
                       !.cps = CutCps(@, Ht[ch.fork]) \o ch.cps])],
          Ht[ch.fork], {})

extend_challenger(x, r) ==
    LET y == [x EXCEPT !.w.chal.tip = r.last,
                       !.w.chal.cps = Append(@, r.last)]
    IN  IF Ht[r.last] > Ht[x.w.tip] THEN promote_challenger(y) ELSE y

(* offer_alternate: the reply is adopted or kept as the challenger; one    *)
(* whose parent has no known work is not comparable.  done: the caller must *)
(* not write the reply.                                                    *)
Judged(x, done) == [x |-> x, done |-> done]
offer_alternate(x, r, incomparable) ==
    IF ~work_at(x.w, x.s, r.prev) THEN Judged(x, incomparable)
    ELSE IF Ht[r.last] > Ht[x.w.tip]
    THEN LET y == adopt_heavier(x, r) IN Judged(y, ~under(y.q))
    ELSE Judged([x EXCEPT !.w = note_challenger(@, r)], TRUE)

(* path_agree: the reply meets a checkpoint (its height), runs out before   *)
(* one, or leaves the candidate.  useSlots compares slots too.             *)
path_agree(x, r, useSlots) ==
    LET b == Batch(r)
        Cp(i) == {c \in Range(x.w.cps) : Ht[c] = Ht[b[i]]}
        Want(i) == IF Cp(i) # {} THEN Cp(i)
                   ELSE IF useSlots THEN At(x.s, Ht[b[i]]) ELSE {}
        Met(i) == \E j \in 1..i : Cp(j) # {}
        Ends(i) == useSlots /\ Want(i) = {} /\ Met(i)
        stop == IF \E i \in DOMAIN b : Ends(i)
                THEN CHOOSE i \in DOMAIN b :
                       Ends(i) /\ \A j \in 1..(i - 1) : ~Ends(j)
                ELSE Len(b) + 1
        seen == {i \in DOMAIN b : i < stop}
        agreed == {i \in seen : Cp(i) # {}}
    IN  IF \E i \in seen : Want(i) # {} /\ b[i] \notin Want(i)
        THEN [kind |-> "diverges", n |-> 0]
        ELSE IF agreed # {}
        THEN [kind |-> "checkpoint",
              n |-> CHOOSE i \in agreed : \A j \in agreed : j <= i]
        ELSE [kind |-> "short", n |-> 0]

batch_ends_on_checkpoint(w, r) == r.last = w.tip \/ r.last \in Range(w.cps)

(* suppress_competing_chain: a reply that is not on the candidate.          *)
suppress_competing_chain(x, r) ==
    LET below == below_floor(x.w)
    IN  IF \/ ~x.w.proven /\ ~below
           \/ x.w.tip = r.prev \/ batch_ends_on_checkpoint(x.w, r)
        THEN Judged(x, FALSE)
        ELSE IF x.w.chal # NoChal /\ x.w.chal.tip = r.prev
        THEN Judged(extend_challenger(x, r), TRUE)
        ELSE IF ~below /\ candidate_prev(x.w, x.s, x.q, r.prev)
                /\ path_agree(x, r, TRUE).kind = "short"
        THEN Judged(x, TRUE)
        ELSE offer_alternate(x, r, FALSE)

---------------------------------------------------------------------------
(* Refills: replies that build on the download queue.                      *)

refill_misses_checkpoint(w, r) ==
    LET b == Batch(r)
    IN  \E i \in DOMAIN b : \E c \in Range(w.cps) :
          Ht[c] = Ht[b[i]] /\ c # b[i]

(* rewind_to: step back below height h, or off the dead tip.                *)
rewind_to(x, h, dead) ==
    LET w == x.w
        cps == IF dead THEN (IF w.cps = <<>> THEN <<>> ELSE Front(w.cps))
               ELSE CutCps(w.cps, h)
        tip == IF cps = <<>> THEN w.base ELSE Last1(cps)
        keepChal == w.chal # NoChal
                    /\ w.chal.fork \in Range(cps) \cup {w.base}
        w2 == [w EXCEPT !.cps = cps, !.tip = tip,
                        !.dead = IF dead THEN @ \cup {w.tip} ELSE @,
                        !.chal = IF keepChal THEN @ ELSE NoChal]
        y == clear_path_above([x EXCEPT !.w = w2], Ht[tip])
    IN  drop_queue_above(y, Ht[tip], {n \in Range(y.q) : Ht[n] <= Ht[tip]})

judge_refill(x, r) ==
    IF proved_above_floor(x.w)
    THEN IF path_agree(x, r, TRUE).kind = "diverges"
         THEN offer_alternate(x, r, TRUE) ELSE Judged(x, FALSE)
    ELSE IF refill_misses_checkpoint(x.w, r)
    THEN Judged(rewind_to(x, Ht[r.prev], FALSE), FALSE)
    ELSE Judged(x, FALSE)

(* The proved point under a queue no checkpoint has confirmed yet.         *)
unproved_anchor(x) ==
    LET front == Ht[x.q[1]]
        reached == \E c \in Range(x.w.cps) :
                     Ht[c] >= front /\ \E n \in Range(x.q) : Ht[n] >= Ht[c]
        lower == {c \in Range(x.w.cps) : Ht[c] < front}
    IN  IF x.q = <<>> \/ reached THEN {}
        ELSE IF lower # {}
        THEN {CHOOSE c \in lower : \A d \in lower : Ht[d] <= Ht[c]}
        ELSE IF front = Ht[wconf] + 1 THEN {wconf} ELSE {}

replace_unproved_queue(x, r) ==
    LET agree == path_agree(x, r, FALSE).kind
    IN  IF ~proved_above_floor(x.w) \/ r.prev \notin unproved_anchor(x)
        THEN Judged(x, FALSE)
        ELSE CASE agree = "checkpoint" ->
                    Judged(drop_queue_above(x, Ht[r.prev], {}), FALSE)
               [] agree = "diverges" -> offer_alternate(x, r, TRUE)
               [] OTHER -> Judged(x, TRUE)

reject_refill_miss(x, r) ==
    IF x.w.cps = <<>> \/ ~under(x.q) THEN Judged(x, FALSE)
    ELSE IF x.q # <<>> /\ r.prev # Last1(x.q) THEN replace_unproved_queue(x, r)
    ELSE IF x.q = <<>> /\ ~(proved_above_floor(x.w) /\ wconf = r.prev)
    THEN Judged(x, FALSE)
    ELSE judge_refill(x, r)

(* How many headers of the reply may be written.                           *)
proven_header_prefix(x, r) ==
    LET agree == path_agree(x, r, TRUE)
        all == Len(Batch(r))
    IN  IF ~proved_above_floor(x.w) \/ x.w.cps = <<>>
           \/ ~candidate_prev(x.w, x.s, x.q, r.prev) THEN all
        ELSE CASE agree.kind = "checkpoint" -> agree.n
               [] agree.kind = "short" ->
                    IF stored_top(x.q) = r.prev THEN all ELSE 0
               [] OTHER -> all

---------------------------------------------------------------------------
(* A reply, planned.                                                       *)

classify(x, sol, r) ==
    LET on_walk == x.w.tip = r.prev
        ahead == Ht[x.w.tip] > Ht[stored_top(x.q)]
        checkpoint == ~under(x.q) \/ (sol /\ ahead)
                      \/ (sol /\ on_walk /\ x.w.cps = <<>>)
        stray == below_floor(x.w) /\ x.w.tip # NoTip
                 /\ (r.prev \in x.w.dead
                     \/ (r.prev # x.w.tip
                         /\ ~(under(x.q) /\ stored_top(x.q) = r.prev)))
    IN  CASE (x.w.tip \in x.w.dead /\ checkpoint) \/ (on_walk /\ checkpoint)
                 -> "absorb"
          [] on_walk /\ under(x.q) -> "store"
          [] stored_top(x.q) = r.prev /\ under(x.q) -> "refill"
          [] stray -> "stray"
          [] OTHER -> "fork"

absorb_lookahead(x, sol, r) ==
    IF x.w.tip \in x.w.dead \/ r.prev # x.w.tip \/ ~sol THEN x
    ELSE extend_tip(x, r)

Refused(w, r) ==
    r.prev \in w.badTips \cup rejected
      \/ Range(Batch(r)) \cap (w.badTips \cup rejected) # {}

PlaceHeader(x, n) ==
    LET anchored == IF Ht[n] = Ht[wconf] + 1 THEN WTree[n] = wconf
                    ELSE WTree[n] \in x.s
        s == IF anchored /\ At(x.s, Ht[n]) = {} THEN x.s \cup {n} ELSE x.s
        next == Ht[stored_top(x.q)] + 1
        enq == n \in s /\ n \notin rejected /\ n \notin Range(x.q)
               /\ Ht[n] > Ht[wconf] /\ Ht[n] <= next
               /\ (x.w.cps # <<>> => under(x.q))
    IN  [x EXCEPT !.s = s, !.q = IF enq THEN Append(@, n) ELSE @]

on_headers_batch(x, r, n) ==
    LET y == FoldLeft(PlaceHeader, x, SubSeq(Batch(r), 1, n))
        kept == [r EXCEPT !.last = Batch(r)[n]]
    IN  IF r.prev = y.w.tip /\ y.w.tip \notin y.w.dead
        THEN extend_tip(y, kept) ELSE y

---------------------------------------------------------------------------
(* Actions.                                                                *)

(* save_adopt: no file while a mark is only in memory.                     *)
save_adopt(w, rej, mrk) == IF rej = mrk THEN [cps |-> w.cps, base |-> w.base]
                           ELSE NoFile

Candidate(w) == <<w.tip, w.cps, w.base>>
Commit(x) ==
    /\ walk' = x.w /\ slots' = x.s /\ queue' = x.q
    /\ adopt' = IF Candidate(x.w) = Candidate(walk) THEN adopt
                ELSE save_adopt(x.w, rejected, marked)

(* refuse_invalid_batch: the last header is remembered.                    *)
refuse_invalid_batch(r) ==
    /\ Refused(walk, r)
    /\ walk' = [walk EXCEPT !.badTips = @ \cup {r.last}]
    /\ UNCHANGED <<slots, queue, adopt>>

(* plan_header_reply: judge the reply; n of its headers go to the store.    *)
Planned(x, r, n) ==
    /\ Commit(x)
    /\ pend' = IF n = 0 THEN NoPend ELSE [r |-> r, n |-> n]

plan_header_reply(x, r, sol) ==
    LET all == Len(Batch(r))
        class == classify(x, sol, r)
    IN  \/ /\ class = "absorb"
           /\ \E a \in {absorb_lookahead(x, sol, r)} :
                Planned(a, r, IF a.w.tip = x.w.tip THEN 0 ELSE all)
        \/ class = "store" /\ Planned(x, r, all)
        \/ /\ class = "stray"
           /\ \E c \in {suppress_competing_chain(x, r)} :
                Planned(c.x, r, IF c.done \/ c.x.w.tip = x.w.tip THEN 0 ELSE all)
        \/ /\ class \in {"refill", "fork"}
           /\ \E c \in {IF class = "fork" THEN suppress_competing_chain(x, r)
                         ELSE Judged(x, FALSE)} :
              \E m \in {IF c.done THEN c ELSE reject_refill_miss(c.x, r)} :
                Planned(m.x, r, IF m.done THEN 0
                                ELSE proven_header_prefix(m.x, r))

WalkReply(r, sol) ==
    /\ pend = NoPend
    /\ \/ refuse_invalid_batch(r) /\ UNCHANGED pend
       \/ ~Refused(walk, r) /\ plan_header_reply(St(walk, slots, queue), r, sol)
    /\ UNCHANGED <<wconf, stored, rejected, marked, crashes, unsaved>>

(* run_header_batch: headers are written without the lock, then placed.    *)
StoreReply ==
    /\ pend # NoPend
    /\ LET r == [pend.r EXCEPT !.last = Batch(pend.r)[pend.n]]
           parent == r.prev \in stored \cup Line[wconf]
       IN  /\ stored' = IF parent THEN stored \cup Range(Batch(r)) ELSE stored
           /\ IF parent /\ ~Refused(walk, r)
              THEN Commit(on_headers_batch(St(walk, slots, queue), r, pend.n))
              ELSE IF parent THEN refuse_invalid_batch(r)
              ELSE UNCHANGED <<walk, slots, queue, adopt>>
    /\ pend' = NoPend
    /\ UNCHANGED <<wconf, rejected, marked, crashes, unsaved>>

(* note_empty by the last of the peers, then rewind.                       *)
AllEmpty ==
    /\ below_floor(walk) /\ walk.tip # NoTip
    /\ Commit(rewind_to(St(walk, slots, queue), 0, TRUE))
    /\ UNCHANGED <<wconf, stored, rejected, marked, pend, crashes, unsaved>>

(* The confirm stage connects the block at the head of the path.           *)
ConfirmNext ==
    \E n \in slots \ WBad :
        /\ WTree[n] = wconf
        /\ wconf' = n /\ slots' = slots \ {n}
        /\ queue' = SelectSeq(queue, LAMBDA m : m # n)
        /\ UNCHANGED <<walk, stored, rejected, marked, adopt, pend, crashes,
                       unsaved>>

(* The heaviest stored headers above the confirmed tip without a mark.      *)
OpenPaths(top, bad) ==
    LET reach == {n \in stored \cup {top} :
                    top \in Line[n] /\ Through(top, n) \subseteq stored \ bad}
    IN  {n \in reach : \A m \in reach : Ht[m] <= Ht[n]}
PathTo(top, n) == SubSeq(Chain[n], Ht[top] + 2, Ht[n] + 1)

(* drop_dead_path and cut_back_to for the block bad whose parent is p.      *)
cut_back_to(w, p, h) ==
    LET cps == CutCps(w.cps, h)
    IN  publish_work(
          [w EXCEPT !.tip = p, !.chal = NoChal,
                    !.base = IF Ht[@] > h THEN p ELSE @,
                    !.cps = IF cps = <<>> \/ Ht[Last1(cps)] < h
                            THEN Append(cps, p) ELSE cps])

retire_invalidPathOnly(x, bad) ==
    LET p == WTree[bad]
    IN  clear_path_above(drop_queue_above(x, Ht[p], {}), Ht[p])
retire_invalid(x, bad) ==
    LET p == WTree[bad]
        y == clear_path_above(drop_queue_above(x, Ht[p], {}), Ht[p])
    IN  IF bad \notin x.s THEN x
        ELSE IF Ht[x.w.tip] < Ht[bad] THEN y
        ELSE [y EXCEPT !.w = cut_back_to(@, p, Ht[p])]

(* apply_consensus_invalid_reject for the block at the head of the path.    *)
RejectNext(saved) ==
    \E n \in slots \cap WBad :
        LET rej == rejected \cup {n}
            mrk == IF saved THEN rej ELSE marked
            y == retire_invalid(St(walk, slots, queue), n)
        IN  /\ WTree[n] = wconf /\ n \notin rejected
            /\ ~saved => unsaved < MaxUnsaved
            /\ unsaved' = IF saved THEN unsaved ELSE unsaved + 1
            /\ rejected' = rej /\ marked' = mrk
            /\ \E top \in OpenPaths(wconf, rej) :
                 /\ slots' = (y.s \ {n}) \cup Range(PathTo(wconf, top))
                 /\ queue' = PathTo(wconf, top)
            /\ walk' = y.w
            /\ adopt' = IF Candidate(y.w) = Candidate(walk) THEN adopt
                        ELSE save_adopt(y.w, rej, mrk)
            /\ UNCHANGED <<wconf, stored, pend, crashes>>

(* restore_adopt, else ensure_origin over the path read back.              *)
failure_above(base) == \E n \in marked : Ht[n] > Ht[base]
restore_adopt(q) ==
    IF adopt = NoFile THEN Origin(stored_top(q))
    ELSE LET tip == IF adopt.cps = <<>> THEN NoTip ELSE Last1(adopt.cps)
         IN  IF Ht[tip] > Ht[wconf] /\ failure_above(adopt.base)
             THEN Origin(stored_top(q))
             ELSE publish_work([Origin(adopt.base) EXCEPT !.tip = tip,
                                   !.cps = adopt.cps, !.proven = FALSE])

WalkRestart ==
    /\ crashes < MaxCrash
    /\ crashes' = crashes + 1
    /\ rejected' = marked /\ pend' = NoPend
    /\ \E top \in OpenPaths(wconf, marked) :
         LET q == PathTo(wconf, top)
         IN  /\ queue' = q /\ slots' = Range(q)
             /\ walk' = restore_adopt(q)
    /\ UNCHANGED <<wconf, stored, marked, adopt, unsaved>>

WKNext ==
    \/ \E r \in Replies, sol \in BOOLEAN : WalkReply(r, sol)
    \/ StoreReply
    \/ AllEmpty
    \/ ConfirmNext
    \/ \E saved \in BOOLEAN : RejectNext(saved)
    \/ WalkRestart

WKSpec == WKInit /\ [][WKNext]_wkVars

---------------------------------------------------------------------------
(* Properties.                                                             *)

(* The candidate never holds a block that failed to connect: not after the  *)
(* reject, not in a reply planned before it, not after a restart.           *)
NoInvalidCandidate ==
    walk.tip # NoTip => Line[walk.tip] \cap rejected = {}

(* A walk read back after a lost mark would resume onto the failed chain:   *)
(* what header.adopt holds above the confirmed tip has no failed block      *)
(* unless its mark is on disk too.                                         *)
SavedWalkKnowsFailures ==
    adopt # NoFile =>
      \A i \in DOMAIN adopt.cps : Line[adopt.cps[i]] \cap rejected \subseteq marked

(* Each height of the download path holds one header, and the queue is the  *)
(* path in height order.                                                   *)
PathIsChain ==
    /\ \A a, b \in slots : Ht[a] = Ht[b] => a = b
    /\ \A i, j \in DOMAIN queue : i < j => Ht[queue[i]] < Ht[queue[j]]

(* The kept challenger never has more work than the candidate.             *)
ChallengerLighter ==
    walk.chal # NoChal => Ht[walk.chal.tip] <= Ht[walk.tip]

(* The header walk keeps one path, a lighter challenger, a probe that can *)
(* expire and no failed block, on disk as in memory.                      *)
WalkSafe ==
    /\ HATypeOK
    /\ PathIsChain
    /\ ChallengerLighter
    /\ ProbeOnLane
    /\ SavedWalkKnowsFailures
    /\ NoInvalidCandidate
=============================================================================
