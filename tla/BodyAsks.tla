------------------------------ MODULE BodyAsks ------------------------------
(***************************************************************************)
(* Who is fetching which block body.  Every peer session keeps the bodies  *)
(* it asked for (requested_blocks), the headers and bodies that wait for a *)
(* parent (pending_headers, pending_blocks) and a download window; the hub *)
(* keeps one set of asks for all sessions (asked_blocks) so that two peers *)
(* are not asked for the same body.  A session handles one message at a    *)
(* time, but a headers message is classified on another thread and a body  *)
(* is accepted behind an await, so the sessions interleave there.          *)
(***************************************************************************)
EXTENDS Integers, FiniteSets, SequencesExt

CONSTANTS
    APeers,        \* session peers
    Stallers,      \* the peers that may leave a getdata unanswered
    Bodies,        \* the blocks above genesis, 1 .. N
    AskTrees,         \* the block trees considered: functions to the parent, 0 is genesis
    AMaxFaults     \* bound: accepts that end in a local or a consensus fault

ASSUME BodiesAssumption ==
    /\ Stallers \subseteq APeers
    /\ \A p \in AskTrees : \A b \in Bodies : p[b] \in Bodies \cup {0} /\ p[b] < b

VARIABLES
    Parent,   \* the tree of this behaviour: Parent[b] is the block below b
    asked,    \* the hub's asked_blocks
    have,     \* connected or held bodies
    best,     \* the tip of the connected chain
    storedHeaders,   \* headers with a row in the header table
    badBodies,      \* blocks marked invalid
    fol,      \* per peer: its follow state, or Gone
    orphaned, \* history: asks whose accept ended without forget_asked_block
    askFaults

askVars == <<Parent, asked, have, best, storedHeaders, badBodies, fol, orphaned, askFaults>>

NoHeaderJob == [want |-> {}, drop |-> {}, admit |-> {}, on |-> FALSE]
FreshFollow == [up |-> TRUE, stop |-> FALSE, hdrs |-> {}, pend |-> {}, req |-> {}, win |-> <<>>,
                wire |-> {}, job |-> NoHeaderJob, acc |-> 0]
Gone == [FreshFollow EXCEPT !.up = FALSE]

\* Headers below b, b included, down to genesis.
Lines == [p \in AskTrees |->
            LET line[b \in Bodies \cup {0}] == IF b = 0 THEN {0} ELSE {b} \cup line[p[b]]
            IN  [b \in Bodies \cup {0} |-> line[b]]]
LineTo == Lines[Parent]
Work(b) == Cardinality(LineTo[b])
Connected == LineTo[best]

\* The tip of the chain an honest peer follows.
Tall == CHOOSE b \in Bodies : \A c \in Bodies : Work(c) <= Work(b)

\* connecting_header_path: the headers from b down to the connected chain,
\* empty when one of them is not known.
ConnectingPath(pending, b) ==
    LET path == LineTo[b] \ Connected
    IN  IF path \subseteq pending \cup storedHeaders THEN path ELSE {}

\* fetchable_header_path_bodies: what is still to be asked for on a path with
\* at least the tip's work.
FetchablePath(pending, b, pend, req) ==
    IF Work(b) < Work(best) THEN {}
    ELSE ConnectingPath(pending, b) \ (pend \cup req \cup have \cup asked)

\* release_asks_off_path: an empty path releases nothing.
OffPath(req, keep) == IF keep = {} THEN {} ELSE req \ keep

\* pending_header_leaves
HeaderLeaves(pending) == {b \in pending : \A c \in pending : Parent[c] # b}

idle(s) == fol[s].up /\ ~fol[s].job.on /\ fol[s].acc = 0

\* queue_block_getdata with note_blocks_requested: a block already in the
\* download window keeps its place, and a peer that is leaving opens none.
\* wire: the getdata entries an honest peer has yet to answer.
noteRequested(s, f, want) ==
    [f EXCEPT !.req = @ \cup want,
              !.wire = IF s \in Stallers THEN @ ELSE @ \cup want,
              !.win = IF f.stop THEN @ ELSE @ \o SetToSortSeq(want \ Range(f.win), <)]

-----------------------------------------------------------------------------
AskFrom(tree, bodies, follow) ==
    /\ Parent = tree
    /\ asked = {} /\ have = bodies /\ best = 0 /\ storedHeaders = {0} /\ badBodies = {}
    /\ fol = [s \in APeers |-> follow]
    /\ orphaned = {} /\ askFaults = 0
AskInit == \E tree \in AskTrees : AskFrom(tree, {0}, FreshFollow)

\* on_headers up to its await: the job stores the headers of the announced
\* chain, releases this session's asks that are off that chain and picks the
\* bodies to ask for, all from the follow state read when it started.
ClassifyHeaders(s, b) ==
    /\ idle(s) /\ (s \in Stallers \/ b = Tall)
    /\ LET f == fol[s]
           line == LineTo[b] \ {0}
           keep == LET pending == f.hdrs \cup line IN ConnectingPath(pending, b)
           drop == OffPath(f.req, keep)
           want == FetchablePath(f.hdrs \cup line, b, f.pend, f.req \ drop)
       IN  IF line \cap badBodies # {}
           THEN /\ fol' = [fol EXCEPT ![s] = Gone]
                /\ asked' = asked \ f.req
                /\ UNCHANGED storedHeaders
           ELSE /\ storedHeaders' = storedHeaders \cup line
                /\ asked' = asked \ drop
                /\ fol' = [fol EXCEPT ![s].job =
                             [want |-> want, drop |-> drop, admit |-> line, on |-> TRUE]]
    /\ UNCHANGED <<Parent, have, best, badBodies, orphaned, askFaults>>

\* apply_headers after the await: a body is asked for only when the hub still
\* grants the claim.  A peer over its send budget is asked for nothing.
ApplyHeaders(s) ==
    /\ fol[s].job.on
    /\ \E over \in {FALSE} \cup (IF s \in Stallers THEN {TRUE} ELSE {}) :
         LET j == fol[s].job
             f == [fol[s] EXCEPT !.hdrs = @ \cup j.admit, !.req = @ \ j.drop, !.job = NoHeaderJob]
             claimed == IF over THEN {} ELSE j.want \ (have \cup asked)
         IN  /\ asked' = asked \cup claimed
             /\ fol' = [fol EXCEPT ![s] = noteRequested(s, f, claimed)]
    /\ UNCHANGED <<Parent, have, best, storedHeaders, badBodies, orphaned, askFaults>>

\* drain_pending on follow state f: the stashed bodies whose parent is there
\* are accepted, asks off every pending path are released, and what is still
\* missing is asked for, a body another session was asked for included.
RECURSIVE Adopt(_, _)
Adopt(pend, got) ==
    LET next == {b \in pend \ got : Parent[b] \in got /\ b \notin badBodies}
    IN  IF next = {} THEN got ELSE Adopt(pend, got \cup next)

BestOf(got, tip) ==
    LET top == {b \in got : \A c \in got : Work(c) <= Work(b)}
    IN  IF tip \in top THEN tip ELSE CHOOSE b \in top : TRUE

DrainPending(s, f, got, ask) ==
    LET all == Adopt(f.pend, got)
        left == {b \in f.pend : b \notin all}
        hdrs == f.hdrs \ (f.pend \ left)
        tip == BestOf(all, best)
        live == {b \in hdrs : b \notin LineTo[tip]}
        keep == UNION {LineTo[b] \ LineTo[tip] : b \in HeaderLeaves(live)}
        gone == OffPath(f.req, keep)
        leaf == {b \in UNION {LineTo[c] : c \in {d \in HeaderLeaves(live) : Work(d) >= Work(tip)}} :
                   b \notin all \cup left \cup ask}
        parent == {Parent[b] : b \in left} \ (all \cup left)
        missing == (leaf \cup parent) \ ((f.req \ gone) \cup {0})
        g == [f EXCEPT !.pend = left, !.hdrs = hdrs, !.req = @ \ gone]
    IN  /\ have' = all /\ best' = tip
        /\ asked' = (ask \ gone) \cup missing
        /\ fol' = [fol EXCEPT ![s] = noteRequested(s, g, missing)]

\* Mutated form: a body that is already here does not drain the stash.
OnBlockNoDrain(s, b) ==
    LET f == fol[s]
        known == Parent[b] \in storedHeaders \cup f.hdrs
    IN  /\ idle(s)
        /\ b \in f.wire \/ (s \in Stallers /\ (b \in f.req \/ known))
        /\ \/ /\ b \in have
              /\ asked' = asked \ {b}
              /\ fol' = [fol EXCEPT ![s].req = @ \ {b}, ![s].pend = @ \ {b}, ![s].hdrs = @ \ {b},
                                    ![s].wire = @ \ {b}]
              /\ UNCHANGED <<have, best, storedHeaders>>
           \/ /\ b \notin have /\ known /\ b \notin badBodies
              /\ storedHeaders' = storedHeaders \cup (IF Parent[b] \in storedHeaders THEN {b} ELSE {})
              /\ fol' = [fol EXCEPT ![s].req = @ \ {b}, ![s].hdrs = @ \cup {b}, ![s].acc = b,
                                    ![s].wire = @ \ {b}]
              /\ UNCHANGED <<asked, have, best>>
    /\ UNCHANGED <<Parent, badBodies, orphaned, askFaults>>

\* on_block up to the accept.  The headers job has stored the parent header
\* of every body that is asked for, so the branch that stashes a body below an
\* unknown header is not taken; an unrequested one is dropped.
OnBlock(s, b) ==
    LET f == fol[s]
        known == Parent[b] \in storedHeaders \cup f.hdrs
    IN  /\ idle(s)
        /\ b \in f.wire \/ (s \in Stallers /\ (b \in f.req \/ known))
        /\ \/ /\ b \in have                                \* already_have
              /\ DrainPending(s, [f EXCEPT !.req = @ \ {b}, !.pend = @ \ {b}, !.hdrs = @ \ {b},
                                           !.wire = @ \ {b}],
                              have, asked \ {b})
              /\ UNCHANGED storedHeaders
           \/ /\ b \notin have /\ known /\ b \notin badBodies    \* ensure_peer_header, then accept
              /\ storedHeaders' = storedHeaders \cup (IF Parent[b] \in storedHeaders THEN {b} ELSE {})
              /\ fol' = [fol EXCEPT ![s].req = @ \ {b}, ![s].hdrs = @ \cup {b}, ![s].acc = b,
                                    ![s].wire = @ \ {b}]
              /\ UNCHANGED <<asked, have, best>>
    /\ UNCHANGED <<Parent, badBodies, orphaned, askFaults>>

\* on_block_accept: accepted, weaker (held) or already there.
AcceptDone(s) ==
    LET b == fol[s].acc
        f == [fol[s] EXCEPT !.acc = 0, !.pend = @ \ {b}, !.hdrs = @ \ {b}]
    IN  /\ b # 0 /\ Parent[b] \in have /\ b \notin badBodies
        /\ DrainPending(s, f, have \cup {b}, asked \ {b})
        /\ UNCHANGED <<Parent, storedHeaders, badBodies, orphaned, askFaults>>

\* on_block_accept: the parent body is not here yet.
AcceptNeedsParent(s) ==
    LET b == fol[s].acc
        f == [fol[s] EXCEPT !.acc = 0, !.pend = @ \cup {b}]
    IN  /\ b # 0 /\ Parent[b] \notin have
        /\ DrainPending(s, f, have, asked \ {b})
        /\ UNCHANGED <<Parent, storedHeaders, badBodies, orphaned, askFaults>>

\* on_block_accept: a store fault releases the ask.
AcceptStoreFault(s) ==
    /\ fol[s].acc # 0 /\ askFaults < AMaxFaults
    /\ asked' = asked \ {fol[s].acc}
    /\ fol' = [fol EXCEPT ![s].acc = 0]
    /\ askFaults' = askFaults + 1
    /\ UNCHANGED <<Parent, have, best, storedHeaders, badBodies, orphaned>>

\* on_block_accept: a store row not found, or an invalid block, which is
\* marked.  The session has let go of the body and the hub's ask stays.
AcceptDropped(s) ==
    LET b == fol[s].acc
    IN  /\ b # 0 /\ askFaults < AMaxFaults
        /\ \/ UNCHANGED badBodies
           \/ s \in Stallers /\ Parent[b] \in have /\ badBodies' = badBodies \cup {b}
        /\ orphaned' = orphaned \cup {b}
        /\ fol' = [fol EXCEPT ![s].acc = 0]
        /\ askFaults' = askFaults + 1
        /\ UNCHANGED <<Parent, asked, have, best, storedHeaders>>

\* maybe_expire_block_requests: the ten second getdata stall forgets every ask
\* that the download window does not own.
ExpireRequests(s) ==
    LET stale == fol[s].req \ Range(fol[s].win)
    IN  /\ idle(s) /\ stale # {}
        /\ asked' = asked \ stale
        /\ fol' = [fol EXCEPT ![s].req = @ \ stale]
        /\ UNCHANGED <<Parent, have, best, storedHeaders, badBodies, orphaned, askFaults>>

\* sync_block_download on the heartbeat: blocks no longer in flight leave the
\* front of the window.
SyncWindow(s) ==
    LET w == fol[s].win
        done == CHOOSE n \in 0..Len(w) :
                  /\ \A i \in 1..n : w[i] \notin fol[s].req
                  /\ n = Len(w) \/ w[n + 1] \in fol[s].req
    IN  /\ idle(s) /\ done > 0
        /\ fol' = [fol EXCEPT ![s].win = SubSeq(w, done + 1, Len(w))]
        /\ UNCHANGED <<Parent, asked, have, best, storedHeaders, badBodies, orphaned, askFaults>>

\* The window's oldest block timed out, or the peer went away: the session
\* ends and its follow state forgets every ask it holds.
SessionDrop(s) ==
    /\ idle(s) /\ s \in Stallers
    /\ asked' = asked \ fol[s].req
    /\ fol' = [fol EXCEPT ![s] = Gone]
    /\ UNCHANGED <<Parent, have, best, storedHeaders, badBodies, orphaned, askFaults>>

\* request_disconnect from another task: the session still applies what it has
\* read before it ends.
EvictSession(s) ==
    /\ s \in Stallers /\ fol[s].up /\ ~fol[s].stop
    /\ fol' = [fol EXCEPT ![s].stop = TRUE]
    /\ UNCHANGED <<Parent, asked, have, best, storedHeaders, badBodies, orphaned, askFaults>>

AskNext ==
    \E s \in APeers :
      \/ \E b \in Bodies : ClassifyHeaders(s, b) \/ OnBlock(s, b)
      \/ ApplyHeaders(s) \/ AcceptDone(s) \/ AcceptNeedsParent(s)
      \/ AcceptStoreFault(s) \/ AcceptDropped(s)
      \/ ExpireRequests(s) \/ SyncWindow(s) \/ SessionDrop(s) \/ EvictSession(s)

AskSpec == AskInit /\ [][AskNext]_askVars

-----------------------------------------------------------------------------
\* A hub ask keeps every other peer from fetching that body, so somebody must
\* hold it: a live session that has the body in flight or under accept, or
\* the accept that ended without releasing it (orphaned).
AskHeld ==
    \A b \in asked \ orphaned :
      \E s \in APeers : fol[s].up /\ (b \in fol[s].req \/ fol[s].acc = b)

\* Only the download window times a request out: the ten second stall finds
\* nothing of a session that is staying, so a slow body is never forgotten and
\* asked for a second time while its window is open.
WindowOwnsRequests ==
    \A s \in APeers : fol[s].up /\ ~fol[s].stop => fol[s].req \subseteq Range(fol[s].win)

\* A body a staller sat on reaches the chain through the honest peer, unless
\* an accept has orphaned an ask or the staller got a block marked invalid.
BodiesArrive == [](askFaults = 0) => <>(Tall \in have)

\* Every body that is asked for has somebody who fetches it, under one
\* timeout.
AsksSafe == AskHeld /\ WindowOwnsRequests
=============================================================================
