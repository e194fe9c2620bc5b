------------------------------ MODULE Outbound ------------------------------
(***************************************************************************)
(* Who the node dials after catch-up (rbitcoin-net/src/peers.rs, service.rs *)
(* and the tip-follow supervisor of rbitcoin-node/src/run.rs).  Three       *)
(* actors queue dials: the supervisor keeps `--max-outbound` full-relay     *)
(* sessions from the address book and rotates one when the tip is stale;    *)
(* the redial pass resolves `--connect` and `addnode` hosts and dials every *)
(* endpoint without a session; the `addnode` RPC adds and removes hosts.  A *)
(* dial is counted in flight from the claim until its session has a row.    *)
(***************************************************************************)
EXTENDS Integers, FiniteSets

CONSTANTS
    ObModes,    \* "book" | "connect" | "trust": which options the node runs with
    ObBook,     \* the addresses of the book
    ObAnswers,  \* the addresses a host name may resolve to
    ObAddrs,    \* `--connect` addresses, in mode "connect"
    ObHosts,    \* host names `addnode` may be given
    ObAddModes, \* the modes in which the operator uses `addnode`
    ObConnect,  \* `--connect` host (mode "connect") or `--trust-peer` host
    ObMax,      \* --max-outbound
    ObSlots     \* bound on the dials and sessions of one address

VARIABLES
    obMode, obDials, obSup, obRe, obManual, obSock,
    obRaced, obPrev, obKept, obLate

\* obDials: slot -> one dial or session.  obSup / obRe: the actors.
\* obManual: manual_hosts.  obSock: host_sockets, "none" when absent.
\* History: obRaced, a pass missed a row, or an evicted one was not there or came back;
\* obPrev, the sockets a host moved off that no
\* remaining target used; obKept, sockets kept only for a
\* host that had been removed; obLate, dials that were on their way.
obVars == <<obMode, obDials, obSup, obRe, obManual, obSock, obRaced, obPrev, obKept, obLate>>

NoDial == [net |-> "none", typ |-> "none", at |-> "free", claim |-> FALSE,
           row |-> FALSE, stop |-> FALSE]
NoSlot == <<"none", 0>>
SupIdle == [at |-> "idle", why |-> "none", first |-> {}, occ |-> {}, evict |-> NoSlot, todo |-> {}]
ReIdle == [at |-> "idle", hosts |-> {}, targets |-> {}]

\* A slot is an address and a number: ObSlots bounds the dials and sessions
\* one address has at a time.
Slots == (ObBook \cup ObAnswers \cup ObAddrs) \X (1..ObSlots)

\* The lists are walked in one fixed order.
FirstOf(S) == CHOOSE x \in S : TRUE

\* live_peers: the rows of the table.
Rows == {s \in Slots : obDials[s].row}
FullRelayRows == {s \in Rows : obDials[s].typ = "full"}
NetsOf(S) == {obDials[s].net : s \in S}
in_flight_nets == NetsOf({s \in Slots : obDials[s].claim})

connect_hosts == IF obMode = "book" THEN {} ELSE {ObConnect}
connect_addrs == IF obMode = "connect" THEN ObAddrs ELSE {}
remembered_redials == obManual \cup connect_hosts

\* A target some list still holds uses socket n (what "remaining" means).
Used(n) == n \in connect_addrs \/ \E r \in remembered_redials : obSock[r] = n

\* History: a socket counts as left from the move until some target uses it
\* again or nothing is left of it.
History ==
    \E M \in {{obSock[h] : h \in {x \in DOMAIN obSock : obSock'[x] # obSock[x]}} \ {"none"}} :
      /\ obPrev' = {n \in obPrev \cup M :
                      /\ ~Used(n)'
                      /\ n \in obRe'.targets \/ \E s \in Slots : obDials'[s].net = n}
      /\ obKept' = {n \in obKept \cup M : n \in obPrev' /\ \E h \in DOMAIN obSock : obSock'[h] = n}
      /\ obLate' = {s \in Slots :
           /\ obDials'[s].net \in obPrev'
           /\ \/ s \in obLate
              \/ obDials[s].net \in M /\ ~obDials[s].row
              \/ obDials[s].at = "free" /\ obMode # "trust"
              \/ obDials[s].stop /\ ~obDials'[s].stop}

\* trust_allows_target: under --trust-peer only the socket its host
\* resolves to now.
trust_allows_target(sock, n) == obMode # "trust" \/ sock[ObConnect] = n

-----------------------------------------------------------------------------
(* Queueing a dial: claim, then look for a live row, then send.            *)

\* claim_dial: refused while the target is in flight; otherwise the claim
\* is this dial's slot.
claim_dial(ds, sock, n, typ) ==
    IF ~trust_allows_target(sock, n) \/ (\E s \in Slots : ds[s].claim /\ ds[s].net = n)
    THEN ds
    ELSE LET free == {i \in 1..ObSlots : ds[<<n, i>>].at = "free"}
         IN IF free = {} THEN ds ELSE [ds EXCEPT ![<<n, CHOOSE i \in free : \A j \in free : i <= j>>] =
               [NoDial EXCEPT !.net = n, !.typ = typ, !.at = "claimed", !.claim = TRUE]]

\* is_target_live, the second trust test of enqueue_dial, and the send.
LiveCheck(s) ==
    /\ obDials[s].at = "claimed"
    /\ obDials' = [obDials EXCEPT ![s] =
         IF (\E r \in Rows : obDials[r].net = obDials[s].net) \/ ~trust_allows_target(obSock, obDials[s].net)
         THEN NoDial ELSE [@ EXCEPT !.at = "queued"]]
    /\ UNCHANGED <<obMode, obSup, obRe, obManual, obSock, obRaced>> /\ History

-----------------------------------------------------------------------------
(* The dial task: connect, provisional row, handshake, final row, session.  *)

DialConnected(s) ==
    /\ obDials[s].at = "queued"
    /\ obDials' = [obDials EXCEPT ![s].at = "shaking", ![s].row = TRUE]
    /\ UNCHANGED <<obMode, obSup, obRe, obManual, obSock, obRaced>> /\ History

\* The slot is free; a row picked for eviction is no longer found by its id.
RowGone(s) ==
       /\ obDials' = [obDials EXCEPT ![s] = NoDial]
       /\ obSup' = [obSup EXCEPT !.evict = IF @ = s THEN NoSlot ELSE @]
       /\ UNCHANGED <<obMode, obRe, obManual, obSock, obRaced>> /\ History

\* A connect that failed or timed out; a handshake that failed, or found its
\* row stopped.  The row and the claim go with the task.
DialFails(s) ==
    /\ obDials[s].at \in {"queued", "shaking"}
    /\ RowGone(s)

Shaken(s) ==
    /\ obDials[s].at = "shaking" /\ ~obDials[s].stop
    /\ obDials' = [obDials EXCEPT ![s].at = "shaken"]
    /\ UNCHANGED <<obMode, obSup, obRe, obManual, obSock, obRaced>> /\ History

\* register_handshaken_net drops the connecting row ...
SwapRow(s) ==
    /\ obDials[s].at = "shaken"
    /\ obDials' = [obDials EXCEPT ![s].at = "swap", ![s].row = FALSE]
    /\ UNCHANGED <<obMode, obSup, obRe, obManual, obSock, obRaced>> /\ History

\* ... and inserts the new one.  A stop asked of the old row is not on it.
InsertRow(s) ==
    /\ obDials[s].at = "swap"
    /\ obRaced' = (obRaced \/ (obDials[s].stop /\ obDials[s].typ = "full"))
    /\ obDials' = [obDials EXCEPT ![s].at = "ready", ![s].row = TRUE, ![s].stop = FALSE]
    /\ UNCHANGED <<obMode, obSup, obRe, obManual, obSock>> /\ History

\* The claim ends when prepare_outbound_session returns.
DropClaim(s) ==
    /\ obDials[s].at = "ready" /\ obDials[s].claim
    /\ obDials' = [obDials EXCEPT ![s].claim = FALSE]
    /\ UNCHANGED <<obMode, obSup, obRe, obManual, obSock, obRaced>> /\ History

\* run_prepared_outbound: the session ends and unregisters its row.
SessionEnds(s) ==
    /\ obDials[s].at = "ready" /\ ~obDials[s].claim
    /\ RowGone(s)

\* disconnect_id: a session is told to stop; a row whose handshake is not
\* over is also dropped.
disconnect_id(ds, s) ==
    [ds EXCEPT ![s].stop = TRUE, ![s].row = ds[s].at = "ready"]
disconnect_net(ds, n) ==
    [s \in Slots |-> IF ds[s].row /\ ds[s].net = n THEN disconnect_id(ds, s)[s]
                     ELSE ds[s]]

-----------------------------------------------------------------------------
(* The supervisor.  outbound_slots reads three tables one after another.    *)

RefillStart ==
    /\ obSup.at = "idle" /\ obMode = "book"
    /\ obSup' = [SupIdle EXCEPT !.at = "read2", !.why = "refill",
                   !.first = NetsOf(FullRelayRows), !.occ = NetsOf(FullRelayRows)]
    /\ UNCHANGED <<obMode, obDials, obRe, obManual, obSock, obRaced>> /\ History

\* A stale tip with the quota full: one row is picked for eviction.  The
\* stale interval restarts with each rotation and is far longer than a
\* session takes to stop.
RotateStart(e) ==
    /\ obSup.at = "idle" /\ obMode = "book"
    /\ \A s \in FullRelayRows : ~obDials[s].stop
    /\ e \in FullRelayRows /\ Cardinality(FullRelayRows) >= ObMax
    /\ obSup' = [SupIdle EXCEPT !.at = "read1", !.why = "rotate", !.evict = e]
    /\ UNCHANGED <<obMode, obDials, obRe, obManual, obSock, obRaced>> /\ History
ReadLive ==
    /\ obSup.at = "read1"
    /\ obSup' = [obSup EXCEPT !.at = "read2", !.first = NetsOf(FullRelayRows),
                              !.occ = NetsOf(FullRelayRows)]
    /\ UNCHANGED <<obMode, obDials, obRe, obManual, obSock, obRaced>> /\ History

\* Every other session's address is occupied too.  One that got its row
\* since the first read is not in the count.
ReadOther ==
    /\ obSup.at = "read2"
    /\ obSup' = [obSup EXCEPT !.at = "read3", !.occ = @ \cup NetsOf(Rows)]
    /\ UNCHANGED <<obMode, obDials, obRe, obManual, obSock, obRaced>> /\ History

\* follow_dial_targets: any of the book's addresses that are not occupied,
\* at most `room`, at least one when there is one.
Candidates(room, occ) ==
    IF room <= 0 THEN {{}}
    ELSE IF ObBook \ occ = {} THEN {{}}
    ELSE {p \in SUBSET (ObBook \ occ) : p # {} /\ Cardinality(p) <= room}

Room(live, pending) == ObMax - live - pending

\* Addresses with a session or a dial that the three reads leave out of the
\* count: the row came after the first read, and the claim was over, or the
\* row already seen, at the third.
Missed == {n \in NetsOf({s \in Slots : obDials[s].typ = "full" /\ (obDials[s].row \/ obDials[s].claim)}) :
             n \notin obSup.first /\ n \notin in_flight_nets \ obSup.occ}

Decide ==
    /\ obSup.at = "read3"
    /\ \E p \in Candidates(IF obSup.why = "rotate" THEN 1
                           ELSE IF Cardinality(obSup.first) >= ObMax THEN 0
                           ELSE Room(Cardinality(obSup.first), Cardinality(in_flight_nets \ obSup.occ)),
                           obSup.occ \cup in_flight_nets) :
         /\ obSup' = IF p = {} THEN SupIdle ELSE [obSup EXCEPT !.at = "dial", !.todo = p, !.occ = {}, !.first = {}, !.evict = NoSlot]
         /\ IF p # {} /\ obSup.evict # NoSlot
            THEN IF obDials[obSup.evict].row
                 THEN obDials' = disconnect_id(obDials, obSup.evict) /\ obRaced' = (obRaced \/ Missed # {})
                 ELSE UNCHANGED obDials /\ obRaced' = TRUE
            ELSE UNCHANGED obDials /\ obRaced' = (obRaced \/ (p # {} /\ Missed # {}))
    /\ UNCHANGED <<obMode, obRe, obManual, obSock>> /\ History

\* queue_outbound_full_relay: one address after another.
QueueNext ==
    /\ obSup.at = "dial"
    /\ \E n \in {FirstOf(obSup.todo)} :
         /\ obDials' = claim_dial(obDials, obSock, n, "full")
         /\ obSup' = IF obSup.todo = {n} THEN SupIdle ELSE [obSup EXCEPT !.todo = @ \ {n}]
    /\ UNCHANGED <<obMode, obRe, obManual, obSock, obRaced>> /\ History

-----------------------------------------------------------------------------
(* Host names.                                                             *)

\* note_host_resolved: the answer is the host's socket from now on; the one
\* it replaces is disconnected unless some target still uses it.
socket_still_current(sock, n) ==
    (\E h \in DOMAIN sock : sock[h] = n) \/ n \in connect_addrs
Moved(h, n) == [obSock EXCEPT ![h] = n]
note_host_resolved(h, n) ==
    IF obSock[h] \in {"none", n} \/ socket_still_current(Moved(h, n), obSock[h])
    THEN obDials ELSE disconnect_net(obDials, obSock[h])
Noted(h, n) == obSock' = Moved(h, n)

RedialStart ==
    /\ obRe.at = "idle" /\ remembered_redials \cup connect_addrs # {}
    /\ obRe' = [at |-> "resolve", hosts |-> remembered_redials, targets |-> connect_addrs]
    /\ UNCHANGED <<obMode, obDials, obSup, obManual, obSock, obRaced>> /\ History

RedialResolve ==
    /\ obRe.at = "resolve" /\ obRe.hosts # {}
    /\ \E h \in {FirstOf(obRe.hosts)} :
         \/ /\ obRe' = [obRe EXCEPT !.hosts = @ \ {h}]
            /\ UNCHANGED <<obSock, obDials>>
         \/ \E n \in ObAnswers :
              /\ obRe' = [obRe EXCEPT !.hosts = @ \ {h}, !.targets = @ \cup {n}]
              /\ obDials' = note_host_resolved(h, n) /\ Noted(h, n)
    /\ UNCHANGED <<obMode, obSup, obManual, obRaced>> /\ History

\* ... and each endpoint is dialled once.
RedialDial ==
    /\ obRe.at = "resolve" /\ obRe.hosts = {}
    /\ \/ obRe.targets = {} /\ obRe' = ReIdle /\ UNCHANGED obDials
       \/ obRe.targets # {} /\ \E n \in {FirstOf(obRe.targets)} :
            /\ obDials' = claim_dial(obDials, obSock, n, "manual")
            /\ obRe' = [obRe EXCEPT !.targets = @ \ {n}]
    /\ UNCHANGED <<obMode, obSup, obManual, obSock, obRaced>> /\ History

\* trust_allows_spec: under --trust-peer no other name.
Addable == IF obMode = "trust" THEN {ObConnect} ELSE ObHosts

\* addnode add: the name is kept even when it does not resolve.  Only the
\* trusted host's answer is noted here; any other is noted by the pass.
AddHost(h) ==
    /\ obMode \in ObAddModes /\ h \in Addable
    /\ obManual' = obManual \cup {h}
    /\ \/ UNCHANGED <<obSock, obDials>>
       \/ \E n \in ObAnswers :
            IF obMode = "trust"
            THEN /\ obDials' = claim_dial(note_host_resolved(h, n), Moved(h, n), n, "manual")
                 /\ Noted(h, n)
            ELSE /\ obDials' = claim_dial(obDials, obSock, n, "manual")
                 /\ UNCHANGED obSock
    /\ UNCHANGED <<obMode, obSup, obRe, obRaced>> /\ History

\* addnode remove: the name goes, and the session of what it resolves to now.
RemoveHost(h) ==
    /\ h \in obManual
    /\ h \in Addable
    /\ obManual' = obManual \ {h}
    /\ \/ UNCHANGED <<obDials, obSock>>
       \/ \E n \in ObAnswers :
            IF obMode = "trust"
            THEN obDials' = disconnect_net(note_host_resolved(h, n), n) /\ Noted(h, n)
            ELSE /\ obDials' = disconnect_net(obDials, n)
                 /\ UNCHANGED obSock
    /\ UNCHANGED <<obMode, obSup, obRe, obRaced>> /\ History

-----------------------------------------------------------------------------
ObInit ==
    /\ obMode \in ObModes
    /\ obDials = [s \in Slots |-> NoDial]
    /\ obSup = SupIdle /\ obRe = ReIdle 
    /\ obManual = {} /\ obSock = [h \in ObHosts \cup {ObConnect} |-> "none"]
    /\ obRaced = FALSE /\ obPrev = {} /\ obKept = {} /\ obLate = {}

DialStep(s) == \/ LiveCheck(s) \/ DialConnected(s) \/ DialFails(s) \/ Shaken(s)
               \/ SwapRow(s) \/ InsertRow(s) \/ DropClaim(s)
SupStep == ReadLive \/ ReadOther \/ Decide \/ QueueNext
RedialStep == RedialStart \/ RedialResolve \/ RedialDial
ObNext == \/ \E s \in Slots : DialStep(s) \/ SessionEnds(s)
          \/ RefillStart \/ (\E e \in Slots : RotateStart(e)) \/ SupStep
          \/ RedialStep
          \/ (\E h \in ObHosts \cup {ObConnect} : AddHost(h) \/ RemoveHost(h))

ObSpec == ObInit /\ [][ObNext]_obVars

-----------------------------------------------------------------------------
\* One endpoint has at most one dial or session that was not told to stop:
\* addnode, the redial pass and the refill cannot connect it twice, though
\* each looks at the in-flight count and at the table at different times.
OneSessionEach ==
    \A r, s \in Slots :
      (/\ r # s /\ obDials[r].at \notin {"free", "claimed"} /\ obDials[s].at \notin {"free", "claimed"}
       /\ ~obDials[r].stop /\ ~obDials[s].stop)
      => obDials[r].net # obDials[s].net

Counted == {s \in Slots : obDials[s].typ = "full" /\ ~obDials[s].stop
                          /\ obDials[s].at # "claimed"}

\* Live full-relay sessions and dials on their way to one stay within
\* --max-outbound, except after a pass that ran while a dial got its row (see
\* QuotaAlways) or an evicted handshake that finished anyway.
QuotaKept == obRaced \/ Cardinality(Counted) <= ObMax

Quiet == in_flight_nets = {} /\ obRe.at = "idle"
StaleRows == {s \in Rows : /\ obDials[s].typ = "manual" /\ ~obDials[s].stop
                           /\ obDials[s].net \in obPrev}

\* When nothing is in flight no session is left on a socket its host has
\* moved off, unless the dial was on its way when the host moved (or its
\* handshake had just ended: InsertRow), or a removed host's last answer kept the socket.
MovedIsDropped == Quiet => \A s \in StaleRows : s \in obLate \/ obDials[s].net \in obKept

\* Every --connect address is dialled or connected again and again.
ConnectKept == \A n \in ObAddrs : []<>(obMode = "connect" => \E s \in Slots : obDials[s].net = n)

\* Dials keep to one session per endpoint, to the quota, and leave no session
\* on an address that moved.
DialsSafe == OneSessionEach /\ QuotaKept /\ MovedIsDropped
=============================================================================
