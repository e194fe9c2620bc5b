------------------------------ MODULE PeerTable ------------------------------
(***************************************************************************)
(* The table of live peers.  A connection registers a connecting row, the  *)
(* handshake replaces it by a ready row under the same id, and the session *)
(* unregisters when it ends.  Dials are claimed per target, inbound        *)
(* connections take a permit, one peer at a time holds the initial headers *)
(* sync slot, and three peers are selected for high bandwidth compact      *)
(* blocks.  Sessions, the dialer, the accept loop and the handshake        *)
(* timeout run as separate tasks; each session's heartbeat walks the table *)
(* under its read lock.                                                    *)
(***************************************************************************)
EXTENDS Integers, FiniteSets, SequencesExt

CONSTANTS
    PIds,       \* 1 .. N: the ids register_connecting hands out
    Targets,    \* dial targets
    Noban,      \* the ids of sessions with the noban permission
    MaxIn,      \* inbound permits
    MaxHb       \* high bandwidth peers, 3 in the code

VARIABLES
    live,       \* id -> "none", "connecting" or "ready": the row in the table
    sess,       \* id -> the session task's phase
    tgt,        \* id -> its dial target, or "inbound"
    stopped,    \* pairs <<id, row kind>> whose stop flag is set
    claims,     \* targets with a dial in flight
    dials,      \* targets queued for the dialer
    started,    \* ids whose sync_started is set
    nsync,      \* headers_sync_peers; -1 stands for the wrapped usize
    hb,         \* hb_selected, oldest first
    caughtUp,   \* the best header is within a day of the clock
    beat,       \* id -> the peer its heartbeat is about to release, or 0
    kill,       \* the connecting row the handshake timeout is dropping, or 0
    cut,        \* history: ids whose ready row the handshake timeout removed
    raced       \* history: two heartbeats released the same slot

tableVars == <<live, sess, tgt, stopped, claims, dials, started, nsync, caughtUp, hb, beat, kill, cut, raced>>

rowsFree == \A b \in PIds : beat[b] = 0      \* no reader holds the table's lock
Inbound(i) == tgt[i] = "inbound"
RowHeld == {i \in PIds : Inbound(i) /\ sess[i] \in {"shake", "swap", "serve"}}
NextId == CHOOSE i \in PIds : sess[i] = "unused" /\ \A j \in PIds : j < i => sess[j] # "unused"
\* is_target_live: a row that is not told to stop.
TargetLive(t) == \E i \in PIds : tgt[i] = t /\ live[i] # "none" /\ <<i, live[i]>> \notin stopped

\* end_headers_sync on the row of i, if it started.
endSync(i) ==
    IF i \in started THEN started' = started \ {i} /\ nsync' = nsync - 1
    ELSE UNCHANGED <<started, nsync>>

\* unregister: the row leaves, whatever row it is, and with a ready row its
\* sync slot; the id leaves the high bandwidth list in any case.
unregister(i) ==
    /\ rowsFree
    /\ live' = [live EXCEPT ![i] = "none"]
    /\ IF live[i] = "ready" THEN endSync(i) ELSE UNCHANGED <<started, nsync>>
    /\ hb' = SelectSeq(hb, LAMBDA x : x # i)

releaseClaim(i) == claims' = claims \ {tgt[i]}

-----------------------------------------------------------------------------
TableInit ==
    /\ live = [i \in PIds |-> "none"] /\ sess = [i \in PIds |-> "unused"]
    /\ tgt = [i \in PIds |-> "inbound"] /\ stopped = {} /\ claims = {} /\ dials = {}
    /\ started = {} /\ nsync = 0 /\ caughtUp = FALSE /\ hb = <<>> /\ beat = [i \in PIds |-> 0]
    /\ kill = 0 /\ cut = {} /\ raced = FALSE

\* Mutated form: the table is looked at and the dials in flight are not.
ClaimDialLiveOnly(t) ==
    /\ t \notin dials /\ ~(\E i \in PIds : tgt[i] = t /\ live[i] = "ready" /\ <<i, "ready">> \notin stopped)
    /\ claims' = claims \cup {t} /\ dials' = dials \cup {t}
    /\ UNCHANGED <<live, sess, tgt, stopped, started, nsync, hb, beat, kill, cut, raced, caughtUp>>

\* dial_outbound_full_relay and dial_manual_ready: claim, look for a live row,
\* queue.
ClaimDial(t) ==
    /\ t \notin claims /\ ~TargetLive(t)
    /\ claims' = claims \cup {t} /\ dials' = dials \cup {t}
    /\ UNCHANGED <<live, sess, tgt, stopped, started, nsync, hb, beat, kill, cut, raced, caughtUp>>

\* prepare_outbound_session: connected, register_connecting_net.
Connect(t) ==
    /\ t \in dials /\ rowsFree /\ \E i \in PIds : sess[i] = "unused"
    /\ dials' = dials \ {t}
    /\ live' = [live EXCEPT ![NextId] = "connecting"]
    /\ sess' = [sess EXCEPT ![NextId] = "shake"]
    /\ tgt' = [tgt EXCEPT ![NextId] = t]
    /\ UNCHANGED <<stopped, claims, started, nsync, hb, beat, kill, cut, raced, caughtUp>>

\* prepare_outbound_session: discouraged, refused or timed out.
ConnectFails(t) ==
    /\ t \in dials
    /\ dials' = dials \ {t} /\ claims' = claims \ {t}
    /\ UNCHANGED <<live, sess, tgt, stopped, started, nsync, hb, beat, kill, cut, raced, caughtUp>>

\* spawn_inbound_accept with a permit left.
AcceptInbound ==
    /\ Cardinality(RowHeld) < MaxIn /\ rowsFree /\ \E i \in PIds : sess[i] = "unused"
    /\ live' = [live EXCEPT ![NextId] = "connecting"]
    /\ sess' = [sess EXCEPT ![NextId] = "shake"]
    /\ UNCHANGED <<tgt, stopped, claims, dials, started, nsync, hb, beat, kill, cut, raced, caughtUp>>

\* disconnect_id for eviction or by a request: a row that is not ready goes at
\* once, a ready row is told to stop and stays until its session returns.
Disconnect(i) ==
    /\ live[i] # "none" /\ <<i, live[i]>> \notin stopped
    /\ stopped' = stopped \cup {<<i, live[i]>>}
    /\ IF live[i] = "connecting" THEN unregister(i) ELSE UNCHANGED <<live, started, nsync, hb>>
    /\ UNCHANGED <<sess, tgt, claims, dials, beat, kill, cut, raced, caughtUp>>

\* The handshake failed, or found its row stopped.
HandshakeFails(i) ==
    /\ sess[i] = "shake"
    /\ unregister(i) /\ releaseClaim(i)
    /\ sess' = [sess EXCEPT ![i] = "ended"]
    /\ UNCHANGED <<tgt, stopped, dials, beat, kill, cut, raced, caughtUp>>

\* register_handshaken_net, first half: the connecting row is taken out.
HandshakeDone(i) ==
    /\ sess[i] = "shake" /\ <<i, "connecting">> \notin stopped
    /\ unregister(i)
    /\ sess' = [sess EXCEPT ![i] = "swap"]
    /\ UNCHANGED <<tgt, stopped, claims, dials, beat, kill, cut, raced, caughtUp>>

\* Second half: the ready row goes in under the same id, and the dial's claim
\* is dropped.
InsertReady(i) ==
    /\ sess[i] = "swap" /\ rowsFree
    /\ live' = [live EXCEPT ![i] = "ready"]
    /\ sess' = [sess EXCEPT ![i] = "serve"]
    /\ releaseClaim(i)
    /\ UNCHANGED <<tgt, stopped, dials, started, nsync, hb, beat, kill, cut, raced, caughtUp>>

\* check_handshake_timeouts: the row is read and told to stop ...
TimeoutRow(i) ==
    /\ kill = 0 /\ live[i] = "connecting"
    /\ kill' = i /\ stopped' = stopped \cup {<<i, "connecting">>}
    /\ UNCHANGED <<live, sess, tgt, claims, dials, started, nsync, hb, beat, cut, raced, caughtUp>>

\* ... and then the id is unregistered, because that row is not ready.
TimeoutDrop ==
    /\ kill # 0 /\ unregister(kill)
    /\ kill' = 0
    /\ cut' = IF live[kill] = "ready" THEN cut \cup {kill} ELSE cut
    /\ UNCHANGED <<sess, tgt, stopped, claims, dials, beat, raced, caughtUp>>

\* The session returned.
SessionEnd(i) ==
    /\ sess[i] = "serve"
    /\ unregister(i)
    /\ sess' = [sess EXCEPT ![i] = "ended"]
    /\ UNCHANGED <<tgt, stopped, claims, dials, beat, kill, cut, raced, caughtUp>>

\* The best header comes within a day of the clock.
CatchUp ==
    /\ ~caughtUp /\ caughtUp' = TRUE
    /\ UNCHANGED <<live, sess, tgt, stopped, claims, dials, started, nsync, hb, beat, kill, cut, raced>>

\* try_start_headers_sync: a compare-and-swap from 0 while far behind, an
\* increment once caught up.  A stopped peer does not take the slot.
StartSync(i) ==
    /\ sess[i] = "serve" /\ i \notin started /\ <<i, "ready">> \notin stopped
    /\ caughtUp \/ nsync = 0
    /\ started' = started \cup {i} /\ nsync' = nsync + 1
    /\ UNCHANGED <<live, sess, tgt, stopped, claims, dials, hb, beat, kill, cut, raced, caughtUp>>

\* check_headers_sync_timeouts on session b's heartbeat: alone in the slot,
\* past its deadline, and another peer could serve instead.
BeatSees(b, p) ==
    /\ sess[b] = "serve" /\ beat[b] = 0 /\ nsync = 1
    /\ p \in started /\ live[p] = "ready" /\ \E q \in PIds \ {p} : live[q] = "ready"
    /\ IF p \in Noban
       THEN beat' = [beat EXCEPT ![b] = p] /\ UNCHANGED stopped
       ELSE stopped' = stopped \cup {<<p, "ready">>} /\ UNCHANGED beat
    /\ UNCHANGED <<live, sess, tgt, claims, dials, started, nsync, hb, kill, cut, raced, caughtUp>>

\* The noban peer keeps its session and loses the slot: a store of the flag
\* and a decrement, not a swap.
BeatReleases(b) ==
    /\ beat[b] # 0
    /\ started' = started \ {beat[b]} /\ nsync' = nsync - 1
    /\ raced' = (raced \/ beat[b] \notin started)
    /\ beat' = [beat EXCEPT ![b] = 0]
    /\ UNCHANGED <<live, sess, tgt, stopped, claims, dials, hb, kill, cut, caughtUp>>

\* maybe_select_hb: a selected peer moves to the end; with the list full the
\* oldest goes, but an inbound newcomer passes over the only outbound peer.
Outbound(i) == live[i] # "none" /\ ~Inbound(i)
\* Mutated form: the oldest goes whoever it is.
hbEvictOldest(i) == 1

hbEvict(i) ==
    LET outs == {k \in 1..Len(hb) : Outbound(hb[k])}
    IN  IF Inbound(i) /\ outs = {1} THEN 2 ELSE 1

SelectHb(i) ==
    /\ sess[i] = "serve" /\ live[i] # "none"
    /\ hb' = IF Contains(hb, i) THEN Append(SelectSeq(hb, LAMBDA x : x # i), i)
             ELSE IF Len(hb) >= MaxHb THEN Append(RemoveAt(hb, hbEvict(i)), i)
             ELSE Append(hb, i)
    /\ UNCHANGED <<live, sess, tgt, stopped, claims, dials, started, nsync, beat, kill, cut, raced, caughtUp>>

TableNext ==
    \/ \E t \in Targets : ClaimDial(t) \/ Connect(t) \/ ConnectFails(t)
    \/ AcceptInbound \/ TimeoutDrop \/ CatchUp
    \/ \E i \in PIds :
         \/ Disconnect(i) \/ HandshakeFails(i) \/ HandshakeDone(i) \/ InsertReady(i)
         \/ TimeoutRow(i) \/ SessionEnd(i) \/ StartSync(i) \/ BeatReleases(i) \/ SelectHb(i)
         \/ \E p \in PIds : BeatSees(i, p)

TableSpec == TableInit /\ [][TableNext]_tableVars

-----------------------------------------------------------------------------
TableTypeOK ==
    /\ live \in [PIds -> {"none", "connecting", "ready"}]
    /\ sess \in [PIds -> {"unused", "shake", "swap", "serve", "ended"}]
    /\ tgt \in [PIds -> Targets \cup {"inbound"}]
    /\ claims \subseteq Targets /\ dials \subseteq Targets /\ started \subseteq PIds
    /\ nsync \in Int /\ cut \subseteq PIds

\* A session that serves has its row, so it is counted, can be disconnected
\* and gives its slots back: except when the handshake timeout read the
\* connecting row and unregistered the id after the handshake replaced it.
ServedIsListed ==
    \A i \in PIds : sess[i] = "serve" /\ i \notin cut => live[i] = "ready"

\* The headers sync counter is the number of peers that started, all of them
\* sessions that still run: no order of start, noban release, disconnect and
\* drain leaks a slot (which would end initial sync from anyone) unless two
\* heartbeats released the same noban peer or a ready row was cut.
SyncSlotsExact ==
    ~raced /\ cut = {} =>
      /\ nsync = Cardinality(started)
      /\ \A i \in started : sess[i] = "serve"
      /\ ~caughtUp => nsync <= 1

\* Claimed dials never give two sessions to one target: from the claim to the
\* end of the session, at most one connection that was not told to stop.
OneSessionPerTarget ==
    \A t \in Targets : cut = {} =>
      Cardinality({i \in PIds : tgt[i] = t /\ sess[i] \in {"shake", "swap", "serve"}
                     /\ {<<i, "connecting">>, <<i, "ready">>} \cap stopped = {}})
        + Cardinality(dials \cap {t}) <= 1

\* An inbound peer never pushes the last outbound peer out of the high
\* bandwidth list, so three inbound peers cannot be its only source of
\* compact blocks.
OutboundHbKept ==
    \A o \in Range(hb) :
      /\ Outbound(o) /\ live' = live
      /\ \A k \in Range(hb) : Outbound(k) => k = o
      /\ \E i \in Range(hb') \ Range(hb) : Inbound(i)
      => o \in Range(hb')

\* Sessions, rows, sync slots and dial claims agree.
TableSafe ==
    /\ TableTypeOK
    /\ ServedIsListed
    /\ SyncSlotsExact
    /\ OneSessionPerTarget
=============================================================================
