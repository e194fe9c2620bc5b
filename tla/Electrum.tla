------------------------------ MODULE Electrum ------------------------------
(***************************************************************************)
(* One Electrum connection (rbitcoin-electrum/src/server.rs, handle_client) *)
(* beside the node it reports on.  The connection answers requests one at  *)
(* a time and, between them, takes tip events, mempool announces and a     *)
(* 50 ms tick from a select loop; each may make it read the statuses of    *)
(* subscribed scripthashes on the blocking pool and push those that        *)
(* changed.  The node moves meanwhile: a connect or reorg holds the pool   *)
(* (TemplateHold, an odd pool_settle_gen), a restatus that overlaps a hold *)
(* is dropped, and the durable scripthash watermark follows the tip later. *)
(*                                                                         *)
(* A status is what get_history would list: the confirmed rows with their  *)
(* heights and the mempool tail.                                           *)
(***************************************************************************)
EXTENDS Naturals, Sequences, FiniteSets

CONSTANTS ElShs,        \* the scripthashes a client may watch
          ElTxs,        \* the transactions of the model
          ElOuts,       \* tx -> scripthashes its outputs pay
          ElIns,        \* tx -> scripthashes its inputs spend
          ElClash,      \* tx -> the transactions it conflicts with
          ElSubMax,     \* max_scripthash_subs
          ElTipCap,     \* capacity of the tip broadcast channel
          ElAnnCap,     \* capacity of the mempool announce channel
          ElGap,        \* TICK_SCAN_MAX_GAP
          ElTop,        \* bound on the chain's length
          ElMoves,      \* bound on the node's moves
          ElAsks        \* bound on the client's requests

VARIABLES elNode,       \* the chain, the pool, the hold and the index
          elTips,       \* the connection's receiver of tip events
          elAnns,       \* its receiver of mempool announces
          elConn,       \* ElectrumConn and the locals of handle_client
          elJob,        \* the read the connection waits for
          elTold,       \* what the client was last told
          elSilent      \* history variable: hashes owed no further push

elVars == <<elNode, elTips, elAnns, elConn, elJob, elTold, elSilent>>

ElTouches(t) == ElOuts[t] \cup ElIns[t]

Touched(txs) == UNION {ElTouches(t) : t \in txs}

(* scripthash_status_full: confirmed rows, then the mempool tail without   *)
(* what is already listed (append_mempool_history).                        *)
scripthash_status(n, sh) ==
  LET conf == {<<t, h>> \in ElTxs \X (1..Len(n.chain)) :
                 t \in n.chain[h] /\ sh \in ElTouches(t)}
  IN  [rows |-> conf,
       tail |-> {t \in n.pool : sh \in ElTouches(t)} \ {r[1] : r \in conf}]

(* What a never-told client knows. *)
Untold == [rows |-> {}, tail |-> {"?"}]

NoJob == [why |-> "none"]

ElInit ==
  /\ elNode = [chain |-> << >>, pool |-> {}, gen |-> 0, step |-> "idle", gone |-> {},
               through |-> 0, released |-> 0, left |-> ElMoves]
  /\ elTips = [q |-> << >>, lagged |-> FALSE]
  /\ elAnns = << >>
  /\ elConn = [subs |-> {}, sent |-> << >>, hdr |-> FALSE, op |-> FALSE,
               rescan |-> FALSE, seen |-> 0, asks |-> ElAsks]
  /\ elJob = NoJob
  /\ elTold = [sh |-> [s \in ElShs |-> Untold], tip |-> << >>, op |-> {}, odd |-> {}]
  /\ elSilent = {}

----------------------------------------------------------------------------
(* The node.                                                               *)

MovesLeft == elNode.left > 0

(* broadcast::Sender::send into a receiver that may be full: the oldest    *)
(* event goes and the receiver will see Lagged first.                      *)
send(ch, e) ==
  IF Len(ch.q) < ElTipCap THEN [ch EXCEPT !.q = Append(@, e)]
  ELSE [q |-> Append(Tail(ch.q), e), lagged |-> TRUE]

Confirmed(n) == UNION {n.chain[h] : h \in 1..Len(n.chain)}

(* An admission.  Conflicts are replaced; the announce names every         *)
(* scripthash of the new body and the output scripthashes of the replaced. *)
(* A full receiver loses its oldest announce, and the loop ignores the     *)
(* Lagged it then receives.                                                *)
Admit(t) ==
  LET out == ElClash[t] \cap elNode.pool
      shs == ElTouches(t) \cup UNION {ElOuts[u] : u \in out}
  IN  /\ MovesLeft /\ elNode.step \in {"idle", "tell"}
      /\ t \notin elNode.pool \cup Confirmed(elNode)
      /\ ElClash[t] \cap Confirmed(elNode) = {}
      /\ elNode' = [elNode EXCEPT !.pool = (@ \ out) \cup {t}, !.left = @ - 1]
      /\ elAnns' = IF Len(elAnns) < ElAnnCap THEN Append(elAnns, shs)
                   ELSE Append(Tail(elAnns), shs)
      /\ elSilent' = elSilent
            \cup (IF Len(elAnns) < ElAnnCap THEN {} ELSE elAnns[1])
            \cup (Touched(out) \ shs)
      /\ UNCHANGED <<elTips, elConn, elJob, elTold>>

(* Expiry, the size budget, evict_after_reorg: the tx goes unannounced. *)
Evict(t) ==
  /\ MovesLeft /\ elNode.step \in {"idle", "tell"} /\ t \in elNode.pool
  /\ elNode' = [elNode EXCEPT !.pool = @ \ {t}, !.left = @ - 1]
  /\ elSilent' = elSilent \cup ElTouches(t)
  /\ UNCHANGED <<elTips, elAnns, elConn, elJob, elTold>>

(* connect_at up to the strip: the tip moves under the hold and the        *)
(* scripthash jobs are in the RAM head.                                    *)
ConnectBegin(b) ==
  /\ MovesLeft /\ elNode.step = "idle" /\ Len(elNode.chain) < ElTop
  /\ b \cap Confirmed(elNode) = {}
  /\ \A t \in b : ElClash[t] \cap (Confirmed(elNode) \cup b) = {}
  /\ elNode' = [elNode EXCEPT !.chain = Append(@, b), !.gen = @ + 1,
                              !.step = "strip", !.left = @ - 1]
  /\ UNCHANGED <<elTips, elAnns, elConn, elJob, elTold, elSilent>>

(* remove_for_block_spent and the end of the hold.  A conflict of a block  *)
(* tx leaves the pool with it, unannounced.                                *)
Strip ==
  LET b == elNode.chain[Len(elNode.chain)]
      out == {t \in elNode.pool : ElClash[t] \cap b # {}}
  IN  /\ elNode.step = "strip"
      /\ elNode' = [elNode EXCEPT !.pool = @ \ (b \cup out), !.gen = @ + 1, !.step = "tell"]
      /\ elSilent' = elSilent \cup (Touched(out) \ Touched(b))
      /\ UNCHANGED <<elTips, elAnns, elConn, elJob, elTold>>

(* tip_tx.send, then release_index_writebehind. *)
Tell ==
  /\ elNode.step \in {"tell", "reorg_tell"}
  /\ elTips' = send(elTips, [tip |-> elNode.chain,
                             reorg |-> elNode.step = "reorg_tell"])
  /\ elNode' = [elNode EXCEPT !.step = "idle", !.released = Len(elNode.chain)]
  /\ elTold' = [elTold EXCEPT !.odd = {}]
  /\ UNCHANGED <<elAnns, elConn, elJob, elSilent>>

(* The write-behind appender applies the next released height. *)
IndexOne ==
  /\ elNode.through < elNode.released /\ elNode.through < Len(elNode.chain)
  /\ elNode' = [elNode EXCEPT !.through = @ + 1]
  /\ UNCHANGED <<elTips, elAnns, elConn, elJob, elTold, elSilent>>

ElBelow(s) == SubSeq(s, 1, Len(s) - 1)

(* A branch takes the tip off under its hold: the pending job goes, the    *)
(* watermark walks back, and the block's transactions are in neither.      *)
ReorgBegin ==
  /\ MovesLeft /\ elNode.step = "idle" /\ elNode.chain # << >>
  /\ LET n == Len(elNode.chain) IN
     elNode' = [elNode EXCEPT !.chain = ElBelow(@), !.gen = @ + 1, !.step = "branch",
                              !.gone = elNode.chain[n], !.left = @ - 1,
                              !.through = IF @ = n THEN n - 1 ELSE @,
                              !.released = IF @ = n THEN n - 1 ELSE @]
  /\ UNCHANGED <<elTips, elAnns, elConn, elJob, elTold, elSilent>>

(* finish_branch_reorg: the new branch is connected, what it did not       *)
(* confirm is accepted again, the hold ends; its events follow.            *)
ReorgEnd(b) ==
  LET out == {t \in elNode.pool : ElClash[t] \cap b # {}}
      back == {t \in elNode.gone \ b : ElClash[t] \cap (b \cup elNode.pool) = {}}
  IN  /\ elNode.step = "branch"
      /\ b # elNode.gone /\ b \cap Confirmed(elNode) = {}
      /\ \A t \in b : ElClash[t] \cap (Confirmed(elNode) \cup b) = {}
      /\ elNode' = [elNode EXCEPT !.chain = Append(@, b), !.gen = @ + 1, !.step = "reorg_tell",
                                  !.pool = (@ \ (b \cup out)) \cup back, !.gone = {}]
      /\ UNCHANGED <<elTips, elAnns, elConn, elJob, elTold, elSilent>>

(* invalidateblock without a branch to follow: the disconnect accepts its  *)
(* transactions again, the hold ends, one event names the stump.           *)
Disconnect ==
  /\ elNode.step = "branch"
  /\ elNode' = [elNode EXCEPT !.gen = @ + 1, !.step = "reorg_tell", !.gone = {},
                              !.pool = @ \cup {t \in elNode.gone : ElClash[t] \cap elNode.pool = {}}]
  /\ UNCHANGED <<elTips, elAnns, elConn, elJob, elTold, elSilent>>

(* A branch whose first block fails: the old block is connected again and  *)
(* no event is sent, so a subscribe or an outpoint note that read inside   *)
(* the hold (elTold.odd) gets no correction.                               *)
ReorgRestores ==
  /\ elNode.step = "branch"
  /\ elNode' = [elNode EXCEPT !.chain = Append(@, elNode.gone), !.gen = @ + 1,
                              !.gone = {}, !.step = "idle",
                              !.released = Len(elNode.chain) + 1]
  /\ elSilent' = elSilent \cup elTold.odd
  /\ UNCHANGED <<elTips, elAnns, elConn, elJob, elTold>>

ElBlocks == {{}} \cup {{t} : t \in ElTxs}

NodeStep ==
  \/ \E t \in ElTxs : Admit(t) \/ Evict(t)
  \/ \E b \in ElBlocks : ConnectBegin(b) \/ ReorgEnd(b)
  \/ Strip \/ Tell \/ IndexOne \/ ReorgBegin \/ Disconnect \/ ReorgRestores

----------------------------------------------------------------------------
(* The connection.                                                         *)

Ready == elJob = NoJob

(* emit_outpoint_notes: the confirmed spends, read whatever holds the pool. *)
emit_outpoint_notes(c, told) == IF c.op THEN Confirmed(elNode) ELSE told.op

(* tick_scan: the heights the tick looks at, "all" for every subscription, *)
(* "none" when the watermark did not move.                                 *)
tick_scan(seen, now) ==
  CASE seen = now -> [all |-> FALSE, hs |-> {}]
    [] now > seen /\ now - seen <= ElGap -> [all |-> FALSE, hs |-> (seen + 1)..now]
    [] OTHER -> [all |-> TRUE, hs |-> {}]

Read(why, subs, all, hs, now) ==
  [why |-> why, subs |-> subs, all |-> all, hs |-> hs, now |-> now,
   gen |-> elNode.gen, at |-> "start", notes |-> << >>]

(* tip_rx.recv Ok: the header line, the outpoint notes, then the statuses  *)
(* the block touches, or all of them after a reorg.                        *)
RecvTip ==
  LET e == elTips.q[1] IN
  /\ Ready /\ ~elTips.lagged /\ elTips.q # << >>
  /\ elTips' = [elTips EXCEPT !.q = Tail(@)]
  /\ elTold' = [elTold EXCEPT !.tip = IF elConn.hdr THEN e.tip ELSE @,
                              !.op = emit_outpoint_notes(elConn, elTold),
                              !.odd = IF elNode.gen % 2 = 1 THEN {"op"} \cup @ ELSE @ \ {"op"}]
  /\ elSilent' = elSilent \ {"tip", "op"}
  /\ elJob' = IF elConn.subs = {} THEN NoJob
              ELSE Read("event", elConn.subs, e.reorg, {Len(e.tip)}, 0)
  /\ UNCHANGED <<elNode, elAnns, elConn>>

(* RecvError::Lagged: every subscription is read again. *)
RecvLagged ==
  /\ Ready /\ elTips.lagged
  /\ elTips' = [elTips EXCEPT !.lagged = FALSE]
  /\ elJob' = IF elConn.subs = {} THEN NoJob
              ELSE Read("event", elConn.subs, TRUE, {}, 0)
  /\ UNCHANGED <<elNode, elAnns, elConn, elTold, elSilent>>

Scan == IF elConn.rescan THEN [all |-> TRUE, hs |-> {}]
        ELSE tick_scan(elConn.seen, elNode.through)

(* The tick, which only runs while something is subscribed. *)
RecvTick ==
  /\ Ready /\ elConn.subs # {}
  /\ Scan.all \/ Scan.hs # {}
  /\ elJob' = Read("tick", elConn.subs, Scan.all, Scan.hs, elNode.through)
  /\ UNCHANGED <<elNode, elTips, elAnns, elConn, elTold, elSilent>>

(* A mempool announce: only the subscribed hashes it touches. *)
RecvAnn ==
  /\ Ready /\ elAnns # << >>
  /\ elAnns' = Tail(elAnns)
  /\ elJob' = IF elAnns[1] \cap elConn.subs = {} THEN NoJob
              ELSE Read("ann", elAnns[1] \cap elConn.subs, TRUE, {}, 0)
  /\ UNCHANGED <<elNode, elTips, elConn, elTold, elSilent>>

(* restatus_notes for the hashes a height touches, or for all of them. *)
Hit(j, n) ==
  IF j.all THEN j.subs
  ELSE {s \in j.subs : \E h \in j.hs : h <= Len(n.chain) /\ s \in Touched(n.chain[h])}

restatus_notes(j, n) == [s \in Hit(j, n) |-> scripthash_status(n, s)]

(* settled_restatus_notes, its first load and the reads: an odd generation *)
(* refuses at once.                                                        *)
ReadStatuses ==
  /\ elJob.why \in {"event", "tick", "ann"} /\ elJob.at = "start"
  /\ elJob' = IF elJob.gen % 2 = 1 THEN [elJob EXCEPT !.at = "refused"]
              ELSE [elJob EXCEPT !.at = "read", !.notes = restatus_notes(elJob, elNode)]
  /\ elSilent' = IF elJob.gen % 2 = 1 THEN elSilent
                 ELSE elSilent \ Hit(elJob, elNode)
  /\ UNCHANGED <<elNode, elTips, elAnns, elConn, elTold>>

settled(j, n) == j.at = "read" /\ j.gen = n.gen

(* push_sh_notes and take_new_status: each status that differs from the    *)
(* last one sent is written and remembered.                                *)
push_sh_notes(sent, notes) == [s \in DOMAIN sent \cup DOMAIN notes |->
                                 IF s \in DOMAIN notes THEN notes[s] ELSE sent[s]]

FreshNotes(sent, notes) ==
  {s \in DOMAIN notes : s \notin DOMAIN sent \/ sent[s] # notes[s]}

(* Mutated form: a read that did not settle is forgotten. *)
AfterReadForgets(c, j, ok) ==
  IF ok THEN [c EXCEPT !.sent = push_sh_notes(@, j.notes),
                       !.rescan = IF j.why = "tick" THEN FALSE ELSE @,
                       !.seen = IF j.why = "tick" THEN j.now ELSE @]
  ELSE c

(* A refused or overtaken read asks for a rescan; the tick clears the      *)
(* request and moves its mark only when its own read settled.              *)
AfterRead(c, j, ok) ==
  IF ok THEN [c EXCEPT !.sent = push_sh_notes(@, j.notes),
                       !.rescan = IF j.why = "tick" THEN FALSE ELSE @,
                       !.seen = IF j.why = "tick" THEN j.now ELSE @]
  ELSE [c EXCEPT !.rescan = TRUE]

EndRead ==
  LET ok == settled(elJob, elNode) IN
  /\ elJob.why \in {"event", "tick", "ann"} /\ elJob.at \in {"read", "refused"}
  /\ elConn' = AfterRead(elConn, elJob, ok)
  /\ elTold' = [elTold EXCEPT !.sh = [s \in ElShs |->
                  IF ok /\ s \in FreshNotes(elConn.sent, elJob.notes)
                  THEN elJob.notes[s] ELSE elTold.sh[s]]]
  /\ elJob' = NoJob
  /\ UNCHANGED <<elNode, elTips, elAnns, elSilent>>

----------------------------------------------------------------------------
(* Requests, answered one at a time (answer_one, dispatch_pinned).         *)

Asks == Ready /\ elConn.asks > 0

Asked(c) == [c EXCEPT !.asks = @ - 1]

(* scripthash.subscribe on the blocking pool: the set grows and the status *)
(* is read, whatever holds the pool.  At the cap it is refused.            *)
Subscribe(s) ==
  /\ Asks
  /\ s \in elConn.subs \/ Cardinality(elConn.subs) < ElSubMax
  /\ elConn' = [Asked(elConn) EXCEPT !.subs = @ \cup {s}]
  /\ elJob' = [why |-> "sub", sh |-> s, status |-> scripthash_status(elNode, s)]
  /\ elTold' = [elTold EXCEPT !.odd = IF elNode.gen % 2 = 1 THEN @ \cup {s} ELSE @ \ {s}]
  /\ elSilent' = elSilent \ {s}
  /\ UNCHANGED <<elNode, elTips, elAnns>>

(* drop_unsubscribed_status: only when more is remembered than watched. *)
drop_unsubscribed_status(sent, subs) ==
  IF Cardinality(DOMAIN sent) > Cardinality(subs)
  THEN [s \in DOMAIN sent \cap subs |-> sent[s]] ELSE sent

record_sent_status(sent, s, st) == push_sh_notes(sent, [x \in {s} |-> st])

(* finish_reply of a subscribe: the status sent is remembered and written. *)
SubReply ==
  /\ elJob.why = "sub"
  /\ elConn' = [elConn EXCEPT !.sent = record_sent_status(
                   drop_unsubscribed_status(@, elConn.subs), elJob.sh, elJob.status)]
  /\ elTold' = [elTold EXCEPT !.sh[elJob.sh] = elJob.status]
  /\ elJob' = NoJob
  /\ UNCHANGED <<elNode, elTips, elAnns, elSilent>>

(* scripthash.unsubscribe stays on the connection's task. *)
Unsubscribe(s) ==
  /\ Asks /\ s \in elConn.subs
  /\ elConn' = [Asked(elConn) EXCEPT !.subs = @ \ {s},
                  !.sent = [x \in DOMAIN @ \ {s} |-> elConn.sent[x]]]
  /\ elTold' = [elTold EXCEPT !.sh[s] = Untold]
  /\ UNCHANGED <<elNode, elTips, elAnns, elJob, elSilent>>

(* headers.subscribe and outpoint.subscribe answer from the live tip. *)
SubscribeTip ==
  /\ Asks /\ ~elConn.hdr
  /\ elConn' = [Asked(elConn) EXCEPT !.hdr = TRUE, !.op = TRUE]
  /\ elTold' = [elTold EXCEPT !.tip = elNode.chain, !.op = Confirmed(elNode),
                              !.odd = IF elNode.gen % 2 = 1 THEN {"tip", "op"} \cup @ ELSE @]
  /\ UNCHANGED <<elNode, elTips, elAnns, elJob, elSilent>>

ConnStep ==
  \/ RecvTip \/ RecvLagged \/ RecvTick \/ RecvAnn \/ ReadStatuses \/ EndRead \/ SubReply
  \/ \E s \in ElShs : Subscribe(s) \/ Unsubscribe(s)
  \/ SubscribeTip

ElNext == NodeStep \/ ConnStep

ElSpec == ElInit /\ [][ElNext]_elVars

----------------------------------------------------------------------------
(* Nothing is left to do: no hold, no event or announce to take, no read   *)
(* under way, the index at the tip and no tick due.                        *)
ElQuiet ==
  /\ elNode.step = "idle" /\ elJob = NoJob /\ elNode.through = Len(elNode.chain)
  /\ elTips = [q |-> << >>, lagged |-> FALSE] /\ elAnns = << >>
  /\ ~(Scan.all \/ Scan.hs # {})

(* When the node and the connection have come to rest, a subscribed client *)
(* was last told the status get_history would give it, except for a        *)
(* scripthash whose pool entries changed without an announce since it was  *)
(* read, or whose subscribe read inside the hold of a branch that came to  *)
(* nothing.  No other order of holds, reorgs, lagged events, dropped reads *)
(* and requests loses the last push.                                       *)
ToldIsCurrent ==
  ElQuiet => \A s \in elConn.subs \ elSilent : elTold.sh[s] = scripthash_status(elNode, s)

(* The dedup memory is what the client was told: an entry for a watched    *)
(* hash is the last status written for it, so no push is withheld from a   *)
(* client that was told something else.                                    *)
SentIsTold ==
  \A s \in elConn.subs \cap DOMAIN elConn.sent :
    elConn.sent[s] = elTold.sh[s]

(* At rest a header subscriber holds the tip and an outpoint subscriber    *)
(* the confirmed spends, lagged receiver or not, unless the last read of   *)
(* either fell on the stump of a branch that came to nothing.              *)
TipIsTold ==
  ElQuiet /\ elConn.hdr =>
    /\ "tip" \notin elSilent => elTold.tip = elNode.chain
    /\ "op" \notin elSilent => elTold.op = Confirmed(elNode)

(* At rest a client has been told the current state, and the dedup memory is *)
(* what it was told.                                                         *)
ToldSafe == ToldIsCurrent /\ SentIsTold /\ TipIsTold

-----------------------------------------------------------------------------
(***************************************************************************)
(* The Electrum listener (rbitcoin-electrum/src/server.rs): the accept     *)
(* loop with its connection slots, the select loop of each client task     *)
(* that reads request lines, the idle deadline, and the shutdown that      *)
(* ends them.                                                              *)
(*                                                                         *)
(* A request line reaches the socket in segments, the last of which holds  *)
(* the newline.  read_line_capped keeps what it has consumed in a local    *)
(* buffer: when another arm of the select wins, the read future is dropped *)
(* and the next turn of the loop starts a new one with a new deadline.     *)
(***************************************************************************)

CONSTANTS EwClients,   \* the peers that connect
          EwSlots,     \* max_connections
          EwIdle,      \* idle_timeout, in ticks of sh_tick
          EwCap,       \* max_line_bytes, in segments
          EwLines,     \* segments of the requests a client sends, in order
          EwEvents     \* bound on tip events and mempool announces

VARIABLES ewStop,      \* ElectrumStop and how far shutdown() has come
          ewAccept,    \* the accept task
          ewList,      \* ElectrumHandle::clients
          ewTask,      \* the client tasks
          ewPast,      \* history: what each client's lines and waits were
          ewLeft       \* events still to come

ewVars == <<ewStop, ewAccept, ewList, ewTask, ewPast, ewLeft>>

(* A task that has not started; handle_client's locals once it has. *)
NoTask == [st |-> "none", woken |-> FALSE, subs |-> FALSE, buf |-> << >>,
           timer |-> 0, aborted |-> FALSE, req |-> 1, seg |-> 1]

(* A finished task: its locals are dropped, and its slot with them. *)
EndedTask == [NoTask EXCEPT !.st = "ended"]

(* What is remembered of a client that has sent nothing yet. *)
NoPast == [quiet |-> 0, calm |-> TRUE, line |-> "none"]

ConnEnded(c) ==
  /\ ewTask' = [ewTask EXCEPT ![c] = EndedTask]
  /\ ewPast' = [ewPast EXCEPT ![c] = NoPast]

EwInit ==
  /\ ewStop = [flag |-> FALSE, down |-> "up"]
  /\ ewAccept = [st |-> "top", woken |-> FALSE]
  /\ ewList = {}
  /\ ewTask = [c \in EwClients |-> NoTask]
  /\ ewPast = [c \in EwClients |-> NoPast]
  /\ ewLeft = EwEvents

Live(c) == ewTask[c].st \in {"top", "check", "select", "reply"}

Finished(c) == ewTask[c].st = "ended"

(* The loop head: the waiter is created before the flag is read, so a      *)
(* notify_waiters between the two still wakes it.                          *)
AcceptTop ==
  /\ ewAccept.st = "top"
  /\ ewAccept' = [st |-> "check", woken |-> FALSE]
  /\ UNCHANGED <<ewStop, ewList, ewTask, ewPast, ewLeft>>

AcceptCheck ==
  /\ ewAccept.st = "check"
  /\ ewAccept' = [ewAccept EXCEPT !.st = IF ewStop.flag THEN "gone" ELSE "wait"]
  /\ UNCHANGED <<ewStop, ewList, ewTask, ewPast, ewLeft>>

(* The wake arm is polled first; an abort lands at the same await. *)
AcceptEnds ==
  /\ ewAccept.st = "wait"
  /\ ewAccept.woken \/ ewStop.down = "aborted"
  /\ ewAccept' = [ewAccept EXCEPT !.st = "gone"]
  /\ UNCHANGED <<ewStop, ewList, ewTask, ewPast, ewLeft>>

(* try_acquire_owned: a peer over the limit is dropped at once.  A task    *)
(* takes the slot with it and is put on the list without an await between. *)
Accept(c) ==
  /\ ewAccept.st = "wait" /\ ~ewAccept.woken
  /\ ewTask[c].st = "none"
  /\ ewAccept' = [ewAccept EXCEPT !.st = "top"]
  /\ IF Cardinality({d \in EwClients : Live(d)}) >= EwSlots
     THEN /\ ewTask' = [ewTask EXCEPT ![c].st = "rejected"]
          /\ UNCHANGED ewList
     ELSE /\ ewTask' = [ewTask EXCEPT ![c].st = "top"]
          /\ ewList' = {d \in ewList : ~Finished(d)} \cup {c}
  /\ UNCHANGED <<ewStop, ewPast, ewLeft>>

(* ElectrumStop::store(true): the flag first, then every waiter created so far. *)
StoreFlag ==
  /\ ewStop.down = "up"
  /\ ewStop' = [flag |-> TRUE, down |-> "stored"]
  /\ UNCHANGED <<ewAccept, ewList, ewTask, ewPast, ewLeft>>

notify_waiters ==
  /\ ewStop.down = "stored"
  /\ ewStop' = [ewStop EXCEPT !.down = "notified"]
  /\ ewAccept' = [ewAccept EXCEPT !.woken = @ \/ ewAccept.st \in {"check", "wait"}]
  /\ ewTask' = [c \in EwClients |->
                  [ewTask[c] EXCEPT !.woken = @ \/ ewTask[c].st \in {"check", "select", "reply"}]]
  /\ UNCHANGED <<ewList, ewPast, ewLeft>>

(* shutdown(): abort the accept task, wait for it, then abort the listed   *)
(* clients.                                                                *)
AbortAccept ==
  /\ ewStop.down = "notified"
  /\ ewStop' = [ewStop EXCEPT !.down = "aborted"]
  /\ UNCHANGED <<ewAccept, ewList, ewTask, ewPast, ewLeft>>

AbortClients ==
  /\ ewStop.down = "aborted" /\ ewAccept.st = "gone"
  /\ ewList' = {}
  /\ ewTask' = [c \in EwClients |-> [ewTask[c] EXCEPT !.aborted = c \in ewList]]
  /\ ewStop' = [ewStop EXCEPT !.down = "done"]
  /\ UNCHANGED <<ewAccept, ewPast, ewLeft>>

ClientTopLate(c) ==
  /\ \/ /\ ewTask[c].st = "top"
        /\ ewTask' = [ewTask EXCEPT ![c].st = IF ewStop.flag THEN "ended" ELSE "check"]
     \/ /\ ewTask[c].st = "check"
        /\ ewTask' = [ewTask EXCEPT ![c].st = "select", ![c].buf = << >>, ![c].timer = 0,
                                    ![c].woken = FALSE]
  /\ UNCHANGED <<ewStop, ewAccept, ewList, ewPast, ewLeft>>

(* One turn of handle_client's loop: the waiter, the flag, then a select   *)
(* whose read future starts with an empty buffer and a full deadline.      *)
ClientTop(c) ==
  /\ \/ /\ ewTask[c].st = "top"
        /\ ewTask' = [ewTask EXCEPT ![c].st = "check", ![c].woken = FALSE]
        /\ UNCHANGED ewPast
     \/ /\ ewTask[c].st = "check"
        /\ IF ewStop.flag
           THEN ConnEnded(c)
           ELSE /\ ewTask' = [ewTask EXCEPT ![c].st = "select", ![c].buf = << >>, ![c].timer = 0]
                /\ UNCHANGED ewPast
  /\ UNCHANGED <<ewStop, ewAccept, ewList, ewLeft>>

(* The stop arm comes first; an abort ends the task at any await. *)
ClientStops(c) ==
  /\ \/ ewTask[c].st = "select" /\ ewTask[c].woken
     \/ ewTask[c].st \in {"select", "reply"} /\ ewTask[c].aborted
  /\ ConnEnded(c)
  /\ UNCHANGED <<ewStop, ewAccept, ewList, ewLeft>>

Selecting(c) == ewTask[c].st = "select" /\ ~ewTask[c].woken /\ ~ewTask[c].aborted

(* A tip event or a mempool announce: its arm runs to the end and the loop *)
(* turns, whatever the client subscribed to.                               *)
ClientEvent(c) ==
  /\ Selecting(c) /\ ewLeft > 0
  /\ ewLeft' = ewLeft - 1
  /\ ewTask' = [ewTask EXCEPT ![c].st = "top"]
  /\ ewPast' = [ewPast EXCEPT ![c].calm = FALSE]
  /\ UNCHANGED <<ewStop, ewAccept, ewList>>

(* 50 ms pass.  With a scripthash subscribed the tick arm wins; without    *)
(* one the read future waits on, until its own deadline.                   *)
ClientWaits(c) ==
  /\ Selecting(c) /\ ewTask[c].timer < EwIdle
  /\ ewTask' = [ewTask EXCEPT
       ![c].timer = ewTask[c].timer + 1,
       ![c].st = IF ewTask[c].subs THEN "top" ELSE "select"]
  /\ ewPast' = [ewPast EXCEPT
       ![c].quiet = IF ewPast[c].quiet > EwIdle THEN EwIdle + 1 ELSE ewPast[c].quiet + 1,
       ![c].calm = ewPast[c].calm /\ ~ewTask[c].subs]
  /\ UNCHANGED <<ewStop, ewAccept, ewList, ewLeft>>

(* timeout(idle, read_line_capped(..)) has run out. *)
ClientTimesOut(c) ==
  /\ Selecting(c) /\ ewTask[c].timer = EwIdle
  /\ ConnEnded(c)
  /\ UNCHANGED <<ewStop, ewAccept, ewList, ewLeft>>

Sending(c) == ewTask[c].req <= Len(EwLines)

(* The client's next segment, as read_line_capped finds it in fill_buf. *)
NextSegment(c) == <<ewTask[c].req, ewTask[c].seg>>

Whole(r) == [k \in 1..EwLines[r] |-> <<r, k>>]

(* What the history keeps of a segment that was read. *)
HandedOver(c, buf, last) ==
  [quiet |-> IF last THEN 0 ELSE ewPast[c].quiet,
   calm  |-> ewPast[c].calm \/ last,
   line  |-> IF ~last THEN "none"
             ELSE IF buf = Whole(ewTask[c].req) THEN "whole"
             ELSE IF ewPast[c].calm THEN "torn" ELSE "cut"]

(* read_line_capped takes one segment: consumed from the reader and kept   *)
(* in its buffer; the last one completes the line.                         *)
read_line_capped(c) ==
  LET buf  == Append(ewTask[c].buf, NextSegment(c))
      last == ewTask[c].seg = EwLines[ewTask[c].req]
  IN  /\ ewTask' = [ewTask EXCEPT
           ![c].buf = buf,
           ![c].req = IF last THEN @ + 1 ELSE @,
           ![c].seg = IF last THEN 1 ELSE @ + 1,
           ![c].st  = IF last THEN "reply" ELSE @]
      /\ ewPast' = [ewPast EXCEPT ![c] = HandedOver(c, buf, last)]

ClientReads(c) ==
  /\ Selecting(c) /\ Sending(c)
  /\ IF Len(ewTask[c].buf) + 1 > EwCap THEN ConnEnded(c) ELSE read_line_capped(c)
  /\ UNCHANGED <<ewStop, ewAccept, ewList, ewLeft>>

(* The socket closes: an unfinished line is handed to the parser, which    *)
(* drops it, and the next read ends the task.                              *)
ClientCloses(c) ==
  /\ Selecting(c)
  /\ ConnEnded(c)
  /\ UNCHANGED <<ewStop, ewAccept, ewList, ewLeft>>

(* The request is answered (it may subscribe) and the reply written, or    *)
(* the write runs into its deadline and ends the task.                     *)
ClientReplies(c) ==
  /\ ewTask[c].st = "reply" /\ ~ewTask[c].aborted
  /\ \/ ConnEnded(c)
     \/ /\ \E sub \in BOOLEAN :
             ewTask' = [ewTask EXCEPT ![c].st = "top", ![c].subs = @ \/ sub]
        /\ ewPast' = [ewPast EXCEPT ![c].line = "none"]
  /\ UNCHANGED <<ewStop, ewAccept, ewList, ewLeft>>

EwNext ==
  \/ AcceptTop \/ AcceptCheck \/ AcceptEnds
  \/ StoreFlag \/ notify_waiters \/ AbortAccept \/ AbortClients
  \/ \E c \in EwClients :
       \/ Accept(c) \/ ClientTop(c) \/ ClientStops(c) \/ ClientEvent(c)
       \/ ClientWaits(c) \/ ClientTimesOut(c) \/ ClientReads(c)
       \/ ClientCloses(c) \/ ClientReplies(c)

EwSpec == EwInit /\ [][EwNext]_ewVars

-----------------------------------------------------------------------------

(* A stop is never slept through: once the waiters were woken, no client   *)
(* waits in its select without having been woken.                          *)
StopNoticed ==
  \A c \in EwClients :
    ewTask[c].st = "select" /\ ewStop.down \notin {"up", "stored"} => ewTask[c].woken

(* shutdown() leaves no client task behind: each one has ended or will at  *)
(* its next await, also one accepted while the shutdown was under way.     *)
NoClientEscapes ==
  ewStop.down = "done" => \A c \in EwClients : Live(c) => ewTask[c].aborted

(* A client that sends no complete request for the idle timeout is dropped *)
(* however it dribbles its bytes, as long as no event turned its loop; and *)
(* a line no event interrupted reaches the parser as it was sent.          *)
QuietHeld ==
  \A c \in EwClients :
    /\ ewPast[c].calm /\ Live(c) => ewPast[c].quiet <= EwIdle
    /\ ewPast[c].line # "torn"

-----------------------------------------------------------------------------
(***************************************************************************)
(* A JSON-RPC batch on an Electrum connection (rbitcoin-electrum           *)
(* server.rs, answer_batch).  Items are taken in order; read-only items    *)
(* run on the blocking pool up to batch_window at once, each under a       *)
(* store-read permit, and an item that touches connection state waits for  *)
(* every earlier slot and runs alone.  Slots are written in request order. *)
(*                                                                         *)
(* The connection state a batch can tell apart is the negotiated protocol  *)
(* (its answers depend on it) and sh_join, the join of the last scripthash *)
(* read.  A scripthash is the item that reads it.                          *)
(***************************************************************************)

CONSTANTS EbKinds,     \* kinds of items: "sh", "get", "set", "skip", "bad"
          EbLen,       \* MAX_BATCH_ITEMS
          EbWindow,    \* ElectrumConfig::batch_window
          EbBudget     \* permits of api_read_budget

VARIABLES ebItems,     \* the batch
          ebAt,        \* the item the loop is at, or "end", "gone"
          ebWin,       \* the reads in flight, oldest first
          ebConn,      \* ElectrumConn: protocol and join cache
          ebOut        \* the slots written, in order

ebVars == <<ebItems, ebAt, ebWin, ebConn, ebOut>>

NoJoin == 0

EbStart(items) ==
  /\ ebItems = items
  /\ ebAt = [i |-> 1, st |-> "run"]
  /\ ebWin = << >>
  /\ ebConn = [proto |-> 0, join |-> NoJoin]
  /\ ebOut = << >>
EbInit == \E items \in UNION {[1..n -> EbKinds] : n \in 1..(EbLen + 1)} : EbStart(items)

Reads(k) == k \in {"sh", "get"}

(* The join cache is moved out to the first scripthash read that finds it. *)
read_conn(k) ==
  [proto |-> ebConn.proto, join |-> IF k = "sh" THEN ebConn.join ELSE NoJoin]

Item == ebItems[ebAt.i]

BatchRunning == Cardinality({j \in DOMAIN ebWin : ebWin[j].st = "run"})

(* Skip: a notification is not run and has no slot. *)
TakeSkip ==
  /\ ebAt.st = "run" /\ ebAt.i <= Len(ebItems) /\ Len(ebItems) <= EbLen
  /\ Item = "skip"
  /\ ebAt' = [ebAt EXCEPT !.i = @ + 1]
  /\ UNCHANGED <<ebItems, ebWin, ebConn, ebOut>>

(* An oversized batch is answered with one error line. *)
TooLarge ==
  /\ ebAt.st = "run" /\ Len(ebItems) > EbLen
  /\ ebAt' = [ebAt EXCEPT !.st = "end"]
  /\ UNCHANGED <<ebItems, ebWin, ebConn, ebOut>>

(* Read: spawned when the window has room. *)
SpawnRead ==
  /\ ebAt.st = "run" /\ ebAt.i <= Len(ebItems) /\ Len(ebItems) <= EbLen
  /\ Reads(Item)
  /\ Len(ebWin) < EbWindow
  /\ ebWin' = Append(ebWin, [i |-> ebAt.i, st |-> "queued", ok |-> FALSE,
                             work |-> read_conn(Item)])
  /\ ebConn' = [ebConn EXCEPT !.join = IF Item = "sh" THEN NoJoin ELSE @]
  /\ ebAt' = [ebAt EXCEPT !.i = @ + 1]
  /\ UNCHANGED <<ebItems, ebOut>>

(* spawn_dispatch: the task waits for a permit, then runs on the pool. *)
StartRead(j) ==
  /\ ebWin[j].st = "queued" /\ BatchRunning < EbBudget
  /\ ebWin' = [ebWin EXCEPT ![j].st = "run"]
  /\ UNCHANGED <<ebItems, ebAt, ebConn, ebOut>>

(* A scripthash read that succeeds leaves its own join in the worker state *)
(* and one that fails before the join leaves what it was given.            *)
EndBatchRead(j) ==
  /\ ebWin[j].st = "run"
  /\ \E ok \in BOOLEAN :
       ebWin' = [ebWin EXCEPT
         ![j].st = "done",
         ![j].ok = ok,
         ![j].work.join = IF ok /\ ebItems[ebWin[j].i] = "sh" THEN ebWin[j].i ELSE @]
  /\ UNCHANGED <<ebItems, ebAt, ebConn, ebOut>>

(* land: the oldest read's slot, and its join if it hands one back. *)
land ==
  /\ ebConn' = [ebConn EXCEPT
       !.join = IF ebWin[1].work.join # NoJoin THEN ebWin[1].work.join ELSE @]
  /\ ebOut' = Append(ebOut, [i |-> ebWin[1].i, proto |-> ebWin[1].work.proto, ok |-> ebWin[1].ok])
  /\ ebWin' = Tail(ebWin)

Drained == ebWin = << >>

(* When the loop waits for the oldest read: the window is full before a    *)
(* read, not empty before any other item, or the items have ended.         *)
MustLand ==
  ebAt.i <= Len(ebItems) =>
    IF Reads(Item) THEN Len(ebWin) >= EbWindow ELSE Item # "skip"

LandOldest ==
  /\ ebAt.st = "run" /\ ebWin # << >> /\ ebWin[1].st = "done"
  /\ MustLand
  /\ land
  /\ UNCHANGED <<ebItems, ebAt>>

(* Reply ("bad") and Serial ("set"): after every earlier slot. *)
TakeAlone ==
  /\ ebAt.st = "run" /\ ebAt.i <= Len(ebItems) /\ Len(ebItems) <= EbLen
  /\ Item \in {"bad", "set"}
  /\ Drained
  /\ ebConn' = [ebConn EXCEPT !.proto = IF Item = "set" THEN ebAt.i ELSE @]
  /\ ebOut' = Append(ebOut, [i |-> ebAt.i, proto |-> ebConn'.proto, ok |-> TRUE])
  /\ ebAt' = [ebAt EXCEPT !.i = @ + 1]
  /\ UNCHANGED <<ebItems, ebWin>>

(* out.close(): the array ends, or nothing is written at all. *)
Close ==
  /\ ebAt.st = "run" /\ ebAt.i > Len(ebItems) /\ Drained /\ Len(ebItems) <= EbLen
  /\ ebAt' = [ebAt EXCEPT !.st = "end"]
  /\ UNCHANGED <<ebItems, ebWin, ebConn, ebOut>>

(* A slot write fails: the batch and the connection end, and the spawned   *)
(* reads run on without anyone waiting for them.                           *)
WriteFails ==
  /\ ebAt.st = "run" /\ ebWin # << >> /\ ebWin[1].st = "done"
  /\ MustLand
  /\ ebAt' = [ebAt EXCEPT !.st = "gone"]
  /\ UNCHANGED <<ebItems, ebWin, ebConn, ebOut>>

EbNext ==
  \/ TakeSkip \/ TooLarge \/ SpawnRead \/ LandOldest \/ TakeAlone \/ Close \/ WriteFails
  \/ \E j \in DOMAIN ebWin : StartRead(j) \/ EndBatchRead(j)

EbSpec == EbInit /\ [][EbNext]_ebVars

-----------------------------------------------------------------------------

Answered == {k \in DOMAIN ebItems : ebItems[k] # "skip"}

(* The last item before i that sets the protocol. *)
SetBefore(i) ==
  LET sets == {k \in DOMAIN ebItems : k <= i /\ ebItems[k] = "set"}
  IN  IF sets = {} THEN 0 ELSE CHOOSE k \in sets : \A l \in sets : l <= k

(* A batch answers as if its items ran one after another: the slots are    *)
(* those of the items that want one, in request order and once each, and   *)
(* every answer reflects exactly the connection changes asked before it.   *)
AsSerial ==
  /\ \A k \in DOMAIN ebOut :
       /\ ebOut[k].i \in Answered
       /\ ebOut[k].proto = SetBefore(ebOut[k].i)
       /\ \A l \in DOMAIN ebOut : l < k => ebOut[l].i < ebOut[k].i
  /\ ebAt.st = "end" /\ Len(ebItems) <= EbLen => Len(ebOut) = Cardinality(Answered)

(* A client that stops reading stops the work: at most a window of replies *)
(* is held unwritten, and slot i is written before the read that follows   *)
(* it by a window starts.                                                  *)
WindowHolds ==
  LET reads == {k \in DOMAIN ebItems : Reads(ebItems[k])}
      Written(k) == \E m \in DOMAIN ebOut : ebOut[m].i = k
      Started(k) == \E m \in DOMAIN ebWin : ebWin[m].i = k
  IN  \A k, l \in reads :
        /\ k < l
        /\ Cardinality({m \in reads : k <= m /\ m < l}) >= EbWindow
        /\ Started(l)
        => Written(k)

(* With no read in flight the join cache is the one the last scripthash    *)
(* read built, and no read that built none wipes it.                       *)
CacheKept ==
  LET shs == {k \in DOMAIN ebOut : ebItems[ebOut[k].i] = "sh"}
  IN  ebWin = << >> =>
        /\ \A k \in shs : ebOut[k].ok /\ (\A l \in shs : l <= k) => ebConn.join = ebOut[k].i
        /\ (\E k \in shs : ebOut[k].ok) => ebConn.join # NoJoin

(* Stop reaches every client, and a batch answers as if served one item at a *)
(* time.                                                                     *)
ServeSafe ==
    /\ StopNoticed
    /\ NoClientEscapes
    /\ QuietHeld
    /\ AsSerial
    /\ WindowHolds
    /\ CacheKept
=============================================================================
