---------------------------- MODULE SessionLoop ----------------------------
(***************************************************************************)
(* One peer session: the select loop of peer_session_with, the queue of    *)
(* frames that were read but still decode on the blocking pool             *)
(* (DecodeQueue), the getdata tail, the writer task, and the two accounts  *)
(* that pace them, send_queued and serve_inflight.  Frames and replies are *)
(* one byte long, so a byte account counts messages.                       *)
(*                                                                         *)
(* A frame is numbered in wire order.  "block" and "headers" decode on the *)
(* pool (heavy), "getdata" and "ping" are decoded at once (cheap); only a  *)
(* "block" is a body.  The other sessions of the process appear as oheavy, *)
(* their share of DECODE_Q_HEAVY_BYTES.                                    *)
(***************************************************************************)
EXTENDS Naturals, Sequences, FiniteSets, SequencesExt

CONSTANTS SMaxFrames,   \* bound: frames the peer sends
          SMaxOwn,      \* bound: pings and announcements of our own
          MaxServe,     \* MAX_SERVE_BLOCKS
          Budget,       \* PEER_SEND_BUDGET
          QFrames,      \* DECODE_Q_MAX_FRAMES
          QCheap,       \* DECODE_Q_MAX_CHEAP_FRAMES
          QGlobal       \* decode_q_global_byte_cap

ASSUME SessionConstants ==
    {SMaxFrames, SMaxOwn, MaxServe, Budget, QFrames, QCheap, QGlobal} \subseteq Nat

VARIABLES nread,      \* frames taken off the socket
          dq,         \* DecodeQueue.q
          gheavy,     \* DECODE_Q_HEAVY_BYTES
          oheavy,     \* what the other sessions hold of it
          qacct,      \* heavy_frames and cheap_frames of the queue
          hold_front, sover,      \* locals of the loop: hold_front, over_budget
          tail, missing,          \* getdata_tail, the notfound being collected
          outq, wbatch, wdone,    \* the channel, the writer's batch, its exit
          send_queued, serve_inflight,
          spc,        \* where the session task is
          stop,       \* LivePeer.stop
          applied,    \* frames applied, in order
          skipped,    \* frames dropped on the way out
          nown

sessVars == <<nread, dq, gheavy, oheavy, qacct, hold_front, sover, tail, missing, outq, wbatch,
              wdone, send_queued, serve_inflight, spc, stop, applied, skipped, nown>>
queueVars == <<nread, dq, gheavy, qacct, hold_front>>
writeVars == <<outq, wbatch, wdone, send_queued, serve_inflight>>

Kinds == {"block", "headers", "getdata", "ping"}
Heavy(k) == k \in {"block", "headers"}
IsBody(k) == k = "block"
SessInit ==
    /\ nread = 0 /\ dq = <<>> /\ gheavy = 0 /\ oheavy = 0
    /\ qacct = [heavy |-> 0, cheap |-> 0] /\ hold_front = FALSE /\ sover = FALSE
    /\ tail = 0 /\ missing = FALSE
    /\ outq = <<>> /\ wbatch = <<>> /\ wdone = FALSE
    /\ send_queued = 0 /\ serve_inflight = 0
    /\ spc = "top" /\ stop = FALSE /\ applied = <<>> /\ skipped = {} /\ nown = 0

Sub(a, b) == IF a < b THEN 0 ELSE a - b
send_over_budget == send_queued > Budget
has_serve_room == ~send_over_budget /\ serve_inflight < MaxServe

(***************************************************************************)
(* DecodeQueue                                                             *)
(***************************************************************************)
account(k) ==
    IF Heavy(k) THEN /\ qacct' = [qacct EXCEPT !.heavy = @ + 1]
                     /\ gheavy' = gheavy + 1
    ELSE qacct' = [qacct EXCEPT !.cheap = @ + 1] /\ UNCHANGED gheavy

release(k) ==
    IF Heavy(k) THEN /\ qacct' = [qacct EXCEPT !.heavy = Sub(@, 1)]
                     /\ gheavy' = Sub(gheavy, 1)
    ELSE qacct' = [qacct EXCEPT !.cheap = Sub(@, 1)] /\ UNCHANGED gheavy

decode_queue_over_cap(a, g) == a.heavy > QFrames \/ a.cheap > QCheap \/ g > QGlobal

(* push_decode_frame: a queue that passes a cap is drained and the peer leaves. *)
push(f) ==
    /\ dq' = Append(dq, f)
    /\ account(f.kind)
    /\ IF decode_queue_over_cap(qacct', gheavy')
       THEN spc' = "drain" /\ stop' = TRUE
       ELSE spc' = "top" /\ UNCHANGED stop

(***************************************************************************)
(* Applying one frame                                                      *)
(***************************************************************************)
(* queue_out: a message that is not charged to the send account. *)
queue_out(r) == outq' = Append(outq, [slot |-> FALSE, rank |-> r])

(* handle_decoded_peer_msg.  A body or headers may be refused (an error or a   *)
(* score over the threshold), which ends the session after a drain.           *)
ApplyMsg(f) ==
    /\ applied' = Append(applied, f.id)
    /\ CASE f.kind \in {"block", "headers"} ->
              /\ \/ spc' = "top" /\ UNCHANGED stop
                 \/ spc' = "drain" /\ stop' = TRUE
              /\ UNCHANGED <<tail, outq>>
         [] f.kind = "getdata" ->
              tail' = tail + 1 /\ spc' = "serve" /\ UNCHANGED <<outq, stop>>
         [] f.kind = "ping" ->
              /\ IF wdone THEN spc' = "drain" /\ stop' = TRUE /\ UNCHANGED outq
                 ELSE queue_out(0) /\ spc' = "top" /\ UNCHANGED stop
              /\ UNCHANGED tail

(***************************************************************************)
(* The loop of peer_session_with                                           *)
(***************************************************************************)
(* The head of the loop: the stop flag, and the budget sampled for this turn. *)
LoopTop ==
    /\ spc = "top"
    /\ IF stop THEN spc' = "drain" /\ UNCHANGED <<sover, hold_front>>
       ELSE /\ spc' = "select" /\ sover' = send_over_budget
            /\ hold_front' = (hold_front /\ send_over_budget)
    /\ UNCHANGED <<nread, dq, gheavy, oheavy, qacct, tail, missing, writeVars, stop, applied,
                   skipped, nown>>

DecodeReady == dq # <<>> /\ Head(dq).ready /\ ~hold_front

(* The decode arm.  Over budget, a request at the front is popped, put back   *)
(* (push_front_ready restores the account) and held.                         *)
DecodeArm ==
    /\ spc = "select" /\ DecodeReady
    /\ IF sover /\ ~IsBody(Head(dq).kind)
       THEN /\ hold_front' = TRUE /\ spc' = "top"
            /\ UNCHANGED <<dq, qacct, gheavy, applied, tail, outq, stop>>
       ELSE /\ dq' = Tail(dq) /\ release(Head(dq).kind)
            /\ ApplyMsg(Head(dq)) /\ UNCHANGED hold_front
    /\ UNCHANGED <<nread, oheavy, sover, missing, wbatch, wdone, send_queued, serve_inflight,
                   skipped, nown>>

(* Mutated form: a ping is answered ahead of the frames still decoding. *)
ReadFramePingFirst(k) ==
    LET f == [id |-> nread + 1, kind |-> k, ready |-> ~Heavy(k)]
    IN /\ spc = "select" /\ ~DecodeReady /\ ~wdone /\ ~sover /\ tail = 0 /\ nread < SMaxFrames
       /\ nread' = nread + 1
       /\ IF Heavy(k) \/ (dq # <<>> /\ k # "ping")
          THEN push(f) /\ UNCHANGED <<applied, tail, outq>>
          ELSE ApplyMsg(f) /\ UNCHANGED <<dq, qacct, gheavy>>
       /\ UNCHANGED <<oheavy, hold_front, sover, missing, wbatch, wdone, send_queued,
                      serve_inflight, skipped, nown>>

(* The read arm: decode_q is empty and the frame is cheap, or it queues. *)
ReadFrame(k) ==
    LET f == [id |-> nread + 1, kind |-> k, ready |-> ~Heavy(k)]
    IN /\ spc = "select" /\ ~DecodeReady /\ ~wdone /\ ~sover /\ tail = 0 /\ nread < SMaxFrames
       /\ nread' = nread + 1
       /\ IF Heavy(k) \/ dq # <<>>
          THEN push(f) /\ UNCHANGED <<applied, tail, outq>>
          ELSE ApplyMsg(f) /\ UNCHANGED <<dq, qacct, gheavy>>
       /\ UNCHANGED <<oheavy, hold_front, sover, missing, wbatch, wdone, send_queued,
                      serve_inflight, skipped, nown>>

(* The read arm on a socket error, an oversize frame or a rate over the limit, *)
(* and the arm of a writer that has ended.                                     *)
Leave ==
    /\ spc = "select" /\ ~DecodeReady
    /\ wdone \/ (~sover /\ tail = 0)
    /\ spc' = "drain" /\ stop' = TRUE
    /\ UNCHANGED <<queueVars, oheavy, sover, tail, missing, writeVars, applied, skipped, nown>>

(* The heartbeat, tip and poll arms: a message of our own, not charged. *)
OwnMessage(r) ==
    /\ spc = "select" /\ nown < SMaxOwn /\ ~wdone
    /\ queue_out(r) /\ nown' = nown + 1 /\ spc' = "top"
    /\ UNCHANGED <<queueVars, oheavy, sover, tail, missing, wbatch, wdone, send_queued,
                   serve_inflight, stop, applied, skipped>>

(* The heartbeat's timeouts, which a queued frame suspends. *)
TimeOut ==
    /\ spc = "select" /\ dq = <<>>
    /\ stop' = TRUE /\ spc' = "top"
    /\ UNCHANGED <<queueVars, oheavy, sover, tail, missing, writeVars, applied, skipped, nown>>

(* wait_send_budget and wait_serve_room return; the heartbeat restarts the loop. *)
Wake ==
    /\ spc = "select"
    /\ IF tail = 0 THEN /\ sover /\ (stop \/ ~send_over_budget)
                        /\ spc' = "top"
       ELSE \/ (stop \/ wdone) /\ spc' = "drain"
            \/ ~stop /\ has_serve_room /\ spc' = "serve"
    /\ UNCHANGED <<queueVars, oheavy, sover, tail, missing, writeVars, stop, applied, skipped,
                   nown>>

(***************************************************************************)
(* serve_getdata_tail                                                      *)
(***************************************************************************)
(* queue_charged sends first and charges the account after. *)
send(slot) ==
    /\ outq' = Append(outq, [slot |-> slot, rank |-> IF slot THEN 1 ELSE 2])
    /\ spc' = "charge"

(* A body of a full or compact block takes a slot and is sent; a send that     *)
(* fails frees the slot and ends the session.                                  *)
ServeBody ==
    /\ IF wdone THEN spc' = "drain" /\ stop' = TRUE /\ UNCHANGED <<outq, serve_inflight>>
       ELSE send(TRUE) /\ serve_inflight' = serve_inflight + 1 /\ UNCHANGED stop
    /\ UNCHANGED missing

(* The item is not found, or we have it and stay silent. *)
ServeNothing ==
    /\ missing' \in {missing, TRUE}
    /\ UNCHANGED <<spc, stop, outq, serve_inflight>>

(* serve_getdata_tail: one item while there is room. *)
ServeOne ==
    /\ spc = "serve"
    /\ IF has_serve_room /\ tail > 0
       THEN /\ tail' = tail - 1
            /\ ServeBody \/ ServeNothing
       ELSE spc' = "reply" /\ UNCHANGED <<tail, missing, outq, serve_inflight, stop>>
    /\ UNCHANGED <<queueVars, oheavy, sover, wbatch, wdone, send_queued, applied, skipped, nown>>

(* The notfound collected so far goes out, charged and without a slot. *)
ServeReply ==
    /\ spc = "reply"
    /\ missing' = FALSE
    /\ IF ~missing THEN spc' = "top" /\ UNCHANGED <<outq, stop>>
       ELSE IF wdone THEN spc' = "drain" /\ stop' = TRUE /\ UNCHANGED outq
       ELSE send(FALSE) /\ UNCHANGED stop
    /\ UNCHANGED <<queueVars, oheavy, sover, tail, wbatch, wdone, send_queued, serve_inflight,
                   applied, skipped, nown>>

(* note_send_queued, after the send. *)
Charge ==
    /\ spc = "charge"
    /\ send_queued' = send_queued + 1
    /\ spc' = "serve"
    /\ UNCHANGED <<queueVars, oheavy, sover, tail, missing, outq, wbatch, wdone, serve_inflight,
                   stop, applied, skipped, nown>>

(***************************************************************************)
(* Leaving                                                                 *)
(***************************************************************************)
(* apply_queued_decodes: a body is applied once it is decoded, anything else   *)
(* is dropped.                                                                *)
DrainOne ==
    /\ spc = "drain" /\ stop' = TRUE
    /\ IF dq = <<>> THEN spc' = "closed" /\ UNCHANGED <<dq, qacct, gheavy, applied, skipped>>
       ELSE /\ Head(dq).ready
            /\ dq' = Tail(dq) /\ release(Head(dq).kind)
            /\ IF IsBody(Head(dq).kind)
               THEN applied' = Append(applied, Head(dq).id) /\ UNCHANGED skipped
               ELSE skipped' = skipped \cup {Head(dq)} /\ UNCHANGED applied
            /\ UNCHANGED spc
    /\ UNCHANGED <<nread, oheavy, hold_front, sover, tail, missing, writeVars, nown>>

(***************************************************************************)
(* The other tasks                                                         *)
(***************************************************************************)
(* decode_framed_offload: a pool thread ends one decode, in any order. *)
DecodeDone ==
    /\ \E i \in DOMAIN dq : ~dq[i].ready /\ dq' = [dq EXCEPT ![i].ready = TRUE]
    /\ UNCHANGED <<nread, gheavy, oheavy, qacct, hold_front, sover, tail, missing, writeVars, spc,
                   stop, applied, skipped, nown>>

(* Another session queues or releases a heavy frame. *)
OtherSession ==
    /\ \E d \in {0, 1} : d # oheavy /\ oheavy' = d /\ gheavy' = Sub(gheavy + d, oheavy)
    /\ UNCHANGED <<nread, dq, qacct, hold_front, sover, tail, missing, writeVars, spc, stop,
                   applied, skipped, nown>>

(* take_outbound_write_batch: what is in the channel, sorted by rank. *)
WriterTake ==
    /\ ~wdone /\ wbatch = <<>> /\ outq # <<>> /\ spc # "closed"
    /\ wbatch' = SortSeq(outq, LAMBDA a, b : a.rank < b.rank)
    /\ outq' = <<>>
    /\ UNCHANGED <<queueVars, oheavy, sover, tail, missing, wdone, send_queued, serve_inflight,
                   spc, stop, applied, skipped, nown>>

(* run_writer_task and note_out_written: one message is written; the account   *)
(* gives back its bytes whether or not they were charged.  An error ends the   *)
(* writer.                                                                    *)
WriterWrite ==
    /\ ~wdone /\ wbatch # <<>> /\ spc # "closed"
    /\ wbatch' = Tail(wbatch)
    /\ serve_inflight' = IF Head(wbatch).slot THEN Sub(serve_inflight, 1) ELSE serve_inflight
    /\ send_queued' = Sub(send_queued, 1)
    /\ wdone' \in BOOLEAN
    /\ UNCHANGED <<queueVars, oheavy, sover, tail, missing, outq, spc, stop, applied, skipped,
                   nown>>

(* request_disconnect from another task. *)
RequestDisconnect ==
    /\ ~stop /\ spc # "closed" /\ stop' = TRUE
    /\ UNCHANGED <<queueVars, oheavy, sover, tail, missing, writeVars, spc, applied, skipped,
                   nown>>

SessionTask ==
    \/ LoopTop \/ DecodeArm \/ (\E k \in Kinds : ReadFrame(k)) \/ Leave
    \/ (\E r \in {0, 1} : OwnMessage(r)) \/ TimeOut \/ Wake
    \/ ServeOne \/ ServeReply \/ Charge \/ DrainOne

SessNext ==
    \/ SessionTask
    \/ DecodeDone \/ OtherSession \/ WriterTake \/ WriterWrite \/ RequestDisconnect

SessSpec == SessInit /\ [][SessNext]_sessVars

(***************************************************************************)
(* Properties                                                              *)
(***************************************************************************)
(* Frames are applied in the order they were read, although they decode on a  *)
(* pool in any order and cheap ones need no decode (the waits of DecodeQueue). *)
AppliedInOrder == \A i, j \in DOMAIN applied : i < j => applied[i] < applied[j]

(* No frame is lost: each one read was applied, waits in the queue, or was no  *)
(* block body and was dropped while the session was leaving.                  *)
NothingLost ==
    /\ ToSet(applied) \cup {dq[i].id : i \in DOMAIN dq} \cup {f.id : f \in skipped} = 1..nread
    /\ skipped # {} => spc \in {"drain", "closed"} /\ stop
    /\ \A f \in skipped : ~IsBody(f.kind)

(* The process-wide account of queued heavy bytes is what the sessions hold:   *)
(* held, put back, drained and dropped frames are charged once.               *)
HeavyExact ==
    /\ gheavy = oheavy + Cardinality({i \in DOMAIN dq : Heavy(dq[i].kind)})
    /\ qacct.heavy + qacct.cheap = Len(dq)

(* serve_inflight counts the served bodies the writer still holds, and they    *)
(* never pass MAX_SERVE_BLOCKS: the room the reader saw still holds when it     *)
(* queues ("The session reader is the only task that queues served bodies").   *)
SlotsExact ==
    LET held(s) == Cardinality({i \in DOMAIN s : s[i].slot})
    IN /\ serve_inflight = held(outq) + held(wbatch)
       /\ serve_inflight <= MaxServe

(* A drained writer leaves the session within its budget.  The charge follows  *)
(* the send, so a fast writer gives bytes back before they are charged; the    *)
(* account saturates at zero and that drift stays below one message.           *)
DrainedWithinBudget ==
    outq = <<>> /\ wbatch = <<>> /\ spc # "charge" => ~send_over_budget

(* A request held at the front for the send budget is released, or the session *)
(* leaves: the writer drains, and the loop sees it (hold_front, wait_send_budget). *)
HeldIsReleased == hold_front ~> (~hold_front \/ spc \in {"drain", "closed"})

(* A session applies its frames in order, loses none and keeps its accounts *)
(* exact.                                                                   *)
SessionSafe ==
    /\ AppliedInOrder
    /\ NothingLost
    /\ HeavyExact
    /\ SlotsExact
    /\ DrainedWithinBudget
=============================================================================
