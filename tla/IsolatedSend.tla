---------------------------- MODULE IsolatedSend ----------------------------
(***************************************************************************)
(* Private broadcast of local transactions: the turns of LocalOrigin in    *)
(* rbitcoin-net/src/tx_relay.rs, the loop of ephemeral.rs that sends one   *)
(* transaction at a time through fresh proxied connections, the echo that  *)
(* ends a private broadcast.  A transaction is a member of ITxs.           *)
(***************************************************************************)
EXTENDS Naturals, FiniteSets, FiniteSetsExt

CONSTANTS ITxs,        \* local transactions
          SendCap,     \* ISOLATED_SEND_CAP
          ResendDelay, \* isolated_resend_delay_secs
          IMaxNow,     \* bound: the clock
          IMaxOrder    \* bound: rows queued in one behaviour

ASSUME IsolatedAssumption ==
    /\ SendCap \in Nat \ {0} /\ ResendDelay \in Nat /\ IMaxNow \in Nat
    /\ IMaxOrder \in Nat

VARIABLES i_live,   \* transactions in the pool
          i_at,     \* accept_at of the published ones, Unpublished otherwise
          turn,     \* LocalOrigin::txs
          i_next,   \* LocalOrigin::next
          leaving,  \* removed transactions that are still indexed
          loop,     \* the sending loop: its step and transaction
          ending,   \* end_local_origin calls between the two locks: tx -> stamped
          ended,    \* history: when a published transaction's row was set ENDING
          sent,     \* history: sends of a transaction since it was marked
          i_now

isoVars == <<i_live, i_at, turn, i_next, leaving, loop, ending, ended, sent,
            i_now>>

Unpublished == IMaxNow + ResendDelay + 1
Never == Unpublished

NoRow == [at |-> "none", order |-> 0, sends |-> 0, returned |-> FALSE, due |-> 0]
Held == [NoRow EXCEPT !.at = "held"]
Waiting(order, sends) == [NoRow EXCEPT !.at = "waiting", !.order = order, !.sends = sends]
Taken(sends) == [NoRow EXCEPT !.at = "taken", !.sends = sends]
Sent(due, sends) == [NoRow EXCEPT !.at = "sent", !.due = due, !.sends = sends]
ENDING == Sent(Never, 0)

IsoIdle == [pc |-> "idle", tx |-> "none"]

IsoInit == /\ i_live = {}
           /\ i_at = [x \in ITxs |-> Unpublished]
           /\ turn = [x \in ITxs |-> NoRow]
           /\ i_next = 0
           /\ leaving = {} /\ loop = IsoIdle
           /\ ending = [x \in ITxs |-> "no"]
           /\ ended = [x \in ITxs |-> Never]
           /\ sent = [x \in ITxs |-> 0]
           /\ i_now = 0

Rest == <<leaving, loop, ending, i_now>>

(* note_origin marks the row under the write lock that commits. *)
MarkLocal(x) ==
    /\ x \notin i_live
    /\ i_live' = i_live \cup {x}
    /\ turn' = [turn EXCEPT ![x] = IF @ = NoRow THEN Held ELSE @]
    /\ sent' = [sent EXCEPT ![x] = IF turn[x] = NoRow THEN 0 ELSE @]
    /\ ended' = [ended EXCEPT ![x] = Never]
    /\ UNCHANGED <<i_at, i_next, Rest>>

(* publish_indexed with the time of the accept, then kick_isolated_if_live. *)
PublishLocal(x, accepted) ==
    /\ x \in i_live /\ i_at[x] = Unpublished
    /\ accepted <= i_now
    /\ i_at' = [i_at EXCEPT ![x] = accepted]
    /\ UNCHANGED <<i_live, turn, i_next, sent, ended, Rest>>

KickIsolated(x) ==
    /\ x \in i_live /\ i_at[x] # Unpublished
    /\ turn[x] = Held
    /\ i_next < IMaxOrder
    /\ i_next' = i_next + 1
    /\ turn' = [turn EXCEPT ![x] = Waiting(i_next + 1, 0)]
    /\ UNCHANGED <<i_live, i_at, sent, ended, Rest>>

(* A removal under the write lock; its unindex_txid comes later. *)
LeavePool(x) ==
    /\ x \in i_live /\ i_at[x] # Unpublished
    /\ i_live' = i_live \ {x}
    /\ leaving' = leaving \cup {x}
    /\ UNCHANGED <<i_at, turn, i_next, sent, loop, ending, ended, i_now>>

UnindexLocal(x) ==
    /\ x \in leaving
    /\ leaving' = leaving \ {x}
    /\ i_at' = [i_at EXCEPT ![x] = Unpublished]
    /\ turn' = [turn EXCEPT ![x] = NoRow]
    /\ ended' = [ended EXCEPT ![x] = Never]
    /\ UNCHANGED <<i_live, i_next, sent, loop, ending, i_now>>

Waiters == {x \in ITxs : turn[x].at = "waiting"}

(* next_isolated: the oldest waiting row. *)
NextIsolated ==
    /\ loop = IsoIdle
    /\ \E x \in Waiters :
         /\ \A y \in Waiters : turn[x].order <= turn[y].order
         /\ turn' = [turn EXCEPT ![x] = Taken(turn[x].sends)]
         /\ loop' = [pc |-> "fetch", tx |-> x]
    /\ UNCHANGED <<i_live, i_at, i_next, leaving, ending, ended, sent, i_now>>

(* Mutated form: the row is dropped and the age is stamped afterwards. *)
EndDropFirst(x) ==
    /\ \/ /\ ending[x] = "stamp"
          /\ turn' = [turn EXCEPT ![x] = IF @.at = "sent" THEN NoRow ELSE @]
          /\ ending' = [ending EXCEPT ![x] = "drop"]
          /\ UNCHANGED i_at
       \/ /\ ending[x] = "drop"
          /\ i_at' = [i_at EXCEPT ![x] = IF @ = Unpublished THEN @ ELSE i_now]
          /\ ending' = [ending EXCEPT ![x] = "no"]
          /\ UNCHANGED turn
    /\ UNCHANGED <<i_live, i_next, leaving, loop, ended, sent, i_now>>

(* end_local_origin: the age moves to now, then the row goes. *)
EndLocalOrigin(x) ==
    /\ \/ /\ ending[x] = "stamp"
          /\ i_at' = [i_at EXCEPT ![x] = IF @ = Unpublished THEN @ ELSE i_now]
          /\ ending' = [ending EXCEPT ![x] = "drop"]
          /\ UNCHANGED turn
       \/ /\ ending[x] = "drop"
          /\ turn' = [turn EXCEPT ![x] = IF @.at = "sent" THEN NoRow ELSE @]
          /\ ending' = [ending EXCEPT ![x] = "no"]
          /\ UNCHANGED i_at
    /\ UNCHANGED <<i_live, i_next, leaving, loop, ended, sent, i_now>>

Ends(x) ==
    /\ ending' = [ending EXCEPT ![x] = "stamp"]
    /\ ended' = [ended EXCEPT ![x] = IF i_at[x] = Unpublished THEN Never ELSE i_now]

(* finish_isolated *)
FinishIsolated(x, counted) ==
    IF turn[x].at = "taken"
    THEN IF turn[x].returned
         THEN turn' = [turn EXCEPT ![x] = ENDING] /\ Ends(x)
         ELSE /\ turn' = [turn EXCEPT ![x] = Sent(i_now + ResendDelay,
                                                   turn[x].sends + counted)]
              /\ UNCHANGED <<ending, ended>>
    ELSE UNCHANGED <<turn, ending, ended>>

(* isolated_tx_to_send: gone, already in a block of the tip, or to be sent. *)
FetchIsolated ==
    /\ loop.pc = "fetch"
    /\ ending[loop.tx] = "no"
    /\ \/ /\ loop.tx \notin i_live
          /\ loop' = IsoIdle
          /\ UNCHANGED <<turn, ending, ended>>
       \/ /\ loop.tx \in i_live
          /\ loop' = IsoIdle
          /\ FinishIsolated(loop.tx, 0)
       \/ /\ loop.tx \in i_live
          /\ loop' = [loop EXCEPT !.pc = "send"]
          /\ UNCHANGED <<turn, ending, ended>>
    /\ UNCHANGED <<i_live, i_at, i_next, leaving, sent, i_now>>

(* isolated_broadcast_known_tx sends while the row stands; isolated_sent follows. *)
SendIsolated ==
    /\ loop.pc = "send"
    /\ ending[loop.tx] = "no"
    /\ sent' = [sent EXCEPT ![loop.tx] = IF turn[loop.tx].at = "taken" THEN @ + 1 ELSE @]
    /\ FinishIsolated(loop.tx, 1)
    /\ loop' = IsoIdle
    /\ UNCHANGED <<i_live, i_at, i_next, leaving, i_now>>

(* note_returned: a peer sent the transaction back. *)
NoteReturned(x) ==
    /\ x \in i_live
    /\ ending[x] = "no"
    /\ turn[x] # NoRow
    /\ IF turn[x].at = "taken"
       THEN turn' = [turn EXCEPT ![x].returned = TRUE] /\ UNCHANGED <<ending, ended>>
       ELSE turn' = [turn EXCEPT ![x] = ENDING] /\ Ends(x)
    /\ UNCHANGED <<i_live, i_at, i_next, leaving, loop, sent, i_now>>

Due(x) == turn[x].at = "sent" /\ turn[x].due <= i_now /\ turn[x].sends < SendCap

(* requeue_unreturned, on the sweep of the loop: the due rows, in any order. *)
RequeueUnreturned ==
    LET due == {x \in ITxs : Due(x)}
    IN /\ loop = IsoIdle
       /\ due # {} /\ i_next + Cardinality(due) <= IMaxOrder
       /\ \E rank \in [due -> 1 .. Cardinality(due)] :
            /\ \A x, y \in due : rank[x] = rank[y] => x = y
            /\ turn' = [x \in ITxs |-> IF x \in due
                                       THEN Waiting(i_next + rank[x], turn[x].sends)
                                       ELSE turn[x]]
       /\ i_next' = i_next + Cardinality(due)
       /\ UNCHANGED <<i_live, i_at, sent, ended, Rest>>

IsoTick == /\ i_now < IMaxNow
           /\ i_now' = i_now + 1
           /\ UNCHANGED <<i_live, i_at, turn, i_next, leaving, loop, ending, ended, sent>>

IsoNext == \/ \E x \in ITxs : \/ MarkLocal(x) \/ KickIsolated(x) \/ LeavePool(x) \/ UnindexLocal(x)
                              \/ \E t \in 0 .. IMaxNow : PublishLocal(x, t)
                              \/ EndLocalOrigin(x) \/ NoteReturned(x)
           \/ NextIsolated \/ FetchIsolated \/ SendIsolated \/ RequeueUnreturned
           \/ IsoTick

-----------------------------------------------------------------------------
(* An INV tick that finds the row of a privately broadcast transaction gone  *)
(* finds the age counted from the end of that broadcast, never from the      *)
(* submit: otherwise an inbound peer would get the INV at once.              *)
PrivateUntilEnded ==
    \A x \in ITxs : turn[x] = NoRow /\ ended[x] # Never /\ i_at[x] # Unpublished
                      => i_at[x] >= ended[x]

(* However often the sweep queues a transaction again, at most               *)
(* ISOLATED_SEND_CAP proxied sends happen for one stay of it.                *)
SendsCapped == \A x \in ITxs : turn[x] # NoRow => sent[x] <= SendCap

(* A taken row is the one in the loop's hands: whatever removal, echo or     *)
(* resend happens meanwhile, no row is left in a turn that nobody ends,      *)
(* except until the pending unindex of a removed transaction.                *)
TakenIsInHand ==
    \A x \in ITxs : turn[x].at = "taken" /\ x \notin leaving
                      => loop.tx = x /\ loop.pc # "idle"

(* A private transaction ages from the end of its broadcast, is sent a *)
(* bounded number of times and is never lost between owners.           *)
PrivateSafe == PrivateUntilEnded /\ SendsCapped /\ TakenIsInHand
=============================================================================
