------------------------------ MODULE CoinPool ------------------------------
(***************************************************************************)
(* What the pool of crates/rbitcoin-net/src/tx_relay.rs promises to those  *)
(* who read it (templates, relay, RPC), with the staged admission, the     *)
(* lock, the worklists and the orphanage hidden: a set of transactions in  *)
(* which no outpoint is spent twice.  A transaction enters in one step     *)
(* with whatever it replaces leaving in the same step, and one that leaves *)
(* takes its descendants along unless a block has confirmed it.            *)
(***************************************************************************)

CONSTANTS Txs, Maker, Ins

VARIABLES live,   \* the transactions of the pool
          mined   \* the transactions of the chain

OneSpender(s) == \A t, u \in s : Ins[t] \cap Ins[u] # {} => t = u

(* No child stays behind a parent that leaves unconfirmed. *)
WithDescendants ==
    \A t \in live' : \A c \in Ins[t] : Maker[c] \in live \ live' => Maker[c] \in mined

Init == live = {} /\ mined = {}

Enter(x) == /\ x \notin live
            /\ x \in live' /\ live' \subseteq live \cup {x}
            /\ OneSpender(live')
            /\ WithDescendants
            /\ UNCHANGED mined

Leave == /\ live' \subseteq live
         /\ WithDescendants
         /\ UNCHANGED mined

Connect == mined \subseteq mined' /\ mined' \subseteq Txs /\ UNCHANGED live

Disconnect == mined' \subseteq mined /\ UNCHANGED live

Next == (\E x \in Txs : Enter(x)) \/ Leave \/ Connect \/ Disconnect

Spec == Init /\ [][Next]_<<live, mined>>
=============================================================================
