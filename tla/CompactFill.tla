---------------------------- MODULE CompactFill ----------------------------
(***************************************************************************)
(* Filling one compact block from several peers at once.  A session that   *)
(* cannot rebuild the block from the mempool asks its peer for the missing *)
(* transactions (getblocktxn) and holds one of the hub's fill slots for    *)
(* the hash meanwhile: two for inbound peers, one for outbound peers.  The *)
(* rebuild and the accept run behind awaits, so the sessions interleave,   *)
(* and a slot can be given back on many paths.                             *)
(***************************************************************************)
EXTENDS Integers, FiniteSets

CONSTANTS
    InSess,        \* inbound sessions
    OutSess,       \* outbound sessions
    MaxCmpct    \* bound: compact block announcements per session

FSess == InSess \cup OutSess

VARIABLES
    fills,    \* the hub's entry for the hash: inbound fills, outbound fill
    linked,   \* the block is connected
    ses       \* per session, its state for the hash

fillVars == <<fills, linked, ses>>

NoFill == [inb |-> 0, out |-> FALSE]

\* at: what the session task is doing; pcm: pending_cmpct holds the hash;
\* taken: taken_cmpct holds it; fail: failed_cmpct holds it;
\* n: announcements left.
FillAt == {"idle", "rebuild", "accept", "fillaccept", "gone"}
Start == [at |-> "idle", pcm |-> FALSE, taken |-> FALSE, fail |-> FALSE,
          n |-> MaxCmpct]

set(s, r) == ses' = [ses EXCEPT ![s] = r]

\* try_cmpct_fill_slot
CanFill(s) == IF s \in InSess THEN fills.inb < 2 ELSE ~fills.out
Filled(s) == IF s \in InSess THEN [fills EXCEPT !.inb = @ + 1] ELSE [fills EXCEPT !.out = TRUE]

\* release_cmpct_taken and release_cmpct_fill: only a session that took a slot
\* gives one back, and the count saturates.
Released(s) ==
    IF ~ses[s].taken THEN fills
    ELSE IF s \in OutSess THEN [fills EXCEPT !.out = FALSE]
    ELSE [fills EXCEPT !.inb = IF @ = 0 THEN 0 ELSE @ - 1]

-----------------------------------------------------------------------------
FillInit ==
    /\ fills = NoFill /\ linked = FALSE
    /\ ses = [s \in FSess |-> Start]

\* on_cmpctblock up to the rebuild: refused after a failed attempt, and when
\* the block is already here.
CmpctBlock(s) ==
    /\ ses[s].at = "idle" /\ ses[s].n > 0 /\ ~ses[s].fail
    /\ set(s, [ses[s] EXCEPT !.n = @ - 1,
                             !.at = IF linked THEN "idle" ELSE "rebuild"])
    /\ UNCHANGED <<fills, linked>>

\* on_cmpct_got_block: rebuilt from the mempool alone.
GotBlock(s) ==
    /\ ses[s].at = "rebuild"
    /\ fills' = Released(s)
    /\ set(s, [ses[s] EXCEPT !.at = "accept", !.pcm = FALSE, !.taken = FALSE])
    /\ UNCHANGED linked

\* on_cmpct_need_getdata: short id collision, the full body is fetched.
NeedGetdata(s) ==
    /\ ses[s].at = "rebuild"
    /\ set(s, [ses[s] EXCEPT !.at = "idle", !.fail = TRUE])
    /\ UNCHANGED <<fills, linked>>

\* on_cmpct_need_txn: nothing when a fill is pending here, and without a slot
\* the session leaves the fill to the others.  The hub is not asked again
\* whether the block was connected during the rebuild.
NeedTxn(s) ==
    /\ ses[s].at = "rebuild"
    /\ \/ /\ ses[s].pcm \/ ~CanFill(s)
          /\ set(s, [ses[s] EXCEPT !.at = "idle"]) /\ UNCHANGED fills
       \/ /\ ~ses[s].pcm /\ CanFill(s)
          /\ set(s, [ses[s] EXCEPT !.at = "idle", !.pcm = TRUE, !.taken = TRUE])
          /\ fills' = Filled(s)
    /\ UNCHANGED linked

\* Mutated form: a fill that does not apply keeps its slot and forgets that it
\* has one.
BlockTxnFailKeeps(s) ==
    /\ ses[s].at = "idle" /\ ses[s].pcm /\ ~ses[s].fail
    /\ set(s, [ses[s] EXCEPT !.pcm = FALSE, !.taken = FALSE, !.fail = TRUE])
    /\ UNCHANGED <<fills, linked>>

\* on_blocktxn, on_blocktxn_apply_fail: the transactions do not fill the block.
BlockTxnFail(s) ==
    /\ ses[s].at = "idle" /\ ses[s].pcm /\ ~ses[s].fail
    /\ fills' = Released(s)
    /\ set(s, [ses[s] EXCEPT !.pcm = FALSE, !.taken = FALSE, !.fail = TRUE])
    /\ UNCHANGED linked

\* on_blocktxn: the fill is complete and the block goes to accept.
BlockTxn(s) ==
    /\ ses[s].at = "idle" /\ ses[s].pcm /\ ~ses[s].fail
    /\ set(s, [ses[s] EXCEPT !.pcm = FALSE, !.at = "fillaccept"])
    /\ UNCHANGED <<fills, linked>>

\* on_blocktxn_got_block, accepted: the hash's entry goes for every session.
FillAccepted(s) ==
    /\ ses[s].at = "fillaccept" /\ ~linked
    /\ linked' = TRUE /\ fills' = NoFill
    /\ set(s, [ses[s] EXCEPT !.at = "idle"])

\* on_blocktxn_got_block: already here, held or waiting for its parent.
FillKept(s) ==
    /\ ses[s].at = "fillaccept"
    /\ fills' = Released(s)
    /\ set(s, [ses[s] EXCEPT !.at = "idle", !.taken = FALSE])
    /\ UNCHANGED linked

\* on_blocktxn_unconnectable
FillUnconnectable(s) ==
    /\ ses[s].at = "fillaccept" /\ ~linked
    /\ fills' = Released(s)
    /\ set(s, [ses[s] EXCEPT !.at = "idle", !.fail = TRUE, !.taken = FALSE])
    /\ UNCHANGED linked

\* The accept of on_cmpct_got_block or of on_block ends, either way.
AcceptEnds(s) ==
    /\ ses[s].at = "accept"
    /\ linked' \in {linked, TRUE}
    /\ set(s, [ses[s] EXCEPT !.at = "idle"])
    /\ UNCHANGED fills

\* on_block: the full body arrives.
FullBlock(s) ==
    /\ ses[s].at = "idle"
    /\ fills' = Released(s)
    /\ set(s, [ses[s] EXCEPT !.at = IF linked THEN "idle" ELSE "accept", !.pcm = FALSE, !.taken = FALSE])
    /\ UNCHANGED linked

\* maybe_expire_pending_cmpct: after ten seconds the fill is given up and the
\* full body asked for.
ExpireFill(s) ==
    /\ ses[s].at = "idle" /\ ses[s].pcm
    /\ fills' = Released(s)
    /\ set(s, [ses[s] EXCEPT !.pcm = FALSE, !.taken = FALSE])
    /\ UNCHANGED linked

\* unregister with release_all_cmpct, when the session task has ended.
Unregister(s) ==
    /\ ses[s].at = "idle"
    /\ fills' = Released(s)
    /\ set(s, [Start EXCEPT !.at = "gone", !.n = 0])
    /\ UNCHANGED linked

FillNext ==
    \E s \in FSess :
      \/ CmpctBlock(s) \/ GotBlock(s) \/ NeedGetdata(s) \/ NeedTxn(s)
      \/ BlockTxnFail(s) \/ BlockTxn(s) \/ FillAccepted(s) \/ FillKept(s)
      \/ FillUnconnectable(s) \/ AcceptEnds(s) \/ FullBlock(s) \/ ExpireFill(s)
      \/ Unregister(s)

FillSpec == FillInit /\ [][FillNext]_fillVars

-----------------------------------------------------------------------------
FillTypeOK ==
    /\ fills \in [inb : 0..2, out : BOOLEAN] /\ linked \in BOOLEAN
    /\ \A s \in FSess : ses[s].at \in FillAt /\ (ses[s].pcm => ses[s].taken)

FillWaiting(S) == {s \in S : ses[s].pcm}

\* At most two inbound getblocktxn and one outbound are open for a hash, as
\* long as the block is not connected: an accept drops the entry while others
\* still wait for their transactions.
FillsBounded ==
    ~linked => Cardinality(FillWaiting(InSess)) <= 2 /\ Cardinality(FillWaiting(OutSess)) <= 1

\* No slot outlives the session that took it: each slot in use is some live
\* session's, whatever way its fill ended, so peers that failed, timed out or
\* went away never leave a hash that nobody may fill.
SlotsHeld ==
    /\ fills.inb <= Cardinality({s \in InSess : ses[s].taken})
    /\ fills.out => \E s \in OutSess : ses[s].taken

\* The fills of one hash are bounded and every slot has a holder.
FillsSafe == FillTypeOK /\ FillsBounded /\ SlotsHeld
=============================================================================
