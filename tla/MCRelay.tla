------------------------------ MODULE MCRelay -------------------------------
(* Transaction relay: the pool and its staged admission, the orphanage,    *)
(* the private broadcast, the requests for parents and the table of peers. *)
(* ts spends the output of tb; tr conflicts with ts and pays for it, and   *)
(* weighs more than the pool has room for once a parent is admitted; tp    *)
(* spends ts. w1 and v1 are two witnesses of one txid. A behaviour runs    *)
(* one of them, the one part names; the others are at rest.                *)
EXTENDS MempoolHub, Orphanage, IsolatedSend, PeerTable, TLC

CONSTANTS tb, ts, tp, tr, c1, b1, s1, t1, t2, t3, w1, v1, w2, w3, pa, pb

HubTxs == {tb, ts, tp, tr}
HubCoins == {c1, b1, s1}
HubMaker == (c1 :> Base) @@ (b1 :> tb) @@ (s1 :> ts)
HubIns == (tb :> {c1}) @@ (ts :> {b1}) @@ (tr :> {b1}) @@ (tp :> {s1})
HubWeight == (tb :> 1) @@ (ts :> 1) @@ (tr :> 2) @@ (tp :> 1)
HubBeats == (tr :> {ts}) @@ [t \in {tb, ts, tp} |-> {}]
HubOrder == <<tb, ts, tr, tp>>

OrphanTxid == (w1 :> t1) @@ (v1 :> t1) @@ (w2 :> t2) @@ (w3 :> t3)
OrphanWeights == (w1 :> 2) @@ (v1 :> 1) @@ (w2 :> 1) @@ (w3 :> 3)
OrphanParents == (t1 :> {pa, pb}) @@ (t2 :> {pa}) @@ (t3 :> {pb})

VARIABLE part   \* the component this behaviour runs

vars == <<part, mhVars, orVars, isoVars, reqVars, tableVars>>

Init ==
    /\ part \in {"hub", "orphans", "private", "parents", "table"}
    /\ MhInit
    /\ OrInit
    /\ IsoInit
    /\ ReqInit
    /\ TableInit

Next ==
    \/ part = "hub" /\ MhNext /\ UNCHANGED <<part, orVars, isoVars, reqVars, tableVars>>
    \/ part = "orphans" /\ OrNext /\ UNCHANGED <<part, mhVars, isoVars, reqVars, tableVars>>
    \/ part = "private" /\ IsoNext /\ UNCHANGED <<part, mhVars, orVars, reqVars, tableVars>>
    \/ part = "parents" /\ ReqNext /\ UNCHANGED <<part, mhVars, orVars, isoVars, tableVars>>
    \/ part = "table" /\ TableNext /\ UNCHANGED <<part, mhVars, orVars, isoVars, reqVars>>

Spec == Init /\ [][Next]_vars

\* The orphanage is exact and its missing parents are asked for.
ParkedSafe == OrphansSafe /\ RequestsSafe

\* The eviction of a high-bandwidth peer spares the last outbound one.
RelaySteps == [][OutboundHbKept]_vars
=============================================================================
