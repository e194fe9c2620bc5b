----------------------------- MODULE MCIndexes ------------------------------
(* The address and block indexes over a store: the scripthash head files,  *)
(* the page lists of their body, the cold build, the filter and tweak      *)
(* tables, the ring that carries their reads and writes, and the           *)
(* transaction rows of the relay. A behaviour runs one of them, the one    *)
(* part names; the others are at rest.                                     *)
EXTENDS ScripthashHeads, ScripthashPages, ScripthashCold, IndexSeal, RelayIndex, RingIo

\* The script each create of the cold build pays, and the scripts' shards.
KeyOf == <<"a", "b", "a", "c", "b", "a">>
ShardOf == [k \in {"a", "b", "c"} |-> IF k = "c" THEN 2 ELSE 1]

\* A node without creates that runs with a complete index.
PackedEmpty == [EmptyHead EXCEPT !.packed = CmShards]
Running == [Down EXCEPT !.pc = "run"]

\* Two annotation jobs whose edges share a page and straddle one, by known and
\* by unknown offset, and a read of three ranges.
Edge(abs, v) == [abs |-> abs, v |-> v]
RingJobs ==
    {[kind |-> k, edges |-> es] :
        k \in {"known", "unknown"},
        es \in {{Edge(1, 1), Edge(5, 2)}, {Edge(1, 2), Edge(3, 3), Edge(9, 4)}}}
    \cup {[kind |-> "pread", edges |-> {[off |-> 1, end |-> 3], [off |-> 4, end |-> 7],
                                        [off |-> 7, end |-> 9]}]}

VARIABLE part   \* the component this behaviour runs

vars == <<part, shVars, pgVars, cmVars, isVars, relayVars, rgVars>>

Init ==
    /\ part \in {"heads", "pages", "cold", "seal", "index", "ring"}
    /\ ShInit
    /\ PgInit
    /\ IF part = "cold" THEN CmInit ELSE CmFrom(0, PackedEmpty, Running)
    /\ IsInit /\ (part = "seal" \/ (isChain = <<"a", "a">> /\ isTw = << >>))
    /\ RelayInit
    /\ RgInit /\ (part = "ring" \/ (rgBackend = "uring"))

Next ==
    \/ part = "heads" /\ ShNext /\ UNCHANGED <<part, pgVars, cmVars, isVars, relayVars, rgVars>>
    \/ part = "pages" /\ PgNext /\ UNCHANGED <<part, shVars, cmVars, isVars, relayVars, rgVars>>
    \/ part = "cold" /\ CmNext /\ UNCHANGED <<part, shVars, pgVars, isVars, relayVars, rgVars>>
    \/ part = "seal" /\ IsNext /\ UNCHANGED <<part, shVars, pgVars, cmVars, relayVars, rgVars>>
    \/ part = "index" /\ RelayNext /\ UNCHANGED <<part, shVars, pgVars, cmVars, isVars, rgVars>>
    \/ part = "ring" /\ RgNext /\ UNCHANGED <<part, shVars, pgVars, cmVars, isVars, relayVars>>

\* The build thread and the appender are ordinary threads; blocks and
\* kills are bounded.
CmFair == WF_cmVars(part = "cold" /\ CmBuild) /\ WF_cmVars(part = "cold" /\ apply_sh_job)

\* Tasks run to their end, time passes, and the headers poll calls
\* expire_stale again and again.
RelayFair ==
    /\ \A t \in RTasks : /\ WF_relayVars(part = "index" /\ TaskStep(t))
                         /\ SF_relayVars(part = "index" /\ ExpireScan(t))
    /\ WF_relayVars(part = "index" /\ RelayTick)

\* The kernel completes what was submitted, unless a fault keeps the
\* completion, and the thread of the session runs until the process
\* aborts.
RgFair == WF_rgVars(part = "ring" /\ rgPc # "abort" /\ KernelStep) /\ WF_rgVars(part = "ring" /\ rgPc # "abort" /\ ThreadStep)

Spec == Init /\ [][Next]_vars /\ CmFair /\ RelayFair /\ RgFair

\* The cold build reaches the tip it was given, an expired announcement leaves the
\* relay maps, and every ring job returns or aborts the process.
IndexesProgress == CmReachesTip /\ StaleRowsLeave /\ JobEnds
=============================================================================
