----------------------------- MODULE ClassAppend -----------------------------
(***************************************************************************)
(* Appending creates to the Class A stems: the seqsigwit, txout and spent  *)
(* bodies, the two locators (create.loc and seqsigwit.loc, each with an    *)
(* overflow and a checkpoint file), txid.body and the input stems.  Every  *)
(* file keeps its end twice: in RAM, and in an 8-byte header on disk that  *)
(* a write may fail to store.  A process crash leaves the headers; opening *)
(* the store cuts all stems back to one count or refuses.  Ends are        *)
(* counted in creates, overflow rows or checkpoints.                       *)
(***************************************************************************)
EXTENDS Integers, Sequences, FiniteSetsExt, Functions

CONSTANTS
    CMaxFk,         \* creates at most
    MaxBatch,       \* creates of one append
    LocWin,         \* creates of one checkpoint window (LOC_WINDOW)
    Faulty,         \* files whose header write may fail
    CMaxFail,       \* header writes that fail
    CMaxDie         \* process crashes

Stems == {"seq", "out", "sp", "cloc", "covf", "coff", "sloc", "sovf", "soff", "txid", "inb", "inl"}

VARIABLES
    published,            \* published_len per file
    hdr,            \* the header on disk per file
    cap,            \* header_cap per file, -1 for none
    slots,          \* locator bytes: TRUE where a slot is the overflow marker
    rows,           \* bytes of the overflow files: the fk of every row written
    wave,           \* the append in progress: [at, n, base, dur]
    fit,            \* creates named by the tip the barrier sealed last
    cfails, dies,   \* header writes that failed, crashes
    opened          \* what the last open did: "ok", "refused", "down"

appVars == <<published, hdr, cap, slots, rows, wave, fit, cfails, dies, opened>>

\* The files in the order their headers are written.
Order == <<"seq", "out", "sp", "cloc", "covf", "coff", "sloc", "sovf", "soff", "txid", "inb", "inl">>
NoWave == [at |-> 0, n |-> 0, base |-> 0, dur |-> TRUE]
CreateLoc == {"cloc", "covf", "coff"}
SeqLoc == {"sloc", "sovf", "soff"}
family(f) == IF f \in CreateLoc THEN CreateLoc ELSE SeqLoc
ovf(f) == IF f \in CreateLoc THEN "covf" ELSE "sovf"
Bigs(n) == Cardinality({k \in 1..n : slots[k]})
\* The end of a file after n creates.
EndAt(f, n) == CASE f \in {"covf", "sovf"} -> Bigs(n) [] f \in {"coff", "soff"} -> n \div LocWin [] OTHER -> n
\* header_len_to_persist
persistLen(f) == IF cap[f] = -1 THEN published[f] ELSE Min({cap[f], published[f]})
Behind(f) == persistLen(f) < published[f]
class_a_header_behind == \E f \in {"seq", "out", "sp"} \cup CreateLoc \cup SeqLoc : Behind(f)

-----------------------------------------------------------------------------
AppInit ==
    /\ published = [f \in Stems |-> 0] /\ hdr = published /\ cap = [f \in Stems |-> -1]
    /\ slots = <<>> /\ rows = [f \in {"covf", "sovf"} |-> <<>>] /\ wave = NoWave
    /\ fit = 0 /\ cfails = 0 /\ dies = 0 /\ opened = "ok"

\* prepare, stage and write the payloads past the published ends: nothing is
\* published, but the slots and the overflow rows are on disk.
StartWave ==
    /\ opened = "ok" /\ wave.at = 0
    /\ \E n \in 1..MaxBatch, big \in [1..MaxBatch -> BOOLEAN] :
         LET base == published["cloc"]
             marks == SubSeq(slots, 1, base) \o [i \in 1..n |-> big[i]]
             mine == SelectSeq([i \in 1..n |-> base + i], LAMBDA k : marks[k])
         IN  /\ base + n <= CMaxFk
             /\ \A i \in n+1..MaxBatch : ~big[i]
             /\ slots' = marks \o SubSeq(slots, base + n + 1, Len(slots))
             /\ rows' = [f \in {"covf", "sovf"} |->
                          SubSeq(rows[f], 1, published[f]) \o mine \o SubSeq(rows[f], published[f] + Len(mine) + 1, Len(rows[f]))]
             /\ wave' = [at |-> 1, n |-> n, base |-> base, dur |-> TRUE]
    /\ UNCHANGED <<published, hdr, cap, fit, cfails, dies, opened>>

HeaderFails(f) == f \in Faulty /\ cfails < CMaxFail
here == Order[wave.at]
\* The step after file f; the wave ends after the last one.
advance(d) == IF wave.at = Len(Order) THEN NoWave ELSE [wave EXCEPT !.at = @ + 1, !.dur = d]

\* Mutated form: RAM moves and no cap is kept.
ramOnlyNoCap(f, end) ==
    /\ published' = [published EXCEPT ![f] = Max({@, end})]
    /\ UNCHANGED <<cap, hdr, cfails>>

\* publish_end with a withheld header (publish_ram_only): RAM moves, the cap
\* keeps the header where it is.
ramOnly(f, end) ==
    /\ cap' = [cap EXCEPT ![f] = IF end > published[f] /\ @ = -1 THEN published[f] ELSE @]
    /\ published' = [published EXCEPT ![f] = Max({@, end})]
    /\ UNCHANGED <<hdr, cfails>>

\* publish_end of a body, and write_at of txid.body and the input files: a
\* header write that fails is not rolled back.
PublishBody ==
    LET f == here
        end == wave.base + wave.n
    IN  /\ wave.at # 0 /\ f \in {"seq", "out", "sp", "txid", "inb", "inl"}
        /\ \/ f \in {"seq", "out", "sp"} /\ ~wave.dur /\ ramOnly(f, end) /\ wave' = advance(FALSE)
           \/ /\ f \in {"txid", "inb", "inl"} \/ wave.dur
              /\ published' = [published EXCEPT ![f] = end] /\ cap' = [cap EXCEPT ![f] = -1]
              /\ \/ hdr' = [hdr EXCEPT ![f] = end] /\ wave' = advance(wave.dur) /\ UNCHANGED cfails
                 \/ HeaderFails(f) /\ cfails' = cfails + 1 /\ wave' = advance(FALSE) /\ UNCHANGED hdr
        /\ UNCHANGED <<slots, rows, fit, dies, opened>>

\* commit_locator_file_ends, first part: headers an earlier append missed.
\* A miss leaves the caps and makes this append's commit RAM only.
CatchUp ==
    LET late == {f \in family(here) : Behind(f)}
    IN  /\ wave.at # 0 /\ here \in {"cloc", "sloc"} /\ wave.dur /\ late # {}
        /\ \/ /\ hdr' = [f \in Stems |-> IF f \in late THEN published[f] ELSE hdr[f]]
              /\ cap' = [f \in Stems |-> IF f \in late THEN -1 ELSE cap[f]]
              /\ UNCHANGED <<wave, cfails>>
           \/ /\ \E f \in late : HeaderFails(f)
              /\ cfails' = cfails + 1 /\ wave' = [wave EXCEPT !.dur = FALSE]
              /\ UNCHANGED <<hdr, cap>>
        /\ UNCHANGED <<published, slots, rows, fit, dies, opened>>

\* publish_locator_end: a file this append does not grow is skipped; a failed
\* header write withholds the header at the prior end and stops the rest.
PublishLocator ==
    LET f == here
        end == EndAt(f, wave.base + wave.n)
    IN  /\ wave.at # 0 /\ f \in CreateLoc \cup SeqLoc
        /\ f \in {"cloc", "sloc"} /\ wave.dur =>
             ~ \E g \in family(f) : Behind(g)
        /\ \/ end = published[f] /\ wave' = advance(wave.dur) /\ UNCHANGED <<published, hdr, cap, cfails>>
           \/ end > published[f] /\ ~wave.dur /\ ramOnly(f, end) /\ wave' = advance(FALSE)
           \/ /\ end > published[f] /\ wave.dur /\ published' = [published EXCEPT ![f] = end]
              /\ \/ /\ hdr' = [hdr EXCEPT ![f] = end] /\ cap' = [cap EXCEPT ![f] = -1]
                    /\ wave' = advance(TRUE) /\ UNCHANGED cfails
                 \/ /\ HeaderFails(f) /\ cfails' = cfails + 1
                    /\ cap' = [cap EXCEPT ![f] = IF @ = -1 THEN published[f] ELSE Min({@, published[f]})]
                    /\ wave' = advance(FALSE) /\ UNCHANGED hdr
        /\ UNCHANGED <<slots, rows, fit, dies, opened>>

\* TableFile::flush of every stem: the header a cap withholds stays.
FlushStems ==
    /\ opened = "ok" /\ wave.at = 0 /\ hdr # [f \in Stems |-> persistLen(f)]
    /\ hdr' = [f \in Stems |-> persistLen(f)]
    /\ UNCHANGED <<published, cap, slots, rows, wave, fit, cfails, dies, opened>>

\* A locator, as open reads it from given ends: a short checkpoint file keeps
\* the creates it can place; a row at the overflow file's end whose slot is
\* the marker cuts before its create.
checkpoint_prefix(n, off) == IF off >= n \div LocWin THEN n ELSE (off + 1) * LocWin - 1
LocCount(f, nloc, noff, novf) ==
    LET n == checkpoint_prefix(nloc, noff)
        row == rows[ovf(f)]
        kept == {i \in 1..novf : row[i] <= n}
        lastRow == IF kept = {} THEN 0 ELSE row[Max(kept)]
        at == Cardinality(kept) + 1
        cut == at <= Len(row) /\ lastRow < n /\ row[at] > lastRow /\ row[at] <= n /\ slots[row[at]]
    IN  IF cut THEN row[at] - 1 ELSE n

\* durable_create_count
covered ==
    IF ~class_a_header_behind THEN published["out"]
    ELSE Min({LocCount("cloc", persistLen("cloc"), persistLen("coff"), persistLen("covf")), published["cloc"],
              LocCount("sloc", persistLen("sloc"), persistLen("soff"), persistLen("sovf")), published["sloc"]})

\* flush_class_c_tip: the tip names every create; it is sealed only when it
\* fits the durable creates.
SealTip ==
    /\ opened = "ok" /\ wave.at = 0 /\ published["out"] > 0
    /\ published["out"] <= covered /\ fit' = published["out"] /\ fit # fit'
    /\ UNCHANGED <<published, hdr, cap, slots, rows, wave, cfails, dies, opened>>

ProcessDies ==
    /\ opened = "ok" /\ dies < CMaxDie /\ dies' = dies + 1 /\ opened' = "down"
    /\ wave' = NoWave /\ published' = hdr /\ cap' = [f \in Stems |-> -1]
    /\ UNCHANGED <<hdr, slots, rows, fit, cfails>>

\* repair_class_a_count_skew: the count to keep, and the refusals of Input::open
\* and require_body_header.
KeptCount ==
    LET stem == Min({LocCount("cloc", hdr["cloc"], hdr["coff"], hdr["covf"]), hdr["txid"],
                     LocCount("sloc", hdr["sloc"], hdr["soff"], hdr["sovf"])})
    IN  IF hdr["inl"] < stem THEN hdr["inl"] ELSE stem
Refuses ==
    \/ hdr["inb"] < hdr["inl"]
    \/ \E f \in {"seq", "out", "sp"} : hdr[f] < KeptCount

\* class_a_skew_apply_truncate shortens file by file; a crash may stop it.
CutOrder == <<"coff", "covf", "cloc", "soff", "sovf", "sloc", "out", "sp", "seq", "txid", "inl", "inb">>
CutEnd(f, n) == IF f \in {"covf", "sovf"} THEN Cardinality({i \in 1..hdr[f] : rows[f][i] <= n}) ELSE EndAt(f, n)
OpenClassA ==
    /\ opened = "down"
    /\ \/ Refuses /\ opened' = "refused" /\ UNCHANGED <<published, hdr, fit, dies>>
       \/ \E k \in 0..Len(CutOrder) :
            /\ ~Refuses
            /\ hdr' = [f \in Stems |-> IF \E i \in 1..k : CutOrder[i] = f THEN CutEnd(f, KeptCount) ELSE hdr[f]]
            /\ published' = hdr'
            /\ IF k = Len(CutOrder)
               THEN opened' = "ok" /\ fit' = Min({fit, KeptCount}) /\ UNCHANGED dies
               ELSE dies < CMaxDie /\ dies' = dies + 1 /\ UNCHANGED <<opened, fit>>
    /\ UNCHANGED <<cap, slots, rows, wave, cfails>>

AppNext ==
    \/ StartWave \/ PublishBody \/ CatchUp \/ PublishLocator \/ FlushStems \/ SealTip
    \/ ProcessDies \/ OpenClassA

AppSpec == AppInit /\ [][AppNext]_appVars

-----------------------------------------------------------------------------
\* A process crash at any point of an append, also after header writes that
\* failed, leaves a store that opens.
OpensAgain == opened # "refused"

\* What the connect barrier sealed is kept by the next open: a tip never names
\* creates that the repair cuts.
AppendedSurvives == opened = "down" /\ ~Refuses => fit <= KeptCount

\* Every create the locator names can be read: its overflow row is inside the
\* published overflow file, its checkpoint inside the checkpoint file.
NamedAreReadable ==
    opened = "ok" /\ wave.at = 0 =>
        /\ \A f \in {"coff", "soff"} : published[f] >= published["cloc"] \div LocWin
        /\ \A k \in 1..published["cloc"], f \in {"covf", "sovf"} :
             slots[k] => \E i \in 1..published[f] : rows[f][i] = k

\* An append that fails or is killed anywhere leaves tables that open, keep
\* what was sealed and can be read.
AppendSafe == OpensAgain /\ AppendedSurvives /\ NamedAreReadable
=============================================================================
