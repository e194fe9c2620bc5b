----------------------------- MODULE BlockRules -----------------------------
(***************************************************************************)
(* The value rules of one block: what its transactions may pay as fees and *)
(* what its coinbase may claim, with and without --trust-peer.             *)
(*                                                                         *)
(* Trusting, a node keeps going past some faults and records a warning.    *)
(* Two of them concern value: a coinbase spent inside its own block        *)
(* ("coinbase immature") and a coinbase that claims too much ("coinbase    *)
(* excess value").  Value that traces to the block's own coinbase is       *)
(* waived: it is followed through the outputs of later transactions, and   *)
(* is never a fee.                                                         *)
(*                                                                         *)
(* A block is a sequence of transactions, the coinbase first.  An input is *)
(* <<0, k>> for a coin that existed before the block, or <<i, v>> for      *)
(* output v of transaction i.                                              *)
(***************************************************************************)
EXTENDS Integers, Sequences, FiniteSets, SequencesExt

CONSTANTS
    BmPrior,     \* values of the coins before the block
    BmBlocks,    \* blocks: sequences of [ins, outs]
    BmMaxMoney,  \* MAX_MONEY
    BmHeights,   \* heights a block may have
    BmInterval,  \* subsidy_halving_interval
    BmReward     \* the subsidy of the first interval

VARIABLES
    bmBlock, bmHeight,   \* the case
    bmDone,
    bmHard, bmSoft       \* what the checks make of it, without trust and with

bmVars == <<bmBlock, bmHeight, bmDone, bmHard, bmSoft>>

BmLess(a, b) == IF a < b THEN a ELSE b
Total(seq) == FoldLeft(LAMBDA a, b : a + b, 0, seq)

\* block_subsidy: halved every interval (a shift to the right)
block_subsidy(h) == BmReward \div (2 ^ (h \div BmInterval))

\* is_warn_and_apply: of the faults here, these two are recorded, the others stop
is_warn_and_apply(why) == why \in {"immature", "excess value"}

\* trust::soften: a warn-and-apply fault is recorded and passed over
soften(st, why) ==
    IF st.trust /\ is_warn_and_apply(why) THEN [st EXCEPT !.warns = @ \cup {why}]
    ELSE [st EXCEPT !.err = why]

NoFaults(trust) ==
    [trust |-> trust, err |-> "none", warns |-> {}, paid |-> 0, waived |-> 0,
     fees |-> 0, residue |-> [x \in {} |-> 0], used |-> {}]

\* tx_value_out: each value, then the running sum, within MAX_MONEY
value_out_ok(outs) ==
    /\ \A i \in 1 .. Len(outs) : outs[i] <= BmMaxMoney
    /\ \A i \in 1 .. Len(outs) : Total(SubSeq(outs, 1, i)) <= BmMaxMoney

ValueOf(blk, inp) ==
    IF inp[1] = 0 THEN BmPrior[inp[2]] ELSE blk[inp[1]].outs[inp[2]]

\* same_block_residue
residue_of(st, inp) == IF inp \in DOMAIN st.residue THEN st.residue[inp] ELSE 0

\* add_spent_value: what of an input was a coin, what traces to the coinbase
add_spent_value(st, skip, residue, sat) ==
    LET waived == IF skip THEN sat ELSE BmLess(residue, sat)
    IN  [st EXCEPT !.paid = @ + (sat - waived), !.waived = @ + waived]

\* reject_same_block_create, reject_duplicate_input
SpendInput(st, blk, ti, inp) ==
    IF st.err # "none" THEN st
    ELSE IF inp \in st.used THEN [st EXCEPT !.err = "double spend"]
    ELSE IF inp[1] >= ti THEN [st EXCEPT !.err = "missing"]
    ELSE LET used == [st EXCEPT !.used = @ \cup {inp}]
             soft == IF inp[1] = 1 THEN soften(used, "immature") ELSE used
         IN  IF soft.err # "none" THEN soft
             ELSE add_spent_value(soft, inp[1] = 1, residue_of(st, inp),
                                  ValueOf(blk, inp))

\* fee_with_waived_coinbase: waived value pays outputs last, and no fee
fee_with_waived_coinbase(paid, out) == IF out > paid THEN 0 ELSE paid - out

\* waived_output_residue: outputs are clean from the front until the clean
\* value is used up
waived_output_residue(clean, outs) ==
    [v \in 1 .. Len(outs) |->
       outs[v] - BmLess(outs[v],
         LET left == clean - Total(SubSeq(outs, 1, v - 1))
         IN  IF left < 0 THEN 0 ELSE left)]

\* stamp_waived_outputs
stamp_waived_outputs(st, ti, left) ==
    [st EXCEPT !.residue =
       [x \in DOMAIN st.residue
              \cup {<<ti, v>> : v \in {v \in 1 .. Len(left) : left[v] > 0}} |->
          IF x[1] = ti THEN left[x[2]] ELSE st.residue[x]]]

\* fee_from_values, fee_with_waived_coinbase: no output above every input
Covered(st, out) == out <= st.paid + st.waived

PayOut(st, blk, ti) ==
    LET outs == blk[ti].outs
        out  == Total(outs)
        fee  == fee_with_waived_coinbase(st.paid, out)
    IN  IF st.err # "none" THEN st
        ELSE IF ~value_out_ok(outs) THEN [st EXCEPT !.err = "value out"]
        ELSE IF ~Covered(st, out) THEN [st EXCEPT !.err = "in < out"]
        ELSE LET marked == IF st.waived > 0
                           THEN stamp_waived_outputs(st, ti,
                                  waived_output_residue(st.paid - fee, outs))
                           ELSE st
             IN  [marked EXCEPT !.fees = @ + fee, !.paid = 0, !.waived = 0]

\* assemble_non_cb_tx
AssembleOne(st, blk, ti) ==
    PayOut(FoldLeft(LAMBDA s, inp : SpendInput(s, blk, ti, inp), st, blk[ti].ins),
           blk, ti)

\* check_coinbase_subsidy
check_coinbase_subsidy(st, blk, h) ==
    IF st.err # "none" THEN st
    ELSE IF Total(blk[1].outs) > block_subsidy(h) + st.fees
    THEN soften(st, "excess value") ELSE st

CheckBlock(blk, h, trust) ==
    check_coinbase_subsidy(
      FoldLeft(LAMBDA s, ti : AssembleOne(s, blk, ti),
               IF value_out_ok(blk[1].outs) THEN NoFaults(trust)
               ELSE [NoFaults(trust) EXCEPT !.err = "value out"],
               [i \in 1 .. Len(blk) - 1 |-> i + 1]),
      blk, h)

BmStart(block, height) ==
    /\ bmBlock = block /\ bmHeight = height
    /\ bmDone = FALSE /\ bmHard = NoFaults(FALSE) /\ bmSoft = NoFaults(TRUE)
BmInit == \E block \in BmBlocks, height \in BmHeights : BmStart(block, height)

BmCheck ==
    /\ ~bmDone
    /\ bmDone' = TRUE
    /\ bmHard' = CheckBlock(bmBlock, bmHeight, FALSE)
    /\ bmSoft' = CheckBlock(bmBlock, bmHeight, TRUE)
    /\ UNCHANGED <<bmBlock, bmHeight>>

BmNext == BmCheck

-----------------------------------------------------------------------------
SpentInputs == UNION {ToSet(bmBlock[i].ins) : i \in 1 .. Len(bmBlock)}
MadeOutputs ==
    {iv \in (1 .. Len(bmBlock)) \X (1 .. 3) : iv[2] <= Len(bmBlock[iv[1]].outs)}
SumOver(S) == FoldSet(LAMBDA i, a : a + ValueOf(bmBlock, i), 0, S)

\* What the coins left after the block are worth beyond those before it.
Growth == SumOver(MadeOutputs \ SpentInputs)
            - SumOver({i \in SpentInputs : i[1] = 0})

\* The value of the coins the block spends is all in its fees and in the clean
\* part of the outputs it leaves: no value that traces to its own coinbase
\* counts as a fee, however often it moved.  facts.rs: "adding it would let
\* the coinbase fund itself and hide a subsidy mismatch".
CleanConserved ==
    \A r \in {bmHard, bmSoft} :
      bmDone /\ r.err = "none" =>
        SumOver({i \in SpentInputs : i[1] = 0})
          = r.fees + FoldSet(LAMBDA iv, a : a + ValueOf(bmBlock, iv) - residue_of(r, iv),
                             0, {iv \in MadeOutputs \ SpentInputs : iv[1] # 1})

\* A block that connects without an "excess value" warning adds no more than
\* the subsidy to the coins there are, also when its own coinbase was spent
\* inside it.
NoMoneyFromNothing ==
    \A r \in {bmHard, bmSoft} :
      bmDone /\ r.err = "none" /\ "excess value" \notin r.warns
        => Growth <= block_subsidy(bmHeight)

\* Trust only passes over what it records: a block connects without trust
\* exactly when it connects under trust with no warning, and what both refuse
\* outright they refuse alike.
TrustOnlyWarns ==
    bmDone =>
      /\ bmHard.err = "none" <=> bmSoft.err = "none" /\ bmSoft.warns = {}
      /\ bmSoft.err # "none" /\ bmSoft.warns = {} => bmHard.err = bmSoft.err

-----------------------------------------------------------------------------
(***************************************************************************)
(* What a block hash answers for.  Several bodies may arrive under one     *)
(* header: the honest one, one with its tail repeated, one whose inner     *)
(* merkle nodes are read as 64-byte transactions, one with witness bytes   *)
(* added, padded or stripped.  The structure rules of                      *)
(* validate_block_structure_with_pres run in a fixed order, and the reason *)
(* of the first that fails decides whether the hash is remembered as       *)
(* failed or only the body is dropped.                                     *)
(*                                                                         *)
(* A hash is a term: <<name>> for a transaction, a pair for an inner node, *)
(* a triple for a transaction with its witness.  Sizes, values, scripts    *)
(* and sigop counts are fields of the transaction table.                   *)
(***************************************************************************)

CONSTANTS BsTx,        \* the transactions: name -> record
          BsBodies,    \* the bodies a peer can send: sequences of [tx, wit]
          BsHeights,   \* heights the header may stand at
          BsBip34, BsSegwit,           \* buried activation heights
          BsMaxStripped, BsMaxWeight, BsMaxSigops

VARIABLES bsRoot,      \* the merkle root the header commits to
          bsHeight,    \* the height it stands at
          bsTrust,     \* --trust-peer: some faults are warned about and applied
          bsPath,      \* "hub" (tip accept) or "ibd" (confirm pipeline)
          bsFailed,    \* the hash is remembered as failed
          bsTaken      \* bodies accepted under it

bsVars == <<bsRoot, bsHeight, bsTrust, bsPath, bsFailed, bsTaken>>

-----------------------------------------------------------------------------
(* Merkle trees. *)

ZeroHash == <<>>

merkle_parent_level(level) ==
  LET even == IF Len(level) % 2 = 1 THEN Append(level, Last(level)) ELSE level
  IN  [i \in 1..(Len(even) \div 2) |-> <<even[2 * i - 1], even[2 * i]>>]

EqualPair(level) ==
  \E i \in 1..(Len(level) \div 2) : level[2 * i - 1] = level[2 * i]

RECURSIVE merkle_climb(_, _)
merkle_climb(level, seen) ==
  IF Len(level) = 1 THEN [root |-> level[1], mutated |-> seen]
  ELSE merkle_climb(merkle_parent_level(level), seen \/ EqualPair(level))

merkle_root_mutated(leaves) ==
  IF leaves = <<>> THEN [root |-> ZeroHash, mutated |-> FALSE]
  ELSE merkle_climb(leaves, FALSE)

merkle_root_from_txids(leaves) == merkle_root_mutated(leaves).root

\* The sibling of a node: the other of its pair, or itself when it is odd.
SiblingAt(level, index) ==
  level[Min({IF index % 2 = 0 THEN index + 1 ELSE index - 1, Len(level) - 1}) + 1]

RECURSIVE merkle_branch(_, _)
merkle_branch(level, index) ==
  IF Len(level) <= 1 THEN <<>>
  ELSE <<SiblingAt(level, index)>>
       \o merkle_branch(merkle_parent_level(level), index \div 2)

RECURSIVE merkle_root_from_branch(_, _, _)
merkle_root_from_branch(leaf, branch, index) ==
  IF branch = <<>> THEN leaf
  ELSE merkle_root_from_branch(
         IF index % 2 = 0 THEN <<leaf, Head(branch)>> ELSE <<Head(branch), leaf>>,
         Tail(branch), index \div 2)

-----------------------------------------------------------------------------
(* Transactions of a body. *)

TxOf(slot) == BsTx[slot.tx]
is_coinbase(tx) == tx.ins = <<"null">>
Txid(slot) == IF TxOf(slot).inner # <<>> THEN TxOf(slot).inner ELSE <<slot.tx>>
Wtxid(slot) == IF slot.wit = 0 THEN Txid(slot) ELSE <<slot.tx, slot.wit, 0>>
TxidsOf(body) == [i \in 1..Len(body) |-> Txid(body[i])]
SumOf(body, f(_)) == FoldLeft(LAMBDA n, s : n + f(s), 0, body)

check_tx_shape(tx) ==
  CASE tx.ins = <<>> -> "no inputs"
    [] tx.ins # <<>> /\ tx.outs = "none" -> "no outputs"
    [] tx.ins # <<>> /\ tx.outs # "none" /\ tx.size > BsMaxStripped -> "bad-txns-oversize"
    [] tx.ins # <<>> /\ tx.outs = "toolarge" /\ tx.size <= BsMaxStripped -> "bad-txns-vout-toolarge"
    [] OTHER -> "ok"

reject_null_prevouts(tx) ==
  IF ~is_coinbase(tx) /\ "null" \in ToSet(tx.ins) THEN "bad-txns-prevout-null" ELSE "ok"

reject_duplicate_outpoints(tx) ==
  IF Cardinality(ToSet(tx.ins)) < Len(tx.ins) THEN "bad-txns-inputs-duplicate" ELSE "ok"

\* The first reason of a list that is not "ok".
FirstFault(reasons) ==
  LET bad == SelectSeq(reasons, LAMBDA r : r # "ok")
  IN  IF bad = <<>> THEN "ok" ELSE bad[1]

check_tx_local(tx) == FirstFault(<<check_tx_shape(tx), reject_null_prevouts(tx)>>)

OverTxs(body, rule(_)) == FirstFault([i \in 1..Len(body) |-> rule(TxOf(body[i]))])

\* Only a transaction of two inputs or more can repeat an outpoint.
InputWalk(tx) ==
  IF Len(tx.ins) < 2 THEN "ok"
  ELSE FirstFault(<<check_tx_shape(tx), reject_duplicate_outpoints(tx)>>)

block_mutated_without_coinbase(body) ==
  ~is_coinbase(TxOf(body[1])) /\ \E i \in 1..Len(body) : TxOf(body[i]).size = 64

reject_bad_block_tx_layout(body) ==
  IF block_mutated_without_coinbase(body) THEN "merkle mutated by a 64-byte tx"
  ELSE IF ~is_coinbase(TxOf(body[1])) THEN "first tx not coinbase"
  ELSE IF \E i \in 2..Len(body) : is_coinbase(TxOf(body[i])) THEN "coinbase not first"
  ELSE "ok"

-----------------------------------------------------------------------------
(* Witness commitment. *)

block_has_witness_from_pres(body) == \E i \in 1..Len(body) : body[i].wit # 0

\* The last output with the commitment prefix; <<>> when there is none.
witness_commitment_vout_index(cb) == IF cb.commits = <<>> THEN <<>> ELSE Last(cb.commits)

coinbase_has_witness_commitment(body) == TxOf(body[1]).commits # <<>>

witness_commitment_digest(wtxids, reserved) ==
  <<merkle_root_from_txids(<<ZeroHash>> \o wtxids), reserved, 0, 0>>

\* A coinbase witness of 3 is an item of the wrong size.
check_witness_commitment_with_wtxids(body, wtxids) ==
  IF ~coinbase_has_witness_commitment(body) THEN "missing witness commitment"
  ELSE IF body[1].wit \notin {1, 2} THEN "bad-witness-nonce-size"
  ELSE IF witness_commitment_digest(wtxids, body[1].wit)
          # witness_commitment_vout_index(TxOf(body[1])) THEN "witness commitment mismatch"
  ELSE "ok"

reject_witness_malleation(body, height) ==
  IF block_has_witness_from_pres(body) /\ height < BsSegwit
  THEN "unexpected witness before segwit"
  ELSE IF /\ block_has_witness_from_pres(body) \/ coinbase_has_witness_commitment(body)
          /\ height >= BsSegwit
  THEN check_witness_commitment_with_wtxids(body, [i \in 1..(Len(body) - 1) |-> Wtxid(body[i + 1])])
  ELSE "ok"

-----------------------------------------------------------------------------
(* BIP34 height, little-endian with a sign byte. *)

RECURSIVE scriptnum_bytes(_)
scriptnum_bytes(n) ==
  IF n < 128 THEN <<n>>
  ELSE IF n < 256 THEN <<n, 0>> ELSE <<n % 256>> \o scriptnum_bytes(n \div 256)

bip34_height_script(height) ==
  IF height = 0 THEN <<0>>
  ELSE IF height <= 16 THEN <<80 + height>>
  ELSE <<Len(scriptnum_bytes(height))>> \o scriptnum_bytes(height)

soften_shape(reason, trust) == IF trust THEN "ok" ELSE reason

check_bip34_coinbase(cb, height, trust) ==
  IF IsPrefix(bip34_height_script(height), cb.script) THEN "ok"
  ELSE soften_shape("bip34 height encoding", trust)

-----------------------------------------------------------------------------
(* validate_block_structure_with_pres. *)

Stripped(slot) == TxOf(slot).size
WitnessBytes(slot) == IF slot.wit = 0 THEN 0 ELSE 10 * slot.wit
LegacySigops(slot) == TxOf(slot).sigops
WeightOf(body) == 4 * SumOf(body, Stripped) + SumOf(body, WitnessBytes)

Committed(body, root, tree) ==
  IF tree.root # root THEN "merkle root mismatch"
  ELSE IF tree.mutated THEN "bad-txns-duplicate" ELSE "ok"

CoinbaseShape(cb) ==
  FirstFault(<<check_tx_shape(cb), IF Len(cb.script) \in 2..100 THEN "ok" ELSE "bad-cb-length">>)

DuplicateTxid(body) ==
  IF Cardinality(ToSet(TxidsOf(body))) < Len(body) THEN "duplicate txid" ELSE "ok"

\* A bug: the weight of a body is judged before its witness is known to be
\* the committed one.
WeightThenWitness(body, height) ==
  FirstFault(<<IF WeightOf(body) > BsMaxWeight THEN "block weight too large" ELSE "ok",
               reject_witness_malleation(body, height)>>)

\* Witness bytes are not in the hash, so they are tied to the coinbase first.
WitnessThenWeight(body, height) ==
  FirstFault(<<reject_witness_malleation(body, height),
               IF WeightOf(body) > BsMaxWeight THEN "block weight too large" ELSE "ok">>)

BodyRules(body, height, trust) ==
  FirstFault(<<
    OverTxs(body, InputWalk),
    reject_bad_block_tx_layout(body),
    CoinbaseShape(TxOf(body[1])),
    DuplicateTxid(body),
    IF SumOf(body, Stripped) > BsMaxStripped THEN "block stripped size too large" ELSE "ok",
    OverTxs(body, check_tx_local),
    WitnessThenWeight(body, height),
    IF height >= BsBip34 THEN check_bip34_coinbase(TxOf(body[1]), height, trust) ELSE "ok",
    IF 4 * SumOf(body, LegacySigops) > BsMaxSigops
    THEN soften_shape("bad-blk-sigops", trust) ELSE "ok">>)

validate_block_structure_with_pres(body, root, height, trust) ==
  LET first == Committed(body, root, merkle_root_mutated(TxidsOf(body)))
  IN  IF first # "ok" THEN first ELSE BodyRules(body, height, trust)

-----------------------------------------------------------------------------
(* Who is blamed. *)

\* The operator-facing reason of a rule failure, as far as the classes of
\* reject_is_mutated tell reasons apart.
block_reject_reason(r) ==
  CASE r \in {"first tx not coinbase", "merkle mutated by a 64-byte tx"} -> "bad-cb-missing"
    [] r = "duplicate txid" -> "bad-txns-inputs-missingorspent"
    [] r = "merkle root mismatch" -> "bad-txnmrklroot"
    [] OTHER -> r

reject_is_mutated(r) ==
  r \in {"merkle root mismatch", "merkle mutated by a 64-byte tx", "bad-txnmrklroot",
         "bad-txns-duplicate", "missing witness commitment", "witness commitment mismatch",
         "bad-witness-nonce-size", "unexpected witness before segwit"}

\* Tip accept: the 64-byte rule is asked before the connect, whose rule
\* failures are classified by their translated reason.
accept_incoming(body, verdict) ==
  IF block_mutated_without_coinbase(body) THEN "mutated"
  ELSE IF reject_is_mutated(block_reject_reason(verdict)) THEN "mutated" ELSE verdict

\* The confirm pipeline: the rule's own text is classified.
from_consensus(verdict) == IF reject_is_mutated(verdict) THEN "mutated" ELSE verdict

Classified(body, verdict, path) ==
  IF path = "hub" THEN accept_incoming(body, verdict) ELSE from_consensus(verdict)

\* Once failed, the hash is refused unseen; once accepted, it is there.
remember_failed_accept(body, outcome) ==
  /\ bsFailed' = (outcome \notin {"ok", "mutated"})
  /\ bsTaken' = IF outcome = "ok" THEN {body} ELSE bsTaken

Offer(body) ==
  /\ ~bsFailed /\ bsTaken = {}
  /\ remember_failed_accept(body,
       Classified(body, validate_block_structure_with_pres(body, bsRoot, bsHeight, bsTrust), bsPath))
  /\ UNCHANGED <<bsRoot, bsHeight, bsTrust, bsPath>>

BsStart(body, height, trust, path) ==
  /\ bsRoot = merkle_root_from_txids(TxidsOf(body))
  /\ bsHeight = height /\ bsTrust = trust /\ bsPath = path
  /\ bsFailed = FALSE
  /\ bsTaken = {}
BsInit == \E body \in BsBodies, height \in BsHeights, trust \in BOOLEAN, path \in {"hub", "ibd"} :
            BsStart(body, height, trust, path)

BsNext == \E body \in BsBodies : Offer(body)

BsSpec == BsInit /\ [][BsNext]_bsVars

-----------------------------------------------------------------------------
\* The bodies the rules accept under this header.
Acceptable ==
  {b \in BsBodies :
     validate_block_structure_with_pres(b, bsRoot, bsHeight, bsTrust) = "ok"}

\* A hash is remembered as failed only when no body under it could ever be
\* accepted, whichever body came first (reject_is_mutated: "Do not cache the
\* hash as permanently failed").  A body that only differs from the good one
\* in bytes the header does not commit to must not cost the node the block.
FailedHashHasNoBody == bsFailed => Acceptable = {}

\* One header, one body: the accepted body is the only acceptable one, its
\* transactions and its witnesses both, under segwit.
OneBodyPerHash == bsTaken # {} => Acceptable = bsTaken

\* A coinbase carries the height of at most one block: below no trust, a
\* body that is accepted at this height is refused at every other height
\* where BIP34 is active.
HeightIsBound ==
  bsTaken # {} /\ ~bsTrust /\ bsHeight >= BsBip34 =>
    \A b \in bsTaken, h \in BsHeights :
      h >= BsBip34 /\ h # bsHeight =>
        check_bip34_coinbase(TxOf(b[1]), h, FALSE) # "ok"

\* Every transaction of an accepted block is proved by its branch, and the
\* branch of the coinbase also fits any other coinbase: it climbs to the root
\* of the list with that coinbase in its place.  The mining templates send
\* the branch before the coinbase is known.
BranchProves ==
  \A b \in bsTaken : \A i \in 1..Len(b) :
    \A leaf \in {Txid(b[i])} \cup (IF i = 1 THEN {<<"other">>} ELSE {}) :
      merkle_root_from_branch(leaf, merkle_branch(TxidsOf(b), i - 1), i - 1)
        = merkle_root_from_txids([TxidsOf(b) EXCEPT ![i] = leaf])

\* Values are conserved, trust hides nothing, and a hash stands for one body.
RulesSafe ==
    /\ CleanConserved
    /\ NoMoneyFromNothing
    /\ TrustOnlyWarns
    /\ FailedHashHasNoBody
    /\ OneBodyPerHash
    /\ HeightIsBound
    /\ BranchProves
=============================================================================
