---------------------------- MODULE ScriptInterp ----------------------------
(***************************************************************************)
(* The opcodes of the script interpreter                                   *)
(* (rbitcoin-consensus/src/script/interpreter.rs): one instruction of      *)
(* eval_script as a function of the run, for the three signature versions  *)
(* and the verify flags of EvalContext.                                    *)
(*                                                                         *)
(* Elements keep what the opcodes tell apart: numbers with a minimal or a  *)
(* padded encoding, digests, signatures (of a key, for a code-separator    *)
(* position, with the class of their encoding) and keys; OP_SIZE tells an  *)
(* empty element from another.  The limits are constants.                  *)
(***************************************************************************)
EXTENDS Integers, SequencesExt

CONSTANTS MAX_STACK_SIZE, MAX_OPS_LEGACY, MAX_PUBKEYS_PER_MULTISIG,
          ScNumMax,    \* the largest number of four bytes
          ScTime,      \* the first locktime that is a time
          ScPerSig     \* TAPSCRIPT_VALIDATION_WEIGHT_PER_SIGOP

(* Elements: type, value, class, code-separator position. *)
El(t, v, x, at) == [t |-> t, v |-> v, x |-> x, at |-> at]
scriptnum_encode(n) == El("num", n, "", 0)
bool_encode(b) == scriptnum_encode(IF b THEN 1 ELSE 0)
Types == <<"num", "hash", "sig", "key", "redeem", "annex", "control", "big">>
Classes == <<"", "pad", "ok", "der", "highs", "hashtype", "schnorr", "comp", "uncomp", "hybrid",
             "bad", "xonly", "OP_HASH160", "OP_SHA256", "leaf", "short">>
PlaceIn(seq, x) == CHOOSE i \in 1..Len(seq) : seq[i] = x
Digest(alg, e) == El("hash", 16 * e.v + PlaceIn(Classes, e.x), alg, PlaceIn(Types, e.t))
IsEmpty(e) == e.t = "num" /\ e.v = 0 /\ e.x = ""
read_scriptbool(e) == ~(e.t = "num" /\ e.v = 0)
is_minimal_if_arg(e) == e.t = "num" /\ e.v \in {0, 1} /\ e.x = ""
AbsOf(n) == IF n < 0 THEN -n ELSE n

(* An encoding of at most four (decode_i64) or five bytes, minimal where   *)
(* the flags ask for it.  A result may leave the four bytes; it is then an *)
(* element that no longer decodes.                                         *)
decode_wide(flags, e) == e.t = "num" /\ (e.x = "pad" => "minimal_data" \notin flags)
decode_i64(flags, e) == decode_wide(flags, e) /\ AbsOf(e.v) <= ScNumMax

(* A run: its stacks, ConditionStack (no first_false is -1), the opcode    *)
(* count, opcode_pos, the last separator and the tapscript budget.         *)
NewRun(stack, weight) ==
  [st |-> "run", stack |-> stack, alt |-> << >>, size |-> 0, first_false |-> -1,
   ops |-> 0, pos |-> 0, sep |-> 0, weight |-> weight]
Failed == [NewRun(<< >>, 0) EXCEPT !.st = "err"]

(* ConditionStack. *)
all_true(s) == s.first_false = -1
cond_push(s, b) ==
  [s EXCEPT !.size = @ + 1, !.first_false = IF @ = -1 /\ ~b THEN s.size ELSE @]
cond_pop(s) ==
  [s EXCEPT !.size = @ - 1, !.first_false = IF @ = s.size - 1 THEN -1 ELSE @]
toggle_top(s) ==
  [s EXCEPT !.first_false = CASE @ = -1 -> s.size - 1
                              [] @ = s.size - 1 -> -1
                              [] OTHER -> @]

push(s, e) ==
  IF s.st = "err" \/ Len(s.stack) + Len(s.alt) + 1 > MAX_STACK_SIZE THEN Failed
  ELSE [s EXCEPT !.stack = Append(@, e)]

(* The i-th element from the top, and the stack without its n top ones. *)
Peek(s, i) == s.stack[Len(s.stack) + 1 - i]
Drop(s, n) == [s EXCEPT !.stack = SubSeq(@, 1, Len(@) - n)]
SwapAt(s, i, j) ==
  [s EXCEPT !.stack = [@ EXCEPT ![Len(@) + 1 - i] = Peek(s, j), ![Len(@) + 1 - j] = Peek(s, i)]]
Copies(s, from, n) == FoldLeft(LAMBDA r, i : push(r, Peek(s, i)), s, [k \in 1..n |-> from + 1 - k])

(* The elements an opcode takes or requires: fewer is an error. *)
Takes ==
  [OP_VERIFY |-> 1, OP_TOALTSTACK |-> 1, OP_2DROP |-> 2, OP_2DUP |-> 2, OP_3DUP |-> 3,
   OP_2OVER |-> 4, OP_2ROT |-> 6, OP_2SWAP |-> 4, OP_IFDUP |-> 1, OP_DROP |-> 1, OP_DUP |-> 1,
   OP_NIP |-> 2, OP_OVER |-> 2, OP_PICK |-> 1, OP_ROLL |-> 1, OP_ROT |-> 3, OP_SWAP |-> 2,
   OP_TUCK |-> 2, OP_SIZE |-> 1, OP_EQUAL |-> 2, OP_EQUALVERIFY |-> 2, OP_CHECKSIG |-> 2,
   OP_CHECKSIGVERIFY |-> 2, OP_CHECKSIGADD |-> 3, OP_CHECKMULTISIG |-> 1,
   OP_CHECKMULTISIGVERIFY |-> 1]
Lacks(s, op) == op \in DOMAIN Takes /\ Len(s.stack) < Takes[op]

(* OP_PICK and OP_ROLL: the number is popped first. *)
Reaches(flags, s) ==
  decode_i64(flags, Peek(s, 1)) /\ Peek(s, 1).v >= 0 /\ Peek(s, 1).v < Len(s.stack) - 1
RollOut(s, i) == [Drop(s, 1) EXCEPT !.stack = RemoveAt(@, Len(@) + 1 - i)]

TwoRot(s) ==
  [s EXCEPT !.stack = SubSeq(@, 1, Len(@) - 6) \o SubSeq(@, Len(@) - 3, Len(@))
                        \o <<Peek(s, 6), Peek(s, 5)>>]

Moves == {"OP_TOALTSTACK", "OP_FROMALTSTACK", "OP_2DROP", "OP_2DUP", "OP_3DUP", "OP_2OVER",
          "OP_2ROT", "OP_2SWAP", "OP_IFDUP", "OP_DEPTH", "OP_DROP", "OP_DUP", "OP_NIP", "OP_OVER",
          "OP_PICK", "OP_ROLL", "OP_ROT", "OP_SWAP", "OP_TUCK"}

(* The opcodes that move elements. *)
Move(flags, s, op) ==
  CASE op = "OP_TOALTSTACK" -> [Drop(s, 1) EXCEPT !.alt = Append(@, Peek(s, 1))]
    [] op = "OP_FROMALTSTACK" ->
         IF s.alt = << >> THEN Failed
         ELSE push([s EXCEPT !.alt = Front(@)], Last(s.alt))
    [] op = "OP_2DROP" -> Drop(s, 2)
    [] op = "OP_2DUP" -> Copies(s, 2, 2)
    [] op = "OP_3DUP" -> Copies(s, 3, 3)
    [] op = "OP_2OVER" -> Copies(s, 4, 2)
    [] op = "OP_2ROT" -> TwoRot(s)
    [] op = "OP_2SWAP" -> SwapAt(SwapAt(s, 4, 2), 3, 1)
    [] op = "OP_IFDUP" -> IF read_scriptbool(Peek(s, 1)) THEN push(s, Peek(s, 1)) ELSE s
    [] op = "OP_DEPTH" -> push(s, scriptnum_encode(Len(s.stack)))
    [] op = "OP_DROP" -> Drop(s, 1)
    [] op = "OP_DUP" -> push(s, Peek(s, 1))
    [] op = "OP_NIP" -> push(Drop(s, 2), Peek(s, 1))
    [] op = "OP_OVER" -> push(s, Peek(s, 2))
    [] op = "OP_PICK" ->
         IF Reaches(flags, s) THEN push(Drop(s, 1), Peek(s, Peek(s, 1).v + 2)) ELSE Failed
    [] op = "OP_ROLL" ->
         IF Reaches(flags, s)
         THEN push(RollOut(s, Peek(s, 1).v + 1), Peek(s, Peek(s, 1).v + 2)) ELSE Failed
    [] op = "OP_ROT" -> SwapAt(SwapAt(s, 3, 2), 2, 1)
    [] op = "OP_SWAP" -> SwapAt(s, 1, 2)
    [] op = "OP_TUCK" ->
         IF push(s, Peek(s, 1)).st = "err" THEN Failed ELSE SwapAt(push(s, Peek(s, 1)), 3, 2)

(* The arithmetic of one, two (a below b) and three numbers. *)
Unary == [OP_1ADD |-> "", OP_1SUB |-> "", OP_NEGATE |-> "", OP_ABS |-> "", OP_NOT |-> "",
          OP_0NOTEQUAL |-> ""]
UnaryOf(op, v) ==
  CASE op = "OP_1ADD" -> scriptnum_encode(v + 1)
    [] op = "OP_1SUB" -> scriptnum_encode(v - 1)
    [] op = "OP_NEGATE" -> scriptnum_encode(-v)
    [] op = "OP_ABS" -> scriptnum_encode(AbsOf(v))
    [] op = "OP_NOT" -> bool_encode(v = 0)
    [] op = "OP_0NOTEQUAL" -> bool_encode(v # 0)
Binary == {"OP_ADD", "OP_SUB", "OP_MIN", "OP_MAX", "OP_BOOLAND", "OP_BOOLOR", "OP_NUMEQUAL",
           "OP_NUMNOTEQUAL", "OP_LESSTHAN", "OP_GREATERTHAN", "OP_LESSTHANOREQUAL",
           "OP_GREATERTHANOREQUAL", "OP_NUMEQUALVERIFY"}
bin_arith(op, a, b) ==
  scriptnum_encode(CASE op = "OP_ADD" -> a + b
                     [] op = "OP_SUB" -> a - b
                     [] op = "OP_MIN" -> IF a < b THEN a ELSE b
                     [] op = "OP_MAX" -> IF a > b THEN a ELSE b)
bin_cmp(op, a, b) ==
  bool_encode(CASE op = "OP_BOOLAND" -> a # 0 /\ b # 0
                [] op = "OP_BOOLOR" -> a # 0 \/ b # 0
                [] op \in {"OP_NUMEQUAL", "OP_NUMEQUALVERIFY"} -> a = b
                [] op = "OP_NUMNOTEQUAL" -> a # b
                [] op = "OP_LESSTHAN" -> a < b
                [] op = "OP_GREATERTHAN" -> a > b
                [] op = "OP_LESSTHANOREQUAL" -> a <= b
                [] op = "OP_GREATERTHANOREQUAL" -> a >= b)
BinaryOf(op, a, b) ==
  IF op \in {"OP_ADD", "OP_SUB", "OP_MIN", "OP_MAX"} THEN bin_arith(op, a, b) ELSE bin_cmp(op, a, b)

(* The n numbers an opcode pops all decode. *)
Decodes(flags, s, n) == Len(s.stack) >= n /\ \A i \in 1..n : decode_i64(flags, Peek(s, i))

Arith(flags, s, op) ==
  IF op \in DOMAIN Unary
  THEN IF Decodes(flags, s, 1) THEN push(Drop(s, 1), UnaryOf(op, Peek(s, 1).v)) ELSE Failed
  ELSE IF op = "OP_WITHIN"
  THEN IF Decodes(flags, s, 3)
       THEN push(Drop(s, 3), bool_encode(Peek(s, 3).v >= Peek(s, 2).v /\ Peek(s, 3).v < Peek(s, 1).v))
       ELSE Failed
  ELSE IF ~Decodes(flags, s, 2) THEN Failed
  ELSE IF op = "OP_NUMEQUALVERIFY"
  THEN IF Peek(s, 2).v = Peek(s, 1).v THEN Drop(s, 2) ELSE Failed
  ELSE push(Drop(s, 2), BinaryOf(op, Peek(s, 2).v, Peek(s, 1).v))

(* What the encoding checks of a signature and of a key may refuse. *)
SigDer(e) == e.t = "sig" /\ e.x # "der"
check_signature_encoding(flags, sig) ==
  /\ (flags \cap {"bip66", "low_s", "strictenc"} # {}) => SigDer(sig)
  /\ "low_s" \in flags => sig.x # "highs"
  /\ "strictenc" \in flags => sig.x # "hashtype"
checksig_legacy_encodings(flags, ver, sig, key) ==
  /\ ~IsEmpty(sig) => check_signature_encoding(flags, sig)
  /\ "strictenc" \in flags => key.t = "key" /\ key.x \in {"comp", "uncomp"}
  /\ ("witness_pubkeytype" \in flags /\ ver = "v0") => key.t = "key" /\ key.x = "comp"

(* A signature verifies under its key and for its separator position.  A   *)
(* key that does not parse verifies nothing.                               *)
Verifies(s, sig, key) ==
  sig.t = "sig" /\ key.t = "key" /\ key.x # "bad" /\ sig.v = key.v /\ sig.at = s.sep

(* find_and_delete removed something: the script holds a push of one. *)
legacy_script_code(ctx, flags, sigs) ==
  ctx.ver = "base" /\ "const_scriptcode" \in flags => sigs \cap ctx.embeds = {}

NullFails(flags, ok, sigs) == ~ok /\ "nullfail" \in flags /\ \E g \in sigs : ~IsEmpty(g)

checksig_legacy(ctx, flags, s, sig, key, verify) ==
  IF \/ ~legacy_script_code(ctx, flags, {sig})
     \/ ~checksig_legacy_encodings(flags, ctx.ver, sig, key)
     \/ NullFails(flags, Verifies(s, sig, key), {sig})
     \/ verify /\ ~Verifies(s, sig, key)
  THEN Failed
  ELSE IF verify THEN s ELSE push(s, bool_encode(Verifies(s, sig, key)))

Spent(s, sig, key) == [s EXCEPT !.weight = @ - IF IsEmpty(sig) THEN 0 ELSE ScPerSig]
tapscript_sig_result(s, sig, key) ==
  CASE s.weight < 0 \/ IsEmpty(key) -> "error"
    [] IsEmpty(sig) -> "empty"
    [] key.x # "xonly" -> "valid"
    [] sig.x = "schnorr" /\ Verifies(s, sig, key) -> "valid"
    [] OTHER -> "error"
op_checksig_tapscript(s, result, verify) ==
  CASE result = "error" -> Failed
    [] result = "empty" -> IF verify THEN Failed ELSE push(s, bool_encode(FALSE))
    [] result = "valid" -> IF verify THEN s ELSE push(s, bool_encode(TRUE))
op_checksig(ctx, flags, s, verify) ==
  IF ctx.ver = "tap"
  THEN op_checksig_tapscript(Spent(Drop(s, 2), Peek(s, 2), Peek(s, 1)),
         tapscript_sig_result(Spent(s, Peek(s, 2), Peek(s, 1)), Peek(s, 2), Peek(s, 1)), verify)
  ELSE checksig_legacy(ctx, flags, Drop(s, 2), Peek(s, 2), Peek(s, 1), verify)
AddResult(s, n, result) ==
  CASE result = "error" -> Failed
    [] result = "empty" -> push(s, scriptnum_encode(n))
    [] result = "valid" -> push(s, scriptnum_encode(n + 1))
op_checksigadd(ctx, flags, s) ==
  IF ctx.ver # "tap" \/ ~decode_i64(flags, Peek(s, 2)) THEN Failed
  ELSE AddResult(Spent(Drop(s, 3), Peek(s, 3), Peek(s, 1)), Peek(s, 2).v,
         tapscript_sig_result(Spent(s, Peek(s, 3), Peek(s, 1)), Peek(s, 3), Peek(s, 1)))

(* The pairing loop: signatures and keys from the top; a key is used once; *)
(* it stops when more signatures than keys are left.                       *)
Pairing(sigs) == [left |-> sigs, ok |-> TRUE, err |-> FALSE]
PairOne(ctx, flags, s, a, key, keysAfter) ==
  IF a.err \/ ~a.ok \/ a.left = << >> THEN a
  ELSE IF ~checksig_legacy_encodings(flags, ctx.ver, Head(a.left), key) THEN [a EXCEPT !.err = TRUE]
  ELSE IF Verifies(s, Head(a.left), key) THEN [a EXCEPT !.left = Tail(@)]
  ELSE [a EXCEPT !.ok = Len(a.left) <= keysAfter]
PairOneReuses(ctx, flags, s, a, key, keysAfter) ==
  IF a.err \/ ~a.ok \/ a.left = << >> THEN a
  ELSE IF ~checksig_legacy_encodings(flags, ctx.ver, Head(a.left), key) THEN [a EXCEPT !.err = TRUE]
  ELSE IF Verifies(s, Head(a.left), key)
  THEN [a EXCEPT !.left = SelectSeq(Tail(@), LAMBDA g : ~Verifies(s, g, key))]
  ELSE [a EXCEPT !.ok = Len(a.left) <= keysAfter]
checkmultisig_pairsReuses(ctx, flags, s, sigs, keys) ==
  FoldLeft(LAMBDA a, i : PairOneReuses(ctx, flags, s, a, keys[i], Len(keys) - i),
           Pairing(sigs), [i \in 1..Len(keys) |-> i])
checkmultisig_pairs(ctx, flags, s, sigs, keys) ==
  FoldLeft(LAMBDA a, i : PairOne(ctx, flags, s, a, keys[i], Len(keys) - i),
           Pairing(sigs), [i \in 1..Len(keys) |-> i])

(* n keys under their number, m signatures under theirs, and the dummy. *)
KeyCount(flags, s) ==
  /\ decode_i64(flags, Peek(s, 1))
  /\ Peek(s, 1).v \in 0..MAX_PUBKEYS_PER_MULTISIG
  /\ s.ops + Peek(s, 1).v <= MAX_OPS_LEGACY
  /\ Len(s.stack) >= Peek(s, 1).v + 2
SigCount(flags, s, n) ==
  /\ decode_i64(flags, Peek(s, n + 2))
  /\ Peek(s, n + 2).v \in 0..n
  /\ Len(s.stack) >= n + 3 + Peek(s, n + 2).v
KeysOf(s, n) == [i \in 1..n |-> Peek(s, i + 1)]
SigsOf(s, n, m) == [i \in 1..m |-> Peek(s, n + 2 + i)]
MultisigEnd(ctx, flags, s, sigs, dummy, pairs, verify) ==
  IF \/ ~IsEmpty(dummy) /\ "null_dummy" \in flags
     \/ ~legacy_script_code(ctx, flags, ToSet(sigs))
     \/ pairs.err
     \/ NullFails(flags, pairs.ok, ToSet(sigs))
     \/ verify /\ ~pairs.ok
  THEN Failed
  ELSE IF verify THEN s ELSE push(s, bool_encode(pairs.ok))
MultisigRun(ctx, flags, s, n, m, verify) ==
  MultisigEnd(ctx, flags, [Drop(s, n + m + 3) EXCEPT !.ops = @ + n], SigsOf(s, n, m),
              Peek(s, n + m + 3),
              checkmultisig_pairs(ctx, flags, s, SigsOf(s, n, m), KeysOf(s, n)), verify)
op_checkmultisig(ctx, flags, s, verify) ==
  IF ctx.ver = "tap" \/ ~KeyCount(flags, s) THEN Failed
  ELSE IF ~SigCount(flags, s, Peek(s, 1).v) THEN Failed
  ELSE MultisigRun(ctx, flags, s, Peek(s, 1).v, Peek(s, Peek(s, 1).v + 2).v, verify)

(* Locks.  A sequence or a CSV operand has a two-bit field, a type bit and *)
(* a disable bit; higher bits of the operand are cut by the u32.           *)
LockField(n) == n % 4
LockType(n) == (n \div 4) % 2
LockDisabled(n) == (n \div 8) % 2 = 1
SEQUENCE_FINAL == 15
Cltv(ctx, flags, s) ==
  IF "bip65" \notin flags THEN s
  ELSE IF /\ s.stack # << >>
          /\ decode_wide(flags, Peek(s, 1))
          /\ Peek(s, 1).v >= 0
          /\ (Peek(s, 1).v >= ScTime) = (ctx.lock >= ScTime)
          /\ Peek(s, 1).v <= ctx.lock
          /\ ctx.seq # SEQUENCE_FINAL
  THEN s ELSE Failed
sequence_csv_ok(seq, csv) ==
  ~LockDisabled(seq) /\ LockType(seq) = LockType(csv) /\ LockField(csv) <= LockField(seq)
Csv(ctx, flags, s) ==
  IF "bip112" \notin flags THEN s
  ELSE IF s.stack = << >> THEN Failed
  ELSE IF ~decode_wide(flags, Peek(s, 1)) \/ Peek(s, 1).v < 0 THEN Failed
  ELSE IF LockDisabled(Peek(s, 1).v) THEN s
  ELSE IF ctx.v2 /\ sequence_csv_ok(ctx.seq, Peek(s, 1).v) THEN s ELSE Failed

(* IF, NOTIF, ELSE and ENDIF, in executed and in skipped branches. *)
minimal_if(ctx, flags) == ctx.ver = "tap" \/ ("minimal_if" \in flags /\ ctx.ver = "v0")
Branch(ctx, flags, s, op) ==
  IF ~all_true(s) THEN cond_push(s, FALSE)
  ELSE IF s.stack = << >> THEN Failed
  ELSE IF minimal_if(ctx, flags) /\ ~is_minimal_if_arg(Peek(s, 1)) THEN Failed
  ELSE cond_push(Drop(s, 1), read_scriptbool(Peek(s, 1)) = (op = "OP_IF"))
Conditional(ctx, flags, s, op) ==
  CASE op \in {"OP_IF", "OP_NOTIF"} -> Branch(ctx, flags, s, op)
    [] op = "OP_ELSE" -> IF s.size = 0 THEN Failed ELSE toggle_top(s)
    [] op = "OP_ENDIF" -> IF s.size = 0 THEN Failed ELSE cond_pop(s)
Conditionals == {"OP_IF", "OP_NOTIF", "OP_ELSE", "OP_ENDIF"}

(* The opcodes that run in an executed branch only. *)
Execute(ctx, flags, s, op) ==
  IF Lacks(s, op) THEN Failed
  ELSE CASE op \in Moves -> Move(flags, s, op)
    [] op \in DOMAIN Unary \cup Binary \cup {"OP_WITHIN"} -> Arith(flags, s, op)
    [] op = "OP_NOP" -> s
    [] op = "OP_VERIFY" -> IF read_scriptbool(Peek(s, 1)) THEN Drop(s, 1) ELSE Failed
    [] op = "OP_SIZE" -> push(s, scriptnum_encode(IF IsEmpty(Peek(s, 1)) THEN 0 ELSE 1))
    [] op = "OP_EQUAL" -> push(Drop(s, 2), bool_encode(Peek(s, 1) = Peek(s, 2)))
    [] op = "OP_EQUALVERIFY" -> IF Peek(s, 1) = Peek(s, 2) THEN Drop(s, 2) ELSE Failed
    [] op \in {"OP_HASH160", "OP_SHA256"} ->
         IF s.stack = << >> THEN Failed ELSE push(Drop(s, 1), Digest(op, Peek(s, 1)))
    [] op = "OP_CODESEPARATOR" -> [s EXCEPT !.sep = s.pos]
    [] op = "OP_CHECKSIG" -> op_checksig(ctx, flags, s, FALSE)
    [] op = "OP_CHECKSIGVERIFY" -> op_checksig(ctx, flags, s, TRUE)
    [] op = "OP_CHECKSIGADD" -> op_checksigadd(ctx, flags, s)
    [] op = "OP_CHECKMULTISIG" -> op_checkmultisig(ctx, flags, s, FALSE)
    [] op = "OP_CHECKMULTISIGVERIFY" -> op_checkmultisig(ctx, flags, s, TRUE)
    [] op = "OP_CHECKLOCKTIMEVERIFY" -> Cltv(ctx, flags, s)
    [] op = "OP_CHECKSEQUENCEVERIFY" -> Csv(ctx, flags, s)
    [] OTHER -> Failed

(* An opcode, once counted: conditionals first, then what fails even in a  *)
(* skipped branch.                                                         *)
Opcode(ctx, flags, s, op) ==
  IF op \in Conditionals THEN Conditional(ctx, flags, s, op)
  ELSE IF \/ op = "OP_VERIF"
          \/ op = "disabled" /\ ctx.ver # "tap"
          \/ op = "OP_CODESEPARATOR" /\ "const_scriptcode" \in flags /\ ctx.ver = "base"
  THEN Failed
  ELSE IF all_true(s) THEN Execute(ctx, flags, s, op) ELSE s

PushBytes(flags, s, ins) ==
  IF ins.el.t = "big" THEN Failed
  ELSE IF ~all_true(s) THEN s
  ELSE IF "minimal_data" \in flags /\ ~ins.min THEN Failed
  ELSE push(s, ins.el)

Counted(ctx, ins) == ctx.ver # "tap" /\ ins.op \notin {"OP_RESERVED", "OP_N"}
Dispatch(ctx, flags, s, ins) ==
  CASE ins.op = "push" -> PushBytes(flags, s, ins)
    [] ins.op = "OP_N" -> IF all_true(s) THEN push(s, ins.el) ELSE s
    [] Counted(ctx, ins) ->
         IF s.ops + 1 > MAX_OPS_LEGACY THEN Failed
         ELSE Opcode(ctx, flags, [s EXCEPT !.ops = @ + 1], ins.op)
    [] OTHER -> Opcode(ctx, flags, s, ins.op)

(* One instruction of eval_script. *)
Step(ctx, flags, s, ins) ==
  IF s.st # "run" THEN s ELSE Dispatch(ctx, flags, [s EXCEPT !.pos = @ + 1], ins)

(* The end of the script: every conditional closed. *)
Finish(s) ==
  CASE s.st = "success" -> s
    [] s.st = "run" /\ s.size = 0 -> [s EXCEPT !.st = "ok"]
    [] OTHER -> Failed

(* apply_job_flags, and the checks before the first instruction: a script  *)
(* with an OP_SUCCESS succeeds; a tapscript stack is within its limits.    *)
apply_job_flags(flags) ==
  flags \cup (IF flags \cap {"low_s", "strictenc"} # {} THEN {"bip66"} ELSE {})
Start(ctx, stack) ==
  IF ctx.ver = "tap" /\ ctx.success THEN [NewRun(stack, 0) EXCEPT !.st = "success"]
  ELSE IF ctx.ver = "tap" /\ Len(stack) > MAX_STACK_SIZE THEN Failed
  ELSE NewRun(stack, IF ctx.ver = "tap" THEN ctx.weight ELSE 0)

-----------------------------------------------------------------------------
(***************************************************************************)
(* A run of eval_script, instruction by instruction (ScriptOps), over any  *)
(* program of a scene.  Two runs of one program go in step, one with the   *)
(* flags of ctx.strict and one with those of ctx.lax.                      *)
(***************************************************************************)

CONSTANT ScScenes      \* contexts, initial stacks, instructions and lengths

VARIABLES scScene,     \* the scene: ctx, the instructions and the length
          scStrict,    \* the run with the strict flags
          scLax,       \* the run with the lax flags
          scIns,       \* the last instruction of both
          scConds,     \* history: the condition values, innermost last
          scSigs       \* history: non-empty signatures checked

scVars == <<scScene, scStrict, scLax, scIns, scConds, scSigs>>

ScStart(scene, ctx, stack) ==
  /\ scScene = [ctx |-> [ctx EXCEPT !.strict = apply_job_flags(@), !.lax = apply_job_flags(@)],
                program |-> scene.program, len |-> scene.len, depth |-> Len(stack)]
  /\ scStrict = Start(ctx, stack)
  /\ scLax = Start(ctx, stack)
  /\ scIns = [op |-> "none", el |-> scriptnum_encode(0), min |-> TRUE]
  /\ scConds = << >>
  /\ scSigs = 0
ScInit == \E scene \in ScScenes : \E ctx \in scene.ctxs, stack \in scene.stacks : ScStart(scene, ctx, stack)

(* The condition values, as a list with one entry per open IF. *)
CondsAfter(s, r, ins) ==
  CASE r.st = "err" -> scConds
    [] ins.op \in {"OP_IF", "OP_NOTIF"} -> Append(scConds, all_true(s) /\ all_true(r))
    [] ins.op = "OP_ELSE" -> [scConds EXCEPT ![Len(scConds)] = ~@]
    [] ins.op = "OP_ENDIF" -> Front(scConds)
    [] OTHER -> scConds
SigsAfter(s, r, ins) ==
  scSigs + IF /\ scScene.ctx.ver = "tap" /\ r.st # "err" /\ all_true(s)
              /\ \/ ins.op \in {"OP_CHECKSIG", "OP_CHECKSIGVERIFY"} /\ ~IsEmpty(Peek(s, 2))
                 \/ ins.op = "OP_CHECKSIGADD" /\ ~IsEmpty(Peek(s, 3))
           THEN 1 ELSE 0

(* A tapscript that runs holds no OP_SUCCESS, so none of the opcodes that  *)
(* are disabled elsewhere.                                                 *)
MayHold(ctx, ins) == ctx.ver = "tap" => ins.op # "disabled"

ScStep ==
  /\ scLax.st = "run" /\ scLax.pos < scScene.len
  /\ \E ins \in {i \in scScene.program : MayHold(scScene.ctx, i)} :
       \E r \in {Step(scScene.ctx, scScene.ctx.lax, scLax, ins)} :
         /\ scLax' = r
         /\ scStrict' = Step(scScene.ctx, scScene.ctx.strict, scStrict, ins)
         /\ scIns' = ins
         /\ scConds' = CondsAfter(scLax, r, ins)
         /\ scSigs' = SigsAfter(scLax, r, ins)
  /\ UNCHANGED scScene

ScEnd ==
  /\ scLax.st = "run"
  /\ scLax' = Finish(scLax)
  /\ scStrict' = Finish(scStrict)
  /\ scIns' = [scIns EXCEPT !.op = "none"]
  /\ UNCHANGED <<scScene, scConds, scSigs>>

ScNext == ScStep \/ ScEnd

(* Properties *)

(* ConditionStack keeps only its depth and the first false entry; it tells *)
(* the executing branches apart exactly as the list of all the values does *)
(* (nested, toggled and skipped conditionals alike).                       *)
CondMatches ==
  scLax.st = "run" =>
    /\ scLax.size = Len(scConds)
    /\ all_true(scLax) = (\A i \in 1..Len(scConds) : scConds[i])

(* Main and alt stack together stay within MAX_STACK_SIZE, or within the   *)
(* depth they started with when a witness brought more (witness v0 items   *)
(* are not counted before the script runs).                                *)
StackBounded ==
  Len(scLax.stack) + Len(scLax.alt) <=
    IF scScene.depth > MAX_STACK_SIZE THEN scScene.depth ELSE MAX_STACK_SIZE

(* Flags only restrict: a program the strict flags let go on has, under    *)
(* the lax flags, gone on to the very same state.                          *)
FlagsOnlyRestrict == scStrict.st # "err" => scLax = scStrict

(* The budget paid for every non-empty signature of a tapscript: so many   *)
(* checks fit into the witness weight, and no more.                        *)
BudgetCovers ==
  (scScene.ctx.ver = "tap" /\ scLax.st \in {"run", "ok"}) =>
    scSigs * ScPerSig <= scScene.ctx.weight

(* What each opcode leaves of the top elements, deepest first. *)
Leaves ==
  [OP_2DUP |-> <<1, 2, 1, 2>>, OP_3DUP |-> <<1, 2, 3, 1, 2, 3>>, OP_2OVER |-> <<1, 2, 3, 4, 1, 2>>,
   OP_2ROT |-> <<3, 4, 5, 6, 1, 2>>, OP_2SWAP |-> <<3, 4, 1, 2>>, OP_DUP |-> <<1, 1>>,
   OP_NIP |-> <<2>>, OP_OVER |-> <<1, 2, 1>>, OP_ROT |-> <<2, 3, 1>>, OP_SWAP |-> <<2, 1>>,
   OP_TUCK |-> <<2, 1, 2>>, OP_DROP |-> << >>, OP_2DROP |-> << >>]
AsDocumented(stack, op) ==
  SubSeq(stack, 1, Len(stack) - Takes[op])
    \o [i \in 1..Len(Leaves[op]) |-> stack[Len(stack) - Takes[op] + Leaves[op][i]]]

(* Every opcode that moves elements, written with pushes, removals and     *)
(* swaps, leaves the order its definition gives, and what lies below it.   *)
MovesExact ==
  (scIns'.op \in DOMAIN Leaves /\ scLax'.st = "run" /\ all_true(scLax) /\ scLax'.pos > scLax.pos) =>
     scLax'.stack = AsDocumented(scLax.stack, scIns'.op)

(* A list of signatures pairs with a list of keys, in order. *)
PairsInOrder(s, sigs, keys) ==
  \E f \in [1..Len(sigs) -> 1..Len(keys)] :
    /\ \A i \in 1..Len(sigs) : Verifies(s, sigs[i], keys[f[i]])
    /\ \A i, j \in 1..Len(sigs) : i < j => f[i] < f[j]

(* The multisig loop, which drops a key at every turn and gives up early,  *)
(* answers true exactly when some order-preserving choice of keys verifies *)
(* all the signatures.                                                     *)
MultisigExact ==
  (scIns'.op = "OP_CHECKMULTISIG" /\ scLax'.st = "run" /\ all_true(scLax) /\ scLax'.pos > scLax.pos) =>
     \E n \in {Peek(scLax, 1).v} : \E m \in {Peek(scLax, n + 2).v} :
       read_scriptbool(Peek(scLax', 1)) = PairsInOrder(scLax, SigsOf(scLax, n, m), KeysOf(scLax, n))

-----------------------------------------------------------------------------
(***************************************************************************)
(* Verification of the inputs of a transaction                             *)
(* (rbitcoin-consensus/src/script/mod.rs, p2pkh.rs, p2wpkh.rs, p2wsh.rs,   *)
(* nested.rs, p2tr.rs, classify.rs): which of the typed paths or of the    *)
(* interpreter decides an input, from the output it spends, its scriptSig, *)
(* its witness and the flags of the job.                                   *)
(*                                                                         *)
(* A script is a sequence of instructions of ScriptOps.  An output has a  *)
(* kind; the hash of a redeem or witness script is the Digest of the       *)
(* element that names it in SvScripts.                                     *)
(***************************************************************************)

CONSTANTS SvScripts,   \* redeem scripts, witness scripts and tap leaves
          SvInputs,    \* inputs: output, scriptSig, witness
          SvPairs,     \* inputs that make up transactions of two inputs
          SvFlags,     \* the flag sets of the jobs
          SvOffset     \* TAPSCRIPT_VALIDATION_WEIGHT_OFFSET

VARIABLES svTx,        \* the inputs of the job
          svJob,       \* its flags
          svOk         \* "none", or the verdict

svVars == <<svTx, svJob, svOk>>

Ins(op) == [op |-> op, el |-> scriptnum_encode(0), min |-> TRUE]
PushIns(e) == [op |-> "push", el |-> e, min |-> TRUE]
NumIns(n) == [op |-> "OP_N", el |-> scriptnum_encode(n), min |-> TRUE]
(* The instructions of an output script, by its kind. *)
Template(spk) ==
  CASE spk.kind = "p2pkh" ->
         <<Ins("OP_DUP"), Ins("OP_HASH160"), PushIns(spk.commit), Ins("OP_EQUALVERIFY"),
           Ins("OP_CHECKSIG")>>
    [] spk.kind = "p2sh" -> <<Ins("OP_HASH160"), PushIns(spk.commit), Ins("OP_EQUAL")>>
    [] spk.kind = "program" ->
         <<IF spk.ver = 0 THEN PushIns(scriptnum_encode(0)) ELSE NumIns(spk.ver), PushIns(spk.commit)>>
    [] spk.kind = "bare" -> spk.code

(* classify::witness_program, and is_anyone_can_spend. *)
witness_program(spk) == spk.kind = "program"
is_anyone_can_spend(spk) == spk.kind = "bare" /\ spk.code = <<NumIns(1)>>

(* EvalContext::from_job, for one script of one input. *)
from_job(in, ver, script, success) ==
  [ver |-> ver, embeds |-> {script[i].el : i \in {j \in 1..Len(script) : script[j].op = "push"}},
   lock |-> 0, seq |-> 0, v2 |-> TRUE, weight |-> SvOffset + Len(in.witness), success |-> success]
RunAll(ctx, job, start, script) ==
  Finish(FoldLeft(LAMBDA s, ins : Step(ctx, apply_job_flags(job), s, ins), start, script))
eval_script(in, job, ver, spk, stack) ==
  RunAll(from_job(in, ver, Template(spk), spk.success), job,
         Start(from_job(in, ver, Template(spk), spk.success), stack), Template(spk))

require_clean_true(s) == s.st # "err" /\ Len(s.stack) = 1 /\ read_scriptbool(s.stack[1])
require_true_top(s) == s.st # "err" /\ s.stack # << >> /\ read_scriptbool(Last(s.stack))
Ends(job, s) == IF "cleanstack" \in job THEN require_clean_true(s) ELSE require_true_top(s)

(* A scriptSig runs as a script of its own before the output script. *)
SigScript(in) == [kind |-> "bare", code |-> in.script_sig, success |-> FALSE]
AfterSig(in, job) ==
  IF in.script_sig = << >> THEN [NewRun(<< >>, 0) EXCEPT !.st = "ok"]
  ELSE eval_script(in, job, "base", SigScript(in), << >>)
verify_bare(in, job) ==
  /\ AfterSig(in, job).st = "ok"
  /\ Ends(job, eval_script(in, job, "base", in.spk, AfterSig(in, job).stack))

needs_interpreted_ecdsa(job) == job \cap {"low_s", "strictenc", "nullfail"} # {}

(* parse_der_sig, parse_pubkey and verify_ecdsa on a typed path. *)
TypedEcdsa(job, sig, key) ==
  /\ ~IsEmpty(sig)
  /\ "bip66" \in job => SigDer(sig)
  /\ Verifies(NewRun(<< >>, 0), sig, key)

(* p2pkh::verify.  Two data pushes of legal size; any other shape is left  *)
(* to the interpreter.                                                     *)
parse_two_pushes(in) ==
  /\ Len(in.script_sig) = 2
  /\ \A i \in 1..2 : in.script_sig[i].op = "push" /\ in.script_sig[i].el.t # "big"
p2pkh_verify(in, job) ==
  /\ Digest("OP_HASH160", in.script_sig[2].el) = in.spk.commit
  /\ TypedEcdsa(job, in.script_sig[1].el, in.script_sig[2].el)
VerifyP2pkh(in, job) ==
  IF needs_interpreted_ecdsa(job) \/ ~parse_two_pushes(in) THEN verify_bare(in, job)
  ELSE p2pkh_verify(in, job)

(* p2wpkh: the typed path, and the one through the interpreter. *)
witness_pair(in) == Len(in.witness) = 2
check_element_sizes(in) == \A i \in 1..Len(in.witness) : in.witness[i].t # "big"
p2wpkh_verify(in, job, keyhash) ==
  /\ witness_pair(in)
  /\ check_element_sizes(in)
  /\ Digest("OP_HASH160", in.witness[2]) = keyhash
  /\ "witness_pubkeytype" \in job => in.witness[2].x = "comp"
  /\ TypedEcdsa(job, in.witness[1], in.witness[2])

(* p2wsh::execute_witness_v0. *)
execute_witness_v0(in, job, spk, items) ==
  /\ \A i \in 1..Len(items) : items[i].t # "big"
  /\ require_clean_true(eval_script(in, job, "v0", spk, items))
verify_interpreted(in, job, keyhash) ==
  /\ witness_pair(in)
  /\ execute_witness_v0(in, job, [kind |-> "p2pkh", commit |-> keyhash, success |-> FALSE], in.witness)
ScriptOf(e) == IF e.t = "redeem" THEN SvScripts[e.v] ELSE [kind |-> "bare", code |-> <<Ins("OP_RESERVED")>>, success |-> FALSE]
verify_with_scripthash(in, job, scripthash) ==
  /\ in.witness # << >>
  /\ Digest("OP_SHA256", Last(in.witness)) = scripthash
  /\ execute_witness_v0(in, job, ScriptOf(Last(in.witness)), Front(in.witness))

(* p2tr: the key path, and the script path with its control block. *)
bip341_annex(in) == Len(in.witness) >= 2 /\ Last(in.witness).t = "annex"
TapItems(in) == IF bip341_annex(in) THEN Front(in.witness) ELSE in.witness
verify_key_path(in) ==
  in.witness[1].x = "schnorr" /\ Verifies(NewRun(<< >>, 0), in.witness[1], in.spk.commit)
verify_control_commitment(in, control, script) ==
  control.t = "control" /\ control.x # "short" /\ control.v = script.v /\ control.at = in.spk.commit.v
TapExecute(in, job, s) == s.st = "success" \/ require_clean_true(s)
verify_script_path(in, job, items) ==
  /\ Len(items) >= 2
  /\ verify_control_commitment(in, items[Len(items)], items[Len(items) - 1])
  /\ \/ items[Len(items)].x # "leaf"
     \/ TapExecute(in, job, eval_script(in, job, "tap", ScriptOf(items[Len(items) - 1]),
                                        SubSeq(items, 1, Len(items) - 2)))
p2tr_verify(in, job) ==
  /\ in.witness # << >>
  /\ IF Len(TapItems(in)) = 1 THEN verify_key_path(in) ELSE verify_script_path(in, job, TapItems(in))

(* verify_native_witness and the dispatch of try_p2sh_nested_segwit. *)
Version0(in, job, prog) ==
  CASE prog.len = 20 /\ needs_interpreted_ecdsa(job) -> verify_interpreted(in, job, prog.commit)
    [] prog.len = 20 -> p2wpkh_verify(in, job, prog.commit)
    [] prog.len = 32 -> verify_with_scripthash(in, job, prog.commit)
    [] OTHER -> FALSE
PAY_TO_ANCHOR(prog) == prog.ver = 1 /\ prog.len = 2
verify_native_witnessSkipsFalse(in, job) ==
  /\ in.script_sig = << >>
  /\ CASE in.spk.ver = 0 -> Version0(in, job, in.spk)
       [] in.spk.ver = 1 /\ in.spk.len = 32 -> ("taproot" \in job => p2tr_verify(in, job))
       [] PAY_TO_ANCHOR(in.spk) -> TRUE
       [] OTHER -> "discourage" \notin job
verify_native_witness(in, job) ==
  /\ in.script_sig = << >>
  /\ read_scriptbool(in.spk.commit)
  /\ CASE in.spk.ver = 0 -> Version0(in, job, in.spk)
       [] in.spk.ver = 1 /\ in.spk.len = 32 -> ("taproot" \in job => p2tr_verify(in, job))
       [] PAY_TO_ANCHOR(in.spk) -> TRUE
       [] OTHER -> "discourage" \notin job

(* P2SH.  The scriptSig leaves room for the hash and only pushes. *)
is_push_only(script) == \A i \in 1..Len(script) : script[i].op \in {"push", "OP_N", "OP_RESERVED"}
p2sh_script_sig_stack(in, s) ==
  s.st = "ok" /\ Len(s.stack) < MAX_STACK_SIZE /\ is_push_only(in.script_sig)
minimal_push_encoding(in, redeem) == in.script_sig = <<PushIns(redeem)>>
check_p2sh_redeem_hash(in, redeem) == Digest("OP_HASH160", redeem) = in.spk.commit
Nested(in, job, redeem) ==
  /\ minimal_push_encoding(in, redeem)
  /\ check_p2sh_redeem_hash(in, redeem)
  /\ read_scriptbool(ScriptOf(redeem).commit)
  /\ IF ScriptOf(redeem).ver = 0 THEN Version0(in, job, ScriptOf(redeem)) ELSE "discourage" \notin job
verify_p2sh_legacy(in, job, stack) ==
  /\ stack # << >>
  /\ check_p2sh_redeem_hash(in, Last(stack))
  /\ Ends(job, eval_script(in, job, "base", ScriptOf(Last(stack)), Front(stack)))
VerifyP2shOn(in, job, s) ==
  /\ p2sh_script_sig_stack(in, s)
  /\ IF "witness" \in job /\ s.stack # << >> /\ witness_program(ScriptOf(Last(s.stack)))
     THEN Nested(in, job, Last(s.stack))
     ELSE /\ ~("witness" \in job /\ in.witness # << >>)
          /\ verify_p2sh_legacy(in, job, s.stack)
VerifyP2sh(in, job) ==
  IF "bip16" \notin job THEN verify_bare(in, job)
  ELSE VerifyP2shOn(in, job, eval_script(in, job, "base", SigScript(in), << >>))

Unexpected(in, job) ==
  "witness" \in job /\ in.witness # << >> /\ ~(in.spk.kind = "p2sh" /\ "bip16" \in job)
verify_input(in, job) ==
  IF "witness" \in job /\ witness_program(in.spk) THEN verify_native_witness(in, job)
  ELSE /\ ~Unexpected(in, job)
       /\ CASE in.spk.kind = "p2pkh" -> VerifyP2pkh(in, job)
            [] in.spk.kind = "p2sh" -> VerifyP2sh(in, job)
            [] OTHER -> verify_bare(in, job)

(* verify_job_all_inputs: nothing runs while every input is spendable by   *)
(* anyone without data; the first one that is not runs them all.           *)
pure_anyone_can_spend(in) ==
  in.script_sig = << >> /\ in.witness = << >> /\ is_anyone_can_spend(in.spk)
verify_loaded_inputs(tx, job) == \A i \in 1..Len(tx) : verify_input(tx[i], job)
verify_job_all_inputs(tx, job) ==
  \/ \A i \in 1..Len(tx) : pure_anyone_can_spend(tx[i])
  \/ verify_loaded_inputs(tx, job)

SvTxs == {<<a>> : a \in SvInputs} \cup {<<a, b>> : a, b \in SvPairs}

SvStart(tx, job) == svTx = tx /\ svJob = job /\ svOk = "none"
SvInit == \E tx \in SvTxs, job \in SvFlags : SvStart(tx, job)

SvCheck == /\ svOk = "none"
           /\ svOk' = IF verify_job_all_inputs(svTx, svJob) THEN "ok" ELSE "err"
           /\ UNCHANGED <<svTx, svJob>>

SvNext == SvCheck

(* Properties *)

(* The typed paths for P2PKH and P2WPKH accept exactly what the            *)
(* interpreter accepts for the same input, whatever the shape of its       *)
(* scriptSig or witness.                                                   *)
FastPathAgrees ==
  (svOk # "none" /\ Len(svTx) = 1 /\ ~needs_interpreted_ecdsa(svJob)) =>
    /\ (svTx[1].spk.kind = "p2pkh" /\ svTx[1].witness = << >>) =>
         (svOk = "ok") = verify_bare(svTx[1], svJob)
    /\ (svTx[1].spk.kind = "program" /\ svTx[1].spk.ver = 0 /\ svTx[1].spk.len = 20
          /\ svTx[1].script_sig = << >> /\ "witness" \in svJob) =>
         (svOk = "ok") = verify_interpreted(svTx[1], svJob, svTx[1].spk.commit)

(* Forks only restrict: what passes with more rules active passes with     *)
(* fewer, through whichever path each of the two sets of rules selects.    *)
ForksOnlyRestrict ==
  (svOk = "ok" /\ "cleanstack" \notin svJob) =>
    \A job \in SvFlags : job \subseteq svJob => verify_job_all_inputs(svTx, job)

(* A witness passes only where a program consumed it, with nothing beside  *)
(* the program in the scriptSig.                                           *)
WitnessConsumed ==
  (svOk = "ok" /\ "witness" \in svJob) =>
    \A i \in 1..Len(svTx) : svTx[i].witness # << >> =>
      \/ witness_program(svTx[i].spk) /\ svTx[i].script_sig = << >>
      \/ /\ svTx[i].spk.kind = "p2sh" /\ Len(svTx[i].script_sig) = 1
         /\ witness_program(ScriptOf(svTx[i].script_sig[1].el)) /\ svTx[i].script_sig[1].min

(* A job passes exactly when each of its inputs passes alone: the          *)
(* anyone-can-spend shortcut decides nothing the inputs would not.         *)
JobIsEveryInput ==
  svOk # "none" => (svOk = "ok") = (\A i \in 1..Len(svTx) : verify_input(svTx[i], svJob))

-----------------------------------------------------------------------------
(***************************************************************************)
(* The byte walks of the script interpreter                                *)
(* (rbitcoin-consensus/src/script/interpreter.rs): the scan for OP_SUCCESS,*)
(* instruction_end, encode_push, and the walk that deletes signatures and  *)
(* separators from a legacy script code.                                   *)
(*                                                                         *)
(* Bytes are scaled down: the direct pushes are 1..SbDirect, PUSHDATA1 and *)
(* PUSHDATA2 follow (PUSHDATA4 is a third of the same form), then the      *)
(* separator, an OP_SUCCESS and an ordinary opcode.  A length byte counts  *)
(* as its value, so a payload may hold bytes that look like opcodes.       *)
(***************************************************************************)

CONSTANTS SbDirect,    \* OP_PUSHBYTES_75
          SbLen,       \* the longest script
          SbData       \* signatures: sequences of bytes

VARIABLES sbScript, sbSigs, sbCode, sbSuccess

sbVars == <<sbScript, sbSigs, sbCode, sbSuccess>>

OP_PUSHDATA1 == SbDirect + 1
OP_PUSHDATA2 == SbDirect + 2
OP_CODESEPARATOR == SbDirect + 3
OP_SUCCESS == SbDirect + 4
OP_PLAIN == SbDirect + 5
SbBytes == 0..OP_PLAIN

(* A two-byte length, low byte first. *)
Le16(a, b) == a + b * (OP_PLAIN + 1)
AtMost(n, m) == IF n < m THEN n ELSE m

(* The index after the instruction at i; 0 when its length is cut off.  A  *)
(* short payload ends with the script.                                     *)
instruction_end(script, i) ==
  CASE script[i] \in 1..SbDirect -> AtMost(i + 1 + script[i], Len(script) + 1)
    [] script[i] = OP_PUSHDATA1 ->
         IF i + 1 > Len(script) THEN 0 ELSE AtMost(i + 2 + script[i + 1], Len(script) + 1)
    [] script[i] = OP_PUSHDATA2 ->
         IF i + 2 > Len(script) THEN 0
         ELSE AtMost(i + 3 + Le16(script[i + 1], script[i + 2]), Len(script) + 1)
    [] OTHER -> i + 1

SkipPush(script, i) ==
  CASE script[i] \in 1..SbDirect -> i + 1 + script[i]
    [] script[i] = OP_PUSHDATA1 -> IF i + 1 > Len(script) THEN Len(script) + 1 ELSE i + 2 + script[i + 1]
    [] script[i] = OP_PUSHDATA2 ->
         IF i + 2 > Len(script) THEN Len(script) + 1 ELSE i + 3 + Le16(script[i + 1], script[i + 2])
    [] OTHER -> i + 1
is_op_success(op) == op = OP_SUCCESS
tapscript_has_op_success(script) ==
  LET from[i \in 1..(Len(script) + 1)] ==
        IF i > Len(script) THEN FALSE
        ELSE \/ is_op_success(script[i])
             \/ SkipPush(script, i) <= Len(script) /\ from[SkipPush(script, i)]
  IN from[1]

encode_push(data) ==
  IF Len(data) <= SbDirect THEN <<Len(data)>> \o data
  ELSE <<OP_PUSHDATA1, Len(data)>> \o data

starts_with(script, i, needle) ==
  i + Len(needle) - 1 <= Len(script) /\ SubSeq(script, i, i + Len(needle) - 1) = needle

Kept(script, needles, i, rest, e) ==
  IF e = 0 THEN <<script[i]>>
  ELSE (IF script[i] = OP_CODESEPARATOR THEN << >> ELSE SubSeq(script, i, e - 1)) \o rest[e]
legacy_script_code_needles(script, needles) ==
  LET from[i \in 1..(Len(script) + 1)] ==
        IF i > Len(script) THEN << >>
        ELSE IF \E n \in needles : starts_with(script, i, n)
        THEN from[i + Len(CHOOSE n \in needles : starts_with(script, i, n))]
        ELSE Kept(script, needles, i, from, instruction_end(script, i))
  IN from[1]

SbStart(script, sigs) == sbScript = script /\ sbSigs = sigs /\ sbCode = <<-1>> /\ sbSuccess = FALSE
SbInit == \E script \in UNION {[1..n -> SbBytes] : n \in 0..SbLen}, sigs \in (SUBSET SbData) \ {{}} :
            SbStart(script, sigs)

(* legacy_script_code and the tapscript scan of one script. *)
SbWalk ==
  /\ sbCode = <<-1>>
  /\ sbCode' = legacy_script_code_needles(sbScript, {encode_push(d) : d \in sbSigs})
  /\ sbSuccess' = tapscript_has_op_success(sbScript)
  /\ UNCHANGED <<sbScript, sbSigs>>

SbNext == SbWalk

(* Properties *)

(* The instructions of a script: where each begins, up to a length that is *)
(* cut off.                                                                *)
Begins(script) ==
  LET from[i \in 1..(Len(script) + 1)] ==
        IF i > Len(script) THEN {}
        ELSE {i} \cup (IF instruction_end(script, i) = 0 THEN {} ELSE from[instruction_end(script, i)])
  IN from[1]
WellFormed(script) == \A i \in Begins(script) : instruction_end(script, i) # 0
Instruction(script, i) == SubSeq(script, i, instruction_end(script, i) - 1)

(* The two walks see the same instructions: the scan answers yes exactly   *)
(* when an opcode, not a payload byte, is an OP_SUCCESS.                   *)
SuccessAtOpcode ==
  sbCode # <<-1>> => sbSuccess = (\E i \in Begins(sbScript) : is_op_success(sbScript[i]))

(* One walk over all signatures leaves what whole instructions compared    *)
(* one by one leave: those that push no signature and are no separator.    *)
OneWalkDeletes ==
  (sbCode # <<-1>> /\ WellFormed(sbScript)) =>
    sbCode = FoldLeft(LAMBDA r, i : IF Instruction(sbScript, i) \in {encode_push(d) : d \in sbSigs}
                                       \/ sbScript[i] = OP_CODESEPARATOR
                                    THEN r ELSE r \o Instruction(sbScript, i),
                      << >>, SetToSortSeq(Begins(sbScript), LAMBDA a, b : a < b))

(* Every shortcut of the interpreter gives the verdict of the rule it stands *)
(* for.                                                                      *)
ScriptSafe ==
    /\ CondMatches
    /\ StackBounded
    /\ FlagsOnlyRestrict
    /\ BudgetCovers
    /\ FastPathAgrees
    /\ ForksOnlyRestrict
    /\ WitnessConsumed
    /\ JobIsEveryInput
    /\ SuccessAtOpcode
    /\ OneWalkDeletes

(* The stack operations and CHECKMULTISIG do what their short definitions *)
(* say.                                                                   *)
ScriptExact == [][MovesExact /\ MultisigExact]_scVars
=============================================================================
