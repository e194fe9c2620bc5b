------------------------------ MODULE MCRules -------------------------------
(* The components that are checked for safety alone: the script            *)
(* interpreter and its pool, block batches, block rules, and the Electrum  *)
(* service. A behaviour runs one of them, the one part names; the others   *)
(* are at rest.                                                            *)
EXTENDS ScriptInterp, ScriptPool, BlockBatch, BlockRules, Electrum

(* Evaluation: branches, stack moves, arithmetic, signatures, tapscript, locks. *)
CtxOf(ver, strict, lax) == [ver |-> ver, strict |-> strict, lax |-> lax, embeds |-> {},
   lock |-> 0, seq |-> 0, v2 |-> TRUE, weight |-> 0, success |-> FALSE]
OpIns(ops) == {[op |-> o, el |-> El("num", 0, "", 0), min |-> TRUE] : o \in ops}
PushOf(els) == {[op |-> "push", el |-> e, min |-> TRUE] : e \in els}
SmallEls == {El("num", 0, "", 0), El("num", 1, "", 0), El("num", 0, "pad", 0)}
Policy == {"bip65", "bip112", "bip66", "minimal_data", "nullfail", "low_s", "strictenc", "null_dummy",
           "minimal_if", "witness_pubkeytype", "const_scriptcode"}
BranchScene == [ctxs |-> {CtxOf(v, Policy, {}) : v \in {"base", "v0", "tap"}} \cup {[CtxOf("tap", {}, {}) EXCEPT !.success = TRUE]},
  stacks |-> {<< >>, [i \in 1..7 |-> El("num", 1, "", 0)]}, len |-> 7,
  program |-> OpIns({"OP_IF", "OP_NOTIF", "OP_ELSE", "OP_ENDIF", "OP_VERIFY", "OP_VERIF", "disabled", "OP_RESERVED"})
     \cup PushOf(SmallEls \cup {El("big", 0, "", 0)})]
MoveScene == [ctxs |-> {CtxOf("v0", Policy, {})},
  stacks |-> {[i \in 1..n |-> El("num", i - 3, IF i = 2 THEN "pad" ELSE "", 0)] : n \in {2, 5, 6, 8}}, len |-> 3,
  program |-> OpIns(Moves \cup {"OP_CODESEPARATOR"}) \cup
     {[op |-> "OP_N", el |-> El("num", 1, "", 0), min |-> TRUE], [op |-> "push", el |-> El("num", 1, "", 0), min |-> FALSE]}]
NumScene == [ctxs |-> {CtxOf("base", Policy, {})},
  stacks |-> {<<El("num", a, "", 0), El("num", b, "pad", 0), El("num", c, "", 0)>> : a \in {-1, 2}, b \in {0, 1}, c \in -1..3}, len |-> 3,
  program |-> OpIns(DOMAIN Unary \cup Binary \cup {"OP_WITHIN", "OP_SIZE", "OP_EQUAL", "OP_EQUALVERIFY", "OP_HASH160", "OP_NOP", "OP_DUP", "OP_SWAP"})]
SigEl(k, x, at) == El("sig", k, x, at)
KeyEl(k, x) == El("key", k, x, 0)
SigScene == [ctxs |-> {[CtxOf(v, Policy, {"null_dummy"}) EXCEPT !.embeds = b] : v \in {"base", "v0"}, b \in {{}, {SigEl(1, "ok", 0)}}},
  stacks |-> {<<d, g, El("num", m, "", 0), k1, k2, El("num", 2, "", 0)>> : d \in {El("num", 0, "", 0), SigEl(2, "ok", 0)}, 
        g \in {SigEl(1, x, at) : x \in {"ok", "der", "highs", "hashtype"}, at \in {0, 1}} \cup {El("num", 0, "", 0), El("num", 1, "", 0)}, m \in {1, 2}, 
        k1 \in {KeyEl(1, "comp"), KeyEl(2, "uncomp")}, k2 \in {KeyEl(1, "comp"), KeyEl(1, "bad"), KeyEl(2, "comp")}}
    \cup {<<El("num", 0, "", 0), SigEl(a, "ok", 0), SigEl(b, "ok", 0), El("num", 2, "", 0), KeyEl(c, "comp"), KeyEl(d, "comp"), KeyEl(e, "comp"), El("num", 3, "", 0)>>
       : a, b \in {1, 2}, c, d, e \in {1, 2}}, len |-> 2,
  program |-> OpIns({"OP_CHECKMULTISIG", "OP_CHECKMULTISIGVERIFY", "OP_CODESEPARATOR", "OP_CHECKSIG", "OP_CHECKSIGVERIFY", "OP_CHECKSIGADD", "OP_2DROP"})]
TapScene == [ctxs |-> {[CtxOf("tap", Policy, {}) EXCEPT !.weight = w] : w \in {2, 3}},
  stacks |-> {<<g, El("num", 1, "", 0), k>> \o r : g \in {SigEl(1, "schnorr", 0), SigEl(1, "schnorr", 1), El("num", 0, "", 0), El("num", 1, "", 0)}, 
       k \in {KeyEl(1, "xonly"), KeyEl(2, "xonly"), KeyEl(1, "comp"), El("num", 0, "", 0)}, r \in {<< >>, <<SigEl(1, "schnorr", 0), KeyEl(1, "xonly")>>, <<SigEl(1, "schnorr", 0), KeyEl(1, "comp")>>}}, len |-> 4,
  program |-> OpIns({"OP_CODESEPARATOR", "OP_CHECKSIG", "OP_CHECKSIGVERIFY", "OP_CHECKSIGADD", "OP_CHECKMULTISIG", "OP_2DUP", "OP_3DUP"})]
LockScene == [ctxs |-> {[CtxOf("v0", {"bip65", "bip112", "minimal_data"}, {}) EXCEPT !.lock = l, !.seq = q, !.v2 = v] : l \in {0, 3, 5}, q \in {1, 2, 5, 8, 15}, v \in BOOLEAN},
  stacks |-> {<<El("num", n, x, 0)>> : n \in {-1, 0, 1, 2, 3, 4, 5, 6, 9, 17, 18}, x \in {"", "pad"}} \cup {<< >>}, len |-> 1,
  program |-> OpIns({"OP_CHECKLOCKTIMEVERIFY", "OP_CHECKSEQUENCEVERIFY"})]
ScriptScenes == {BranchScene, MoveScene, NumScene, SigScene, TapScene, LockScene}

(* Spends: outputs, scriptSigs and witnesses of every kind. *)
SpkOf(kind, ver, len, commit, code) == [kind |-> kind, ver |-> ver, len |-> len, commit |-> commit, code |-> code, success |-> FALSE]
KeyA == El("key", 1, "comp", 0)
SigA == El("sig", 1, "ok", 0)
ZeroPad == El("num", 0, "pad", 0)
HashOf(alg, e) == El("hash", 16 * e.v + PlaceIn(Classes, e.x), alg, PlaceIn(Types, e.t))
WitProg(ver, len, commit) == SpkOf("program", ver, len, commit, << >>)
BareOf(code) == SpkOf("bare", 0, 0, ZeroPad, code)
OneIns == [op |-> "OP_N", el |-> El("num", 1, "", 0), min |-> TRUE]
OpOf(o) == [op |-> o, el |-> El("num", 0, "", 0), min |-> TRUE]
PushEl(e) == [op |-> "push", el |-> e, min |-> TRUE]
CheckSigCode == <<PushEl(KeyA), OpOf("OP_CHECKSIG")>>
ScriptList == <<BareOf(CheckSigCode),
   WitProg(0, 20, HashOf("OP_HASH160", KeyA)),
   WitProg(0, 32, HashOf("OP_SHA256", El("redeem", 1, "", 0))),
   WitProg(2, 32, ZeroPad),
   WitProg(1, 32, El("key", 1, "xonly", 0)),
   [BareOf(<<OpOf("disabled")>>) EXCEPT !.success = TRUE],
   BareOf(<<PushEl(El("key", 1, "xonly", 0)), OpOf("OP_CHECKSIG")>>)>>
Rd(i) == El("redeem", i, "", 0)
Spks == {SpkOf("p2pkh", 0, 0, HashOf("OP_HASH160", KeyA), << >>), BareOf(<<OneIns>>), BareOf(CheckSigCode),
         WitProg(0, 20, HashOf("OP_HASH160", KeyA)), WitProg(0, 32, HashOf("OP_SHA256", Rd(1))), WitProg(0, 16, KeyA), WitProg(0, 20, ZeroPad),
         WitProg(1, 32, El("key", 1, "xonly", 0)), WitProg(1, 2, KeyA), WitProg(2, 32, KeyA), WitProg(2, 32, ZeroPad)}
   \cup {SpkOf("p2sh", 0, 0, HashOf("OP_HASH160", Rd(i)), << >>) : i \in 1..5}
Sigs == {SigA, El("sig", 1, "der", 0), El("sig", 2, "ok", 0), El("num", 0, "", 0), El("big", 0, "", 0)}
ScriptSigs == {<< >>, <<OneIns>>, <<PushEl(SigA)>>, <<OpOf("OP_NOP"), PushEl(SigA), PushEl(KeyA)>>, <<PushEl(El("num", 1, "", 0)), PushEl(SigA), PushEl(KeyA)>>}
   \cup {<<PushEl(s), PushEl(k)>> : s \in Sigs, k \in {KeyA, El("key", 2, "comp", 0)}}
   \cup {<<PushEl(Rd(i))>> : i \in 1..5} \cup {<<[PushEl(Rd(i)) EXCEPT !.min = FALSE]>> : i \in 2..3}
   \cup {<<PushEl(SigA), PushEl(Rd(i))>> : i \in 1..5} \cup {<<OpOf("OP_NOP"), PushEl(SigA), PushEl(Rd(1))>>, [i \in 1..7 |-> PushEl(Rd(1))]}
Ctl(i, x) == El("control", i, x, 1)
TapSig == El("sig", 1, "schnorr", 0)
AnnexEl == El("annex", 0, "", 0)
Witnesses == {<< >>, <<SigA>>, <<SigA, Rd(1)>>, <<SigA, SigA, Rd(1)>>, <<SigA, Rd(2)>>, <<TapSig>>, <<TapSig, AnnexEl>>, <<AnnexEl>>, <<TapSig, Rd(7), Ctl(7, "leaf")>>,
    <<TapSig, Rd(7), Ctl(7, "leaf"), AnnexEl>>, <<Rd(7), Ctl(7, "leaf")>>, <<Rd(6), Ctl(6, "leaf")>>, <<Rd(6), Ctl(6, "")>>, <<Rd(6), Ctl(6, "short")>>, <<Rd(6), Ctl(7, "leaf")>>, <<Rd(7), AnnexEl>>}
   \cup {<<s, k>> : s \in Sigs, k \in {KeyA, El("key", 2, "comp", 0), El("big", 0, "", 0)}}
InputsAll == {[spk |-> k, script_sig |-> g, witness |-> w] : k \in Spks, g \in ScriptSigs, w \in {<< >>, <<SigA, KeyA>>}} \cup
  {[spk |-> k, script_sig |-> g, witness |-> w] : k \in Spks, g \in {<< >>, <<PushEl(Rd(2))>>, <<PushEl(Rd(3))>>}, w \in Witnesses}
PairInputs == {[spk |-> k, script_sig |-> g, witness |-> << >>] : k \in {BareOf(<<OneIns>>), BareOf(CheckSigCode), WitProg(2, 32, KeyA)}, g \in {<< >>, <<OneIns>>, <<PushEl(SigA)>>}}
FlagSets == {{}, {"bip16"}, {"bip16", "bip66"}, {"bip16", "bip66", "witness"}, {"bip16", "bip66", "witness", "taproot", "null_dummy"}, {"bip16", "witness", "nullfail", "low_s", "cleanstack", "discourage", "minimal_data"}}

SigBytes == {<< >>, <<4>>, <<5, 1>>}

PoolScenes == {{"w1", "p", "c"}, {"w1", "w2", "p"}, {"w1", "w2", "c", "j"}}

(* Chains offered to the batch: repeats, in-wave parents, double spends. *)
BatchTx(i,o,r) == [ins |-> i, outs |-> o, rel |-> r]
BatchTxs == [c \in {"c1","c2","c3","c4","a","b","d","f"} |->
   CASE c \in {"c1", "c2", "c3", "c4"} -> BatchTx(<< >>,1,0)
     [] c = "a" -> BatchTx(<< <<"c1",0>> >>,1,0)
     [] c = "b" -> BatchTx(<< <<"a",0>> >>,1,0)
     [] c = "d" -> BatchTx(<< <<"c1",0>> >>,2,0)
     [] c = "f" -> BatchTx(<< <<"a",0>> >>,1,1)]
BatchPaths == { << <<"c1">>, <<"c2","a">>, <<"c1">>, <<"c3", "d">> >>,
              << <<"c1">>, <<"c2">>, <<"c3">>, <<"c4", "a">> >>,
              << <<"c1">>, <<"c2">>, <<"c3", "a">>, <<"c4", "d">> >>,
              << <<"c1">>, <<"c2", "a", "b">>, <<"c3", "f">> >>,
              << <<"c1">>, <<"c1">>, <<"c2", "a", "f">> >>,
              << <<"c1">>, <<"c1">>, <<"c2", "a">>, <<"c1">> >>,
              << <<"c1">>, <<"c2">>, <<"c1">> >> }
BatchRepeats == { << <<"c1">>, <<"c1">> >> }

(* Three-transaction blocks over two prior coins. *)
MoneyTx(ins, outs) == [ins |-> ins, outs |-> outs]
MoneyOuts == {<<0>>, <<1>>, <<3>>, <<1, 2>>, <<2, 1>>, <<0,3>>}
MoneyFirst == {<< <<0, 1>> >>, << <<1, 1>> >>, << <<0, 1>>, <<1, 1>> >>, << <<1,1>>, <<0,2>> >>}
MoneySecond == {<< <<2, 1>> >>, << <<2, 2>> >>, << <<2, 1>>, <<0, 2>> >>, << <<0, 2>>, <<2, 2>> >>, << <<1, 2>> , <<2, 2>> >>, << <<1, 1>>, <<0, 2>> >>, << <<3, 1>> >>}
MoneyPair == {MoneyTx(i, o) : i \in MoneyFirst, o \in MoneyOuts}
HasOuts(b) == \A i \in 2 .. 3 : \A k \in 1 .. Len(b[i].ins) : b[i].ins[k][1] # 0 => b[i].ins[k][2] <= Len(b[b[i].ins[k][1]].outs)
MoneyBlocks == {b \in { <<MoneyTx(<< >>, c), a, MoneyTx(i, o)>> : c \in {<<1>>, <<2>>, <<1, 2>>, <<4>>}, a \in MoneyPair, i \in MoneySecond, o \in MoneyOuts } : HasOuts(b)}
Priors == <<1, 2>>
MoneyRest == CHOOSE b \in MoneyBlocks : TRUE

(* Block bodies, among them mutated ones with the same root. *)
ShapeTxOf(ins, outs, size, script, commits, sigops, inner) ==
  [ins |-> ins, outs |-> outs, size |-> size, script |-> script,
   commits |-> commits, sigops |-> sigops, inner |-> inner]
Cb(script, commits) == ShapeTxOf(<<"null">>, "ok", 10, script, commits, 1, <<>>)
At128 == <<2, 128, 0, 9>>
Wit(n, w) == <<n, w, 0>>
ShapeTx ==
  [cb0 |-> Cb(At128, <<>>),
   cbw |-> Cb(At128, <<witness_commitment_digest(<<Wit("t1", 1)>>, 1)>>),
   cbv |-> Cb(At128, <<witness_commitment_digest(<<Wit("t1", 4)>>, 1),
                       witness_commitment_digest(<<Wit("t1", 1), <<"t2">>>>, 2)>>),
   cb17 |-> Cb(<<1, 17>>, <<>>),
   cbs |-> Cb(<<9>>, <<>>),
   t1 |-> ShapeTxOf(<<"a">>, "ok", 10, <<>>, <<>>, 1, <<>>),
   t2 |-> ShapeTxOf(<<"b", "c">>, "ok", 10, <<>>, <<>>, 1, <<>>),
   tsig |-> ShapeTxOf(<<"b">>, "ok", 10, <<>>, <<>>, 30, <<>>),
   tdup |-> ShapeTxOf(<<"b", "b">>, "ok", 10, <<>>, <<>>, 1, <<>>),
   tnull |-> ShapeTxOf(<<"b", "null">>, "ok", 10, <<>>, <<>>, 1, <<>>),
   tvin |-> ShapeTxOf(<<>>, "ok", 10, <<>>, <<>>, 1, <<>>),
   tvout |-> ShapeTxOf(<<"b">>, "none", 10, <<>>, <<>>, 1, <<>>),
   tval |-> ShapeTxOf(<<"b">>, "toolarge", 10, <<>>, <<>>, 1, <<>>),
   tbig |-> ShapeTxOf(<<"b">>, "ok", 200, <<>>, <<>>, 1, <<>>),
   t64 |-> ShapeTxOf(<<"d">>, "ok", 64, <<>>, <<>>, 1, <<>>),
   in1 |-> ShapeTxOf(<<"e">>, "ok", 64, <<>>, <<>>, 1, <<<<"cb0">>, <<"t1">>>>),
   in2 |-> ShapeTxOf(<<"f">>, "ok", 64, <<>>, <<>>, 1, <<<<"t2">>, <<"t2">>>>),
   in3 |-> ShapeTxOf(<<"g">>, "ok", 64, <<>>, <<>>, 1, <<<<"cbw">>, <<"t1">>>>)]
S(n, w) == [tx |-> n, wit |-> w]
Plain(ns) == [i \in 1..Len(ns) |-> S(ns[i], 0)]
ShapeBodies ==
  {Plain(ns) : ns \in {
     <<"cb0">>, <<"cb0", "t1">>, <<"cb0", "t1", "t2">>, <<"cb0", "t1", "t2", "t2">>,
     <<"cb0", "t1", "cb0", "t1">>, <<"in1">>, <<"in1", "in2">>, <<"in1", "t2", "t2">>, <<"in3">>,
     <<"cb0", "t64">>, <<"t64", "t1">>, <<"t1", "t2">>, <<"cb0", "cb17">>, <<"cb17", "t1", "t2", "t64">>,
     <<"cb17">>, <<"cbs", "t1">>, <<"cbw", "t1">>, <<"cbv", "t1", "t2">>, <<"cb0", "t1", "t2", "t1">>,
     <<"cb0", "tsig">>, <<"cb0", "tdup">>, <<"cb0", "tnull">>, <<"cb0", "tvin">>, <<"cb0", "tvout">>,
     <<"cb0", "tval">>, <<"cb0", "tbig">>}}
  \cup {<<S("cb0", c), S("t1", w)>> : c \in {0, 1}, w \in {0, 1}}
  \cup {<<S("cbw", c), S("t1", w)>> : c \in 0..3, w \in {0, 1, 40}}
  \cup {<<S("cbv", c), S("t1", w), S("t2", v)>> : c \in 0..3, w \in {0, 1, 4}, v \in {0, 1}}

(* a pays p, b spends it and pays q, c spends that back; b and c conflict. *)
MCOuts == [t \in {"a", "b", "c"} |-> IF t = "b" THEN {"q"} ELSE {"p"}]
MCIns == [t \in {"a", "b", "c"} |-> CASE t = "a" -> {} [] t = "b" -> {"p"} [] t = "c" -> {"q"}]
MCClash == [t \in {"a", "b", "c"} |-> CASE t = "a" -> {} [] t = "b" -> {"c"} [] t = "c" -> {"b"}]

(* A request that fits the line cap and one that does not. *)
MCLines == <<2, 3>>

VARIABLE part   \* the component this behaviour runs

vars == <<part, scVars, svVars, sbVars, spVars, bbVars, bmVars, bsVars, elVars, ewVars, ebVars>>

Init ==
    /\ part \in {"eval", "verify", "bytes", "pool", "batch", "money", "shape", "conn", "wire", "requests"}
    /\ IF part = "eval" THEN ScInit ELSE ScStart(LockScene, CtxOf("v0", {}, {}), << >>)
    /\ IF part = "verify" THEN SvInit ELSE SvStart(<< >>, {})
    /\ IF part = "bytes" THEN SbInit ELSE SbStart(<< >>, {<< >>})
    /\ SpInit /\ (part = "pool" \/ (\A w \in SpWorkers : spW[w] = AtTop /\ spC["j"].pc = "start"))
    /\ BbInit
    /\ IF part = "money" THEN BmInit ELSE BmStart(MoneyRest, 1)
    /\ IF part = "shape" THEN BsInit ELSE BsStart(Plain(<<"cb0">>), 1, FALSE, "hub")
    /\ ElInit
    /\ EwInit
    /\ IF part = "requests" THEN EbInit ELSE EbStart(<<"sh">>)

Next ==
    \/ part = "eval" /\ ScNext /\ UNCHANGED <<part, svVars, sbVars, spVars, bbVars, bmVars, bsVars, elVars, ewVars, ebVars>>
    \/ part = "verify" /\ SvNext /\ UNCHANGED <<part, scVars, sbVars, spVars, bbVars, bmVars, bsVars, elVars, ewVars, ebVars>>
    \/ part = "bytes" /\ SbNext /\ UNCHANGED <<part, scVars, svVars, spVars, bbVars, bmVars, bsVars, elVars, ewVars, ebVars>>
    \/ part = "pool" /\ SpNext /\ UNCHANGED <<part, scVars, svVars, sbVars, bbVars, bmVars, bsVars, elVars, ewVars, ebVars>>
    \/ part = "batch" /\ BbNext /\ UNCHANGED <<part, scVars, svVars, sbVars, spVars, bmVars, bsVars, elVars, ewVars, ebVars>>
    \/ part = "money" /\ BmNext /\ UNCHANGED <<part, scVars, svVars, sbVars, spVars, bbVars, bsVars, elVars, ewVars, ebVars>>
    \/ part = "shape" /\ BsNext /\ UNCHANGED <<part, scVars, svVars, sbVars, spVars, bbVars, bmVars, elVars, ewVars, ebVars>>
    \/ part = "conn" /\ ElNext /\ UNCHANGED <<part, scVars, svVars, sbVars, spVars, bbVars, bmVars, bsVars, ewVars, ebVars>>
    \/ part = "wire" /\ EwNext /\ UNCHANGED <<part, scVars, svVars, sbVars, spVars, bbVars, bmVars, bsVars, elVars, ebVars>>
    \/ part = "requests" /\ EbNext /\ UNCHANGED <<part, scVars, svVars, sbVars, spVars, bbVars, bmVars, bsVars, elVars, ewVars>>

Spec == Init /\ [][Next]_vars
=============================================================================
