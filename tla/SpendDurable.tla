---------------------------- MODULE SpendDurable ----------------------------
(***************************************************************************)
(* The spend_durable marker of rbitcoin.  Spend annotations and Class A    *)
(* bodies are written to the page cache; only rbtc-spend-sync flushes them *)
(* to the device, and the marker on disk says through which height it did. *)
(* Open rechecks bodies and rewrites annotations above the marker and      *)
(* nowhere else, so a marker that claims too much loses spends for good.   *)
(*                                                                         *)
(* Three threads: the write thread (w), a disconnect under tip_commit (d)  *)
(* and the checkpoint thread (c); open runs alone.  Heights are 1-based    *)
(* positions, 0 is None.  The tip barrier is one step here (TipCommit has  *)
(* its insides) and locator headers always land.                           *)
(***************************************************************************)
EXTENDS Integers, Sequences, FiniteSets, FiniteSetsExt, Functions

CONSTANTS SdBlocks, Genesis, SdParent,
          SdWindow,      \* -checkblocks, at least VERIFY_TIP_BLOCKS
          SdMaxLen,      \* bound: confirmed heights
          MaxGen,      \* bound: disconnects in one process
          SdMaxCrash     \* bound: kills and power losses

ASSUME SpendAssumption ==
    /\ Genesis \in SdBlocks
    /\ SdParent \in [SdBlocks \ {Genesis} -> SdBlocks]
    /\ {SdMaxLen, MaxGen, SdMaxCrash, SdWindow} \subseteq Nat
    /\ SdMaxLen > 0 /\ SdWindow > 0

VARIABLES
    chain, d_chain, flush_due,       \* confirmed[] in RAM, on disk; barrier not yet joined
    sd_body, d_body,                    \* blocks whose Class A bodies are readable; on the device
    ann, d_ann,                      \* blocks whose spends are annotated; on the device
    marker,                          \* spend_durable on disk
    snapshot, reorg_gen, pending,    \* the in-process words
    wpc, wblock, token, warg, want,  \* write thread
    dpc,                             \* disconnect
    cpc, cgen, cheight,              \* checkpoint thread
    skew,                            \* auxiliary: a snapshot above the tip was sampled after ClampGen
    opc, sdCrashes

store == <<chain, d_chain, flush_due, sd_body, d_body, ann, d_ann>>
words == <<marker, snapshot, reorg_gen, pending>>
wvars == <<wpc, wblock, token, warg, want>>
cvars == <<cpc, cgen, cheight, skew>>
sdVars == <<store, words, wvars, dpc, cvars, opc, sdCrashes>>

Tip == Len(chain)
HeightOf[b \in SdBlocks] == IF b = Genesis THEN 1 ELSE HeightOf[SdParent[b]] + 1
Lower(x, y) == IF x < y THEN x ELSE y

(* The tip window: the whole chain without a marker, else down to the marker. *)
EffectiveCheckblocks ==
    IF marker = 0 THEN Tip
    ELSE Max({SdWindow, IF Tip > marker THEN Tip - marker ELSE 0})

NoPending == [gen |-> 0, height |-> 0]

SdInit ==
    /\ chain = <<Genesis>> /\ d_chain = chain /\ flush_due = FALSE
    /\ sd_body = {Genesis} /\ d_body = sd_body /\ ann = {Genesis} /\ d_ann = ann
    /\ marker = 0 /\ snapshot = 0 /\ reorg_gen = 0 /\ pending = NoPending
    /\ wpc = "idle" /\ wblock = Genesis /\ token = NoPending /\ warg = 0 /\ want = 0
    /\ dpc = "idle"
    /\ cpc = "idle" /\ cgen = 0 /\ cheight = 0 /\ skew = FALSE
    /\ opc = "none" /\ sdCrashes = 0

Running == opc = "none"

-----------------------------------------------------------------------------
(* The write thread *)

(* Mutated form: the pending word is dropped and nothing is rewritten. *)
PendingDropped ==
    /\ Running /\ wpc = "idle" /\ wpc' = "check"
    /\ pending' = NoPending
    /\ UNCHANGED <<store, marker, snapshot, reorg_gen, wblock, token, warg, want, dpc, cvars,
                   opc, sdCrashes>>

(* annotate_pending_spends: finish what a failed write left, or stop here.   *)
AnnotatePending ==
    /\ Running /\ wpc = "idle" /\ wpc' = "check"
    /\ ann' = IF pending.height = 0 THEN ann
              ELSE ann \cup {chain[i] : i \in pending.height .. Tip}
    /\ pending' = NoPending
    /\ UNCHANGED <<chain, d_chain, flush_due, sd_body, d_body, d_ann, marker, snapshot,
                   reorg_gen, wblock, token, warg, want, dpc, cvars, opc, sdCrashes>>

(* The body is appended and structural_run reads spentness from the slots; a *)
(* reject leaves the body behind.                                            *)
Structural(b) ==
    /\ Running /\ wpc = "check" /\ wpc' \in {"note", "idle"}
    /\ b # Genesis /\ Tip < SdMaxLen /\ SdParent[b] = chain[Tip]
    /\ sd_body' = sd_body \cup {b} /\ wblock' = b
    /\ UNCHANGED <<chain, d_chain, flush_due, d_body, ann, d_ann, words, token, warg,
                   want, dpc, cvars, opc, sdCrashes>>

(* note_spend_annotate_pending keeps the lowest height and bumps the word.   *)
NotePending ==
    /\ Running /\ wpc = "note" /\ wpc' = "commit"
    /\ LET h == HeightOf[wblock]
       IN pending' = [gen |-> pending.gen + 1,
                      height |-> IF pending.height = 0 THEN h ELSE Lower(pending.height, h)]
    /\ token' = pending'
    /\ UNCHANGED <<store, marker, snapshot, reorg_gen, wblock, warg, want, dpc, cvars,
                   opc, sdCrashes>>

(* class_c_commit under tip_commit, after the last barrier was joined.       *)
ClassCCommit ==
    /\ Running /\ wpc = "commit" /\ dpc = "idle" /\ ~ flush_due
    /\ \/ /\ SdParent[wblock] = chain[Tip]
          /\ chain' = Append(chain, wblock) /\ flush_due' = TRUE /\ wpc' = "annotate"
       \/ /\ SdParent[wblock] # chain[Tip]
          /\ wpc' = "idle" /\ UNCHANGED <<chain, flush_due>>
    /\ UNCHANGED <<d_chain, sd_body, d_body, ann, d_ann, words, wblock, token, warg, want,
                   dpc, cvars, opc, sdCrashes>>

TipBarrier ==
    /\ Running /\ flush_due /\ flush_due' = FALSE
    /\ d_chain' = chain
    /\ UNCHANGED <<chain, sd_body, d_body, ann, d_ann, words, wvars, dpc, cvars, opc, sdCrashes>>

(* post_commit; an error leaves the pending word for the next write.         *)
PostCommit ==
    /\ Running /\ wpc = "annotate"
    /\ \/ ann' = ann \cup {wblock} /\ wpc' = "clear"
       \/ ann' = ann /\ wpc' = "idle"
    /\ UNCHANGED <<chain, d_chain, flush_due, sd_body, d_body, d_ann, words, wblock, token,
                   warg, want, dpc, cvars, opc, sdCrashes>>

ClearPending ==
    /\ Running /\ wpc = "clear" /\ wpc' = "tip"
    /\ pending' = IF pending = token THEN NoPending ELSE pending
    /\ token' = NoPending /\ wblock' = Genesis
    /\ UNCHANGED <<store, marker, snapshot, reorg_gen, warg, want, dpc, cvars, opc, sdCrashes>>

(* note_spend_snapshot: the argument, what to store, the store, the second look. *)
ReadTip ==
    /\ Running /\ wpc = "tip" /\ wpc' = "want" /\ warg' = Tip
    /\ UNCHANGED <<store, words, wblock, token, want, dpc, cvars, opc, sdCrashes>>

SnapshotWant ==
    /\ Running /\ wpc = "want" /\ wpc' = "swap" /\ want' = Lower(warg, Tip)
    /\ UNCHANGED <<store, words, wblock, token, warg, dpc, cvars, opc, sdCrashes>>

SnapshotSwap ==
    /\ Running /\ wpc = "swap" /\ wpc' = "again"
    /\ snapshot' = want
    /\ UNCHANGED <<store, marker, reorg_gen, pending, wblock, token, warg, want, dpc,
                   cvars, opc, sdCrashes>>

SnapshotAgain ==
    /\ Running /\ wpc = "again"
    /\ IF Lower(warg, Tip) = want THEN wpc' = "idle" /\ warg' = 0 /\ want' = 0
       ELSE wpc' = "want" /\ UNCHANGED <<warg, want>>
    /\ UNCHANGED <<store, words, wblock, token, dpc, cvars, opc, sdCrashes>>

-----------------------------------------------------------------------------
(* A disconnect, and clamp_spend_durable inside it *)

DisconnectTip ==
    /\ Running /\ dpc = "idle" /\ ~ flush_due /\ Tip > 1
    /\ reorg_gen < MaxGen
    /\ chain' = SubSeq(chain, 1, Tip - 1) /\ dpc' = "flush"
    /\ UNCHANGED <<d_chain, flush_due, sd_body, d_body, ann, d_ann, words, wvars, cvars,
                   opc, sdCrashes>>

FlushConfirmedOnly ==
    /\ Running /\ dpc = "flush" /\ dpc' = "gen" /\ d_chain' = chain
    /\ UNCHANGED <<chain, flush_due, sd_body, d_body, ann, d_ann, words, wvars, cvars, opc,
                   sdCrashes>>

ClampGen ==
    /\ Running /\ dpc = "gen" /\ dpc' = "snapshot" /\ reorg_gen' = reorg_gen + 1
    /\ UNCHANGED <<store, marker, snapshot, pending, wvars, cvars, opc, sdCrashes>>

ClampSnapshot ==
    /\ Running /\ dpc = "snapshot" /\ dpc' = "marker"
    /\ snapshot' = Lower(snapshot, Tip)
    /\ UNCHANGED <<store, marker, reorg_gen, pending, wvars, cvars, opc, sdCrashes>>

(* Waits for the marker lock, which the checkpoint holds while it stores.    *)
ClampMarker ==
    /\ Running /\ dpc = "marker" /\ dpc' = "idle" /\ cpc # "locked"
    /\ marker' = Lower(marker, Tip)
    /\ UNCHANGED <<store, snapshot, reorg_gen, pending, wvars, cvars, opc, sdCrashes>>

-----------------------------------------------------------------------------
(* rbtc-spend-sync: observe_spend_checkpoint *)

Done == cpc' = "idle" /\ cgen' = 0 /\ cheight' = 0

SampleGen ==
    /\ Running /\ cpc = "idle" /\ cpc' = "snapshot" /\ cgen' = reorg_gen
    /\ UNCHANGED <<store, words, wvars, dpc, cheight, skew, opc, sdCrashes>>

SampleSnapshot ==
    /\ Running /\ cpc = "snapshot"
    /\ IF snapshot = 0 THEN Done ELSE cpc' = "sync" /\ cheight' = snapshot /\ UNCHANGED cgen
    /\ skew' = (skew \/ (snapshot > Tip /\ dpc \notin {"flush", "gen"}))
    /\ UNCHANGED <<store, words, wvars, dpc, opc, sdCrashes>>

SyncReplayData ==
    /\ Running /\ cpc = "sync" /\ cpc' = "recheck"
    /\ d_body' = sd_body /\ d_ann' = ann
    /\ UNCHANGED <<chain, d_chain, flush_due, sd_body, ann, words, wvars, dpc, cgen, cheight,
                   skew, opc, sdCrashes>>

(* A pending annotate caps the height below its first one. *)
PendingCap ==
    IF pending.height # 0 /\ pending.height <= cheight THEN pending.height - 1 ELSE cheight

Recheck ==
    /\ Running /\ cpc = "recheck"
    /\ IF reorg_gen = cgen /\ Tip >= cheight /\ PendingCap # 0
       THEN cpc' = "lock" /\ cheight' = PendingCap /\ UNCHANGED cgen
       ELSE Done
    /\ UNCHANGED <<store, words, wvars, dpc, skew, opc, sdCrashes>>

(* store_spend_marker: the generation again, under the marker lock.          *)
LockMarker ==
    /\ Running /\ cpc = "lock"
    /\ IF reorg_gen = cgen THEN cpc' = "locked" /\ UNCHANGED <<cgen, cheight>> ELSE Done
    /\ UNCHANGED <<store, words, wvars, dpc, skew, opc, sdCrashes>>

StoreMarker ==
    /\ Running /\ cpc = "locked" /\ Done
    /\ marker' = Lower(cheight, Tip)
    /\ UNCHANGED <<store, snapshot, reorg_gen, pending, wvars, dpc, skew, opc, sdCrashes>>

-----------------------------------------------------------------------------
(* Kill, power loss and open *)

(* A kill keeps the page cache; a power loss keeps what the device has and   *)
(* any part of what it has not acknowledged.                                 *)
SdCrash(power) ==
    /\ sdCrashes < SdMaxCrash /\ sdCrashes' = sdCrashes + 1
    /\ \/ /\ ~ power /\ UNCHANGED <<sd_body, ann>>
       \/ /\ power
          /\ sd_body' \in {d_body \cup s : s \in SUBSET (sd_body \ d_body)}
          /\ ann' \in {d_ann \cup s : s \in SUBSET (ann \ d_ann)}
    /\ chain' = d_chain /\ flush_due' = FALSE
    /\ snapshot' = 0 /\ reorg_gen' = 0 /\ pending' = NoPending
    /\ wpc' = "idle" /\ token' = NoPending /\ warg' = 0 /\ want' = 0 /\ wblock' = Genesis
    /\ dpc' = "idle" /\ cpc' = "idle" /\ cgen' = 0 /\ cheight' = 0
    /\ opc' = "walk"
    /\ UNCHANGED <<d_chain, d_body, d_ann, marker, skew>>

(* Tip-window revalidation: the lowest torn height of the window goes.       *)
OpenWalk ==
    /\ opc = "walk"
    /\ LET lo == Max({1, Tip - EffectiveCheckblocks + 1})
           bad == {i \in lo .. Tip : chain[i] \notin sd_body}
       IN IF bad = {} THEN opc' = "replay" /\ UNCHANGED chain
          ELSE opc' = "shrunk" /\ chain' = SubSeq(chain, 1, Min(bad) - 1)
    /\ UNCHANGED <<d_chain, flush_due, sd_body, d_body, ann, d_ann, words, wvars, dpc, cvars,
                   sdCrashes>>

OpenShrunk ==
    /\ opc = "shrunk" /\ opc' = "clamp" /\ d_chain' = chain
    /\ UNCHANGED <<chain, flush_due, sd_body, d_body, ann, d_ann, words, wvars, dpc, cvars,
                   sdCrashes>>

OpenClamp ==
    /\ opc = "clamp" /\ opc' = "replay"
    /\ marker' = Lower(marker, Tip) /\ reorg_gen' = reorg_gen + 1
    /\ UNCHANGED <<store, snapshot, pending, wvars, dpc, cvars, sdCrashes>>

(* replay_spend_annotations: a marker above the tip is lowered first; without *)
(* one everything above genesis is rewritten.                                 *)
OpenReplay ==
    /\ opc = "replay"
    /\ marker' = Lower(marker, Tip)
    /\ reorg_gen' = IF marker > Tip THEN reorg_gen + 1 ELSE reorg_gen
    /\ LET from == Max({1, marker'})
       IN /\ ann' = ann \cup {chain[i] : i \in from + 1 .. Tip}
          /\ opc' = IF from = Tip THEN "none" ELSE "sync"
    /\ UNCHANGED <<chain, d_chain, flush_due, sd_body, d_body, d_ann, snapshot, pending,
                   wvars, dpc, cvars, sdCrashes>>

OpenSync ==
    /\ opc = "sync" /\ opc' = "publish"
    /\ d_body' = sd_body /\ d_ann' = ann
    /\ UNCHANGED <<chain, d_chain, flush_due, sd_body, ann, words, wvars, dpc, cvars, sdCrashes>>

OpenPublish ==
    /\ opc = "publish" /\ opc' = "none" /\ marker' = Tip
    /\ UNCHANGED <<store, snapshot, reorg_gen, pending, wvars, dpc, cvars, sdCrashes>>

-----------------------------------------------------------------------------

Write == \/ AnnotatePending \/ (\E b \in SdBlocks : Structural(b)) \/ NotePending
         \/ ClassCCommit \/ PostCommit \/ ClearPending
         \/ ReadTip \/ SnapshotWant \/ SnapshotSwap \/ SnapshotAgain

SdClamp == ClampGen \/ ClampSnapshot \/ ClampMarker

Checkpoint == \/ SampleGen \/ SampleSnapshot \/ SyncReplayData \/ Recheck
              \/ LockMarker \/ StoreMarker

SdOpen == OpenWalk \/ OpenShrunk \/ OpenClamp \/ OpenReplay \/ OpenSync \/ OpenPublish

SdNext == \/ Write \/ TipBarrier
          \/ DisconnectTip \/ FlushConfirmedOnly \/ SdClamp
          \/ Checkpoint
          \/ (\E power \in BOOLEAN : SdCrash(power))
          \/ SdOpen

SdSpec == SdInit /\ [][SdNext]_sdVars

-----------------------------------------------------------------------------

(* Every variable keeps its shape. *)
SdTypeOK ==
    /\ chain \in Seq(SdBlocks) /\ Len(chain) \in 1 .. SdMaxLen
    /\ d_chain \in Seq(SdBlocks) /\ Len(d_chain) \in 1 .. SdMaxLen
    /\ flush_due \in BOOLEAN
    /\ d_body \subseteq SdBlocks /\ sd_body \subseteq SdBlocks
    /\ d_ann \subseteq SdBlocks /\ ann \subseteq SdBlocks
    /\ marker \in 0 .. SdMaxLen /\ snapshot \in 0 .. SdMaxLen /\ reorg_gen \in Nat
    /\ pending \in [gen : Nat, height : 0 .. SdMaxLen]
    /\ token \in [gen : Nat, height : 0 .. SdMaxLen]
    /\ wblock \in SdBlocks /\ warg \in 0 .. SdMaxLen /\ want \in 0 .. SdMaxLen
    /\ cgen \in Nat /\ cheight \in 0 .. SdMaxLen /\ skew \in BOOLEAN
    /\ sdCrashes \in 0 .. SdMaxCrash

(* The marker never claims more than the device holds: at every instant, the  *)
(* blocks of the durable chain up to it have their bodies and annotations     *)
(* there.  Open looks at nothing below the marker.                            *)
MarkerHonest ==
    \A i \in 1 .. Lower(marker, Len(d_chain)) : d_chain[i] \in d_body \cap d_ann

(* The same wherever no checkpoint took the generation after a disconnect     *)
(* bumped it and then a snapshot that still names the disconnected height.    *)
MarkerHonestUnskewed == ~ skew => MarkerHonest

(* A batch reads spentness only when every spend of the chain below it has    *)
(* been annotated; a slot that was never written reads as unspent.            *)
SpentnessSound == ~ skew /\ wpc = "check" => Range(chain) \subseteq ann

(* Open, and every write that ends well, leave a chain whose bodies survived  *)
(* and whose spends are marked, whatever the device lost.                     *)
ChainWhole == ~ skew /\ Running /\ wpc = "idle" =>
                /\ Range(chain) \subseteq sd_body
                /\ \A i \in 1 .. Tip : chain[i] \notin ann => pending.height \in 1 .. i

(* Open, the writer and the marker agree on which spends are durable. *)
SpendSafe == SdTypeOK /\ ChainWhole /\ SpentnessSound /\ MarkerHonestUnskewed
=============================================================================
