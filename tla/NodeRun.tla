------------------------------ MODULE NodeRun ------------------------------
(***************************************************************************)
(* One run of the node (rbitcoin-node/src/run.rs, run_p2p): startup, catch- *)
(* up, tip entry, the tip-follow loop and the shutdown tail, beside the     *)
(* threads it starts.  Those are the scripthash appender, the index         *)
(* write-behind, the tip-accept lane fed by peer sessions, and the task     *)
(* that polls an early RPC listener's stop flag.                            *)
(***************************************************************************)
EXTENDS Integers, FiniteSets

CONSTANTS
    NrBlocks    \* blocks the peers may deliver

VARIABLES
    nrCfg,      \* [shindex, head, early, capped]: --sh-index, durable head, early RPC, max_run_secs
    nrAt,       \* where run_p2p stands
    nrReq,      \* Shutdown.flag
    nrErr,      \* Shutdown.failure
    nrExit,     \* what run_p2p returned
    nrMode,     \* IndexMode
    nrHead,     \* the scripthash head: "no", "durable", or durable with runs "left" over
    nrSh,       \* the appender thread
    nrPend,     \* blocks the appender has not included
    nrIx,       \* the index write-behind thread
    nrFollow,   \* tip_follow_ready
    nrShReady,  \* sh_tip_ready
    nrWallet,   \* the Electrum and Esplora listeners
    nrRpc,      \* the RPC listener
    nrStop,     \* its stop flag
    nrPoll,     \* the early listener's poll task runs
    nrLane,     \* the tip-accept lane: [queued, running]
    nrLeft,     \* blocks still to come
    nrDirty,    \* writers with work no flush has covered
    nrPeers,    \* P2P sessions are up
    nrFirst,    \* history: the first failure
    nrLate      \* history: the running or last accept began after the drain

nrVars == <<nrCfg, nrAt, nrReq, nrErr, nrExit, nrMode, nrHead, nrSh, nrPend, nrIx, nrFollow, nrShReady,
            nrWallet, nrRpc, nrStop, nrPoll, nrLane, nrLeft, nrDirty, nrPeers, nrFirst, nrLate>>
threads == <<nrSh, nrPend, nrIx, nrLane, nrLeft, nrDirty, nrLate>>
stopVars == <<nrReq, nrErr, nrFirst>>
gates == <<nrMode, nrHead, nrFollow, nrShReady>>
doors == <<nrWallet, nrRpc, nrStop, nrPoll>>

-----------------------------------------------------------------------------
(* Shutdown.                                                               *)

request == nrReq' = TRUE /\ UNCHANGED <<nrErr, nrFirst>>

fail(e) ==
    /\ nrReq' = TRUE
    /\ nrErr' = IF nrErr = "none" THEN e ELSE nrErr
    /\ nrFirst' = IF nrFirst = "none" THEN e ELSE nrFirst

\* sh_is_tip_ready.
ShCaughtUp == nrHead = "durable" /\ nrPend = 0

ensure_sh_writebehind == nrSh' = IF nrSh = "none" /\ nrMode = "tip" /\ nrCfg.shindex THEN "run" ELSE nrSh

-----------------------------------------------------------------------------
(* Startup.                                                                *)

\* The Tor and I2P steps: done, cut by a shutdown request, or an error that
\* leaves run_p2p with nothing started but the P2P node.
Overlays ==
    /\ nrAt = "overlays"
    /\ \/ nrAt' = "spawn" /\ UNCHANGED nrExit
       \/ ~nrReq /\ nrAt' = "gone" /\ nrExit' = "overlay"
    /\ UNCHANGED <<nrCfg, nrPeers, gates, doors, threads, stopVars>>

SpawnAppender ==
    /\ nrAt = "spawn"
    /\ ensure_sh_writebehind
    /\ nrAt' = "rpc"
    /\ UNCHANGED <<nrCfg, nrExit, nrPeers, gates, doors, nrPend, nrIx, nrLane, nrLeft, nrDirty, nrLate, stopVars>>

\* A bind either works or fails the process.
Bind == \/ nrRpc' = "up" /\ UNCHANGED stopVars
        \/ nrRpc' = "none" /\ fail("bind")

\* A catch-up that may wait for peers starts RPC first and polls its flag.
EarlyRpc ==
    /\ nrAt = "rpc"
    /\ IF nrCfg.early /\ ~nrReq
       THEN Bind /\ nrPoll' = (nrRpc' = "up")
       ELSE UNCHANGED <<nrRpc, nrPoll, stopVars>>
    /\ nrAt' = "catchup"
    /\ UNCHANGED <<nrCfg, nrExit, nrPeers, gates, nrWallet, nrStop, threads>>
PollStop ==
    /\ nrPoll /\ nrStop
    /\ nrPoll' = FALSE /\ request
    /\ UNCHANGED <<nrCfg, nrAt, nrExit, nrPeers, gates, nrWallet, nrRpc, nrStop, threads>>

\* run_ibd_or_skip and catch_up_with_connect: complete, or not.
CatchUpDone ==
    /\ nrAt = "catchup"
    /\ \/ ~nrReq /\ nrAt' = "tipmode"
       \/ nrAt' = "serve"
    /\ UNCHANGED <<nrCfg, nrExit, nrPeers, gates, doors, threads, stopVars>>

-----------------------------------------------------------------------------
(* Tip entry: enter_tip_mode, the appender, the indexes, relay.             *)

NoShIndex ==
    /\ ~nrCfg.shindex
    /\ nrMode' = "tip" /\ nrFollow' = TRUE /\ nrShReady' = TRUE
    /\ UNCHANGED nrHead
DurableHead ==
    /\ nrCfg.shindex /\ nrHead # "no"
    /\ nrMode' = "tip" /\ nrFollow' = TRUE /\ nrShReady' = ShCaughtUp
    /\ UNCHANGED nrHead
\* The collect ends well, with runs left over, or not at all (then Direct).
Materialize ==
    /\ nrCfg.shindex /\ nrHead = "no"
    /\ nrFollow' = TRUE
    /\ \/ ~nrReq /\ nrHead' = "durable" /\ nrMode' = "tip" /\ nrShReady' = (nrPend = 0)
       \/ ~nrReq /\ nrHead' = "left" /\ nrMode' = "tip" /\ nrShReady' = FALSE
       \/ nrHead' = "no" /\ nrMode' = "direct" /\ nrShReady' = FALSE
enter_tip_mode ==
    /\ nrAt = "tipmode"
    /\ NoShIndex \/ DurableHead \/ Materialize
    /\ nrAt' = "appender"
    /\ UNCHANGED <<nrCfg, nrExit, nrPeers, doors, threads, stopVars>>
AppenderAtTip ==
    /\ nrAt = "appender"
    /\ ensure_sh_writebehind
    /\ nrAt' = "indexes"
    /\ UNCHANGED <<nrCfg, nrExit, nrPeers, gates, doors, nrPend, nrIx, nrLane, nrLeft, nrDirty, nrLate, stopVars>>
IndexEntry ==
    /\ nrAt = "indexes"
    /\ nrIx' \in IF nrFollow /\ ~nrReq THEN {"none", "run"} ELSE {nrIx}
    /\ nrAt' = "serve"
    /\ UNCHANGED <<nrCfg, nrExit, nrPeers, gates, doors, nrSh, nrPend, nrLane, nrLeft, nrDirty, nrLate, stopVars>>

-----------------------------------------------------------------------------
(* Listeners and the follow loop.                                          *)

\* start_electrum_if_ready, start_esplora_if_ready: none, bound, or failed.
StartWallet(ready) ==
    IF ready /\ ~nrReq
    THEN \/ nrWallet' = TRUE /\ UNCHANGED stopVars
         \/ nrWallet' = FALSE /\ fail("bind")
    ELSE UNCHANGED <<nrWallet, stopVars>>
Serve ==
    /\ nrAt = "serve"
    /\ StartWallet(nrShReady)
    /\ nrAt' = "servers"
    /\ UNCHANGED <<nrCfg, nrExit, nrPeers, gates, nrRpc, nrStop, nrPoll, threads>>
LateRpc ==
    /\ nrAt = "servers"
    /\ IF nrRpc = "none" /\ ~nrReq THEN Bind ELSE UNCHANGED <<nrRpc, stopVars>>
    /\ nrAt' = "follow?"
    /\ UNCHANGED <<nrCfg, nrExit, nrPeers, gates, nrWallet, nrStop, nrPoll, threads>>
EnterFollow ==
    /\ nrAt = "follow?"
    /\ nrAt' = IF nrFollow /\ ~nrReq THEN "follow" ELSE "close"
    /\ UNCHANGED <<nrCfg, nrExit, nrPeers, gates, doors, threads, stopVars>>

\* The top of the loop: a stop or the deadline leaves it; otherwise the
\* listeners now due are started.
LoopEnds ==
    /\ nrAt = "follow" /\ (nrReq \/ nrCfg.capped)
    /\ nrAt' = "close"
    /\ UNCHANGED <<nrCfg, nrExit, nrPeers, gates, doors, threads, stopVars>>
LoopTop ==
    /\ nrAt = "follow" /\ ~nrReq
    /\ StartWallet(nrCfg.shindex /\ ~nrWallet /\ ShCaughtUp)
    /\ nrAt' = "wait"
    /\ UNCHANGED <<nrCfg, nrExit, nrPeers, gates, nrRpc, nrStop, nrPoll, threads>>
\* tip_follow_next_wake and finish_tip_follow_wake.  A request that
\* cancelled() misses is seen at the next tick.
Woke ==
    /\ nrAt = "wait"
    /\ IF nrRpc = "up" /\ nrStop
       THEN nrAt' = "close" /\ request
       ELSE /\ \/ nrAt' = "follow"
               \/ nrReq /\ nrAt' = "close"
            /\ UNCHANGED stopVars
    /\ UNCHANGED <<nrCfg, nrExit, nrPeers, gates, doors, threads>>

-----------------------------------------------------------------------------
(* The shutdown tail.                                                      *)

CloseServers ==
    /\ nrAt = "close"
    /\ nrWallet' = FALSE /\ nrRpc' = IF nrRpc = "up" THEN "down" ELSE nrRpc
    /\ nrAt' = "request"
    /\ UNCHANGED <<nrCfg, nrExit, nrPeers, gates, nrStop, nrPoll, threads, stopVars>>
RequestStop ==
    /\ nrAt = "request" /\ request /\ nrAt' = "join"
    /\ UNCHANGED <<nrCfg, nrExit, nrPeers, gates, doors, threads>>
\* A bug: the writers are not joined.
JoinWritersNot ==
    /\ nrAt = "join" /\ nrAt' = "drain"
    /\ UNCHANGED <<nrCfg, nrExit, nrPeers, gates, doors, threads, stopVars>>
JoinWriters ==
    /\ nrAt = "join" /\ nrSh # "run" /\ nrIx # "run"
    /\ nrAt' = "drain"
    /\ UNCHANGED <<nrCfg, nrExit, nrPeers, gates, doors, threads, stopVars>>
\* wait_tip_accept_idle: no accept runs; one in the queue is not seen.
Drain ==
    /\ nrAt = "drain" /\ ~nrLane.running
    /\ nrAt' = "flush"
    /\ UNCHANGED <<nrCfg, nrExit, nrPeers, gates, doors, threads, stopVars>>
\* spend_sync.shutdown, then flush_for_shutdown.
Flush ==
    /\ nrAt = "flush"
    /\ nrDirty' = {} /\ nrAt' = "sessions"
    /\ UNCHANGED <<nrCfg, nrExit, nrPeers, gates, doors, nrSh, nrPend, nrIx, nrLane, nrLeft, nrLate, stopVars>>
\* The mempool flush, then node.shutdown.
EndSessions ==
    /\ nrAt = "sessions"
    /\ nrPeers' = FALSE /\ nrAt' = "result"
    /\ UNCHANGED <<nrCfg, nrExit, gates, doors, threads, stopVars>>
Leave ==
    /\ nrAt = "result"
    /\ nrExit' = IF nrErr = "none" THEN "ok" ELSE nrErr
    /\ nrAt' = "gone"
    /\ UNCHANGED <<nrCfg, nrPeers, gates, doors, threads, stopVars>>

-----------------------------------------------------------------------------
(* The other threads.                                                      *)

NodeRunning == nrAt # "gone"
Signal ==
    /\ NodeRunning /\ ~nrReq /\ request
    /\ UNCHANGED <<nrCfg, nrAt, nrExit, nrPeers, gates, doors, threads>>
RpcStop ==
    /\ nrRpc = "up" /\ ~nrStop /\ NodeRunning
    /\ nrStop' = TRUE
    /\ UNCHANGED <<nrCfg, nrAt, nrExit, nrPeers, gates, nrWallet, nrRpc, nrPoll, threads, stopVars>>

\* The appender includes a pending block; a fault fails the process.
AppendOne ==
    /\ NodeRunning /\ nrSh = "run" /\ nrPend > 0
    /\ nrPend' = nrPend - 1 /\ nrDirty' = nrDirty \cup {"sh"}
    /\ UNCHANGED <<nrCfg, nrAt, nrExit, nrPeers, gates, doors, nrSh, nrIx, nrLane, nrLeft, nrLate, stopVars>>
AppendFault ==
    /\ NodeRunning /\ nrSh = "run" /\ nrPend > 0
    /\ nrSh' = "ended" /\ fail("sh")
    /\ UNCHANGED <<nrCfg, nrAt, nrExit, nrPeers, gates, doors, nrPend, nrIx, nrLane, nrLeft, nrDirty, nrLate>>
AppenderStops ==
    /\ NodeRunning /\ nrSh = "run" /\ nrReq
    /\ nrSh' = "ended"
    /\ UNCHANGED <<nrCfg, nrAt, nrExit, nrPeers, gates, doors, nrPend, nrIx, nrLane, nrLeft, nrDirty, nrLate, stopVars>>
IndexWrite ==
    /\ NodeRunning /\ nrIx = "run"
    /\ nrDirty' = nrDirty \cup {"ix"}
    /\ UNCHANGED <<nrCfg, nrAt, nrExit, nrPeers, gates, doors, nrSh, nrPend, nrIx, nrLane, nrLeft, nrLate, stopVars>>
IndexFault ==
    /\ NodeRunning /\ nrIx = "run"
    /\ nrIx' = "ended" /\ fail("ix")
    /\ UNCHANGED <<nrCfg, nrAt, nrExit, nrPeers, gates, doors, nrSh, nrPend, nrLane, nrLeft, nrDirty, nrLate>>
IndexStops ==
    /\ NodeRunning /\ nrIx = "run" /\ nrReq
    /\ nrIx' = "ended"
    /\ UNCHANGED <<nrCfg, nrAt, nrExit, nrPeers, gates, doors, nrSh, nrPend, nrLane, nrLeft, nrDirty, nrLate, stopVars>>

\* A session hands a block to the lane; the lane runs it.
HandBlock ==
    /\ NodeRunning /\ nrPeers /\ nrLeft > 0 /\ ~nrLane.queued
    /\ nrLeft' = nrLeft - 1 /\ nrLane' = [nrLane EXCEPT !.queued = TRUE]
    /\ UNCHANGED <<nrCfg, nrAt, nrExit, nrPeers, gates, doors, nrSh, nrPend, nrIx, nrDirty, nrLate, stopVars>>
BeginAccept ==
    /\ NodeRunning /\ nrLane.queued /\ ~nrLane.running
    /\ nrLane' = [queued |-> FALSE, running |-> TRUE]
    /\ nrLate' = (nrLate \/ nrAt \in {"flush", "sessions", "result"})
    /\ UNCHANGED <<nrCfg, nrAt, nrExit, nrPeers, gates, doors, nrSh, nrPend, nrIx, nrLeft, nrDirty, stopVars>>
EndAccept ==
    /\ NodeRunning /\ nrLane.running
    /\ nrLane' = [nrLane EXCEPT !.running = FALSE]
    /\ nrPend' = IF nrMode = "tip" /\ nrCfg.shindex THEN nrPend + 1 ELSE nrPend
    /\ nrDirty' = nrDirty \cup {"tip"}
    /\ UNCHANGED <<nrCfg, nrAt, nrExit, nrPeers, gates, doors, nrSh, nrIx, nrLeft, nrLate, stopVars>>

-----------------------------------------------------------------------------
NrConfigs == {c \in [shindex : BOOLEAN, head : BOOLEAN, early : BOOLEAN, capped : BOOLEAN] :
                 (c.head => c.shindex) /\ (c.early => ~c.head /\ ~c.capped)}
\* A node that has started no thread.
NrBare(at, exit) ==
    /\ nrAt = at /\ nrReq = FALSE /\ nrErr = "none" /\ nrExit = exit
    /\ nrMode = (IF nrCfg.head THEN "tip" ELSE "direct") /\ nrHead = (IF nrCfg.head THEN "durable" ELSE "no")
    /\ nrSh = "none" /\ nrPend = 0 /\ nrIx = "none"
    /\ nrFollow = FALSE /\ nrShReady = FALSE
    /\ nrWallet = FALSE /\ nrRpc = "none" /\ nrStop = FALSE /\ nrPoll = FALSE
    /\ nrLane = [queued |-> FALSE, running |-> FALSE] /\ nrLeft = NrBlocks
    /\ nrDirty = {} /\ nrPeers = TRUE /\ nrFirst = "none" /\ nrLate = FALSE
NrInit == nrCfg \in NrConfigs /\ NrBare("overlays", "none")

MainStep == \/ Overlays \/ SpawnAppender \/ EarlyRpc \/ CatchUpDone \/ enter_tip_mode \/ AppenderAtTip
            \/ IndexEntry \/ Serve \/ LateRpc \/ EnterFollow \/ LoopEnds \/ LoopTop \/ Woke \/ CloseServers
            \/ RequestStop \/ JoinWriters \/ Drain \/ Flush \/ EndSessions \/ Leave
AppenderStep == AppendOne \/ AppendFault \/ AppenderStops
LaneWork == BeginAccept \/ EndAccept
NrNext == \/ MainStep \/ AppenderStep \/ LaneWork \/ PollStop
          \/ IndexWrite \/ IndexFault \/ IndexStops \/ Signal \/ RpcStop \/ HandBlock

NrSpec == NrInit /\ [][NrNext]_nrVars

-----------------------------------------------------------------------------
NodeEnded == nrAt = "gone" /\ nrExit # "overlay"

\* The final flush covers every write of the run but those of an accept that
\* began after the lane was drained: both writers are joined before it, and
\* they cannot start again.
FlushCovers == NodeEnded => /\ nrSh # "run" /\ nrIx # "run"
                            /\ nrDirty \subseteq (IF nrLate THEN {"tip"} ELSE {})

\* The process exits with its first failure, from whichever thread, and with
\* success when it was only asked to stop.
ExitIsFirstFailure == NodeEnded => nrExit = (IF nrFirst = "none" THEN "ok" ELSE nrFirst)

\* From tip entry on, blocks handed to the appender have an appender: Tip
\* mode with the index on never runs without one.
TipModeHasAppender ==
    (nrAt \in {"serve", "servers", "follow?", "follow", "wait", "close"} /\ nrMode = "tip" /\ nrCfg.shindex)
        => nrSh # "none"

\* A stop from a signal, the RPC stop method or a failed writer, and the
\* deadline, end the process.
StopEnds == (nrReq \/ (nrRpc = "up" /\ nrStop) \/ (nrAt = "follow" /\ nrCfg.capped)) ~> (nrAt = "gone")

\* Once the scripthash index has caught up with no more blocks to come, a
\* following node binds its wallet listeners or stops.
WalletsBind == (nrAt = "follow" /\ ShCaughtUp /\ nrLeft = 0 /\ nrLane = [queued |-> FALSE, running |-> FALSE])
                   ~> (nrWallet \/ nrReq \/ nrAt = "gone")

\* "In-flight tip accepts hold the hub. Drain them before the store flush."
\* (run.rs): no accept runs while the store is flushed.
DrainedAtFlush == nrAt = "flush" => ~nrLane.running

\* The run ends flushed, with its first failure, and never without an
\* appender in tip mode.
NodeSafe == FlushCovers /\ ExitIsFirstFailure /\ TipModeHasAppender
=============================================================================
