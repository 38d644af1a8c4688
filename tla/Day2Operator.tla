---------------------------- MODULE Day2Operator ----------------------------
(***************************************************************************)
(* The Windows Day-2 operator session: bootstrap to branded evidence,      *)
(* start an operational bridge on it, then re-collect the evidence on a    *)
(* timer and replace the bridge from every new cycle                       *)
(* (src/windows-day2-operator-session.mjs with                             *)
(* src/windows-authorization-evidence-refresh.mjs and                      *)
(* src/windows-authorization-ready-bootstrap.mjs).  The refresh ticks run  *)
(* on one promise chain next to the session's own start and stop.          *)
(***************************************************************************)
EXTENDS Naturals

CONSTANTS
    MaxPending,     \* bound: ticks waiting on the chain
    MaxRefused      \* bound: bridges of which something refused to close

ASSUME MaxPendingAssumption == MaxPending \in Nat \ {0}
ASSUME MaxRefusedAssumption == MaxRefused \in Nat

VARIABLES
    hostReady,      \* would a collection find complete evidence now
    main,           \* where startWindowsDay2OperatorSession stands
    stop,           \* the session's stop(): no, chain, closing, stopped
    refresh,        \* the refresh loop: off, on, stopped
    pending, tick,  \* ticks chained and not begun; the await the current one is at
    cycleReady,     \* is the evidence of the cycle at hand complete
    snapshotReady,  \* authorization_ready of the last snapshot (lastReady)
    bridge,         \* the handle: null, or a bridge started on ready/unready evidence
    orphans,        \* bridges still running, or partly, that no variable refers to
    refused,        \* bridges that were closed and of which a part refused to
    client,         \* a client of the bridge being closed: none, holds, left
    tempDir,        \* the collectors' directory: none, made, broken, left
    process         \* running, or ended

sessionVars == <<main, stop>>
refreshVars == <<refresh, pending, tick, cycleReady, snapshotReady>>
bridgeVars == <<bridge, orphans, refused, client>>
vars == <<hostReady, sessionVars, refreshVars, bridgeVars, tempDir, process>>

MainSteps == {"bootstrap", "apply", "bridge", "announce", "settle", "open",
              "catch", "failed"}
TickSteps == {"none", "collect", "emit", "start"}

Init ==
    /\ hostReady \in BOOLEAN
    /\ main = "bootstrap" /\ stop = "no"
    /\ refresh = "off" /\ pending = 0 /\ tick = "none"
    /\ cycleReady = FALSE /\ snapshotReady = FALSE
    /\ bridge = "null" /\ orphans = 0 /\ refused = 0 /\ client = "none"
    /\ tempDir = "none"
    /\ process = "running"

Alive == process = "running"

\* The boundary facts of the host change: service stopped, ACL repaired...
HostChanges ==
    /\ Alive
    /\ hostReady' = ~hostReady
    /\ UNCHANGED <<sessionVars, refreshVars, bridgeVars, tempDir, process>>

\* ensureHelperPath makes the directory once and writes the helper into it; a
\* write that fails leaves a directory whose path nobody keeps, and no later
\* cycle gets a helper.
HelperDir(ready) ==
    /\ tempDir' \in {tempDir} \cup IF tempDir = "none" THEN {"made", "broken"} ELSE {}
    /\ ready => tempDir' = "made"

\* refreshWindowsAuthorizationEvidenceOnce: a failing collector yields the
\* incomplete evidence, so a cycle may be unready on a ready host, never the
\* other way round.
Cycle(ready) ==
    /\ ready => hostReady
    /\ cycleReady' = ready
    /\ HelperDir(ready)

\* The assignment bridge = await startBridge(evidence): a handle that is
\* overwritten keeps running.
AssignBridge(ready) ==
    /\ bridge' = IF ready THEN "ready" ELSE "unready"
    /\ orphans' = IF bridge = "null" THEN orphans ELSE orphans + 1
    /\ UNCHANGED <<refused, client>>

\* Mutant: refresh.stop() returns without awaiting its chain.
MutantChainDone == refresh # "on"

\* refresh.stop() awaits the chain: no tick is running or waiting.
ChainDone == refresh # "on" /\ tick = "none" /\ pending = 0

\* bridge.close() is awaited.
ClosingBridge ==
    /\ bridge # "null"
    /\ tick = "emit" \/ stop = "closing" \/ (main = "catch" /\ ChainDone)

\* A client of the bridge keeps its close() waiting, for as long as it likes
\* (closeHttp of operational-bridge has no limit), and lets go of it.
ClientHolds ==
    /\ Alive /\ ClosingBridge /\ client = "none"
    /\ client' = "holds"
    /\ UNCHANGED <<hostReady, sessionVars, refreshVars, bridge, orphans,
                   refused, tempDir, process>>

ClientLeaves ==
    /\ Alive /\ client = "holds"
    /\ client' = "left"
    /\ UNCHANGED <<hostReady, sessionVars, refreshVars, bridge, orphans,
                   refused, tempDir, process>>

\* The awaited close() settles.  A part of the bridge whose own close()
\* rejected may go on running; the handle is given up all the same.
BridgeCloses ==
    /\ client # "holds" /\ client' = "none"
    /\ bridge' = "null"
    /\ \/ UNCHANGED <<orphans, refused>>
       \/ /\ bridge # "null" /\ refused < MaxRefused
          /\ orphans' = orphans + 1 /\ refused' = refused + 1

\* dispose(): best effort, whatever it meets the directory is forgotten.
DisposeCollectors ==
    tempDir' \in CASE tempDir = "made" -> {"none", "left"}
                   [] tempDir = "broken" -> {"left"}
                   [] OTHER -> {tempDir}

-----------------------------------------------------------------------------
(* startWindowsDay2OperatorSession.                                        *)

(* The bootstrap collects and composes once.  Unready evidence leads to    *)
(* one helper apply (if the target ACL is what is missing and no collector *)
(* failed) or to authorization_not_ready.                                  *)
Bootstrap(ready) ==
    /\ Alive /\ main = "bootstrap"
    /\ Cycle(ready)
    /\ main' \in IF ready THEN {"bridge"} ELSE {"apply", "catch"}
    /\ UNCHANGED <<hostReady, stop, refresh, pending, tick, snapshotReady,
                   bridgeVars, process>>

(* The apply has run; the evidence is collected once more.                 *)
ApplyAndCollect(ready) ==
    /\ Alive /\ main = "apply"
    /\ hostReady' \in {hostReady, TRUE}
    /\ ready => hostReady'
    /\ cycleReady' = ready
    /\ HelperDir(ready)
    /\ main' = IF ready THEN "bridge" ELSE "catch"
    /\ UNCHANGED <<stop, refresh, pending, tick, snapshotReady, bridgeVars, process>>

(* lastReady is true, the first bridge is started on the ready evidence.   *)
FirstBridge ==
    /\ Alive /\ main = "bridge"
    /\ AssignBridge(cycleReady)
    /\ snapshotReady' = TRUE
    /\ main' = "announce"
    /\ UNCHANGED <<hostReady, stop, refresh, pending, tick, cycleReady,
                   tempDir, process>>

(* The refresh loop starts; its first tick is chained at once.             *)
StartRefresh ==
    /\ Alive /\ main = "announce"
    /\ refresh' = "on"
    /\ pending' = 1
    /\ main' = "settle"
    /\ UNCHANGED <<hostReady, stop, tick, cycleReady, snapshotReady,
                   bridgeVars, tempDir, process>>

(* day2_started has been emitted: the handle is returned.                  *)
SessionOpens ==
    /\ Alive /\ main = "settle"
    /\ main' = "open"
    /\ UNCHANGED <<hostReady, stop, refreshVars, bridgeVars, tempDir,
                   process>>

(* A bootstrap, bridge start or event callback throws.  refresh.stop() of  *)
(* the catch takes effect at once if the loop was started.                 *)
StartThrows ==
    /\ Alive /\ main \in {"bootstrap", "apply", "bridge", "announce", "settle"}
    /\ main' = "catch"
    /\ refresh' = IF refresh = "on" THEN "stopped" ELSE refresh
    /\ UNCHANGED <<hostReady, stop, pending, tick, cycleReady, snapshotReady,
                   bridgeVars, tempDir, process>>

(* catch: the chain has ended, the bridge is closed, the collectors are    *)
(* disposed of and the error is rethrown.                                  *)
CatchEnds ==
    /\ Alive /\ main = "catch"
    /\ ChainDone
    /\ BridgeCloses
    /\ DisposeCollectors
    /\ main' = "failed"
    /\ UNCHANGED <<hostReady, stop, refreshVars, process>>

-----------------------------------------------------------------------------
(* The refresh loop.                                                       *)

(* The timer chains another tick, whether or not the last one has ended.   *)
IntervalFires ==
    /\ Alive /\ refresh = "on"
    /\ pending < MaxPending
    /\ pending' = pending + 1
    /\ UNCHANGED <<hostReady, sessionVars, refresh, tick, cycleReady,
                   snapshotReady, bridgeVars, tempDir, process>>

\* Mutant: a stopped loop no longer takes the ticks off its chain.
MutantTickBegins ==
    /\ Alive /\ refresh = "on"
    /\ tick = "none" /\ pending > 0
    /\ pending' = pending - 1
    /\ tick' = "collect"
    /\ UNCHANGED <<hostReady, sessionVars, refresh, cycleReady, snapshotReady,
                   bridgeVars, tempDir, process>>

(* The next tick of the chain begins; a stopped loop lets it pass.         *)
TickBegins ==
    /\ Alive /\ refresh # "off"
    /\ tick = "none" /\ pending > 0
    /\ pending' = pending - 1
    /\ tick' = IF refresh = "stopped" THEN "none" ELSE "collect"
    /\ UNCHANGED <<hostReady, sessionVars, refresh, cycleReady, snapshotReady,
                   bridgeVars, tempDir, process>>

(* The cycle is composed.  Stopped meanwhile: it is dropped.  Otherwise it *)
(* becomes the last snapshot and onSnapshot is called.                     *)
TickCollected(ready) ==
    /\ Alive /\ tick = "collect"
    /\ Cycle(ready)
    /\ IF refresh = "stopped"
          THEN tick' = "none" /\ UNCHANGED snapshotReady
          ELSE tick' = "emit" /\ snapshotReady' = ready
    /\ UNCHANGED <<hostReady, sessionVars, refresh, pending, bridgeVars, process>>

\* Mutant: only a cycle that is still ready replaces the bridge.
MutantTickClosesBridge ==
    /\ Alive /\ tick = "emit"
    /\ IF cycleReady THEN BridgeCloses /\ tick' = "start"
                     ELSE tick' = "none" /\ UNCHANGED bridgeVars
    /\ UNCHANGED <<hostReady, sessionVars, refresh, pending, cycleReady,
                   snapshotReady, tempDir, process>>

(* onSnapshot has emitted its events; replaceBridge closes the old bridge. *)
TickClosesBridge ==
    /\ Alive /\ tick = "emit"
    /\ BridgeCloses
    /\ tick' = "start"
    /\ UNCHANGED <<hostReady, sessionVars, refresh, pending, cycleReady,
                   snapshotReady, tempDir, process>>

(* The new bridge is up, on the evidence of this cycle.                    *)
TickStartsBridge ==
    /\ Alive /\ tick = "start"
    /\ AssignBridge(cycleReady)
    /\ tick' = "none"
    /\ UNCHANGED <<hostReady, sessionVars, refresh, pending, cycleReady,
                   snapshotReady, tempDir, process>>

\* The process ends, and with it all that ran in it.
ProcessEnds ==
    /\ process' = "ended"
    /\ bridge' = "null" /\ orphans' = 0 /\ refused' = 0 /\ client' = "none"
    /\ UNCHANGED <<hostReady, sessionVars, refreshVars, tempDir>>

(* A compose error, an event callback or a bridge start rejects the chain. *)
(* A stop() or catch that awaits the chain swallows it, and the ticks left *)
(* on it are skipped; otherwise the unhandled rejection ends the process.  *)
TickFails ==
    /\ Alive /\ tick # "none" /\ client = "none"
    /\ IF refresh = "stopped"
          THEN /\ tick' = "none" /\ pending' = 0
               /\ UNCHANGED <<hostReady, sessionVars, refresh, cycleReady,
                              snapshotReady, bridgeVars, tempDir, process>>
          ELSE ProcessEnds

-----------------------------------------------------------------------------
(* stop() of the session, and the operator's signal.                       *)

Stop ==
    /\ Alive /\ main = "open" /\ stop = "no"
    /\ stop' = "chain"
    /\ refresh' = "stopped"
    /\ UNCHANGED <<hostReady, main, pending, tick, cycleReady, snapshotReady,
                   bridgeVars, tempDir, process>>

StopChainDone ==
    /\ Alive /\ stop = "chain"
    /\ ChainDone
    /\ stop' = "closing"
    /\ UNCHANGED <<hostReady, main, refreshVars, bridgeVars, tempDir,
                   process>>

(* The bridge that is current by now is closed, the collectors disposed of. *)
StopEnds ==
    /\ Alive /\ stop = "closing"
    /\ BridgeCloses
    /\ DisposeCollectors
    /\ stop' = "stopped"
    /\ UNCHANGED <<hostReady, main, refreshVars, process>>

(* The runner exits: after stop(), after a failed start, on a signal that  *)
(* comes while the start is still awaited and no session is known, or on   *)
(* the second signal of a kind, which has no listener any more.            *)
RunnerExits ==
    /\ Alive
    /\ stop # "no" \/ main # "open"
    /\ ProcessEnds

-----------------------------------------------------------------------------

Start ==
    \/ \E ready \in BOOLEAN : Bootstrap(ready) \/ ApplyAndCollect(ready)
    \/ FirstBridge \/ StartRefresh \/ SessionOpens \/ StartThrows \/ CatchEnds

Tick ==
    \/ TickBegins
    \/ \E ready \in BOOLEAN : TickCollected(ready)
    \/ TickClosesBridge \/ TickStartsBridge \/ TickFails

Stopping == StopChainDone \/ StopEnds

Next == Start \/ Tick \/ IntervalFires \/ Stop \/ Stopping
        \/ HostChanges \/ ClientHolds \/ ClientLeaves \/ RunnerExits

Spec == Init /\ [][Next]_vars

(* Awaited work settles, on both promise chains, except a close() that a   *)
(* client holds; the timer keeps firing.                                   *)
FairSpec ==
    Spec /\ WF_vars(Start) /\ WF_vars(Tick) /\ WF_vars(Stopping)
         /\ WF_vars(IntervalFires)

-----------------------------------------------------------------------------
(* Properties.                                                             *)

(* The type of every variable of the session.                              *)
TypeOK ==
    /\ hostReady \in BOOLEAN
    /\ main \in MainSteps /\ stop \in {"no", "chain", "closing", "stopped"}
    /\ refresh \in {"off", "on", "stopped"}
    /\ pending \in 0..MaxPending /\ tick \in TickSteps
    /\ cycleReady \in BOOLEAN /\ snapshotReady \in BOOLEAN
    /\ bridge \in {"null", "ready", "unready"} /\ orphans \in Nat
    /\ refused \in 0..MaxRefused /\ client \in {"none", "holds", "left"}
    /\ tempDir \in {"none", "made", "broken", "left"} /\ process \in {"running", "ended"}

(* stop() and a failed start leave nothing behind, however they interleave *)
(* with a tick that is replacing the bridge, but what refused to go: parts *)
(* of a bridge whose own close() rejected, and a directory that dispose()  *)
(* could not remove.  No bridge was lost, and no tick makes another helper *)
(* directory after the last dispose().                                     *)
NothingAfterStop ==
    Alive /\ (stop = "stopped" \/ main = "failed") =>
        bridge = "null" /\ orphans = refused /\ tempDir \in {"none", "left"}

(* No bridge is ever lost while the session replaces it, so at most one    *)
(* holds the discovery port.                                               *)
NoOrphanBridge == orphans = refused

(* Between two ticks of a running loop the bridge reports the              *)
(* authorization of the last snapshot; only a tick under way may still     *)
(* show the older one.                                                     *)
BridgeMatchesSnapshot ==
    refresh = "on" /\ tick = "none" /\ bridge # "null" =>
        (bridge = "ready" <=> snapshotReady)

(* What these rest on: where the bridge exists and who may touch it.       *)
Day2Inv ==
    /\ TypeOK
    /\ NothingAfterStop
    /\ NoOrphanBridge
    /\ BridgeMatchesSnapshot
    /\ tick = "start" => bridge = "null"
    /\ main \in {"bootstrap", "apply", "bridge"} => bridge = "null"
    /\ refresh = "off" => tick = "none" /\ pending = 0
    /\ main \in {"bootstrap", "apply", "bridge", "announce"} => refresh = "off"
    /\ main = "settle" \/ (main = "open" /\ stop = "no") => refresh = "on"
    /\ main \in {"catch", "failed"} => refresh # "on"
    /\ main = "failed" => ChainDone
    /\ main = "bridge" => cycleReady
    /\ Alive /\ main = "announce" => bridge = "ready" /\ snapshotReady
    /\ stop # "no" => main = "open" /\ refresh = "stopped"
    /\ stop \in {"closing", "stopped"} => ChainDone
    /\ tick \in {"emit", "start"} => cycleReady = snapshotReady

(* If the host stops being ready for good, the session eventually runs no  *)
(* bridge that claims authorization: the drift is applied, unless a client *)
(* keeps the old bridge's close() waiting for ever.                        *)
DriftIsApplied ==
    (<>[]~hostReady) => <>[](bridge # "ready") \/ <>[](client = "holds")

(* stop() completes although ticks are still queued or replacing a bridge, *)
(* unless the process is killed or a client holds the bridge for ever.     *)
StopCompletes ==
    stop = "chain" ~> stop = "stopped" \/ ~Alive \/ [](client = "holds")
=============================================================================
