----------------------------- MODULE ProxyRuntime -----------------------------
(***************************************************************************)
(* The OneCLI proxy as its supervisor runs it: the supervisor in the        *)
(* bridge's process (onecli-proxy-runtime-supervisor.js), the child process *)
(* it starts (run-onecli-proxy.mjs with onecli-proxy-runtime-frame.js) and  *)
(* the connections of the broker within the child (onecli-proxy-broker.js). *)
(* The three meet in a pair of frames, a ready record, signals and the      *)
(* lease: a pipe whose end tells the child that nobody holds it any more.   *)
(***************************************************************************)
EXTENDS Naturals, FiniteSets

CONSTANTS
    Clients,        \* connections of clients
    MaxClients      \* MAX_CONCURRENT_PROXY_CLIENTS: 16

ASSUME ProxyAssumption == IsFiniteSet(Clients) /\ MaxClients \in Nat

VARIABLES
    parentUp,   \* the process of the supervisor is alive
    sup,        \* the supervisor
    child,      \* the child process
    lease,      \* the parent's end of the lease is open
    tunnel      \* the connections of the broker

proxyVars == <<parentUp, sup, child, lease, tunnel>>

NewSupervisor == [at |-> "idle", closeRequested |-> FALSE, active |-> FALSE,
                  readyRead |-> FALSE, outputViolation |-> FALSE,
                  exitSeen |-> FALSE]

NoChild == [at |-> "none", leaseEnded |-> FALSE, readyEmitted |-> FALSE,
            noise |-> FALSE, term |-> FALSE, stuck |-> FALSE, code |-> 0]

NoTunnel == [at |-> "none", client |-> "gone", upstream |-> "gone"]

AllTunnelsGone == [k \in Clients |-> NoTunnel]

ProxyInit ==
    /\ parentUp = TRUE
    /\ sup = NewSupervisor
    /\ child = NoChild
    /\ lease = FALSE
    /\ tunnel = AllTunnelsGone

ChildRuns == child.at \notin {"none", "gone"}

\* What ends with the process, whoever ends it.
ChildExits(code) ==
    /\ child' = [child EXCEPT !.at = "gone", !.code = code]
    /\ tunnel' = AllTunnelsGone

-----------------------------------------------------------------------------
(* startOneCliProxyRuntimeSupervisor.                                      *)

Starting == {"spawn", "frames", "ready", "verify"}
Stopping == {"graceful", "terminating", "killing"}

\* The token and the policy were valid; the call may also be refused.
SupervisorStarts ==
    /\ parentUp /\ sup.at \in {"idle", "done"} /\ ~ChildRuns
    /\ sup' = [NewSupervisor EXCEPT !.at = "spawn"]
    /\ child' = NoChild /\ lease' = FALSE
    /\ UNCHANGED <<parentUp, tunnel>>

Spawned ==
    /\ parentUp /\ sup.at = "spawn"
    /\ sup' = [sup EXCEPT !.at = "frames"]
    /\ child' = [NoChild EXCEPT !.at = "frames"]
    /\ lease' = TRUE
    /\ UNCHANGED <<parentUp, tunnel>>

\* The child emits error and never exit, and forceStop waits for its exit.
SpawnFails ==
    /\ parentUp /\ sup.at = "spawn"
    /\ sup' = [sup EXCEPT !.at = "hung", !.closeRequested = TRUE]
    /\ UNCHANGED <<parentUp, child, lease, tunnel>>

FramesWritten ==
    /\ parentUp /\ sup.at = "frames"
    /\ sup' = [sup EXCEPT !.at = "ready"]
    /\ UNCHANGED <<parentUp, child, lease, tunnel>>

\* readReadyRecord: one line that names a loopback port.  What else the child
\* wrote by then may still be unread.
ReadyRead ==
    /\ parentUp /\ sup.at = "ready"
    /\ child.readyEmitted
    /\ sup' = [sup EXCEPT !.at = "verify", !.readyRead = TRUE]
    /\ UNCHANGED <<parentUp, child, lease, tunnel>>

\* forceStop ends the lease and waits for the exit.
ForceStop(s) == [s EXCEPT !.at = IF s.exitSeen THEN "done" ELSE "graceful",
                          !.closeRequested = TRUE]

\* A frame is not written, the ready record is late or wrong, there is output
\* next to it, the child is gone, or its listener does not answer.
StartupFails ==
    /\ parentUp /\ sup.at \in {"frames", "ready", "verify"}
    /\ sup' = ForceStop(sup)
    /\ lease' = FALSE
    /\ UNCHANGED <<parentUp, child, tunnel>>

\* Mutant: nobody looks whether the child wrote more meanwhile.
VerifiedUnchecked ==
    /\ parentUp /\ sup.at = "verify"
    /\ sup' = [sup EXCEPT !.at = "active", !.active = TRUE]
    /\ UNCHANGED <<parentUp, child, lease, tunnel>>

\* verifyLoopbackListener connected.
Verified ==
    /\ parentUp /\ sup.at = "verify"
    /\ ~sup.outputViolation /\ ~sup.exitSeen
    /\ sup' = [sup EXCEPT !.at = "active", !.active = TRUE]
    /\ UNCHANGED <<parentUp, child, lease, tunnel>>

\* rejectUnexpectedOutput, at any time after the ready record.
OutputSeen ==
    /\ parentUp /\ sup.readyRead /\ sup.at # "done"
    /\ child.noise /\ ~sup.outputViolation
    /\ sup' = [sup EXCEPT !.outputViolation = TRUE, !.active = FALSE]
    /\ lease' = FALSE
    /\ IF ChildRuns THEN ChildExits(9) ELSE UNCHANGED <<child, tunnel>>
    /\ UNCHANGED parentUp

\* close(): the first call stops the child, later ones return its promise.
CloseCalled ==
    /\ parentUp /\ sup.at = "active"
    /\ sup' = ForceStop(sup)
    /\ lease' = FALSE
    /\ UNCHANGED <<parentUp, child, tunnel>>

\* GRACEFUL_CLOSE_TIMEOUT_MS.
GraceOver ==
    /\ parentUp /\ sup.at = "graceful"
    /\ sup' = [sup EXCEPT !.at = "terminating"]
    /\ child' = [child EXCEPT !.term = ChildRuns]
    /\ UNCHANGED <<parentUp, lease, tunnel>>

\* TERMINATE_TIMEOUT_MS.
TerminationOver ==
    /\ parentUp /\ sup.at = "terminating"
    /\ sup' = [sup EXCEPT !.at = "killing"]
    /\ IF ChildRuns THEN ChildExits(9) ELSE UNCHANGED <<child, tunnel>>
    /\ UNCHANGED <<parentUp, lease>>

\* The exit event of the child.
ExitSeen ==
    /\ parentUp /\ child.at = "gone" /\ ~sup.exitSeen
    /\ sup.at \notin {"idle", "spawn", "done"}
    /\ sup' = [sup EXCEPT !.exitSeen = TRUE, !.active = FALSE,
                          !.at = IF @ \in Stopping \cup {"ready", "active"}
                                   THEN "done" ELSE @]
    /\ lease' = FALSE
    /\ UNCHANGED <<parentUp, child, tunnel>>

ParentDies ==
    /\ parentUp /\ sup.at # "idle"
    /\ parentUp' = FALSE /\ lease' = FALSE
    /\ UNCHANGED <<sup, child, tunnel>>

ParentReturns ==
    /\ ~parentUp /\ ~ChildRuns
    /\ parentUp' = TRUE /\ sup' = NewSupervisor /\ child' = NoChild
    /\ UNCHANGED <<lease, tunnel>>

-----------------------------------------------------------------------------
(* main() of run-onecli-proxy.mjs.                                         *)

\* The child takes a step: it runs, and its event loop is not blocked.
Child(at) == child.at = at /\ ~child.stuck

\* Both frames are complete and valid.  The broker is not started when the
\* lease has ended meanwhile.
FramesRead ==
    /\ Child("frames")
    /\ sup.at \notin {"spawn", "frames"}
    /\ IF child.leaseEnded THEN ChildExits(72)
       ELSE child' = [child EXCEPT !.at = "listen"] /\ UNCHANGED tunnel
    /\ UNCHANGED <<parentUp, sup, lease>>

\* A frame that is late, wrong or for another policy, or a failed listen.
RuntimeFails ==
    /\ Child("frames") \/ Child("listen")
    /\ ChildExits(70)
    /\ UNCHANGED <<parentUp, sup, lease>>

\* startOneCliProxyBroker listens.  It closes again when the lease ended,
\* otherwise the ready record is written.
Listened ==
    /\ Child("listen")
    /\ IF child.leaseEnded THEN ChildExits(72)
       ELSE /\ child' = [child EXCEPT !.at = "serving", !.readyEmitted = TRUE]
            /\ UNCHANGED tunnel
    /\ UNCHANGED <<parentUp, sup, lease>>

\* closeProxyServer destroys every client; server.close calls back later.
BrokerCloses(c) ==
    /\ child' = [c EXCEPT !.at = "closing"]
    /\ tunnel' = [k \in Clients |-> [tunnel[k] EXCEPT !.client = "gone"]]

\* Mutant: the end of the lease only marks the start as aborted.
LeaseEndNoted ==
    /\ ChildRuns /\ ~child.stuck /\ ~child.leaseEnded /\ ~lease
    /\ child' = [child EXCEPT !.leaseEnded = TRUE]
    /\ UNCHANGED <<parentUp, sup, lease, tunnel>>

\* monitorParentLease.
LeaseEndSeen ==
    /\ ChildRuns /\ ~child.stuck /\ ~child.leaseEnded /\ ~lease
    /\ IF child.at = "serving"
         THEN BrokerCloses([child EXCEPT !.leaseEnded = TRUE])
         ELSE child' = [child EXCEPT !.leaseEnded = TRUE] /\ UNCHANGED tunnel
    /\ UNCHANGED <<parentUp, sup, lease>>

\* terminate: without a broker there is nothing to close.
TerminateSeen ==
    /\ ChildRuns /\ ~child.stuck /\ child.term
    /\ CASE child.at = "serving" -> BrokerCloses([child EXCEPT !.term = FALSE])
         [] child.at = "closing" -> child' = [child EXCEPT !.term = FALSE] /\ UNCHANGED tunnel
         [] OTHER -> ChildExits(0)
    /\ UNCHANGED <<parentUp, sup, lease>>

BrokerClosed ==
    /\ Child("closing")
    /\ ChildExits(0)
    /\ UNCHANGED <<parentUp, sup, lease>>

\* The child is not under the supervisor's control: it may fail, block or
\* write to its output.
ChildCrashes ==
    /\ ChildRuns
    /\ ChildExits(1)
    /\ UNCHANGED <<parentUp, sup, lease>>

ChildBlocks ==
    /\ ChildRuns /\ ~child.stuck
    /\ child' = [child EXCEPT !.stuck = TRUE]
    /\ UNCHANGED <<parentUp, sup, lease, tunnel>>

ChildWrites ==
    /\ ChildRuns /\ ~child.stuck /\ ~child.noise
    /\ child' = [child EXCEPT !.noise = TRUE]
    /\ UNCHANGED <<parentUp, sup, lease, tunnel>>

-----------------------------------------------------------------------------
(* The broker: CONNECT tunnels and requests in absolute form.              *)

Connected == {k \in Clients : tunnel[k].client = "open"}

\* Connections over the limit are destroyed.
ClientConnects(k) ==
    /\ Child("serving") /\ tunnel[k] = NoTunnel
    /\ Cardinality(Connected) < MaxClients
    /\ tunnel' = [tunnel EXCEPT ![k].client = "open"]
    /\ UNCHANGED <<parentUp, sup, child, lease>>

\* handleConnect and handleAbsoluteRequest for the target of the policy: the
\* gateway is asked.
GatewayAsked(k, what) ==
    /\ Child("serving")
    /\ tunnel[k].at = "none" /\ tunnel[k].client = "open"
    /\ tunnel' = [tunnel EXCEPT ![k].at = what, ![k].upstream = "asked"]
    /\ UNCHANGED <<parentUp, sup, child, lease>>

\* Mutant: nobody looks whether the client is still there.
TunnelOpensBlindly(k) ==
    /\ ChildRuns /\ ~child.stuck
    /\ tunnel[k].at = "connect" /\ tunnel[k].upstream = "asked"
    /\ tunnel' = [tunnel EXCEPT ![k].at = "tunnel", ![k].upstream = "open"]
    /\ UNCHANGED <<parentUp, sup, child, lease>>

\* The gateway accepts the CONNECT.
TunnelOpens(k) ==
    /\ ChildRuns /\ ~child.stuck
    /\ tunnel[k].at = "connect" /\ tunnel[k].upstream = "asked"
    /\ tunnel' = [tunnel EXCEPT ![k] =
          IF @.client = "open" THEN [@ EXCEPT !.at = "tunnel", !.upstream = "open"]
                               ELSE NoTunnel]
    /\ UNCHANGED <<parentUp, sup, child, lease>>

\* Every other end of a handshake or a request: the gateway refuses, fails or
\* is too slow, the request was aborted with its client, or the reply (fixed,
\* when it is no success, is encoded or holds the token) was written.  All of
\* them close the connection.
ExchangeEnds(k) ==
    /\ ChildRuns /\ ~child.stuck
    /\ \/ tunnel[k].upstream = "asked"
       \/ tunnel[k].at = "none" /\ tunnel[k].client = "open"
    /\ tunnel' = [tunnel EXCEPT ![k] = NoTunnel]
    /\ UNCHANGED <<parentUp, sup, child, lease>>

\* A client leaves, is idle for too long, or is cut off at a limit.
ClientGone(k) ==
    /\ ChildRuns /\ tunnel[k].client = "open"
    /\ tunnel' = [tunnel EXCEPT ![k].client = "gone"]
    /\ UNCHANGED <<parentUp, sup, child, lease>>

UpstreamGone(k) ==
    /\ ChildRuns /\ tunnel[k].upstream = "open"
    /\ tunnel' = [tunnel EXCEPT ![k].upstream = "gone"]
    /\ UNCHANGED <<parentUp, sup, child, lease>>

\* The race of the two closes destroys both sides.
TunnelEnds(k) ==
    /\ ChildRuns /\ ~child.stuck /\ tunnel[k].at = "tunnel"
    /\ "gone" \in {tunnel[k].client, tunnel[k].upstream}
    /\ tunnel' = [tunnel EXCEPT ![k] = NoTunnel]
    /\ UNCHANGED <<parentUp, sup, child, lease>>

-----------------------------------------------------------------------------
SupervisorStep ==
    \/ Spawned \/ SpawnFails \/ FramesWritten \/ ReadyRead \/ StartupFails
    \/ Verified \/ OutputSeen \/ GraceOver \/ TerminationOver \/ ExitSeen

RuntimeStep ==
    \/ FramesRead \/ RuntimeFails \/ Listened \/ LeaseEndSeen \/ TerminateSeen
    \/ BrokerClosed

ProxyNext ==
    \/ SupervisorStarts \/ SupervisorStep \/ CloseCalled
    \/ ParentDies \/ ParentReturns
    \/ RuntimeStep \/ ChildCrashes \/ ChildBlocks \/ ChildWrites
    \/ \E k \in Clients :
          \/ ClientConnects(k)
          \/ \E what \in {"connect", "request"} : GatewayAsked(k, what)
          \/ TunnelOpens(k) \/ ExchangeEnds(k)
          \/ ClientGone(k) \/ UpstreamGone(k) \/ TunnelEnds(k)

ProxySpec == ProxyInit /\ [][ProxyNext]_proxyVars

\* The event loops of both processes run, and each wait has a timer: the
\* frames, the ready record, the probe of the listener, the two grace
\* periods and the handshake with the gateway.
ProxyFairness ==
    /\ WF_proxyVars(SupervisorStep) /\ WF_proxyVars(ExitSeen)
    /\ WF_proxyVars(RuntimeStep) /\ WF_proxyVars(LeaseEndSeen)
    /\ \A k \in Clients : WF_proxyVars(TunnelEnds(k))

FairProxySpec == ProxySpec /\ ProxyFairness

-----------------------------------------------------------------------------
\* Once the child wrote more than its ready record, the supervisor's handle
\* never gives out its address again, also when the output came while the
\* listener was being probed.
NoisyRuntimeIsInactive == sup.outputViolation => ~sup.active

\* A tunnel is opened only for a client that is still connected, and none is
\* opened once the broker closes, although the gateway may answer a CONNECT
\* at any time after its client left.
TunnelNeedsClient ==
    [][\A k \in Clients :
          tunnel'[k].at = "tunnel" /\ tunnel[k].at # "tunnel" =>
             tunnel[k].client = "open" /\ child.at = "serving"]_proxyVars

\* A child whose lease ended exits, whatever it was doing: the death of the
\* supervisor leaves no listener behind.  A blocked child goes only while
\* the supervisor lives, which escalates to SIGKILL.  A tunnel that lost one
\* side loses the other.
RuntimeEnds ==
    /\ ChildRuns /\ ~lease ~> ~ChildRuns \/ (child.stuck /\ ~parentUp)
    /\ \A k \in Clients :
          tunnel[k].at = "tunnel" /\ tunnel[k].client = "gone" ~>
             tunnel[k].upstream = "gone" \/ child.stuck

\* start and close() settle, even when the child is blocked, unless the
\* spawn itself fails asynchronously: then no exit event ever comes, and the
\* start waits for it forever.
SupervisorSettles ==
    sup.at \in Starting \cup Stopping ~>
       sup.at \in {"active", "done", "hung"} \/ ~parentUp

\* Supervisor, child and tunnels end together: nobody waits for ever on the
\* other side of the pipes.
ProxyWorkEnds == RuntimeEnds /\ SupervisorSettles
=============================================================================
