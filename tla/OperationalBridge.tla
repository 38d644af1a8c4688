-------------------------- MODULE OperationalBridge --------------------------
(***************************************************************************)
(* The in-process multi-service bridge (src/operational-bridge.mjs) run by *)
(* foreground processes (scripts/run-operational-bridge.mjs and its SM      *)
(* twin).  Every binding opens an upstream, then a broker before it; the    *)
(* discovery endpoint on its fixed port comes last.  A failure, a signal   *)
(* or a failed smoke test tears everything down in reverse.                *)
(***************************************************************************)
EXTENDS Naturals, Sequences, FiniteSets, SequencesExt

CONSTANTS
    Bridges,        \* processes on one machine that start a bridge
    NumServices,    \* length of the validated binding table of each process
    LoginServices,  \* the SSH and FTP services of the table, by position
    Callers         \* further callers of close() on one handle

ASSUME NumServicesAssumption == NumServices \in [Bridges -> 1..16]
ASSUME CallersAssumption == {"startup", "shutdown"} \cap Callers = {}

VARIABLES
    phase,      \* off, starting, up (a handle was returned), exited
    resources,  \* the resources pushed so far, in the order of pushing
    running,    \* resources that are up
    stuck,      \* resources whose close() rejected: they may still be up
    services,   \* how many services have been pushed
    teardown,   \* per caller of cleanup(): idle, what is left to close, done
    cleaning,   \* the flag of cleanup()
    waiter,     \* the client of the resource being closed: none, holds, left
    stopping,   \* the flag of shutdown() in the runner
    smoke       \* services whose smoke request has succeeded

operationalVars ==
    <<phase, resources, running, stuck, services, teardown, cleaning, waiter,
      stopping, smoke>>

ServicesOf(b) == 1..NumServices[b]

Positions == UNION {ServicesOf(b) : b \in Bridges}

Upstream(i) == <<"upstream", i>>
Broker(i) == <<"broker", i>>
Discovery == <<"discovery", 0>>

Resources == {Upstream(i) : i \in Positions} \cup {Broker(i) : i \in Positions}
             \cup {Discovery}

\* One cleanup() call: not called, closing what is in left, or returned.
NotCalled == [state |-> "idle", left |-> <<>>]
Returned == [state |-> "done", left |-> <<>>]

\* "startup" is the cleanup of startOperationalBridge's own catch blocks,
\* "shutdown" the close() that the runner awaits before it exits.
Cleaners == Callers \cup {"startup", "shutdown"}

BridgeInit ==
    /\ phase = [b \in Bridges |-> "off"]
    /\ resources = [b \in Bridges |-> <<>>]
    /\ running = [b \in Bridges |-> {}]
    /\ stuck = [b \in Bridges |-> {}]
    /\ services = [b \in Bridges |-> 0]
    /\ teardown = [b \in Bridges |-> [c \in Cleaners |-> NotCalled]]
    /\ cleaning = [b \in Bridges |-> FALSE]
    /\ waiter = [b \in Bridges |-> "none"]
    /\ stopping = [b \in Bridges |-> FALSE]
    /\ smoke = [b \in Bridges |-> {}]

\* The loopback port of discovery is free on this machine.
PortFree == \A b \in Bridges : Discovery \notin running[b]

Open(b, r) ==
    /\ resources' = [resources EXCEPT ![b] = Append(@, r)]
    /\ running' = [running EXCEPT ![b] = @ \cup {r}]

-----------------------------------------------------------------------------
(* startOperationalBridge.                                                 *)

(* The table, the profile and the authorization evidence are accepted.     *)
StartBridge(b) ==
    /\ phase[b] = "off"
    /\ phase' = [phase EXCEPT ![b] = "starting"]
    /\ UNCHANGED <<resources, running, stuck, services, teardown, cleaning,
                   waiter, stopping, smoke>>

(* The table, the profile or the evidence is rejected: nothing was opened. *)
Reject(b) ==
    /\ phase[b] = "off"
    /\ phase' = [phase EXCEPT ![b] = "exited"]
    /\ UNCHANGED <<resources, running, stuck, services, teardown, cleaning,
                   waiter, stopping, smoke>>

\* The binding being started and whether its upstream is already up.
Current(b) == services[b] + 1
UpstreamIsUp(b) == Len(resources[b]) % 2 = 1

(* Policy and secret of the next binding agree; its upstream has started.  *)
OpenUpstream(b) ==
    /\ phase[b] = "starting" /\ ~cleaning[b]
    /\ Current(b) \in ServicesOf(b) /\ ~UpstreamIsUp(b)
    /\ Open(b, Upstream(Current(b)))
    /\ UNCHANGED <<phase, stuck, services, teardown, cleaning, waiter, stopping,
                   smoke>>

(* The broker in front of it has started; the service is listed.           *)
OpenBroker(b) ==
    /\ phase[b] = "starting" /\ ~cleaning[b]
    /\ Current(b) \in ServicesOf(b) /\ UpstreamIsUp(b)
    /\ Open(b, Broker(Current(b)))
    /\ services' = [services EXCEPT ![b] = @ + 1]
    /\ UNCHANGED <<phase, stuck, teardown, cleaning, waiter, stopping, smoke>>

\* Mutant: resources are closed in the order they were opened.
MutantBeginCleanup(b, c) ==
    IF cleaning[b]
    THEN /\ teardown' = [teardown EXCEPT ![b][c] = Returned]
         /\ UNCHANGED cleaning
    ELSE /\ cleaning' = [cleaning EXCEPT ![b] = TRUE]
         /\ teardown' = [teardown EXCEPT ![b][c] =
               [state |-> "closing", left |-> resources[b]]]

(* cleanup(): the first call takes a reversed copy of the resources, any   *)
(* other call returns at once, also while the first is still closing.      *)
BeginCleanup(b, c) ==
    IF cleaning[b]
    THEN /\ teardown' = [teardown EXCEPT ![b][c] = Returned]
         /\ UNCHANGED cleaning
    ELSE /\ cleaning' = [cleaning EXCEPT ![b] = TRUE]
         /\ teardown' = [teardown EXCEPT ![b][c] =
               [state |-> "closing", left |-> Reverse(resources[b])]]

(* A policy, a secret, an upstream or a broker fails.                      *)
StartupFails(b) ==
    /\ phase[b] = "starting" /\ ~cleaning[b]
    /\ Current(b) \in ServicesOf(b)
    /\ BeginCleanup(b, "startup")
    /\ UNCHANGED <<phase, resources, running, stuck, services, waiter, stopping,
                   smoke>>

(* Discovery listens; the handle is returned.                              *)
DiscoveryBinds(b) ==
    /\ phase[b] = "starting" /\ ~cleaning[b]
    /\ Current(b) \notin ServicesOf(b)
    /\ PortFree
    /\ Open(b, Discovery)
    /\ phase' = [phase EXCEPT ![b] = "up"]
    /\ UNCHANGED <<stuck, services, teardown, cleaning, waiter, stopping, smoke>>

\* Mutant: a taken discovery port is reported without tearing down.
MutantDiscoveryFails(b) ==
    /\ phase[b] = "starting" /\ ~cleaning[b]
    /\ Current(b) \notin ServicesOf(b)
    /\ teardown' = [teardown EXCEPT ![b]["startup"] = Returned]
    /\ cleaning' = [cleaning EXCEPT ![b] = TRUE]
    /\ UNCHANGED <<phase, resources, running, stuck, services, waiter, stopping,
                   smoke>>

(* discovery_bind_failed: the port is taken, or any other listen error.    *)
DiscoveryFails(b) ==
    /\ phase[b] = "starting" /\ ~cleaning[b]
    /\ Current(b) \notin ServicesOf(b)
    /\ BeginCleanup(b, "startup")
    /\ UNCHANGED <<phase, resources, running, stuck, services, waiter, stopping,
                   smoke>>

-----------------------------------------------------------------------------
(* cleanup(), one awaited close() at a time.                               *)

(* A client that opened a connection to the resource now being closed does *)
(* not let go of it: the close() of the discovery server and of both SSH   *)
(* and FTP halves waits for every connection, without a limit; HTTP ones   *)
(* drop theirs.                                                            *)
ConnectionHeld(b) ==
    /\ phase[b] # "exited" /\ waiter[b] = "none"
    /\ \E c \in Cleaners :
          /\ teardown[b][c].left # <<>>
          /\ Head(teardown[b][c].left) = Discovery
             \/ Head(teardown[b][c].left)[2] \in LoginServices[b]
    /\ waiter' = [waiter EXCEPT ![b] = "holds"]
    /\ UNCHANGED <<phase, resources, running, stuck, services, teardown,
                   cleaning, stopping, smoke>>

(* It lets go, and a server that closes takes no other client.             *)
ConnectionDropped(b) ==
    /\ phase[b] # "exited" /\ waiter[b] = "holds"
    /\ waiter' = [waiter EXCEPT ![b] = "left"]
    /\ UNCHANGED <<phase, resources, running, stuck, services, teardown,
                   cleaning, stopping, smoke>>

\* Mutant: cleanup() waits for every resource to have closed.
MutantCleanupReturns(b, c) ==
    /\ phase[b] # "exited"
    /\ teardown[b][c] = [state |-> "closing", left |-> <<>>]
    /\ running[b] = {}
    /\ teardown' = [teardown EXCEPT ![b][c] = Returned]
    /\ resources' = [resources EXCEPT ![b] = <<>>]
    /\ UNCHANGED <<phase, running, stuck, services, cleaning, waiter, stopping,
                   smoke>>

(* The next close() settles; a rejection is swallowed and the loop goes on. *)
(* closeHttp of the discovery server cannot reject.                        *)
CloseResource(b, c) ==
    LET r == Head(teardown[b][c].left)
    IN  /\ phase[b] # "exited"
        /\ teardown[b][c].left # <<>> /\ waiter[b] # "holds"
        /\ teardown' = [teardown EXCEPT ![b][c].left = Tail(@)]
        /\ waiter' = [waiter EXCEPT ![b] = "none"]
        /\ \/ /\ running' = [running EXCEPT ![b] = @ \ {r}]
              /\ UNCHANGED stuck
           \/ /\ r # Discovery
              /\ stuck' = [stuck EXCEPT ![b] = @ \cup {r}]
              /\ UNCHANGED running
        /\ UNCHANGED <<phase, resources, services, cleaning, stopping, smoke>>

(* The loop is over: the list is emptied and the call returns.             *)
CleanupReturns(b, c) ==
    /\ phase[b] # "exited"
    /\ teardown[b][c] = [state |-> "closing", left |-> <<>>]
    /\ teardown' = [teardown EXCEPT ![b][c] = Returned]
    /\ resources' = [resources EXCEPT ![b] = <<>>]
    /\ UNCHANGED <<phase, running, stuck, services, cleaning, waiter, stopping,
                   smoke>>

(* Any holder of the handle may call close() once.                         *)
CloseCalled(b, c) ==
    /\ phase[b] = "up"
    /\ teardown[b][c] = NotCalled
    /\ BeginCleanup(b, c)
    /\ UNCHANGED <<phase, resources, running, stuck, services, waiter, stopping,
                   smoke>>

-----------------------------------------------------------------------------
(* The runner process.                                                     *)

\* process.exit: whatever the process ran is gone.
Exit(b) ==
    /\ phase' = [phase EXCEPT ![b] = "exited"]
    /\ running' = [running EXCEPT ![b] = {}]

(* smoke() asks each service in turn; it succeeds only while both of its   *)
(* halves are up.                                                          *)
SmokeRequest(b) ==
    /\ phase[b] = "up"
    /\ \E i \in ServicesOf(b) :
          /\ smoke[b] = 1..(i - 1)
          /\ {Upstream(i), Broker(i)} \subseteq running[b]
          /\ smoke' = [smoke EXCEPT ![b] = @ \cup {i}]
    /\ UNCHANGED <<phase, resources, running, stuck, services, teardown,
                   cleaning, waiter, stopping>>

\* shutdown() of a process that holds a handle: the runner's own close().
Shutdown(b) ==
    /\ stopping' = [stopping EXCEPT ![b] = TRUE]
    /\ BeginCleanup(b, "shutdown")

(* The first signal: with a handle it closes the bridge, without one (the  *)
(* start is still awaited) the process exits there and then.               *)
Signal(b) ==
    /\ phase[b] \in {"starting", "up"} /\ ~stopping[b]
    /\ IF phase[b] = "up"
          THEN /\ Shutdown(b)
               /\ UNCHANGED <<phase, running>>
          ELSE /\ stopping' = [stopping EXCEPT ![b] = TRUE]
               /\ Exit(b)
               /\ UNCHANGED <<teardown, cleaning>>
    /\ UNCHANGED <<resources, stuck, services, waiter, smoke>>

(* A later signal: the first of the other kind finds stopping set, the     *)
(* second of a kind has no listener any more and ends the process.         *)
SecondSignal(b) ==
    /\ phase[b] = "up" /\ stopping[b]
    /\ Exit(b)
    /\ UNCHANGED <<resources, stuck, services, teardown, cleaning, waiter,
                   stopping, smoke>>

(* A smoke request failed or threw: shutdown(1), unless one is under way.  *)
SmokeFails(b) ==
    /\ phase[b] = "up" /\ ~stopping[b]
    /\ smoke[b] # ServicesOf(b)
    /\ Shutdown(b)
    /\ UNCHANGED <<phase, resources, running, stuck, services, waiter, smoke>>

(* shutdown() after its awaited close(), or after a start that rejected.   *)
ProcessExits(b) ==
    /\ \/ /\ phase[b] = "up"
          /\ teardown[b]["shutdown"] = Returned
       \/ /\ phase[b] = "starting"
          /\ teardown[b]["startup"] = Returned
    /\ Exit(b)
    /\ UNCHANGED <<resources, stuck, services, teardown, cleaning, waiter,
                   stopping, smoke>>

-----------------------------------------------------------------------------

Progress(b) ==
    \/ OpenUpstream(b) \/ OpenBroker(b) \/ StartupFails(b)
    \/ DiscoveryBinds(b) \/ DiscoveryFails(b)
    \/ \E c \in Cleaners : CloseResource(b, c) \/ CleanupReturns(b, c)
    \/ ProcessExits(b)

BridgeNext ==
    \E b \in Bridges :
        \/ StartBridge(b) \/ Reject(b) \/ Progress(b) \/ SmokeRequest(b)
        \/ Signal(b) \/ SecondSignal(b) \/ SmokeFails(b)
        \/ ConnectionHeld(b) \/ ConnectionDropped(b)
        \/ \E c \in Callers : CloseCalled(b, c)

BridgeSpec == BridgeInit /\ [][BridgeNext]_operationalVars

(* Each awaited start settles, and each awaited close that no client holds. *)
BridgeFairSpec == BridgeSpec /\ \A b \in Bridges : WF_operationalVars(Progress(b))
-----------------------------------------------------------------------------
(* Properties.                                                             *)

(* The type of every variable of the bridges.                              *)
BridgeTypeOK ==
    /\ phase \in [Bridges -> {"off", "starting", "up", "exited"}]
    /\ resources \in [Bridges -> Seq(Resources)]
    /\ running \in [Bridges -> SUBSET Resources]
    /\ stuck \in [Bridges -> SUBSET Resources]
    /\ services \in [Bridges -> Nat]
    /\ \A b \in Bridges : services[b] <= NumServices[b]
    /\ teardown \in [Bridges -> [Cleaners ->
          [state : {"idle", "closing", "done"}, left : Seq(Resources)]]]
    /\ cleaning \in [Bridges -> BOOLEAN]
    /\ waiter \in [Bridges -> {"none", "holds", "left"}]
    /\ stopping \in [Bridges -> BOOLEAN]
    /\ smoke \in [Bridges -> SUBSET Positions]

(* A broker never answers without the upstream it injects into, unless its *)
(* own close() rejected: start order and reverse cleanup together.         *)
BrokerHasUpstream ==
    \A b \in Bridges : \A i \in ServicesOf(b) :
        Broker(i) \in running[b] =>
            Upstream(i) \in running[b] \/ Broker(i) \in stuck[b]

(* When no cleanup is closing any more, a failed start or a closed handle  *)
(* has left nothing behind but resources whose own close() rejected.       *)
NothingLeftBehind ==
    \A b \in Bridges :
        /\ cleaning[b]
        /\ \A c \in Cleaners : teardown[b][c].state # "closing"
        => running[b] \subseteq stuck[b]

(* Concurrent close() calls, a signal and a failing smoke test never close *)
(* a resource twice.                                                       *)
ClosedOnce ==
    \A b \in Bridges, c \in Cleaners :
        phase[b] # "exited" =>
            /\ ToSet(teardown[b][c].left) \subseteq running[b] \ stuck[b]
            /\ \A d \in Cleaners \ {c} : teardown[b][d].left # <<>>
                                          => teardown[b][c].left = <<>>

(* Teardown as a whole: a broker never outlives its upstream, nothing is   *)
(* closed twice, and nothing is left but what refused to close, whoever    *)
(* started it and whatever rejected on the way.                            *)
TeardownIsExact == BrokerHasUpstream /\ NothingLeftBehind /\ ClosedOnce

(* A teardown that has begun ends, whatever rejects on the way, unless a   *)
(* client holds on to a connection for ever.                               *)
CloseEnds ==
    \A b \in Bridges :
        cleaning[b] ~> \/ phase[b] = "exited"
                      \/ \A c \in Cleaners : teardown[b][c].state # "closing"
                      \/ [](waiter[b] = "holds")

\* What an agent finds through the discovery endpoint of b.
Offered(b) ==
    IF Discovery \in running[b]
    THEN {i \in ServicesOf(b) : {Upstream(i), Broker(i)} \subseteq running[b]}
    ELSE {}

Offer == INSTANCE OperationalOffer WITH
    Services <- [b \in Bridges |-> ServicesOf(b)],
    offer <- [b \in Bridges |-> Offered(b)],
    retired <- [b \in Bridges |-> /\ cleaning[b] \/ phase[b] = "exited"
                                  /\ Discovery \notin running[b]]

(* The bridge implements OperationalOffer: agents find all live services   *)
(* of one bridge, or nothing.                                              *)
OfferIsAllOrNothing == Offer!Spec
=============================================================================
