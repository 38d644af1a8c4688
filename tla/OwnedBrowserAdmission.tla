------------------------ MODULE OwnedBrowserAdmission ------------------------
(***************************************************************************)
(* Start-up, admission and close of Bridge-owned browsers                  *)
(* (src/bridge-owned-browser.mjs, startBridgeOwnedBrowser and the close of  *)
(* the handle it returns) together with the wrapper that starts the login  *)
(* site first (src/bridge-owned-browser-session.mjs).                      *)
(*                                                                         *)
(* All starts share one process-wide counter, activeSessions.  Every await *)
(* of the code is a boundary between two actions here, so starts, closes   *)
(* and the events of the browser interleave as on the event loop.          *)
(***************************************************************************)
EXTENDS Naturals, FiniteSets

CONSTANTS
    Sessions,       \* the calls of startBridgeOwnedBrowserForBinding
    MaxBrowsers     \* MAX_BRIDGE_OWNED_BROWSERS

ASSUME SessionsAssumption == IsFiniteSet(Sessions)
ASSUME MaxBrowsersAssumption == MaxBrowsers \in Nat \ {0}

VARIABLES
    activeSessions, \* the process-wide admission counter
    phase,          \* where each call stands between two awaits
    adapter,        \* what drives the page: none, jar, up (a browser), closing, gone
    listener,       \* is the agent-facing HTTP server up
    held,           \* does an open connection or a hung handler hold it
    site,           \* is the fake login site of the wrapper up
    adapterFailed   \* did close() see its adapter fail or time out

admissionVars ==
    <<activeSessions, phase, adapter, listener, held, site, adapterFailed>>

Phases == {"idle", "admission", "launching", "binding", "open", "bindFailed",
           "noAddress", "noAddressHttp", "failed", "closing", "closingHttp",
           "closed", "released"}

\* Phases in which the call holds one unit of activeSessions.
Reserved == {"launching", "binding", "open", "closing", "closingHttp"}

Holders == {s \in Sessions : phase[s] \in Reserved}

AdmissionInit ==
    /\ activeSessions = 0
    /\ phase = [s \in Sessions |-> "idle"]
    /\ adapter = [s \in Sessions |-> "none"]
    /\ listener = [s \in Sessions |-> FALSE]
    /\ held = [s \in Sessions |-> FALSE]
    /\ site = [s \in Sessions |-> FALSE]
    /\ adapterFailed = [s \in Sessions |-> FALSE]

-----------------------------------------------------------------------------

\* Math.max(0, activeSessions - 1), the release used on every path.
ReleaseSlot == IF activeSessions > 0 THEN activeSessions - 1 ELSE 0

Goto(s, p) == phase' = [phase EXCEPT ![s] = p]

\* adapter.close(): clearing a jar is immediate, a browser takes its time.
BeginAdapterClose(s) ==
    adapter' = [adapter EXCEPT ![s] = IF @ = "jar" THEN "gone" ELSE "closing"]

(* The wrapper has resolved the secret and awaits startFakeLoginSite.      *)
StartSite(s) ==
    /\ phase[s] = "idle"
    /\ site' = [site EXCEPT ![s] = TRUE]
    /\ Goto(s, "admission")
    /\ UNCHANGED <<activeSessions, adapter, listener, held, adapterFailed>>

(* concurrent_session_forbidden: the counter is at its limit.              *)
RefuseConcurrent(s) ==
    /\ phase[s] = "admission"
    /\ activeSessions >= MaxBrowsers
    /\ Goto(s, "failed")
    /\ UNCHANGED <<activeSessions, adapter, listener, held, site, adapterFailed>>

(* The policy, credential or driver checks throw: nothing is reserved yet. *)
RefuseInvalid(s) ==
    /\ phase[s] = "admission"
    /\ activeSessions < MaxBrowsers
    /\ Goto(s, "failed")
    /\ UNCHANGED <<activeSessions, adapter, listener, held, site, adapterFailed>>

(* driver "playwright": reserve before the first await, then launch.       *)
ReserveAndLaunch(s) ==
    /\ phase[s] = "admission"
    /\ activeSessions < MaxBrowsers
    /\ activeSessions' = activeSessions + 1
    /\ adapter' = [adapter EXCEPT ![s] = "up"]
    /\ Goto(s, "launching")
    /\ UNCHANGED <<listener, held, site, adapterFailed>>

(* driver "fetch": a cookie jar, no browser and no await before the listen. *)
ReserveWithoutLaunch(s) ==
    /\ phase[s] = "admission"
    /\ activeSessions < MaxBrowsers
    /\ activeSessions' = activeSessions + 1
    /\ adapter' = [adapter EXCEPT ![s] = "jar"]
    /\ Goto(s, "binding")
    /\ UNCHANGED <<listener, held, site, adapterFailed>>

LaunchSucceeds(s) ==
    /\ phase[s] = "launching"
    /\ Goto(s, "binding")
    /\ UNCHANGED <<activeSessions, adapter, listener, held, site, adapterFailed>>

\* Mutant: a failed launch forgets to release its slot.
MutantLaunchFailKeepsSlot(s) ==
    /\ phase[s] = "launching"
    /\ adapter' = [adapter EXCEPT ![s] = "gone"]
    /\ Goto(s, "failed")
    /\ UNCHANGED <<activeSessions, listener, held, site, adapterFailed>>

(* createPlaywrightPageAdapter closes its browser before it throws.        *)
LaunchFails(s) ==
    /\ phase[s] = "launching"
    /\ adapter' = [adapter EXCEPT ![s] = "gone"]
    /\ activeSessions' = ReleaseSlot
    /\ Goto(s, "failed")
    /\ UNCHANGED <<listener, held, site, adapterFailed>>

BindSucceeds(s) ==
    /\ phase[s] = "binding"
    /\ listener' = [listener EXCEPT ![s] = TRUE]
    /\ Goto(s, "open")
    /\ UNCHANGED <<activeSessions, adapter, held, site, adapterFailed>>

(* bind_failed: the slot is released first, the adapter closed after it.   *)
BindFails(s) ==
    /\ phase[s] = "binding"
    /\ activeSessions' = ReleaseSlot
    /\ BeginAdapterClose(s)
    /\ Goto(s, "bindFailed")
    /\ UNCHANGED <<listener, held, site, adapterFailed>>

(* The server listens but has no address: the slot is released and the     *)
(* adapter closed as above, with the server still up.                      *)
NoAddress(s) ==
    /\ phase[s] = "binding"
    /\ activeSessions' = ReleaseSlot
    /\ BeginAdapterClose(s)
    /\ listener' = [listener EXCEPT ![s] = TRUE]
    /\ Goto(s, "noAddress")
    /\ UNCHANGED <<held, site, adapterFailed>>

\* closeAdapter settles, and server.close() stops taking connections.
NoAddressAdapterSettles(s) ==
    /\ phase[s] = "noAddress"
    /\ Goto(s, "noAddressHttp")
    /\ UNCHANGED <<activeSessions, adapter, listener, held, site, adapterFailed>>

\* Then server.close() is awaited, and bind_failed is thrown.
NoAddressHttpDone(s) ==
    /\ phase[s] = "noAddressHttp" /\ ~held[s]
    /\ listener' = [listener EXCEPT ![s] = FALSE]
    /\ Goto(s, "failed")
    /\ UNCHANGED <<activeSessions, adapter, held, site, adapterFailed>>

\* Mutant: closeAdapter without its timer waits for the browser to end.
MutantBindFailureWaits(s) ==
    /\ phase[s] = "bindFailed"
    /\ adapter[s] = "gone"
    /\ Goto(s, "failed")
    /\ UNCHANGED <<activeSessions, adapter, listener, held, site, adapterFailed>>

(* The awaited closeAdapter settles: the adapter closed, rejected, or      *)
(* ADAPTER_CLOSE_TIMEOUT_MS passed while it was still closing.  The error  *)
(* is swallowed here and bind_failed is thrown.                            *)
BindFailureSettles(s) ==
    /\ phase[s] = "bindFailed"
    /\ Goto(s, "failed")
    /\ UNCHANGED <<activeSessions, adapter, listener, held, site, adapterFailed>>

(* The browser process of a closing adapter ends, at its own time.         *)
AdapterGone(s) ==
    /\ adapter[s] = "closing"
    /\ adapter' = [adapter EXCEPT ![s] = "gone"]
    /\ UNCHANGED <<activeSessions, phase, listener, held, site, adapterFailed>>

(* close(): the first call starts the closing promise.  Later calls return *)
(* that promise and change nothing.                                        *)
Close(s) ==
    /\ phase[s] = "open"
    /\ BeginAdapterClose(s)
    /\ Goto(s, "closing")
    /\ UNCHANGED <<activeSessions, listener, held, site, adapterFailed>>

(* closeAdapter resolves with the browser gone, or throws adapter_failed   *)
(* (a rejection, or the timer firing with the browser still closing).      *)
AdapterCloseSettles(s) ==
    /\ phase[s] = "closing"
    /\ \/ adapter[s] = "gone" /\ UNCHANGED adapterFailed
       \/ adapterFailed' = [adapterFailed EXCEPT ![s] = TRUE]
    /\ Goto(s, "closingHttp")
    /\ UNCHANGED <<activeSessions, adapter, listener, held, site>>

(* A client opens a connection it does not use, or a handler hangs; either *)
(* may end.  Both keep server.close() from calling back, and no time limit *)
(* ends either.                                                            *)
ConnectionHeld(s) ==
    /\ phase[s] \in {"open", "closing", "noAddress"} \/ held[s]
    /\ held' = [held EXCEPT ![s] = ~@]
    /\ UNCHANGED <<activeSessions, phase, adapter, listener, site, adapterFailed>>

(* finally: server.close() is awaited, the sensitive set cleared, the slot *)
(* released; then the close promise resolves or rejects.                   *)
CloseHttpDone(s) ==
    /\ phase[s] = "closingHttp" /\ ~held[s]
    /\ listener' = [listener EXCEPT ![s] = FALSE]
    /\ activeSessions' = ReleaseSlot
    /\ Goto(s, "closed")
    /\ UNCHANGED <<adapter, held, site, adapterFailed>>

(* The wrapper's close: site.close() only runs when session.close() has    *)
(* resolved; a rejection leaves the site up.                               *)
WrapperClosesSite(s) ==
    /\ phase[s] = "closed"
    /\ site' = [site EXCEPT ![s] = adapterFailed[s]]
    /\ Goto(s, "released")
    /\ UNCHANGED <<activeSessions, adapter, listener, held, adapterFailed>>

(* The wrapper's catch: a failed start closes the site and rethrows.       *)
FailedStartClosesSite(s) ==
    /\ phase[s] = "failed"
    /\ site[s]
    /\ site' = [site EXCEPT ![s] = FALSE]
    /\ UNCHANGED <<activeSessions, phase, adapter, listener, held, adapterFailed>>

\* The continuations that the event loop owes a call already under way.
Continue(s) ==
    \/ RefuseConcurrent(s) \/ RefuseInvalid(s)
    \/ ReserveAndLaunch(s) \/ ReserveWithoutLaunch(s)
    \/ LaunchSucceeds(s) \/ LaunchFails(s)
    \/ BindSucceeds(s) \/ BindFails(s) \/ BindFailureSettles(s)
    \/ NoAddress(s) \/ NoAddressAdapterSettles(s) \/ NoAddressHttpDone(s)
    \/ AdapterCloseSettles(s) \/ CloseHttpDone(s)
    \/ WrapperClosesSite(s) \/ FailedStartClosesSite(s)

AdmissionNext ==
    \E s \in Sessions :
        \/ StartSite(s) \/ Close(s) \/ AdapterGone(s) \/ ConnectionHeld(s)
        \/ Continue(s)

AdmissionFairness == \A s \in Sessions : WF_admissionVars(Continue(s))

AdmissionSpec == AdmissionInit /\ [][AdmissionNext]_admissionVars

AdmissionFairSpec == AdmissionSpec /\ AdmissionFairness

-----------------------------------------------------------------------------

(* The type of every variable of the admission state.                      *)
AdmissionTypeOK ==
    /\ activeSessions \in 0..Cardinality(Sessions)
    /\ phase \in [Sessions -> Phases]
    /\ adapter \in [Sessions -> {"none", "jar", "up", "closing", "gone"}]
    /\ listener \in [Sessions -> BOOLEAN]
    /\ held \in [Sessions -> BOOLEAN]
    /\ site \in [Sessions -> BOOLEAN]
    /\ adapterFailed \in [Sessions -> BOOLEAN]

(* The counter equals the number of calls that hold a slot: no path        *)
(* through launch failure, bind failure, adapter failure or close loses a  *)
(* slot or releases one twice (which Math.max would hide).                 *)
AdmissionExact == activeSessions = Cardinality(Holders)

\* An agent surface that was handed out and whose server is still up.
Answering == {s \in Sessions : listener[s] /\ phase[s] \in Reserved}

(* Never more than MAX_BRIDGE_OWNED_BROWSERS agent surfaces answer at      *)
(* once: the slot of a closing session outlives its listener.              *)
ListenersBounded == Cardinality(Answering) <= MaxBrowsers

(* What the two counting properties rest on: the counter is exact and      *)
(* within its limit.  A listener without a slot refuses every request.     *)
AdmissionInv ==
    /\ AdmissionTypeOK
    /\ AdmissionExact
    /\ activeSessions <= MaxBrowsers
    /\ \A s \in Sessions :
          listener[s] => phase[s] \in {"open", "closing", "closingHttp",
                                     "noAddress", "noAddressHttp"}

(* docs/phase17-bridge-owned-browser.md: one Bridge-owned browser at a     *)
(* time.  Counts the browsers that have not ended.                         *)
OneBrowserAtATime ==
    Cardinality({s \in Sessions : adapter[s] \in {"up", "closing"}})
        <= MaxBrowsers

\* server.close() waits for somebody who never lets go.
HeldForever(s) == [](held[s] /\ phase[s] \in {"closingHttp", "noAddressHttp"})

(* close() completes and gives its slot back even when the adapter hangs   *)
(* (the five second race in closeAdapter), unless a connection or a hung   *)
(* handler holds its HTTP server for ever: closeHttp has no such race.     *)
CloseCompletes ==
    \A s \in Sessions :
        phase[s] = "closing" ~> (phase[s] = "released" \/ HeldForever(s))

(* Every start settles: it becomes an open session, or the login site it   *)
(* started is closed again, even if the browser of a failed bind hangs.    *)
StartSettles ==
    \A s \in Sessions :
        phase[s] = "admission" ~>
            (phase[s] = "open" \/ ~site[s] \/ HeldForever(s))

(* Starts and closes settle although a browser being closed may hang.      *)
StartsAndClosesSettle == StartSettles /\ CloseCompletes
=============================================================================
