-------------------------- MODULE ServiceLifecycle --------------------------
(***************************************************************************)
(* The Windows helper service on a host.  A disposable live test installs  *)
(* the service, has it deny a request, removes it again and reports a      *)
(* transcript, which the caller evaluates                                  *)
(* (src/windows-service-lifecycle-{gate,live,evidence,collector-trust}.mjs *)
(* with scripts/windows-service-lifecycle-live-collector.ps1); a verified  *)
(* report opens the install gate of the persistent service                 *)
(* (src/windows-service-install-gate.mjs and                               *)
(* scripts/run-windows-persistent-service-lifecycle.mjs with its           *)
(* collector).  The elevated collectors are processes of their own: the    *)
(* caller may give up on one that goes on, and all of them share the fixed *)
(* name of the service and of its pipe.                                    *)
(***************************************************************************)
EXTENDS Naturals, Sequences, FiniteSetsExt

CONSTANTS Runs,         \* disposable live tests
          MaxSetups,    \* bound: persistent installs and uninstalls
          MaxFaults     \* bound: operations that fail for reasons of the host

ASSUME LifecycleAssumption ==
    /\ {"persistent", "nobody"} \cap Runs = {}
    /\ MaxSetups \in Nat /\ MaxFaults \in Nat

VARIABLES
    service,    \* the fixed service: whose it is and its state
    files,      \* the roots and binaries that exist, by owner
    cim,        \* the service query: up, down, or back after a failure
    col,        \* the elevated collector of each live test
    node,       \* the caller of each live test: idle, waiting, its verdict
    setup,      \* the persistent install or uninstall under way
    setups,     \* how many were begun
    faults      \* how many operations have failed

lifecycleVars == <<service, files, cim, col, node, setup, setups, faults>>

\* The gate's steps, numbered through: 4 before any mutation, 17 mutations, 9
\* of cleanup.
PRE_MUTATION_STEPS == [i \in 1..4 |-> i]
MUTATION_STEPS == [i \in 1..17 |-> 4 + i]
ALWAYS_CLEANUP_STEPS == [i \in 1..9 |-> 21 + i]

None == [by |-> "nobody", st |-> "absent"]

Collector0 == [at |-> "off", events |-> <<>>, owned |-> {}, handle |-> FALSE,
               terminal |-> "preflight_failed"]

LifecycleInit ==
    /\ service = None /\ files = {} /\ cim = "up"
    /\ col = [r \in Runs |-> Collector0]
    /\ node = [r \in Runs |-> "idle"]
    /\ setup = "off" /\ setups = 0 /\ faults = 0

\* What the service manager knows: a name that is taken, and a service that
\* is marked for deletion, idle (pending) or still running (leaving).
Exists(s) == s.st # "absent"
Running(s) == s.st \in {"running", "leaving"}
Marked(s) == [s EXCEPT !.st = IF Running(s) THEN "leaving" ELSE "pending"]
Halted(s) == [s EXCEPT !.st = CASE s.st = "running" -> "stopped"
                                [] s.st = "leaving" -> "pending"
                                [] OTHER -> s.st]

\* What DeleteService or sc delete may make of the service.
Deletions == {service} \cup IF Running(service) THEN {Marked(service)}
                           ELSE IF Exists(service) THEN {Marked(service), None}
                           ELSE {}

\* What a stop by name makes of it, before a deletion that fails or does not.
AfterStop == {Halted(service)} \cup IF Exists(service)
                                   THEN {Marked(Halted(service)), None} ELSE {}

\* Mutant: a service that is only marked for deletion is taken for gone.
TestServiceUnusable(s) == cim = "down" \/ s.st \in {"absent", "pending"}

\* Get-CimInstance with SilentlyContinue: a query that fails answers nothing,
\* which reads as absent.
TestServiceAbsent(s) == cim = "down" \/ ~Exists(s)

TestPipeAbsent(s) == ~Running(s)

\* The step is a failure of the host, or not.
Fault(b) == IF b THEN faults < MaxFaults /\ faults' = faults + 1 ELSE UNCHANGED faults

Of(owner) == {<<owner, "root">>, <<owner, "binary">>}

-----------------------------------------------------------------------------
(* The evaluation of a transcript.                                         *)

Status(ev, i) == ev[i].status

(* The events of one phase: a phase ends at its first failure, except the  *)
(* cleanup, which goes on and may skip what the run does not own.          *)
consumePhase(ev, start, steps, cleanup) ==
    LET avail == Min({Len(ev) - start, Len(steps)})
        fails == {i \in 1..avail : Status(ev, start + i) = "failed"}
        taken == IF cleanup \/ fails = {} THEN avail ELSE Min(fails)
    IN  [legal |-> \A i \in 1..taken :
                      /\ ev[start + i].step = steps[i]
                      /\ cleanup \/ Status(ev, start + i) \in {"verified", "failed"},
         cursor |-> start + taken,
         complete |-> taken = Len(steps) /\ (cleanup \/ fails = {}),
         failed |-> fails # {},
         last |-> IF taken = 0 THEN "" ELSE Status(ev, start + taken)]

(* Each cleanup step is done on what the mutation created, and skipped on  *)
(* the rest.                                                               *)
validateCleanupOwnership(ev, from) ==
    LET Verified(step) == \E i \in 1..from : ev[i] = [step |-> step, status |-> "verified"]
        started == \E i \in 1..from : ev[i].step = 19
        owned == [c \in 1..9 |->
                     CASE c = 1 -> started
                       [] c \in 2..4 -> Verified(11)
                       [] c \in 5..6 -> Verified(7)
                       [] c \in 7..8 -> Verified(5)
                       [] c = 9 -> TRUE]
        skip(c) == IF c = 1 /\ Verified(11) THEN "skipped_not_started"
                                            ELSE "skipped_not_owned"
    IN  \A c \in 1..9 :
            IF owned[c] THEN Status(ev, from + c) \in {"verified", "failed"}
                        ELSE Status(ev, from + c) = skip(c)

(* evaluateWindowsServiceLifecycleTranscript: does the transcript have a   *)
(* legal shape that its outcome does not belie; what it then claims.       *)
evaluateTranscript(ev, outcome) ==
    LET pre == consumePhase(ev, 0, PRE_MUTATION_STEPS, FALSE)
        mut == consumePhase(ev, pre.cursor, MUTATION_STEPS, FALSE)
        cln == consumePhase(ev, mut.cursor, ALWAYS_CLEANUP_STEPS, TRUE)
        cleaned == cln.complete /\ ~cln.failed /\ cln.last = "verified"
        shaped == IF pre.failed
                     THEN outcome = "preflight_failed" /\ pre.cursor = Len(ev)
                     ELSE /\ pre.complete /\ mut.legal
                          /\ mut.failed \/ mut.complete => cln.legal
                          /\ cln.complete => validateCleanupOwnership(ev, mut.cursor)
                          /\ cln.cursor = Len(ev)
        believed == CASE outcome = "denial_verified" -> mut.complete /\ cleaned
                      [] outcome = "mutation_failed" -> mut.failed /\ cleaned
                      [] outcome = "cleanup_failed" -> cln.complete /\ cln.failed
                      [] outcome = "preflight_failed" -> pre.failed
    IN  [legal |-> Len(ev) > 0 /\ pre.legal /\ shaped /\ believed,
         complete |-> outcome = "denial_verified" /\ cleaned]

(* Collector trust: all required provenance facts.  Of the ones this       *)
(* collector reports only the retained service handle can be missing, and  *)
(* cleanup_finally_bound after a failed preflight.                         *)
evaluateCollectorTrust(ev, outcome, handle) ==
    /\ evaluateTranscript(ev, outcome).complete
    /\ handle /\ outcome # "preflight_failed"

(* The verdict of the caller on the result it has read.                    *)
evaluateLiveCollectorResult(c) ==
    IF ~evaluateTranscript(c.events, c.terminal).legal THEN "rejected"
    ELSE IF evaluateCollectorTrust(c.events, c.terminal, c.handle)
            /\ c.terminal = "denial_verified"
         THEN "verified" ELSE "unverified"

-----------------------------------------------------------------------------
(* A disposable live test.                                                 *)

(* The caller publishes the binary, stages it and launches the elevated    *)
(* collector.                                                              *)
LiveTestStarts(r) ==
    /\ node[r] = "idle"
    /\ Fault(FALSE)
    /\ node' = [node EXCEPT ![r] = "waiting"]
    /\ col' = [col EXCEPT ![r].at = "preflight"]
    /\ UNCHANGED <<service, files, cim, setup, setups>>

\* The steps 'from'..'to' with the given outcome: all verified, or the last failed.
Log(ev, from, to, ok) ==
    ev \o [i \in 1..(to - from + 1) |->
              [step |-> from + i - 1,
               status |-> IF ok \/ from + i - 1 < to THEN "verified" ELSE "failed"]]

\* A group of steps ends well, or at one that fails.
Ends(from, to, last, ok) == IF ok THEN to = last ELSE to \in from..last

\* The collector logs its steps and goes on, or into its cleanup.
Advanced(r, from, to, ok, next) ==
    [col[r] EXCEPT !.events = Log(@, from, to, ok),
                   !.at = IF ok THEN next ELSE "stop"]

(* The checks before any mutation.  A failed one ends the test without a   *)
(* cleanup.                                                                *)
PreflightProbes(r, to, ok) ==
    /\ col[r].at = "preflight"
    /\ Fault(~ok /\ TestServiceAbsent(service))
    /\ Ends(1, to, 4, ok)
    /\ \/ TestServiceAbsent(service) /\ TestPipeAbsent(service)
       \/ ~ok /\ to <= 2
    /\ col' = [col EXCEPT ![r] = [Advanced(r, 1, to, ok, "root") EXCEPT
                 !.at = IF ok THEN "root" ELSE "write",
                 !.terminal = IF ok THEN "mutation_failed" ELSE @]]
    /\ UNCHANGED <<service, files, cim, node, setup, setups>>

(* The disposable root is created and its ACL set.                         *)
CreateRoot(r, to, ok) ==
    /\ col[r].at = "root"
    /\ Fault(~ok)
    /\ Ends(5, to, 6, ok)
    /\ LET created == ok \/ to = 6 IN
       /\ files' = files \cup (IF created THEN {<<r, "root">>} ELSE {})
       /\ col' = [col EXCEPT ![r] = [Advanced(r, 5, to, ok, "binary") EXCEPT
                    !.owned = @ \cup (IF created THEN {"root"} ELSE {})]]
    /\ UNCHANGED <<service, cim, node, setup, setups>>

(* The reviewed binary is created, written and verified.                   *)
CreateBinary(r, to, ok) ==
    /\ col[r].at = "binary"
    /\ Fault(~ok)
    /\ Ends(7, to, 10, ok)
    /\ LET created == ok \/ to > 7 IN
       /\ files' = files \cup (IF created THEN {<<r, "binary">>} ELSE {})
       /\ col' = [col EXCEPT ![r] = [Advanced(r, 7, to, ok, "service") EXCEPT
                    !.owned = @ \cup (IF created THEN {"binary"} ELSE {})]]
    /\ UNCHANGED <<service, cim, node, setup, setups>>

(* sc create refuses a name that is taken.  The handle that is opened next *)
(* may be missing; an exception there leaves a created service behind a    *)
(* failed step, and a configuration that cannot be queried is a failure.   *)
CreateService(r, to, ok, created) ==
    /\ col[r].at = "service"
    /\ Ends(11, to, 12, ok) /\ (to = 12 => created)
    /\ created => ~Exists(service)
    /\ ok => cim # "down"
    /\ service' = IF created THEN [by |-> r, st |-> "stopped"] ELSE service
    /\ \E h \in BOOLEAN :
          /\ h => created
          /\ Fault(~Exists(service) /\ ~(h /\ (ok \/ (to = 12 /\ cim = "down"))))
          /\ col' = [col EXCEPT ![r] = [Advanced(r, 11, to, ok, "configure") EXCEPT
                       !.owned = @ \cup (IF created THEN {"service"} ELSE {}),
                       !.handle = h]]
    /\ UNCHANGED <<files, cim, node, setup, setups>>

(* The service SID, the service's ACL and the binary's chain are set and   *)
(* verified.                                                               *)
Configure(r, to, ok) ==
    /\ col[r].at = "configure"
    /\ Fault(~ok)
    /\ Ends(13, to, 18, ok)
    /\ col' = [col EXCEPT ![r] = Advanced(r, 13, to, ok, "start")]
    /\ UNCHANGED <<service, files, cim, node, setup, setups>>

(* The service is started by its name.                                     *)
StartService(r, ok) ==
    /\ col[r].at = "start"
    /\ Fault(~ok /\ service = [by |-> r, st |-> "stopped"])
    /\ Ends(19, 19, 19, ok)
    /\ ok => service = [by |-> r, st |-> "stopped"]
    /\ service' = IF ok THEN [service EXCEPT !.st = "running"] ELSE service
    /\ col' = [col EXCEPT ![r] = [Advanced(r, 19, 19, ok, "deny") EXCEPT
                 !.owned = @ \cup {"start"}]]
    /\ UNCHANGED <<files, cim, node, setup, setups>>

(* The server's identity is verified; a client of another principal is     *)
(* denied, and the first apply runs.                                       *)
DenialProbes(r, to, ok) ==
    /\ col[r].at = "deny"
    /\ Fault(~ok /\ cim # "down" /\ service = [by |-> r, st |-> "running"])
    /\ Ends(20, to, 21, ok)
    /\ ok => cim # "down" /\ service = [by |-> r, st |-> "running"]
    /\ col' = [col EXCEPT ![r] = [Advanced(r, 20, to, ok, "stop") EXCEPT
                 !.terminal = IF ok THEN "denial_verified" ELSE @]]
    /\ UNCHANGED <<service, files, cim, node, setup, setups>>

-----------------------------------------------------------------------------
(* The collector's finally: five steps that all run.                       *)

Mark(ok) == IF ok THEN "verified" ELSE "failed"

\* The next two cleanup steps are logged; a failed one makes the outcome.
CleanupTried(r, step, first, second, next) ==
    [col[r] EXCEPT
        !.events = @ \o <<[step |-> step, status |-> first],
                          [step |-> step + 1, status |-> second]>>,
        !.terminal = IF "failed" \in {first, second} THEN "cleanup_failed" ELSE @,
        !.at = next]

(* A service whose start was attempted is stopped by its name; one of this *)
(* run must be found stopped, within 15 seconds unless the query fails.    *)
StopService(r, ok, halted) ==
    /\ col[r].at = "stop"
    /\ Fault("start" \in col[r].owned /\ ~(ok /\ (halted \/ cim = "down")))
    /\ LET tried == "start" \in col[r].owned
           mine == tried \/ "service" \in col[r].owned
       IN  /\ ok \/ tried
           /\ halted => tried /\ ok
           /\ service' = IF halted THEN Halted(service) ELSE service
           /\ col' = [col EXCEPT ![r] = CleanupTried(r, 22,
                        IF tried THEN Mark(ok)
                        ELSE IF mine THEN "skipped_not_started" ELSE "skipped_not_owned",
                        IF mine THEN Mark(cim = "down" \/ ~Running(service'))
                        ELSE "skipped_not_owned",
                        "delete")]
    /\ UNCHANGED <<files, cim, node, setup, setups>>

(* DeleteService through the handle, or by name as the last resort.  The   *)
(* service is gone, or marked for deletion until its other handles close.  *)
DeleteService(r, to) ==
    /\ col[r].at = "delete"
    /\ IF "service" \in col[r].owned
          THEN /\ to \in Deletions
               /\ \E h \in BOOLEAN :
                     /\ h => col[r].handle /\ to # service
                     /\ Fault((to = service /\ Exists(service)) \/ h # col[r].handle)
                     /\ col' = [col EXCEPT ![r] = [CleanupTried(r, 24,
                                  Mark(to # service \/ ~Exists(service)),
                                  Mark(TestServiceAbsent(to)), "binary_off")
                                  EXCEPT !.handle = h]]
          ELSE /\ to = service /\ UNCHANGED faults
               /\ col' = [col EXCEPT ![r] = CleanupTried(r, 24, "skipped_not_owned",
                                                  "skipped_not_owned", "binary_off")]
    /\ service' = to
    /\ UNCHANGED <<files, cim, node, setup, setups>>

(* The binary is removed; the loader may still hold it.                    *)
RemoveBinary(r, ok) ==
    /\ col[r].at = "binary_off"
    /\ Fault("binary" \in col[r].owned /\ ~ok)
    /\ LET mine == "binary" \in col[r].owned
           seen == IF mine THEN Mark(ok) ELSE "skipped_not_owned"
       IN  /\ ok => mine
           /\ files' = files \ (IF ok THEN {<<r, "binary">>} ELSE {})
           /\ col' = [col EXCEPT ![r] = CleanupTried(r, 26, seen, seen, "root_off")]
    /\ UNCHANGED <<service, cim, node, setup, setups>>

(* The root is removed with what is left in it.                            *)
RemoveRoot(r, ok) ==
    /\ col[r].at = "root_off"
    /\ Fault("root" \in col[r].owned /\ ~ok)
    /\ LET mine == "root" \in col[r].owned
           seen == IF mine THEN Mark(ok) ELSE "skipped_not_owned"
       IN  /\ ok => mine
           /\ files' = files \ (IF ok THEN Of(r) ELSE {})
           /\ col' = [col EXCEPT ![r] = CleanupTried(r, 28, seen, seen, "absence")]
    /\ UNCHANGED <<service, cim, node, setup, setups>>

(* The last step: no service of the fixed name, no pipe, nothing of this   *)
(* run on the files.                                                        *)
ProveAbsence(r) ==
    /\ col[r].at = "absence"
    /\ Fault(FALSE)
    /\ LET absent == /\ TestServiceAbsent(service) /\ TestPipeAbsent(service)
                     /\ files \cap Of(r) = {}
       IN  col' = [col EXCEPT
              ![r].events = Append(@, [step |-> 30, status |-> Mark(absent)]),
              ![r].terminal = IF absent THEN @ ELSE "cleanup_failed",
              ![r].at = "write"]
    /\ UNCHANGED <<service, files, cim, node, setup, setups>>

(* result.json is written, if its directory is still there.                *)
WriteResult(r) ==
    /\ col[r].at = "write"
    /\ Fault(FALSE)
    /\ col' = [col EXCEPT ![r].at = "written"]
    /\ UNCHANGED <<service, files, cim, node, setup, setups>>

(* The elevation is refused, or the collector is killed.                   *)
CollectorDies(r) ==
    /\ col[r].at \notin {"off", "written", "dead"}
    /\ Fault(TRUE)
    /\ col' = [col EXCEPT ![r] = [Collector0 EXCEPT !.at = "dead"]]
    /\ UNCHANGED <<service, files, cim, node, setup, setups>>

(* The caller has found the file and reads it 750 ms later; torn JSON or a *)
(* wrong completion nonce is an error.  The report is branded.             *)
ResultRead(r, torn) ==
    /\ node[r] = "waiting" /\ col[r].at = "written"
    /\ Fault(torn)
    /\ node' = [node EXCEPT ![r] = IF torn THEN "rejected"
                                   ELSE evaluateLiveCollectorResult(col[r])]
    /\ UNCHANGED <<service, files, cim, col, setup, setups>>

(* 540 seconds without a result: the staging directory is removed, and the *)
(* collector, if it runs, goes on.                                         *)
ElevationTimeout(r) ==
    /\ node[r] = "waiting" /\ col[r].at # "written"
    /\ Fault(col[r].at # "dead")
    /\ node' = [node EXCEPT ![r] = "timeout"]
    /\ UNCHANGED <<service, files, cim, col, setup, setups>>

-----------------------------------------------------------------------------
(* The persistent service.  One setup collector runs at a time: a caller   *)
(* that gives up after 300 seconds is not followed by another one here.    *)

SetupTo(at) == setup' = at /\ UNCHANGED <<cim, col, node, setups>>

(* evaluateWindowsServiceInstallGate: the report of a live test that was   *)
(* verified.  The preflight given with it is a constant.                   *)
evaluateInstallGate(r) == node[r] = "verified"

(* The install script has run a live test and its gate is open.            *)
InstallBegins(r) ==
    /\ setup = "off" /\ setups < MaxSetups
    /\ Fault(FALSE)
    /\ evaluateInstallGate(r)
    /\ setup' = "install" /\ setups' = setups + 1
    /\ UNCHANGED <<service, files, cim, col, node>>

(* A service of that name, or a persistent root, is a collision; otherwise *)
(* root and binary are written, as far as that goes.                       *)
InstallWrites(made) ==
    /\ setup = "install"
    /\ IF TestServiceAbsent(service) /\ files \cap Of("persistent") = {}
          THEN /\ <<"persistent", "binary">> \in made => made = Of("persistent")
               /\ Fault(made # Of("persistent"))
               /\ files' = files \cup made
               /\ SetupTo(IF made = Of("persistent") THEN "create" ELSE "failed")
          ELSE made = {} /\ UNCHANGED <<files, faults>> /\ SetupTo("collision")
    /\ UNCHANGED service

(* sc create, refused if the name is taken by now; then the service is     *)
(* locked and started, or left as it is by the first failure.              *)
InstallCreates(to) ==
    /\ setup = "create"
    /\ Fault(to # "running" /\ ~Exists(service))
    /\ \/ to = "absent" /\ UNCHANGED service /\ SetupTo("failed")
       \/ /\ to # "absent" /\ ~Exists(service)
          /\ service' = [by |-> "persistent", st |-> to]
          /\ SetupTo(IF to = "running" /\ cim # "down" THEN "installed" ELSE "failed")
    /\ UNCHANGED files

UninstallBegins ==
    /\ setup = "off" /\ setups < MaxSetups
    /\ Fault(FALSE)
    /\ setup' = "uninstall" /\ setups' = setups + 1
    /\ UNCHANGED <<service, files, cim, col, node>>

\* The service is not found or runs the persistent binary, which is there and
\* has the digest of the binary published now.
TestBoundIdentity(digest) ==
    /\ TestServiceAbsent(service) \/ service.by = "persistent"
    /\ <<"persistent", "binary">> \in files /\ digest

(* Nothing there is success; anything that is not bound is left alone.     *)
UninstallChecks(digest) ==
    /\ setup = "uninstall"
    /\ Fault(~digest)
    /\ SetupTo(IF TestServiceAbsent(service) /\ files \cap Of("persistent") = {}
                  THEN "uninstalled"
               ELSE IF TestBoundIdentity(digest) THEN "remove" ELSE "collision")
    /\ UNCHANGED <<service, files>>

(* sc stop and sc delete by name; neither answer is looked at.             *)
UninstallDeletes(to) ==
    /\ setup = "remove"
    /\ Fault(to = service /\ Exists(service))
    /\ to \in Deletions \cup AfterStop
    /\ service' = to
    /\ SetupTo("erase")
    /\ UNCHANGED files

(* Binary and root are removed, with ten attempts; absence is proved.      *)
UninstallErases(left) ==
    /\ setup = "erase"
    /\ Fault(left # {})
    /\ left \subseteq (files \cap Of("persistent"))
    /\ <<"persistent", "binary">> \in left => <<"persistent", "root">> \in left
    /\ files' = (files \ Of("persistent")) \cup left
    /\ SetupTo(IF TestServiceAbsent(service) /\ left = {} THEN "uninstalled" ELSE "failed")
    /\ UNCHANGED service

(* The script reports its result and exits.                                *)
SetupReported ==
    /\ setup \in {"installed", "uninstalled", "collision", "failed"}
    /\ Fault(FALSE)
    /\ SetupTo("off")
    /\ UNCHANGED <<service, files>>

(* A service that is marked for deletion stops; its last handle closes.    *)
PendingDeleteEnds ==
    /\ service.st \in {"pending", "leaving"}
    /\ Fault(FALSE)
    /\ service' = IF Running(service) THEN Halted(service) ELSE None
    /\ UNCHANGED <<files, cim, col, node, setup, setups>>

(* The service query stops answering, and answers again.                   *)
QueryFails ==
    /\ cim # "down"
    /\ Fault(TRUE)
    /\ cim' = "down"
    /\ UNCHANGED <<service, files, col, node, setup, setups>>

QueryAnswers ==
    /\ cim = "down"
    /\ Fault(FALSE)
    /\ cim' = "back"
    /\ UNCHANGED <<service, files, col, node, setup, setups>>

-----------------------------------------------------------------------------

CollectorStep(r) ==
    \/ \E ok \in BOOLEAN :
          \/ \E to \in 1..4 : PreflightProbes(r, to, ok)
          \/ \E to \in 5..6 : CreateRoot(r, to, ok)
          \/ \E to \in 7..10 : CreateBinary(r, to, ok)
          \/ \E to \in 11..12, made \in BOOLEAN : CreateService(r, to, ok, made)
          \/ \E to \in 13..18 : Configure(r, to, ok)
          \/ StartService(r, ok)
          \/ \E to \in 20..21 : DenialProbes(r, to, ok)
          \/ \E halted \in BOOLEAN : StopService(r, ok, halted)
          \/ RemoveBinary(r, ok) \/ RemoveRoot(r, ok)
    \/ \E to \in Deletions : DeleteService(r, to)
    \/ ProveAbsence(r) \/ WriteResult(r)

CallerStep(r) ==
    LiveTestStarts(r) \/ (\E torn \in BOOLEAN : ResultRead(r, torn)) \/ ElevationTimeout(r)

SetupStep ==
    \/ \E made \in SUBSET Of("persistent") : InstallWrites(made) \/ UninstallErases(made)
    \/ \E to \in {"absent", "stopped", "running"} : InstallCreates(to)
    \/ \E digest \in BOOLEAN : UninstallChecks(digest)
    \/ \E to \in Deletions \cup AfterStop : UninstallDeletes(to)
    \/ SetupReported

LifecycleNext ==
    \/ \E r \in Runs : CollectorStep(r) \/ CallerStep(r) \/ CollectorDies(r) \/ InstallBegins(r)
    \/ SetupStep \/ UninstallBegins
    \/ PendingDeleteEnds \/ QueryFails \/ QueryAnswers

LifecycleSpec == LifecycleInit /\ [][LifecycleNext]_lifecycleVars

-----------------------------------------------------------------------------
(* Properties.                                                             *)

(* The type of every variable.                                             *)
LifecycleTypeOK ==
    /\ service \in [by : Runs \cup {"persistent", "nobody"},
                     st : {"absent", "stopped", "running", "pending", "leaving"}]
    /\ cim \in {"up", "down", "back"}
    /\ files \subseteq UNION {Of(o) : o \in Runs \cup {"persistent"}}
    /\ node \in [Runs -> {"idle", "waiting", "verified", "unverified", "rejected", "timeout"}]
    /\ setups \in 0..MaxSetups /\ faults \in 0..MaxFaults

Left(r) == service.by = r \/ files \cap Of(r) # {}

\* All that may be left unreported: a service that a failing query hid, idle
\* and already marked for deletion.
Hidden(r) == /\ files \cap Of(r) = {}
             /\ service.st = "pending" /\ cim # "up"

(* A live report that says verified, the key to the install gate, is about *)
(* a test that saw the denial and whose service, binary and root are gone, *)
(* whichever steps failed and whoever else used the service's name; where  *)
(* the service query has failed, the service may still be on its way out.  *)
VerifiedTestIsClean ==
    \A r \in Runs :
        node[r] = "verified" =>
            /\ Left(r) => Hidden(r)
            /\ [step |-> 21, status |-> "verified"] \in {col[r].events[i] : i \in DOMAIN col[r].events}

(* A collector that has reached its end and left something of its own on   *)
(* the host says cleanup_failed, also after a failed mutation, with the    *)
(* same exception.                                                         *)
ResidueIsReported ==
    \A r \in Runs :
        col[r].at \in {"write", "written"} /\ Left(r) =>
            col[r].terminal = "cleanup_failed" \/ Hidden(r)

(* A live test goes unnoticed neither way: clean when it says so, and      *)
(* reported when it is not.                                                *)
CleanOrReported == VerifiedTestIsClean /\ ResidueIsReported

(* Refuted: "the final aggregate proof that the service, binary,           *)
(* disposable root, and pipe are absent"                                   *)
(* (docs/phase5h16-windows-service-lifecycle-evidence.md): a query that    *)
(* fails is taken for that proof.                                          *)
VerifiedMeansAbsent ==
    \A r \in Runs : node[r] = "verified" => ~Left(r)

(* Refuted: "foreign occupants fail closed with collision_detected instead *)
(* of deleting by name alone"                                              *)
(* (docs/phase5h50-windows-persistent-service-lifecycle.md): sc stop and   *)
(* sc delete take whatever has the name by then, a live test's service too. *)
UninstallSparesOthers ==
    [][setup = "remove" /\ setup' = "erase"
       /\ service.by \in Runs /\ service.st \in {"stopped", "running"}
          => service' = service]_lifecycleVars
=============================================================================
