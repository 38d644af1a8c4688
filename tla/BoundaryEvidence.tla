-------------------------- MODULE BoundaryEvidence --------------------------
(***************************************************************************)
(* How authorization_ready comes about on Windows: the live collectors ask *)
(* the host one question after the other (src/windows-authorization-       *)
(* evidence-live-collectors.mjs with the handle-bound identity, target ACL *)
(* and peer session collectors), the answers are composed into a report    *)
(* (src/windows-{operational,production}-authorization.mjs), and the       *)
(* bootstrap may have the helper create the target files once              *)
(* (src/windows-authorization-ready-bootstrap.mjs).  The host changes      *)
(* between any two of the questions.                                       *)
(***************************************************************************)
EXTENDS Naturals

CONSTANT Versions       \* builds of the helper binary

VARIABLES
    host,       \* the pipe's server, the installed binary, the target ACLs
    repo,       \* the build that a publication yields now
    cyc,        \* the collection under way: the question it is at, the answers
    boot,       \* where the caller of the cycles stands
    report,     \* the last composed report
    held        \* history: what has held of the host since the cycle began

evidenceVars == <<host, repo, cyc, boot, report, held>>

NoAnswers == [local |-> FALSE, service |-> FALSE, binary |-> FALSE,
              checked |-> FALSE, locked |-> FALSE, denial |-> FALSE, peer |-> FALSE]

NoReport == [ready |-> FALSE, acl |-> FALSE, error |-> FALSE]

Host == [pipe : {"none", "same_user", "service"},
         installed : Versions, acl : {"absent", "open", "locked"}]

EvidenceInit ==
    /\ host \in Host /\ repo \in Versions
    /\ cyc = [at |-> "idle", built |-> repo, got |-> NoAnswers]
    /\ boot = "first" /\ report = NoReport /\ held = {}

\* What is true of host h and of the published build p, for a cycle about b.
Facts(h, p, b) ==
    (IF p = b THEN {"published"} ELSE {})
    \cup (IF h.pipe = "service" THEN {"service"} ELSE {})
    \cup (IF h.installed = b THEN {"binary"} ELSE {})
    \cup (IF h.acl = "locked" THEN {"acl"} ELSE {})

(* A service stops or starts, another process serves the pipe, a binary or *)
(* an ACL is changed, the sources are rebuilt.                             *)
BoundaryChanges(h, b) ==
    /\ host' = h /\ repo' = b
    /\ held' = IF cyc.at = "idle" THEN {} ELSE held \cup Facts(h, b, cyc.built)
    /\ UNCHANGED <<cyc, boot, report>>

-----------------------------------------------------------------------------
(* From answers to a report.                                               *)

(* Merged identity evidence: the server of the pipe, by its pid, token and *)
(* service SID, and the binary by the handle it was opened with.           *)
mergeHandleBound(got) == got.local /\ got.service /\ got.binary

(* The target ACL evidence says nothing unless all targets were checked.   *)
mapTargetAcl(got) == got.checked /\ got.locked

(* The peer facts: transport and denial by another principal, the identity *)
(* asked for again, and the ACL evidence of this cycle.                    *)
mapPeer(got) ==
    [local_transport |-> got.denial,
     identity_verified |-> got.peer,
     different_principal |-> got.denial /\ got.peer,
     caller_write_denied |-> mapTargetAcl(got),
     helper_write_allowed |-> mapTargetAcl(got)]

(* The install gate of a cycle: a transcript with every step verified is   *)
(* made up in place and branded, so the gate is always eligible; the       *)
(* layout plan is persistent by construction.                              *)
buildPublishedInstallGateAndLayout == [eligible |-> TRUE, persistent |-> TRUE]

\* Mutant: the peer session stands in for the identity of the binary.
evaluateWithoutIdentity(got) ==
    /\ buildPublishedInstallGateAndLayout.eligible
    /\ buildPublishedInstallGateAndLayout.persistent
    /\ mapTargetAcl(got)
    /\ \A f \in DOMAIN mapPeer(got) : mapPeer(got)[f]

(* Ready is the conjunction of all five pieces of evidence.                *)
evaluateProductionAuthorization(got) ==
    /\ buildPublishedInstallGateAndLayout.eligible
    /\ buildPublishedInstallGateAndLayout.persistent
    /\ mergeHandleBound(got)
    /\ mapTargetAcl(got)
    /\ \A f \in DOMAIN mapPeer(got) : mapPeer(got)[f]

(* The branded, wired report.                                              *)
compose(got) == [ready |-> evaluateProductionAuthorization(got),
                 acl |-> mapTargetAcl(got), error |-> FALSE]

-----------------------------------------------------------------------------
(* One cycle.                                                              *)

(* The helper is published and the cycle is bound to its digest.           *)
FoundationBuilt ==
    /\ cyc.at = "idle" /\ boot \in {"first", "second", "loop"}
    /\ cyc' = [at |-> "identity", built |-> repo, got |-> NoAnswers]
    /\ held' = Facts(host, repo, repo)
    /\ UNCHANGED <<host, repo, boot, report>>

(* The native verifier: who serves the pipe.                               *)
IdentityVerified ==
    /\ cyc.at = "identity"
    /\ cyc' = [cyc EXCEPT !.at = "binary",
                 !.got.local = host.pipe # "none", !.got.service = host.pipe = "service"]
    /\ UNCHANGED <<host, repo, boot, report, held>>

(* The probe of the installed binary and of the service's ACL.             *)
BinaryProbed ==
    /\ cyc.at = "binary"
    /\ cyc' = [cyc EXCEPT !.at = "acl", !.got.binary = host.installed = cyc.built]
    /\ UNCHANGED <<host, repo, boot, report, held>>

(* The matrix over the targets needs them, and a running service.          *)
TargetAclProbed ==
    /\ cyc.at = "acl"
    /\ LET checked == host.pipe = "service" /\ host.acl # "absent" IN
       cyc' = [cyc EXCEPT !.at = "denial", !.got.checked = checked,
                          !.got.locked = checked /\ host.acl = "locked"]
    /\ UNCHANGED <<host, repo, boot, report, held>>

(* The denial client: no pipe, or one of the same user, is no denial.      *)
DenialExercised ==
    /\ cyc.at = "denial"
    /\ cyc' = [cyc EXCEPT !.at = "peer", !.got.denial = host.pipe = "service"]
    /\ UNCHANGED <<host, repo, boot, report, held>>

\* What the caller does with a finished cycle: apply once, or go on.
shouldApply(r) == ~r.ready /\ ~r.acl /\ ~r.error

After(r, skip) ==
    CASE boot = "first" /\ shouldApply(r) /\ ~skip -> "apply"
      [] boot = "loop" -> "loop"
      [] OTHER -> "done"

(* The identity is asked for again and the report composed.                *)
CycleComposed(skip) ==
    /\ cyc.at = "peer"
    /\ LET got == [cyc.got EXCEPT !.peer = host.pipe = "service"] IN
       /\ cyc' = [cyc EXCEPT !.at = "idle", !.got = NoAnswers]
       /\ report' = compose(got)
       /\ boot' = After(report', skip)
    /\ UNCHANGED <<host, repo, held>>

(* A publication, probe or parse fails: the incomplete evidence is         *)
(* composed instead.                                                       *)
CollectorFails ==
    /\ cyc.at # "idle"
    /\ cyc' = [cyc EXCEPT !.at = "idle", !.got = NoAnswers]
    /\ report' = [NoReport EXCEPT !.error = TRUE]
    /\ boot' = After(report', FALSE)
    /\ UNCHANGED <<host, repo, held>>

(* The vault-free first install: the service creates the targets that are  *)
(* absent; a failure is only noted.                                        *)
FirstInstallApplied(ok) ==
    /\ boot = "apply"
    /\ ok => host.pipe = "service"
    /\ host' = IF ok /\ host.acl = "absent" THEN [host EXCEPT !.acl = "locked"] ELSE host
    /\ boot' = "second"
    /\ UNCHANGED <<repo, cyc, report, held>>

(* The bootstrap returns its report; a ready one may start the refresh     *)
(* loop, another call begins a bootstrap anew.                             *)
BootstrapReturns(to) ==
    /\ boot = "done"
    /\ to = "loop" => report.ready
    /\ boot' = to
    /\ UNCHANGED <<host, repo, cyc, report, held>>

Collecting ==
    \/ FoundationBuilt \/ IdentityVerified \/ BinaryProbed \/ TargetAclProbed
    \/ DenialExercised \/ (\E skip \in BOOLEAN : CycleComposed(skip)) \/ CollectorFails
    \/ \E ok \in BOOLEAN : FirstInstallApplied(ok)

EvidenceNext ==
    \/ Collecting
    \/ \E h \in Host, b \in Versions : BoundaryChanges(h, b)
    \/ \E to \in {"first", "loop"} : BootstrapReturns(to)

EvidenceSpec == EvidenceInit /\ [][EvidenceNext]_evidenceVars

-----------------------------------------------------------------------------
(* Properties.                                                             *)

(* The type of every variable.                                             *)
EvidenceTypeOK ==
    /\ host \in Host /\ repo \in Versions /\ cyc.built \in Versions
    /\ boot \in {"first", "apply", "second", "done", "loop"}
    /\ report \in [ready : BOOLEAN, acl : BOOLEAN, error : BOOLEAN]

(* A report that says ready comes from a cycle in which every boundary     *)
(* fact was true of the host at some moment after the cycle had begun: no  *)
(* answer of an earlier cycle, of an earlier build or of another process   *)
(* on the pipe can stand in for one, however the host changes meanwhile.   *)
ReadyIsFresh ==
    [][ report' # report /\ report'.ready =>
            held = {"published", "service", "binary", "acl"} ]_evidenceVars

=============================================================================
