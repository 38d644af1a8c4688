----------------------------- MODULE MCInstallers -----------------------------
(* What puts helpers on a machine and says what is there: a behaviour is one  *)
(* execution on a coherent host of one platform, one lifecycle of the macOS   *)
(* helper, the live tests and setups of the Windows service, or one           *)
(* collection of evidence; the other parts stay where they begin.             *)
EXTENDS DisposableExecutor, MacLifecycle, ServiceLifecycle, BoundaryEvidence

CONSTANT Scope  \* the parts a run is about

VARIABLE part   \* what the behaviour is about

MCPlatforms == {"win32", "linux", "darwin"}

Host0 == [pipe |-> "service", installed |-> CHOOSE v \in Versions : TRUE, acl |-> "absent"]

MCInit ==
    /\ Init /\ MacInit /\ LifecycleInit /\ EvidenceInit
    /\ part \in Scope
    /\ part # "execute" => /\ platform = "linux" /\ observed = Observe(initial)
                           /\ \A p \in Paths : initial[p] = "none"
    /\ part # "mac" => \A o \in Objects : Absent(o)
    /\ part # "evidence" => host = Host0 /\ repo = Host0.installed

MCNext ==
    \/ /\ part = "execute" /\ Next
       /\ UNCHANGED <<macVars, lifecycleVars, evidenceVars, part>>
    \/ /\ part = "mac" /\ MacNext
       /\ UNCHANGED <<vars, lifecycleVars, evidenceVars, part>>
    \/ /\ part = "service" /\ LifecycleNext
       /\ UNCHANGED <<vars, macVars, evidenceVars, part>>
    \/ /\ part = "evidence" /\ EvidenceNext
       /\ UNCHANGED <<vars, macVars, lifecycleVars, part>>

MCSpec == MCInit /\ [][MCNext]_<<vars, macVars, lifecycleVars, evidenceVars, part>>
=============================================================================
