--------------------------- MODULE MCOwnedBrowser ---------------------------
(* The Bridge-owned browser: a behaviour is one of a session, or one of    *)
(* the starts that compete for the slots of one process, the other part    *)
(* staying where it begins.  The behaviours of a session are taken         *)
(* undisturbed, with runs of up to four requests (three where the page     *)
(* sets a cookie), or disturbed by time and by clients and pages that do   *)
(* not go on, with two requests; "drain" has all of it on three documents. *)
EXTENDS OwnedBrowser, OwnedBrowserAdmission

CONSTANT Scope  \* the parts a run is about

VARIABLE part   \* what the behaviour is about

MCInit == Init /\ AdmissionInit /\ part \in Scope

MCNext ==
    \/ /\ part = "sequences" /\ (Serve \/ Shutdown \/ Usual)
       /\ cookie' > 0 => sent' <= 3
       /\ UNCHANGED <<admissionVars, part>>
    \/ /\ part = "disturbed" /\ Next /\ sent' <= 2 /\ cookie' = 0
       /\ UNCHANGED <<admissionVars, part>>
    \/ /\ part = "drain" /\ Next /\ page'.doc \in {"login", "success", "foreign"}
       /\ UNCHANGED <<admissionVars, part>>
    \/ part = "admission" /\ AdmissionNext /\ UNCHANGED <<vars, part>>

MCSpec == MCInit /\ [][MCNext]_<<vars, admissionVars, part>>

MCFairSpec ==
    MCSpec /\ AdmissionFairness /\ WF_vars(Serve) /\ WF_vars(Shutdown)
=============================================================================
