----------------------------- MODULE MacLifecycle -----------------------------
(***************************************************************************)
(* The approved macOS lifecycle: a provisioner publishes a runner file and *)
(* runs it with a deadline (native/macos-runner-provisioning.c); the       *)
(* runner makes an account, two files and a launchd job, has the job deny  *)
(* a request, and removes everything again                                 *)
(* (native/macos-lifecycle-controller.c over its ownership modules and     *)
(* the dscl and launchctl adapters).  Each names its object by a fixed     *)
(* name, so other programs of root may make, replace or remove an object   *)
(* of that name between any two calls.  An object is checked in one step   *)
(* and acted on, by its name alone, in the next: what is acted on may be   *)
(* another's by then.                                                      *)
(***************************************************************************)
EXTENDS Naturals, Sequences

VARIABLES
    mac,    \* what is there under each of the fixed names
    cut,    \* commands whose process was killed and which may still take effect
    prov,   \* the provisioner: its step, whether it knows its file, its report
    ctl     \* the runner's controller: its step, what it owns, its report

macVars == <<mac, cut, prov, ctl>>

Files == {"runner", "binary", "plist"}
Objects == Files \cup {"account", "job"}

(* ours: made by this run and complete; part: made by this run, not         *)
(* complete; late: made by a command after it was killed; other: another's. *)
ObjectStates == {"none", "ours", "part", "late", "other"}

NoJob == [attempted |-> FALSE, verified |-> FALSE, active |-> FALSE]

\* A file is owned once it was created; known says that its inode is recorded.
NewController ==
    [at |-> "off", account |-> "no", bound |-> FALSE, job |-> NoJob,
     owned |-> {}, known |-> {}, denied |-> FALSE, complete |-> TRUE,
     result |-> "none"]

MacInit ==
    /\ mac \in [Objects -> {"none", "other"}]
    /\ cut = {}
    /\ prov = [at |-> "check", known |-> FALSE, ran |-> FALSE, result |-> "none"]
    /\ ctl = NewController

Absent(o) == mac[o] = "none"
Intact(o) == mac[o] = "ours"

\* A probe answers, or it fails: what the code asks for is then not shown.
Shown(p) == {b \in BOOLEAN : b => p}

-----------------------------------------------------------------------------
(* bw_publish_owned_file, bw_unlink_owned_file, and the dscl and launchctl *)
(* commands.  A step gives the result ok or not, and what it left behind.  *)

\* openat with O_EXCL, then write, chown, chmod, fsync and verification.
Published(f, ok, known) ==
    IF ok THEN Absent(f) /\ known /\ mac' = [mac EXCEPT ![f] = "ours"]
    ELSE Absent(f) /\ \E s \in {"part", "ours"} : mac' = [mac EXCEPT ![f] = s]

\* Nothing was opened: the name is taken, or the call failed.
NotOpened == UNCHANGED mac

\* fstatat: the entry is still the inode that was created.
StillOwned(f, known) == known /\ mac[f] \in {"ours", "part"}

\* unlinkat: whatever has the name by now is removed; fsync or the last look
\* may fail after it, or the call itself.
Unlinked(f, ok) ==
    \/ ~Absent(f) /\ mac' = [mac EXCEPT ![f] = "none"]
    \/ ~ok /\ UNCHANGED mac

(* A command that exits cleanly had its effect; one that does not may have *)
(* had it, or a part of it, or have it later.                              *)
Ran(command, o, ok, whole, partial) ==
    IF ok THEN mac' = [mac EXCEPT ![o] = whole] /\ UNCHANGED cut
    ELSE \/ \E s \in {mac[o], whole} \cup partial :
                mac' = [mac EXCEPT ![o] = s] /\ UNCHANGED cut
         \/ UNCHANGED mac /\ cut' = cut \cup {command}

\* What a killed command had asked for takes effect, or never does.
CutTakesEffect(command) ==
    /\ command \in cut /\ cut' = cut \ {command}
    /\ mac' = CASE command = "create" -> [mac EXCEPT !["account"] = 
                                          IF @ \in {"none", "other"} THEN "late" ELSE @]
                [] command = "bootstrap" -> [mac EXCEPT !["job"] = IF @ = "none" THEN "late" ELSE @]
                [] command = "delete" -> [mac EXCEPT !["account"] = "none"]
                [] OTHER -> [mac EXCEPT !["job"] = "none"]
    /\ UNCHANGED <<prov, ctl>>

CutIsLost(command) ==
    command \in cut /\ cut' = cut \ {command} /\ UNCHANGED <<mac, prov, ctl>>

\* Another program of root makes, replaces or removes an object during the run.
OthersAct(o, s) ==
    /\ s \in {"none", "other"} /\ s # mac[o] /\ prov.at # "over"
    /\ mac' = [mac EXCEPT ![o] = s]
    /\ UNCHANGED <<cut, prov, ctl>>

-----------------------------------------------------------------------------
(* bw_run_lifecycle: preflight and mutations.                              *)

Ctl(s) == ctl.at = s
To(s) == [ctl EXCEPT !.at = s]
Cleanup == To("cleanJob")
Mine == UNCHANGED <<cut, prov>>

\* The runner's main returns without a report of its own.
Refused == [ctl EXCEPT !.at = "over", !.result = "refused"]

PREFLIGHT == <<"binary", "plist", "account", "job">>

\* child_absent twice, then the probes of the two prepare functions.
Preflight(i) ==
    /\ ctl.at = PREFLIGHT[i]
    /\ \E absent \in Shown(Absent(PREFLIGHT[i])) :
           ctl' = IF ~absent THEN Refused
                  ELSE To(IF i < Len(PREFLIGHT) THEN PREFLIGHT[i + 1] ELSE "create")
    /\ UNCHANGED mac /\ Mine

\* dscl -create succeeds also when the record exists by now, and takes it
\* over.  The record counts as created only if every command succeeded.
CreateAccount ==
    /\ Ctl("create")
    /\ \E ok \in BOOLEAN :
        /\ Ran("create", "account", ok, "ours", {"part"})
        /\ \E seen \in BOOLEAN :
               ctl' = IF ~ok THEN Cleanup
                      ELSE IF seen THEN [To("publishBinary") EXCEPT !.account = "verified"]
                      ELSE [Cleanup EXCEPT !.account = "created"]
    /\ UNCHANGED prov

PublishFile(f, here, next) ==
    /\ Ctl(here)
    /\ \/ NotOpened /\ ctl' = Cleanup
       \/ \E ok, known \in BOOLEAN :
           /\ Published(f, ok, known)
           /\ ctl' = [(IF ok THEN To(next) ELSE Cleanup) EXCEPT
                         !.owned = @ \cup {f},
                         !.known = IF known THEN @ \cup {f} ELSE @]
    /\ Mine

\* verify_artifacts: both files are still the ones that were published.
verify_artifacts == ctl.bound /\ Intact("binary") /\ Intact("plist")

BindArtifacts ==
    /\ Ctl("bind")
    /\ \E ok \in Shown(Intact("binary") /\ Intact("plist")) :
           ctl' = IF ok THEN [To("bootstrap") EXCEPT !.bound = TRUE] ELSE Cleanup
    /\ UNCHANGED mac /\ Mine

\* bw_verify_owned_launchd_job: the artifacts, the printed job and the probes.
JobVerifies == verify_artifacts /\ Intact("job")

\* The artifacts are verified, and then launchctl loads what the property list
\* says by now; it refuses a label that is loaded.
Tried == [Cleanup EXCEPT !.job.attempted = TRUE]

BootstrapJob ==
    /\ Ctl("bootstrap")
    /\ ctl' = Tried \/ (verify_artifacts /\ ctl' = To("load"))
    /\ UNCHANGED mac /\ Mine

LoadJob ==
    /\ Ctl("load")
    /\ \/ UNCHANGED <<mac, cut>> /\ ctl' = Tried
       \/ /\ Absent("job") /\ ~Absent("plist")
          /\ \E ok, seen \in BOOLEAN :
              /\ Ran("bootstrap", "job", ok,
                     IF Intact("binary") /\ Intact("plist") THEN "ours" ELSE "part", {})
              /\ seen => verify_artifacts
              /\ ctl' = IF ~ok THEN Tried
                        ELSE [(IF seen THEN To("activate") ELSE Cleanup) EXCEPT
                                 !.job = [NoJob EXCEPT !.attempted = TRUE, !.verified = seen]]
    /\ UNCHANGED prov

ActivateJob ==
    /\ Ctl("activate")
    /\ \E verified \in Shown(JobVerifies), up \in BOOLEAN :
           ctl' = IF ~verified THEN [Cleanup EXCEPT !.job.verified = FALSE]
                  ELSE [(IF up THEN To("deny") ELSE Cleanup) EXCEPT !.job.active = TRUE]
    /\ UNCHANGED mac /\ Mine

ExerciseDenial ==
    /\ Ctl("deny")
    /\ \E verified \in Shown(JobVerifies), denied \in BOOLEAN :
           ctl' = IF ~verified THEN [Cleanup EXCEPT !.job.verified = FALSE]
                  ELSE [Cleanup EXCEPT !.denied = denied]
    /\ UNCHANGED mac /\ Mine

-----------------------------------------------------------------------------
(* bw_run_lifecycle: the cleanup, each part whatever became of the others. *)

Cleaned(next, ok) == [To(next) EXCEPT !.complete = @ /\ ok]

\* bw_cleanup_owned_launchd_job: a job that was never verified is only looked
\* for; one that was is stopped, verified once more, and booted out.
CleanJob ==
    /\ Ctl("cleanJob")
    /\ \/ ~ctl.job.attempted /\ ctl' = Cleaned("cleanPlist", TRUE)
       \/ /\ ctl.job.attempted /\ ~ctl.job.verified
          /\ \E absent \in Shown(Absent("job")) : ctl' = Cleaned("cleanPlist", absent)
       \/ ctl.job.verified /\ ctl' = Cleaned("cleanPlist", FALSE)
       \/ /\ ctl.job.verified /\ JobVerifies
          /\ \E stopped \in BOOLEAN :
                 (stopped \/ ctl.job.active) /\ ctl' = Cleaned("bootout", stopped)
    /\ UNCHANGED mac /\ Mine

\* launchctl bootout, and the probes after it.
BootOutJob ==
    /\ Ctl("bootout")
    /\ \E ok, gone \in BOOLEAN :
        /\ ok => ~Absent("job")
        /\ Ran("bootout", "job", ok, "none", {})
        /\ ctl' = Cleaned("cleanPlist", ok /\ gone)
    /\ UNCHANGED prov

\* Mutant: the file goes by its name, whose inode it is is not looked at.
CleanByName(f, here, act, next) ==
    /\ Ctl(here)
    /\ ctl' = IF f \in ctl.owned THEN Cleaned(act, TRUE) ELSE Cleaned(next, TRUE)
    /\ UNCHANGED mac /\ Mine

\* file_cleanup: bw_unlink_owned_file if the file was created.
CleanFile(f, here, act, next) ==
    /\ Ctl(here)
    /\ \/ ctl' = Cleaned(next, f \notin ctl.owned)
       \/ f \in ctl.owned /\ StillOwned(f, f \in ctl.known) /\ ctl' = Cleaned(act, TRUE)
    /\ UNCHANGED mac /\ Mine

UnlinkFile(f, act, next) ==
    /\ Ctl(act)
    /\ \E ok \in BOOLEAN : Unlinked(f, ok) /\ ctl' = Cleaned(next, ok)
    /\ Mine

(* bw_delete_owned_account: a record that was created and not verified is   *)
(* left, and counts as not cleaned; one that failed to be created counts as *)
(* clean here, and is looked for at the end.                                *)
CleanAccount ==
    /\ Ctl("cleanAccount")
    /\ \/ ctl' = Cleaned("final", ctl.account = "no")
       \/ ctl.account = "verified" /\ Intact("account") /\ ctl' = Cleaned("delete", TRUE)
    /\ UNCHANGED mac /\ Mine

\* dscl -delete, which is given the name, and the probes after it.
DeleteAccount ==
    /\ Ctl("delete")
    /\ \E ok, gone \in BOOLEAN :
        /\ ok => ~Absent("account")
        /\ Ran("delete", "account", ok, "none", {})
        /\ ctl' = Cleaned("final", ok /\ gone)
    /\ UNCHANGED prov

\* The probes of final_absence_complete, and the runner's exit code.
FinalAbsence ==
    /\ Ctl("final")
    /\ \E absent \in Shown(\A o \in Objects \ {"runner"} : Absent(o)), written \in BOOLEAN :
        ctl' = [ctl EXCEPT !.at = "over",
                           !.result = IF ~(ctl.complete /\ absent) THEN "recover"
                                      ELSE IF ctl.denied /\ written THEN "success"
                                      ELSE "failed"]
    /\ UNCHANGED mac /\ Mine

-----------------------------------------------------------------------------
(* bw_provision_run_cleanup_runner.                                        *)

Prov(s) == prov.at = s

ProvisionRunner ==
    /\ Prov("check")
    /\ \/ NotOpened /\ prov' = [prov EXCEPT !.at = "over", !.result = "collision"]
       \/ \E ok, known \in BOOLEAN :
           /\ Published("runner", ok, known)
           /\ prov' = [prov EXCEPT !.at = IF ok THEN "execute" ELSE "clean", !.known = known]
    /\ UNCHANGED <<cut, ctl>>

\* The file is verified once more and run from its descriptor; the approval
\* may be refused, and fork may fail.
ExecuteRunner ==
    /\ Prov("execute")
    /\ \/ prov' = [prov EXCEPT !.at = "clean"] /\ UNCHANGED ctl
       \/ Intact("runner") /\ prov' = [prov EXCEPT !.at = "wait"]
          /\ ctl' \in {To("binary"), Refused}
    /\ UNCHANGED <<mac, cut>>

RunnerReaped ==
    /\ Prov("wait") /\ Ctl("over")
    /\ prov' = [prov EXCEPT !.at = "clean", !.ran = ctl.result = "success"]
    /\ UNCHANGED <<mac, cut, ctl>>

\* The command that the controller may be waiting for.
InFlight ==
    {command \in {"create", "bootstrap", "bootout", "delete"} :
        \/ command = "create" /\ Ctl("create")
        \/ command = "bootstrap" /\ Ctl("load")
        \/ command = "bootout" /\ Ctl("bootout")
        \/ command = "delete" /\ Ctl("delete")}

(* At the deadline the runner is killed at any of its steps; the command it *)
(* was waiting for lives on.                                                *)
RunnerKilled ==
    /\ Prov("wait") /\ ~Ctl("over")
    /\ ctl' = [ctl EXCEPT !.at = "over", !.result = "killed"]
    /\ prov' = [prov EXCEPT !.at = "clean"]
    /\ \E alive \in SUBSET InFlight : cut' = cut \cup alive
    /\ UNCHANGED mac

\* The clean-up of the runner's file, and the report.
Reported(ok) ==
    [prov EXCEPT !.at = "over",
                 !.result = IF ~ok THEN "recover"
                            ELSE IF prov.ran THEN "success" ELSE "failed"]

CleanRunner ==
    /\ Prov("clean")
    /\ \/ prov' = Reported(FALSE)
       \/ StillOwned("runner", prov.known) /\ prov' = [prov EXCEPT !.at = "unlink"]
    /\ UNCHANGED <<mac, cut, ctl>>

UnlinkRunner ==
    /\ Prov("unlink")
    /\ \E ok, absent \in BOOLEAN :
        /\ Unlinked("runner", ok)
        /\ absent => mac'["runner"] = "none"
        /\ prov' = Reported(ok /\ absent)
    /\ UNCHANGED <<cut, ctl>>

-----------------------------------------------------------------------------

Mutations ==
    \/ \E i \in DOMAIN PREFLIGHT : Preflight(i)
    \/ CreateAccount
    \/ PublishFile("binary", "publishBinary", "publishPlist")
    \/ PublishFile("plist", "publishPlist", "bind")
    \/ BindArtifacts \/ BootstrapJob \/ LoadJob \/ ActivateJob \/ ExerciseDenial

Removals ==
    \/ CleanJob \/ BootOutJob
    \/ CleanFile("plist", "cleanPlist", "unlinkPlist", "cleanBinary")
    \/ UnlinkFile("plist", "unlinkPlist", "cleanBinary")
    \/ CleanFile("binary", "cleanBinary", "unlinkBinary", "cleanAccount")
    \/ UnlinkFile("binary", "unlinkBinary", "cleanAccount")
    \/ CleanAccount \/ DeleteAccount \/ FinalAbsence

Provisioning ==
    \/ ProvisionRunner \/ ExecuteRunner \/ RunnerReaped \/ RunnerKilled
    \/ CleanRunner \/ UnlinkRunner

MacNext ==
    \/ Mutations \/ Removals \/ Provisioning
    \/ \E command \in cut : CutTakesEffect(command) \/ CutIsLost(command)
    \/ \E o \in Objects, s \in ObjectStates : OthersAct(o, s)

MacSpec == MacInit /\ [][MacNext]_macVars

-----------------------------------------------------------------------------

MutationSteps == {"binary", "plist", "account", "job", "create", "publishBinary",
                  "publishPlist", "bind", "bootstrap", "load", "activate", "deny"}
CleanupSteps == {"cleanJob", "bootout", "cleanPlist", "unlinkPlist", "cleanBinary",
                 "unlinkBinary", "cleanAccount", "delete", "final"}

MacTypeOK ==
    /\ mac \in [Objects -> ObjectStates]
    /\ cut \subseteq {"create", "bootstrap", "delete", "bootout"}
    /\ prov \in [at : {"check", "execute", "wait", "clean", "unlink", "over"},
                 known : BOOLEAN, ran : BOOLEAN,
                 result : {"none", "collision", "recover", "failed", "success"}]
    /\ ctl \in [at : MutationSteps \cup CleanupSteps \cup {"off", "over"},
                account : {"no", "created", "verified"}, bound : BOOLEAN,
                job : [attempted : BOOLEAN, verified : BOOLEAN, active : BOOLEAN],
                owned : SUBSET Files, known : SUBSET Files,
                denied : BOOLEAN, complete : BOOLEAN,
                result : {"none", "refused", "recover", "failed", "success", "killed"}]

\* What this run made and is still there.
Leftover == {o \in Objects : mac[o] \in {"ours", "part"}}

(* A provisioner that succeeds had a denial shown and leaves nothing behind, *)
(* no command of it still on its way; and a runner that reports a complete   *)
(* cleanup leaves nothing of its own but what a killed command makes later   *)
(* (docs/phase5h30: any remaining object sets manual_recovery_required).     *)
ReportIsHonest ==
    /\ prov.result = "success" => ctl.denied /\ Leftover = {} /\ cut = {}
    /\ ctl.result \in {"success", "failed"} => Leftover \subseteq {"runner"}

(* What makes ReportIsHonest inductive.  A command that is cut off ends the *)
(* mutations, so none is on its way while they go on; afterwards one can    *)
(* only be at the price of a complete cleanup.                              *)
ReportInv ==
    /\ prov.at \in {"check", "execute"} => ctl.at = "off"
    /\ ctl.at \in MutationSteps \cup {"off"} => cut = {} /\ ~ctl.denied
    /\ ctl.at \in CleanupSteps /\ ctl.denied /\ ctl.complete => cut = {}
    /\ ctl.result # "none" => ctl.at = "over"
    /\ ctl.result = "success" => ctl.denied /\ cut = {}
    /\ ctl.result \in {"success", "failed"} => Leftover \subseteq {"runner"}
    /\ prov.ran => ctl.result = "success"
    /\ prov.result # "none" => prov.at = "over"
    /\ prov.result = "success" => prov.ran /\ mac["runner"] = "none"

\* What passed its last check and is acted on next.
Checked(o) ==
    \/ o = "job" /\ Ctl("bootout")
    \/ o = "plist" /\ Ctl("unlinkPlist")
    \/ o = "binary" /\ Ctl("unlinkBinary")
    \/ o = "account" /\ Ctl("delete")
    \/ o = "runner" /\ Prov("unlink")

\* A command of this run acts on o, or may: nothing looks at whose it is.
InWindow(o) ==
    \/ Checked(o)
    \/ o = "account" /\ (Ctl("create") \/ cut \cap {"create", "delete"} # {})
    \/ o = "job" /\ cut \cap {"bootstrap", "bootout"} # {}

(* What another program made under one of the names never passes the last   *)
(* check before a removal, and is never touched but in the window that a     *)
(* check leaves open: between it and the removal, between the probes of the  *)
(* account and its creation, and while a command that was cut off is on its  *)
(* way (macos-retained-file-ops.c:133, macos-launchd-job-ownership.c:189,     *)
(* macos-account-ownership.c:124).                                           *)
OthersAreKept ==
    [][\A o \in Objects :
           mac[o] = "other" /\ <<cut, prov, ctl>>' # <<cut, prov, ctl>>
           => /\ Checked(o)' => Checked(o)
              /\ InWindow(o) \/ mac'[o] = "other"]_macVars

(* REFUTED: "a replaced foreign object is preserved rather than removed"    *)
(* (docs/phase5h30-macos-composite-lifecycle-controller.md:30-31).          *)
ReplacedIsPreserved ==
    [][\A o \in Objects :
           mac[o] = "other" /\ <<cut, prov, ctl>>' # <<cut, prov, ctl>>
           => mac'[o] # "none"]_macVars

\* The lifecycle of docs/phase5h30: honest about what it leaves, and harmless
\* to what it does not own but for the windows of its checks, whoever
\* interferes and whichever command fails.
MacLifecycleIsSound == []ReportIsHonest /\ OthersAreKept
=============================================================================
