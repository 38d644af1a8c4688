-------------------------- MODULE DisposableExecutor --------------------------
(***************************************************************************)
(* Execution of a confirmed apply manifest (src/disposable-executor.mjs     *)
(* with the manifest of src/apply-manifest.mjs): the forward actions with  *)
(* every system call that changes the disk as a step of its own, a failure *)
(* possible at each, and the rollback of what was activated.  The process  *)
(* may also stop anywhere: invariants on the disk hold in every state, so  *)
(* in whatever state a crash leaves.                                       *)
(***************************************************************************)
EXTENDS Naturals, Sequences

CONSTANT Platforms      \* the platforms of the run, among win32, linux, darwin

ASSUME PlatformsAssumption == Platforms \subseteq {"win32", "linux", "darwin"}

VARIABLES
    platform,
    initial,    \* the disk before the execution
    observed,   \* payload.observed of the manifest
    disk,       \* what each managed path holds
    linked,     \* the two paths that share an inode (nlink 2), or none
    exposed,    \* paths others could write: no restrictive permission yet
    status,     \* ready, running, cleanTemp, rollback, or how it ended
    index, at,  \* the forward action under way and its next system call
    rollbackStack,
    failedAt    \* the call that failed

manifest == <<platform, initial, observed>>
vars == <<manifest, disk, linked, exposed, status, index, at, rollbackStack,
          failedAt>>

Paths == {"configDir", "configFile", "installRoot", "binDir", "launcher",
          "backup", "temp"}

\* "config" is the empty skeleton the manifest writes, "user" the operator's
\* own configuration, "old" and "new" are launchers told apart by digest.
Contents == {"none", "dir", "config", "user", "old", "new", "partial"}

\* On macOS the configuration lives in the install root.
RootOf(pf) == IF pf = "darwin" THEN "configDir" ELSE "installRoot"
installRoot == RootOf(platform)

\* The managed directories a path lies in.
Parents(p) ==
    CASE p = "configFile" -> {"configDir"}
      [] p = "binDir" -> {installRoot}
      [] p \in {"launcher", "backup", "temp"} -> {"binDir", installRoot}
      [] OTHER -> {}

Empty(d) == \A p \in Paths : d \in Parents(p) => disk[p] = "none"

Single(p) == p \notin linked

-----------------------------------------------------------------------------
(* observeDisposableState and buildApplyManifest.                          *)

\* A host with the given configuration, install directories, launcher and
\* temporary file of an earlier run with the same manifest.
DiskOf(dir, file, root, bin, launcher, temp) ==
    [p \in Paths |-> CASE p = "configDir" -> dir [] p = "configFile" -> file
                       [] p = "installRoot" -> root [] p = "binDir" -> bin
                       [] p = "launcher" -> launcher [] p = "temp" -> temp
                       [] p = "backup" -> "none"]

\* validateObservedState: what lies in an absent directory is absent.
Coherent(d, pf) ==
    /\ d["configDir"] = "none" => d["configFile"] = "none"
    /\ pf = "darwin" => d["installRoot"] = "none"
    /\ d[RootOf(pf)] = "none" => d["binDir"] = "none"
    /\ d["binDir"] = "none" => d["launcher"] = "none" /\ d["temp"] = "none"

Disks(pf) ==
    {d \in {DiskOf(dir, file, root, bin, launcher, temp) :
               dir \in {"none", "dir"}, file \in {"none", "user"},
               root \in {"none", "dir"}, bin \in {"none", "dir"},
               launcher \in {"none", "old", "new"},
               temp \in {"none", "partial", "new"}} : Coherent(d, pf)}

\* Only the launcher is observed with its digest.
Observe(d) ==
    [p \in {"configDir", "configFile", "installRoot", "binDir", "launcher"} |->
        IF p = "configFile" /\ d[p] # "none" THEN "secure_file" ELSE d[p]]

Action(kind, target) == [kind |-> kind, target |-> target]

If(condition, action) == IF condition THEN <<action>> ELSE <<>>

Forward ==
    If(observed["configDir"] = "none", Action("create_directory", "configDir"))
    \o If(observed["configFile"] = "none", Action("create_file", "configFile"))
    \o If(installRoot # "configDir" /\ observed["installRoot"] = "none",
          Action("create_directory", "installRoot"))
    \o If(observed["binDir"] = "none", Action("create_directory", "binDir"))
    \o CASE observed["launcher"] = "none" ->
                <<Action("publish", "launcher")>>
         [] observed["launcher"] = "old" ->
                <<Action("assert_absent", "backup"), Action("move", "launcher"),
                  Action("publish", "launcher"), Action("commit", "backup")>>
         [] OTHER -> <<>>

\* Mutant: directories have no rollback action.
MutantRollbackFor(a) ==
    CASE a.kind = "create_file" -> <<Action("remove_file", a.target)>>
      [] a.kind = "publish" -> If(observed["launcher"] = "none",
                                  Action("remove_file", a.target))
      [] a.kind = "move" -> <<Action("restore", "backup")>>
      [] OTHER -> <<>>

(* rollbackFor: the entry of payload.rollback that undoes an action.  In   *)
(* an upgrade nothing removes the published launcher by itself: restoring  *)
(* the old one does.                                                       *)
RollbackFor(a) ==
    CASE a.kind = "create_directory" -> <<Action("remove_directory", a.target)>>
      [] a.kind = "create_file" -> <<Action("remove_file", a.target)>>
      [] a.kind = "publish" -> If(observed["launcher"] = "none",
                                  Action("remove_file", a.target))
      [] a.kind = "move" -> <<Action("restore", "backup")>>
      [] OTHER -> <<>>

Init ==
    /\ platform \in Platforms
    /\ initial \in Disks(platform)
    /\ observed \in {Observe(d) : d \in Disks(platform)}
    /\ disk = initial
    /\ linked = {} /\ exposed = {}
    /\ status = "ready"
    /\ index = 1 /\ at = "next"
    /\ rollbackStack = <<>>
    /\ failedAt = "none"

-----------------------------------------------------------------------------
(* executeDisposableManifest.                                              *)

Done == index > Len(Forward)

\* The next system call is call, within an action of the given kind.
Calling(call, kind) ==
    /\ status = "running" /\ ~Done
    /\ at = call /\ Forward[index].kind = kind

Target == Forward[index].target

Write(p, content) == disk' = [disk EXCEPT ![p] = content]

\* A path just created: on Windows it inherits whatever its parent grants.
Expose(p) == exposed' \in IF platform = "win32" THEN {exposed, exposed \cup {p}}
                                                 ELSE {exposed}

\* onMutation: the rollback of the action under way is activated.
Activate == rollbackStack' = RollbackFor(Forward[index]) \o rollbackStack

Advance == index' = index + 1 /\ at' = "next"

(* Confirmation, workspace and rebuilt manifest agree and the disk is      *)
(* still as observed: the forward actions begin.                           *)
Begin ==
    /\ status = "ready"
    /\ observed = Observe(disk)
    /\ status' = "running"
    /\ UNCHANGED <<manifest, disk, linked, exposed, index, at, rollbackStack,
                   failedAt>>

(* Any of these checks fails: nothing has been touched.                    *)
Refuse ==
    /\ status = "ready"
    /\ status' = "refused"
    /\ UNCHANGED <<manifest, disk, linked, exposed, index, at, rollbackStack,
                   failedAt>>

CreateDirectory ==
    /\ Calling("next", "create_directory")
    /\ disk[Target] = "none"
    /\ Write(Target, "dir") /\ Expose(Target)
    /\ Activate
    /\ at' = "protect"
    /\ UNCHANGED <<manifest, linked, status, index, failedAt>>

(* writeExclusive: open 'wx', then the bytes.                              *)
OpenFile ==
    /\ Calling("next", "create_file")
    /\ disk[Target] = "none"
    /\ Write(Target, "partial") /\ Expose(Target)
    /\ at' = "write"
    /\ UNCHANGED <<manifest, linked, status, index, rollbackStack, failedAt>>

WriteFile ==
    /\ Calling("write", "create_file")
    /\ Write(Target, "config")
    /\ Activate
    /\ at' = "protect"
    /\ UNCHANGED <<manifest, linked, exposed, status, index, failedAt>>

(* The setter, then the verification of what the action made.              *)
Protect ==
    /\ status = "running" /\ ~Done /\ at = "protect"
    /\ Single(Target)
    /\ exposed' = exposed \ {Target}
    /\ Advance
    /\ UNCHANGED <<manifest, disk, linked, status, rollbackStack, failedAt>>

(* publishAtomic: a synced and protected temporary file is linked to the   *)
(* target and unlinked.                                                    *)
OpenTemp ==
    /\ Calling("next", "publish")
    /\ disk["temp"] = "none"
    /\ Write("temp", "partial") /\ Expose("temp")
    /\ at' = "writeTemp"
    /\ UNCHANGED <<manifest, linked, status, index, rollbackStack, failedAt>>

WriteTemp ==
    /\ Calling("writeTemp", "publish")
    /\ Write("temp", "new")
    /\ at' = "protectTemp"
    /\ UNCHANGED <<manifest, linked, exposed, status, index, rollbackStack,
                   failedAt>>

ProtectTemp ==
    /\ Calling("protectTemp", "publish")
    /\ exposed' = exposed \ {"temp"}
    /\ at' = "linkTemp"
    /\ UNCHANGED <<manifest, disk, linked, status, index, rollbackStack,
                   failedAt>>

LinkTemp ==
    /\ Calling("linkTemp", "publish")
    /\ disk["launcher"] = "none"
    /\ Write("launcher", disk["temp"])
    /\ linked' = {"temp", "launcher"}
    /\ at' = "unlinkTemp"
    /\ UNCHANGED <<manifest, exposed, status, index, rollbackStack, failedAt>>

UnlinkTemp ==
    /\ Calling("unlinkTemp", "publish")
    /\ Write("temp", "none")
    /\ linked' = {}
    /\ Activate
    /\ at' = "protect"
    /\ UNCHANGED <<manifest, exposed, status, index, failedAt>>

AssertAbsent ==
    /\ Calling("next", "assert_absent")
    /\ disk[Target] = "none"
    /\ Advance
    /\ UNCHANGED <<manifest, disk, linked, exposed, status, rollbackStack,
                   failedAt>>

(* moveExclusive: the old launcher gets its second name, loses its first.  *)
LinkBackup ==
    /\ Calling("next", "move")
    /\ disk["backup"] = "none"
    /\ disk["launcher"] = "old" /\ Single("launcher")
    /\ Write("backup", disk["launcher"])
    /\ linked' = {"launcher", "backup"}
    /\ at' = "unlinkSource"
    /\ UNCHANGED <<manifest, exposed, status, index, rollbackStack, failedAt>>

UnlinkSource ==
    /\ Calling("unlinkSource", "move")
    /\ Write("launcher", "none")
    /\ linked' = {}
    /\ Activate
    /\ at' = "verifyMoved"
    /\ UNCHANGED <<manifest, exposed, status, index, failedAt>>

VerifyMoved ==
    /\ Calling("verifyMoved", "move")
    /\ disk["backup"] = "old" /\ Single("backup")
    /\ Advance
    /\ UNCHANGED <<manifest, disk, linked, exposed, status, rollbackStack,
                   failedAt>>

\* verifyFinalState: what is observed again is the installed launcher.
FinalState ==
    /\ disk["launcher"] = "new" /\ Single("launcher")
    /\ disk["configFile"] # "none"
    /\ exposed \cap DOMAIN observed = {}

\* Mutant: the backup is kept although the upgrade is reported as committed.
MutantCommit ==
    /\ Calling("next", "commit")
    /\ FinalState
    /\ status' = "applied"
    /\ UNCHANGED <<manifest, disk, linked, exposed, index, at, rollbackStack,
                   failedAt>>

(* The final state is verified while the backup still exists; its removal  *)
(* commits the upgrade.                                                    *)
Commit ==
    /\ Calling("next", "commit")
    /\ FinalState
    /\ disk["backup"] = "old" /\ Single("backup")
    /\ Write("backup", "none")
    /\ rollbackStack' = <<>>
    /\ status' = "applied"
    /\ UNCHANGED <<manifest, linked, exposed, index, at, failedAt>>

(* A manifest without a backup ends with the verification.                 *)
Finish ==
    /\ status = "running" /\ Done
    /\ FinalState
    /\ status' = "applied"
    /\ UNCHANGED <<manifest, disk, linked, exposed, index, at, rollbackStack,
                   failedAt>>

\* The calls inside the try of publishAtomic.
InPublish == ~Done /\ Forward[index].kind = "publish" /\ at # "next"

(* A check or a system call fails.  A failed write or sync may have written *)
(* any of its bytes, a failed setter may have done its work.               *)
ActionFails ==
    /\ status = "running"
    /\ status' = IF InPublish THEN "cleanTemp" ELSE "rollback"
    /\ failedAt' = at /\ at' = "undo"
    /\ disk' \in CASE at = "write" -> {disk, [disk EXCEPT !["configFile"] = "config"]}
                   [] at = "writeTemp" -> {disk, [disk EXCEPT !["temp"] = "new"]}
                   [] OTHER -> {disk}
    /\ exposed' \in CASE at = "protect" -> {exposed, exposed \ {Target}}
                      [] at = "protectTemp" -> {exposed, exposed \ {"temp"}}
                      [] OTHER -> {exposed}
    /\ UNCHANGED <<manifest, linked, index, rollbackStack>>

(* removeTempIfOwned: only a complete temporary file of its own is removed, *)
(* and a failure to remove it is swallowed.                                *)
CleanTemp ==
    /\ status = "cleanTemp"
    /\ status' = "rollback"
    /\ \/ /\ disk["temp"] = "new" /\ Single("temp")
          /\ Write("temp", "none")
          /\ exposed' = exposed \ {"temp"}
       \/ UNCHANGED <<disk, exposed>>
    /\ UNCHANGED <<manifest, linked, index, at, rollbackStack, failedAt>>

-----------------------------------------------------------------------------
(* The rollback loop.                                                      *)

Undo == Head(rollbackStack)

\* The parent chain and the target of the entry are still protected.
Protected == ({Undo.target} \cup Parents(Undo.target)) \cap exposed = {}

\* What an entry verifies before it changes anything.
Undoable ==
    /\ Protected
    /\ CASE Undo.kind = "remove_directory" ->
              disk[Undo.target] = "dir" /\ Empty(Undo.target)
         [] Undo.kind = "remove_file" ->
              /\ disk[Undo.target] \in {"config", "new"}
              /\ Single(Undo.target)
         [] Undo.kind = "restore" ->
              /\ disk["backup"] = "old" /\ Single("backup")
              /\ disk["launcher"] \in {"none", "new"} /\ Single("launcher")

\* The loop stands before an entry of the given kind.
Undoing(kind) ==
    /\ status = "rollback" /\ rollbackStack # <<>>
    /\ at = "undo" /\ Undo.kind = kind
    /\ Undoable

\* An entry has done its work; the check that follows it may still fail.
EntryDone ==
    /\ rollbackStack' = Tail(rollbackStack)
    /\ status' \in {"rollback", "rollbackFailed"}

Remove ==
    /\ Undoing("remove_file") \/ Undoing("remove_directory")
    /\ Write(Undo.target, "none")
    /\ EntryDone
    /\ UNCHANGED <<manifest, linked, exposed, index, at, failedAt>>

\* Mutant: the rollback unlinks the target of the move, not its destination.
MutantRestore ==
    /\ Undoing("restore")
    /\ Write("backup", "none")
    /\ at' = "restoreLink"
    /\ UNCHANGED <<manifest, linked, exposed, status, index, rollbackStack,
                   failedAt>>

(* restore_file_exclusive: a published new launcher is unlinked first ...  *)
Restore ==
    /\ Undoing("restore")
    /\ Write("launcher", "none")
    /\ at' = "restoreLink"
    /\ UNCHANGED <<manifest, linked, exposed, status, index, rollbackStack,
                   failedAt>>

(* ... then the old one gets its name back ...                             *)
RestoreLink ==
    /\ status = "rollback" /\ at = "restoreLink"
    /\ Write("launcher", disk["backup"])
    /\ linked' = {"launcher", "backup"}
    /\ at' = "restoreUnlink"
    /\ UNCHANGED <<manifest, exposed, status, index, rollbackStack, failedAt>>

(* ... and the backup is unlinked.                                         *)
RestoreUnlink ==
    /\ status = "rollback" /\ rollbackStack # <<>> /\ at = "restoreUnlink"
    /\ Write("backup", "none")
    /\ linked' = {}
    /\ at' = "undo"
    /\ EntryDone
    /\ UNCHANGED <<manifest, exposed, index, failedAt>>

(* A check or a system call of the rollback fails: the rest is not tried.  *)
RollbackFails ==
    /\ status = "rollback" /\ rollbackStack # <<>>
    /\ status' = "rollbackFailed"
    /\ UNCHANGED <<manifest, disk, linked, exposed, index, at, rollbackStack,
                   failedAt>>

(* Every activated entry has run: the rollback is reported as completed.   *)
RollbackCompletes ==
    /\ status = "rollback" /\ rollbackStack = <<>>
    /\ status' = "rolledBack"
    /\ UNCHANGED <<manifest, disk, linked, exposed, index, at, rollbackStack,
                   failedAt>>

-----------------------------------------------------------------------------

ExecuteForward ==
    \/ CreateDirectory \/ OpenFile \/ WriteFile \/ Protect
    \/ OpenTemp \/ WriteTemp \/ ProtectTemp \/ LinkTemp \/ UnlinkTemp
    \/ AssertAbsent \/ LinkBackup \/ UnlinkSource \/ VerifyMoved \/ Commit

ExecuteRollback ==
    \/ Remove \/ Restore \/ RestoreLink \/ RestoreUnlink
    \/ RollbackFails \/ RollbackCompletes

Next ==
    \/ Begin \/ Refuse
    \/ ExecuteForward \/ Finish \/ ActionFails \/ CleanTemp
    \/ ExecuteRollback

Spec == Init /\ [][Next]_vars

-----------------------------------------------------------------------------
(* Properties.                                                             *)

Calls == {"next", "protect", "write", "writeTemp", "protectTemp", "linkTemp",
          "unlinkTemp", "unlinkSource", "verifyMoved", "undo", "restoreLink",
          "restoreUnlink"}

RollbackActions == [kind : {"remove_directory", "remove_file", "restore"},
                    target : Paths]

(* The type of every variable of an execution.                             *)
TypeOK ==
    /\ platform \in Platforms
    /\ initial \in [Paths -> Contents] /\ disk \in [Paths -> Contents]
    /\ linked \subseteq Paths /\ exposed \subseteq Paths
    /\ status \in {"ready", "refused", "running", "cleanTemp", "rollback",
                   "applied", "rolledBack", "rollbackFailed"}
    /\ index \in Nat \ {0} /\ at \in Calls
    /\ rollbackStack \in Seq(RollbackActions)
    /\ failedAt \in Calls \cup {"none"}

(* What is reported as applied is complete: the new launcher under its one *)
(* name, a configuration, no backup, no temporary file of this run, nothing *)
(* that others can write, and the operator's own configuration untouched.  *)
AppliedIsComplete ==
    status = "applied" =>
        /\ disk["launcher"] = "new" /\ disk["backup"] = "none"
        /\ disk["temp"] = initial["temp"]
        /\ linked = {} /\ exposed = {}
        /\ disk["configFile"] = IF initial["configFile"] = "user" THEN "user"
                                                                 ELSE "config"

(* At every moment, so after every crash and every failed rollback, the    *)
(* launcher path holds a whole launcher or nothing, and until the upgrade  *)
(* is committed the old launcher still exists under one of its two names.  *)
LauncherIsSafe ==
    /\ disk["launcher"] \in {"none", "old", "new"}
    /\ initial["launcher"] = "old" /\ status # "applied" =>
          "old" \in {disk["launcher"], disk["backup"]}

(* What LauncherIsSafe rests on: the call before a launcher is unlinked or *)
(* replaced has given its content a second name.                           *)
ExecInv ==
    /\ TypeOK
    /\ LauncherIsSafe
    /\ at \in {"protectTemp", "linkTemp"} =>
          disk["temp"] = "new" /\ status # "cleanTemp"
    /\ at \in {"unlinkSource", "restoreLink"} => disk["backup"] = "old"
    /\ at = "restoreUnlink" => disk["launcher"] = "old"

\* What the failing action may itself have left: it is not activated yet.
Remains ==
    CASE failedAt = "write" -> {"configFile"}
      [] failedAt \in {"unlinkTemp", "linkTemp", "protectTemp", "writeTemp"} ->
            {"launcher", "temp"}
      [] failedAt = "unlinkSource" -> {"launcher", "backup"}
      [] OTHER -> {}

(* A rollback reported as completed has undone every action before the one *)
(* that failed: all other paths are as they were.                          *)
CompletedActionsUndone ==
    status = "rolledBack" =>
        \A p \in Paths \ Remains : disk[p] = initial[p]

(* The rollback never stands in its own way: an entry finds the state it   *)
(* expects unless the failing action left something behind or the          *)
(* permissions of a new path are missing.                                  *)
RollbackFindsItsState ==
    /\ status = "rollback" /\ at = "undo" /\ rollbackStack # <<>>
    /\ exposed = {}
    /\ \A p \in Remains : disk[p] = initial[p]
    => Undoable

(* The rollback as a whole: its entries fit each other in reverse order,   *)
(* and what it reports as completed has undone every completed action.     *)
RollbackIsSound == CompletedActionsUndone /\ RollbackFindsItsState

(* docs/phase5d-apply-live-test-gate.md: on partial failure, restore the   *)
(* files created or replaced by the confirmed manifest.                    *)
RollbackRestores == status = "rolledBack" => disk = initial
=============================================================================
