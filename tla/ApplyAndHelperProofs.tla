----------------------- MODULE ApplyAndHelperProofs -----------------------
(***************************************************************************)
(* Proofs about what changes the machine: the executor of a manifest on    *)
(* every platform, the session with the Windows helper, and the macOS      *)
(* lifecycle; whichever system calls fail and whoever interferes.          *)
(***************************************************************************)
EXTENDS DisposableExecutor, HelperSession, MacLifecycle, SequenceTheorems, TLAPS

-----------------------------------------------------------------------------
(* The executor.                                                           *)

\* The actions a manifest is made of.
ForwardActions ==
    [kind : {"create_directory"}, target : {"configDir", "installRoot", "binDir"}]
    \cup [kind : {"create_file"}, target : {"configFile"}]
    \cup [kind : {"publish", "move"}, target : {"launcher"}]
    \cup [kind : {"assert_absent", "commit"}, target : {"backup"}]

(* An optional action is a sequence of at most one action.                 *)
LEMMA IfTyped ==
    ASSUME NEW S, NEW a \in S, NEW c
    PROVE  If(c, a) \in Seq(S)
BY DEF If

(* buildApplyManifest produces actions of these forms only.                *)
LEMMA ForwardTyped == Forward \in Seq(ForwardActions)
<1> DEFINE A == ForwardActions
           d1 == If(observed["configDir"] = "none",
                    Action("create_directory", "configDir"))
           f1 == If(observed["configFile"] = "none",
                    Action("create_file", "configFile"))
           d2 == If(installRoot # "configDir" /\ observed["installRoot"] = "none",
                    Action("create_directory", "installRoot"))
           d3 == If(observed["binDir"] = "none",
                    Action("create_directory", "binDir"))
           l1 == <<Action("publish", "launcher")>>
           l2 == <<Action("assert_absent", "backup"), Action("move", "launcher"),
                   Action("publish", "launcher"), Action("commit", "backup")>>
           l == CASE observed["launcher"] = "none" -> l1
                  [] observed["launcher"] = "old" -> l2
                  [] OTHER -> <<>>
<1>1. /\ Action("create_directory", "configDir") \in A
      /\ Action("create_file", "configFile") \in A
      /\ Action("create_directory", "installRoot") \in A
      /\ Action("create_directory", "binDir") \in A
      /\ Action("publish", "launcher") \in A
      /\ Action("assert_absent", "backup") \in A
      /\ Action("move", "launcher") \in A
      /\ Action("commit", "backup") \in A
  BY DEF Action, ForwardActions
<1>2. d1 \in Seq(A) /\ f1 \in Seq(A) /\ d2 \in Seq(A) /\ d3 \in Seq(A)
  <2> HIDE DEF A
  <2> QED BY <1>1, IfTyped
<1>3. l \in Seq(A)
  <2> HIDE DEF A
  <2>1. l1 \in Seq(A) /\ l2 \in Seq(A) /\ <<>> \in Seq(A)
    BY <1>1
  <2>2. l = l1 \/ l = l2 \/ l = <<>>
    OBVIOUS
  <2> QED BY <2>1, <2>2
<1>4. Forward = d1 \o f1 \o d2 \o d3 \o l
  BY DEF Forward
<1> HIDE DEF A, d1, f1, d2, d3, l
<1>5. d1 \o f1 \in Seq(A)
  BY <1>2, ConcatProperties
<1>6. d1 \o f1 \o d2 \in Seq(A)
  BY <1>2, <1>5, ConcatProperties
<1>7. d1 \o f1 \o d2 \o d3 \in Seq(A)
  BY <1>2, <1>6, ConcatProperties
<1>8. d1 \o f1 \o d2 \o d3 \o l \in Seq(A)
  BY <1>3, <1>7, ConcatProperties
<1> QED BY <1>4, <1>8 DEF A

(* The action under way is one of them.                                    *)
LEMMA CurrentAction ==
    ASSUME index \in Nat \ {0}, ~Done
    PROVE  Forward[index] \in ForwardActions
BY ForwardTyped DEF Done

(* What rollbackFor finds is a sequence of rollback actions.               *)
LEMMA RollbackForTyped ==
    ASSUME NEW a \in ForwardActions
    PROVE  RollbackFor(a) \in Seq(RollbackActions)
<1>1. a.target \in Paths
  BY DEF ForwardActions, Paths
<1>2. /\ Action("remove_directory", a.target) \in RollbackActions
      /\ Action("remove_file", a.target) \in RollbackActions
      /\ Action("restore", "backup") \in RollbackActions
  BY <1>1 DEF Action, RollbackActions, Paths
<1> HIDE DEF Action
<1>3. \A c : If(c, Action("remove_file", a.target)) \in Seq(RollbackActions)
  BY <1>2, IfTyped
<1> QED BY <1>2, <1>3 DEF RollbackFor

(* onMutation keeps the stack a sequence of rollback actions.              *)
LEMMA ActivateTyped ==
    ASSUME TypeOK, ~Done, Activate
    PROVE  rollbackStack' \in Seq(RollbackActions)
<1>1. RollbackFor(Forward[index]) \in Seq(RollbackActions)
  BY CurrentAction, RollbackForTyped DEF TypeOK
<1>2. rollbackStack \in Seq(RollbackActions)
  BY DEF TypeOK
<1> QED BY <1>1, <1>2, ConcatProperties DEF Activate

(* Writing one path leaves the others alone.                               *)
LEMMA WriteOne ==
    ASSUME TypeOK, NEW p \in Paths, NEW c \in Contents, Write(p, c)
    PROVE  /\ disk' \in [Paths -> Contents]
           /\ disk'[p] = c
           /\ \A q \in Paths \ {p} : disk'[q] = disk[q]
BY DEF TypeOK, Write

-----------------------------------------------------------------------------

(* Before the execution the launcher is whole and under its own name.      *)
LEMMA ExecInitially == Init => ExecInv
<1> SUFFICES ASSUME Init PROVE ExecInv
  OBVIOUS
<1>1. \A pf, d : d \in Disks(pf) =>
         /\ d \in [Paths -> Contents]
         /\ d["launcher"] \in {"none", "old", "new"}
  BY DEF Disks, DiskOf, Paths, Contents
<1>2. initial \in [Paths -> Contents] /\ initial["launcher"] \in {"none", "old", "new"}
  BY <1>1 DEF Init
<1>3. TypeOK
  BY <1>2 DEF Init, TypeOK, Calls
<1>4. LauncherIsSafe
  BY <1>2 DEF Init, LauncherIsSafe
<1> QED BY <1>3, <1>4 DEF ExecInv, Init

-----------------------------------------------------------------------------

(* The targets the forward actions write: a directory, the configuration.  *)
LEMMA CurrentTargets ==
    ASSUME TypeOK, ~Done
    PROVE  /\ Target \in Paths
           /\ Forward[index].kind = "create_directory" =>
                Target \in {"configDir", "installRoot", "binDir"}
           /\ Forward[index].kind = "create_file" => Target = "configFile"
BY CurrentAction DEF TypeOK, Target, ForwardActions, Paths

(* Every step keeps every variable in its type.                            *)
LEMMA TypeStep == TypeOK /\ [Next]_vars => TypeOK'
<1> SUFFICES ASSUME TypeOK, [Next]_vars PROVE TypeOK'
  OBVIOUS
<1> USE DEF Calls
<1>1. CASE Begin
  BY <1>1 DEF Begin, TypeOK, manifest
<1>2. CASE Refuse
  BY <1>2 DEF Refuse, TypeOK, manifest
<1>3. CASE CreateDirectory
  <2>1. ~Done /\ Activate
    BY <1>3 DEF CreateDirectory, Calling
  <2>2. disk' \in [Paths -> Contents]
    BY <1>3, <2>1, CurrentTargets, WriteOne DEF CreateDirectory, Contents
  <2>3. exposed' \subseteq Paths
    BY <1>3, <2>1, CurrentTargets DEF CreateDirectory, Expose, TypeOK
  <2> QED BY <1>3, <2>1, <2>2, <2>3, ActivateTyped DEF CreateDirectory, TypeOK, manifest
<1>4. CASE OpenFile
  <2>1. ~Done
    BY <1>4 DEF OpenFile, Calling
  <2>2. disk' \in [Paths -> Contents]
    BY <1>4, <2>1, CurrentTargets, WriteOne DEF OpenFile, Contents
  <2>3. exposed' \subseteq Paths
    BY <1>4, <2>1, CurrentTargets DEF OpenFile, Expose, TypeOK
  <2> QED BY <1>4, <2>2, <2>3 DEF OpenFile, TypeOK, manifest
<1>5. CASE WriteFile
  <2>1. ~Done /\ Activate
    BY <1>5 DEF WriteFile, Calling
  <2>2. disk' \in [Paths -> Contents]
    BY <1>5, <2>1, CurrentTargets, WriteOne DEF WriteFile, Contents
  <2> QED BY <1>5, <2>1, <2>2, ActivateTyped DEF WriteFile, TypeOK, manifest
<1>6. CASE Protect
  BY <1>6 DEF Protect, Advance, TypeOK, manifest
<1>7. CASE OpenTemp
  <2>1. disk' \in [Paths -> Contents]
    BY <1>7, WriteOne DEF OpenTemp, Paths, Contents
  <2>2. exposed' \subseteq Paths
    BY <1>7 DEF OpenTemp, Expose, TypeOK, Paths
  <2> QED BY <1>7, <2>1, <2>2 DEF OpenTemp, TypeOK, manifest
<1>8. CASE WriteTemp
  <2>1. disk' \in [Paths -> Contents]
    BY <1>8, WriteOne DEF WriteTemp, Paths, Contents
  <2> QED BY <1>8, <2>1 DEF WriteTemp, TypeOK, manifest, Paths
<1>9. CASE ProtectTemp
  BY <1>9 DEF ProtectTemp, Advance, TypeOK, manifest
<1>10. CASE LinkTemp
  <2>1. disk' \in [Paths -> Contents]
    BY <1>10, WriteOne DEF LinkTemp, Paths, Contents, TypeOK
  <2> QED BY <1>10, <2>1 DEF LinkTemp, TypeOK, manifest, Paths
<1>11. CASE UnlinkTemp
  <2>1. disk' \in [Paths -> Contents]
    BY <1>11, WriteOne DEF UnlinkTemp, Paths, Contents
  <2>2. ~Done /\ Activate
    BY <1>11 DEF UnlinkTemp, Calling
  <2> QED BY <1>11, <2>1, <2>2, ActivateTyped DEF UnlinkTemp, TypeOK, manifest, Paths
<1>12. CASE AssertAbsent
  BY <1>12 DEF AssertAbsent, Advance, TypeOK, manifest
<1>13. CASE LinkBackup
  <2>1. disk' \in [Paths -> Contents]
    BY <1>13, WriteOne DEF LinkBackup, Paths, Contents, TypeOK
  <2> QED BY <1>13, <2>1 DEF LinkBackup, TypeOK, manifest, Paths
<1>14. CASE UnlinkSource
  <2>1. disk' \in [Paths -> Contents]
    BY <1>14, WriteOne DEF UnlinkSource, Paths, Contents
  <2>2. ~Done /\ Activate
    BY <1>14 DEF UnlinkSource, Calling
  <2> QED BY <1>14, <2>1, <2>2, ActivateTyped DEF UnlinkSource, TypeOK, manifest, Paths
<1>15. CASE VerifyMoved
  BY <1>15 DEF VerifyMoved, Advance, TypeOK, manifest
<1>16. CASE Commit
  <2>1. disk' \in [Paths -> Contents]
    BY <1>16, WriteOne DEF Commit, Paths, Contents
  <2> QED BY <1>16, <2>1 DEF Commit, TypeOK, manifest, Paths
<1>17. CASE Finish
  BY <1>17 DEF Finish, TypeOK, manifest
<1>18. CASE ActionFails
  <2>1. disk' \in [Paths -> Contents]
    BY <1>18 DEF ActionFails, TypeOK, Paths, Contents
  <2>2. exposed' \subseteq Paths
    BY <1>18 DEF ActionFails, TypeOK
  <2> QED BY <1>18, <2>1, <2>2 DEF ActionFails, TypeOK, manifest
<1>19. CASE CleanTemp
  <2>1. disk' \in [Paths -> Contents]
    BY <1>19, WriteOne DEF CleanTemp, TypeOK, Paths, Contents
  <2>2. exposed' \subseteq Paths
    BY <1>19 DEF CleanTemp, TypeOK
  <2> QED BY <1>19, <2>1, <2>2 DEF CleanTemp, TypeOK, manifest
<1>20. CASE Remove
  <2>1. rollbackStack # <<>> /\ Undo \in RollbackActions
    BY <1>20 DEF Remove, Undoing, Undo, TypeOK
  <2>2. disk' \in [Paths -> Contents]
    BY <1>20, <2>1, WriteOne DEF Remove, RollbackActions, Contents
  <2>3. rollbackStack' \in Seq(RollbackActions)
    BY <1>20, <2>1 DEF Remove, EntryDone, TypeOK
  <2> QED BY <1>20, <2>2, <2>3 DEF Remove, EntryDone, TypeOK, manifest
<1>21. CASE Restore
  <2>1. disk' \in [Paths -> Contents]
    BY <1>21, WriteOne DEF Restore, Paths, Contents
  <2> QED BY <1>21, <2>1 DEF Restore, TypeOK, manifest, Paths
<1>22. CASE RestoreLink
  <2>1. disk' \in [Paths -> Contents]
    BY <1>22, WriteOne DEF RestoreLink, Paths, Contents, TypeOK
  <2> QED BY <1>22, <2>1 DEF RestoreLink, TypeOK, manifest, Paths
<1>23. CASE RestoreUnlink
  <2>1. disk' \in [Paths -> Contents]
    BY <1>23, WriteOne DEF RestoreUnlink, Paths, Contents
  <2>2. rollbackStack' \in Seq(RollbackActions)
    BY <1>23 DEF RestoreUnlink, EntryDone, TypeOK
  <2> QED BY <1>23, <2>1, <2>2 DEF RestoreUnlink, EntryDone, TypeOK, manifest
<1>24. CASE RollbackFails
  BY <1>24 DEF RollbackFails, TypeOK, manifest
<1>25. CASE RollbackCompletes
  BY <1>25 DEF RollbackCompletes, TypeOK, manifest
<1>26. CASE UNCHANGED vars
  BY <1>26 DEF vars, manifest, TypeOK
<1> QED BY <1>1, <1>2, <1>3, <1>4, <1>5, <1>6, <1>7, <1>8, <1>9, <1>10, <1>11, <1>12, <1>13, <1>14, <1>15, <1>16, <1>17, <1>18, <1>19, <1>20, <1>21, <1>22, <1>23, <1>24, <1>25, <1>26
  DEF Next, ExecuteForward, ExecuteRollback

-----------------------------------------------------------------------------

\* The paths that ExecInv speaks about keep what they hold.
Kept == /\ disk'["launcher"] = disk["launcher"]
        /\ disk'["backup"] = disk["backup"]

(* A step that keeps them and does not move to a call the invariant speaks *)
(* about preserves it.                                                     *)
LEMMA KeptIsSafe ==
    ASSUME ExecInv, TypeOK', Kept, initial' = initial,
           status' # "applied" => status # "applied",
           at' \notin {"protectTemp", "linkTemp", "unlinkSource", "restoreLink",
                      "restoreUnlink"}
    PROVE  ExecInv'
BY DEF ExecInv, LauncherIsSafe, Kept

(* Every step preserves the invariant.                                     *)
LEMMA ExecStep == ExecInv /\ [Next]_vars => ExecInv'
<1> SUFFICES ASSUME ExecInv, [Next]_vars PROVE ExecInv'
  OBVIOUS
<1>0. TypeOK /\ TypeOK'
  BY TypeStep DEF ExecInv
<1>1. CASE Begin
  BY <1>0, <1>1 DEF Begin, manifest, ExecInv, LauncherIsSafe
<1>2. CASE Refuse
  BY <1>0, <1>2 DEF Refuse, manifest, ExecInv, LauncherIsSafe
<1>3. CASE CreateDirectory
  <2>1. ~Done /\ Target \in Paths \ {"launcher", "backup"}
    BY <1>0, <1>3, CurrentTargets DEF CreateDirectory, Calling, Paths
  <2>2. Kept
    BY <1>0, <1>3, <2>1, WriteOne DEF CreateDirectory, Kept, Paths, Contents
  <2> QED BY <1>0, <1>3, <2>2, KeptIsSafe DEF CreateDirectory, manifest
<1>4. CASE OpenFile
  <2>1. ~Done /\ Target \in Paths \ {"launcher", "backup"}
    BY <1>0, <1>4, CurrentTargets DEF OpenFile, Calling, Paths
  <2>2. Kept
    BY <1>0, <1>4, <2>1, WriteOne DEF OpenFile, Kept, Paths, Contents
  <2> QED BY <1>0, <1>4, <2>2, KeptIsSafe DEF OpenFile, manifest
<1>5. CASE WriteFile
  <2>1. ~Done /\ Target \in Paths \ {"launcher", "backup"}
    BY <1>0, <1>5, CurrentTargets DEF WriteFile, Calling, Paths
  <2>2. Kept
    BY <1>0, <1>5, <2>1, WriteOne DEF WriteFile, Kept, Paths, Contents
  <2> QED BY <1>0, <1>5, <2>2, KeptIsSafe DEF WriteFile, manifest
<1>6. CASE Protect
  BY <1>0, <1>6 DEF Protect, manifest, ExecInv, LauncherIsSafe, Advance
<1>7. CASE OpenTemp
  <2>1. Kept
    BY <1>0, <1>7, WriteOne DEF OpenTemp, Kept, Paths, Contents
  <2> QED BY <1>0, <1>7, <2>1, KeptIsSafe DEF OpenTemp, manifest
<1>8. CASE WriteTemp
  <2>1. Kept /\ disk'["temp"] = "new"
    BY <1>0, <1>8, WriteOne DEF WriteTemp, Kept, Paths, Contents
  <2> QED BY <1>0, <1>8, <2>1 DEF WriteTemp, Calling, manifest, ExecInv, LauncherIsSafe, Kept
<1>9. CASE ProtectTemp
  BY <1>0, <1>9 DEF ProtectTemp, Calling, manifest, ExecInv, LauncherIsSafe
<1>10. CASE LinkTemp
  <2>1. disk["temp"] = "new" /\ disk["launcher"] = "none"
    BY <1>10 DEF LinkTemp, Calling, ExecInv
  <2>2. disk'["launcher"] = "new" /\ disk'["backup"] = disk["backup"]
    BY <1>0, <1>10, <2>1, WriteOne DEF LinkTemp, Paths, Contents
  <2> QED BY <1>0, <1>10, <2>1, <2>2 DEF LinkTemp, manifest, ExecInv, LauncherIsSafe
<1>11. CASE UnlinkTemp
  <2>1. Kept
    BY <1>0, <1>11, WriteOne DEF UnlinkTemp, Kept, Paths, Contents
  <2> QED BY <1>0, <1>11, <2>1, KeptIsSafe DEF UnlinkTemp, manifest
<1>12. CASE AssertAbsent
  BY <1>0, <1>12 DEF AssertAbsent, manifest, ExecInv, LauncherIsSafe, Advance
<1>13. CASE LinkBackup
  <2>1. disk'["backup"] = "old" /\ disk'["launcher"] = disk["launcher"]
    BY <1>0, <1>13, WriteOne DEF LinkBackup, Paths, Contents
  <2> QED BY <1>0, <1>13, <2>1 DEF LinkBackup, manifest, ExecInv, LauncherIsSafe
<1>14. CASE UnlinkSource
  <2>1. disk["backup"] = "old"
    BY <1>14 DEF UnlinkSource, Calling, ExecInv
  <2>2. disk'["launcher"] = "none" /\ disk'["backup"] = "old"
    BY <1>0, <1>14, <2>1, WriteOne DEF UnlinkSource, Paths, Contents
  <2> QED BY <1>0, <1>14, <2>2 DEF UnlinkSource, manifest, ExecInv, LauncherIsSafe
<1>15. CASE VerifyMoved
  BY <1>0, <1>15 DEF VerifyMoved, manifest, ExecInv, LauncherIsSafe, Advance
<1>16. CASE Commit
  <2>1. disk'["launcher"] = disk["launcher"] /\ at' = "next"
    BY <1>0, <1>16, WriteOne DEF Commit, Calling, Paths, Contents
  <2> QED BY <1>0, <1>16, <2>1 DEF Commit, manifest, ExecInv, LauncherIsSafe
<1>17. CASE Finish
  BY <1>0, <1>17 DEF Finish, manifest, ExecInv, LauncherIsSafe
<1>18. CASE ActionFails
  <2>1. Kept
    BY <1>0, <1>18 DEF ActionFails, Kept, TypeOK, Paths
  <2> QED BY <1>0, <1>18, <2>1, KeptIsSafe DEF ActionFails, manifest
<1>19. CASE CleanTemp
  <2>1. Kept
    BY <1>0, <1>19, WriteOne DEF CleanTemp, Kept, Paths, Contents
  <2> QED BY <1>0, <1>19, <2>1 DEF CleanTemp, manifest, ExecInv, LauncherIsSafe, Kept
<1>20. CASE Remove
  <2>0. Undo \in RollbackActions
    BY <1>0, <1>20 DEF Remove, Undoing, Undo, TypeOK
  <2>1. Undo.target \in Paths
    BY <2>0 DEF RollbackActions
  <2>2. /\ disk[Undo.target] \in {"dir", "config", "new"}
        /\ at' = "undo" /\ status = "rollback"
    BY <1>20 DEF Remove, Undoing, Undoable
  <2>3. /\ disk'[Undo.target] = "none"
        /\ \A q \in Paths \ {Undo.target} : disk'[q] = disk[q]
    BY <1>0, <1>20, <2>1, WriteOne DEF Remove, Contents
  <2>4. Undo.target # "launcher" => disk'["launcher"] = disk["launcher"]
    BY <2>3 DEF Paths
  <2>5. Undo.target # "backup" => disk'["backup"] = disk["backup"]
    BY <2>3 DEF Paths
  <2> QED BY <1>0, <1>20, <2>2, <2>3, <2>4, <2>5
      DEF Remove, EntryDone, manifest, ExecInv, LauncherIsSafe
<1>21. CASE Restore
  <2>1. disk["backup"] = "old"
    BY <1>21 DEF Restore, Undoing, Undoable
  <2>2. disk'["launcher"] = "none" /\ disk'["backup"] = "old"
    BY <1>0, <1>21, <2>1, WriteOne DEF Restore, Paths, Contents
  <2> QED BY <1>0, <1>21, <2>2 DEF Restore, manifest, ExecInv, LauncherIsSafe
<1>22. CASE RestoreLink
  <2>1. disk["backup"] = "old"
    BY <1>22 DEF RestoreLink, ExecInv
  <2>2. disk'["launcher"] = "old"
    BY <1>0, <1>22, <2>1, WriteOne DEF RestoreLink, Paths, Contents
  <2> QED BY <1>0, <1>22, <2>2 DEF RestoreLink, manifest, ExecInv, LauncherIsSafe
<1>23. CASE RestoreUnlink
  <2>1. disk["launcher"] = "old"
    BY <1>23 DEF RestoreUnlink, ExecInv
  <2>2. disk'["launcher"] = "old"
    BY <1>0, <1>23, <2>1, WriteOne DEF RestoreUnlink, Paths, Contents
  <2> QED BY <1>0, <1>23, <2>2 DEF RestoreUnlink, EntryDone, manifest, ExecInv, LauncherIsSafe
<1>24. CASE RollbackFails
  BY <1>0, <1>24 DEF RollbackFails, manifest, ExecInv, LauncherIsSafe
<1>25. CASE RollbackCompletes
  BY <1>0, <1>25 DEF RollbackCompletes, manifest, ExecInv, LauncherIsSafe
<1>26. CASE UNCHANGED vars
  BY <1>0, <1>26 DEF vars, manifest, ExecInv, LauncherIsSafe
<1> QED BY <1>1, <1>2, <1>3, <1>4, <1>5, <1>6, <1>7, <1>8, <1>9, <1>10, <1>11, <1>12, <1>13, <1>14, <1>15, <1>16, <1>17, <1>18, <1>19, <1>20, <1>21, <1>22, <1>23, <1>24, <1>25, <1>26
  DEF Next, ExecuteForward, ExecuteRollback

(* The inductive invariant of executeDisposableManifest.                   *)
THEOREM ExecInvariant == Spec => []ExecInv
BY ExecInitially, ExecStep, PTL DEF Spec

(* Whatever fails, and wherever the process stops, the launcher path holds *)
(* a whole launcher or nothing, and the old one exists until the commit.   *)
THEOREM LauncherIsNeverLost == Spec => []LauncherIsSafe
<1>1. ExecInv => LauncherIsSafe
  BY DEF ExecInv
<1> QED BY <1>1, ExecInvariant, PTL

-----------------------------------------------------------------------------
(* The executor from end to end: what an applied manifest leaves, and what *)
(* a rollback undoes.                                                      *)

-----------------------------------------------------------------------------
(* The list of forward actions.  Whatever a manifest needs, it stands in one *)
(* order, so that the execution is described by the rank it has reached.   *)

\* The rank of an action in that order.
Rank(a) ==
    CASE a.kind = "create_directory" ->
           (CASE a.target = "configDir" -> 1 [] a.target = "installRoot" -> 3
              [] OTHER -> 4)
      [] a.kind = "create_file" -> 2
      [] a.kind = "assert_absent" -> 5
      [] a.kind = "move" -> 6
      [] a.kind = "publish" -> 7
      [] OTHER -> 8

\* Does the manifest hold the action of a rank.
Needed(r) ==
    CASE r = 1 -> observed["configDir"] = "none"
      [] r = 2 -> observed["configFile"] = "none"
      [] r = 3 -> installRoot # "configDir" /\ observed["installRoot"] = "none"
      [] r = 4 -> observed["binDir"] = "none"
      [] r = 7 -> observed["launcher"] \in {"none", "old"}
      [] OTHER -> observed["launcher"] = "old"

\* A part of the list: it holds the needed actions of the ranks lo to hi, in
\* their order.
Slice(s, lo, hi) ==
    /\ s \in Seq(ForwardActions)
    /\ \A k \in 1 .. Len(s) : Rank(s[k]) \in lo .. hi /\ Needed(Rank(s[k]))
    /\ \A j, k \in 1 .. Len(s) : j < k => Rank(s[j]) < Rank(s[k])
    /\ \A r \in lo .. hi : Needed(r) => \E k \in 1 .. Len(s) : Rank(s[k]) = r

\* The rank of the i-th action; 9 is the end of the list.
RankAt(i) == IF i > Len(Forward) THEN 9 ELSE Rank(Forward[i])

-----------------------------------------------------------------------------
(* The rollback stack.                                                     *)

\* The entry that undoes the action of a rank.
UndoOf(r) ==
    CASE r = 1 -> Action("remove_directory", "configDir")
      [] r = 2 -> Action("remove_file", "configFile")
      [] r = 3 -> Action("remove_directory", "installRoot")
      [] r = 4 -> Action("remove_directory", "binDir")
      [] r = 6 -> Action("restore", "backup")
      [] OTHER -> Action("remove_file", "launcher")

UndoRanks == {1, 2, 3, 4, 6, 7}

\* The ranks of the manifest that have an entry.
Entries == {r \in UndoRanks : Needed(r) /\ (r = 7 => observed["launcher"] = "none")}

\* The stack holds the entries of the ranks R, the highest on top.
IsStack(s, R) ==
    /\ R \subseteq UndoRanks
    /\ s \in Seq(RollbackActions)
    /\ \E f \in [1 .. Len(s) -> UndoRanks] :
          /\ \A k \in 1 .. Len(s) : s[k] = UndoOf(f[k])
          /\ \A j, k \in 1 .. Len(s) : j < k => f[k] < f[j]
          /\ R = {f[k] : k \in 1 .. Len(s)}

\* The ranks on the stack.
Active ==
    {r \in UndoRanks :
        \E k \in 1 .. Len(rollbackStack) : rollbackStack[k] = UndoOf(r)}

StackInv == IsStack(rollbackStack, Active)

-----------------------------------------------------------------------------
(* The invariant of an execution that is under way.                        *)

\* The rank the execution has reached.
Cur == RankAt(index)

\* The calls that come after the action was activated.
Activated == {"protect", "verifyMoved"}

\* The calls of publishAtomic that may leave something.
PublishCalls == {"writeTemp", "protectTemp", "linkTemp", "unlinkTemp"}

\* The call at which the forward actions stand or stopped.
Stood == IF status = "running" THEN at ELSE failedAt

\* Which calls an action of each rank makes.
CallsOf(r) ==
    CASE r \in {1, 3, 4} -> {"next", "protect"}
      [] r = 2 -> {"next", "write", "protect"}
      [] r = 6 -> {"next", "unlinkSource", "verifyMoved"}
      [] r = 7 -> {"next", "protect"} \cup PublishCalls
      [] OTHER -> {"next"}

\* The manifest was built from the disk as it was.
ManifestInv ==
    /\ initial \in Disks(platform)
    /\ status \in {"ready", "refused"} \/ observed = Observe(initial)

\* Nothing has happened yet.
ReadyInv ==
    /\ disk = initial /\ linked = {} /\ exposed = {}
    /\ index = 1 /\ at = "next" /\ rollbackStack = <<>>

\* What others could write: what the action under way has just made.
ExposedInv ==
    exposed \subseteq CASE at \in {"write", "protect"} -> {Target}
                        [] at \in {"writeTemp", "protectTemp"} -> {"temp"}
                        [] OTHER -> {}

\* The entries of the stack are those of the actions that are done.
DoneIsActive ==
    Active = {r \in Entries : r < Cur \/ (r = Cur /\ at \in Activated)}

\* The forward actions.
ForwardInv ==
    /\ at \in CallsOf(Cur)
    /\ DoneIsActive
    /\ Cur = 9 => ~Needed(8)
    /\ Cur = 7 /\ at # "next" => initial["temp"] = "none"
    /\ at = "unlinkTemp" => disk["launcher"] = "new"
    /\ ExposedInv

\* The rollback: it stands before an entry or within the restoration.
BackwardInv ==
    /\ at \in {"undo", "restoreLink", "restoreUnlink"}
    /\ Active \subseteq Entries
    /\ at # "undo" => status = "rollback" /\ rollbackStack # <<>> /\ Undo = UndoOf(6)
    /\ status = "rolledBack" => rollbackStack = <<>>
    /\ status = "cleanTemp" => failedAt \in PublishCalls \/ disk["temp"] = "none"

\* What no entry of the stack will undo is as it was, save for what the
\* failing action left.
Same(p) == disk[p] = initial[p]

UntouchedInv ==
    /\ 1 \in Active \/ Same("configDir")
    /\ 2 \in Active \/ Stood = "write" \/ Same("configFile")
    /\ 3 \in Active \/ Same("installRoot")
    /\ 4 \in Active \/ Same("binDir")
    /\ 6 \in Active \/ 7 \in Active \/ Stood \in PublishCalls \cup {"unlinkSource"}
       \/ Same("launcher")
    /\ 6 \in Active \/ Stood = "unlinkSource" \/ Same("backup")
    /\ Stood \in PublishCalls \/ Same("temp")

\* What an entry of the stack will undo is there.
PresentInv ==
    /\ 1 \in Active => disk["configDir"] = "dir"
    /\ 2 \in Active => disk["configFile"] = "config"
    /\ 3 \in Active => disk["installRoot"] = "dir"
    /\ 4 \in Active => disk["binDir"] = "dir"
    /\ 6 \in Active => disk["backup"] = "old"
    /\ 6 \in Active /\ at \notin {"restoreLink", "restoreUnlink"} =>
          disk["launcher"] \in {"none", "new"}
    /\ 7 \in Active => disk["launcher"] = "new"

\* Two names of one file exist only between a link and its unlink.
LinkInv ==
    /\ linked \in {{}, {"temp", "launcher"}, {"launcher", "backup"}}
    /\ "temp" \in linked =>
          Stood = "unlinkTemp" /\ disk["temp"] = "new" /\ initial["temp"] = "none"
    /\ "backup" \in linked =>
          \/ Stood = "unlinkSource" /\ disk["backup"] = "old"
          \/ at = "restoreUnlink"
    /\ at = "restoreLink" => linked = {}

UnderWay == {"running", "cleanTemp", "rollback", "rolledBack"}

(* The inductive invariant.                                                *)
ApplyInv ==
    /\ ExecInv /\ ManifestInv /\ AppliedIsComplete
    /\ status = "ready" => ReadyInv
    /\ status \in UnderWay => StackInv /\ UntouchedInv /\ PresentInv /\ LinkInv
    /\ status = "running" => ForwardInv
    /\ status \in UnderWay \ {"running"} => BackwardInv

-----------------------------------------------------------------------------
(* The ranks of the actions.                                               *)
LEMMA RankTyped ==
    ASSUME NEW a \in ForwardActions
    PROVE  /\ Rank(a) \in 1 .. 8
           /\ a.kind = "create_directory" <=> Rank(a) \in {1, 3, 4}
           /\ a.kind = "create_file" <=> Rank(a) = 2
           /\ a.kind = "assert_absent" <=> Rank(a) = 5
           /\ a.kind = "move" <=> Rank(a) = 6
           /\ a.kind = "publish" <=> Rank(a) = 7
           /\ a.kind = "commit" <=> Rank(a) = 8
           /\ a.target = CASE Rank(a) = 1 -> "configDir" [] Rank(a) = 2 -> "configFile"
                           [] Rank(a) = 3 -> "installRoot" [] Rank(a) = 4 -> "binDir"
                           [] Rank(a) \in {6, 7} -> "launcher" [] OTHER -> "backup"
BY DEF ForwardActions, Rank

(* A list and the list of the next ranks.                                  *)
LEMMA SliceConcat ==
    ASSUME NEW lo \in Nat, NEW m \in Nat, NEW hi \in Nat, lo <= m, m < hi,
           NEW s, NEW t, Slice(s, lo, m), Slice(t, m + 1, hi)
    PROVE  Slice(s \o t, lo, hi)
<1> DEFINE u == s \o t
<1>1. s \in Seq(ForwardActions) /\ t \in Seq(ForwardActions)
  BY DEF Slice
<1>2. /\ u \in Seq(ForwardActions) /\ Len(u) = Len(s) + Len(t)
      /\ Len(s) \in Nat /\ Len(t) \in Nat
      /\ \A k \in 1 .. Len(u) : u[k] = IF k <= Len(s) THEN s[k] ELSE t[k - Len(s)]
  BY <1>1, ConcatProperties
<1> HIDE DEF u
<1>3. \A k \in 1 .. Len(u) :
         \/ k \in 1 .. Len(s) /\ u[k] = s[k] /\ Rank(u[k]) \in lo .. m
         \/ /\ k - Len(s) \in 1 .. Len(t) /\ u[k] = t[k - Len(s)]
            /\ Rank(u[k]) \in m + 1 .. hi
  <2> TAKE k \in 1 .. Len(u)
  <2>1. CASE k <= Len(s)
    <3>1. k \in 1 .. Len(s) /\ u[k] = s[k]
      BY <1>2, <2>1
    <3> QED BY <3>1 DEF Slice
  <2>2. CASE ~(k <= Len(s))
    <3>1. k - Len(s) \in 1 .. Len(t) /\ u[k] = t[k - Len(s)]
      BY <1>2, <2>2
    <3> QED BY <3>1 DEF Slice
  <2> QED BY <2>1, <2>2
<1>4. \A k \in 1 .. Len(u) : Rank(u[k]) \in lo .. hi /\ Needed(Rank(u[k]))
  BY <1>3 DEF Slice
<1>5. \A j, k \in 1 .. Len(u) : j < k => Rank(u[j]) < Rank(u[k])
  <2> TAKE j, k \in 1 .. Len(u)
  <2> HAVE j < k
  <2>1. CASE k \in 1 .. Len(s)
    <3>1. j \in 1 .. Len(s)
      BY <1>2, <2>1
    <3>2. u[j] = s[j] /\ u[k] = s[k]
      BY <1>2, <2>1, <3>1
    <3> QED BY <2>1, <3>1, <3>2 DEF Slice
  <2>2. CASE k \notin 1 .. Len(s)
    <3>1. Rank(u[k]) \in m + 1 .. hi /\ u[k] = t[k - Len(s)] /\ k - Len(s) \in 1 .. Len(t)
      BY <1>3, <2>2
    <3>2. CASE j \in 1 .. Len(s)
      <4>1. u[j] = s[j]
        BY <1>2, <3>2
      <4>2. Rank(u[j]) \in lo .. m
        BY <3>2, <4>1 DEF Slice
      <4> QED BY <3>1, <4>2
    <3>3. CASE j \notin 1 .. Len(s)
      <4>1. u[j] = t[j - Len(s)] /\ j - Len(s) \in 1 .. Len(t)
        BY <1>3, <3>3
      <4>2. j - Len(s) < k - Len(s)
        BY <1>2
      <4> QED BY <3>1, <4>1, <4>2 DEF Slice
    <3> QED BY <3>2, <3>3
  <2> QED BY <2>1, <2>2
<1>6. \A r \in lo .. hi : Needed(r) => \E k \in 1 .. Len(u) : Rank(u[k]) = r
  <2> TAKE r \in lo .. hi
  <2> HAVE Needed(r)
  <2>1. CASE r <= m
    <3>0. r \in lo .. m
      BY <2>1
    <3>1. PICK k \in 1 .. Len(s) : Rank(s[k]) = r
      BY <3>0 DEF Slice
    <3>2. k \in 1 .. Len(u) /\ u[k] = s[k]
      BY <1>2
    <3> QED BY <3>1, <3>2
  <2>2. CASE ~(r <= m)
    <3>0. r \in m + 1 .. hi
      BY <2>2
    <3>1. PICK k \in 1 .. Len(t) : Rank(t[k]) = r
      BY <3>0 DEF Slice
    <3>2. /\ k + Len(s) \in 1 .. Len(u) /\ ~(k + Len(s) <= Len(s))
          /\ (k + Len(s)) - Len(s) = k
      BY <1>2
    <3>3. u[k + Len(s)] = t[k]
      BY <1>2, <3>2
    <3> QED BY <3>1, <3>2, <3>3
  <2> QED BY <2>1, <2>2
<1> QED BY <1>2, <1>4, <1>5, <1>6 DEF Slice, u

(* An optional action.                                                     *)
LEMMA SliceOne ==
    ASSUME NEW a \in ForwardActions, NEW r \in 1 .. 8, Rank(a) = r, NEW c, c <=> Needed(r)
    PROVE  Slice(If(c, a), r, r)
<1>1. CASE c
  <2>1. If(c, a) = <<a>>
    BY <1>1 DEF If
  <2>2. <<a>> \in Seq(ForwardActions) /\ Len(<<a>>) = 1 /\ <<a>>[1] = a
    OBVIOUS
  <2>3. \A k \in 1 .. 1 : k = 1
    OBVIOUS
  <2>4. \A q \in r .. r : q = r
    OBVIOUS
  <2> HIDE DEF If
  <2>5. PICK s : s = If(c, a)
    OBVIOUS
  <2>6. s \in Seq(ForwardActions) /\ Len(s) = 1 /\ s[1] = a
    BY <2>1, <2>2, <2>5
  <2>7. Slice(s, r, r)
    BY <1>1, <2>3, <2>4, <2>6 DEF Slice
  <2> QED BY <2>5, <2>7
<1>2. CASE ~c
  <2>1. If(c, a) = <<>>
    BY <1>2 DEF If
  <2>2. <<>> \in Seq(ForwardActions) /\ Len(<<>>) = 0
    OBVIOUS
  <2> QED BY <1>2, <2>1, <2>2 DEF Slice
<1> QED BY <1>1, <1>2

(* buildApplyManifest lists the needed actions in the order of their ranks. *)
LEMMA ForwardSlice == Slice(Forward, 1, 8)
<1> DEFINE d1 == If(observed["configDir"] = "none",
                    Action("create_directory", "configDir"))
           f1 == If(observed["configFile"] = "none",
                    Action("create_file", "configFile"))
           d2 == If(installRoot # "configDir" /\ observed["installRoot"] = "none",
                    Action("create_directory", "installRoot"))
           d3 == If(observed["binDir"] = "none",
                    Action("create_directory", "binDir"))
           l1 == <<Action("publish", "launcher")>>
           l2 == <<Action("assert_absent", "backup"), Action("move", "launcher"),
                   Action("publish", "launcher"), Action("commit", "backup")>>
           l == CASE observed["launcher"] = "none" -> l1
                  [] observed["launcher"] = "old" -> l2
                  [] OTHER -> <<>>
<1>1. /\ Action("create_directory", "configDir") \in ForwardActions
      /\ Action("create_file", "configFile") \in ForwardActions
      /\ Action("create_directory", "installRoot") \in ForwardActions
      /\ Action("create_directory", "binDir") \in ForwardActions
      /\ Action("publish", "launcher") \in ForwardActions
      /\ Action("assert_absent", "backup") \in ForwardActions
      /\ Action("move", "launcher") \in ForwardActions
      /\ Action("commit", "backup") \in ForwardActions
  BY DEF Action, ForwardActions
<1>2. /\ Rank(Action("create_directory", "configDir")) = 1
      /\ Rank(Action("create_file", "configFile")) = 2
      /\ Rank(Action("create_directory", "installRoot")) = 3
      /\ Rank(Action("create_directory", "binDir")) = 4
      /\ Rank(Action("publish", "launcher")) = 7
      /\ Rank(Action("assert_absent", "backup")) = 5
      /\ Rank(Action("move", "launcher")) = 6
      /\ Rank(Action("commit", "backup")) = 8
  BY DEF Action, Rank
<1>3. /\ (observed["configDir"] = "none") <=> Needed(1)
      /\ (observed["configFile"] = "none") <=> Needed(2)
      /\ (installRoot # "configDir" /\ observed["installRoot"] = "none") <=> Needed(3)
      /\ (observed["binDir"] = "none") <=> Needed(4)
  BY DEF Needed
<1>4. Slice(d1, 1, 1) /\ Slice(f1, 2, 2) /\ Slice(d2, 3, 3) /\ Slice(d3, 4, 4)
  <2>1. 1 \in 1 .. 8 /\ 2 \in 1 .. 8 /\ 3 \in 1 .. 8 /\ 4 \in 1 .. 8
    OBVIOUS
  <2>2. Slice(d1, 1, 1)
    BY <1>1, <1>2, <1>3, <2>1, SliceOne, Zenon
  <2>3. Slice(f1, 2, 2)
    BY <1>1, <1>2, <1>3, <2>1, SliceOne, Zenon
  <2>4. Slice(d2, 3, 3)
    BY <1>1, <1>2, <1>3, <2>1, SliceOne, Zenon
  <2>5. Slice(d3, 4, 4)
    BY <1>1, <1>2, <1>3, <2>1, SliceOne, Zenon
  <2> QED BY <2>2, <2>3, <2>4, <2>5
<1>5. Slice(l, 5, 8)
  <2> HIDE DEF Action
  <2>1. CASE observed["launcher"] = "none"
    <3>1. l = l1 /\ l1 \in Seq(ForwardActions) /\ Len(l1) = 1 /\ Rank(l1[1]) = 7
      BY <1>1, <1>2, <2>1
    <3>2. Needed(7) /\ \A r \in 5 .. 8 : Needed(r) => r = 7
      BY <2>1 DEF Needed
    <3> HIDE DEF l, l1
    <3> QED BY <3>1, <3>2 DEF Slice
  <2>2. CASE observed["launcher"] = "old"
    <3>1. l = l2 /\ l2 \in Seq(ForwardActions) /\ Len(l2) = 4
      BY <1>1, <1>2, <2>2
    <3>2. Rank(l2[1]) = 5 /\ Rank(l2[2]) = 6 /\ Rank(l2[3]) = 7 /\ Rank(l2[4]) = 8
      BY <1>1, <1>2
    <3>3. \A r \in 5 .. 8 : Needed(r)
      BY <2>2 DEF Needed
    <3> HIDE DEF l, l2
    <3>4. \A k \in 1 .. 4 : Rank(l2[k]) = k + 4
      BY <3>2
    <3> QED BY <3>1, <3>3, <3>4 DEF Slice
  <2>3. CASE observed["launcher"] \notin {"none", "old"}
    <3>1. l = <<>> /\ <<>> \in Seq(ForwardActions) /\ Len(<<>>) = 0
      BY <2>3
    <3>2. \A r \in 5 .. 8 : ~Needed(r)
      BY <2>3 DEF Needed
    <3> HIDE DEF l
    <3> QED BY <3>1, <3>2 DEF Slice
  <2> QED BY <2>1, <2>2, <2>3
<1>6. Forward = d1 \o f1 \o d2 \o d3 \o l
  BY DEF Forward
<1> HIDE DEF d1, f1, d2, d3, l
<1>7. Slice(d1 \o f1, 1, 2)
  BY <1>4, SliceConcat
<1>8. Slice(d1 \o f1 \o d2, 1, 3)
  BY <1>4, <1>7, SliceConcat
<1>9. Slice(d1 \o f1 \o d2 \o d3, 1, 4)
  BY <1>4, <1>8, SliceConcat
<1>10. Slice(d1 \o f1 \o d2 \o d3 \o l, 1, 8)
  BY <1>5, <1>9, SliceConcat
<1> QED BY <1>6, <1>10

(* The execution goes from rank to rank and leaves none out.               *)
LEMMA RanksAscend ==
    ASSUME NEW i \in Nat \ {0}
    PROVE  /\ RankAt(i) \in 1 .. 9
           /\ i > Len(Forward) <=> RankAt(i) = 9
           /\ RankAt(i) # 9 => Needed(RankAt(i)) /\ RankAt(i) = Rank(Forward[i])
           /\ RankAt(i) # 9 => /\ RankAt(i) < RankAt(i + 1)
                                /\ \A r \in 1 .. 8 : Needed(r) =>
                                       r <= RankAt(i) \/ r >= RankAt(i + 1)
           /\ i = 1 => \A r \in 1 .. 8 : Needed(r) => r >= RankAt(1)
<1>1. PICK n \in Nat : n = Len(Forward)
  BY ForwardSlice DEF Slice
<1> DEFINE R(k) == Rank(Forward[k])
<1>2. /\ \A k \in 1 .. n : R(k) \in 1 .. 8 /\ Needed(R(k))
      /\ \A j, k \in 1 .. n : j < k => R(j) < R(k)
      /\ \A r \in 1 .. 8 : Needed(r) => \E k \in 1 .. n : R(k) = r
  BY <1>1, ForwardSlice DEF Slice
<1>3. \A k \in Nat \ {0} : RankAt(k) = IF k > n THEN 9 ELSE R(k)
  BY <1>1 DEF RankAt
<1> HIDE DEF R
<1>4. RankAt(i) \in 1 .. 9 /\ (i > n <=> RankAt(i) = 9)
  BY <1>2, <1>3
<1>5. RankAt(i) # 9 => i \in 1 .. n /\ RankAt(i) = R(i) /\ Needed(R(i))
  BY <1>2, <1>3
<1>6. RankAt(i) # 9 => RankAt(i) < RankAt(i + 1)
  BY <1>2, <1>3, <1>5
<1>7. ASSUME RankAt(i) # 9, NEW r \in 1 .. 8, Needed(r)
      PROVE  r <= RankAt(i) \/ r >= RankAt(i + 1)
  <2>1. PICK k \in 1 .. n : R(k) = r
    BY <1>2, <1>7
  <2>2. CASE k <= i
    BY <1>2, <1>5, <1>7, <2>1, <2>2
  <2>3. CASE k = i + 1
    BY <1>3, <2>1, <2>3
  <2>4. CASE k > i + 1
    BY <1>2, <1>3, <2>1, <2>4
  <2> QED BY <2>2, <2>3, <2>4
<1>8. ASSUME i = 1, NEW r \in 1 .. 8, Needed(r)
      PROVE  r >= RankAt(1)
  <2>1. PICK k \in 1 .. n : R(k) = r
    BY <1>2, <1>8
  <2> QED BY <1>2, <1>3, <2>1
<1> QED BY <1>1, <1>4, <1>5, <1>6, <1>7, <1>8 DEF R

-----------------------------------------------------------------------------
(* Entries of different ranks are different ones.                          *)
LEMMA UndoOfTyped ==
    /\ \A r \in UndoRanks : UndoOf(r) \in RollbackActions
    /\ \A q, r \in UndoRanks : UndoOf(q) = UndoOf(r) => q = r
<1>1. \A r \in UndoRanks :
         /\ UndoOf(r) \in RollbackActions
         /\ UndoOf(r).target =
              CASE r = 1 -> "configDir" [] r = 2 -> "configFile" [] r = 3 -> "installRoot"
                [] r = 4 -> "binDir" [] r = 6 -> "backup" [] OTHER -> "launcher"
  <2> TAKE r \in UndoRanks
  <2>1. r \in {1, 2, 3, 4, 6, 7}
    BY DEF UndoRanks
  <2>2. CASE r = 1 BY <2>2 DEF UndoOf, Action, RollbackActions, Paths
  <2>3. CASE r = 2 BY <2>3 DEF UndoOf, Action, RollbackActions, Paths
  <2>4. CASE r = 3 BY <2>4 DEF UndoOf, Action, RollbackActions, Paths
  <2>5. CASE r = 4 BY <2>5 DEF UndoOf, Action, RollbackActions, Paths
  <2>6. CASE r = 6 BY <2>6 DEF UndoOf, Action, RollbackActions, Paths
  <2>7. CASE r = 7 BY <2>7 DEF UndoOf, Action, RollbackActions, Paths
  <2> QED BY <2>1, <2>2, <2>3, <2>4, <2>5, <2>6, <2>7
<1>2. ASSUME NEW q \in UndoRanks, NEW r \in UndoRanks, UndoOf(q).target = UndoOf(r).target
      PROVE  q = r
  BY <1>1, <1>2 DEF UndoRanks
<1> QED BY <1>1, <1>2

(* The ranks on a stack can be read off it.                                *)
LEMMA StackIs ==
    ASSUME NEW s, NEW R, IsStack(s, R)
    PROVE  R = {r \in UndoRanks : \E k \in 1 .. Len(s) : s[k] = UndoOf(r)}
<1>1. PICK f \in [1 .. Len(s) -> UndoRanks] :
          /\ \A k \in 1 .. Len(s) : s[k] = UndoOf(f[k])
          /\ R = {f[k] : k \in 1 .. Len(s)}
  BY DEF IsStack
<1>2. ASSUME NEW r \in R
      PROVE  r \in UndoRanks /\ \E k \in 1 .. Len(s) : s[k] = UndoOf(r)
  BY <1>1
<1>3. ASSUME NEW r \in UndoRanks, NEW k \in 1 .. Len(s), s[k] = UndoOf(r)
      PROVE  r \in R
  <2>1. f[k] \in UndoRanks /\ UndoOf(f[k]) = UndoOf(r)
    BY <1>1, <1>3
  <2> QED BY <1>1, <2>1, UndoOfTyped
<1> HIDE DEF UndoRanks
<1> QED BY <1>2, <1>3

(* The empty stack.                                                        *)
LEMMA StackEmpty ==
    ASSUME NEW R
    PROVE  /\ IsStack(<<>>, {})
           /\ IsStack(<<>>, R) => R = {}
<1>1. <<>> \in Seq(RollbackActions) /\ Len(<<>>) = 0 /\ 1 .. 0 = {}
  OBVIOUS
<1>2. [k \in 1 .. 0 |-> 1] \in [1 .. 0 -> UndoRanks]
  BY <1>1
<1> QED BY <1>1, <1>2 DEF IsStack

(* onMutation: an entry of a higher rank goes on top.                      *)
LEMMA StackPush ==
    ASSUME NEW s, NEW R, IsStack(s, R), NEW r \in UndoRanks, \A q \in R : q < r
    PROVE  IsStack(<<UndoOf(r)>> \o s, R \cup {r})
<1> DEFINE t == <<UndoOf(r)>> \o s
<1>1. PICK f \in [1 .. Len(s) -> UndoRanks] :
          /\ \A k \in 1 .. Len(s) : s[k] = UndoOf(f[k])
          /\ \A j, k \in 1 .. Len(s) : j < k => f[k] < f[j]
          /\ R = {f[k] : k \in 1 .. Len(s)}
  BY DEF IsStack
<1>2. PICK n \in Nat : n = Len(s) /\ s \in Seq(RollbackActions)
  BY DEF IsStack
<1>3. <<UndoOf(r)>> \in Seq(RollbackActions) /\ Len(<<UndoOf(r)>>) = 1
      /\ <<UndoOf(r)>>[1] = UndoOf(r)
  BY UndoOfTyped
<1>4. /\ t \in Seq(RollbackActions) /\ Len(t) = n + 1
      /\ \A k \in 1 .. n + 1 : t[k] = IF k <= 1 THEN <<UndoOf(r)>>[k] ELSE s[k - 1]
  BY <1>2, <1>3, ConcatProperties
<1>5. t[1] = UndoOf(r) /\ \A k \in 2 .. n + 1 : k - 1 \in 1 .. n /\ t[k] = s[k - 1]
  BY <1>3, <1>4
<1> HIDE DEF t
<1> DEFINE g == [k \in 1 .. n + 1 |-> IF k = 1 THEN r ELSE f[k - 1]]
<1>6. /\ g[1] = r /\ \A k \in 2 .. n + 1 : k - 1 \in 1 .. n /\ g[k] = f[k - 1]
      /\ g \in [1 .. n + 1 -> UndoRanks]
  <2>1. \A k \in 1 .. n + 1 : k = 1 \/ k - 1 \in 1 .. n
    OBVIOUS
  <2>2. \A k \in 1 .. n + 1 : (IF k = 1 THEN r ELSE f[k - 1]) \in UndoRanks
    BY <1>2, <2>1
  <2> QED BY <2>1, <2>2
<1> HIDE DEF g
<1>7. \A k \in 1 .. n + 1 : t[k] = UndoOf(g[k])
  <2> TAKE k \in 1 .. n + 1
  <2>1. CASE k = 1
    BY <1>5, <1>6, <2>1
  <2>2. CASE k # 1
    <3>1. k \in 2 .. n + 1
      BY <2>2
    <3> QED BY <1>1, <1>2, <1>5, <1>6, <3>1
  <2> QED BY <2>1, <2>2
<1>8. \A j, k \in 1 .. n + 1 : j < k => g[k] < g[j]
  <2> TAKE j, k \in 1 .. n + 1
  <2> HAVE j < k
  <2>1. k \in 2 .. n + 1 /\ g[k] = f[k - 1] /\ k - 1 \in 1 .. n
    BY <1>6
  <2>2. CASE j = 1
    <3>1. f[k - 1] \in R
      BY <1>1, <1>2, <2>1
    <3> QED BY <1>6, <2>1, <2>2, <3>1
  <2>3. CASE j # 1
    <3>1. j \in 2 .. n + 1 /\ g[j] = f[j - 1] /\ j - 1 \in 1 .. n /\ j - 1 < k - 1
      BY <1>6, <2>3
    <3> QED BY <1>1, <1>2, <2>1, <3>1
  <2> QED BY <2>2, <2>3
<1>9. R \cup {r} = {g[k] : k \in 1 .. n + 1}
  <2>1. ASSUME NEW q \in R PROVE \E k \in 1 .. n + 1 : q = g[k]
    <3>1. PICK k \in 1 .. n : q = f[k]
      BY <1>1, <1>2
    <3>2. k + 1 \in 2 .. n + 1 /\ k + 1 \in 1 .. n + 1 /\ (k + 1) - 1 = k
      OBVIOUS
    <3>3. g[k + 1] = f[k]
      BY <1>6, <3>2
    <3> QED BY <3>1, <3>2, <3>3
  <2>2. 1 \in 1 .. n + 1
    OBVIOUS
  <2>3. ASSUME NEW k \in 1 .. n + 1 PROVE g[k] \in R \cup {r}
    <3>1. CASE k = 1
      BY <1>6, <3>1
    <3>2. CASE k # 1
      <4>1. k \in 2 .. n + 1
        BY <3>2
      <4>2. f[k - 1] \in R
        BY <1>1, <1>2, <1>6, <4>1
      <4> QED BY <1>6, <4>1, <4>2
    <3> QED BY <3>1, <3>2
  <2>4. \E k \in 1 .. n + 1 : r = g[k]
    BY <1>6, <2>2
  <2>5. \A q \in R \cup {r} : \E k \in 1 .. n + 1 : q = g[k]
    BY <2>1, <2>4
  <2>6. \A k \in 1 .. n + 1 : g[k] \in R \cup {r}
    BY <2>3
  <2> QED BY <2>5, <2>6
<1>10. R \cup {r} \subseteq UndoRanks
  BY DEF IsStack
<1>11. IsStack(t, R \cup {r})
  <2>1. PICK P : P = R \cup {r}
    OBVIOUS
  <2>2. \E h \in [1 .. Len(t) -> UndoRanks] :
          /\ \A k \in 1 .. Len(t) : t[k] = UndoOf(h[k])
          /\ \A j, k \in 1 .. Len(t) : j < k => h[k] < h[j]
          /\ P = {h[k] : k \in 1 .. Len(t)}
    BY <1>4, <1>6, <1>7, <1>8, <1>9, <2>1
  <2> QED BY <1>4, <1>10, <2>1, <2>2 DEF IsStack
<1> QED BY <1>11 DEF t

(* The loop takes the entry of the highest rank.                           *)
LEMMA StackPop ==
    ASSUME NEW s, NEW R, IsStack(s, R), s # <<>>
    PROVE  \E r \in R : /\ Head(s) = UndoOf(r) /\ \A q \in R : q <= r
                        /\ IsStack(Tail(s), R \ {r})
<1>1. PICK f \in [1 .. Len(s) -> UndoRanks] :
          /\ \A k \in 1 .. Len(s) : s[k] = UndoOf(f[k])
          /\ \A j, k \in 1 .. Len(s) : j < k => f[k] < f[j]
          /\ R = {f[k] : k \in 1 .. Len(s)}
  BY DEF IsStack
<1>2. s \in Seq(RollbackActions)
  BY DEF IsStack
<1>3. PICK n \in Nat : n + 1 = Len(s) /\ Tail(s) \in Seq(RollbackActions) /\ Len(Tail(s)) = n
        /\ Head(s) = s[1] /\ \A k \in 1 .. n : Tail(s)[k] = s[k + 1]
  <2>1. PICK n \in Nat : n = Len(s) - 1
    BY <1>2
  <2> QED BY <1>2, <2>1
<1>4. \A k \in 1 .. n : k + 1 \in 1 .. n + 1
  OBVIOUS
<1>5. 1 \in 1 .. n + 1
  OBVIOUS
<1> DEFINE r == f[1]
           g == [k \in 1 .. n |-> f[k + 1]]
<1>6. r \in R /\ Head(s) = UndoOf(r) /\ r \in UndoRanks
  BY <1>1, <1>3, <1>5
<1>7. \A k \in 1 .. n : f[k + 1] < r /\ f[k + 1] \in UndoRanks
  BY <1>1, <1>3, <1>4, <1>5
<1>8. \A k \in 1 .. n + 1 : k = 1 \/ \E j \in 1 .. n : k = j + 1
  <2> TAKE k \in 1 .. n + 1
  <2>1. CASE k # 1
    <3>1. k - 1 \in 1 .. n /\ k = (k - 1) + 1
      BY <2>1
    <3> QED BY <3>1
  <2> QED BY <2>1
<1>9. \A q \in R : q = r \/ \E j \in 1 .. n : q = f[j + 1]
  BY <1>1, <1>3, <1>8
<1>10. \A q \in R : q <= r
  <2>1. \A q \in UndoRanks : q \in Nat
    BY DEF UndoRanks
  <2> QED BY <1>6, <1>7, <1>9, <2>1
<1>11. g \in [1 .. n -> UndoRanks] /\ \A k \in 1 .. n : g[k] = f[k + 1]
  BY <1>7
<1>12. \A j, k \in 1 .. n : j < k => g[k] < g[j]
  <2> TAKE j, k \in 1 .. n
  <2> HAVE j < k
  <2>1. j + 1 < k + 1
    OBVIOUS
  <2> QED BY <1>1, <1>3, <1>4, <1>11, <2>1
<1>13. \A k \in 1 .. n : Tail(s)[k] = UndoOf(g[k])
  BY <1>1, <1>3, <1>4, <1>11
<1>14. R \ {r} = {g[k] : k \in 1 .. n}
  <2>1. \A k \in 1 .. n : f[k + 1] \in R /\ f[k + 1] # r
    <3>1. \A x \in UndoRanks : ~(x < x)
      BY DEF UndoRanks
    <3> QED BY <1>1, <1>3, <1>4, <1>6, <1>7, <3>1
  <2> QED BY <1>9, <1>11, <2>1
<1>15. R \ {r} \subseteq UndoRanks
  BY DEF IsStack
<1> HIDE DEF g, r
<1>16. IsStack(Tail(s), R \ {r})
  BY <1>3, <1>11, <1>12, <1>13, <1>14, <1>15 DEF IsStack
<1> QED BY <1>6, <1>10, <1>16

(* rollbackFor finds the entry of the action's rank, if it has one.        *)
LEMMA RollbackForIs ==
    ASSUME NEW a \in ForwardActions, Needed(Rank(a))
    PROVE  RollbackFor(a) = IF Rank(a) \in Entries THEN <<UndoOf(Rank(a))>> ELSE <<>>
<1>1. CASE Rank(a) \in {1, 3, 4}
  <2>1. a.kind = "create_directory" /\ Rank(a) \in Entries
        /\ UndoOf(Rank(a)) = Action("remove_directory", a.target)
    BY <1>1, RankTyped DEF Entries, UndoRanks, UndoOf
  <2>2. RollbackFor(a) = <<Action("remove_directory", a.target)>>
    BY <2>1 DEF RollbackFor
  <2> QED BY <2>1, <2>2
<1>2. CASE Rank(a) = 2
  <2>1. a.kind = "create_file" /\ Rank(a) \in Entries
        /\ UndoOf(Rank(a)) = Action("remove_file", a.target)
    BY <1>2, RankTyped DEF Entries, UndoRanks, UndoOf
  <2>2. RollbackFor(a) = <<Action("remove_file", a.target)>>
    BY <2>1 DEF RollbackFor
  <2> QED BY <2>1, <2>2
<1>3. CASE Rank(a) = 6
  <2>1. a.kind = "move" /\ Rank(a) \in Entries
        /\ UndoOf(Rank(a)) = Action("restore", "backup")
    BY <1>3, RankTyped DEF Entries, UndoRanks, UndoOf
  <2>2. RollbackFor(a) = <<Action("restore", "backup")>>
    BY <2>1 DEF RollbackFor
  <2> QED BY <2>1, <2>2
<1>4. CASE Rank(a) = 7
  <2>1. a.kind = "publish" /\ (Rank(a) \in Entries <=> observed["launcher"] = "none")
        /\ UndoOf(Rank(a)) = Action("remove_file", a.target)
    BY <1>4, RankTyped DEF Entries, UndoRanks, UndoOf
  <2>2. RollbackFor(a) = If(observed["launcher"] = "none", Action("remove_file", a.target))
    BY <2>1 DEF RollbackFor
  <2> QED BY <2>1, <2>2 DEF If
<1>5. CASE Rank(a) \in {5, 8}
  <2>1. a.kind \in {"assert_absent", "commit"} /\ Rank(a) \notin Entries
    BY <1>5, RankTyped DEF Entries, UndoRanks
  <2>2. RollbackFor(a) = <<>>
    BY <2>1 DEF RollbackFor
  <2> QED BY <2>1, <2>2
<1> QED BY <1>1, <1>2, <1>3, <1>4, <1>5, RankTyped

-----------------------------------------------------------------------------
(* A host as it was, and what the manifest needs of it.                    *)
LEMMA InitialDisk ==
    ASSUME ManifestInv, status \notin {"ready", "refused"}
    PROVE  /\ initial["backup"] = "none" /\ initial["launcher"] \in {"none", "old", "new"}
           /\ initial["temp"] \in {"none", "partial", "new"}
           /\ initial["configFile"] \in {"none", "user"}
           /\ initial["configDir"] = "none" => initial["configFile"] = "none"
           /\ initial[installRoot] = "none" => initial["binDir"] = "none"
           /\ initial["binDir"] = "none" =>
                initial["launcher"] = "none" /\ initial["temp"] = "none"
           /\ 1 \in Entries => initial["configDir"] = "none"
           /\ 2 \in Entries <=> initial["configFile"] = "none"
           /\ 3 \in Entries => initial["installRoot"] = "none" /\ installRoot = "installRoot"
           /\ 4 \in Entries => initial["binDir"] = "none"
           /\ 6 \in Entries <=> initial["launcher"] = "old"
           /\ 7 \in Entries <=> initial["launcher"] = "none"
           /\ Needed(8) <=> initial["launcher"] = "old"
           /\ Needed(7) <=> initial["launcher"] \in {"none", "old"}
<1>1. PICK d : d = initial /\ d \in Disks(platform) /\ observed = Observe(d)
  BY DEF ManifestInv
<1>2. /\ d["backup"] = "none" /\ d["launcher"] \in {"none", "old", "new"}
      /\ d["temp"] \in {"none", "partial", "new"}
      /\ d["configFile"] \in {"none", "user"}
      /\ Coherent(d, platform)
  BY <1>1 DEF Disks, DiskOf, Paths
<1>3. /\ d["configDir"] = "none" => d["configFile"] = "none"
      /\ d[installRoot] = "none" => d["binDir"] = "none"
      /\ d["binDir"] = "none" => d["launcher"] = "none" /\ d["temp"] = "none"
  BY <1>2 DEF Coherent, installRoot
<1>4. /\ observed["configDir"] = d["configDir"] /\ observed["installRoot"] = d["installRoot"]
      /\ observed["binDir"] = d["binDir"] /\ observed["launcher"] = d["launcher"]
      /\ observed["configFile"] = "none" <=> d["configFile"] = "none"
  BY <1>1 DEF Observe
<1>5. installRoot \in {"configDir", "installRoot"}
  BY DEF installRoot, RootOf
<1>6. /\ Needed(1) <=> d["configDir"] = "none"
      /\ Needed(2) <=> d["configFile"] = "none"
      /\ Needed(3) => d["installRoot"] = "none" /\ installRoot = "installRoot"
      /\ Needed(4) <=> d["binDir"] = "none"
      /\ Needed(6) <=> d["launcher"] = "old"
      /\ Needed(7) <=> d["launcher"] \in {"none", "old"}
      /\ Needed(8) <=> d["launcher"] = "old"
  BY <1>4, <1>5 DEF Needed
<1>7. /\ \A r \in {1, 2, 3, 4, 6} : r \in Entries <=> Needed(r)
      /\ 7 \in Entries <=> observed["launcher"] = "none"
  BY DEF Entries, UndoRanks, Needed
<1> QED BY <1>1, <1>2, <1>3, <1>4, <1>6, <1>7

(* The manifest does not change.                                           *)
LEMMA ManifestFrame ==
    ASSUME UNCHANGED manifest
    PROVE  /\ platform' = platform /\ initial' = initial /\ observed' = observed
           /\ Forward' = Forward /\ Entries' = Entries /\ installRoot' = installRoot
           /\ (Needed(8))' <=> Needed(8)
           /\ Cur' = RankAt(index')
<1>1. platform' = platform /\ initial' = initial /\ observed' = observed
  BY DEF manifest
<1>2. installRoot' = installRoot
  BY <1>1 DEF installRoot, RootOf
<1>3. Forward' = Forward
  BY <1>1, <1>2 DEF Forward
<1>4. Entries' = Entries
  BY <1>1, <1>2 DEF Entries, Needed
<1> QED BY <1>1, <1>2, <1>3, <1>4 DEF Needed, Cur, RankAt

(* The action under way, by its rank.                                      *)
LEMMA CurAction ==
    ASSUME TypeOK, ~Done
    PROVE  /\ Cur \in 1 .. 8 /\ Needed(Cur) /\ Forward[index] \in ForwardActions
           /\ Rank(Forward[index]) = Cur
           /\ Forward[index].kind = "create_directory" <=> Cur \in {1, 3, 4}
           /\ Forward[index].kind = "create_file" <=> Cur = 2
           /\ Forward[index].kind = "assert_absent" <=> Cur = 5
           /\ Forward[index].kind = "move" <=> Cur = 6
           /\ Forward[index].kind = "publish" <=> Cur = 7
           /\ Forward[index].kind = "commit" <=> Cur = 8
           /\ Target = CASE Cur = 1 -> "configDir" [] Cur = 2 -> "configFile"
                         [] Cur = 3 -> "installRoot" [] Cur = 4 -> "binDir"
                         [] Cur \in {6, 7} -> "launcher" [] OTHER -> "backup"
<1>1. index \in Nat \ {0}
  BY DEF TypeOK
<1>2. Cur \in 1 .. 9 /\ Cur # 9
  BY <1>1, RanksAscend DEF Done, Cur
<1>3. Needed(Cur) /\ Rank(Forward[index]) = Cur
  BY <1>1, <1>2, RanksAscend DEF Cur
<1>4. Forward[index] \in ForwardActions
  BY <1>1, CurrentAction
<1> QED BY <1>2, <1>3, <1>4, RankTyped DEF Target

(* Done means that the rank is the last.                                   *)
LEMMA DoneIs == TypeOK => Cur \in 1 .. 9 /\ (Done <=> Cur = 9)
BY RanksAscend DEF TypeOK, Done, Cur

(* What onMutation does to the stack.                                      *)
LEMMA ActivateIs ==
    ASSUME TypeOK, ~Done, StackInv, DoneIsActive, at \notin Activated,
           UNCHANGED manifest, index' = index, at' \in Activated, Activate
    PROVE  /\ StackInv' /\ DoneIsActive'
           /\ Active' = Active \cup ({Cur} \cap Entries)
           /\ Cur' = Cur /\ Entries' = Entries
<1>1. Cur \in 1 .. 8 /\ Needed(Cur) /\ Forward[index] \in ForwardActions
      /\ Rank(Forward[index]) = Cur
  BY CurAction
<1>2. Cur' = Cur /\ Entries' = Entries
  BY ManifestFrame DEF Cur
<1>3. /\ \A r \in Active : r \in Entries /\ r < Cur
      /\ \A r \in Entries : r < Cur => r \in Active
  BY DEF DoneIsActive
<1>4. Entries \subseteq UndoRanks /\ UndoRanks \subseteq 1 .. 8
  BY DEF Entries, UndoRanks
<1>5. RollbackFor(Forward[index]) = IF Cur \in Entries THEN <<UndoOf(Cur)>> ELSE <<>>
  BY <1>1, RollbackForIs
<1>6. CASE Cur \in Entries
  <2>1. rollbackStack' = <<UndoOf(Cur)>> \o rollbackStack
    BY <1>5, <1>6 DEF Activate
  <2>2. IsStack(rollbackStack', Active \cup {Cur})
    BY <1>3, <1>4, <1>6, <2>1, StackPush DEF StackInv
  <2>3. Active' = Active \cup {Cur}
    BY <2>2, StackIs DEF Active
  <2>4. StackInv'
    BY <2>2, <2>3 DEF StackInv, IsStack
  <2>5. Active' = {r \in Entries : r < Cur \/ r = Cur}
    BY <1>3, <1>6, <2>3
  <2>6. DoneIsActive'
    BY <1>2, <2>5 DEF DoneIsActive
  <2> QED BY <1>2, <1>6, <2>3, <2>4, <2>6
<1>7. CASE Cur \notin Entries
  <2>1. rollbackStack' = rollbackStack
    <3>1. rollbackStack \in Seq(RollbackActions)
      BY DEF TypeOK
    <3>2. rollbackStack' = <<>> \o rollbackStack
      BY <1>5, <1>7 DEF Activate
    <3> QED BY <3>1, <3>2, ConcatEmptySeq
  <2>2. Active' = Active
    BY <2>1 DEF Active
  <2>3. StackInv'
    BY <2>1, <2>2 DEF StackInv, IsStack
  <2>4. Active = {r \in Entries : r < Cur \/ r = Cur}
    BY <1>3, <1>7
  <2>5. DoneIsActive'
    BY <1>2, <2>2, <2>4 DEF DoneIsActive
  <2> QED BY <1>2, <1>7, <2>2, <2>3, <2>5
<1> QED BY <1>6, <1>7

(* A step that leaves the stack alone within one action.                   *)
LEMMA StackKept ==
    ASSUME UNCHANGED manifest, rollbackStack' = rollbackStack
    PROVE  /\ Active' = Active /\ (StackInv => StackInv')
           /\ index' = index => Cur' = Cur
           /\ index' = index /\ at \notin Activated /\ at' \notin Activated
              => (DoneIsActive => DoneIsActive')
<1>1. Active' = Active
  BY DEF Active
<1>2. StackInv => StackInv'
  BY <1>1 DEF StackInv, IsStack
<1>3. Entries' = Entries /\ (index' = index => Cur' = Cur)
  BY ManifestFrame DEF Cur
<1> QED BY <1>1, <1>2, <1>3 DEF DoneIsActive

-----------------------------------------------------------------------------
(* The steps.  What an execution that is under way knows.                  *)
LEMMA Running ==
    ASSUME ApplyInv, status = "running"
    PROVE  /\ TypeOK /\ ExecInv /\ ManifestInv /\ StackInv /\ UntouchedInv
           /\ PresentInv /\ LinkInv /\ ForwardInv /\ Stood = at
           /\ linked = {} \/ at \in {"unlinkTemp", "unlinkSource"}
<1>1. /\ TypeOK /\ ExecInv /\ ManifestInv /\ StackInv /\ UntouchedInv
      /\ PresentInv /\ LinkInv /\ ForwardInv /\ Stood = at
  BY DEF ApplyInv, ExecInv, UnderWay, Stood
<1>2. at \notin {"restoreUnlink"}
  BY <1>1 DEF ForwardInv, CallsOf, PublishCalls
<1>3. linked = {} \/ at \in {"unlinkTemp", "unlinkSource"}
  BY <1>1, <1>2 DEF LinkInv
<1> QED BY <1>1, <1>3

(* What a rollback that is under way knows.                                *)
LEMMA Undone ==
    ASSUME ApplyInv, status \in {"cleanTemp", "rollback", "rolledBack"}
    PROVE  /\ TypeOK /\ ExecInv /\ ManifestInv /\ StackInv /\ UntouchedInv
           /\ PresentInv /\ LinkInv /\ BackwardInv /\ Stood = failedAt
BY DEF ApplyInv, ExecInv, UnderWay, Stood

(* A step of the forward actions has to keep these.                        *)
LEMMA ApplyForward ==
    ASSUME ApplyInv, status = "running", ExecInv', UNCHANGED manifest, status' = "running",
           StackInv', UntouchedInv', PresentInv', LinkInv', ForwardInv'
    PROVE  ApplyInv'
<1>1. ManifestInv'
  BY DEF ApplyInv, ManifestInv, manifest
<1>2. AppliedIsComplete'
  BY DEF AppliedIsComplete
<1> QED BY <1>1, <1>2 DEF ApplyInv, UnderWay

(* A step of the rollback has to keep these, unless it gives up.           *)
LEMMA ApplyBackward ==
    ASSUME ApplyInv, status \in {"running", "cleanTemp", "rollback"}, ExecInv',
           UNCHANGED manifest,
           \/ status' = "rollbackFailed"
           \/ /\ status' \in {"cleanTemp", "rollback", "rolledBack"}
              /\ StackInv' /\ UntouchedInv' /\ PresentInv' /\ LinkInv' /\ BackwardInv'
    PROVE  ApplyInv'
<1>1. ManifestInv'
  BY DEF ApplyInv, ManifestInv, manifest
<1>2. AppliedIsComplete'
  BY DEF AppliedIsComplete
<1> QED BY <1>1, <1>2 DEF ApplyInv, UnderWay

(* A call within an action, before the action is activated.                *)
LEMMA QuietStep ==
    ASSUME ApplyInv, ExecInv', OpenFile \/ OpenTemp \/ WriteTemp \/ ProtectTemp \/ LinkTemp \/ LinkBackup
    PROVE  ApplyInv'
<1>1. /\ status = "running" /\ status' = "running" /\ ~Done /\ UNCHANGED manifest
      /\ index' = index /\ rollbackStack' = rollbackStack
  BY DEF OpenFile, OpenTemp, WriteTemp, ProtectTemp, LinkTemp, LinkBackup, Calling
<1>2. /\ TypeOK /\ ExecInv /\ ManifestInv /\ StackInv /\ UntouchedInv
      /\ PresentInv /\ LinkInv /\ ForwardInv /\ Stood = at /\ DoneIsActive
      /\ linked = {} \/ at \in {"unlinkTemp", "unlinkSource"}
  BY <1>1, Running DEF ForwardInv
<1>3. /\ Active' = Active /\ StackInv' /\ Cur' = Cur
      /\ at \notin Activated /\ at' \notin Activated => DoneIsActive'
      /\ initial' = initial /\ platform' = platform /\ Stood' = at' /\ Target' = Target
      /\ (Needed(8))' <=> Needed(8)
  BY <1>1, <1>2, StackKept, ManifestFrame DEF Stood, Target
<1>4. Cur \in Active => at \in Activated
  BY <1>2 DEF DoneIsActive, Entries, UndoRanks
<1>5. CASE OpenFile
  <2>1. /\ at = "next" /\ at' = "write" /\ Cur = 2 /\ Target = "configFile" /\ linked' = linked
        /\ disk' = [disk EXCEPT !["configFile"] = "partial"] /\ Expose("configFile")
    BY <1>1, <1>2, <1>5, CurAction DEF OpenFile, Calling, Write
  <2>2. \A p \in Paths : p # "configFile" => disk'[p] = disk[p]
    BY <1>2, <2>1 DEF TypeOK
  <2>3. 2 \notin Active /\ linked = {}
    BY <1>2, <1>4, <2>1 DEF Activated
  <2>4. UntouchedInv' /\ PresentInv'
    BY <1>2, <1>3, <2>1, <2>2, <2>3 DEF UntouchedInv, PresentInv, Same, Paths, PublishCalls
  <2>5. LinkInv'
    BY <1>3, <2>1, <2>3 DEF LinkInv
  <2>6. ExposedInv'
    BY <1>2, <1>3, <2>1 DEF ForwardInv, ExposedInv, Expose
  <2>7. ForwardInv'
    BY <1>2, <1>3, <2>1, <2>6 DEF ForwardInv, CallsOf, Activated
  <2> QED BY <1>1, <1>3, <2>4, <2>5, <2>7, ApplyForward
<1>6. CASE OpenTemp
  <2>1. /\ at = "next" /\ at' = "writeTemp" /\ Cur = 7 /\ linked' = linked /\ disk["temp"] = "none"
        /\ disk' = [disk EXCEPT !["temp"] = "partial"] /\ Expose("temp")
    BY <1>1, <1>2, <1>6, CurAction DEF OpenTemp, Calling, Write
  <2>2. \A p \in Paths : p # "temp" => disk'[p] = disk[p]
    BY <1>2, <2>1 DEF TypeOK
  <2>3. linked = {} /\ initial["temp"] = "none"
    BY <1>2, <2>1 DEF UntouchedInv, PublishCalls, Same
  <2>4. UntouchedInv' /\ PresentInv'
    BY <1>2, <1>3, <2>1, <2>2, <2>3 DEF UntouchedInv, PresentInv, Same, Paths, PublishCalls
  <2>5. LinkInv'
    BY <1>3, <2>1, <2>3 DEF LinkInv
  <2>6. ExposedInv'
    BY <1>2, <1>3, <2>1 DEF ForwardInv, ExposedInv, Expose
  <2>7. ForwardInv'
    BY <1>2, <1>3, <2>1, <2>3, <2>6 DEF ForwardInv, CallsOf, PublishCalls, Activated
  <2> QED BY <1>1, <1>3, <2>4, <2>5, <2>7, ApplyForward
<1>7. CASE WriteTemp
  <2>1. /\ at = "writeTemp" /\ at' = "protectTemp" /\ Cur = 7 /\ linked' = linked
        /\ disk' = [disk EXCEPT !["temp"] = "new"] /\ exposed' = exposed
    BY <1>1, <1>2, <1>7, CurAction DEF WriteTemp, Calling, Write
  <2>2. \A p \in Paths : p # "temp" => disk'[p] = disk[p]
    BY <1>2, <2>1 DEF TypeOK
  <2>3. linked = {} /\ initial["temp"] = "none"
    BY <1>2, <2>1 DEF ForwardInv
  <2>4. UntouchedInv' /\ PresentInv'
    BY <1>2, <1>3, <2>1, <2>2, <2>3 DEF UntouchedInv, PresentInv, Same, Paths, PublishCalls
  <2>5. LinkInv'
    BY <1>3, <2>1, <2>3 DEF LinkInv
  <2>6. ExposedInv'
    BY <1>2, <1>3, <2>1 DEF ForwardInv, ExposedInv
  <2>7. ForwardInv'
    BY <1>2, <1>3, <2>1, <2>3, <2>6 DEF ForwardInv, CallsOf, PublishCalls, Activated
  <2> QED BY <1>1, <1>3, <2>4, <2>5, <2>7, ApplyForward
<1>8. CASE ProtectTemp
  <2>1. /\ at = "protectTemp" /\ at' = "linkTemp" /\ Cur = 7 /\ linked' = linked
        /\ disk' = disk /\ exposed' = exposed \ {"temp"}
    BY <1>1, <1>2, <1>8, CurAction DEF ProtectTemp, Calling
  <2>3. linked = {} /\ initial["temp"] = "none"
    BY <1>2, <2>1 DEF ForwardInv
  <2>4. UntouchedInv' /\ PresentInv'
    BY <1>2, <1>3, <2>1, <2>3 DEF UntouchedInv, PresentInv, Same, Paths, PublishCalls
  <2>5. LinkInv'
    BY <1>3, <2>1, <2>3 DEF LinkInv
  <2>6. ExposedInv'
    BY <1>2, <1>3, <2>1 DEF ForwardInv, ExposedInv
  <2>7. ForwardInv'
    BY <1>2, <1>3, <2>1, <2>3, <2>6 DEF ForwardInv, CallsOf, PublishCalls, Activated
  <2> QED BY <1>1, <1>3, <2>4, <2>5, <2>7, ApplyForward
<1>9. CASE LinkTemp
  <2>1. /\ at = "linkTemp" /\ at' = "unlinkTemp" /\ Cur = 7 /\ linked' = {"temp", "launcher"}
        /\ disk' = [disk EXCEPT !["launcher"] = disk["temp"]] /\ exposed' = exposed
    BY <1>1, <1>2, <1>9, CurAction DEF LinkTemp, Calling, Write
  <2>2. /\ \A p \in Paths : p # "launcher" => disk'[p] = disk[p]
        /\ disk["temp"] = "new" /\ disk'["launcher"] = "new" /\ disk'["temp"] = "new"
    BY <1>2, <2>1 DEF TypeOK, ExecInv, Paths
  <2>3. 7 \notin Active /\ initial["temp"] = "none"
    BY <1>2, <1>4, <2>1 DEF ForwardInv, Activated
  <2>4. UntouchedInv' /\ PresentInv'
    BY <1>2, <1>3, <2>1, <2>2, <2>3 DEF UntouchedInv, PresentInv, Same, Paths, PublishCalls
  <2>5. LinkInv'
    BY <1>3, <2>1, <2>2, <2>3 DEF LinkInv
  <2>6. ExposedInv'
    BY <1>2, <1>3, <2>1 DEF ForwardInv, ExposedInv
  <2>7. ForwardInv'
    BY <1>2, <1>3, <2>1, <2>2, <2>3, <2>6 DEF ForwardInv, CallsOf, PublishCalls, Activated
  <2> QED BY <1>1, <1>3, <2>4, <2>5, <2>7, ApplyForward
<1>10. CASE LinkBackup
  <2>1. /\ at = "next" /\ at' = "unlinkSource" /\ Cur = 6 /\ linked' = {"launcher", "backup"}
        /\ disk' = [disk EXCEPT !["backup"] = "old"] /\ exposed' = exposed
    BY <1>1, <1>2, <1>10, CurAction DEF LinkBackup, Calling, Write
  <2>2. /\ \A p \in Paths : p # "backup" => disk'[p] = disk[p]
        /\ disk'["backup"] = "old"
    BY <1>2, <2>1 DEF TypeOK, Paths
  <2>3. 6 \notin Active
    BY <1>2, <1>4, <2>1 DEF Activated
  <2>4. UntouchedInv' /\ PresentInv'
    BY <1>2, <1>3, <2>1, <2>2, <2>3 DEF UntouchedInv, PresentInv, Same, Paths, PublishCalls
  <2>5. LinkInv'
    BY <1>3, <2>1, <2>2, <2>3 DEF LinkInv
  <2>6. ExposedInv'
    BY <1>2, <1>3, <2>1 DEF ForwardInv, ExposedInv
  <2>7. ForwardInv'
    BY <1>2, <1>3, <2>1, <2>2, <2>3, <2>6 DEF ForwardInv, CallsOf, PublishCalls, Activated
  <2> QED BY <1>1, <1>3, <2>4, <2>5, <2>7, ApplyForward
<1> QED BY <1>5, <1>6, <1>7, <1>8, <1>9, <1>10

(* The call that activates the rollback of its action.                     *)
LEMMA ActivationStep ==
    ASSUME ApplyInv, ExecInv', CreateDirectory \/ WriteFile \/ UnlinkTemp \/ UnlinkSource
    PROVE  ApplyInv'
<1>1. /\ status = "running" /\ status' = "running" /\ ~Done /\ UNCHANGED manifest
      /\ index' = index /\ at \notin Activated /\ at' \in Activated /\ Activate
  BY DEF CreateDirectory, WriteFile, UnlinkTemp, UnlinkSource, Calling, Activated
<1>2. /\ TypeOK /\ ExecInv /\ ManifestInv /\ StackInv /\ UntouchedInv
      /\ PresentInv /\ LinkInv /\ ForwardInv /\ Stood = at /\ DoneIsActive
      /\ linked = {} \/ at \in {"unlinkTemp", "unlinkSource"}
  BY <1>1, Running DEF ForwardInv
<1>3. /\ StackInv' /\ DoneIsActive' /\ Active' = Active \cup ({Cur} \cap Entries) /\ Cur' = Cur
      /\ initial' = initial /\ platform' = platform /\ Stood' = at' /\ Target' = Target
      /\ (Needed(8))' <=> Needed(8)
  BY <1>1, <1>2, ActivateIs, ManifestFrame DEF Stood, Target
<1>4. Needed(Cur) /\ (Cur \in {1, 2, 3, 4, 6} => Cur \in Entries)
  BY <1>1, <1>2, CurAction DEF Entries, UndoRanks
<1>5. CASE CreateDirectory
  <2>1. /\ at = "next" /\ at' = "protect" /\ Cur \in {1, 3, 4} /\ linked' = linked
        /\ disk' = [disk EXCEPT ![Target] = "dir"] /\ Expose(Target)
        /\ Target = CASE Cur = 1 -> "configDir" [] Cur = 3 -> "installRoot"
                      [] Cur = 4 -> "binDir"
    BY <1>1, <1>2, <1>5, CurAction DEF CreateDirectory, Calling, Write
  <2>2. /\ \A p \in Paths : p # Target => disk'[p] = disk[p]
        /\ disk'[Target] = "dir" /\ Target \in Paths
    BY <1>2, <2>1 DEF TypeOK, Paths
  <2>3. Active' = Active \cup {Cur} /\ linked = {}
    BY <1>2, <1>3, <1>4, <2>1
  <2>4. UntouchedInv'
    BY <1>2, <1>3, <2>1, <2>2, <2>3 DEF UntouchedInv, Same, Paths, PublishCalls
  <2>5. PresentInv'
    BY <1>2, <1>3, <2>1, <2>2, <2>3 DEF PresentInv, Paths
  <2>6. LinkInv'
    BY <1>3, <2>1, <2>3 DEF LinkInv
  <2>7. ExposedInv'
    BY <1>2, <1>3, <2>1 DEF ForwardInv, ExposedInv, Expose
  <2>8. ForwardInv'
    BY <1>2, <1>3, <2>1, <2>7 DEF ForwardInv, CallsOf
  <2> QED BY <1>1, <1>3, <2>4, <2>5, <2>6, <2>8, ApplyForward
<1>6. CASE WriteFile
  <2>1. /\ at = "write" /\ at' = "protect" /\ Cur = 2 /\ linked' = linked
        /\ disk' = [disk EXCEPT !["configFile"] = "config"] /\ exposed' = exposed
        /\ Target = "configFile"
    BY <1>1, <1>2, <1>6, CurAction DEF WriteFile, Calling, Write
  <2>2. /\ \A p \in Paths : p # "configFile" => disk'[p] = disk[p]
        /\ disk'["configFile"] = "config"
    BY <1>2, <2>1 DEF TypeOK, Paths
  <2>3. Active' = Active \cup {2} /\ linked = {}
    BY <1>2, <1>3, <1>4, <2>1
  <2>4. UntouchedInv' /\ PresentInv'
    BY <1>2, <1>3, <2>1, <2>2, <2>3 DEF UntouchedInv, PresentInv, Same, Paths, PublishCalls
  <2>6. LinkInv'
    BY <1>3, <2>1, <2>3 DEF LinkInv
  <2>7. ExposedInv'
    BY <1>2, <1>3, <2>1 DEF ForwardInv, ExposedInv
  <2>8. ForwardInv'
    BY <1>2, <1>3, <2>1, <2>7 DEF ForwardInv, CallsOf
  <2> QED BY <1>1, <1>3, <2>4, <2>6, <2>8, ApplyForward
<1>7. CASE UnlinkTemp
  <2>1. /\ at = "unlinkTemp" /\ at' = "protect" /\ Cur = 7 /\ linked' = {}
        /\ disk' = [disk EXCEPT !["temp"] = "none"] /\ exposed' = exposed
    BY <1>1, <1>2, <1>7, CurAction DEF UnlinkTemp, Calling, Write
  <2>2. /\ \A p \in Paths : p # "temp" => disk'[p] = disk[p]
        /\ disk'["temp"] = "none" /\ initial["temp"] = "none" /\ disk["launcher"] = "new"
    BY <1>2, <2>1 DEF TypeOK, Paths, ForwardInv
  <2>3. 6 \in Active' \/ 7 \in Active'
    <3>1. initial["launcher"] \in {"none", "old"}
      BY <1>1, <1>2, <1>4, <2>1, InitialDisk
    <3>2. 7 \in Entries \/ 6 \in Entries
      BY <1>1, <1>2, <3>1, InitialDisk
    <3>3. 6 \in Entries => 6 \in Active
      BY <1>2, <2>1 DEF DoneIsActive
    <3> QED BY <1>3, <2>1, <3>2, <3>3
  <2>4. Active \subseteq Active' /\ \A r \in Active' : r \in Active \/ r = 7
    BY <1>3, <2>1
  <2>5. UntouchedInv' /\ PresentInv'
    BY <1>2, <1>3, <2>1, <2>2, <2>3, <2>4 DEF UntouchedInv, PresentInv, Same, Paths, PublishCalls
  <2>6. LinkInv'
    BY <1>3, <2>1 DEF LinkInv
  <2>7. ExposedInv'
    BY <1>2, <1>3, <2>1 DEF ForwardInv, ExposedInv
  <2>8. ForwardInv'
    BY <1>2, <1>3, <2>1, <2>7 DEF ForwardInv, CallsOf
  <2> QED BY <1>1, <1>3, <2>5, <2>6, <2>8, ApplyForward
<1>8. CASE UnlinkSource
  <2>1. /\ at = "unlinkSource" /\ at' = "verifyMoved" /\ Cur = 6 /\ linked' = {}
        /\ disk' = [disk EXCEPT !["launcher"] = "none"] /\ exposed' = exposed
    BY <1>1, <1>2, <1>8, CurAction DEF UnlinkSource, Calling, Write
  <2>2. /\ \A p \in Paths : p # "launcher" => disk'[p] = disk[p]
        /\ disk'["launcher"] = "none" /\ disk["backup"] = "old"
    BY <1>2, <2>1 DEF TypeOK, Paths, ExecInv
  <2>3. Active' = Active \cup {6} /\ 7 \notin Active
    BY <1>2, <1>3, <1>4, <2>1 DEF DoneIsActive
  <2>5. UntouchedInv' /\ PresentInv'
    BY <1>2, <1>3, <2>1, <2>2, <2>3 DEF UntouchedInv, PresentInv, Same, Paths, PublishCalls
  <2>6. LinkInv'
    BY <1>3, <2>1 DEF LinkInv
  <2>7. ExposedInv'
    BY <1>2, <1>3, <2>1 DEF ForwardInv, ExposedInv
  <2>8. ForwardInv'
    BY <1>2, <1>3, <2>1, <2>7 DEF ForwardInv, CallsOf
  <2> QED BY <1>1, <1>3, <2>5, <2>6, <2>8, ApplyForward
<1> QED BY <1>5, <1>6, <1>7, <1>8

(* The last call of an action: the loop goes on to the next.               *)
LEMMA AdvanceStep ==
    ASSUME ApplyInv, ExecInv', Protect \/ AssertAbsent \/ VerifyMoved
    PROVE  ApplyInv'
<1>1. /\ status = "running" /\ status' = "running" /\ ~Done /\ UNCHANGED manifest
      /\ index' = index + 1 /\ at' = "next" /\ rollbackStack' = rollbackStack
      /\ disk' = disk /\ linked' = linked /\ at \in {"next", "protect", "verifyMoved"}
  BY DEF Protect, AssertAbsent, VerifyMoved, Calling, Advance
<1>2. /\ TypeOK /\ StackInv /\ UntouchedInv /\ PresentInv /\ LinkInv /\ ForwardInv
      /\ Stood = at /\ DoneIsActive /\ linked = {}
  BY <1>1, Running DEF ForwardInv
<1>3. /\ Active' = Active /\ StackInv' /\ initial' = initial /\ Stood' = at'
      /\ ((Needed(8))' <=> Needed(8)) /\ Entries' = Entries
  BY <1>1, <1>2, StackKept, ManifestFrame DEF Stood
<1>4. /\ Cur \in 1 .. 7 /\ (at = "next" => Cur = 5) /\ (at = "next" => exposed' = exposed)
      /\ (at = "protect" => exposed' = exposed \ {Target})
      /\ (at = "verifyMoved" => exposed' = exposed)
  <2>1. CASE Protect
    <3>1. at = "protect" /\ Cur \in 1 .. 8 /\ exposed' = exposed \ {Target}
      BY <1>1, <1>2, <2>1, CurAction DEF Protect
    <3> QED BY <1>2, <3>1 DEF ForwardInv, CallsOf
  <2>2. CASE AssertAbsent
    BY <1>1, <1>2, <2>2, CurAction DEF AssertAbsent, Calling
  <2>3. CASE VerifyMoved
    BY <1>1, <1>2, <2>3, CurAction DEF VerifyMoved, Calling
  <2> QED BY <2>1, <2>2, <2>3
<1>5. /\ Cur' = RankAt(index + 1) /\ Cur' \in 1 .. 9 /\ Cur < Cur'
      /\ \A r \in 1 .. 8 : Needed(r) => r <= Cur \/ r >= Cur'
  <2>1. index \in Nat \ {0} /\ index + 1 \in Nat \ {0}
    BY <1>2 DEF TypeOK
  <2>2. Cur' = RankAt(index + 1)
    BY <1>1, ManifestFrame
  <2>3. RankAt(index) = Cur /\ Cur # 9
    BY <1>4 DEF Cur
  <2>4. RankAt(index + 1) \in 1 .. 9
    BY <2>1, RanksAscend
  <2>5. /\ RankAt(index) < RankAt(index + 1)
        /\ \A r \in 1 .. 8 : Needed(r) => r <= RankAt(index) \/ r >= RankAt(index + 1)
    BY <2>1, <2>3, RanksAscend
  <2> QED BY <2>2, <2>3, <2>4, <2>5
<1>6. DoneIsActive'
  <2>1. \A r \in Entries : r \in 1 .. 8 /\ r # 5 /\ Needed(r)
    BY DEF Entries, UndoRanks
  <2>2. \A r \in Entries : r < Cur' <=> (r < Cur \/ (r = Cur /\ at \in Activated))
    <3> TAKE r \in Entries
    <3>1. r \in Nat /\ Cur \in Nat /\ Cur' \in Nat /\ Cur < Cur' /\ (r <= Cur \/ r >= Cur')
      BY <1>4, <1>5, <2>1
    <3>2. at \in Activated \/ r # Cur
      BY <1>1, <1>4, <2>1 DEF Activated
    <3> QED BY <3>1, <3>2
  <2>3. Active' = {r \in Entries : r < Cur'}
    BY <1>2, <1>3, <2>2 DEF DoneIsActive
  <2>4. (at \in Activated)' <=> FALSE
    BY <1>1 DEF Activated
  <2> QED BY <1>3, <2>3, <2>4 DEF DoneIsActive
<1>7. UntouchedInv' /\ PresentInv'
  BY <1>1, <1>2, <1>3 DEF UntouchedInv, PresentInv, Same, PublishCalls
<1>8. LinkInv'
  BY <1>1, <1>2, <1>3 DEF LinkInv
<1>9. exposed' = {}
  BY <1>1, <1>2, <1>4 DEF ForwardInv, ExposedInv
<1>10. Cur' = 9 => ~Needed(8)
  BY <1>4, <1>5
<1>11. "next" \in CallsOf(Cur')
  BY <1>5 DEF CallsOf
<1>12. (at \in CallsOf(Cur))'
  BY <1>1, <1>11 DEF CallsOf, PublishCalls
<1>13. ForwardInv'
  BY <1>1, <1>3, <1>6, <1>9, <1>10, <1>12 DEF ForwardInv, ExposedInv
<1> QED BY <1>1, <1>3, <1>7, <1>8, <1>13, ApplyForward

(* The executor reports success.                                           *)
LEMMA ApplyEnds ==
    ASSUME ApplyInv, ExecInv', Commit \/ Finish
    PROVE  ApplyInv'
<1>1. /\ status = "running" /\ status' = "applied" /\ UNCHANGED manifest
      /\ FinalState /\ linked' = linked /\ exposed' = exposed
  BY DEF Commit, Finish, Calling
<1>2. /\ TypeOK /\ ManifestInv /\ UntouchedInv /\ PresentInv /\ ForwardInv
      /\ Stood = at /\ DoneIsActive /\ (linked = {} \/ at \in {"unlinkTemp", "unlinkSource"})
  BY <1>1, Running DEF ForwardInv
<1>3. at = "next" /\ Cur \in {8, 9} /\ ((Commit /\ Cur = 8) \/ (Finish /\ Cur = 9))
  <2>1. CASE Commit
    BY <1>2, <2>1, CurAction DEF Commit, Calling
  <2>2. CASE Finish
    BY <1>2, <2>2, DoneIs DEF Finish, ForwardInv, CallsOf
  <2> QED BY <2>1, <2>2
<1>4. disk'["backup"] = "none" /\ \A p \in Paths : p # "backup" => disk'[p] = disk[p]
  <2>1. CASE Commit
    BY <1>2, <2>1 DEF Commit, Write, TypeOK, Paths
  <2>2. CASE Finish /\ Cur = 9
    <3>1. 6 \notin Active
      BY <1>1, <1>2, <2>2, InitialDisk DEF ForwardInv, DoneIsActive
    <3>2. disk["backup"] = "none"
      BY <1>1, <1>2, <1>3, <3>1, InitialDisk DEF UntouchedInv, Same
    <3> QED BY <2>2, <3>2 DEF Finish
  <2> QED BY <1>3, <2>1, <2>2
<1>5. disk["launcher"] = "new" /\ linked = {} /\ exposed = {} /\ disk["temp"] = initial["temp"]
  BY <1>1, <1>2, <1>3 DEF FinalState, ForwardInv, ExposedInv, UntouchedInv, Same, PublishCalls
<1>6. disk["configFile"] = IF initial["configFile"] = "user" THEN "user" ELSE "config"
  <2>1. CASE initial["configFile"] = "user"
    <3>1. 2 \notin Active
      BY <1>1, <1>2, <2>1, InitialDisk DEF DoneIsActive
    <3> QED BY <1>2, <1>3, <2>1, <3>1 DEF UntouchedInv, Same
  <2>2. CASE initial["configFile"] # "user"
    <3>1. 2 \in Entries
      BY <1>1, <1>2, <2>2, InitialDisk
    <3>2. 2 \in Active
      BY <1>2, <1>3, <3>1 DEF DoneIsActive
    <3> QED BY <1>2, <2>2, <3>2 DEF PresentInv
  <2> QED BY <2>1, <2>2
<1>7. initial' = initial /\ platform' = platform /\ observed' = observed
  BY <1>1 DEF manifest
<1>8. AppliedIsComplete'
  BY <1>1, <1>4, <1>5, <1>6, <1>7 DEF AppliedIsComplete, Paths
<1>9. ManifestInv'
  BY <1>1, <1>2, <1>7 DEF ManifestInv
<1> QED BY <1>1, <1>8, <1>9 DEF ApplyInv, UnderWay

(* A check or a system call of the forward actions fails.                  *)
LEMMA FailureStep ==
    ASSUME ApplyInv, ExecInv', ActionFails
    PROVE  ApplyInv'
<1>1. /\ status = "running" /\ UNCHANGED manifest /\ index' = index /\ linked' = linked
      /\ rollbackStack' = rollbackStack /\ failedAt' = at /\ at' = "undo"
      /\ status' = IF InPublish THEN "cleanTemp" ELSE "rollback"
  BY DEF ActionFails
<1>2. /\ TypeOK /\ ManifestInv /\ StackInv /\ UntouchedInv /\ PresentInv /\ LinkInv
      /\ ForwardInv /\ Stood = at /\ DoneIsActive
  BY <1>1, Running DEF ForwardInv
<1>3. /\ Active' = Active /\ StackInv' /\ initial' = initial /\ Stood' = at
      /\ Entries' = Entries
  BY <1>1, <1>2, StackKept, ManifestFrame DEF Stood
<1>4. \A p \in Paths : \/ disk'[p] = disk[p]
                       \/ p = "configFile" /\ at = "write"
                       \/ p = "temp" /\ at = "writeTemp"
  BY <1>2 DEF ActionFails, TypeOK
<1>5. at = "write" => 2 \notin Active
  <2>1. at = "write" => Cur = 2
    BY <1>2, DoneIs DEF ForwardInv, CallsOf, PublishCalls
  <2> QED BY <1>2, <2>1 DEF DoneIsActive, Activated
<1>6. at \notin {"restoreLink", "restoreUnlink", "undo"}
  BY <1>2 DEF ForwardInv, CallsOf, PublishCalls
<1>7. UntouchedInv'
  BY <1>2, <1>3, <1>4 DEF UntouchedInv, Same, Paths, PublishCalls
<1>8. PresentInv'
  BY <1>1, <1>2, <1>3, <1>4, <1>5, <1>6 DEF PresentInv, Paths
<1>9. LinkInv'
  BY <1>1, <1>2, <1>3, <1>4, <1>6 DEF LinkInv, Paths
<1>10. status' = "cleanTemp" => at \in PublishCalls \/ disk'["temp"] = "none"
  <2> SUFFICES ASSUME status' = "cleanTemp", at \notin PublishCalls
               PROVE  disk'["temp"] = "none"
    OBVIOUS
  <2>1. ~Done /\ Forward[index].kind = "publish" /\ at # "next"
    BY <1>1 DEF InPublish
  <2>2. Cur = 7
    BY <1>2, <2>1, CurAction
  <2>3. initial["temp"] = "none" /\ disk["temp"] = initial["temp"]
    BY <1>2, <2>1, <2>2 DEF ForwardInv, UntouchedInv, Same
  <2> QED BY <1>4, <2>3 DEF Paths, PublishCalls
<1>11. Active \subseteq Entries
  BY <1>2 DEF DoneIsActive
<1>12. BackwardInv'
  BY <1>1, <1>3, <1>10, <1>11 DEF BackwardInv, PublishCalls
<1> QED BY <1>1, <1>3, <1>7, <1>8, <1>9, <1>12, ApplyBackward

(* removeTempIfOwned, before the rollback begins.                          *)
LEMMA CleanTempStep ==
    ASSUME ApplyInv, ExecInv', CleanTemp
    PROVE  ApplyInv'
<1>1. /\ status = "cleanTemp" /\ status' = "rollback" /\ UNCHANGED manifest /\ linked' = linked
      /\ rollbackStack' = rollbackStack /\ failedAt' = failedAt /\ at' = at
  BY DEF CleanTemp
<1>2. /\ TypeOK /\ StackInv /\ UntouchedInv /\ PresentInv /\ LinkInv
      /\ BackwardInv /\ Stood = failedAt
  BY <1>1, Undone
<1>3. /\ Active' = Active /\ StackInv' /\ initial' = initial /\ Stood' = failedAt
      /\ Entries' = Entries
  BY <1>1, <1>2, StackKept, ManifestFrame DEF Stood
<1>4. \A p \in Paths : \/ disk'[p] = disk[p]
                       \/ p = "temp" /\ failedAt \in PublishCalls /\ "temp" \notin linked
  <2>1. CASE disk["temp"] = "new" /\ Single("temp") /\ Write("temp", "none")
    BY <1>1, <1>2, <2>1 DEF BackwardInv, Single, Write, TypeOK
  <2>2. CASE disk' = disk
    BY <2>2
  <2> QED BY <2>1, <2>2 DEF CleanTemp
<1>5. UntouchedInv'
  BY <1>2, <1>3, <1>4 DEF UntouchedInv, Same, Paths
<1>6. PresentInv'
  BY <1>1, <1>2, <1>3, <1>4 DEF PresentInv, Paths
<1>7. LinkInv'
  BY <1>1, <1>2, <1>3, <1>4 DEF LinkInv, Paths
<1>8. at = "undo"
  BY <1>1, <1>2 DEF BackwardInv
<1>9. BackwardInv'
  BY <1>1, <1>2, <1>3, <1>8 DEF BackwardInv
<1> QED BY <1>1, <1>3, <1>5, <1>6, <1>7, <1>9, ApplyBackward

(* The entry on top of the stack is the one of the highest rank, and what  *)
(* it undoes was not there before the execution.                           *)
LEMMA TopIs ==
    ASSUME ApplyInv, status = "rollback", rollbackStack # <<>>, NEW R, R = Active
    PROVE  \E r \in R :
              /\ Undo = UndoOf(r) /\ r \in {1, 2, 3, 4, 6, 7} /\ r \in Entries
              /\ \A q \in R : q <= r
              /\ \A q \in R \ {r} : q # r
              /\ rollbackStack' = Tail(rollbackStack) =>
                    Active' = Active \ {r} /\ StackInv'
<1>1. StackInv /\ BackwardInv
  BY Undone
<1>2. PICK r \in Active : /\ Undo = UndoOf(r) /\ \A q \in Active : q <= r
                          /\ IsStack(Tail(rollbackStack), Active \ {r})
  BY <1>1, StackPop DEF StackInv, Undo
<1>3. r \in Entries /\ r \in {1, 2, 3, 4, 6, 7}
  BY <1>1 DEF BackwardInv, Entries, UndoRanks
<1>4. ASSUME rollbackStack' = Tail(rollbackStack)
      PROVE  Active' = Active \ {r} /\ StackInv'
  <2>1. IsStack(rollbackStack', Active \ {r})
    BY <1>2, <1>4
  <2>2. Active' = Active \ {r}
    BY <2>1, StackIs DEF Active
  <2> QED BY <2>1, <2>2 DEF StackInv, IsStack
<1> QED BY <1>2, <1>3, <1>4

(* What each entry is.                                                     *)
LEMMA UndoFields ==
    /\ UndoOf(1).kind = "remove_directory" /\ UndoOf(1).target = "configDir"
    /\ UndoOf(2).kind = "remove_file" /\ UndoOf(2).target = "configFile"
    /\ UndoOf(3).kind = "remove_directory" /\ UndoOf(3).target = "installRoot"
    /\ UndoOf(4).kind = "remove_directory" /\ UndoOf(4).target = "binDir"
    /\ UndoOf(6).kind = "restore" /\ UndoOf(6).target = "backup"
    /\ UndoOf(7).kind = "remove_file" /\ UndoOf(7).target = "launcher"
BY DEF UndoOf, Action

(* An entry removes what its action made.                                  *)
LEMMA RemoveStep ==
    ASSUME ApplyInv, ExecInv', Remove
    PROVE  ApplyInv'
<1>1. /\ status = "rollback" /\ rollbackStack # <<>> /\ at = "undo" /\ UNCHANGED manifest
      /\ linked' = linked /\ failedAt' = failedAt /\ at' = at
      /\ rollbackStack' = Tail(rollbackStack) /\ status' \in {"rollback", "rollbackFailed"}
      /\ Undo.kind \in {"remove_file", "remove_directory"}
      /\ disk' = [disk EXCEPT ![Undo.target] = "none"]
  BY DEF Remove, Undoing, EntryDone, Write
<1>2. /\ TypeOK /\ ManifestInv /\ StackInv /\ UntouchedInv /\ PresentInv /\ LinkInv
      /\ BackwardInv /\ Stood = failedAt
  BY <1>1, Undone
<1>3. PICK r \in Active : /\ Undo = UndoOf(r) /\ r \in {1, 2, 3, 4, 6, 7} /\ r \in Entries
                          /\ \A q \in Active : q <= r
                          /\ Active' = Active \ {r} /\ StackInv'
  BY <1>1, TopIs
<1>4. CASE status' = "rollbackFailed"
  BY <1>1, <1>4, ApplyBackward
<1>5. CASE status' = "rollback"
  <2>1. /\ initial' = initial /\ Stood' = failedAt /\ Entries' = Entries
    BY <1>1, <1>5, ManifestFrame DEF Stood
  <2> DEFINE t == Undo.target
  <2>2. /\ \/ r = 1 /\ t = "configDir"
           \/ r = 2 /\ t = "configFile"
           \/ r = 3 /\ t = "installRoot"
           \/ r = 4 /\ t = "binDir"
           \/ r = 7 /\ t = "launcher"
        /\ t \in Paths
    BY <1>1, <1>3, UndoFields DEF Paths
  <2>3. initial[t] = "none"
    BY <1>1, <1>2, <1>3, <2>2, InitialDisk
  <2> HIDE DEF t
  <2>4. disk'[t] = "none" /\ \A p \in Paths : p # t => disk'[p] = disk[p]
    BY <1>1, <1>2, <2>2 DEF TypeOK, t
  <2>5. UntouchedInv'
    BY <1>2, <1>3, <2>1, <2>2, <2>3, <2>4 DEF UntouchedInv, Same, Paths
  <2>6. PresentInv'
    BY <1>1, <1>2, <1>3, <2>2, <2>4 DEF PresentInv, Paths
  <2>7. LinkInv'
    BY <1>1, <1>2, <2>1, <2>2, <2>4 DEF LinkInv, Paths
  <2>8. BackwardInv'
    BY <1>1, <1>2, <1>3, <1>5, <2>1 DEF BackwardInv
  <2> QED BY <1>1, <1>3, <1>5, <2>5, <2>6, <2>7, <2>8, ApplyBackward
<1> QED BY <1>1, <1>4, <1>5

(* The three calls that restore the old launcher.                          *)
LEMMA RestoreStep ==
    ASSUME ApplyInv, ExecInv', Restore \/ RestoreLink \/ RestoreUnlink
    PROVE  ApplyInv'
<1>1. /\ status = "rollback" /\ UNCHANGED manifest /\ failedAt' = failedAt
      /\ (Restore => at = "undo" /\ rollbackStack # <<>> /\ Undo.kind = "restore" /\ Undoable)
      /\ (RestoreLink => at = "restoreLink") /\ (RestoreUnlink => at = "restoreUnlink")
  BY DEF Restore, RestoreLink, RestoreUnlink, Undoing
<1>2. /\ TypeOK /\ ManifestInv /\ StackInv /\ UntouchedInv /\ PresentInv /\ LinkInv
      /\ BackwardInv /\ Stood = failedAt /\ ExecInv
  BY <1>1, Undone
<1>3. rollbackStack # <<>>
  BY <1>1, <1>2 DEF BackwardInv
<1>4. PICK r \in Active : /\ Undo = UndoOf(r) /\ r \in {1, 2, 3, 4, 6, 7} /\ r \in Entries
                          /\ \A q \in Active : q <= r
                          /\ rollbackStack' = Tail(rollbackStack) =>
                                Active' = Active \ {r} /\ StackInv'
  BY <1>1, <1>3, TopIs
<1>5. r = 6 /\ 6 \in Active /\ 6 \in Entries /\ 7 \notin Active /\ Undo = UndoOf(6)
  <2>1. Undo.kind = "restore"
    BY <1>1, <1>2, UndoFields DEF BackwardInv
  <2>2. r = 6
    BY <1>4, <2>1, UndoFields
  <2> QED BY <1>4, <2>2
<1>6. initial' = initial /\ Entries' = Entries /\ initial["launcher"] = "old"
      /\ initial["backup"] = "none" /\ (status' = "rollback" => Stood' = failedAt)
  BY <1>1, <1>2, <1>5, ManifestFrame, InitialDisk DEF Stood
<1>7. CASE Restore
  <2>1. /\ disk' = [disk EXCEPT !["launcher"] = "none"] /\ at' = "restoreLink"
        /\ linked' = linked /\ status' = "rollback" /\ rollbackStack' = rollbackStack
        /\ Single("backup") /\ Single("launcher")
    BY <1>1, <1>5, <1>7, UndoFields DEF Restore, Write, Undoable
  <2>2. linked = {}
    BY <1>2, <2>1 DEF LinkInv, Single
  <2>3. disk'["launcher"] = "none" /\ \A p \in Paths : p # "launcher" => disk'[p] = disk[p]
    BY <1>2, <2>1 DEF TypeOK, Paths
  <2>4. Active' = Active /\ StackInv' /\ Undo' = Undo
    BY <1>1, <1>2, <2>1, StackKept DEF Undo
  <2>5. UntouchedInv' /\ PresentInv'
    BY <1>2, <1>5, <1>6, <2>1, <2>3, <2>4 DEF UntouchedInv, PresentInv, Same, Paths
  <2>6. LinkInv'
    BY <2>1, <2>2 DEF LinkInv
  <2>7. BackwardInv'
    BY <1>2, <1>3, <1>5, <1>6, <2>1, <2>4, UndoFields DEF BackwardInv, UndoOf
  <2> QED BY <1>1, <2>1, <2>4, <2>5, <2>6, <2>7, ApplyBackward
<1>8. CASE RestoreLink
  <2>1. /\ disk' = [disk EXCEPT !["launcher"] = disk["backup"]] /\ at' = "restoreUnlink"
        /\ linked' = {"launcher", "backup"} /\ status' = "rollback"
        /\ rollbackStack' = rollbackStack
    BY <1>1, <1>8 DEF RestoreLink, Write
  <2>3. \A p \in Paths : p # "launcher" => disk'[p] = disk[p]
    BY <1>2, <2>1 DEF TypeOK, Paths
  <2>4. Active' = Active /\ StackInv' /\ Undo' = Undo
    BY <1>1, <1>2, <2>1, StackKept DEF Undo
  <2>5. UntouchedInv' /\ PresentInv'
    BY <1>2, <1>5, <1>6, <2>1, <2>3, <2>4 DEF UntouchedInv, PresentInv, Same, Paths
  <2>6. LinkInv'
    BY <2>1 DEF LinkInv
  <2>7. BackwardInv'
    BY <1>2, <1>3, <1>5, <1>6, <2>1, <2>4 DEF BackwardInv, UndoOf
  <2> QED BY <1>1, <2>1, <2>4, <2>5, <2>6, <2>7, ApplyBackward
<1>9. CASE RestoreUnlink
  <2>1. /\ disk' = [disk EXCEPT !["backup"] = "none"] /\ at' = "undo"
        /\ linked' = {} /\ status' \in {"rollback", "rollbackFailed"}
        /\ rollbackStack' = Tail(rollbackStack) /\ disk["launcher"] = "old"
    BY <1>1, <1>2, <1>9 DEF RestoreUnlink, Write, EntryDone, ExecInv
  <2>2. CASE status' = "rollbackFailed"
    BY <1>1, <2>2, ApplyBackward
  <2>3. CASE status' = "rollback"
    <3>1. disk'["backup"] = "none" /\ \A p \in Paths : p # "backup" => disk'[p] = disk[p]
      BY <1>2, <2>1 DEF TypeOK, Paths
    <3>2. Active' = Active \ {6} /\ StackInv'
      BY <1>4, <1>5, <2>1
    <3>3. UntouchedInv' /\ PresentInv'
      BY <1>2, <1>5, <1>6, <2>1, <2>3, <3>1, <3>2 DEF UntouchedInv, PresentInv, Same, Paths
    <3>4. LinkInv'
      BY <2>1 DEF LinkInv
    <3>5. BackwardInv'
      BY <1>2, <1>6, <2>1, <2>3, <3>2 DEF BackwardInv
    <3> QED BY <1>1, <2>3, <3>2, <3>3, <3>4, <3>5, ApplyBackward
  <2> QED BY <2>1, <2>2, <2>3
<1> QED BY <1>7, <1>8, <1>9

(* The executor begins, on a disk that is as the manifest saw it.          *)
LEMMA BeginStep ==
    ASSUME ApplyInv, ExecInv', Begin
    PROVE  ApplyInv'
<1>1. /\ status = "ready" /\ status' = "running" /\ UNCHANGED manifest /\ observed = Observe(disk)
      /\ disk' = disk /\ linked' = linked /\ exposed' = exposed /\ index' = index /\ at' = at
      /\ rollbackStack' = rollbackStack
  BY DEF Begin
<1>2. /\ disk = initial /\ linked = {} /\ exposed = {} /\ index = 1 /\ at = "next"
      /\ rollbackStack = <<>> /\ TypeOK /\ ManifestInv
  BY <1>1 DEF ApplyInv, ReadyInv, ExecInv
<1>3. /\ initial' = initial /\ Entries' = Entries /\ ((Needed(8))' <=> Needed(8))
      /\ Cur' = RankAt(1) /\ Stood' = "next" /\ observed' = observed /\ platform' = platform
  BY <1>1, <1>2, ManifestFrame DEF Stood
<1>4. RankAt(1) \in 1 .. 9 /\ \A r \in 1 .. 8 : Needed(r) => r >= RankAt(1)
  <2>1. 1 \in Nat \ {0}
    OBVIOUS
  <2> QED BY <2>1, RanksAscend
<1>5. Active' = {} /\ StackInv'
  <2>1. IsStack(rollbackStack', {})
    BY <1>1, <1>2, StackEmpty
  <2>2. Active' = {}
    BY <2>1, StackIs DEF Active
  <2> QED BY <2>1, <2>2 DEF StackInv, IsStack
<1>6. DoneIsActive'
  <2>1. \A r \in Entries : r \in 1 .. 8 /\ Needed(r)
    BY DEF Entries, UndoRanks
  <2>2. \A r \in Entries : ~(r < Cur')
    BY <1>3, <1>4, <2>1
  <2>3. (at \in Activated)' <=> FALSE
    BY <1>1, <1>2 DEF Activated
  <2> QED BY <1>3, <1>5, <2>2, <2>3 DEF DoneIsActive
<1>7. UntouchedInv' /\ PresentInv' /\ LinkInv'
  BY <1>1, <1>2, <1>3, <1>5 DEF UntouchedInv, PresentInv, LinkInv, Same
<1>8. (at \in CallsOf(Cur))'
  BY <1>1, <1>2, <1>3, <1>4 DEF CallsOf, PublishCalls
<1>9. ForwardInv'
  BY <1>1, <1>2, <1>3, <1>4, <1>6, <1>8 DEF ForwardInv, ExposedInv
<1>10. ManifestInv'
  BY <1>1, <1>2, <1>3 DEF ManifestInv
<1>11. AppliedIsComplete'
  BY <1>1 DEF AppliedIsComplete
<1> QED BY <1>1, <1>5, <1>7, <1>9, <1>10, <1>11 DEF ApplyInv, UnderWay

(* The rollback ends, and the steps that change nothing.                   *)
LEMMA EndStep ==
    ASSUME ApplyInv, ExecInv',
           Refuse \/ RollbackFails \/ RollbackCompletes \/ UNCHANGED vars
    PROVE  ApplyInv'
<1>1. CASE Refuse
  BY <1>1 DEF Refuse, ApplyInv, ManifestInv, AppliedIsComplete, UnderWay, manifest
<1>2. CASE RollbackFails
  <2>1. status = "rollback" /\ status' = "rollbackFailed" /\ UNCHANGED manifest
    BY <1>2 DEF RollbackFails
  <2> QED BY <2>1, ApplyBackward
<1>3. CASE RollbackCompletes
  <2>1. /\ status = "rollback" /\ status' = "rolledBack" /\ UNCHANGED manifest
        /\ rollbackStack = <<>> /\ rollbackStack' = rollbackStack
        /\ disk' = disk /\ linked' = linked /\ at' = at /\ failedAt' = failedAt
    BY <1>3 DEF RollbackCompletes
  <2>2. /\ StackInv /\ UntouchedInv /\ PresentInv /\ LinkInv
        /\ BackwardInv /\ Stood = failedAt
    BY <2>1, Undone
  <2>3. /\ Active' = Active /\ StackInv' /\ initial' = initial /\ Stood' = failedAt
        /\ Entries' = Entries
    BY <2>1, <2>2, StackKept, ManifestFrame DEF Stood
  <2>4. UntouchedInv' /\ PresentInv' /\ LinkInv'
    BY <2>1, <2>2, <2>3 DEF UntouchedInv, PresentInv, LinkInv, Same
  <2>5. BackwardInv'
    BY <2>1, <2>2, <2>3 DEF BackwardInv
  <2> QED BY <2>1, <2>3, <2>4, <2>5, ApplyBackward
<1>4. CASE UNCHANGED vars
  <2>1. /\ UNCHANGED manifest /\ status' = status /\ rollbackStack' = rollbackStack
        /\ disk' = disk /\ linked' = linked /\ at' = at /\ failedAt' = failedAt
        /\ exposed' = exposed /\ index' = index
    BY <1>4 DEF vars
  <2>2. /\ Active' = Active /\ (StackInv => StackInv') /\ initial' = initial /\ Stood' = Stood
        /\ Entries' = Entries /\ Cur' = Cur /\ Target' = Target /\ Undo' = Undo
        /\ ((Needed(8))' <=> Needed(8)) /\ observed' = observed /\ platform' = platform
    BY <2>1, StackKept, ManifestFrame DEF Stood, Target, Undo
  <2>3. /\ (UntouchedInv => UntouchedInv') /\ (PresentInv => PresentInv')
        /\ (LinkInv => LinkInv') /\ (ManifestInv => ManifestInv')
        /\ (AppliedIsComplete => AppliedIsComplete') /\ (ReadyInv => ReadyInv')
    BY <2>1, <2>2 DEF UntouchedInv, PresentInv, LinkInv, Same, ManifestInv,
                      AppliedIsComplete, ReadyInv
  <2>4. BackwardInv => BackwardInv'
    BY <2>1, <2>2 DEF BackwardInv, UndoOf
  <2>5. DoneIsActive => DoneIsActive'
    BY <2>1, <2>2 DEF DoneIsActive
  <2>6. (at \in CallsOf(Cur))' <=> at \in CallsOf(Cur)
    BY <2>1, <2>2 DEF CallsOf, PublishCalls
  <2>7. ExposedInv => ExposedInv'
    BY <2>1, <2>2 DEF ExposedInv
  <2>8. ForwardInv => ForwardInv'
    BY <2>1, <2>2, <2>5, <2>6, <2>7 DEF ForwardInv
  <2> QED BY <2>1, <2>2, <2>3, <2>4, <2>8 DEF ApplyInv, UnderWay
<1> QED BY <1>1, <1>2, <1>3, <1>4

(* Before the execution nothing has happened.                              *)
LEMMA ApplyInitially == Init => ApplyInv
<1> SUFFICES ASSUME Init PROVE ApplyInv
  OBVIOUS
<1>1. ExecInv
  BY ExecInitially
<1> QED BY <1>1 DEF Init, ApplyInv, ManifestInv, AppliedIsComplete, ReadyInv, UnderWay

(* Every step preserves the invariant.                                     *)
LEMMA ApplyStep == ApplyInv /\ [Next]_vars => ApplyInv'
<1> SUFFICES ASSUME ApplyInv, [Next]_vars PROVE ApplyInv'
  OBVIOUS
<1>1. ExecInv'
  BY ExecStep DEF ApplyInv
<1> QED
  BY <1>1, BeginStep, QuietStep, ActivationStep, AdvanceStep, ApplyEnds, FailureStep,
     CleanTempStep, RemoveStep, RestoreStep, EndStep
  DEF Next, ExecuteForward, ExecuteRollback

(* The inductive invariant of an execution: the rollback stack is the list *)
(* of the actions that are done, in the reverse of the manifest's order,   *)
(* each with its effect on the disk, and no other path has changed.        *)
THEOREM ApplyInvariant == Spec => []ApplyInv
BY ApplyInitially, ApplyStep, PTL DEF Spec

(* A manifest that is reported as applied is: the launcher is the new one, *)
(* no backup, temporary file or open permission is left, and the operator's *)
(* configuration is as it was.                                             *)
THEOREM AppliedManifestsAreComplete == Spec => []AppliedIsComplete
<1>1. ApplyInv => AppliedIsComplete
  BY DEF ApplyInv
<1> QED BY <1>1, ApplyInvariant, PTL

(* When the failing action left nothing, a path is as it was once no entry *)
(* of the stack stands for it.                                             *)
LEMMA AsItWas ==
    ASSUME ApplyInv, status \in {"rollback", "rolledBack"},
           \A p \in Remains : disk[p] = initial[p]
    PROVE  /\ 2 \in Active \/ Same("configFile")
           /\ 4 \in Active \/ Same("binDir")
           /\ 6 \in Active \/ 7 \in Active \/ Same("launcher")
           /\ 6 \in Active \/ Same("backup")
           /\ Same("temp") /\ (linked = {} \/ at = "restoreUnlink")
<1>1. UntouchedInv /\ LinkInv /\ Stood = failedAt /\ ManifestInv
  BY Undone
<1>2. /\ failedAt = "write" => Same("configFile")
      /\ failedAt \in PublishCalls => Same("launcher") /\ Same("temp")
      /\ failedAt = "unlinkSource" => Same("launcher") /\ Same("backup")
  BY DEF Remains, PublishCalls, Same
<1>3. /\ 2 \in Active \/ Same("configFile")
      /\ 4 \in Active \/ Same("binDir")
      /\ 6 \in Active \/ 7 \in Active \/ Same("launcher")
      /\ 6 \in Active \/ Same("backup")
      /\ Same("temp")
  BY <1>1, <1>2 DEF UntouchedInv, PublishCalls
<1>4. linked = {} \/ at = "restoreUnlink"
  <2>1. initial["backup"] = "none"
    BY <1>1, InitialDisk
  <2>2. "temp" \in linked => FALSE
    BY <1>1, <1>2 DEF LinkInv, Same, PublishCalls
  <2>3. "backup" \in linked => at = "restoreUnlink"
    BY <1>1, <1>2, <2>1 DEF LinkInv, Same
  <2> QED BY <1>1, <2>2, <2>3 DEF LinkInv
<1> QED BY <1>3, <1>4

(* A rollback reported as completed has emptied its stack.                 *)
LEMMA CompletedIsUndone == ApplyInv => CompletedActionsUndone
<1> SUFFICES ASSUME ApplyInv, status = "rolledBack"
             PROVE  \A p \in Paths \ Remains : disk[p] = initial[p]
  BY DEF CompletedActionsUndone
<1>1. UntouchedInv /\ StackInv /\ Stood = failedAt
  BY Undone
<1>2. rollbackStack = <<>>
  BY Undone DEF BackwardInv
<1>3. Active = {}
  BY <1>1, <1>2, StackEmpty DEF StackInv
<1>4. /\ Same("configDir") /\ Same("installRoot") /\ Same("binDir")
      /\ failedAt = "write" \/ Same("configFile")
      /\ failedAt \in PublishCalls \cup {"unlinkSource"} \/ Same("launcher")
      /\ failedAt = "unlinkSource" \/ Same("backup")
      /\ failedAt \in PublishCalls \/ Same("temp")
  BY <1>1, <1>3 DEF UntouchedInv
<1>5. /\ failedAt = "write" => "configFile" \in Remains
      /\ failedAt \in PublishCalls => "launcher" \in Remains /\ "temp" \in Remains
      /\ failedAt = "unlinkSource" => "launcher" \in Remains /\ "backup" \in Remains
  BY DEF Remains, PublishCalls
<1> QED BY <1>4, <1>5 DEF Same, Paths

(* An entry finds what its action made, and a directory finds itself empty: *)
(* what was made within it had a higher rank, so it is gone.               *)
LEMMA EntriesFit == ApplyInv => RollbackFindsItsState
<1> SUFFICES ASSUME ApplyInv, status = "rollback", at = "undo", rollbackStack # <<>>,
                    exposed = {}, \A p \in Remains : disk[p] = initial[p]
             PROVE  Undoable
  BY DEF RollbackFindsItsState
<1>1. PresentInv /\ ManifestInv /\ TypeOK
  BY Undone
<1>2. PICK r \in Active : /\ Undo = UndoOf(r) /\ r \in {1, 2, 3, 4, 6, 7} /\ r \in Entries
                          /\ \A q \in Active : q <= r
  BY TopIs
<1>3. /\ 2 \in Active \/ Same("configFile")
      /\ 4 \in Active \/ Same("binDir")
      /\ 6 \in Active \/ 7 \in Active \/ Same("launcher")
      /\ 6 \in Active \/ Same("backup")
      /\ Same("temp") /\ linked = {}
  BY AsItWas
<1>4. Protected
  BY DEF Protected
<1>5. \A p \in Paths : Single(p)
  BY <1>3 DEF Single
<1>6. /\ initial["backup"] = "none"
      /\ initial["configDir"] = "none" => initial["configFile"] = "none"
      /\ initial[installRoot] = "none" => initial["binDir"] = "none"
      /\ initial["binDir"] = "none" =>
           initial["launcher"] = "none" /\ initial["temp"] = "none"
      /\ 1 \in Entries => initial["configDir"] = "none"
      /\ 3 \in Entries => initial["installRoot"] = "none" /\ installRoot = "installRoot"
      /\ 4 \in Entries => initial["binDir"] = "none"
  BY <1>1, InitialDisk
<1>7. \A p \in Paths :
         /\ "configDir" \in Parents(p) =>
              p = "configFile" \/ (installRoot = "configDir" /\
                                   p \in {"binDir", "launcher", "backup", "temp"})
         /\ "installRoot" \in Parents(p) => p \in {"binDir", "launcher", "backup", "temp"}
         /\ "binDir" \in Parents(p) => p \in {"launcher", "backup", "temp"}
  <2> TAKE p \in Paths
  <2>1. installRoot \in {"configDir", "installRoot"}
    BY DEF installRoot, RootOf
  <2> QED BY <2>1 DEF Parents, Paths
<1>8. CASE r \in {1, 3, 4}
  <2> DEFINE t == Undo.target
  <2>1. /\ Undo.kind = "remove_directory" /\ disk[t] = "dir"
        /\ \/ r = 1 /\ t = "configDir"
           \/ r = 3 /\ t = "installRoot"
           \/ r = 4 /\ t = "binDir"
    BY <1>1, <1>2, <1>8, UndoFields DEF PresentInv
  <2> HIDE DEF t
  <2>2. 6 \notin Active /\ 7 \notin Active /\ (r # 4 => 4 \notin Active)
        /\ (r = 1 => 2 \notin Active)
    BY <1>2, <1>8
  <2>3. r = 1 => disk["configFile"] = "none"
    BY <1>2, <1>3, <1>6, <2>2 DEF Same
  <2>4. initial["binDir"] = "none" =>
           disk["launcher"] = "none" /\ disk["backup"] = "none" /\ disk["temp"] = "none"
    BY <1>3, <1>6, <2>2 DEF Same
  <2>5. initial["binDir"] = "none" /\ r # 4 => disk["binDir"] = "none"
    BY <1>3, <2>2 DEF Same
  <2>6. \A p \in Paths : t \in Parents(p) => disk[p] = "none"
    <3>1. CASE r = 1
      BY <1>2, <1>6, <1>7, <2>1, <2>3, <2>4, <2>5, <3>1
    <3>2. CASE r = 3
      BY <1>2, <1>6, <1>7, <2>1, <2>4, <2>5, <3>2
    <3>3. CASE r = 4
      BY <1>2, <1>6, <1>7, <2>1, <2>4, <3>3
    <3> QED BY <1>8, <3>1, <3>2, <3>3
  <2> QED BY <1>4, <2>1, <2>6 DEF Undoable, Empty, t
<1>9. CASE r = 2
  <2>1. Undo.kind = "remove_file" /\ Undo.target = "configFile" /\ disk["configFile"] = "config"
    BY <1>1, <1>2, <1>9, UndoFields DEF PresentInv
  <2> QED BY <1>4, <1>5, <2>1 DEF Undoable, Paths
<1>10. CASE r = 6
  <2>1. /\ Undo.kind = "restore" /\ disk["backup"] = "old"
        /\ disk["launcher"] \in {"none", "new"}
    BY <1>1, <1>2, <1>10, UndoFields DEF PresentInv
  <2> QED BY <1>4, <1>5, <2>1 DEF Undoable, Paths
<1>11. CASE r = 7
  <2>1. Undo.kind = "remove_file" /\ Undo.target = "launcher" /\ disk["launcher"] = "new"
    BY <1>1, <1>2, <1>11, UndoFields DEF PresentInv
  <2> QED BY <1>4, <1>5, <2>1 DEF Undoable, Paths
<1> QED BY <1>2, <1>8, <1>9, <1>10, <1>11

(* The rollback as a whole: its entries never stand in each other's way,   *)
(* and what it reports as completed has undone every completed action.     *)
THEOREM RollbacksAreSound == Spec => []RollbackIsSound
<1>1. ApplyInv => RollbackIsSound
  BY CompletedIsUndone, EntriesFit DEF RollbackIsSound
<1> QED BY <1>1, ApplyInvariant, PTL

-----------------------------------------------------------------------------
(* The helper session.                                                     *)

(* The stages before the helper is spawned.                                *)
Before == {"check", "open", "write", "reopen", "unlink", "closeWriter", "spawn"}

(* The stages of the cleanup.                                              *)
After == {"cleanWriter", "cleanReader", "cleanName", "over"}

(* The stages of a helper session.                                         *)
Stages == Before \cup {"waiting"} \cup After

(* Why a session was aborted.                                              *)
AbortCodes == {"none", "worker_timeout", "worker_failed", "invalid_worker_output"}

(* What a session reports.                                                 *)
SessionResults == AbortCodes \cup
    {"invalid_request", "request_binding_mismatch", "unsupported_platform",
     "launcher_handle_failed", "transfer_failed", "probe_start_failed",
     "worker_start_failed", "process_output_too_large", "probe_failed",
     "client_failed", "invalid_probe_output", "unexpected_authorization_result",
     "session_timeout", "same_principal_rejected", "verified"}

(* The states of the client of the pipe.                                   *)
Clients == {"none", "connecting", "connected", "acked", "retry", "lost",
            "ok", "failed", "aborted"}

(* The types of a session.                                                 *)
HelperTypes ==
    /\ asked \in Asked
    /\ hs \in [at : Stages, name : BOOLEAN,
               content : Launchers \cup {"empty", "part"},
               writer : BOOLEAN, reader : BOOLEAN, stuck : BOOLEAN,
               client : Clients, late : BOOLEAN, abort : AbortCodes,
               result : SessionResults]
    /\ helper \in [at : {"none", "starting", "listening", "request", "responded",
                         "failed", "exited"},
                   read : Launchers \cup {"empty", "part"},
                   out : {"none", "facts", "error", "garbage"},
                   facts : Facts, flood : BOOLEAN, killed : BOOLEAN]

\* Which handles can be open at which await.
HandlesInv ==
    /\ hs.at \in {"check", "open", "spawn", "waiting", "cleanReader", "cleanName", "over"}
          => ~hs.writer
    /\ hs.at \in {"check", "open", "write", "reopen", "cleanName", "over"} => ~hs.reader
    /\ hs.at \in {"check", "open"} => ~hs.name
    /\ hs.at = "over" => (hs.name => hs.stuck)

\* Before the spawn there is nobody; after the wait nobody is left that was not
\* settled or killed.
PeersInv ==
    /\ hs.at \in Before => hs.client = "none" /\ helper.at = "none"
    /\ hs.at \in After => /\ hs.client = "none" \/ ClientSettled
                          /\ HelperAlive => helper.killed
    /\ hs.at = "waiting" => hs.client # "aborted"
    /\ ~Pipe => hs.client = "none"
    /\ hs.abort # "none" => helper.killed

\* Past the checks the request names the launcher at hand; a helper that says
\* so has read it.
EvidenceInv ==
    /\ hs.at \in (Before \ {"check"}) \cup {"waiting"} => asked.named = asked.bytes
    /\ helper.at \in {"exited", "responded"} /\ helper.out # "error" /\ helper.out # "garbage"
          => helper.read = asked.named
    /\ helper.at = "exited" <=> helper.out # "none"
    /\ hs.at \in Before \cup {"waiting"} => hs.result = "none"

(* The inductive invariant.                                                *)
HelperInv == HelperTypes /\ HandlesInv /\ PeersInv /\ EvidenceInv /\ SuccessIsEarned

\* Membership of the names the steps use.
LEMMA StagesAre ==
    /\ {"check", "open", "write", "reopen", "unlink", "closeWriter", "spawn", "waiting",
        "cleanWriter", "cleanReader", "cleanName", "over"} \subseteq Stages
    /\ {"connecting", "connected", "acked", "retry", "lost", "ok", "failed", "aborted"}
          \subseteq Clients
BY DEF Stages, Before, After, Clients

(* The results of the single paths are results.                            *)
LEMMA ResultsAre ==
    /\ {"worker_timeout", "worker_failed", "invalid_worker_output"} \subseteq AbortCodes
    /\ AbortCodes \subseteq SessionResults
    /\ {"invalid_request", "request_binding_mismatch", "unsupported_platform",
        "launcher_handle_failed", "transfer_failed", "probe_start_failed",
        "worker_start_failed", "process_output_too_large", "probe_failed",
        "client_failed", "invalid_probe_output", "unexpected_authorization_result",
        "session_timeout", "same_principal_rejected", "verified"} \subseteq SessionResults
    /\ "verified" \notin AbortCodes /\ "same_principal_rejected" \notin AbortCodes
BY DEF AbortCodes, SessionResults

(* The pipe's one good verdict: the helper ended well, its client got its  *)
(* ok, and the two are verified to be the same user.                       *)
LEMMA GoodVerdict ==
    ASSUME HelperTypes, PipeVerdict \in {"verified", "same_principal_rejected"}
    PROVE  /\ helper.at # "failed" /\ helper.out \notin {"error", "garbage"}
           /\ hs.client # "failed" /\ helper.facts.same
<1>1. PICK code : code = authorizeHelperRequest(asked,
                             evaluateWindowsHelperPeerEvidence(helper.facts))
  OBVIOUS
<1>2. /\ helper.at # "failed" /\ helper.out \notin {"error", "garbage"}
      /\ hs.client # "failed" /\ code = "same_principal_rejected"
  BY <1>1 DEF PipeVerdict
<1>3. helper.facts.same
  BY <1>1, <1>2 DEF authorizeHelperRequest, evaluateWindowsHelperPeerEvidence, HelperTypes, Facts
<1> QED
  BY <1>2, <1>3

\* The parent's record after a step that leaves helper and client alone.
FieldsAre(s, n, c, w, r, k, v) ==
    /\ hs'.at = s /\ hs'.name = n /\ hs'.content = c /\ hs'.writer = w
    /\ hs'.reader = r /\ hs'.stuck = k /\ hs'.result = v
    /\ hs'.client = hs.client /\ hs'.abort = hs.abort
    /\ asked' = asked /\ helper' = helper
    /\ HelperTypes'

(* A step that ends a stage with a result.                                 *)
LEMMA EndsIs ==
    ASSUME HelperTypes, NEW s \in Stages, NEW c \in Launchers \cup {"empty", "part"},
           NEW v \in SessionResults, UNCHANGED <<asked, helper>>,
           \/ hs' = [hs EXCEPT !.at = s, !.content = c, !.result = v]
           \/ hs' = [hs EXCEPT !.at = s, !.result = v] /\ c = hs.content
    PROVE  FieldsAre(s, hs.name, c, hs.writer, hs.reader, hs.stuck, v)
<1>1. hs' = [at |-> s, name |-> hs.name, content |-> c, writer |-> hs.writer,
             reader |-> hs.reader, stuck |-> hs.stuck, client |-> hs.client,
             late |-> hs.late, abort |-> hs.abort, result |-> v]
  BY DEF HelperTypes
<1>2. hs'.at = s /\ hs'.name = hs.name /\ hs'.content = c /\ hs'.writer = hs.writer
      /\ hs'.reader = hs.reader /\ hs'.stuck = hs.stuck /\ hs'.result = v
      /\ hs'.client = hs.client /\ hs'.abort = hs.abort
  BY <1>1
<1>3. HelperTypes'
  BY <1>1 DEF HelperTypes
<1> QED BY <1>2, <1>3 DEF FieldsAre

(* The cleanup closes the writer.                                          *)
LEMMA WriterDropped ==
    ASSUME HelperTypes, NEW s \in Stages, UNCHANGED <<asked, helper>>,
           NEW w \in BOOLEAN,
           hs' = [hs EXCEPT !.at = s, !.writer = w]
    PROVE  FieldsAre(s, hs.name, hs.content, w, hs.reader, hs.stuck, hs.result)
<1>1. hs' = [at |-> s, name |-> hs.name, content |-> hs.content, writer |-> w,
             reader |-> hs.reader, stuck |-> hs.stuck, client |-> hs.client,
             late |-> hs.late, abort |-> hs.abort, result |-> hs.result]
  BY DEF HelperTypes
<1>2. hs'.at = s /\ hs'.name = hs.name /\ hs'.content = hs.content /\ hs'.writer = w
      /\ hs'.reader = hs.reader /\ hs'.stuck = hs.stuck /\ hs'.result = hs.result
      /\ hs'.client = hs.client /\ hs'.abort = hs.abort
  BY <1>1
<1>3. HelperTypes'
  BY <1>1 DEF HelperTypes
<1> QED BY <1>2, <1>3 DEF FieldsAre

(* The cleanup closes the reader.                                          *)
LEMMA ReaderDropped ==
    ASSUME HelperTypes, NEW s \in Stages, UNCHANGED <<asked, helper>>,
           NEW r \in BOOLEAN,
           hs' = [hs EXCEPT !.at = s, !.reader = r]
    PROVE  FieldsAre(s, hs.name, hs.content, hs.writer, r, hs.stuck, hs.result)
<1>1. hs' = [at |-> s, name |-> hs.name, content |-> hs.content, writer |-> hs.writer,
             reader |-> r, stuck |-> hs.stuck, client |-> hs.client,
             late |-> hs.late, abort |-> hs.abort, result |-> hs.result]
  BY DEF HelperTypes
<1>2. hs'.at = s /\ hs'.name = hs.name /\ hs'.content = hs.content /\ hs'.writer = hs.writer
      /\ hs'.reader = r /\ hs'.stuck = hs.stuck /\ hs'.result = hs.result
      /\ hs'.client = hs.client /\ hs'.abort = hs.abort
  BY <1>1
<1>3. HelperTypes'
  BY <1>1 DEF HelperTypes
<1> QED BY <1>2, <1>3 DEF FieldsAre

(* The cleanup removes the pipe's name, or finds that it cannot.           *)
LEMMA NameDropped ==
    ASSUME HelperTypes, NEW s \in Stages, UNCHANGED <<asked, helper>>,
           NEW n \in BOOLEAN, NEW k \in BOOLEAN,
           hs' = [hs EXCEPT !.at = s, !.name = n, !.stuck = k]
    PROVE  FieldsAre(s, n, hs.content, hs.writer, hs.reader, k, hs.result)
<1>1. hs' = [at |-> s, name |-> n, content |-> hs.content, writer |-> hs.writer,
             reader |-> hs.reader, stuck |-> k, client |-> hs.client,
             late |-> hs.late, abort |-> hs.abort, result |-> hs.result]
  BY DEF HelperTypes
<1>2. hs'.at = s /\ hs'.name = n /\ hs'.content = hs.content /\ hs'.writer = hs.writer
      /\ hs'.reader = hs.reader /\ hs'.stuck = k /\ hs'.result = hs.result
      /\ hs'.client = hs.client /\ hs'.abort = hs.abort
  BY <1>1
<1>3. HelperTypes'
  BY <1>1 DEF HelperTypes
<1> QED BY <1>2, <1>3 DEF FieldsAre

(* One case per action of the session, the helper and the client.          *)
LEMMA HelperInductive == HelperInv /\ [SessionNext]_helperVars => HelperInv'
<1> SUFFICES ASSUME HelperInv, [SessionNext]_helperVars PROVE HelperInv'
  OBVIOUS
<1>0. HelperTypes /\ HandlesInv /\ PeersInv /\ EvidenceInv /\ SuccessIsEarned
  BY DEF HelperInv
<1> USE DEF At, Pipe
<1>1. CASE RequestChecked
  <2>1. HelperTypes'
    <3>1. UNCHANGED <<asked, helper>> /\ {"over", "open"} \subseteq Stages
          /\ hs.content \in Launchers \cup {"empty", "part"}
      BY <1>0, <1>1, StagesAre DEF RequestChecked, HelperTypes
    <3>2. ASSUME NEW v \in SessionResults, hs' = Over(v)
          PROVE  HelperTypes'
      BY <1>0, <3>1, <3>2, EndsIs DEF Over, FieldsAre
    <3>3. CASE hs' = [hs EXCEPT !.at = "open"]
      BY <1>0, <3>1, <3>3 DEF HelperTypes
    <3>4. \/ \E v \in SessionResults : hs' = Over(v)
          \/ hs' = [hs EXCEPT !.at = "open"]
      BY <1>1, ResultsAre DEF RequestChecked
    <3> QED BY <3>2, <3>3, <3>4
  <2>2. HandlesInv'
    BY <1>0, <1>1 DEF RequestChecked, Over, verifyRequestBinding, parseHelperRequest, HelperTypes, HandlesInv
  <2>3. PeersInv'
    BY <1>0, <1>1 DEF RequestChecked, Over, verifyRequestBinding, parseHelperRequest, HelperTypes, PeersInv, Before, After, ClientSettled, HelperAlive
  <2>4. EvidenceInv'
    BY <1>0, <1>1 DEF RequestChecked, Over, verifyRequestBinding, parseHelperRequest, HelperTypes, EvidenceInv, PeersInv, Before, HelperAlive
  <2>5. SuccessIsEarned'
    BY <1>0, <1>1 DEF RequestChecked, Over, verifyRequestBinding, parseHelperRequest, HelperTypes, EvidenceInv, PeersInv, SuccessIsEarned, Before, ClientSettled
  <2> QED
    BY <2>1, <2>2, <2>3, <2>4, <2>5 DEF HelperInv
<1>2. CASE WriterOpened
  <2>1. HelperTypes'
    BY <1>0, <1>2, StagesAre, ResultsAre DEF WriterOpened, HelperTypes
  <2>2. HandlesInv'
    BY <1>0, <1>2 DEF WriterOpened, HelperTypes, HandlesInv
  <2>3. PeersInv'
    BY <1>0, <1>2 DEF WriterOpened, HelperTypes, PeersInv, Before, After, ClientSettled, HelperAlive
  <2>4. EvidenceInv'
    BY <1>0, <1>2 DEF WriterOpened, HelperTypes, EvidenceInv, PeersInv, Before, HelperAlive
  <2>5. SuccessIsEarned'
    BY <1>0, <1>2 DEF WriterOpened, HelperTypes, EvidenceInv, PeersInv, SuccessIsEarned, Before, ClientSettled
  <2> QED
    BY <2>1, <2>2, <2>3, <2>4, <2>5 DEF HelperInv
<1>3. CASE LauncherWritten
  <2>1. HelperTypes'
    <3>1. asked.bytes \in Launchers
      BY <1>0 DEF HelperTypes, Asked
    <3> QED
      BY <1>0, <1>3, <3>1, StagesAre DEF LauncherWritten, HelperTypes
  <2>2. HandlesInv'
    BY <1>0, <1>3 DEF LauncherWritten, HelperTypes, HandlesInv
  <2>3. PeersInv'
    BY <1>0, <1>3 DEF LauncherWritten, HelperTypes, PeersInv, Before, After, ClientSettled, HelperAlive
  <2>4. EvidenceInv'
    BY <1>0, <1>3 DEF LauncherWritten, HelperTypes, EvidenceInv, PeersInv, Before, HelperAlive
  <2>5. SuccessIsEarned'
    BY <1>0, <1>3 DEF LauncherWritten, HelperTypes, EvidenceInv, PeersInv, SuccessIsEarned, Before, ClientSettled
  <2> QED
    BY <2>1, <2>2, <2>3, <2>4, <2>5 DEF HelperInv
<1>4. CASE ReaderOpened
  <2>1. HelperTypes'
    BY <1>0, <1>4, StagesAre, ResultsAre DEF ReaderOpened, HelperTypes
  <2>2. HandlesInv'
    BY <1>0, <1>4 DEF ReaderOpened, HelperTypes, HandlesInv
  <2>3. PeersInv'
    BY <1>0, <1>4 DEF ReaderOpened, HelperTypes, PeersInv, Before, After, ClientSettled, HelperAlive
  <2>4. EvidenceInv'
    BY <1>0, <1>4 DEF ReaderOpened, HelperTypes, EvidenceInv, PeersInv, Before, HelperAlive
  <2>5. SuccessIsEarned'
    BY <1>0, <1>4 DEF ReaderOpened, HelperTypes, EvidenceInv, PeersInv, SuccessIsEarned, Before, ClientSettled
  <2> QED
    BY <2>1, <2>2, <2>3, <2>4, <2>5 DEF HelperInv
<1>5. CASE NameUnlinked
  <2>1. HelperTypes'
    BY <1>0, <1>5, StagesAre, ResultsAre DEF NameUnlinked, HelperTypes
  <2>2. HandlesInv'
    BY <1>0, <1>5 DEF NameUnlinked, HelperTypes, HandlesInv
  <2>3. PeersInv'
    BY <1>0, <1>5 DEF NameUnlinked, HelperTypes, PeersInv, Before, After, ClientSettled, HelperAlive
  <2>4. EvidenceInv'
    BY <1>0, <1>5 DEF NameUnlinked, HelperTypes, EvidenceInv, PeersInv, Before, HelperAlive
  <2>5. SuccessIsEarned'
    BY <1>0, <1>5 DEF NameUnlinked, HelperTypes, EvidenceInv, PeersInv, SuccessIsEarned, Before, ClientSettled
  <2> QED
    BY <2>1, <2>2, <2>3, <2>4, <2>5 DEF HelperInv
<1>6. CASE WriterClosed
  <2>1. HelperTypes'
    BY <1>0, <1>6, StagesAre, ResultsAre DEF WriterClosed, HelperTypes
  <2>2. HandlesInv'
    BY <1>0, <1>6 DEF WriterClosed, HelperTypes, HandlesInv
  <2>3. PeersInv'
    BY <1>0, <1>6 DEF WriterClosed, HelperTypes, PeersInv, Before, After, ClientSettled, HelperAlive
  <2>4. EvidenceInv'
    BY <1>0, <1>6 DEF WriterClosed, HelperTypes, EvidenceInv, PeersInv, Before, HelperAlive
  <2>5. SuccessIsEarned'
    BY <1>0, <1>6 DEF WriterClosed, HelperTypes, EvidenceInv, PeersInv, SuccessIsEarned, Before, ClientSettled
  <2> QED
    BY <2>1, <2>2, <2>3, <2>4, <2>5 DEF HelperInv
<1>7. CASE HandleFails
  <2>0. PICK c \in Launchers \cup {"empty", "part"} :
           c = IF hs.at = "write" THEN "part" ELSE hs.content
    BY <1>0 DEF HelperTypes
  <2>1. PICK v \in {"launcher_handle_failed", "transfer_failed"} :
           FieldsAre("cleanWriter", hs.name, c, hs.writer, hs.reader, hs.stuck, v)
    <3>1. PICK v \in {"launcher_handle_failed", "transfer_failed"} :
             v = IF Pipe THEN "launcher_handle_failed" ELSE "transfer_failed"
      OBVIOUS
    <3>2. v \in SessionResults /\ "cleanWriter" \in Stages
      BY StagesAre, ResultsAre
    <3>3. hs' = [hs EXCEPT !.at = "cleanWriter", !.content = c, !.result = v]
      BY <1>7, <2>0, <3>1 DEF HandleFails
    <3>4. UNCHANGED <<asked, helper>>
      BY <1>7 DEF HandleFails
    <3> QED BY <1>0, <3>2, <3>3, <3>4, EndsIs
  <2>6. hs.at \in Before \ {"check"}
    BY <1>7 DEF HandleFails, Before
  <2>2. HandlesInv'
    BY <1>0, <2>1, <2>6 DEF FieldsAre, HandlesInv
  <2>3. PeersInv'
    BY <1>0, <2>1, <2>6 DEF FieldsAre, PeersInv, Before, After, ClientSettled, HelperAlive
  <2>4. EvidenceInv'
    BY <1>0, <2>1 DEF FieldsAre, EvidenceInv, Before
  <2>5. SuccessIsEarned'
    BY <2>1 DEF FieldsAre, SuccessIsEarned
  <2> QED
    BY <2>1, <2>2, <2>3, <2>4, <2>5 DEF HelperInv, FieldsAre
<1>8. CASE SpawnThrows
  <2>1. HelperTypes'
    <3>1. PICK v \in SessionResults : hs' = [hs EXCEPT !.at = "cleanWriter", !.result = v]
      BY <1>8, ResultsAre DEF SpawnThrows
    <3>2. "cleanWriter" \in Stages /\ UNCHANGED <<asked, helper>>
          /\ hs.content \in Launchers \cup {"empty", "part"}
      BY <1>0, <1>8, StagesAre DEF SpawnThrows, HelperTypes
    <3> QED BY <1>0, <3>1, <3>2, EndsIs DEF FieldsAre
  <2>2. HandlesInv'
    BY <1>0, <1>8 DEF SpawnThrows, HelperTypes, HandlesInv
  <2>3. PeersInv'
    BY <1>0, <1>8 DEF SpawnThrows, HelperTypes, PeersInv, Before, After, ClientSettled, HelperAlive
  <2>4. EvidenceInv'
    BY <1>0, <1>8 DEF SpawnThrows, HelperTypes, EvidenceInv, PeersInv, Before, HelperAlive
  <2>5. SuccessIsEarned'
    BY <1>0, <1>8 DEF SpawnThrows, HelperTypes, EvidenceInv, PeersInv, SuccessIsEarned, Before, ClientSettled
  <2> QED
    BY <2>1, <2>2, <2>3, <2>4, <2>5 DEF HelperInv
<1>9. CASE HelperSpawned
  <2>1. HelperTypes'
    BY <1>0, <1>9, StagesAre, ResultsAre DEF HelperSpawned, HelperTypes
  <2>2. HandlesInv'
    BY <1>0, <1>9 DEF HelperSpawned, HelperTypes, HandlesInv
  <2>3. PeersInv'
    BY <1>0, <1>9 DEF HelperSpawned, HelperTypes, PeersInv, Before, After, ClientSettled, HelperAlive
  <2>4. EvidenceInv'
    BY <1>0, <1>9 DEF HelperSpawned, HelperTypes, EvidenceInv, PeersInv, Before, HelperAlive
  <2>5. SuccessIsEarned'
    BY <1>0, <1>9 DEF HelperSpawned, HelperTypes, EvidenceInv, PeersInv, SuccessIsEarned, Before, ClientSettled
  <2> QED
    BY <2>1, <2>2, <2>3, <2>4, <2>5 DEF HelperInv
<1>10. CASE SpawnErrors
  <2>1. HelperTypes'
    BY <1>0, <1>10, StagesAre, ResultsAre DEF SpawnErrors, HelperTypes
  <2>2. HandlesInv'
    BY <1>0, <1>10 DEF SpawnErrors, HelperTypes, HandlesInv
  <2>3. PeersInv'
    BY <1>0, <1>10 DEF SpawnErrors, HelperTypes, PeersInv, Before, After, ClientSettled, HelperAlive
  <2>4. EvidenceInv'
    BY <1>0, <1>10 DEF SpawnErrors, HelperTypes, EvidenceInv, PeersInv, Before, HelperAlive
  <2>5. SuccessIsEarned'
    BY <1>0, <1>10 DEF SpawnErrors, HelperTypes, EvidenceInv, PeersInv, SuccessIsEarned, Before, ClientSettled
  <2> QED
    BY <2>1, <2>2, <2>3, <2>4, <2>5 DEF HelperInv
<1>11. CASE HelperListens
  <2>1. HelperTypes'
    BY <1>0, <1>11, StagesAre, ResultsAre DEF HelperListens, HelperTypes
  <2>2. HandlesInv'
    BY <1>0, <1>11 DEF HelperListens, HelperTypes, HandlesInv
  <2>3. PeersInv'
    BY <1>0, <1>11 DEF HelperListens, HelperTypes, PeersInv, Before, After, ClientSettled, HelperAlive
  <2>4. EvidenceInv'
    BY <1>0, <1>11 DEF HelperListens, HelperTypes, EvidenceInv, PeersInv, Before, HelperAlive
  <2>5. SuccessIsEarned'
    BY <1>0, <1>11 DEF HelperListens, HelperTypes, EvidenceInv, PeersInv, SuccessIsEarned, Before, ClientSettled
  <2> QED
    BY <2>1, <2>2, <2>3, <2>4, <2>5 DEF HelperInv
<1>12. CASE HelperVerifies
  <2>1. HelperTypes'
    BY <1>0, <1>12, StagesAre, ResultsAre DEF HelperVerifies, HelperTypes
  <2>2. HandlesInv'
    BY <1>0, <1>12 DEF HelperVerifies, HelperTypes, HandlesInv
  <2>3. PeersInv'
    BY <1>0, <1>12 DEF HelperVerifies, HelperTypes, PeersInv, Before, After, ClientSettled, HelperAlive
  <2>4. EvidenceInv'
    BY <1>0, <1>12 DEF HelperVerifies, HelperTypes, EvidenceInv, PeersInv, Before, HelperAlive
  <2>5. SuccessIsEarned'
    BY <1>0, <1>12 DEF HelperVerifies, HelperTypes, EvidenceInv, PeersInv, SuccessIsEarned, Before, ClientSettled
  <2> QED
    BY <2>1, <2>2, <2>3, <2>4, <2>5 DEF HelperInv
<1>13. CASE HelperReports
  <2>1. HelperTypes'
    BY <1>0, <1>13, StagesAre, ResultsAre DEF HelperReports, HelperTypes
  <2>2. HandlesInv'
    BY <1>0, <1>13 DEF HelperReports, HelperTypes, HandlesInv
  <2>3. PeersInv'
    BY <1>0, <1>13 DEF HelperReports, HelperTypes, PeersInv, Before, After, ClientSettled, HelperAlive
  <2>4. EvidenceInv'
    <3>1. PICK f \in Facts : helper' = [helper EXCEPT !.at = "exited", !.out = "facts",
                                                     !.facts = f]
      BY <1>13 DEF HelperReports
    <3>2. /\ helper'.at = "exited" /\ helper'.out = "facts" /\ helper'.read = helper.read
          /\ UNCHANGED <<asked, hs>>
      BY <1>0, <1>13, <3>1 DEF HelperReports, HelperTypes
    <3>3. helper.read = asked.named
      BY <1>0, <1>13 DEF HelperReports, HelperTypes, EvidenceInv
    <3> QED
      BY <1>0, <3>2, <3>3 DEF EvidenceInv
  <2>5. SuccessIsEarned'
    BY <1>0, <1>13 DEF HelperReports, HelperTypes, EvidenceInv, PeersInv, SuccessIsEarned, Before, ClientSettled
  <2> QED
    BY <2>1, <2>2, <2>3, <2>4, <2>5 DEF HelperInv
<1>14. CASE WorkerReports
  <2>1. HelperTypes'
    BY <1>0, <1>14, StagesAre, ResultsAre DEF WorkerReports, HelperTypes
  <2>2. HandlesInv'
    BY <1>0, <1>14 DEF WorkerReports, HelperTypes, HandlesInv
  <2>3. PeersInv'
    BY <1>0, <1>14 DEF WorkerReports, HelperTypes, PeersInv, Before, After, ClientSettled, HelperAlive
  <2>4. EvidenceInv'
    BY <1>0, <1>14 DEF WorkerReports, HelperTypes, EvidenceInv, PeersInv, Before, HelperAlive
  <2>5. SuccessIsEarned'
    BY <1>0, <1>14 DEF WorkerReports, HelperTypes, EvidenceInv, PeersInv, SuccessIsEarned, Before, ClientSettled
  <2> QED
    BY <2>1, <2>2, <2>3, <2>4, <2>5 DEF HelperInv
<1>15. CASE HelperDies
  <2>1. HelperTypes'
    <3>1. PICK out \in {"error", "garbage"} :
             helper' = [helper EXCEPT !.at = "exited", !.out = out]
      BY <1>15 DEF HelperDies
    <3>2. asked' = asked /\ hs' = hs
      BY <1>15 DEF HelperDies
    <3> QED BY <1>0, <3>1, <3>2 DEF HelperTypes
  <2>2. HandlesInv'
    BY <1>0, <1>15 DEF HelperDies, HelperTypes, HandlesInv
  <2>3. PeersInv'
    BY <1>0, <1>15 DEF HelperDies, HelperTypes, PeersInv, Before, After, ClientSettled, HelperAlive
  <2>4. EvidenceInv'
    BY <1>0, <1>15 DEF HelperDies, HelperTypes, EvidenceInv, PeersInv, Before, HelperAlive
  <2>5. SuccessIsEarned'
    BY <1>0, <1>15 DEF HelperDies, HelperTypes, EvidenceInv, PeersInv, SuccessIsEarned, Before, ClientSettled
  <2> QED
    BY <2>1, <2>2, <2>3, <2>4, <2>5 DEF HelperInv
<1>16. CASE HelperFloods
  <2>1. HelperTypes'
    BY <1>0, <1>16, StagesAre, ResultsAre DEF HelperFloods, HelperTypes
  <2>2. HandlesInv'
    BY <1>0, <1>16 DEF HelperFloods, HelperTypes, HandlesInv
  <2>3. PeersInv'
    BY <1>0, <1>16 DEF HelperFloods, HelperTypes, PeersInv, Before, After, ClientSettled, HelperAlive
  <2>4. EvidenceInv'
    BY <1>0, <1>16 DEF HelperFloods, HelperTypes, EvidenceInv, PeersInv, Before, HelperAlive
  <2>5. SuccessIsEarned'
    BY <1>0, <1>16 DEF HelperFloods, HelperTypes, EvidenceInv, PeersInv, SuccessIsEarned, Before, ClientSettled
  <2> QED
    BY <2>1, <2>2, <2>3, <2>4, <2>5 DEF HelperInv
<1>17. CASE ClientConnects
  <2>1. HelperTypes'
    BY <1>0, <1>17, StagesAre, ResultsAre DEF ClientConnects, HelperTypes
  <2>2. HandlesInv'
    BY <1>0, <1>17 DEF ClientConnects, HelperTypes, HandlesInv
  <2>3. PeersInv'
    BY <1>0, <1>17 DEF ClientConnects, HelperTypes, PeersInv, Before, After, ClientSettled, HelperAlive
  <2>4. EvidenceInv'
    BY <1>0, <1>17 DEF ClientConnects, HelperTypes, EvidenceInv, PeersInv, Before, HelperAlive
  <2>5. SuccessIsEarned'
    BY <1>0, <1>17 DEF ClientConnects, HelperTypes, EvidenceInv, PeersInv, SuccessIsEarned, Before, ClientSettled
  <2> QED
    BY <2>1, <2>2, <2>3, <2>4, <2>5 DEF HelperInv
<1>18. CASE ClientErrors
  <2>1. HelperTypes'
    BY <1>0, <1>18, StagesAre, ResultsAre DEF ClientErrors, ClientTo, HelperTypes
  <2>2. HandlesInv'
    BY <1>0, <1>18 DEF ClientErrors, ClientTo, HelperTypes, HandlesInv
  <2>3. PeersInv'
    BY <1>0, <1>18 DEF ClientErrors, ClientTo, HelperTypes, PeersInv, Before, After, ClientSettled, HelperAlive
  <2>4. EvidenceInv'
    BY <1>0, <1>18 DEF ClientErrors, ClientTo, HelperTypes, EvidenceInv, PeersInv, Before, HelperAlive
  <2>5. SuccessIsEarned'
    BY <1>0, <1>18 DEF ClientErrors, ClientTo, HelperTypes, EvidenceInv, PeersInv, SuccessIsEarned, Before, ClientSettled
  <2> QED
    BY <2>1, <2>2, <2>3, <2>4, <2>5 DEF HelperInv
<1>19. CASE ClientRetries
  <2>1. HelperTypes'
    BY <1>0, <1>19, StagesAre, ResultsAre DEF ClientRetries, ClientTo, HelperTypes
  <2>2. HandlesInv'
    BY <1>0, <1>19 DEF ClientRetries, ClientTo, HelperTypes, HandlesInv
  <2>3. PeersInv'
    BY <1>0, <1>19 DEF ClientRetries, ClientTo, HelperTypes, PeersInv, Before, After, ClientSettled, HelperAlive
  <2>4. EvidenceInv'
    BY <1>0, <1>19 DEF ClientRetries, ClientTo, HelperTypes, EvidenceInv, PeersInv, Before, HelperAlive
  <2>5. SuccessIsEarned'
    BY <1>0, <1>19 DEF ClientRetries, ClientTo, HelperTypes, EvidenceInv, PeersInv, SuccessIsEarned, Before, ClientSettled
  <2> QED
    BY <2>1, <2>2, <2>3, <2>4, <2>5 DEF HelperInv
<1>20. CASE ClientIdles
  <2>1. HelperTypes'
    BY <1>0, <1>20, StagesAre, ResultsAre DEF ClientIdles, ClientTo, HelperTypes
  <2>2. HandlesInv'
    BY <1>0, <1>20 DEF ClientIdles, ClientTo, HelperTypes, HandlesInv
  <2>3. PeersInv'
    BY <1>0, <1>20 DEF ClientIdles, ClientTo, HelperTypes, PeersInv, Before, After, ClientSettled, HelperAlive
  <2>4. EvidenceInv'
    BY <1>0, <1>20 DEF ClientIdles, ClientTo, HelperTypes, EvidenceInv, PeersInv, Before, HelperAlive
  <2>5. SuccessIsEarned'
    BY <1>0, <1>20 DEF ClientIdles, ClientTo, HelperTypes, EvidenceInv, PeersInv, SuccessIsEarned, Before, ClientSettled
  <2> QED
    BY <2>1, <2>2, <2>3, <2>4, <2>5 DEF HelperInv
<1>21. CASE ClientEnds
  <2>1. HelperTypes'
    BY <1>0, <1>21, StagesAre, ResultsAre DEF ClientEnds, ClientTo, HelperTypes
  <2>2. HandlesInv'
    BY <1>0, <1>21 DEF ClientEnds, ClientTo, HelperTypes, HandlesInv
  <2>3. PeersInv'
    BY <1>0, <1>21 DEF ClientEnds, ClientTo, HelperTypes, PeersInv, Before, After, ClientSettled, HelperAlive
  <2>4. EvidenceInv'
    BY <1>0, <1>21 DEF ClientEnds, ClientTo, HelperTypes, EvidenceInv, PeersInv, Before, HelperAlive
  <2>5. SuccessIsEarned'
    BY <1>0, <1>21 DEF ClientEnds, ClientTo, HelperTypes, EvidenceInv, PeersInv, SuccessIsEarned, Before, ClientSettled
  <2> QED
    BY <2>1, <2>2, <2>3, <2>4, <2>5 DEF HelperInv
<1>22. CASE AllSettled
  <2>1. HelperTypes'
    <3>1. PipeVerdict \in SessionResults
      BY ResultsAre DEF PipeVerdict
    <3>2. PICK v \in SessionResults : hs' = [hs EXCEPT !.at = "cleanReader", !.result = v]
      BY <1>22, <3>1 DEF AllSettled
    <3>3. "cleanReader" \in Stages /\ UNCHANGED <<asked, helper>>
          /\ hs.content \in Launchers \cup {"empty", "part"}
      BY <1>0, <1>22, StagesAre DEF AllSettled, HelperTypes
    <3> QED BY <1>0, <3>2, <3>3, EndsIs DEF FieldsAre
  <2>2. HandlesInv'
    BY <1>0, <1>22 DEF AllSettled, PipeVerdict, HelperEnded, HelperTypes, HandlesInv
  <2>3. PeersInv'
    BY <1>0, <1>22 DEF AllSettled, PipeVerdict, HelperEnded, HelperTypes, PeersInv, Before, After, ClientSettled, HelperAlive
  <2>4. EvidenceInv'
    BY <1>0, <1>22 DEF AllSettled, PipeVerdict, HelperEnded, HelperTypes, EvidenceInv, PeersInv, Before, HelperAlive
  <2>5. SuccessIsEarned'
    <3>1. /\ hs'.result = PipeVerdict /\ hs'.client = hs.client /\ UNCHANGED <<asked, helper>>
          /\ hs.at = "waiting" /\ ClientSettled /\ HelperEnded
      BY <1>0, <1>22 DEF AllSettled, HelperTypes
    <3> SUFFICES ASSUME PipeVerdict \in {"verified", "same_principal_rejected"}
                 PROVE  /\ helper.at = "exited" /\ helper.read = asked.bytes
                        /\ asked.named = asked.bytes
                        /\ hs.client = "ok" /\ helper.facts.same
      BY <3>1 DEF SuccessIsEarned
    <3>2. /\ helper.at # "failed" /\ helper.out \notin {"error", "garbage"}
          /\ hs.client # "failed" /\ helper.facts.same
      BY <1>0, GoodVerdict
    <3>3. helper.at = "exited" /\ hs.client = "ok"
      BY <1>0, <3>1, <3>2 DEF HelperEnded, ClientSettled, PeersInv
    <3> QED
      BY <1>0, <3>1, <3>2, <3>3 DEF EvidenceInv
  <2> QED
    BY <2>1, <2>2, <2>3, <2>4, <2>5 DEF HelperInv
<1>23. CASE DeadlinePasses
  <2>1. HelperTypes'
    BY <1>0, <1>23, StagesAre, ResultsAre DEF DeadlinePasses, HelperTypes
  <2>2. HandlesInv'
    BY <1>0, <1>23 DEF DeadlinePasses, HelperTypes, HandlesInv
  <2>3. PeersInv'
    BY <1>0, <1>23 DEF DeadlinePasses, HelperTypes, PeersInv, Before, After, ClientSettled, HelperAlive
  <2>4. EvidenceInv'
    BY <1>0, <1>23 DEF DeadlinePasses, HelperTypes, EvidenceInv, PeersInv, Before, HelperAlive
  <2>5. SuccessIsEarned'
    BY <1>0, <1>23 DEF DeadlinePasses, HelperTypes, EvidenceInv, PeersInv, SuccessIsEarned, Before, ClientSettled
  <2> QED
    BY <2>1, <2>2, <2>3, <2>4, <2>5 DEF HelperInv
<1>24. CASE SessionTimesOut
  <2>1. HelperTypes'
    BY <1>0, <1>24, StagesAre, ResultsAre DEF SessionTimesOut, HelperTypes
  <2>2. HandlesInv'
    BY <1>0, <1>24 DEF SessionTimesOut, HelperTypes, HandlesInv
  <2>3. PeersInv'
    BY <1>0, <1>24 DEF SessionTimesOut, HelperTypes, PeersInv, Before, After, ClientSettled, HelperAlive
  <2>4. EvidenceInv'
    BY <1>0, <1>24 DEF SessionTimesOut, HelperTypes, EvidenceInv, PeersInv, Before, HelperAlive
  <2>5. SuccessIsEarned'
    BY <1>0, <1>24 DEF SessionTimesOut, HelperTypes, EvidenceInv, PeersInv, SuccessIsEarned, Before, ClientSettled
  <2> QED
    BY <2>1, <2>2, <2>3, <2>4, <2>5 DEF HelperInv
<1>25. CASE WorkerTimesOut
  <2>1. HelperTypes'
    BY <1>0, <1>25, StagesAre, ResultsAre DEF WorkerTimesOut, AbortWorker, HelperTypes
  <2>2. HandlesInv'
    BY <1>0, <1>25 DEF WorkerTimesOut, AbortWorker, HelperTypes, HandlesInv
  <2>3. PeersInv'
    BY <1>0, <1>25 DEF WorkerTimesOut, AbortWorker, HelperTypes, PeersInv, Before, After, ClientSettled, HelperAlive
  <2>4. EvidenceInv'
    BY <1>0, <1>25 DEF WorkerTimesOut, AbortWorker, HelperTypes, EvidenceInv, PeersInv, Before, HelperAlive
  <2>5. SuccessIsEarned'
    BY <1>0, <1>25 DEF WorkerTimesOut, AbortWorker, HelperTypes, EvidenceInv, PeersInv, SuccessIsEarned, Before, ClientSettled
  <2> QED
    BY <2>1, <2>2, <2>3, <2>4, <2>5 DEF HelperInv
<1>26. CASE StdinBreaks
  <2>1. HelperTypes'
    BY <1>0, <1>26, StagesAre, ResultsAre DEF StdinBreaks, AbortWorker, HelperTypes
  <2>2. HandlesInv'
    BY <1>0, <1>26 DEF StdinBreaks, AbortWorker, HelperTypes, HandlesInv
  <2>3. PeersInv'
    BY <1>0, <1>26 DEF StdinBreaks, AbortWorker, HelperTypes, PeersInv, Before, After, ClientSettled, HelperAlive
  <2>4. EvidenceInv'
    BY <1>0, <1>26 DEF StdinBreaks, AbortWorker, HelperTypes, EvidenceInv, PeersInv, Before, HelperAlive
  <2>5. SuccessIsEarned'
    BY <1>0, <1>26 DEF StdinBreaks, AbortWorker, HelperTypes, EvidenceInv, PeersInv, SuccessIsEarned, Before, ClientSettled
  <2> QED
    BY <2>1, <2>2, <2>3, <2>4, <2>5 DEF HelperInv
<1>27. CASE WorkerCloses
  <2>0. PICK v \in SessionResults :
           /\ WorkerSettles(v)
           /\ v \in {"verified", "same_principal_rejected"} =>
                 helper.at = "exited" /\ helper.out \notin {"error", "garbage"}
    <3>1. CASE helper.at = "failed" /\ WorkerSettles("worker_start_failed")
      BY <3>1, ResultsAre
    <3>2. CASE helper.at # "failed" \/ ~WorkerSettles("worker_start_failed")
      <4>1. PICK v : v = IF hs.abort # "none" THEN hs.abort
                         ELSE CASE helper.out = "error" -> "worker_failed"
                                [] helper.out = "garbage" -> "invalid_worker_output"
                                [] OTHER -> "verified"
        OBVIOUS
      <4>2. WorkerSettles(v) /\ helper.at = "exited"
        BY <1>27, <3>2, <4>1 DEF WorkerCloses
      <4>3. hs.abort \in AbortCodes
        BY <1>0 DEF HelperTypes
      <4>4. v \in SessionResults
        BY <4>1, <4>3, ResultsAre
      <4>5. v \in {"verified", "same_principal_rejected"} =>
              helper.out \notin {"error", "garbage"}
        BY <4>1, <4>3, ResultsAre
      <4> QED BY <4>2, <4>4, <4>5
    <3> QED BY <3>1, <3>2
  <2>1. FieldsAre("cleanWriter", hs.name, hs.content, hs.writer, hs.reader, hs.stuck, v)
    <3>1. hs.content \in Launchers \cup {"empty", "part"} /\ "cleanWriter" \in Stages
      BY <1>0, StagesAre DEF HelperTypes
    <3> QED BY <1>0, <2>0, <3>1, EndsIs DEF WorkerSettles
  <2>6. hs.at = "waiting" /\ ~Pipe /\ hs.client = "none" /\ ~hs.writer
    BY <1>0, <1>27 DEF WorkerCloses, GraceEnds, WorkerSettles, PeersInv, HandlesInv
  <2>7. HelperAlive => helper.killed
    BY <1>0, <1>27 DEF WorkerCloses, GraceEnds, PeersInv, HelperAlive
  <2>2. HandlesInv'
    BY <1>0, <2>1, <2>6 DEF FieldsAre, HandlesInv
  <2>3. PeersInv'
    BY <1>0, <2>1, <2>6, <2>7 DEF FieldsAre, PeersInv, Before, After, ClientSettled, HelperAlive
  <2>4. EvidenceInv'
    BY <1>0, <2>1 DEF FieldsAre, EvidenceInv, Before
  <2>5. SuccessIsEarned'
    BY <1>0, <2>0, <2>1, <2>6 DEF FieldsAre, EvidenceInv, SuccessIsEarned
  <2> QED
    BY <2>1, <2>2, <2>3, <2>4, <2>5 DEF HelperInv, FieldsAre
<1>28. CASE GraceEnds
  <2>0. hs.abort \in AbortCodes /\ hs.abort \in SessionResults /\ WorkerSettles(hs.abort)
    BY <1>0, <1>28, ResultsAre DEF GraceEnds, HelperTypes
  <2>1. FieldsAre("cleanWriter", hs.name, hs.content, hs.writer, hs.reader, hs.stuck, hs.abort)
    <3>1. hs.content \in Launchers \cup {"empty", "part"} /\ "cleanWriter" \in Stages
      BY <1>0, StagesAre DEF HelperTypes
    <3> QED BY <1>0, <2>0, <3>1, EndsIs DEF WorkerSettles
  <2>6. hs.at = "waiting" /\ ~Pipe /\ hs.client = "none" /\ ~hs.writer
    BY <1>0, <1>28 DEF WorkerCloses, GraceEnds, WorkerSettles, PeersInv, HandlesInv
  <2>7. HelperAlive => helper.killed
    BY <1>0, <1>28 DEF WorkerCloses, GraceEnds, PeersInv, HelperAlive
  <2>2. HandlesInv'
    BY <1>0, <2>1, <2>6 DEF FieldsAre, HandlesInv
  <2>3. PeersInv'
    BY <1>0, <2>1, <2>6, <2>7 DEF FieldsAre, PeersInv, Before, After, ClientSettled, HelperAlive
  <2>4. EvidenceInv'
    BY <1>0, <2>1 DEF FieldsAre, EvidenceInv, Before
  <2>5. SuccessIsEarned'
    BY <2>0, <2>1, ResultsAre DEF FieldsAre, SuccessIsEarned
  <2> QED
    BY <2>1, <2>2, <2>3, <2>4, <2>5 DEF HelperInv, FieldsAre
<1>29. CASE CleanHandles
  <2>0. {"cleanReader", "cleanName"} \subseteq Stages /\ hs.name \in BOOLEAN
        /\ hs.writer \in BOOLEAN /\ hs.reader \in BOOLEAN /\ hs.stuck \in BOOLEAN
        /\ UNCHANGED <<asked, helper>>
    BY <1>0, <1>29, StagesAre DEF HelperTypes, CleanHandles
  <2>1. \/ /\ hs.at = "cleanWriter"
           /\ FieldsAre("cleanReader", hs.name, hs.content, FALSE, hs.reader, hs.stuck, hs.result)
        \/ /\ hs.at = "cleanReader"
           /\ FieldsAre("cleanName", hs.name, hs.content, hs.writer, FALSE, hs.stuck, hs.result)
    <3>1. CASE hs.at = "cleanWriter" /\ hs' = [hs EXCEPT !.at = "cleanReader", !.writer = FALSE]
      BY <1>0, <2>0, <3>1, WriterDropped
    <3>2. CASE hs.at = "cleanReader" /\ hs' = [hs EXCEPT !.at = "cleanName", !.reader = FALSE]
      BY <1>0, <2>0, <3>2, ReaderDropped
    <3> QED BY <1>29, <3>1, <3>2 DEF CleanHandles
  <2>2. HandlesInv'
    BY <1>0, <2>1 DEF FieldsAre, HandlesInv
  <2>3. PeersInv'
    BY <1>0, <2>1 DEF FieldsAre, PeersInv, Before, After, ClientSettled, HelperAlive
  <2>4. EvidenceInv'
    BY <1>0, <2>1 DEF FieldsAre, EvidenceInv, Before
  <2>5. SuccessIsEarned'
    BY <1>0, <2>1 DEF FieldsAre, SuccessIsEarned
  <2> QED
    BY <2>1, <2>2, <2>3, <2>4, <2>5 DEF HelperInv, FieldsAre
<1>30. CASE CleanName
  <2>0. PICK gone \in BOOLEAN :
           hs' = [hs EXCEPT !.at = "over", !.name = hs.name /\ ~gone,
                            !.stuck = hs.name /\ ~gone]
    BY <1>30 DEF CleanName
  <2>6. PICK n \in BOOLEAN : n = (hs.name /\ ~gone)
    OBVIOUS
  <2>1. FieldsAre("over", n, hs.content, hs.writer, hs.reader, n, hs.result)
    <3>1. "over" \in Stages /\ hs.writer \in BOOLEAN /\ hs.reader \in BOOLEAN
      BY <1>0, StagesAre DEF HelperTypes
    <3>2. hs' = [hs EXCEPT !.at = "over", !.name = n, !.stuck = n]
      BY <2>0, <2>6
    <3>3. UNCHANGED <<asked, helper>>
      BY <1>30 DEF CleanName
    <3> QED BY <1>0, <3>1, <3>2, <3>3, NameDropped
  <2>7. hs.at = "cleanName"
    BY <1>30 DEF CleanName
  <2>2. HandlesInv'
    BY <1>0, <2>1, <2>7 DEF FieldsAre, HandlesInv
  <2>3. PeersInv'
    BY <1>0, <2>1, <2>7 DEF FieldsAre, PeersInv, Before, After, ClientSettled, HelperAlive
  <2>4. EvidenceInv'
    BY <1>0, <2>1 DEF FieldsAre, EvidenceInv, Before
  <2>5. SuccessIsEarned'
    BY <1>0, <2>1 DEF FieldsAre, SuccessIsEarned
  <2> QED
    BY <2>1, <2>2, <2>3, <2>4, <2>5 DEF HelperInv, FieldsAre
<1>31. CASE UNCHANGED helperVars
  <2>1. HelperTypes'
    BY <1>0, <1>31, StagesAre, ResultsAre DEF helperVars, HelperTypes
  <2>2. HandlesInv'
    BY <1>0, <1>31 DEF helperVars, HelperTypes, HandlesInv
  <2>3. PeersInv'
    BY <1>0, <1>31 DEF helperVars, HelperTypes, PeersInv, Before, After, ClientSettled, HelperAlive
  <2>4. EvidenceInv'
    BY <1>0, <1>31 DEF helperVars, HelperTypes, EvidenceInv, PeersInv, Before, HelperAlive
  <2>5. SuccessIsEarned'
    BY <1>0, <1>31 DEF helperVars, HelperTypes, EvidenceInv, PeersInv, SuccessIsEarned, Before, ClientSettled
  <2> QED
    BY <2>1, <2>2, <2>3, <2>4, <2>5 DEF HelperInv
<1> QED
  BY <1>1, <1>2, <1>3, <1>4, <1>5, <1>6, <1>7, <1>8, <1>9, <1>10, <1>11, <1>12, <1>13, <1>14, <1>15, <1>16, <1>17, <1>18, <1>19, <1>20, <1>21, <1>22, <1>23, <1>24, <1>25, <1>26, <1>27, <1>28, <1>29, <1>30, <1>31 DEF SessionNext, Parent, Helper, Client, MakeHandle

(* Nothing is open before the request is checked.                          *)
LEMMA HelperInvInit == SessionInit => HelperInv
<1> SUFFICES ASSUME SessionInit PROVE HelperInv
  OBVIOUS
<1>1. NoFacts \in Facts
  BY DEF NoFacts, Facts
<1>2. HelperTypes
  BY <1>1, StagesAre DEF SessionInit, HelperTypes, AbortCodes, SessionResults, Clients
<1>3. HandlesInv /\ PeersInv /\ EvidenceInv /\ SuccessIsEarned
  BY DEF SessionInit, HandlesInv, PeersInv, EvidenceInv, SuccessIsEarned, Before, After
<1> QED
  BY <1>2, <1>3 DEF HelperInv

(* The invariant holds in every reachable state.                           *)
THEOREM HelperSessionInvariant == HelperSessionSpec => []HelperInv
BY HelperInvInit, HelperInductive, PTL DEF HelperSessionSpec

(* windows-helper-pipe-session and inherited-launcher-transfer: a session  *)
(* that is over holds no handle, has settled its client and left no helper *)
(* that was not killed; it succeeded only if a helper that ended well read *)
(* the launcher of the request and refused its own user.                   *)
THEOREM HelperSessionsAreSound == HelperSessionSpec => []HelperSessionIsSound
<1>1. HelperInv => HelperSessionIsSound
  BY DEF HelperInv, HandlesInv, PeersInv, After, HelperSessionIsSound, HelperLeavesNothing, At
<1> QED
  BY <1>1, HelperSessionInvariant, PTL

-----------------------------------------------------------------------------
(* The macOS lifecycle.                                                    *)

(* The inductive invariant: types, and the honesty of the reports.         *)
MacInv == MacTypeOK /\ ReportInv

(* Nothing is on the machine at first, or a leftover.                      *)
LEMMA MacInitInv == MacInit => MacInv
  BY DEF Objects, Files, ObjectStates, MutationSteps, CleanupSteps, MacInit, MacInv, MacTypeOK, ReportInv, NewController, NoJob, Leftover

-----------------------------------------------------------------------------
(* The type invariant by its parts, and what an update of a record keeps.     *)

(* The commands that may be cut off.                                       *)
Commands == {"create", "bootstrap", "delete", "bootout"}

(* What a controller reports.                                              *)
MacResults == {"none", "refused", "recover", "failed", "success", "killed"}

(* The types of the launchd job.                                           *)
JobTypes == [attempted : BOOLEAN, verified : BOOLEAN, active : BOOLEAN]

(* The types of the provisioner.                                           *)
ProvisionerTypes == [at : {"check", "execute", "wait", "clean", "unlink", "over"},
                     known : BOOLEAN, ran : BOOLEAN,
                     result : {"none", "collision", "recover", "failed", "success"}]

(* The types of the controller.                                            *)
ControllerTypes ==
  [at : MutationSteps \cup CleanupSteps \cup {"off", "over"},
   account : {"no", "created", "verified"}, bound : BOOLEAN, job : JobTypes,
   owned : SUBSET Files, known : SUBSET Files, denied : BOOLEAN, complete : BOOLEAN,
   result : MacResults]

(* The type invariant by its parts.                                        *)
LEMMA TypeParts ==
  MacTypeOK <=> /\ mac \in [Objects -> ObjectStates]
                /\ cut \subseteq Commands
                /\ prov \in ProvisionerTypes
                /\ ctl \in ControllerTypes
  BY DEF MacTypeOK, ControllerTypes, ProvisionerTypes, JobTypes, Commands, MacResults

(* And after a step.                                                       *)
LEMMA TypePartsNext ==
  (/\ mac' \in [Objects -> ObjectStates]
   /\ cut' \subseteq Commands
   /\ prov' \in ProvisionerTypes
   /\ ctl' \in ControllerTypes) => MacTypeOK'
  BY DEF MacTypeOK, ControllerTypes, ProvisionerTypes, JobTypes, Commands, MacResults

-----------------------------------------------------------------------------
(* What a step of the controller does to what ReportInv looks at.             *)

\* A mutation goes on with nothing cut off, turns to the cleanup, or refuses.
MutationEffect ==
  /\ prov' = prov /\ ctl.at \in MutationSteps
  /\ \/ ctl'.at \in MutationSteps /\ ctl'.denied = ctl.denied /\ cut' = cut
        /\ ctl'.result = ctl.result
     \/ ctl'.at = "cleanJob" /\ (ctl'.denied => cut' = {}) /\ ctl'.result = ctl.result
     \/ ctl'.at = "over" /\ ctl'.result = "refused"

\* A part of the cleanup that cuts a command off is not complete.
RemovalEffect ==
  /\ prov' = prov /\ ctl.at \in CleanupSteps
  /\ ctl'.at \in CleanupSteps /\ ctl'.denied = ctl.denied /\ ctl'.result = ctl.result
  /\ ctl'.complete => ctl.complete /\ cut' = cut

(* A mutation or a removal keeps the reports honest.                       *)
LEMMA EffectKeepsReport ==
  ASSUME MacInv, MacTypeOK', MutationEffect \/ RemovalEffect
  PROVE  ReportInv'
  BY DEF MacInv, MacTypeOK, ReportInv, MutationEffect, RemovalEffect, Leftover, Objects, Files,
         ObjectStates, MutationSteps, CleanupSteps

(* A mutation of the controller, by what it does to the parts that matter.    *)
LEMMA MutationStep ==
  ASSUME MacInv, ctl.at \in MutationSteps, prov' = prov,
         mac' \in [Objects -> ObjectStates], cut' \subseteq Commands,
         NEW s \in MutationSteps \cup {"cleanJob"}, ctl' \in ControllerTypes,
         ctl'.at = s, ctl'.result = ctl.result,
         s \in MutationSteps => cut' = cut /\ ctl'.denied = ctl.denied,
         ctl'.denied => cut' = {}
  PROVE  MacTypeOK' /\ MutationEffect
<1>1. MacTypeOK'
  BY TypeParts, TypePartsNext DEF MacInv
<1>2. MutationEffect
  BY DEF MutationEffect, CleanupSteps
<1> QED
  BY <1>1, <1>2

(* While it mutates, a controller has had no command cut off and nothing   *)
(* denied.                                                                 *)
LEMMA MutationsAreOpen ==
  ASSUME MacInv, ctl.at \in MutationSteps
  PROVE  /\ cut = {} /\ ~ctl.denied /\ ctl \in ControllerTypes /\ prov \in ProvisionerTypes
         /\ mac \in [Objects -> ObjectStates] /\ cut \subseteq Commands
  BY TypeParts DEF MacInv, ReportInv

(* The preflight changes nothing but the controller.                       *)
LEMMA PreflightEffect ==
  ASSUME MacInv, NEW i \in DOMAIN PREFLIGHT, Preflight(i)
  PROVE  MacTypeOK' /\ MutationEffect
<1>1. i \in {1, 2, 3, 4}
  BY DEF PREFLIGHT
<1>2. PREFLIGHT[i] \in {"binary", "plist", "account", "job"} /\ Len(PREFLIGHT) = 4
  BY <1>1 DEF PREFLIGHT
<1>3. i < 4 => PREFLIGHT[i + 1] \in {"plist", "account", "job"}
  BY <1>1 DEF PREFLIGHT
<1>4. \/ ctl' = Refused
      \/ \E s \in {"plist", "account", "job", "create"} : ctl' = To(s)
  BY <1>1, <1>2, <1>3 DEF Preflight
<1>5. ctl.at \in MutationSteps /\ UNCHANGED <<mac, cut, prov>>
  BY <1>2 DEF Preflight, Mine, MutationSteps
<1>6. /\ cut = {} /\ ~ctl.denied /\ ctl \in ControllerTypes /\ prov \in ProvisionerTypes
      /\ mac \in [Objects -> ObjectStates] /\ cut \subseteq Commands
  BY <1>5, MutationsAreOpen
<1>7. CASE ctl' = Refused
  <2>1. ctl' \in ControllerTypes /\ ctl'.at = "over" /\ ctl'.result = "refused"
    BY <1>6, <1>7 DEF Refused, ControllerTypes, MacResults
  <2> QED
    BY <1>5, <1>6, <2>1, TypePartsNext DEF MutationEffect
<1>8. ASSUME NEW s \in {"plist", "account", "job", "create"}, ctl' = To(s)
      PROVE  MacTypeOK' /\ MutationEffect
  <2>1. s \in MutationSteps
    BY DEF MutationSteps
  <2>2. /\ ctl' \in ControllerTypes /\ ctl'.at = s
        /\ ctl'.result = ctl.result /\ ctl'.denied = ctl.denied
    BY <1>6, <1>8, <2>1 DEF To, ControllerTypes
  <2> QED
    BY <1>5, <1>6, <2>1, <2>2, MutationStep
<1> QED
  BY <1>4, <1>7, <1>8

\* A command keeps the types, and cuts nothing off when it exits cleanly.
LEMMA RanEffect ==
  ASSUME NEW command \in Commands,
         NEW o \in Objects, NEW ok \in BOOLEAN, NEW whole \in ObjectStates,
         NEW partial \in SUBSET ObjectStates, Ran(command, o, ok, whole, partial),
         mac \in [Objects -> ObjectStates], cut \subseteq Commands
  PROVE  /\ mac' \in [Objects -> ObjectStates]
         /\ cut' \subseteq Commands
         /\ ok => cut' = cut
         /\ \A x \in Objects : x # o => mac'[x] = mac[x]
<1>1. ASSUME NEW s \in ObjectStates, mac' = [mac EXCEPT ![o] = s]
      PROVE  mac' \in [Objects -> ObjectStates] /\ \A x \in Objects : x # o => mac'[x] = mac[x]
  BY <1>1
<1>2. CASE ok
  BY <1>1, <1>2 DEF Ran
<1>3. CASE ~ok /\ \E s \in {mac[o], whole} \cup partial : mac' = [mac EXCEPT ![o] = s] /\ UNCHANGED cut
  BY <1>1, <1>3
<1>4. CASE ~ok /\ UNCHANGED mac /\ cut' = cut \cup {command}
  BY <1>4
<1> QED
  BY <1>2, <1>3, <1>4 DEF Ran

(* The account is created or not, and known or not.                        *)
LEMMA CreateAccountEffect ==
  ASSUME MacInv, CreateAccount PROVE MacTypeOK' /\ MutationEffect
<1>1. ctl.at \in MutationSteps /\ prov' = prov
  BY DEF CreateAccount, Ctl, MutationSteps
<1>2. /\ cut = {} /\ ~ctl.denied /\ ctl \in ControllerTypes /\ prov \in ProvisionerTypes
      /\ mac \in [Objects -> ObjectStates] /\ cut \subseteq Commands
  BY <1>1, MutationsAreOpen
<1>3. PICK ok \in BOOLEAN, seen \in BOOLEAN :
        /\ Ran("create", "account", ok, "ours", {"part"})
        /\ ctl' = IF ~ok THEN Cleanup
                  ELSE IF seen THEN [To("publishBinary") EXCEPT !.account = "verified"]
                  ELSE [Cleanup EXCEPT !.account = "created"]
  BY DEF CreateAccount
<1>4. mac' \in [Objects -> ObjectStates] /\ cut' \subseteq Commands /\ (ok => cut' = cut)
  <2>1. /\ "create" \in Commands /\ "account" \in Objects /\ "ours" \in ObjectStates
        /\ {"part"} \in SUBSET ObjectStates
    BY DEF Commands, Objects, ObjectStates
  <2> QED
    BY <1>2, <1>3, <2>1, RanEffect
<1>5. ASSUME NEW s \in {"publishBinary", "cleanJob"}, NEW a \in {"no", "created", "verified"},
             ctl' = [To(s) EXCEPT !.account = a], s = "publishBinary" => ok
      PROVE  MacTypeOK' /\ MutationEffect
  <2>1. s \in MutationSteps \cup CleanupSteps \cup {"over"} /\ s \in MutationSteps \cup {"cleanJob"}
    BY DEF MutationSteps, CleanupSteps
  <2>2. "cleanJob" \notin MutationSteps
    BY DEF MutationSteps
  <2>3. /\ ctl' \in ControllerTypes /\ ctl'.at = s
        /\ ctl'.result = ctl.result /\ ctl'.denied = ctl.denied
    BY <1>2, <1>5, <2>1 DEF To, ControllerTypes
  <2> QED
    BY <1>1, <1>2, <1>4, <1>5, <2>1, <2>2, <2>3, MutationStep
<1>6. Cleanup = [To("cleanJob") EXCEPT !.account = ctl.account] /\ ctl.account \in {"no", "created", "verified"}
  BY <1>2 DEF Cleanup, To, ControllerTypes
<1>7. CASE ~ok
  <2>1. ctl' = [To("cleanJob") EXCEPT !.account = ctl.account]
    BY <1>3, <1>6, <1>7
  <2> QED
    BY <1>5, <1>6, <2>1
<1>8. CASE ok /\ seen
  BY <1>3, <1>5, <1>8
<1>9. CASE ok /\ ~seen
  BY <1>3, <1>5, <1>9 DEF Cleanup
<1> QED
  BY <1>7, <1>8, <1>9

(* A file is published into a free place.                                  *)
LEMMA PublishFileEffect ==
  ASSUME MacInv, NEW f \in {"binary", "plist"}, NEW here \in MutationSteps,
         NEW next \in MutationSteps, PublishFile(f, here, next)
  PROVE  MacTypeOK' /\ MutationEffect
<1>1. ctl.at \in MutationSteps /\ prov' = prov /\ cut' = cut
  BY DEF PublishFile, Ctl, Mine
<1>2. /\ cut = {} /\ ~ctl.denied /\ ctl \in ControllerTypes /\ prov \in ProvisionerTypes
      /\ mac \in [Objects -> ObjectStates] /\ cut \subseteq Commands
  BY <1>1, MutationsAreOpen
<1>3. ASSUME NEW s \in MutationSteps \cup {"cleanJob"}, NEW fs \in SUBSET Files, NEW gs \in SUBSET Files,
             ctl' = [ctl EXCEPT !.at = s, !.owned = fs, !.known = gs],
             mac' \in [Objects -> ObjectStates]
      PROVE  MacTypeOK' /\ MutationEffect
  <2>1. s \in MutationSteps \cup CleanupSteps \cup {"over"}
    BY DEF CleanupSteps
  <2>2. /\ ctl' \in ControllerTypes /\ ctl'.at = s
        /\ ctl'.result = ctl.result /\ ctl'.denied = ctl.denied
    BY <1>2, <1>3, <2>1 DEF ControllerTypes
  <2> QED
    BY <1>1, <1>2, <1>3, <2>1, <2>2, MutationStep
<1>4. ctl.owned \in SUBSET Files /\ ctl.known \in SUBSET Files /\ f \in Files /\ f \in Objects
  BY <1>2 DEF ControllerTypes, Files, Objects
<1>5. CASE NotOpened /\ ctl' = Cleanup
  <2>1. ctl' = [ctl EXCEPT !.at = "cleanJob", !.owned = ctl.owned, !.known = ctl.known]
    BY <1>2, <1>5 DEF Cleanup, To, ControllerTypes
  <2> QED
    BY <1>2, <1>3, <1>4, <1>5, <2>1 DEF NotOpened
<1>6. ASSUME NEW ok \in BOOLEAN, NEW known \in BOOLEAN, Published(f, ok, known),
             ctl' = [(IF ok THEN To(next) ELSE Cleanup) EXCEPT
                        !.owned = @ \cup {f}, !.known = IF known THEN @ \cup {f} ELSE @]
      PROVE  MacTypeOK' /\ MutationEffect
  <2>1. mac' \in [Objects -> ObjectStates]
    BY <1>2, <1>4, <1>6 DEF Published, ObjectStates
  <2>2. PICK s \in MutationSteps \cup {"cleanJob"} :
          ctl' = [To(s) EXCEPT !.owned = @ \cup {f}, !.known = IF known THEN @ \cup {f} ELSE @]
    BY <1>6 DEF Cleanup
  <2>3. ctl' = [ctl EXCEPT !.at = s, !.owned = ctl.owned \cup {f},
                           !.known = IF known THEN ctl.known \cup {f} ELSE ctl.known]
    BY <1>2, <2>2 DEF ControllerTypes, To
  <2>4. /\ ctl.owned \cup {f} \in SUBSET Files
        /\ (IF known THEN ctl.known \cup {f} ELSE ctl.known) \in SUBSET Files
    BY <1>4
  <2> QED
    BY <1>3, <2>1, <2>3, <2>4
<1> QED
  BY <1>5, <1>6 DEF PublishFile

(* The artifacts are bound.                                                *)
LEMMA BindArtifactsEffect ==
  ASSUME MacInv, BindArtifacts PROVE MacTypeOK' /\ MutationEffect
<1>1. ctl.at \in MutationSteps /\ UNCHANGED <<mac, cut, prov>>
  BY DEF BindArtifacts, Ctl, Mine, MutationSteps
<1>2. /\ cut = {} /\ ~ctl.denied /\ ctl \in ControllerTypes /\ prov \in ProvisionerTypes
      /\ mac \in [Objects -> ObjectStates] /\ cut \subseteq Commands
  BY <1>1, MutationsAreOpen
<1>3. ctl' = Cleanup \/ ctl' = [To("bootstrap") EXCEPT !.bound = TRUE]
  BY DEF BindArtifacts
<1>4. /\ ctl' \in ControllerTypes /\ ctl'.at \in {"bootstrap", "cleanJob"}
      /\ ctl'.result = ctl.result /\ ctl'.denied = ctl.denied
  BY <1>2, <1>3 DEF Cleanup, To, ControllerTypes, MutationSteps, CleanupSteps
<1>5. ctl'.at \in MutationSteps \cup {"cleanJob"}
  BY <1>4 DEF MutationSteps
<1> QED
  BY <1>1, <1>2, <1>4, <1>5, MutationStep

\* A step that changes where the controller is, its job and the denial.
LEMMA JobStep ==
  ASSUME MacInv, ctl.at \in MutationSteps, prov' = prov,
         mac' \in [Objects -> ObjectStates], cut' \subseteq Commands,
         NEW s \in {"activate", "deny", "cleanJob"}, NEW j \in JobTypes, NEW d \in BOOLEAN,
         ctl' = [ctl EXCEPT !.at = s, !.denied = d, !.job = j],
         s # "cleanJob" => cut' = cut /\ d = ctl.denied, d => cut' = {}
  PROVE  MacTypeOK' /\ MutationEffect
<1>1. ctl \in ControllerTypes
  BY MutationsAreOpen
<1>2. s \in MutationSteps \cup CleanupSteps \cup {"over"} /\ s \in MutationSteps \cup {"cleanJob"}
  BY DEF MutationSteps, CleanupSteps
<1>3. s \in MutationSteps => s # "cleanJob"
  BY DEF MutationSteps
<1>4. ctl' \in ControllerTypes /\ ctl'.at = s /\ ctl'.result = ctl.result /\ ctl'.denied = d
  BY <1>1, <1>2 DEF ControllerTypes
<1> QED
  BY <1>2, <1>3, <1>4, MutationStep

\* A bootstrap that did not come to a job, attempted.
LEMMA TriedEffect ==
  ASSUME MacInv, ctl.at \in MutationSteps, prov' = prov, ctl' = Tried,
         mac' \in [Objects -> ObjectStates], cut' \subseteq Commands
  PROVE  MacTypeOK' /\ MutationEffect
<1>1. ~ctl.denied /\ ctl \in ControllerTypes
  BY MutationsAreOpen
<1> DEFINE attempt == [ctl.job EXCEPT !.attempted = TRUE]
<1>2. attempt \in JobTypes /\ ctl.denied \in BOOLEAN
  BY <1>1 DEF ControllerTypes, JobTypes
<1>3. ctl' = [ctl EXCEPT !.at = "cleanJob", !.denied = ctl.denied, !.job = attempt]
  BY <1>1 DEF Tried, Cleanup, To, ControllerTypes, JobTypes
<1> HIDE DEF attempt
<1> QED
  BY <1>1, <1>2, <1>3, JobStep

(* The artifacts are verified once more.                                   *)
LEMMA BootstrapJobEffect ==
  ASSUME MacInv, BootstrapJob PROVE MacTypeOK' /\ MutationEffect
<1>1. ctl.at \in MutationSteps /\ prov' = prov /\ mac' = mac /\ cut' = cut
  BY DEF BootstrapJob, Ctl, Mine, MutationSteps
<1>2. /\ cut = {} /\ ~ctl.denied /\ ctl \in ControllerTypes /\ prov \in ProvisionerTypes
      /\ mac \in [Objects -> ObjectStates] /\ cut \subseteq Commands
  BY <1>1, MutationsAreOpen
<1>3. CASE ctl' = Tried
  BY <1>1, <1>2, <1>3, TriedEffect
<1>4. CASE ctl' = To("load")
  <2>1. "load" \in MutationSteps
    BY DEF MutationSteps
  <2>2. /\ ctl' \in ControllerTypes /\ ctl'.at = "load"
        /\ ctl'.result = ctl.result /\ ctl'.denied = ctl.denied
    BY <1>2, <1>4, <2>1 DEF To, ControllerTypes
  <2> QED
    BY <1>1, <1>2, <2>1, <2>2, MutationStep
<1> QED
  BY <1>3, <1>4 DEF BootstrapJob

(* The job is loaded.                                                      *)
LEMMA LoadJobEffect ==
  ASSUME MacInv, LoadJob PROVE MacTypeOK' /\ MutationEffect
<1>1. ctl.at \in MutationSteps /\ prov' = prov
  BY DEF LoadJob, Ctl, MutationSteps
<1>2. /\ cut = {} /\ ~ctl.denied /\ ctl \in ControllerTypes /\ prov \in ProvisionerTypes
      /\ mac \in [Objects -> ObjectStates] /\ cut \subseteq Commands
  BY <1>1, MutationsAreOpen
<1>3. ctl.denied \in BOOLEAN
  BY <1>2 DEF ControllerTypes
<1>4. CASE UNCHANGED <<mac, cut>> /\ ctl' = Tried
  BY <1>1, <1>2, <1>4, TriedEffect
<1>5. ASSUME NEW ok \in BOOLEAN, NEW seen \in BOOLEAN, NEW loaded \in {"ours", "part"},
             Ran("bootstrap", "job", ok, loaded, {}),
             ctl' = IF ~ok THEN Tried
                    ELSE [(IF seen THEN To("activate") ELSE Cleanup) EXCEPT
                             !.job = [NoJob EXCEPT !.attempted = TRUE, !.verified = seen]]
      PROVE  MacTypeOK' /\ MutationEffect
  <2>1. "bootstrap" \in Commands /\ "job" \in Objects /\ loaded \in ObjectStates
    BY DEF Commands, Objects, ObjectStates
  <2>2. mac' \in [Objects -> ObjectStates] /\ cut' \subseteq Commands /\ (ok => cut' = cut)
    BY <1>2, <1>5, <2>1, RanEffect
  <2>3. CASE ~ok
    BY <1>1, <1>5, <2>2, <2>3, TriedEffect
  <2>4. CASE ok
    <3> DEFINE j == [NoJob EXCEPT !.attempted = TRUE, !.verified = seen]
    <3>1. j \in JobTypes
      BY DEF NoJob, JobTypes
    <3>2. PICK s \in {"activate", "cleanJob"} : ctl' = [To(s) EXCEPT !.job = j]
      BY <1>5, <2>4 DEF Cleanup
    <3> HIDE DEF j
    <3>3. ctl' = [ctl EXCEPT !.at = s, !.denied = ctl.denied, !.job = j]
      BY <1>2, <3>2 DEF To, ControllerTypes
    <3> QED
      BY <1>1, <1>2, <1>3, <2>2, <2>4, <3>1, <3>3, JobStep
  <2> QED
    BY <2>3, <2>4
<1> DEFINE loading == IF Intact("binary") /\ Intact("plist") THEN "ours" ELSE "part"
<1>6. loading \in {"ours", "part"}
  OBVIOUS
<1>7. \/ UNCHANGED <<mac, cut>> /\ ctl' = Tried
      \/ \E ok, seen \in BOOLEAN :
           /\ Ran("bootstrap", "job", ok, loading, {})
           /\ ctl' = IF ~ok THEN Tried
                     ELSE [(IF seen THEN To("activate") ELSE Cleanup) EXCEPT
                              !.job = [NoJob EXCEPT !.attempted = TRUE, !.verified = seen]]
  BY Zenon DEF LoadJob
<1> HIDE DEF loading
<1> QED
  BY <1>4, <1>5, <1>6, <1>7

(* The job is activated.                                                   *)
LEMMA ActivateJobEffect ==
  ASSUME MacInv, ActivateJob PROVE MacTypeOK' /\ MutationEffect
<1>1. ctl.at \in MutationSteps /\ UNCHANGED <<mac, cut, prov>>
  BY DEF ActivateJob, Ctl, Mine, MutationSteps
<1>2. /\ cut = {} /\ ~ctl.denied /\ ctl \in ControllerTypes /\ prov \in ProvisionerTypes
      /\ mac \in [Objects -> ObjectStates] /\ cut \subseteq Commands
  BY <1>1, MutationsAreOpen
<1>3. \/ ctl' = [To("cleanJob") EXCEPT !.job.verified = FALSE]
      \/ \E s \in {"deny", "cleanJob"} : ctl' = [To(s) EXCEPT !.job.active = TRUE]
  BY DEF ActivateJob, Cleanup
<1>4. /\ [ctl.job EXCEPT !.verified = FALSE] \in JobTypes
      /\ [ctl.job EXCEPT !.active = TRUE] \in JobTypes /\ ctl.denied \in BOOLEAN
  BY <1>2 DEF ControllerTypes, JobTypes
<1>5. CASE ctl' = [To("cleanJob") EXCEPT !.job.verified = FALSE]
  <2>1. ctl' = [ctl EXCEPT !.at = "cleanJob", !.denied = ctl.denied,
                           !.job = [ctl.job EXCEPT !.verified = FALSE]]
    BY <1>2, <1>5 DEF To, ControllerTypes, JobTypes
  <2> QED
    BY <1>1, <1>2, <1>4, <2>1, JobStep
<1>6. ASSUME NEW s \in {"deny", "cleanJob"}, ctl' = [To(s) EXCEPT !.job.active = TRUE]
      PROVE  MacTypeOK' /\ MutationEffect
  <2>1. ctl' = [ctl EXCEPT !.at = s, !.denied = ctl.denied,
                           !.job = [ctl.job EXCEPT !.active = TRUE]]
    BY <1>2, <1>6 DEF To, ControllerTypes, JobTypes
  <2> QED
    BY <1>1, <1>2, <1>4, <2>1, JobStep
<1> QED
  BY <1>3, <1>5, <1>6

(* The denial is exercised.                                                *)
LEMMA ExerciseDenialEffect ==
  ASSUME MacInv, ExerciseDenial PROVE MacTypeOK' /\ MutationEffect
<1>1. ctl.at \in MutationSteps /\ UNCHANGED <<mac, cut, prov>>
  BY DEF ExerciseDenial, Ctl, Mine, MutationSteps
<1>2. /\ cut = {} /\ ~ctl.denied /\ ctl \in ControllerTypes /\ prov \in ProvisionerTypes
      /\ mac \in [Objects -> ObjectStates] /\ cut \subseteq Commands
  BY <1>1, MutationsAreOpen
<1>3. \/ ctl' = [To("cleanJob") EXCEPT !.job.verified = FALSE]
      \/ \E d \in BOOLEAN : ctl' = [To("cleanJob") EXCEPT !.denied = d]
  BY DEF ExerciseDenial, Cleanup
<1>4. /\ [ctl.job EXCEPT !.verified = FALSE] \in JobTypes
      /\ ctl.job \in JobTypes /\ ctl.denied \in BOOLEAN
  BY <1>2 DEF ControllerTypes, JobTypes
<1>5. CASE ctl' = [To("cleanJob") EXCEPT !.job.verified = FALSE]
  <2>1. ctl' = [ctl EXCEPT !.at = "cleanJob", !.denied = ctl.denied,
                           !.job = [ctl.job EXCEPT !.verified = FALSE]]
    BY <1>2, <1>5 DEF To, ControllerTypes, JobTypes
  <2> QED
    BY <1>1, <1>2, <1>4, <2>1, JobStep
<1>6. ASSUME NEW d \in BOOLEAN, ctl' = [To("cleanJob") EXCEPT !.denied = d]
      PROVE  MacTypeOK' /\ MutationEffect
  <2>1. ctl' = [ctl EXCEPT !.at = "cleanJob", !.denied = d, !.job = ctl.job]
    BY <1>2, <1>6 DEF To, ControllerTypes
  <2> QED
    BY <1>1, <1>2, <1>4, <2>1, JobStep
<1> QED
  BY <1>3, <1>5, <1>6

-----------------------------------------------------------------------------

\* What every part of the cleanup comes to.
LEMMA CleanedEffect ==
  ASSUME MacInv, ctl.at \in CleanupSteps, prov' = prov, NEW next \in CleanupSteps,
         NEW ok \in BOOLEAN, ctl' = Cleaned(next, ok), ok => cut' = cut,
         mac' \in [Objects -> ObjectStates], cut' \subseteq Commands
  PROVE  MacTypeOK' /\ RemovalEffect
<1>1. ctl \in ControllerTypes /\ prov \in ProvisionerTypes
  BY TypeParts DEF MacInv
<1>2. PICK d \in BOOLEAN : d = (ctl.complete /\ ok)
  OBVIOUS
<1>3. ctl' = [ctl EXCEPT !.at = next, !.complete = d]
  BY <1>1, <1>2 DEF Cleaned, To, ControllerTypes
<1>4. /\ ctl' \in ControllerTypes /\ ctl'.at = next /\ ctl'.denied = ctl.denied
      /\ ctl'.result = ctl.result /\ ctl'.complete = d
  BY <1>1, <1>3 DEF ControllerTypes
<1>5. MacTypeOK'
  BY <1>1, <1>4, TypePartsNext
<1>6. RemovalEffect
  BY <1>2, <1>4 DEF RemovalEffect
<1> QED
  BY <1>5, <1>6

\* A check of the cleanup: nothing changes but where the controller is.
LEMMA CheckEffect ==
  ASSUME MacInv, ctl.at \in CleanupSteps, UNCHANGED mac, Mine,
         NEW next \in CleanupSteps, NEW ok \in BOOLEAN, ctl' = Cleaned(next, ok)
  PROVE  MacTypeOK' /\ RemovalEffect
<1>1. mac \in [Objects -> ObjectStates] /\ cut \subseteq Commands
  BY TypeParts DEF MacInv
<1> QED
  BY <1>1, CleanedEffect DEF Mine

\* A command of the cleanup, and the probes after it.
LEMMA CommandEffect ==
  ASSUME MacInv, ctl.at \in CleanupSteps, prov' = prov, NEW command \in Commands,
         NEW o \in Objects, NEW ok \in BOOLEAN, Ran(command, o, ok, "none", {}),
         NEW next \in CleanupSteps, NEW gone \in BOOLEAN, ctl' = Cleaned(next, ok /\ gone)
  PROVE  MacTypeOK' /\ RemovalEffect
<1>1. mac \in [Objects -> ObjectStates] /\ cut \subseteq Commands /\ "none" \in ObjectStates
  BY TypeParts DEF MacInv, ObjectStates
<1>2. mac' \in [Objects -> ObjectStates] /\ cut' \subseteq Commands /\ (ok => cut' = cut)
  BY <1>1, RanEffect
<1>3. (ok /\ gone) \in BOOLEAN
  OBVIOUS
<1> QED
  BY <1>2, <1>3, CleanedEffect

(* The job is verified, and booted out.                                    *)
LEMMA CleanJobEffect ==
  ASSUME MacInv, CleanJob \/ BootOutJob PROVE MacTypeOK' /\ RemovalEffect
<1>1. ctl.at \in CleanupSteps /\ prov' = prov /\ {"cleanPlist", "bootout"} \subseteq CleanupSteps
  BY DEF CleanJob, BootOutJob, Ctl, Mine, CleanupSteps
<1>2. CASE CleanJob
  <2>1. PICK next \in {"cleanPlist", "bootout"}, ok \in BOOLEAN : ctl' = Cleaned(next, ok)
    BY <1>2, Zenon DEF CleanJob, Shown
  <2> QED
    BY <1>1, <1>2, <2>1, CheckEffect DEF CleanJob
<1>3. CASE BootOutJob
  <2>1. PICK ok \in BOOLEAN, gone \in BOOLEAN :
          Ran("bootout", "job", ok, "none", {}) /\ ctl' = Cleaned("cleanPlist", ok /\ gone)
    BY <1>3, Zenon DEF BootOutJob
  <2>2. "bootout" \in Commands /\ "job" \in Objects
    BY DEF Commands, Objects
  <2> QED
    BY <1>1, <2>1, <2>2, CommandEffect
<1> QED
  BY <1>2, <1>3

(* A file is checked.                                                      *)
LEMMA CleanFileEffect ==
  ASSUME MacInv, NEW f \in {"binary", "plist"}, NEW here \in CleanupSteps,
         NEW act \in CleanupSteps, NEW next \in CleanupSteps, CleanFile(f, here, act, next)
  PROVE  MacTypeOK' /\ RemovalEffect
<1>1. ctl.at \in CleanupSteps
  BY DEF CleanFile, Ctl
<1>2. PICK s \in {act, next}, ok \in BOOLEAN : ctl' = Cleaned(s, ok)
  BY Zenon DEF CleanFile
<1> QED
  BY <1>1, <1>2, CheckEffect DEF CleanFile

(* What has the name of the file is removed.                               *)
LEMMA UnlinkFileEffect ==
  ASSUME MacInv, NEW f \in {"binary", "plist"}, NEW act \in CleanupSteps,
         NEW next \in CleanupSteps, UnlinkFile(f, act, next)
  PROVE  MacTypeOK' /\ RemovalEffect
<1>1. ctl.at \in CleanupSteps /\ prov' = prov /\ cut' = cut
  BY DEF UnlinkFile, Ctl, Mine
<1>2. mac \in [Objects -> ObjectStates] /\ cut \subseteq Commands
  BY TypeParts DEF MacInv
<1>3. PICK ok \in BOOLEAN : ctl' = Cleaned(next, ok) /\ Unlinked(f, ok)
  BY DEF UnlinkFile
<1>4. mac' \in [Objects -> ObjectStates]
  BY <1>2, <1>3 DEF Unlinked, ObjectStates
<1> QED
  BY <1>1, <1>2, <1>3, <1>4, CleanedEffect

(* The account is verified, and deleted.                                   *)
LEMMA CleanAccountEffect ==
  ASSUME MacInv, CleanAccount \/ DeleteAccount PROVE MacTypeOK' /\ RemovalEffect
<1>1. ctl.at \in CleanupSteps /\ prov' = prov /\ {"final", "delete"} \subseteq CleanupSteps
  BY DEF CleanAccount, DeleteAccount, Ctl, Mine, CleanupSteps
<1>2. CASE CleanAccount
  <2>1. PICK next \in {"final", "delete"}, ok \in BOOLEAN : ctl' = Cleaned(next, ok)
    BY <1>2, Zenon DEF CleanAccount
  <2> QED
    BY <1>1, <1>2, <2>1, CheckEffect DEF CleanAccount
<1>3. CASE DeleteAccount
  <2>1. PICK ok \in BOOLEAN, gone \in BOOLEAN :
          Ran("delete", "account", ok, "none", {}) /\ ctl' = Cleaned("final", ok /\ gone)
    BY <1>3, Zenon DEF DeleteAccount
  <2>2. "delete" \in Commands /\ "account" \in Objects
    BY DEF Commands, Objects
  <2> QED
    BY <1>1, <2>1, <2>2, CommandEffect
<1> QED
  BY <1>2, <1>3

(* Success is reported on verified absence.                                *)
LEMMA FinalAbsenceKeeps ==
  ASSUME MacInv, FinalAbsence PROVE MacInv'
<1>1. ctl.at = "final" /\ UNCHANGED <<mac, cut, prov>>
  BY DEF FinalAbsence, Ctl, Mine
<1>2. /\ ctl \in ControllerTypes /\ prov \in ProvisionerTypes
      /\ mac \in [Objects -> ObjectStates] /\ cut \subseteq Commands
  BY TypeParts DEF MacInv
<1>3. PICK absent \in Shown(\A o \in Objects \ {"runner"} : Absent(o)), r \in {"recover", "success", "failed"} :
        /\ ctl' = [ctl EXCEPT !.at = "over", !.result = r]
        /\ r # "recover" => ctl.complete /\ absent
        /\ r = "success" => ctl.denied
  BY DEF FinalAbsence
<1>4. absent => \A o \in Objects \ {"runner"} : mac[o] = "none"
  BY DEF Shown, Absent
<1>5. ctl' \in ControllerTypes /\ ctl'.at = "over" /\ ctl'.result = r /\ ctl'.denied = ctl.denied
  BY <1>2, <1>3 DEF ControllerTypes, MacResults
<1>6. MacTypeOK'
  BY <1>1, <1>2, <1>5, TypePartsNext
<1>7. r # "recover" => Leftover' \subseteq {"runner"}
  BY <1>1, <1>3, <1>4 DEF Leftover
<1>8. r = "success" => cut = {}
  BY <1>1, <1>3 DEF MacInv, ReportInv, CleanupSteps
<1>9. prov.ran => FALSE
  BY <1>1 DEF MacInv, ReportInv
<1>10. ReportInv'
  BY <1>1, <1>3, <1>5, <1>7, <1>8, <1>9 DEF MacInv, ReportInv, MutationSteps, CleanupSteps
<1> QED
  BY <1>6, <1>10 DEF MacInv

-----------------------------------------------------------------------------
(* The provisioner.                                                           *)

(* The runner is published into a free place.                              *)
LEMMA PublishedRunner ==
  ASSUME mac \in [Objects -> ObjectStates], NEW f \in Files, NEW ok \in BOOLEAN, NEW known \in BOOLEAN,
         Published(f, ok, known)
  PROVE  mac' \in [Objects -> ObjectStates] /\ mac[f] = "none" /\ \A o \in Objects : o # f => mac'[o] = mac[o]
  BY DEF Published, Absent, Objects, ObjectStates

(* The provisioner publishes the runner.                                   *)
LEMMA ProvisionRunnerKeeps ==
  ASSUME MacInv, ProvisionRunner PROVE MacInv'
<1>1. prov.at = "check" /\ cut' = cut /\ ctl' = ctl
  BY DEF ProvisionRunner, Prov
<1>2. /\ ctl \in ControllerTypes /\ prov \in ProvisionerTypes
      /\ mac \in [Objects -> ObjectStates] /\ cut \subseteq Commands
  BY TypeParts DEF MacInv
<1>3. CASE NotOpened /\ prov' = [prov EXCEPT !.at = "over", !.result = "collision"]
  <2>1. prov' \in ProvisionerTypes /\ prov'.ran = prov.ran /\ prov'.at = "over" /\ prov'.result = "collision"
    BY <1>2, <1>3 DEF ProvisionerTypes
  <2>2. MacTypeOK'
    BY <1>1, <1>2, <1>3, <2>1, TypePartsNext DEF NotOpened
  <2> QED
    BY <1>1, <1>3, <2>1, <2>2 DEF MacInv, ReportInv, NotOpened, Leftover
<1>4. ASSUME NEW ok \in BOOLEAN, NEW known \in BOOLEAN, Published("runner", ok, known),
             prov' = [prov EXCEPT !.at = IF ok THEN "execute" ELSE "clean", !.known = known]
      PROVE  MacInv'
  <2>1. "runner" \in Files
    BY DEF Files
  <2>2. mac' \in [Objects -> ObjectStates] /\ \A o \in Objects : o # "runner" => mac'[o] = mac[o]
    BY <1>2, <1>4, <2>1, PublishedRunner
  <2>3. prov' \in ProvisionerTypes /\ prov'.ran = prov.ran /\ prov'.result = prov.result
    BY <1>2, <1>4 DEF ProvisionerTypes
  <2>4. MacTypeOK'
    BY <1>1, <1>2, <2>2, <2>3, TypePartsNext
  <2>5. Leftover' \subseteq Leftover \cup {"runner"}
    BY <2>2 DEF Leftover
  <2>6. prov.result = "none"
    BY <1>1 DEF MacInv, ReportInv
  <2> QED
    BY <1>1, <2>3, <2>4, <2>5, <2>6 DEF MacInv, ReportInv
<1> QED
  BY <1>3, <1>4 DEF ProvisionRunner

(* The provisioner executes the runner.                                    *)
LEMMA ExecuteRunnerKeeps ==
  ASSUME MacInv, ExecuteRunner PROVE MacInv'
<1>1. prov.at = "execute" /\ cut' = cut /\ mac' = mac
  BY DEF ExecuteRunner, Prov
<1>2. /\ ctl \in ControllerTypes /\ prov \in ProvisionerTypes
      /\ mac \in [Objects -> ObjectStates] /\ cut \subseteq Commands
  BY TypeParts DEF MacInv
<1>3. prov.result = "none"
  BY <1>1 DEF MacInv, ReportInv
<1>4. PICK s \in {"clean", "wait"} : prov' = [prov EXCEPT !.at = s]
  BY DEF ExecuteRunner
<1>5. prov' \in ProvisionerTypes /\ prov'.ran = prov.ran /\ prov'.result = prov.result
  BY <1>2, <1>4 DEF ProvisionerTypes
<1>6. ctl.at = "off" /\ ctl.result = "none" /\ cut = {} /\ ~ctl.denied /\ ~prov.ran
  BY <1>1, <1>2 DEF MacInv, ReportInv, ControllerTypes
<1>7. prov'.at = s /\ (s = "clean" => ctl' = ctl \/ ctl' \in {To("binary"), Refused})
  BY <1>2, <1>4 DEF ProvisionerTypes, ExecuteRunner
<1>8. \/ ctl' = ctl
      \/ ctl' = To("binary")
      \/ ctl' = Refused
  BY DEF ExecuteRunner
<1>9. /\ ctl' \in ControllerTypes /\ ctl'.denied = ctl.denied
      /\ \/ ctl'.at \in {"off", "binary"} /\ ctl'.result = "none"
         \/ ctl'.at = "over" /\ ctl'.result = "refused"
  BY <1>2, <1>6, <1>8 DEF To, Refused, ControllerTypes, MutationSteps, MacResults
<1>10. MacTypeOK'
  BY <1>1, <1>2, <1>5, <1>9, TypePartsNext
<1>11. ReportInv'
  BY <1>1, <1>3, <1>5, <1>6, <1>7, <1>9 DEF MacInv, ReportInv, CleanupSteps
<1> QED
  BY <1>10, <1>11 DEF MacInv

(* The runner ends or is killed.                                           *)
LEMMA RunnerEndKeeps ==
  ASSUME MacInv, RunnerReaped \/ RunnerKilled PROVE MacInv'
<1>1. prov.at = "wait" /\ mac' = mac
  BY DEF RunnerReaped, RunnerKilled, Prov
<1>2. /\ ctl \in ControllerTypes /\ prov \in ProvisionerTypes
      /\ mac \in [Objects -> ObjectStates] /\ cut \subseteq Commands
  BY TypeParts DEF MacInv
<1>3. prov.result = "none"
  BY <1>1 DEF MacInv, ReportInv
<1>4. CASE RunnerReaped
  <2>1. PICK ran \in BOOLEAN : ran = (ctl.result = "success") /\ prov' = [prov EXCEPT !.at = "clean", !.ran = ran]
    BY <1>4 DEF RunnerReaped
  <2>2. prov' \in ProvisionerTypes /\ prov'.at = "clean" /\ prov'.ran = ran /\ prov'.result = "none"
    BY <1>2, <1>3, <2>1 DEF ProvisionerTypes
  <2>3. ctl' = ctl /\ cut' = cut
    BY <1>4 DEF RunnerReaped
  <2>4. MacTypeOK'
    BY <1>1, <1>2, <2>2, <2>3, TypePartsNext
  <2> QED
    BY <1>1, <2>1, <2>2, <2>3, <2>4 DEF MacInv, ReportInv, Leftover
<1>5. CASE RunnerKilled
  <2>1. /\ prov' \in ProvisionerTypes /\ prov'.at = "clean"
        /\ prov'.ran = prov.ran /\ prov'.result = "none"
    BY <1>2, <1>3, <1>5 DEF RunnerKilled, ProvisionerTypes
  <2>2. /\ ctl' \in ControllerTypes /\ ctl'.at = "over" /\ ctl'.result = "killed"
    BY <1>2, <1>5 DEF RunnerKilled, ControllerTypes, MacResults
  <2>3. ~prov.ran
    BY <1>5 DEF MacInv, ReportInv, RunnerKilled, Ctl
  <2>4. cut' \subseteq Commands
    BY <1>2, <1>5 DEF RunnerKilled, InFlight, Commands
  <2>5. MacTypeOK'
    BY <1>1, <1>2, <2>1, <2>2, <2>4, TypePartsNext
  <2> QED
    BY <1>1, <2>1, <2>2, <2>3, <2>5 DEF MacInv, ReportInv, MutationSteps, CleanupSteps
<1> QED
  BY <1>4, <1>5

(* The provisioner looks whose file the runner is.                         *)
LEMMA CleanRunnerKeeps ==
  ASSUME MacInv, CleanRunner PROVE MacInv'
<1>1. prov.at = "clean" /\ UNCHANGED <<mac, cut, ctl>>
  BY DEF CleanRunner, Prov
<1>2. /\ ctl \in ControllerTypes /\ prov \in ProvisionerTypes
      /\ mac \in [Objects -> ObjectStates] /\ cut \subseteq Commands
  BY TypeParts DEF MacInv
<1>3. /\ prov' \in ProvisionerTypes /\ prov'.ran = prov.ran
      /\ \/ prov'.at = "over" /\ prov'.result = "recover"
         \/ prov'.at = "unlink" /\ prov'.result = prov.result
  BY <1>2 DEF CleanRunner, Reported, ProvisionerTypes
<1>4. MacTypeOK'
  BY <1>1, <1>2, <1>3, TypePartsNext
<1>5. prov.result = "none"
  BY <1>1 DEF MacInv, ReportInv
<1> QED
  BY <1>1, <1>3, <1>4, <1>5 DEF MacInv, ReportInv, Leftover

(* The provisioner removes what has the runner's name.                     *)
LEMMA UnlinkRunnerKeeps ==
  ASSUME MacInv, UnlinkRunner PROVE MacInv'
<1>1. prov.at = "unlink" /\ cut' = cut /\ ctl' = ctl
  BY DEF UnlinkRunner, Prov
<1>2. /\ ctl \in ControllerTypes /\ prov \in ProvisionerTypes
      /\ mac \in [Objects -> ObjectStates] /\ cut \subseteq Commands
  BY TypeParts DEF MacInv
<1>3. PICK ok \in BOOLEAN, absent \in BOOLEAN, r \in {"recover", "success", "failed"} :
        /\ Unlinked("runner", ok)
        /\ absent => mac'["runner"] = "none"
        /\ prov' = [prov EXCEPT !.at = "over", !.result = r]
        /\ r = "success" => prov.ran /\ absent
  BY DEF UnlinkRunner, Reported
<1>4. mac' \in [Objects -> ObjectStates] /\ \A o \in Objects : o # "runner" => mac'[o] = mac[o]
  BY <1>2, <1>3 DEF Unlinked, ObjectStates
<1>5. prov' \in ProvisionerTypes /\ prov'.at = "over" /\ prov'.ran = prov.ran /\ prov'.result = r
  BY <1>2, <1>3 DEF ProvisionerTypes
<1>6. MacTypeOK'
  BY <1>1, <1>2, <1>4, <1>5, TypePartsNext
<1>7. Leftover' \subseteq Leftover \cup {"runner"}
  BY <1>4 DEF Leftover
<1> QED
  BY <1>1, <1>3, <1>5, <1>6, <1>7 DEF MacInv, ReportInv

-----------------------------------------------------------------------------
(* What happens around them.                                                  *)

(* A command that was cut off takes effect later, or never.                *)
LEMMA CutStepKeeps ==
  ASSUME MacInv, NEW command \in cut, CutTakesEffect(command) \/ CutIsLost(command)
  PROVE  MacInv'
<1>1. cut' = cut \ {command} /\ prov' = prov /\ ctl' = ctl /\ cut # {}
  BY DEF CutTakesEffect, CutIsLost
<1>2. /\ ctl \in ControllerTypes /\ prov \in ProvisionerTypes
      /\ mac \in [Objects -> ObjectStates] /\ cut \subseteq Commands
  BY TypeParts DEF MacInv
<1>3. \/ mac' = mac
      \/ \E o \in {"account", "job"} : \E s \in {"none", "late", mac[o]} : mac' = [mac EXCEPT ![o] = s]
  BY DEF CutTakesEffect, CutIsLost
<1>4. /\ mac' \in [Objects -> ObjectStates] /\ Leftover' \subseteq Leftover
      /\ mac'["runner"] = mac["runner"]
  BY <1>2, <1>3 DEF Leftover, Objects, Files, ObjectStates
<1>5. MacTypeOK'
  BY <1>1, <1>2, <1>4, TypePartsNext
<1> QED
  BY <1>1, <1>4, <1>5 DEF MacInv, ReportInv

(* Others change the machine at any time.                                  *)
LEMMA OthersActKeeps ==
  ASSUME MacInv, NEW o \in Objects, NEW s \in ObjectStates, OthersAct(o, s)
  PROVE  MacInv'
<1>1. /\ mac' = [mac EXCEPT ![o] = s] /\ s \in {"none", "other"} /\ prov.at # "over"
      /\ UNCHANGED <<cut, prov, ctl>>
  BY DEF OthersAct
<1>2. /\ ctl \in ControllerTypes /\ prov \in ProvisionerTypes
      /\ mac \in [Objects -> ObjectStates] /\ cut \subseteq Commands
  BY TypeParts DEF MacInv
<1>3. mac' \in [Objects -> ObjectStates] /\ Leftover' \subseteq Leftover
  BY <1>1, <1>2 DEF Leftover
<1>4. MacTypeOK'
  BY <1>1, <1>2, <1>3, TypePartsNext
<1> QED
  BY <1>1, <1>3, <1>4 DEF MacInv, ReportInv
-----------------------------------------------------------------------------

(* A step with one of the two effects keeps the invariant.                 *)
LEMMA EffectKeepsInv ==
  ASSUME MacInv, (MacTypeOK' /\ MutationEffect) \/ (MacTypeOK' /\ RemovalEffect)
  PROVE  MacInv'
  BY EffectKeepsReport DEF MacInv

(* One case per action.                                                    *)
LEMMA MacStepInv ==
  ASSUME MacInv, [MacNext]_macVars PROVE MacInv'
<1>1. CASE Mutations
  <2>1. "publishBinary" \in MutationSteps /\ "publishPlist" \in MutationSteps /\ "bind" \in MutationSteps
    BY DEF MutationSteps
  <2>2. MacTypeOK' /\ MutationEffect
    BY <1>1, <2>1, PreflightEffect, CreateAccountEffect, PublishFileEffect, BindArtifactsEffect,
       BootstrapJobEffect, LoadJobEffect, ActivateJobEffect, ExerciseDenialEffect DEF Mutations
  <2> QED
    BY <2>2, EffectKeepsInv
<1>2. CASE Removals
  <2>1. {"cleanPlist", "unlinkPlist", "cleanBinary", "unlinkBinary", "cleanAccount"} \subseteq CleanupSteps
    BY DEF CleanupSteps
  <2>2. (MacTypeOK' /\ RemovalEffect) \/ FinalAbsence
    BY <1>2, <2>1, CleanJobEffect, CleanFileEffect, UnlinkFileEffect, CleanAccountEffect DEF Removals
  <2> QED
    BY <2>2, EffectKeepsInv, FinalAbsenceKeeps
<1>3. CASE Provisioning
  BY <1>3, ProvisionRunnerKeeps, ExecuteRunnerKeeps, RunnerEndKeeps, CleanRunnerKeeps,
     UnlinkRunnerKeeps DEF Provisioning
<1>4. CASE \E command \in cut : CutTakesEffect(command) \/ CutIsLost(command)
  BY <1>4, CutStepKeeps
<1>5. CASE \E o \in Objects, s \in ObjectStates : OthersAct(o, s)
  BY <1>5, OthersActKeeps
<1>6. CASE UNCHANGED macVars
  BY <1>6 DEF macVars, MacInv, MacTypeOK, ReportInv, Leftover
<1> QED
  BY <1>1, <1>2, <1>3, <1>4, <1>5, <1>6 DEF MacNext

(* The controller's and the provisioner's state, what they made and what is  *)
(* still on its way agree, whoever interferes and whichever command fails.   *)
THEOREM MacInvariant == MacSpec => []MacInv
<1>1. MacInit => MacInv
  BY MacInitInv
<1>2. MacInv /\ [MacNext]_macVars => MacInv'
  BY MacStepInv
<1> QED
  BY <1>1, <1>2, PTL DEF MacSpec

-----------------------------------------------------------------------------
(* What another program made is left alone.                                   *)

(* What others own never passes the last check before a removal, and stays *)
(* theirs outside the windows that the checks leave.                       *)
OthersKept(o) ==
  mac[o] = "other" /\ <<cut, prov, ctl>>' # <<cut, prov, ctl>>
  => /\ Checked(o)' => Checked(o)
     /\ InWindow(o) \/ mac'[o] = "other"

(* Where the provisioner and the controller are when something was checked. *)
LEMMA CheckedAt ==
  ASSUME NEW o
  PROVE  /\ Checked(o) <=> \/ o = "job" /\ ctl.at = "bootout"
                           \/ o = "plist" /\ ctl.at = "unlinkPlist"
                           \/ o = "binary" /\ ctl.at = "unlinkBinary"
                           \/ o = "account" /\ ctl.at = "delete"
                           \/ o = "runner" /\ prov.at = "unlink"
         /\ Checked(o)' <=> \/ o = "job" /\ ctl'.at = "bootout"
                            \/ o = "plist" /\ ctl'.at = "unlinkPlist"
                            \/ o = "binary" /\ ctl'.at = "unlinkBinary"
                            \/ o = "account" /\ ctl'.at = "delete"
                            \/ o = "runner" /\ prov'.at = "unlink"
  BY DEF Checked, Ctl, Prov

(* A command changes its own object only.                                  *)
LEMMA RanKeeps ==
  ASSUME MacInv, NEW command, NEW o \in Objects, NEW ok \in BOOLEAN, NEW whole, NEW partial,
         Ran(command, o, ok, whole, partial), NEW x \in Objects, x # o
  PROVE  mac'[x] = mac[x]
  BY DEF Ran, MacInv, MacTypeOK

(* A step into nothing's last check, that leaves the object alone or has   *)
(* it in a window.                                                         *)
LEMMA StepKeeps ==
  ASSUME NEW o, mac[o] = "other" => InWindow(o) \/ mac'[o] = "other",
         prov' = prov,
         ctl'.at \notin {"bootout", "unlinkPlist", "unlinkBinary", "delete"}
  PROVE  OthersKept(o)
<1>1. Checked(o)' => Checked(o)
  BY CheckedAt
<1> QED
  BY <1>1 DEF OthersKept

(* The mutations leave what others own alone.                              *)
LEMMA MutationsKeep ==
  ASSUME MacInv, Mutations, NEW o \in Objects PROVE OthersKept(o)
<1>1. ctl \in ControllerTypes /\ MacTypeOK' /\ MutationEffect
  <2>1. "publishBinary" \in MutationSteps /\ "publishPlist" \in MutationSteps /\ "bind" \in MutationSteps
    BY DEF MutationSteps
  <2>2. ctl \in ControllerTypes
    BY TypeParts DEF MacInv
  <2> QED
    BY <2>1, <2>2, PreflightEffect, CreateAccountEffect, PublishFileEffect, BindArtifactsEffect,
       BootstrapJobEffect, LoadJobEffect, ActivateJobEffect, ExerciseDenialEffect DEF Mutations
<1>2. prov' = prov /\ ctl'.at \notin {"bootout", "unlinkPlist", "unlinkBinary", "delete"}
  BY <1>1 DEF MutationEffect, MutationSteps
<1>3. mac[o] = "other" => InWindow(o) \/ mac'[o] = "other"
  <2>1. CASE (\E i \in DOMAIN PREFLIGHT : Preflight(i)) \/ BindArtifacts \/ BootstrapJob \/ ActivateJob \/ ExerciseDenial
    BY <2>1 DEF Preflight, BindArtifacts, BootstrapJob, ActivateJob, ExerciseDenial
  <2>2. CASE CreateAccount
    <3>1. Ctl("create") /\ \E ok \in BOOLEAN : Ran("create", "account", ok, "ours", {"part"})
      BY <2>2 DEF CreateAccount
    <3>2. "account" \in Objects
      BY DEF Objects
    <3> QED
      BY <3>1, <3>2, RanKeeps DEF InWindow
  <2>3. ASSUME NEW f \in {"binary", "plist"}, NEW here, NEW next, PublishFile(f, here, next)
        PROVE  mac[o] = "other" => mac'[o] = "other"
    <3>1. \/ mac' = mac
          \/ mac[f] = "none" /\ \E s : mac' = [mac EXCEPT ![f] = s]
      BY <2>3 DEF PublishFile, NotOpened, Published, Absent
    <3> QED
      BY <3>1 DEF MacInv, MacTypeOK
  <2>4. CASE LoadJob
    <3>1. \/ mac' = mac
          \/ mac["job"] = "none" /\ \E ok \in BOOLEAN, whole \in ObjectStates : Ran("bootstrap", "job", ok, whole, {})
      BY <2>4 DEF LoadJob, Absent, ObjectStates
    <3>2. "job" \in Objects
      BY DEF Objects
    <3> QED
      BY <3>1, <3>2, RanKeeps
  <2> QED
    BY <2>1, <2>2, <2>3, <2>4 DEF Mutations
<1> QED
  BY <1>2, <1>3, StepKeeps

(* A check of the cleanup passes only what is this run's.                  *)
LEMMA ChecksKeep ==
  ASSUME MacInv, NEW o \in Objects, NEW x \in Objects, mac' = mac, prov' = prov,
         NEW act, NEW ok \in BOOLEAN, ctl' = Cleaned(act, ok),
         \/ act \notin {"bootout", "unlinkPlist", "unlinkBinary", "delete"}
         \/ mac[x] # "other" /\ <<x, act>> \in {<<"job", "bootout">>, <<"plist", "unlinkPlist">>,
                                     <<"binary", "unlinkBinary">>, <<"account", "delete">>}
  PROVE  OthersKept(o)
<1>1. ctl'.at = act
  <2>1. ctl \in ControllerTypes
    BY TypeParts DEF MacInv
  <2> QED
    BY <2>1 DEF Cleaned, To, ControllerTypes
<1>2. mac[o] = "other" => (Checked(o)' => Checked(o))
  BY <1>1, CheckedAt
<1> QED
  BY <1>2 DEF OthersKept

(* The removals leave what others own alone.                               *)
LEMMA RemovalsKeep ==
  ASSUME MacInv, Removals, NEW o \in Objects PROVE OthersKept(o)
<1>0. /\ ctl \in ControllerTypes
      /\ {"job", "plist", "binary", "account"} \subseteq Objects
  BY TypeParts DEF MacInv, Objects, Files
<1>1. CASE CleanJob
  <2>1. /\ mac' = mac /\ prov' = prov
        /\ \/ \E ok \in BOOLEAN : ctl' = Cleaned("cleanPlist", ok)
           \/ mac["job"] = "ours" /\ \E ok \in BOOLEAN : ctl' = Cleaned("bootout", ok)
    BY <1>1, Zenon DEF CleanJob, Mine, Shown, JobVerifies, Intact
  <2> QED
    BY <1>0, <2>1, ChecksKeep
<1>2. CASE BootOutJob
  <2>1. /\ Ctl("bootout") /\ prov' = prov
        /\ \E ok \in BOOLEAN : \E done : Ran("bootout", "job", ok, "none", {}) /\ ctl' = Cleaned("cleanPlist", done)
    BY <1>2 DEF BootOutJob
  <2>2. ctl'.at = "cleanPlist"
    BY <1>0, <2>1 DEF Cleaned, To, ControllerTypes
  <2> QED
    BY <1>0, <2>1, <2>2, RanKeeps, StepKeeps DEF InWindow, Checked
<1>3. ASSUME NEW f \in {"binary", "plist"}, NEW here, NEW act, NEW next, CleanFile(f, here, act, next),
             <<f, act>> \in {<<"plist", "unlinkPlist">>, <<"binary", "unlinkBinary">>},
             next \in {"cleanBinary", "cleanAccount"}
      PROVE  OthersKept(o)
  <2>1. /\ mac' = mac /\ prov' = prov
        /\ \/ \E ok \in BOOLEAN : ctl' = Cleaned(next, ok)
           \/ mac[f] # "other" /\ \E ok \in BOOLEAN : ctl' = Cleaned(act, ok)
    BY <1>3 DEF CleanFile, Mine, StillOwned
  <2> QED
    BY <1>0, <1>3, <2>1, ChecksKeep
<1>4. ASSUME NEW f \in {"binary", "plist"}, NEW act, NEW next, UnlinkFile(f, act, next),
             <<f, act>> \in {<<"plist", "unlinkPlist">>, <<"binary", "unlinkBinary">>},
             next \in {"cleanBinary", "cleanAccount"}
      PROVE  OthersKept(o)
  <2>1. /\ Ctl(act) /\ prov' = prov /\ \E ok \in BOOLEAN : Unlinked(f, ok) /\ ctl' = Cleaned(next, ok)
    BY <1>4 DEF UnlinkFile, Mine
  <2>2. ctl'.at = next
    BY <1>0, <2>1 DEF Cleaned, To, ControllerTypes
  <2>3. o # f => mac'[o] = mac[o]
    BY <2>1 DEF Unlinked, MacInv, MacTypeOK
  <2>4. o = f => InWindow(o)
    BY <1>4, <2>1 DEF InWindow, Checked
  <2> QED
    BY <1>4, <2>1, <2>2, <2>3, <2>4, StepKeeps
<1>5. CASE CleanAccount
  <2>1. /\ mac' = mac /\ prov' = prov
        /\ \/ \E ok \in BOOLEAN : ctl' = Cleaned("final", ok)
           \/ mac["account"] = "ours" /\ \E ok \in BOOLEAN : ctl' = Cleaned("delete", ok)
    BY <1>5, Zenon DEF CleanAccount, Mine, Intact
  <2> QED
    BY <1>0, <2>1, ChecksKeep
<1>6. CASE DeleteAccount
  <2>1. /\ Ctl("delete") /\ prov' = prov
        /\ \E ok \in BOOLEAN : \E done : Ran("delete", "account", ok, "none", {}) /\ ctl' = Cleaned("final", done)
    BY <1>6 DEF DeleteAccount
  <2>2. ctl'.at = "final"
    BY <1>0, <2>1 DEF Cleaned, To, ControllerTypes
  <2> QED
    BY <1>0, <2>1, <2>2, RanKeeps, StepKeeps DEF InWindow, Checked
<1>7. CASE FinalAbsence
  <2>1. mac' = mac /\ prov' = prov /\ \E r : ctl' = [ctl EXCEPT !.at = "over", !.result = r]
    BY <1>7 DEF FinalAbsence, Mine
  <2>2. ctl'.at = "over"
    BY <1>0, <2>1 DEF ControllerTypes
  <2> QED
    BY <2>1, <2>2, StepKeeps
<1> QED
  BY <1>1, <1>2, <1>3, <1>4, <1>5, <1>6, <1>7 DEF Removals

(* The provisioner leaves what others own alone.                           *)
LEMMA ProvisioningKeeps ==
  ASSUME MacInv, Provisioning, NEW o \in Objects PROVE OthersKept(o)
<1>1. ctl \in ControllerTypes /\ prov \in ProvisionerTypes
  BY TypeParts DEF MacInv
<1>2. /\ ctl'.at \in {ctl.at, "binary", "over"}
      /\ \/ prov'.at # "unlink"
         \/ mac["runner"] # "other"
  BY <1>1 DEF Provisioning, ProvisionRunner, ExecuteRunner, RunnerReaped, RunnerKilled, CleanRunner,
         UnlinkRunner, StillOwned, Reported, To, Refused, ControllerTypes, ProvisionerTypes
<1>3. \/ mac' = mac
      \/ mac["runner"] = "none" /\ \E s : mac' = [mac EXCEPT !["runner"] = s]
      \/ Prov("unlink") /\ mac' = [mac EXCEPT !["runner"] = "none"]
  BY DEF Provisioning, ProvisionRunner, ExecuteRunner, RunnerReaped, RunnerKilled, CleanRunner,
         UnlinkRunner, NotOpened, Published, Absent, Unlinked
<1>4. mac[o] = "other" => InWindow(o) \/ mac'[o] = "other"
  BY <1>3 DEF InWindow, Checked, MacInv, MacTypeOK
<1>5. mac[o] = "other" => (Checked(o)' => Checked(o))
  BY <1>2, CheckedAt
<1> QED
  BY <1>4, <1>5 DEF OthersKept

(* A command that was cut off takes effect on the object it was about.     *)
LEMMA CutKeeps ==
  ASSUME MacInv, NEW command \in cut, CutTakesEffect(command) \/ CutIsLost(command),
         NEW o \in Objects
  PROVE  OthersKept(o)
<1>1. command \in Commands /\ UNCHANGED <<prov, ctl>>
  BY DEF MacInv, MacTypeOK, Commands, CutTakesEffect, CutIsLost
<1>2. \/ mac' = mac
      \/ command \in {"create", "delete"} /\ \E s : mac' = [mac EXCEPT !["account"] = s]
      \/ command \in {"bootstrap", "bootout"} /\ \E s : mac' = [mac EXCEPT !["job"] = s]
  BY <1>1 DEF CutTakesEffect, CutIsLost, Commands
<1>3. mac[o] = "other" => InWindow(o) \/ mac'[o] = "other"
  BY <1>2 DEF InWindow, MacInv, MacTypeOK
<1>4. Checked(o)' => Checked(o)
  BY <1>1, CheckedAt
<1> QED
  BY <1>3, <1>4 DEF OthersKept

(* Every step leaves what others own alone.                                *)
LEMMA MacStepKeeps ==
  ASSUME MacInv, [MacNext]_macVars, NEW o \in Objects PROVE OthersKept(o)
<1>1. CASE Mutations
  BY <1>1, MutationsKeep
<1>2. CASE Removals
  BY <1>2, RemovalsKeep
<1>3. CASE Provisioning
  BY <1>3, ProvisioningKeeps
<1>4. CASE \E command \in cut : CutTakesEffect(command) \/ CutIsLost(command)
  BY <1>4, CutKeeps
<1>5. CASE \E x \in Objects, s \in ObjectStates : OthersAct(x, s)
  BY <1>5 DEF OthersAct, OthersKept
<1>6. CASE UNCHANGED macVars
  BY <1>6 DEF macVars, OthersKept
<1> QED
  BY <1>1, <1>2, <1>3, <1>4, <1>5, <1>6 DEF MacNext

(* The invariant makes the reports honest.                                 *)
LEMMA InvIsHonest ==
  ASSUME MacInv PROVE ReportIsHonest
  BY DEF MacInv, ReportInv, ReportIsHonest, Leftover

(* The lifecycle reports success only when nothing of it is left or on its   *)
(* way; nothing another program made passes the last check before a removal, *)
(* and it is replaced or removed only in the windows InWindow names.         *)
THEOREM MacLifecycleSound == MacSpec => MacLifecycleIsSound
<1>1. MacInv => ReportIsHonest
  BY InvIsHonest
<1>2. MacInv /\ [MacNext]_macVars =>
        [\A o \in Objects :
           mac[o] = "other" /\ <<cut, prov, ctl>>' # <<cut, prov, ctl>>
           => /\ Checked(o)' => Checked(o)
              /\ InWindow(o) \/ mac'[o] = "other"]_macVars
  BY MacStepKeeps DEF OthersKept
<1> QED
  BY <1>1, <1>2, MacInvariant, PTL DEF MacSpec, MacLifecycleIsSound, OthersAreKept
=============================================================================
