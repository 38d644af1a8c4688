----------------------------- MODULE SmLifecycle -----------------------------
(***************************************************************************)
(* The local Secrets Manager state of one user: the allow file that names   *)
(* the machine, and the token store of the platform (a DPAPI file, a file  *)
(* of the owner, or one Keychain item per machine name).  Commands set it  *)
(* up, rename the machine and uninstall; each command is a process that    *)
(* may die between two of its effects, and a call of the Keychain that is  *)
(* reported as failed may have had its effect.  A collector reads both     *)
(* parts while a command runs.                                             *)
(***************************************************************************)
CONSTANTS
    Platforms,  \* the platforms to consider
    Ids,        \* machine names
    Tokens      \* access tokens

\* No file or item, and a file that Export-Clixml did not finish.
None == "none"
Torn == "torn"

\* The one token file of Windows and Linux; on macOS a leftover of earlier
\* versions.  Items of the Keychain are named by the machine.
File == "file"

ASSUME SmAssumption ==
    /\ Platforms \subseteq {"win32", "darwin", "linux"}
    /\ File \notin Ids /\ None \notin Ids
    /\ None \notin Tokens /\ Torn \notin Tokens

VARIABLES
    platform,   \* process.platform
    allow,      \* the machine name in the allow file, or None
    store,      \* what each place for a token holds
    leftover,   \* tokens in temporary files of processes that died
    cmd,        \* the command that runs, and the await at which it stands
    collector,  \* the collector that runs
    given       \* observes which tokens a name was ever given

vars == <<platform, allow, store, leftover, cmd, collector, given>>

Places == Ids \cup {File}

\* Where the token of a machine is kept.
Place(id) == IF platform = "darwin" THEN id ELSE File

Idle == [kind |-> None, at |-> None, id |-> None, prev |-> None, token |-> None]

NoCollector == [at |-> None, id |-> None, token |-> None]

Init ==
    /\ platform \in Platforms
    /\ allow = None
    /\ \E old \in {None} \cup (IF platform = "darwin" THEN Tokens ELSE {}) :
          store = [p \in Places |-> IF p = File THEN old ELSE None]
    /\ leftover = {}
    /\ cmd = Idle
    /\ collector = NoCollector
    /\ given = {}

Put(p, token) == store' = [store EXCEPT ![p] = token]

\* A command goes on to its next await, or ends.
GoTo(at) == cmd' = [cmd EXCEPT !.at = at]

End == cmd' = Idle

At(kind, at) == cmd.kind = kind /\ cmd.at = at

-----------------------------------------------------------------------------
(* writeSecretsManagerAllowConfig: a complete temporary file is renamed, so *)
(* the file changes in one step or, when anything fails, not at all.       *)

AllowWritten(id) == allow' = id

-----------------------------------------------------------------------------
(* storeSecretsManagerAccessToken.                                         *)

\* What a failed store may have done.  The Keychain may have taken a token
\* before the timeout, and Export-Clixml writes the file in place.
AfterFailedStore(p, token) ==
    {store[p]} \cup (IF platform = "linux" THEN {} ELSE {token})
               \cup (IF platform = "win32" THEN {Torn} ELSE {})

\* storeLinuxOwnerOnlyToken: the temporary file of a process that had the same
\* number is removed, then the token is in a temporary file of this process.
LinuxStage(next) ==
    /\ platform = "linux"
    /\ \/ UNCHANGED leftover
       \/ \E t \in leftover : leftover' = leftover \ {t}
    /\ GoTo(next)
    /\ UNCHANGED <<platform, allow, store, collector, given>>

\* The rename, after which only the check of the published file is left.
LinuxPublish(next) ==
    /\ Put(File, cmd.token)
    /\ GoTo(next)
    /\ UNCHANGED <<platform, allow, leftover, collector, given>>

-----------------------------------------------------------------------------
(* Setup, by script or by wizard.                                          *)

SetupStarts(id, token) ==
    /\ cmd = Idle
    /\ cmd' = [Idle EXCEPT !.kind = "setup", !.at = "allow", !.id = id,
                           !.token = token]
    /\ UNCHANGED <<platform, allow, store, leftover, collector, given>>

SetupWritesAllow ==
    /\ At("setup", "allow")
    /\ AllowWritten(cmd.id)
    /\ GoTo("verify")
    /\ given' = given \cup {<<cmd.id, cmd.token>>}
    /\ UNCHANGED <<platform, store, leftover, collector>>

\* The scripts store at once, the wizard asks bws for the projects first.
SetupVerified ==
    /\ At("setup", "verify")
    /\ GoTo("store")
    /\ UNCHANGED <<platform, allow, store, leftover, collector, given>>

SetupStores ==
    /\ At("setup", "store")
    /\ \/ /\ platform # "linux"
          /\ Put(Place(cmd.id), cmd.token)
          /\ End
          /\ UNCHANGED <<platform, allow, leftover, collector, given>>
       \/ LinuxStage("publish")

SetupPublishes == At("setup", "publish") /\ LinuxPublish("check")

SetupChecked ==
    /\ At("setup", "check")
    /\ End
    /\ UNCHANGED <<platform, allow, store, leftover, collector, given>>

(* Any of its calls rejects: the command reports the code and changes      *)
(* nothing back.  A temporary file is removed.                             *)
SetupFails ==
    /\ cmd.kind = "setup"
    /\ \/ /\ cmd.at \in {"allow", "verify", "publish", "check", "late"}
          /\ End
          /\ UNCHANGED store
       \/ /\ cmd.at = "store"
          /\ \E v \in AfterFailedStore(Place(cmd.id), cmd.token) :
                Put(Place(cmd.id), v)
          /\ IF platform = "darwin" THEN GoTo("late") ELSE End
    /\ UNCHANGED <<platform, allow, leftover, collector, given>>

(* The Keychain carries out a store that its command gave up at the timeout *)
(* and did not wait for any more.  It is taken to happen before another    *)
(* command starts.                                                         *)
LateStore ==
    /\ platform = "darwin"
    /\ At("setup", "late") \/ At("rename", "undo")
    /\ Put(cmd.id, cmd.token)
    /\ UNCHANGED <<platform, allow, leftover, cmd, collector, given>>

-----------------------------------------------------------------------------
(* renameSecretsManagerMachineId.                                          *)

(* The early returns: nothing to rename on this platform or without an     *)
(* allow file, or the name is the same.  They change nothing.              *)
CanRename(id) ==
    /\ platform \in {"darwin", "linux"}
    /\ allow \notin {None, id}

\* The token of the old name is read (macOS) or found present (Linux).
RenameStarts(id) ==
    /\ cmd = Idle
    /\ CanRename(id)
    /\ store[Place(allow)] \in Tokens
    /\ cmd' = [kind |-> "rename", at |-> "allow", id |-> id, prev |-> allow,
               token |-> store[Place(allow)]]
    /\ UNCHANGED <<platform, allow, store, leftover, collector, given>>

\* Mutant: every platform is taken for Linux.
MutantRenameWritesAllow ==
    /\ At("rename", "allow")
    /\ AllowWritten(cmd.id)
    /\ End
    /\ given' = given \cup {<<cmd.id, cmd.token>>}
    /\ UNCHANGED <<platform, store, leftover, collector>>

\* On Linux the token file has no name in it, and the rename is over.
RenameWritesAllow ==
    /\ At("rename", "allow")
    /\ AllowWritten(cmd.id)
    /\ IF platform = "linux" THEN End ELSE GoTo("store")
    /\ given' = given \cup {<<cmd.id, cmd.token>>}
    /\ UNCHANGED <<platform, store, leftover, collector>>

RenameAllowFails ==
    /\ At("rename", "allow")
    /\ End
    /\ UNCHANGED <<platform, allow, store, leftover, collector, given>>

RenameStores ==
    /\ At("rename", "store")
    /\ Put(cmd.id, cmd.token)
    /\ GoTo("delete")
    /\ UNCHANGED <<platform, allow, leftover, collector, given>>

\* Mutant: a rejected store is taken for a late success.
MutantRenameStoreFails ==
    /\ At("rename", "store")
    /\ \E v \in AfterFailedStore(cmd.id, cmd.token) : Put(cmd.id, v)
    /\ GoTo("delete")
    /\ UNCHANGED <<platform, allow, leftover, collector, given>>

RenameStoreFails ==
    /\ At("rename", "store")
    /\ \E v \in AfterFailedStore(cmd.id, cmd.token) : Put(cmd.id, v)
    /\ GoTo("undo")
    /\ UNCHANGED <<platform, allow, leftover, collector, given>>

RenameUndoes ==
    /\ At("rename", "undo")
    /\ AllowWritten(cmd.prev)
    /\ End
    /\ UNCHANGED <<platform, store, leftover, collector, given>>

\* The failure of the second write is swallowed.
RenameUndoFails ==
    /\ At("rename", "undo")
    /\ End
    /\ UNCHANGED <<platform, allow, store, leftover, collector, given>>

\* So is that of the deletion; it may still have had its effect.
RenameDeletes ==
    /\ At("rename", "delete")
    /\ \/ Put(cmd.prev, None)
       \/ UNCHANGED store
    /\ End
    /\ UNCHANGED <<platform, allow, leftover, collector, given>>

-----------------------------------------------------------------------------
(* uninstallSecretsManagerLocalState, as the script calls it.              *)

\* The name is read from the allow file; without one no item is deleted.
UninstallStarts ==
    /\ cmd = Idle
    /\ cmd' = [Idle EXCEPT !.kind = "uninstall", !.at = "token", !.id = allow]
    /\ UNCHANGED <<platform, allow, store, leftover, collector, given>>

\* deleteMacosKeychainToken or deleteLinuxOwnerOnlyToken; a miss is ignored.
UninstallDeletesToken ==
    /\ At("uninstall", "token")
    /\ \/ UNCHANGED store
       \/ platform = "linux" /\ Put(File, None)
       \/ platform = "darwin" /\ cmd.id # None /\ Put(cmd.id, None)
    /\ GoTo("allow")
    /\ UNCHANGED <<platform, allow, leftover, collector, given>>

UninstallUnlinksAllow ==
    /\ At("uninstall", "allow")
    /\ allow' \in {allow, None}
    /\ GoTo("file")
    /\ UNCHANGED <<platform, store, leftover, collector, given>>

UninstallUnlinksFile ==
    /\ At("uninstall", "file")
    /\ \/ UNCHANGED store
       \/ Put(File, None)
    /\ End
    /\ UNCHANGED <<platform, allow, leftover, collector, given>>

-----------------------------------------------------------------------------
(* The process of a command dies.  Only the temporary file of a Linux      *)
(* store outlives it.                                                      *)
Dies ==
    /\ cmd # Idle
    /\ leftover' = IF At("setup", "publish") THEN leftover \cup {cmd.token}
                                             ELSE leftover
    /\ End
    /\ UNCHANGED <<platform, allow, store, collector, given>>

-----------------------------------------------------------------------------
(* collectSecretsManagerMachineBundle.                                     *)

CollectLoads ==
    /\ collector.at \in {None, "done"}
    /\ allow # None
    /\ collector' = [at |-> "token", id |-> allow, token |-> None]
    /\ UNCHANGED <<platform, allow, store, leftover, cmd, given>>

\* Mutant: the name is read again for the token.
MutantCollectReads ==
    /\ collector.at = "token"
    /\ allow # None /\ store[Place(allow)] \in Tokens
    /\ collector' = [collector EXCEPT !.at = "done",
                                      !.token = store[Place(allow)]]
    /\ UNCHANGED <<platform, allow, store, leftover, cmd, given>>

CollectReads ==
    /\ collector.at = "token"
    /\ store[Place(collector.id)] \in Tokens
    /\ collector' = [collector EXCEPT !.at = "done",
                                      !.token = store[Place(collector.id)]]
    /\ UNCHANGED <<platform, allow, store, leftover, cmd, given>>

\* No token, one that cannot be read, or a reader that times out.
CollectFails ==
    /\ collector.at = "token"
    /\ collector' = NoCollector
    /\ UNCHANGED <<platform, allow, store, leftover, cmd, given>>

-----------------------------------------------------------------------------

Setup ==
    \/ \E id \in Ids, token \in Tokens : SetupStarts(id, token)
    \/ SetupWritesAllow \/ SetupVerified \/ SetupStores \/ SetupPublishes
    \/ SetupChecked \/ SetupFails

Rename ==
    \/ \E id \in Ids : RenameStarts(id)
    \/ RenameWritesAllow \/ RenameAllowFails \/ RenameStores \/ RenameStoreFails
    \/ RenameUndoes \/ RenameUndoFails \/ RenameDeletes

Uninstall ==
    \/ UninstallStarts \/ UninstallDeletesToken \/ UninstallUnlinksAllow
    \/ UninstallUnlinksFile

Collect == CollectLoads \/ CollectReads \/ CollectFails

Next == Setup \/ Rename \/ LateStore \/ Uninstall \/ Dies \/ Collect

Spec == Init /\ [][Next]_vars

-----------------------------------------------------------------------------
(* Properties.                                                             *)

Stages == {"allow", "verify", "store", "publish", "check", "late", "undo",
           "delete", "token", "file"}

(* The type of every variable.                                             *)
TypeOK ==
    /\ platform \in Platforms
    /\ allow \in Ids \cup {None}
    /\ store \in [Places -> Tokens \cup {None, Torn}]
    /\ leftover \subseteq Tokens
    /\ cmd \in [kind : {None, "setup", "rename", "uninstall"},
                at : Stages \cup {None}, id : Ids \cup {None},
                prev : Ids \cup {None}, token : Tokens \cup {None}]
    /\ collector \in [at : {None, "token", "done"}, id : Ids \cup {None},
                      token : Tokens \cup {None}]
    /\ given \subseteq Ids \X Tokens

(* A rename never loses the token: after each of its steps, the death of   *)
(* its process and swallowed failures included, some place still holds the *)
(* token it set out to move.                                               *)
RenameKeepsTheToken ==
    [][cmd.kind = "rename" => \E p \in Places : store'[p] = cmd.token]_vars

(* However a rename ends, the allow file names a machine whose token is the *)
(* one it set out to move, so that collectors work.  The only exceptions   *)
(* are a death, or a failed second write of the allow file, between the    *)
(* new name and its token.                                                 *)
RenameEndsUsable ==
    [][cmd.kind = "rename" /\ cmd' = Idle =>
          \/ allow' # None /\ store'[Place(allow)'] = cmd.token
          \/ cmd.at \in {"store", "undo"} /\ UNCHANGED allow]_vars

(* On macOS a collector that reads while names change returns a token that *)
(* was given to the name it returns with it, and on no platform a torn one.*)
CollectedUnderItsName ==
    collector.at = "done" =>
        /\ collector.token \in Tokens
        /\ platform = "darwin" => <<collector.id, collector.token>> \in given

SetupPart ==
    cmd.kind = "setup" =>
        /\ cmd.id \in Ids /\ cmd.token \in Tokens
        /\ cmd.at \in {"allow", "verify", "store", "publish", "check", "late"}
        /\ cmd.at # "allow" => <<cmd.id, cmd.token>> \in given
        /\ cmd.at \in {"publish", "check"} => platform = "linux"

RenamePart ==
    cmd.kind = "rename" =>
        /\ cmd.id \in Ids /\ cmd.prev \in Ids /\ cmd.id # cmd.prev
        /\ cmd.token \in Tokens /\ platform \in {"darwin", "linux"}
        /\ cmd.at \in {"allow", "store", "undo", "delete"}
        /\ cmd.at = "allow" =>
              allow = cmd.prev /\ store[Place(cmd.prev)] = cmd.token
        /\ cmd.at # "allow" =>
              /\ platform = "darwin" /\ allow = cmd.id
              /\ <<cmd.id, cmd.token>> \in given
        /\ cmd.at \in {"store", "undo"} => store[cmd.prev] = cmd.token
        /\ cmd.at = "delete" => store[cmd.id] = cmd.token

CollectorPart ==
    /\ collector.at # None => collector.id \in Ids
    /\ CollectedUnderItsName

(* The inductive invariant: a rename knows where its token is at each of   *)
(* its awaits, and on macOS an item holds only tokens given to its name.   *)
SmInv ==
    /\ TypeOK
    /\ SetupPart
    /\ RenamePart
    /\ CollectorPart
    /\ platform = "darwin" =>
          \A id \in Ids : store[id] \in Tokens => <<id, store[id]>> \in given
=============================================================================
