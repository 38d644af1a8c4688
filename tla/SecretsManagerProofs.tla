----------------------- MODULE SecretsManagerProofs -----------------------
(***************************************************************************)
(* Proofs about Secrets Manager, for any machine names, tokens and         *)
(* platform, and for any commands that share one vault.                    *)
(***************************************************************************)
EXTENDS SmLifecycle, SmVault, FiniteSetTheorems, SequenceTheorems, TLAPS

-----------------------------------------------------------------------------
(* The local state.                                                        *)

(* Writing one place leaves every other one alone.                         *)
LEMMA PutOne ==
    ASSUME TypeOK, NEW p \in Places, NEW v \in Tokens \cup {None, Torn},
           Put(p, v)
    PROVE  /\ store' \in [Places -> Tokens \cup {None, Torn}]
           /\ store'[p] = v
           /\ \A q \in Places : q # p => store'[q] = store[q]
BY DEF TypeOK, Put

(* Every machine's token has a place.                                      *)
LEMMA PlaceIsPlace == \A id \in Ids : Place(id) \in Places
BY DEF Place, Places

(* The places are the machines' and the file.                              *)
LEMMA IdsArePlaces == Ids \subseteq Places /\ File \in Places /\ File \notin Ids
BY SmAssumption DEF Places

(* The facts about the local state hold before the first command.          *)
LEMMA InitIsGood == Init => SmInv
<1> SUFFICES ASSUME Init PROVE SmInv
  OBVIOUS
<1>1. TypeOK
  BY DEF Init, TypeOK, Idle, NoCollector, Places
<1>2. \A id \in Ids : store[id] = None
  BY IdsArePlaces DEF Init
<1> QED BY <1>1, <1>2, SmAssumption
      DEF Init, SmInv, SetupPart, RenamePart, CollectorPart,
          CollectedUnderItsName, Idle, NoCollector, None

(* The steps of a setup.                                                   *)
LEMMA SetupStep == SmInv /\ Setup => SmInv'
<1> SUFFICES ASSUME SmInv, Setup PROVE SmInv'
  OBVIOUS
<1> USE DEF SmInv, TypeOK, SetupPart, RenamePart, CollectorPart,
            CollectedUnderItsName, At, GoTo, End, Idle, Stages, Place
<1>1. ASSUME NEW id \in Ids, NEW token \in Tokens, SetupStarts(id, token)
      PROVE  SmInv'
  BY <1>1 DEF SetupStarts, None
<1>2. CASE SetupWritesAllow
  BY <1>2 DEF SetupWritesAllow, AllowWritten
<1>3. CASE SetupVerified
  BY <1>3 DEF SetupVerified
<1>4. CASE SetupStores
  <2>1. CASE LinuxStage("publish")
    BY <1>4, <2>1 DEF SetupStores, LinuxStage
  <2>2. CASE ~LinuxStage("publish")
    <3>1. Put(Place(cmd.id), cmd.token) /\ platform # "linux"
      BY <1>4, <2>2 DEF SetupStores
    <3>2. /\ store' \in [Places -> Tokens \cup {None, Torn}]
          /\ \A q \in Places :
                store'[q] = IF q = Place(cmd.id) THEN cmd.token ELSE store[q]
      BY <1>4, <3>1, PutOne, PlaceIsPlace DEF SetupStores
    <3> QED BY <1>4, <2>2, <3>2, IdsArePlaces DEF SetupStores, None
  <2> QED BY <2>1, <2>2
<1>5. CASE SetupPublishes
  <2>1. /\ store' \in [Places -> Tokens \cup {None, Torn}]
        /\ \A q \in Places : q # File => store'[q] = store[q]
    BY <1>5, PutOne, IdsArePlaces DEF SetupPublishes, LinuxPublish
  <2> QED BY <1>5, <2>1, IdsArePlaces DEF SetupPublishes, LinuxPublish
<1>6. CASE SetupChecked
  BY <1>6 DEF SetupChecked, None
<1>7. CASE SetupFails
  <2>1. CASE UNCHANGED store
    BY <1>7, <2>1 DEF SetupFails, None
  <2>2. CASE cmd.at = "store" /\ \E v \in AfterFailedStore(Place(cmd.id), cmd.token) :
                                    Put(Place(cmd.id), v)
    <3>1. PICK v \in AfterFailedStore(Place(cmd.id), cmd.token) :
              Put(Place(cmd.id), v)
      BY <2>2
    <3>2. /\ v \in Tokens \cup {None, Torn}
          /\ platform = "darwin" => v \in {store[Place(cmd.id)], cmd.token}
      BY <1>7, PlaceIsPlace DEF SetupFails, AfterFailedStore
    <3>3. /\ store' \in [Places -> Tokens \cup {None, Torn}]
          /\ \A q \in Places :
                store'[q] = IF q = Place(cmd.id) THEN v ELSE store[q]
      BY <1>7, <3>1, <3>2, PutOne, PlaceIsPlace DEF SetupFails
    <3> QED BY <1>7, <2>2, <3>2, <3>3, IdsArePlaces DEF SetupFails, None
  <2> QED BY <1>7, <2>1, <2>2 DEF SetupFails
<1> QED BY <1>1, <1>2, <1>3, <1>4, <1>5, <1>6, <1>7 DEF Setup

(* The steps of a rename.                                                  *)
LEMMA RenameStep == SmInv /\ Rename => SmInv'
<1> SUFFICES ASSUME SmInv, Rename PROVE SmInv'
  OBVIOUS
<1> USE DEF SmInv, TypeOK, SetupPart, RenamePart, CollectorPart,
            CollectedUnderItsName, At, GoTo, End, Idle, Stages, Place
<1>1. ASSUME NEW id \in Ids, RenameStarts(id) PROVE SmInv'
  BY <1>1 DEF RenameStarts, CanRename, None
<1>2. CASE RenameWritesAllow
  <2>1. CASE platform = "linux"
    BY <1>2, <2>1 DEF RenameWritesAllow, AllowWritten, None
  <2>2. CASE platform # "linux"
    <3>1. platform = "darwin"
      BY <1>2, <2>2 DEF RenameWritesAllow
    <3> QED BY <1>2, <2>2, <3>1 DEF RenameWritesAllow, AllowWritten
  <2> QED BY <2>1, <2>2
<1>3. CASE RenameAllowFails
  BY <1>3 DEF RenameAllowFails, None
<1>4. CASE RenameStores
  <2>1. /\ store' \in [Places -> Tokens \cup {None, Torn}]
        /\ \A q \in Places :
              store'[q] = IF q = cmd.id THEN cmd.token ELSE store[q]
    BY <1>4, PutOne, IdsArePlaces DEF RenameStores
  <2> QED BY <1>4, <2>1, IdsArePlaces DEF RenameStores
<1>5. CASE RenameStoreFails
  <2>1. PICK v \in AfterFailedStore(cmd.id, cmd.token) : Put(cmd.id, v)
    BY <1>5 DEF RenameStoreFails
  <2>2. v \in {store[cmd.id], cmd.token} /\ v \in Tokens \cup {None, Torn}
    BY <1>5, IdsArePlaces DEF RenameStoreFails, AfterFailedStore
  <2>3. /\ store' \in [Places -> Tokens \cup {None, Torn}]
        /\ \A q \in Places : store'[q] = IF q = cmd.id THEN v ELSE store[q]
    BY <1>5, <2>1, <2>2, PutOne, IdsArePlaces DEF RenameStoreFails
  <2> QED BY <1>5, <2>2, <2>3, IdsArePlaces DEF RenameStoreFails
<1>6. CASE RenameUndoes
  BY <1>6 DEF RenameUndoes, AllowWritten, None
<1>7. CASE RenameUndoFails
  BY <1>7 DEF RenameUndoFails, None
<1>8. CASE RenameDeletes
  <2>1. CASE UNCHANGED store
    BY <1>8, <2>1 DEF RenameDeletes, None
  <2>2. CASE Put(cmd.prev, None)
    <3>1. /\ store' \in [Places -> Tokens \cup {None, Torn}]
          /\ \A q \in Places : store'[q] = IF q = cmd.prev THEN None ELSE store[q]
      BY <1>8, <2>2, PutOne, IdsArePlaces DEF RenameDeletes
    <3> QED BY <1>8, <3>1, IdsArePlaces, SmAssumption DEF RenameDeletes, None
  <2> QED BY <1>8, <2>1, <2>2 DEF RenameDeletes
<1> QED BY <1>1, <1>2, <1>3, <1>4, <1>5, <1>6, <1>7, <1>8 DEF Rename

(* A store of the Keychain that takes effect late.                         *)
LEMMA LateStep == SmInv /\ LateStore => SmInv'
<1> SUFFICES ASSUME SmInv, LateStore PROVE SmInv'
  OBVIOUS
<1> USE DEF SmInv, TypeOK, SetupPart, RenamePart, CollectorPart,
            CollectedUnderItsName, At, Place
<1>1. cmd.id \in Places /\ cmd.token \in Tokens /\ <<cmd.id, cmd.token>> \in given
  BY IdsArePlaces DEF LateStore
<1>2. /\ store' \in [Places -> Tokens \cup {None, Torn}]
      /\ \A q \in Places : store'[q] = IF q = cmd.id THEN cmd.token ELSE store[q]
  BY <1>1, PutOne DEF LateStore
<1> QED BY <1>1, <1>2, IdsArePlaces DEF LateStore

(* The steps of an uninstall, of a death and of a collector.               *)
LEMMA OtherStep == SmInv /\ (Uninstall \/ Dies \/ Collect) => SmInv'
<1> SUFFICES ASSUME SmInv, Uninstall \/ Dies \/ Collect PROVE SmInv'
  OBVIOUS
<1> USE DEF SmInv, TypeOK, SetupPart, RenamePart, CollectorPart,
            CollectedUnderItsName, At, GoTo, End, Idle, Stages, Place
<1>1. CASE UninstallStarts
  BY <1>1 DEF UninstallStarts, None
<1>2. CASE UninstallDeletesToken \/ UninstallUnlinksFile
  <2>1. cmd.kind = "uninstall" /\ cmd'.kind \in {"uninstall", None}
    BY <1>2 DEF UninstallDeletesToken, UninstallUnlinksFile
  <2>2. cmd' \in [kind : {None, "setup", "rename", "uninstall"},
                at : Stages \cup {None}, id : Ids \cup {None},
                prev : Ids \cup {None}, token : Tokens \cup {None}]
    BY <1>2 DEF UninstallDeletesToken, UninstallUnlinksFile
  <2>3. UNCHANGED store \/ \E p \in Places : Put(p, None)
    BY <1>2, IdsArePlaces DEF UninstallDeletesToken, UninstallUnlinksFile
  <2>4. /\ store' \in [Places -> Tokens \cup {None, Torn}]
        /\ \A q \in Places : store'[q] \in {store[q], None}
    BY <2>3, PutOne
  <2>5. UNCHANGED <<platform, allow, leftover, collector, given>>
    BY <1>2 DEF UninstallDeletesToken, UninstallUnlinksFile
  <2> QED BY <2>1, <2>2, <2>4, <2>5, IdsArePlaces, SmAssumption DEF None
<1>3. CASE UninstallUnlinksAllow
  BY <1>3 DEF UninstallUnlinksAllow, None
<1>4. CASE Dies
  BY <1>4 DEF Dies, None
<1>5. CASE CollectLoads
  BY <1>5 DEF CollectLoads, None
<1>6. CASE CollectReads
  <2>1. /\ collector'.at = "done" /\ collector'.id = collector.id
        /\ collector'.token = store[Place(collector.id)]
        /\ collector' \in [at : {None, "token", "done"}, id : Ids \cup {None},
                           token : Tokens \cup {None}]
    BY <1>6 DEF CollectReads
  <2>2. collector.id \in Ids
    BY <1>6 DEF CollectReads, None
  <2>3. CollectorPart'
    BY <1>6, <2>1, <2>2 DEF CollectReads
  <2>4. UNCHANGED <<platform, allow, store, leftover, cmd, given>>
    BY <1>6 DEF CollectReads
  <2>5. TypeOK'
    BY <2>1, <2>4
  <2> QED BY <2>3, <2>4, <2>5
<1>7. CASE CollectFails
  BY <1>7 DEF CollectFails, NoCollector, None
<1> QED BY <1>1, <1>2, <1>3, <1>4, <1>5, <1>6, <1>7 DEF Uninstall, Collect

(* A stuttering step keeps the invariant.                                  *)
LEMMA StutterStep == SmInv /\ UNCHANGED vars => SmInv'
BY DEF vars, SmInv, TypeOK, SetupPart, RenamePart, CollectorPart,
       CollectedUnderItsName, Place

(* SmInv holds in every state that the commands of                         *)
(* secrets-manager-local-lifecycle.mjs can leave.                          *)
THEOREM SmInvariant == Spec => []SmInv
<1>1. SmInv /\ [Next]_vars => SmInv'
  BY SetupStep, RenameStep, LateStep, OtherStep, StutterStep DEF Next
<1> QED BY <1>1, InitIsGood, PTL DEF Spec

(* collectSecretsManagerMachineBundle never pairs a name with the token of *)
(* another name on macOS, whatever is renamed while it runs.               *)
THEOREM CollectorsAgree == Spec => []CollectedUnderItsName
<1>1. SmInv => CollectedUnderItsName
  BY DEF SmInv, CollectorPart
<1> QED BY <1>1, SmInvariant, PTL

(* What a step of a rename, or of anything beside it, does to its token.   *)
LEMMA RenameMoves ==
    ASSUME SmInv, Next, cmd.kind = "rename"
    PROVE  /\ \E p \in Places : store'[p] = cmd.token
           /\ cmd' = Idle =>
                 \/ allow' # None /\ store'[Place(allow)'] = cmd.token
                 \/ cmd.at \in {"store", "undo"} /\ UNCHANGED allow
<1> USE DEF SmInv, TypeOK, RenamePart, At, GoTo, End, Place
<1>1. /\ cmd.id \in Places /\ cmd.prev \in Places /\ Place(cmd.prev) \in Places
      /\ cmd.id # None /\ cmd.prev # None
  BY IdsArePlaces, SmAssumption
<1>2. cmd.kind # None /\ cmd # Idle
  BY DEF Idle, None
<1>3. CASE UNCHANGED <<platform, allow, store>>
  BY <1>1, <1>3
<1>4. CASE RenameWritesAllow
  <2>1. store' = store /\ platform' = platform /\ allow' = cmd.id
    BY <1>4 DEF RenameWritesAllow, AllowWritten
  <2>2. store[Place(cmd.prev)] = cmd.token
    BY <1>4 DEF RenameWritesAllow
  <2>3. cmd' = Idle => platform = "linux"
    BY <1>4, <1>2 DEF RenameWritesAllow, Idle, None
  <2> QED BY <1>1, <2>1, <2>2, <2>3
<1>5. CASE RenameStores
  <2>1. store'[cmd.id] = cmd.token
    BY <1>1, <1>5, PutOne DEF RenameStores
  <2>2. cmd' # Idle
    BY <1>5 DEF RenameStores, Idle, None
  <2> QED BY <1>1, <2>1, <2>2
<1>6. CASE RenameStoreFails
  <2>1. PICK v \in AfterFailedStore(cmd.id, cmd.token) : Put(cmd.id, v)
    BY <1>6 DEF RenameStoreFails
  <2>2. v \in Tokens \cup {None, Torn}
    BY <1>1, <1>6 DEF RenameStoreFails, AfterFailedStore
  <2>3. store'[cmd.prev] = store[cmd.prev]
    BY <1>1, <1>6, <2>1, <2>2, PutOne DEF RenameStoreFails
  <2>4. cmd' # Idle
    BY <1>6 DEF RenameStoreFails, Idle, None
  <2> QED BY <1>1, <1>6, <2>3, <2>4 DEF RenameStoreFails
<1>7. CASE RenameUndoes
  <2>1. store' = store /\ platform' = platform /\ allow' = cmd.prev
    BY <1>7 DEF RenameUndoes, AllowWritten
  <2> QED BY <1>1, <1>7, <2>1 DEF RenameUndoes
<1>8. CASE RenameDeletes
  <2>1. store'[cmd.id] = cmd.token
    BY <1>1, <1>8, PutOne DEF RenameDeletes
  <2>2. allow' = cmd.id /\ platform' = platform /\ platform = "darwin"
    BY <1>8 DEF RenameDeletes
  <2> QED BY <1>1, <2>1, <2>2
<1>9. CASE RenameAllowFails \/ RenameUndoFails \/ Dies \/ Collect
  <2>1. UNCHANGED <<platform, allow, store>>
    BY <1>9 DEF RenameAllowFails, RenameUndoFails, Dies, Collect, CollectLoads,
                CollectReads, CollectFails
  <2> QED BY <1>3, <2>1
<1>10. ~Setup /\ ~Uninstall /\ \A id \in Ids : ~RenameStarts(id)
  BY <1>2 DEF Setup, Uninstall, RenameStarts, SetupStarts, SetupWritesAllow,
              SetupVerified, SetupStores, SetupPublishes, SetupChecked, SetupFails,
              UninstallStarts, UninstallDeletesToken, UninstallUnlinksAllow,
              UninstallUnlinksFile
<1>11. CASE LateStore
  <2>1. store'[cmd.prev] = store[cmd.prev] /\ cmd' = cmd
    BY <1>1, <1>11, PutOne DEF LateStore
  <2> QED BY <1>1, <1>2, <1>11, <2>1 DEF LateStore
<1> QED BY <1>4, <1>5, <1>6, <1>7, <1>8, <1>9, <1>10, <1>11 DEF Next, Rename

(* renameSecretsManagerMachineId keeps a copy of the token through every   *)
(* failure and through the death of its process at any await.              *)
THEOREM RenameNeverLosesTheToken == Spec => RenameKeepsTheToken
<1>1. SmInv /\ [Next]_vars
         => [cmd.kind = "rename" => \E p \in Places : store'[p] = cmd.token]_vars
  <2>1. ASSUME SmInv, Next, cmd.kind = "rename"
        PROVE  \E p \in Places : store'[p] = cmd.token
    BY <2>1, RenameMoves
  <2> QED BY <2>1
<1> QED BY <1>1, SmInvariant, PTL DEF Spec, RenameKeepsTheToken

(* renameSecretsManagerMachineId ends with the allow file and the token of *)
(* the same machine, unless it stops between the two and cannot go back.   *)
THEOREM RenamesEndUsable == Spec => RenameEndsUsable
<1>1. SmInv /\ [Next]_vars
         => [cmd.kind = "rename" /\ cmd' = Idle =>
                \/ allow' # None /\ store'[Place(allow)'] = cmd.token
                \/ cmd.at \in {"store", "undo"} /\ UNCHANGED allow]_vars
  <2>1. ASSUME SmInv, Next, cmd.kind = "rename", cmd' = Idle
        PROVE  \/ allow' # None /\ store'[Place(allow)'] = cmd.token
               \/ cmd.at \in {"store", "undo"} /\ UNCHANGED allow
    BY <2>1, RenameMoves
  <2> QED BY <2>1
<1> QED BY <1>1, SmInvariant, PTL DEF Spec, RenameEndsUsable

-----------------------------------------------------------------------------
(* The vault and the commands that work on it.                             *)

(* The stages of a command that works through its rows.                    *)
Rowing == {"extract", "list", "edit", "create", "fetch", "get"}

(* The kinds of command that verify their rows.                            *)
Verifies(j) == j.program.kind \in {"import", "parity"}

(* The row of a key was read back and found to be what was extracted.      *)
IsVerified(j, k) == \E v \in SmValues : <<k, v>> \in j.verified

(* What is left is the end of the keys, and the rows before it are         *)
(* verified unless one of them failed.                                     *)
Progress(j) ==
    /\ j.program.keys \in Seq(InventoryKeys)
    /\ j.todo \in Seq(InventoryKeys) /\ j.todo # <<>>
    /\ Len(j.todo) <= Len(j.program.keys)
    /\ \A i \in 1 .. Len(j.todo) :
          j.todo[i] = j.program.keys[Len(j.program.keys) - Len(j.todo) + i]
    /\ j.failed \/ \A i \in 1 .. Len(j.program.keys) - Len(j.todo) :
                      IsVerified(j, j.program.keys[i])

(* A command is a record of its program and its progress.                  *)
JobShape(j) ==
    /\ j = [program |-> j.program, at |-> j.at, todo |-> j.todo,
            match |-> j.match, value |-> j.value, failed |-> j.failed,
            verified |-> j.verified, shown |-> j.shown]
    /\ j.failed \in BOOLEAN
    /\ j.program = [f \in DOMAIN j.program |-> j.program[f]]
    /\ {"kind", "keys"} \subseteq DOMAIN j.program

(* The stages of each kind of program.                                     *)
JobStage(j) ==
    /\ j.at \in {"idle", "dialog", "field", "emit", "prunelist", "prune", "seeded",
                 "ok", "failed"} \cup Rowing
    /\ j.at \in {"dialog", "field", "emit"} => j.program.kind = "entry"
    /\ j.at \in {"prunelist", "prune", "seeded"} => j.program.kind = "seed"
    /\ j.at = "extract" => j.program.kind \in {"import", "dryrun", "parity"}
    /\ j.at \in {"fetch", "get"} => j.program.kind \in {"import", "parity", "resolve"}
    /\ j.at \in {"list", "edit", "create"} =>
          j.program.kind \in {"write", "entry", "seed", "import"}
    /\ j.at = "idle" => j.program.kind = "none"

(* What is shown comes from a form that parses.                            *)
JobForm(j) ==
    /\ j.program.kind = "entry" /\ j.at # "failed" =>
          parseSmSecretEntryForm(j.program)
    /\ j.shown # {} => j.at = "ok"
    /\ \A k \in j.shown : j.program.fields[k].kind # "password"

(* A command that verifies its rows is done only when all of them are.     *)
JobRows(j) ==
    Verifies(j) =>
       /\ j.at \in Rowing \cup {"ok", "failed"}
       /\ j.at \in Rowing => Progress(j)
       /\ j.at \in Rowing \ {"extract"} => j.value \in SmValues
       /\ j.at = "ok" =>
             \A i \in 1 .. Len(j.program.keys) : IsVerified(j, j.program.keys[i])

(* What is true of a command by itself.                                    *)
JobOK(j) == JobShape(j) /\ JobStage(j) /\ JobForm(j) /\ JobRows(j)

(* The keys that no command may remove.                                    *)
Kept(b) == BindingKeys \cup (IF b THEN {} ELSE InventoryKeys)

(* Whatever item has one of these numbers, now or later, need not be kept. *)
Doomed(ids, items, n, b) ==
    ids \subseteq 1 .. n /\ \A i \in items : i.id \in ids => i.key \notin Kept(b)

(* Whatever item has one of these numbers, now or later, has that key.     *)
Named(ids, key, items, n) ==
    ids \subseteq 1 .. n /\ \A i \in items : i.id \in ids => i.key = key

(* What is true of the ids that a command remembers, whatever other        *)
(* commands have done to the vault since.                                  *)
JobSees(j, items, n, b) ==
    /\ j.program.kind = "seed" => b \/ j.program.manifestLoads = TRUE
    /\ j.at = "prune" => Doomed(j.match, items, n, b)
    /\ j.at = "get" => Named(j.match, Head(j.todo), items, n)

(* An id of the vault has been given out, and to one key.                  *)
ItemsOK(items, n) ==
    /\ \A i \in items : i = [id |-> i.id, key |-> i.key, value |-> i.value]
                        /\ i.id \in 1 .. n
    /\ \A i, k \in items : i.id = k.id => i.key = k.key

(* The types of the vault, the local stock and the commands.               *)
VaultShape ==
    /\ made \in Nat /\ blind \in BOOLEAN
    /\ local \in [InventoryKeys -> SmValues \cup {NoValue}]
    /\ ItemsOK(vault, made)
    /\ job = [c \in Commands |-> job[c]]

(* A request whose answer was lost deletes only what its command was       *)
(* allowed to.                                                             *)
LateOK(requests, items, n, b) ==
    \A r \in requests :
        /\ r.op \in {"edit", "create", "delete"}
        /\ r.op = "delete" => Doomed(r.ids, items, n, b)

(* The inductive invariant.                                                *)
VaultInv ==
    /\ VaultShape
    /\ \A c \in Commands : JobOK(job[c]) /\ JobSees(job[c], vault, made, blind)
    /\ LateOK(late, vault, made, blind)

(* The command after a row: the rest of the rows, and a fresh start.       *)
LEMMA RowEndsIs ==
    ASSUME NEW j, JobShape(j)
    PROVE  RowEnds(j) =
             [program |-> j.program,
              at |-> IF Tail(j.todo) = <<>> THEN AfterLast(j)
                     ELSE RowStart(j.program.kind),
              todo |-> Tail(j.todo), match |-> {}, value |-> NoValue,
              failed |-> j.failed, verified |-> j.verified, shown |-> j.shown]
<1>1. PICK p, a, t, m, v, f, w, s :
         j = [program |-> p, at |-> a, todo |-> t, match |-> m, value |-> v,
              failed |-> f, verified |-> w, shown |-> s]
  BY DEF JobShape
<1>2. PICK rest : rest = Tail(j.todo)
  OBVIOUS
<1>3. PICK next : next = IF rest = <<>> THEN AfterLast(j)
                         ELSE RowStart(j.program.kind)
  OBVIOUS
<1>4. RowEnds(j) = [j EXCEPT !.todo = rest, !.match = {}, !.value = NoValue,
                             !.at = next]
  BY <1>2, <1>3 DEF RowEnds
<1>5. RowEnds(j) = [program |-> p, at |-> next, todo |-> rest, match |-> {},
                    value |-> NoValue, failed |-> f, verified |-> w, shown |-> s]
  BY <1>1, <1>4
<1>6. /\ p = j.program /\ f = j.failed /\ w = j.verified /\ s = j.shown
  BY <1>1
<1> QED BY <1>2, <1>3, <1>5, <1>6

(* Where a command stands after a row.                                     *)
LEMMA NextRowStage ==
    ASSUME NEW j, JobStage(j), j.at \in Rowing,
           NEW a, a = IF Tail(j.todo) = <<>> THEN AfterLast(j)
                      ELSE RowStart(j.program.kind)
    PROVE  /\ a \in {"extract", "field", "fetch", "list", "prunelist", "seeded",
                     "emit", "ok", "failed"}
           /\ a \in {"field", "emit"} => j.program.kind = "entry"
           /\ a \in {"prunelist", "seeded"} => j.program.kind = "seed"
           /\ a = "extract" => j.program.kind \in {"import", "dryrun", "parity"}
           /\ a = "fetch" => j.program.kind = "resolve"
           /\ a = "list" => j.program.kind \in {"write", "seed"}
           /\ Verifies(j) => /\ Tail(j.todo) # <<>> => a = "extract"
                             /\ Tail(j.todo) = <<>> =>
                                  a = IF j.failed THEN "failed" ELSE "ok"
<1>1. j.program.kind \in {"write", "entry", "seed", "import", "dryrun", "parity",
                          "resolve"}
  BY DEF JobStage, Rowing
<1>2. PICK k : k = j.program.kind
  OBVIOUS
<1>3. ASSUME Tail(j.todo) = <<>>
      PROVE  a = IF k = "seed" THEN IF j.program.prune THEN "prunelist" ELSE "seeded"
                 ELSE IF k = "entry" THEN "emit"
                 ELSE IF j.failed THEN "failed" ELSE "ok"
  BY <1>1, <1>2, <1>3 DEF AfterLast
<1>4. ASSUME Tail(j.todo) # <<>>
      PROVE  a = IF k \in {"import", "dryrun", "parity"} THEN "extract"
                 ELSE IF k = "entry" THEN "field"
                 ELSE IF k = "resolve" THEN "fetch" ELSE "list"
  BY <1>1, <1>2, <1>4 DEF RowStart
<1>5. CASE Tail(j.todo) = <<>>
  BY <1>1, <1>2, <1>3, <1>5 DEF Verifies
<1>6. CASE Tail(j.todo) # <<>>
  BY <1>1, <1>2, <1>4, <1>6 DEF Verifies
<1> QED BY <1>5, <1>6

(* A row of a command that verifies its rows is done.                      *)
LEMMA ProgressGrows ==
    ASSUME NEW j, Progress(j), j.failed \/ IsVerified(j, Head(j.todo))
    PROVE  /\ Tail(j.todo) \in Seq(InventoryKeys)
           /\ Len(Tail(j.todo)) <= Len(j.program.keys)
           /\ \A i \in 1 .. Len(Tail(j.todo)) : Tail(j.todo)[i] =
                 j.program.keys[Len(j.program.keys) - Len(Tail(j.todo)) + i]
           /\ j.failed \/ \A i \in 1 .. Len(j.program.keys) - Len(Tail(j.todo)) :
                            IsVerified(j, j.program.keys[i])
           /\ Tail(j.todo) = <<>> => Len(Tail(j.todo)) = 0
<1>1. PICK ks \in Seq(InventoryKeys) : ks = j.program.keys
  BY DEF Progress
<1>2. PICK td \in Seq(InventoryKeys) : td = j.todo
  BY DEF Progress
<1>0. Len(td) \in Nat /\ Len(ks) \in Nat
  OBVIOUS
<1>3. /\ td # <<>> /\ Len(td) <= Len(ks) /\ Len(td) \in Nat /\ Len(ks) \in Nat
      /\ \A i \in 1 .. Len(td) : td[i] = ks[Len(ks) - Len(td) + i]
      /\ j.failed \/ \A i \in 1 .. Len(ks) - Len(td) : IsVerified(j, ks[i])
  BY <1>0, <1>1, <1>2 DEF Progress
<1>4. PICK rest \in Seq(InventoryKeys) : rest = Tail(td)
  <2>1. td # <<>>
    BY <1>3
  <2>2. Tail(td) \in Seq(InventoryKeys)
    BY <2>1
  <2> QED BY <2>2
<1>5. /\ Len(rest) = Len(td) - 1 /\ Len(td) >= 1 /\ Len(rest) \in Nat
      /\ \A i \in 1 .. Len(rest) : rest[i] = td[i + 1]
      /\ Head(td) = td[1]
  BY <1>3, <1>4
<1>6. \A i \in 1 .. Len(rest) : rest[i] = ks[Len(ks) - Len(rest) + i]
  <2> SUFFICES ASSUME NEW i \in 1 .. Len(rest)
               PROVE  rest[i] = ks[Len(ks) - Len(rest) + i]
    OBVIOUS
  <2>1. i + 1 \in 1 .. Len(td)
    BY <1>5, <1>3
  <2>2. Len(ks) - Len(td) + (i + 1) = Len(ks) - Len(rest) + i
    BY <1>5, <1>3
  <2> QED BY <2>1, <2>2, <1>3, <1>5
<1>7. Head(td) = ks[Len(ks) - Len(rest)]
  <2>1. 1 \in 1 .. Len(td) /\ Len(ks) - Len(td) + 1 = Len(ks) - Len(rest)
    BY <1>3, <1>5
  <2> QED BY <2>1, <1>3, <1>5
<1>8. ~j.failed => \A i \in 1 .. Len(ks) - Len(rest) : IsVerified(j, ks[i])
  <2> SUFFICES ASSUME ~j.failed, NEW i \in 1 .. Len(ks) - Len(rest)
               PROVE  IsVerified(j, ks[i])
    OBVIOUS
  <2>1. i \in 1 .. Len(ks) - Len(td) \/ i = Len(ks) - Len(rest)
    <3>1. \A k, n, m \in Nat : m = n - 1 =>
             \A x \in 1 .. k - m : x \in 1 .. k - n \/ x = k - m
      OBVIOUS
    <3> QED BY <3>1, <1>3, <1>5
  <2>2. IsVerified(j, Head(td))
    BY <1>2
  <2>3. \A n \in 1 .. Len(ks) - Len(td) : IsVerified(j, ks[n])
    BY <1>3
  <2>4. CASE i = Len(ks) - Len(rest)
    BY <2>2, <2>4, <1>7
  <2> QED BY <2>1, <2>3, <2>4
<1>9. Len(rest) <= Len(ks) /\ (rest = <<>> => Len(rest) = 0)
  BY <1>3, <1>5
<1> QED BY <1>1, <1>2, <1>4, <1>6, <1>8, <1>9

(* Ending a row keeps a command in order when the row, of a command that   *)
(* verifies its rows, was verified or counted as failed.                   *)
LEMMA RowEndsOK ==
    ASSUME NEW j, JobOK(j), j.at \in Rowing,
           Verifies(j) => j.failed \/ IsVerified(j, Head(j.todo))
    PROVE  /\ JobOK(RowEnds(j))
           /\ RowEnds(j).program = j.program /\ RowEnds(j).verified = j.verified
           /\ RowEnds(j).at \notin {"prune", "get"}
<1>1. PICK a : a = IF Tail(j.todo) = <<>> THEN AfterLast(j)
                   ELSE RowStart(j.program.kind)
  OBVIOUS
<1>2. PICK x : x = RowEnds(j)
  OBVIOUS
<1>3. x = [program |-> j.program, at |-> a, todo |-> Tail(j.todo), match |-> {},
           value |-> NoValue, failed |-> j.failed, verified |-> j.verified,
           shown |-> j.shown]
  BY <1>1, <1>2, RowEndsIs DEF JobOK
<1>4. /\ x.program = j.program /\ x.at = a /\ x.todo = Tail(j.todo)
      /\ x.match = {} /\ x.value = NoValue /\ x.failed = j.failed
      /\ x.verified = j.verified /\ x.shown = j.shown
  BY <1>3
<1>5. /\ a \in {"extract", "field", "fetch", "list", "prunelist", "seeded",
                "emit", "ok", "failed"}
      /\ a \in {"field", "emit"} => j.program.kind = "entry"
      /\ a \in {"prunelist", "seeded"} => j.program.kind = "seed"
      /\ a = "extract" => j.program.kind \in {"import", "dryrun", "parity"}
      /\ a = "fetch" => j.program.kind = "resolve"
      /\ a = "list" => j.program.kind \in {"write", "seed"}
      /\ Verifies(j) => /\ Tail(j.todo) # <<>> => a = "extract"
                        /\ Tail(j.todo) = <<>> =>
                              a = IF j.failed THEN "failed" ELSE "ok"
  BY <1>1, NextRowStage DEF JobOK
<1>6. JobShape(x)
  BY <1>3, <1>4 DEF JobOK, JobShape
<1>7. JobStage(x)
  BY <1>4, <1>5 DEF JobStage, Rowing
<1>8. JobForm(x)
  <2>1. j.at \notin {"ok", "failed"}
    BY DEF Rowing
  <2> QED BY <1>4, <1>5, <2>1 DEF JobOK, JobForm
<1>9. JobRows(x)
  <2> SUFFICES ASSUME Verifies(x) PROVE
         /\ x.at \in Rowing \cup {"ok", "failed"}
         /\ x.at \in Rowing => Progress(x)
         /\ x.at \in Rowing \ {"extract"} => x.value \in SmValues
         /\ x.at = "ok" => \A i \in 1 .. Len(x.program.keys) :
                              IsVerified(x, x.program.keys[i])
    BY DEF JobRows
  <2>1. Verifies(j) /\ Progress(j)
    BY <1>4 DEF Verifies, JobOK, JobRows
  <2>2. /\ Tail(j.todo) \in Seq(InventoryKeys)
        /\ Len(Tail(j.todo)) <= Len(j.program.keys)
        /\ \A i \in 1 .. Len(Tail(j.todo)) : Tail(j.todo)[i] =
              j.program.keys[Len(j.program.keys) - Len(Tail(j.todo)) + i]
        /\ j.failed \/ \A i \in 1 .. Len(j.program.keys) - Len(Tail(j.todo)) :
                         IsVerified(j, j.program.keys[i])
        /\ Tail(j.todo) = <<>> => Len(Tail(j.todo)) = 0
    BY <2>1, ProgressGrows
  <2>3. \A k : IsVerified(x, k) <=> IsVerified(j, k)
    BY <1>4 DEF IsVerified
  <2>4. CASE Tail(j.todo) # <<>>
    <3>1. Progress(x)
      BY <2>1, <2>2, <2>3, <2>4, <1>4 DEF Progress
    <3> QED BY <1>4, <1>5, <2>1, <2>4, <3>1 DEF Rowing
  <2>5. CASE Tail(j.todo) = <<>>
    <3>1. x.at \in {"ok", "failed"} /\ (x.at = "ok" => ~j.failed)
      BY <1>4, <1>5, <2>1, <2>5
    <3>2. Len(j.program.keys) - Len(Tail(j.todo)) = Len(j.program.keys)
      <4>1. Len(j.program.keys) \in Nat
        BY <2>1 DEF Progress
      <4>2. Len(Tail(j.todo)) = 0
        BY <2>2, <2>5
      <4>3. \A k \in Nat : \A n : n = 0 => k - n = k
        OBVIOUS
      <4> QED BY <4>1, <4>2, <4>3
    <3>3. ~j.failed => \A i \in 1 .. Len(x.program.keys) :
                          IsVerified(x, x.program.keys[i])
      BY <2>2, <2>3, <3>2, <1>4
    <3> QED BY <3>1, <3>3 DEF Rowing
  <2> QED BY <2>4, <2>5
<1> QED BY <1>2, <1>4, <1>5, <1>6, <1>7, <1>8, <1>9 DEF JobOK

(* Giving up keeps a command in order, whatever its kind.                  *)
LEMMA GivesUpOK ==
    ASSUME NEW j, JobOK(j), j.at \notin {"idle", "ok"}
    PROVE  /\ JobOK([j EXCEPT !.at = "failed"])
           /\ [j EXCEPT !.at = "failed"].program = j.program
           /\ [j EXCEPT !.at = "failed"].verified = j.verified
           /\ [j EXCEPT !.at = "failed"].at = "failed"
<1>1. PICK x : x = [j EXCEPT !.at = "failed"]
  OBVIOUS
<1>2. PICK p, a, t, m, v, f, w, s :
         j = [program |-> p, at |-> a, todo |-> t, match |-> m, value |-> v,
              failed |-> f, verified |-> w, shown |-> s]
  BY DEF JobOK, JobShape
<1>3. x = [program |-> p, at |-> "failed", todo |-> t, match |-> m, value |-> v,
           failed |-> f, verified |-> w, shown |-> s]
  BY <1>1, <1>2
<1>4. /\ x.program = j.program /\ x.at = "failed" /\ x.failed = j.failed
      /\ x.verified = j.verified /\ x.shown = j.shown
  BY <1>2, <1>3
<1>5. JobShape(x)
  <2>1. x = [program |-> x.program, at |-> x.at, todo |-> x.todo,
             match |-> x.match, value |-> x.value, failed |-> x.failed,
             verified |-> x.verified, shown |-> x.shown]
    BY <1>3
  <2> QED BY <2>1, <1>4 DEF JobOK, JobShape
<1>6. JobStage(x)
  BY <1>4 DEF JobStage
<1>7. JobForm(x)
  BY <1>4 DEF JobForm, JobOK
<1>8. JobRows(x)
  BY <1>4 DEF JobRows, Rowing
<1> QED BY <1>1, <1>4, <1>5, <1>6, <1>7, <1>8 DEF JobOK

(* A row that fails keeps a command in order.                              *)
LEMMA RowFailsOK ==
    ASSUME NEW j, JobOK(j),
           j.at \in Rowing \cup {"prunelist", "prune"}
    PROVE  /\ JobOK(RowFails(j))
           /\ RowFails(j).program = j.program /\ RowFails(j).verified = j.verified
           /\ RowFails(j).at \notin {"prune", "get"}
<1>1. CASE ~Continues(j)
  <2>1. RowFails(j) = [j EXCEPT !.at = "failed"]
    BY <1>1 DEF RowFails
  <2> QED BY <2>1, GivesUpOK DEF Rowing
<1>2. CASE Continues(j)
  <2>1. PICK x : x = [j EXCEPT !.failed = TRUE]
    OBVIOUS
  <2>2. PICK p, a, t, m, v, f, w, s :
           j = [program |-> p, at |-> a, todo |-> t, match |-> m, value |-> v,
                failed |-> f, verified |-> w, shown |-> s]
    BY DEF JobOK, JobShape
  <2>3. x = [program |-> p, at |-> a, todo |-> t, match |-> m, value |-> v,
             failed |-> TRUE, verified |-> w, shown |-> s]
    BY <2>1, <2>2
  <2>4. /\ x.program = j.program /\ x.at = j.at /\ x.todo = j.todo
        /\ x.match = j.match /\ x.value = j.value /\ x.failed = TRUE
        /\ x.verified = j.verified /\ x.shown = j.shown
    BY <2>2, <2>3
  <2>5. JobShape(x)
    <3>1. x = [program |-> x.program, at |-> x.at, todo |-> x.todo,
               match |-> x.match, value |-> x.value, failed |-> x.failed,
               verified |-> x.verified, shown |-> x.shown]
      BY <2>3
    <3> QED BY <3>1, <2>4 DEF JobOK, JobShape
  <2>6. JobStage(x) /\ JobForm(x)
    BY <2>4 DEF JobOK, JobStage, JobForm
  <2>7. j.at \in Rowing
    BY <1>2 DEF JobOK, JobStage, Continues
  <2>8. JobRows(x)
    <3>1. Verifies(x) => Verifies(j) /\ Progress(j)
      BY <2>4, <2>7 DEF Verifies, JobOK, JobRows
    <3>2. Verifies(x) => Progress(x)
      BY <3>1, <2>4 DEF Progress
    <3>3. j.at # "ok" /\ j.at # "failed"
      BY <2>7 DEF Rowing
    <3> QED BY <3>1, <3>2, <3>3, <2>4, <2>7 DEF JobRows, JobOK
  <2>9. JobOK(x) /\ x.at \in Rowing /\ x.failed = TRUE
    BY <2>4, <2>5, <2>6, <2>7, <2>8 DEF JobOK
  <2>10. RowFails(j) = RowEnds(x)
    BY <1>2, <2>1 DEF RowFails
  <2> QED BY <2>4, <2>9, <2>10, RowEndsOK
<1> QED BY <1>1, <1>2

(* What is known of items is still known when the vault moves on.          *)
Moves(items, n, b, items2, n2, b2) ==
    /\ n2 \in Nat /\ n <= n2 /\ (b => b2)
    /\ \A x \in items2 :
          \/ \E i \in items : i.id = x.id /\ i.key = x.key
          \/ x.id \in Nat /\ x.id > n

(* What was seen of an id stays true while the vault only gains items,     *)
(* loses items and edits values.                                           *)
LEMMA MovesKeep ==
    ASSUME NEW A, NEW n \in Nat, NEW b \in BOOLEAN, NEW B, NEW n2,
           NEW b2 \in BOOLEAN, Moves(A, n, b, B, n2, b2)
    PROVE  /\ \A ids : Doomed(ids, A, n, b) => Doomed(ids, B, n2, b2)
           /\ \A ids, k : Named(ids, k, A, n) => Named(ids, k, B, n2)
<1>1. \A ids : ids \subseteq 1 .. n =>
         /\ ids \subseteq 1 .. n2
         /\ \A x \in B : x.id \in ids => \E i \in A : i.id = x.id /\ i.key = x.key
  BY DEF Moves
<1>2. Kept(b2) \subseteq Kept(b)
  BY DEF Kept, Moves
<1> QED BY <1>1, <1>2 DEF Doomed, Named

(* So a command's ids mean the same after another command's step.          *)
LEMMA JobSeesKeeps ==
    ASSUME VaultInv, NEW d \in Commands, blind' \in BOOLEAN,
           Moves(vault, made, blind, vault', made', blind')
    PROVE  JobSees(job[d], vault', made', blind')
<1>1. made \in Nat /\ blind \in BOOLEAN /\ JobSees(job[d], vault, made, blind)
  BY DEF VaultInv, VaultShape
<1>2. /\ \A ids : Doomed(ids, vault, made, blind) => Doomed(ids, vault', made', blind')
      /\ \A ids, k : Named(ids, k, vault, made) => Named(ids, k, vault', made')
      /\ blind => blind'
  BY <1>1, MovesKeep DEF Moves
<1> QED BY <1>1, <1>2 DEF JobSees

(* And so do those of a request that is still under way.                   *)
LEMMA LateKeeps ==
    ASSUME VaultInv, blind' \in BOOLEAN,
           Moves(vault, made, blind, vault', made', blind')
    PROVE  LateOK(late, vault', made', blind')
<1>1. made \in Nat /\ blind \in BOOLEAN /\ LateOK(late, vault, made, blind)
  BY DEF VaultInv, VaultShape
<1>2. /\ \A ids : Doomed(ids, vault, made, blind) => Doomed(ids, vault', made', blind')
  BY <1>1, MovesKeep
<1> QED BY <1>1, <1>2 DEF LateOK

(* What a command may change of what it knows: its program only when it    *)
(* verifies nothing, and a row is verified by an item that is there.       *)
Recalls(j, before, items) ==
    /\ Verifies(before) => j.program = before.program
    /\ \A kv \in j.verified : \/ kv \in before.verified
                              \/ \E i \in items : <<i.key, i.value>> = kv

(* Of the items that are kept, none is lost.                               *)
Survive == \A i \in vault : i.key \in Kept(blind) =>
              \E x \in vault' : x.id = i.id /\ x.key = i.key

(* What every step does.                                                   *)
GoodStep ==
    /\ VaultInv' /\ Survive
    /\ \A c \in Commands : Recalls(job'[c], job[c], vault)

(* One command takes a step: the others stay as they are and still know    *)
(* what they knew.                                                         *)
LEMMA OneJobMoves ==
    ASSUME VaultInv, NEW c \in Commands,
           job' = [job EXCEPT ![c] = job'[c]],
           JobOK(job'[c]), JobSees(job'[c], vault', made', blind'),
           Moves(vault, made, blind, vault', made', blind'),
           ItemsOK(vault', made'), blind' \in BOOLEAN,
           local' \in [InventoryKeys -> SmValues \cup {NoValue}],
           LateOK(late', vault', made', blind'),
           Survive, Recalls(job'[c], job[c], vault)
    PROVE  GoodStep
<1>1. made' \in Nat
  BY DEF Moves
<1>2. job = [d \in Commands |-> job[d]]
  BY DEF VaultInv, VaultShape
<1>3. job' = [d \in Commands |-> job'[d]] /\ \A d \in Commands \ {c} : job'[d] = job[d]
  BY <1>2
<1>4. \A d \in Commands : JobOK(job'[d]) /\ JobSees(job'[d], vault', made', blind')
  <2> TAKE d \in Commands
  <2>1. CASE d = c
    BY <2>1
  <2>2. CASE d # c
    BY <2>2, <1>3, JobSeesKeeps DEF VaultInv
  <2> QED BY <2>1, <2>2
<1>5. VaultShape'
  BY <1>1, <1>3 DEF VaultShape
<1>6. VaultInv'
  BY <1>4, <1>5 DEF VaultInv
<1>7. \A d \in Commands : Recalls(job'[d], job[d], vault)
  BY <1>3 DEF Recalls
<1> QED BY <1>6, <1>7 DEF GoodStep

(* The vault that stays as it is.                                          *)
LEMMA StillMoves ==
    ASSUME VaultInv, vault' = vault, made' = made, blind' \in BOOLEAN, blind => blind'
    PROVE  /\ Moves(vault, made, blind, vault', made', blind')
           /\ ItemsOK(vault', made')
BY DEF VaultInv, VaultShape, Moves

(* One command takes a step that leaves the vault alone.                   *)
LEMMA QuietJobMoves ==
    ASSUME VaultInv, NEW c \in Commands, UNCHANGED <<vault, made, late, local, blind>>,
           NEW j, job' = [job EXCEPT ![c] = j],
           JobOK(j), JobSees(j, vault, made, blind), Recalls(j, job[c], vault)
    PROVE  GoodStep
<1>1. job = [d \in Commands |-> job[d]] /\ blind \in BOOLEAN
      /\ local \in [InventoryKeys -> SmValues \cup {NoValue}]
  BY DEF VaultInv, VaultShape
<1>2. job'[c] = j /\ \A d \in Commands \ {c} : job'[d] = job[d]
  BY <1>1
<1>3. /\ Moves(vault, made, blind, vault', made', blind')
      /\ ItemsOK(vault', made')
  BY <1>1, StillMoves
<1>4. LateOK(late', vault', made', blind')
  BY DEF VaultInv
<1>5. Survive
  BY DEF Survive
<1> QED BY <1>1, <1>2, <1>3, <1>4, <1>5, OneJobMoves

(* A command with its stage, its items, its value and what it shows        *)
(* changed.                                                                *)
Became(x, j, at, match, value, shown) ==
    /\ JobShape(x)
    /\ x.program = j.program /\ x.at = at /\ x.todo = j.todo
    /\ x.match = match /\ x.value = value /\ x.failed = j.failed
    /\ x.verified = j.verified /\ x.shown = shown

(* A command that goes on to another stage.                                *)
LEMMA GoesTo ==
    ASSUME NEW j, JobShape(j), NEW a, NEW x, x = [j EXCEPT !.at = a]
    PROVE  Became(x, j, a, j.match, j.value, j.shown)
<1>2. PICK p, b, t, m, v, f, w, s :
         j = [program |-> p, at |-> b, todo |-> t, match |-> m, value |-> v,
              failed |-> f, verified |-> w, shown |-> s]
  BY DEF JobShape
<1>3. x = [program |-> p, at |-> a, todo |-> t, match |-> m,
           value |-> v, failed |-> f, verified |-> w, shown |-> s]
  BY <1>2
<1>4. /\ x.program = j.program /\ x.at = a /\ x.todo = j.todo
      /\ x.match = j.match /\ x.value = j.value /\ x.failed = j.failed
      /\ x.verified = j.verified /\ x.shown = j.shown
  BY <1>2, <1>3
<1>5. x = [program |-> x.program, at |-> x.at, todo |-> x.todo,
           match |-> x.match, value |-> x.value, failed |-> x.failed,
           verified |-> x.verified, shown |-> x.shown]
  BY <1>3
<1> QED BY <1>4, <1>5 DEF JobShape, Became

(* A command that goes on with the items that it found.                    *)
LEMMA GoesAndMatches ==
    ASSUME NEW j, JobShape(j), NEW a, NEW ids, NEW x, x = [j EXCEPT !.match = ids, !.at = a]
    PROVE  Became(x, j, a, ids, j.value, j.shown)
<1>2. PICK p, b, t, m, v, f, w, s :
         j = [program |-> p, at |-> b, todo |-> t, match |-> m, value |-> v,
              failed |-> f, verified |-> w, shown |-> s]
  BY DEF JobShape
<1>3. x = [program |-> p, at |-> a, todo |-> t, match |-> ids,
           value |-> v, failed |-> f, verified |-> w, shown |-> s]
  BY <1>2
<1>4. /\ x.program = j.program /\ x.at = a /\ x.todo = j.todo
      /\ x.match = ids /\ x.value = j.value /\ x.failed = j.failed
      /\ x.verified = j.verified /\ x.shown = j.shown
  BY <1>2, <1>3
<1>5. x = [program |-> x.program, at |-> x.at, todo |-> x.todo,
           match |-> x.match, value |-> x.value, failed |-> x.failed,
           verified |-> x.verified, shown |-> x.shown]
  BY <1>3
<1> QED BY <1>4, <1>5 DEF JobShape, Became

(* A command that goes on with the value that it read.                     *)
LEMMA GoesAndReads ==
    ASSUME NEW j, JobShape(j), NEW a, NEW val, NEW x, x = [j EXCEPT !.value = val, !.at = a]
    PROVE  Became(x, j, a, j.match, val, j.shown)
<1>2. PICK p, b, t, m, v, f, w, s :
         j = [program |-> p, at |-> b, todo |-> t, match |-> m, value |-> v,
              failed |-> f, verified |-> w, shown |-> s]
  BY DEF JobShape
<1>3. x = [program |-> p, at |-> a, todo |-> t, match |-> m,
           value |-> val, failed |-> f, verified |-> w, shown |-> s]
  BY <1>2
<1>4. /\ x.program = j.program /\ x.at = a /\ x.todo = j.todo
      /\ x.match = j.match /\ x.value = val /\ x.failed = j.failed
      /\ x.verified = j.verified /\ x.shown = j.shown
  BY <1>2, <1>3
<1>5. x = [program |-> x.program, at |-> x.at, todo |-> x.todo,
           match |-> x.match, value |-> x.value, failed |-> x.failed,
           verified |-> x.verified, shown |-> x.shown]
  BY <1>3
<1> QED BY <1>4, <1>5 DEF JobShape, Became

(* A command that ends with values that it shows.                          *)
LEMMA GoesAndShows ==
    ASSUME NEW j, JobShape(j), NEW sh, NEW x, x = [j EXCEPT !.at = "ok", !.shown = sh]
    PROVE  Became(x, j, "ok", j.match, j.value, sh)
<1>2. PICK p, b, t, m, v, f, w, s :
         j = [program |-> p, at |-> b, todo |-> t, match |-> m, value |-> v,
              failed |-> f, verified |-> w, shown |-> s]
  BY DEF JobShape
<1>3. x = [program |-> p, at |-> "ok", todo |-> t, match |-> m,
           value |-> v, failed |-> f, verified |-> w, shown |-> sh]
  BY <1>2
<1>4. /\ x.program = j.program /\ x.at = "ok" /\ x.todo = j.todo
      /\ x.match = j.match /\ x.value = j.value /\ x.failed = j.failed
      /\ x.verified = j.verified /\ x.shown = sh
  BY <1>2, <1>3
<1>5. x = [program |-> x.program, at |-> x.at, todo |-> x.todo,
           match |-> x.match, value |-> x.value, failed |-> x.failed,
           verified |-> x.verified, shown |-> x.shown]
  BY <1>3
<1> QED BY <1>4, <1>5 DEF JobShape, Became

(* What is known of a command in order.                                    *)
LEMMA JobKnown ==
    ASSUME VaultInv, NEW c \in Commands
    PROVE  /\ JobOK(job[c]) /\ JobSees(job[c], vault, made, blind)
           /\ JobShape(job[c]) /\ JobStage(job[c]) /\ JobForm(job[c])
           /\ JobRows(job[c])
           /\ job = [d \in Commands |-> job[d]]
BY DEF VaultInv, VaultShape, JobOK

(* The dialog opens, is cancelled or answered.                             *)
LEMMA DialogStep ==
    ASSUME VaultInv, NEW c \in Commands,
           DialogFails(c) \/ DialogAnswers(c) \/ FieldStarts(c)
    PROVE  GoodStep
<1>1. /\ JobOK(job[c]) /\ JobSees(job[c], vault, made, blind)
      /\ JobShape(job[c]) /\ JobStage(job[c]) /\ JobForm(job[c])
      /\ JobRows(job[c]) /\ job = [d \in Commands |-> job[d]]
  BY JobKnown
<1>2. job[c].at \in {"dialog", "field"}
  BY DEF DialogFails, DialogAnswers, FieldStarts, Stands
<1>3. UNCHANGED <<vault, made, late, local, blind>>
  BY DEF DialogFails, DialogAnswers, FieldStarts
<1>4. PICK a \in {"failed", "field", "list"} : job' = [job EXCEPT ![c].at = a]
  BY DEF DialogFails, DialogAnswers, FieldStarts
<1>5. PICK x : x = [job[c] EXCEPT !.at = a]
  OBVIOUS
<1>6. job' = [job EXCEPT ![c] = x]
  BY <1>4, <1>5
<1>11. Became(x, job[c], a, job[c].match, job[c].value, job[c].shown)
  BY <1>1, <1>5, GoesTo
<1>7. /\ JobShape(x)
      /\ x.program = job[c].program /\ x.at = a /\ x.todo = job[c].todo
      /\ x.match = job[c].match /\ x.value = job[c].value
      /\ x.failed = job[c].failed
      /\ x.verified = job[c].verified /\ x.shown = job[c].shown
  BY <1>11 DEF Became
<1>8. job[c].program.kind = "entry"
  BY <1>1, <1>2 DEF JobStage
<1>9. JobStage(x) /\ JobForm(x) /\ JobRows(x)
  BY <1>1, <1>2, <1>7, <1>8 DEF JobStage, JobForm, JobRows, Verifies, Rowing
<1>10. JobSees(x, vault, made, blind) /\ Recalls(x, job[c], vault)
  BY <1>7, <1>8 DEF JobSees, Recalls
<1> QED BY <1>3, <1>6, <1>7, <1>9, <1>10, QuietJobMoves DEF JobOK

(* The form emits its fields.                                              *)
LEMMA EmitStep ==
    ASSUME VaultInv, NEW c \in Commands, Emit(c)
    PROVE  GoodStep
<1>1. /\ JobOK(job[c]) /\ JobSees(job[c], vault, made, blind)
      /\ JobShape(job[c]) /\ JobStage(job[c]) /\ JobForm(job[c])
      /\ JobRows(job[c]) /\ job = [d \in Commands |-> job[d]]
  BY JobKnown
<1>2. job[c].at = "emit" /\ UNCHANGED <<vault, made, late, local, blind>>
  BY DEF Emit, Stands
<1>3. PICK pl \in SUBSET DOMAIN job[c].program.fields :
         job' = [job EXCEPT ![c] =
             [job[c] EXCEPT !.at = "ok",
                !.shown = sanitizeSmSecretEntryPublicValues(job[c].program, pl)]]
  BY DEF Emit
<1>4. PICK sh : sh = sanitizeSmSecretEntryPublicValues(job[c].program, pl)
  OBVIOUS
<1>7. PICK j : j = job[c]
  OBVIOUS
<1>5. PICK x : x = [j EXCEPT !.at = "ok", !.shown = sh]
  OBVIOUS
<1>6. job' = [job EXCEPT ![c] = x]
  <2>1. x = [job[c] EXCEPT !.at = "ok",
               !.shown = sanitizeSmSecretEntryPublicValues(job[c].program, pl)]
    BY <1>4, <1>5, <1>7
  <2> QED BY <1>3, <2>1
<1>8. JobShape(j)
  BY <1>1, <1>7
<1>10. Became(x, j, "ok", j.match, j.value, sh)
  BY <1>5, <1>8, GoesAndShows
<1>9. /\ JobShape(x)
      /\ x.program = job[c].program /\ x.at = "ok" /\ x.failed = job[c].failed
      /\ x.verified = job[c].verified /\ x.shown = sh
  BY <1>7, <1>10 DEF Became
<1>11. job[c].program.kind = "entry" /\ parseSmSecretEntryForm(job[c].program)
  BY <1>1, <1>2 DEF JobStage, JobForm
<1>12. \A k \in sh : job[c].program.fields[k].kind # "password"
  BY <1>4, <1>11 DEF sanitizeSmSecretEntryPublicValues, parseSmSecretEntryForm
<1>13. JobStage(x) /\ JobForm(x) /\ JobRows(x)
  BY <1>9, <1>11, <1>12 DEF JobStage, JobForm, JobRows, Verifies
<1>14. JobSees(x, vault, made, blind) /\ Recalls(x, job[c], vault)
  BY <1>9, <1>11 DEF JobSees, Recalls
<1> QED BY <1>2, <1>6, <1>9, <1>13, <1>14, QuietJobMoves DEF JobOK

(* A step that ends the row of a command, one way or the other.            *)
LEMMA RowIsOver ==
    ASSUME VaultInv, NEW c \in Commands, job[c].at \in Rowing,
           UNCHANGED <<vault, made, late, local, blind>>,
           \/ job' = [job EXCEPT ![c] = RowFails(job[c])]
           \/ ~Verifies(job[c]) /\ job' = [job EXCEPT ![c] = RowEnds(job[c])]
    PROVE  GoodStep
<1>1. /\ JobOK(job[c]) /\ JobSees(job[c], vault, made, blind)
  BY JobKnown
<1>2. CASE job' = [job EXCEPT ![c] = RowFails(job[c])]
  <2>1. PICK x : x = RowFails(job[c])
    OBVIOUS
  <2>2. /\ JobOK(x) /\ x.program = job[c].program /\ x.verified = job[c].verified
        /\ x.at \notin {"prune", "get"}
    BY <1>1, <2>1, RowFailsOK
  <2>3. JobSees(x, vault, made, blind) /\ Recalls(x, job[c], vault)
    BY <1>1, <2>2 DEF JobSees, Recalls
  <2>4. job' = [job EXCEPT ![c] = x]
    BY <1>2, <2>1
  <2> QED BY <2>2, <2>3, <2>4, QuietJobMoves
<1>3. CASE ~Verifies(job[c]) /\ job' = [job EXCEPT ![c] = RowEnds(job[c])]
  <2>1. PICK x : x = RowEnds(job[c])
    OBVIOUS
  <2>2. /\ JobOK(x) /\ x.program = job[c].program /\ x.verified = job[c].verified
        /\ x.at \notin {"prune", "get"}
    BY <1>1, <1>3, <2>1, RowEndsOK
  <2>3. JobSees(x, vault, made, blind) /\ Recalls(x, job[c], vault)
    BY <1>1, <2>2 DEF JobSees, Recalls
  <2>4. job' = [job EXCEPT ![c] = x]
    BY <1>3, <2>1
  <2> QED BY <2>2, <2>3, <2>4, QuietJobMoves
<1> QED BY <1>2, <1>3

(* A value is extracted from the local store.                              *)
LEMMA ExtractStep ==
    ASSUME VaultInv, NEW c \in Commands, Extract(c)
    PROVE  GoodStep
<1>1. /\ JobOK(job[c]) /\ JobSees(job[c], vault, made, blind)
      /\ JobShape(job[c]) /\ JobStage(job[c]) /\ JobForm(job[c])
      /\ JobRows(job[c]) /\ job = [d \in Commands |-> job[d]]
  BY JobKnown
<1>2. job[c].at = "extract" /\ UNCHANGED <<vault, made, late, local, blind>>
  BY DEF Extract, Stands
<1>3. job[c].program.kind \in {"import", "dryrun", "parity"} /\ job[c].at \in Rowing
  BY <1>1, <1>2 DEF JobStage, Rowing
<1>4. PICK val : val = local[Key(c)]
  OBVIOUS
<1>5. PICK a \in {"fetch", "list"} :
         \/ job' = [job EXCEPT ![c] = RowFails(job[c])]
         \/ /\ job[c].program.kind = "dryrun"
            /\ job' = [job EXCEPT ![c] = RowEnds(job[c])]
         \/ /\ val # NoValue
            /\ a = "fetch" => job[c].program.kind = "parity"
            /\ a = "list" => job[c].program.kind = "import"
            /\ job' = [job EXCEPT ![c] = [job[c] EXCEPT !.value = val, !.at = a]]
  BY <1>3, <1>4 DEF Extract
<1>6. CASE /\ val # NoValue
           /\ a = "fetch" => job[c].program.kind = "parity"
           /\ a = "list" => job[c].program.kind = "import"
           /\ job' = [job EXCEPT ![c] = [job[c] EXCEPT !.value = val, !.at = a]]
  <2>2. PICK j : j = job[c]
    OBVIOUS
  <2>1. PICK x : x = [j EXCEPT !.value = val, !.at = a]
    OBVIOUS
  <2>3. JobShape(j)
    BY <1>1, <2>2
  <2>5. Became(x, j, a, j.match, val, j.shown)
    BY <2>1, <2>3, GoesAndReads
  <2>4. /\ JobShape(x)
        /\ x.program = job[c].program /\ x.at = a /\ x.todo = job[c].todo
        /\ x.value = val /\ x.failed = job[c].failed
        /\ x.verified = job[c].verified /\ x.shown = job[c].shown
    BY <2>2, <2>5 DEF Became
  <2>6. job[c].program.kind \in {"import", "parity"} /\ Verifies(job[c])
    BY <1>6 DEF Verifies
  <2>7. Progress(job[c])
    BY <1>1, <1>3, <2>6 DEF JobRows
  <2>8. Progress(x)
    BY <2>4, <2>7 DEF Progress, IsVerified
  <2>9. Key(c) \in InventoryKeys
    <3>1. job[c].todo \in Seq(InventoryKeys) /\ job[c].todo # <<>>
      BY <2>7 DEF Progress
    <3> QED BY <3>1 DEF Key
  <2>10. val \in SmValues
    BY <1>4, <1>6, <2>9 DEF VaultInv, VaultShape
  <2>11. JobStage(x) /\ JobForm(x)
    BY <1>1, <1>2, <1>6, <2>4, <2>6 DEF JobStage, JobForm, Rowing
  <2>12. JobRows(x)
    BY <2>4, <2>8, <2>10 DEF JobRows, Rowing
  <2>13. JobSees(x, vault, made, blind) /\ Recalls(x, job[c], vault)
    BY <2>4, <2>6 DEF JobSees, Recalls
  <2>14. job' = [job EXCEPT ![c] = x]
    BY <1>6, <2>1, <2>2
  <2> QED BY <1>2, <2>4, <2>11, <2>12, <2>13, <2>14, QuietJobMoves DEF JobOK
<1>7. CASE \/ job' = [job EXCEPT ![c] = RowFails(job[c])]
           \/ /\ job[c].program.kind = "dryrun"
              /\ job' = [job EXCEPT ![c] = RowEnds(job[c])]
  BY <1>2, <1>3, <1>7, RowIsOver DEF Verifies
<1> QED BY <1>5, <1>6, <1>7

(* The numbers of the items with some property are numbers that were given.*)
LEMMA IdsOf ==
    ASSUME VaultInv, NEW S \in SUBSET vault, NEW ids, ids = {i.id : i \in S}
    PROVE  /\ ids \subseteq 1 .. made
           /\ \A i \in vault : i.id \in ids => \E k \in S : k.key = i.key
BY DEF VaultInv, VaultShape, ItemsOK

(* The project is listed for the key of the row.                           *)
LEMMA ListStep ==
    ASSUME VaultInv, NEW c \in Commands, List(c) \/ FetchList(c)
    PROVE  GoodStep
<1>1. /\ JobOK(job[c]) /\ JobSees(job[c], vault, made, blind)
      /\ JobShape(job[c]) /\ JobStage(job[c]) /\ JobForm(job[c])
      /\ JobRows(job[c]) /\ job = [d \in Commands |-> job[d]]
  BY JobKnown
<1>2. /\ job[c].at \in {"list", "fetch"} /\ job[c].at \in Rowing
      /\ UNCHANGED <<vault, made, late, local, blind>>
  BY DEF List, FetchList, Stands, Rowing
<1>3. PICK ids : ids = {i.id : i \in Matches(Key(c))}
  OBVIOUS
<1>4. PICK a \in {"create", "edit", "get"} :
         \/ job' = [job EXCEPT ![c] = RowFails(job[c])]
         \/ /\ job' = [job EXCEPT ![c] = [job[c] EXCEPT !.match = ids, !.at = a]]
            /\ job[c].at = "list" => a \in {"create", "edit"}
            /\ job[c].at = "fetch" => a = "get"
            /\ a = "get" => Cardinality(Matches(Key(c))) = 1
  <2>1. CASE List(c)
    <3>1. CASE Matches(Key(c)) = {}
      BY <2>1, <3>1, <1>3 DEF List, Stands
    <3>2. CASE Matches(Key(c)) # {}
      BY <2>1, <3>2, <1>3 DEF List, Stands
    <3> QED BY <3>1, <3>2
  <2>2. CASE FetchList(c)
    BY <2>2, <1>3 DEF FetchList, Stands
  <2> QED BY <2>1, <2>2
<1>5. CASE job' = [job EXCEPT ![c] = RowFails(job[c])]
  BY <1>2, <1>5, RowIsOver
<1>6. CASE /\ job' = [job EXCEPT ![c] = [job[c] EXCEPT !.match = ids, !.at = a]]
           /\ job[c].at = "list" => a \in {"create", "edit"}
           /\ job[c].at = "fetch" => a = "get"
           /\ a = "get" => Cardinality(Matches(Key(c))) = 1
  <2>1. PICK j : j = job[c]
    OBVIOUS
  <2>2. PICK x : x = [j EXCEPT !.match = ids, !.at = a]
    OBVIOUS
  <2>3. JobShape(j)
    BY <1>1, <2>1
  <2>4. Became(x, j, a, ids, j.value, j.shown)
    BY <2>2, <2>3, GoesAndMatches
  <2>5. /\ JobShape(x)
        /\ x.program = job[c].program /\ x.at = a /\ x.todo = job[c].todo
        /\ x.match = ids /\ x.value = job[c].value /\ x.failed = job[c].failed
        /\ x.verified = job[c].verified /\ x.shown = job[c].shown
    BY <2>1, <2>4 DEF Became
  <2>6. JobStage(x) /\ JobForm(x)
    BY <1>1, <1>2, <1>6, <2>5 DEF JobStage, JobForm, Rowing
  <2>7. Progress(job[c]) => Progress(x)
    BY <2>5 DEF Progress, IsVerified
  <2>8. JobRows(x)
    BY <1>1, <1>2, <1>6, <2>5, <2>7 DEF JobRows, Verifies, Rowing
  <2>9. Named(ids, Head(x.todo), vault, made)
    <3>1. PICK S \in SUBSET vault : S = Matches(Key(c))
      BY DEF Matches
    <3>2. /\ ids \subseteq 1 .. made
          /\ \A i \in vault : i.id \in ids => \E k \in S : k.key = i.key
      BY <1>3, <3>1, IdsOf
    <3>3. \A k \in S : k.key = Key(c)
      BY <3>1 DEF Matches
    <3> QED BY <3>2, <3>3, <2>5 DEF Named, Key
  <2>10. JobSees(x, vault, made, blind) /\ Recalls(x, job[c], vault)
    BY <1>1, <2>5, <2>9 DEF JobSees, Recalls
  <2>11. job' = [job EXCEPT ![c] = x]
    BY <1>6, <2>1, <2>2
  <2> QED BY <1>2, <2>5, <2>6, <2>8, <2>10, <2>11, QuietJobMoves DEF JobOK
<1> QED BY <1>4, <1>5, <1>6

(* A command with one more row verified.                                   *)
Checked(x, j, val) ==
    /\ JobOK(x) /\ x.at = j.at /\ x.program = j.program
    /\ IsVerified(x, Head(x.todo))
    /\ x.verified = j.verified \cup {<<Head(j.todo), val>>}

(* A verified row is added to a command that verifies its rows.            *)
LEMMA VerifiedOK ==
    ASSUME NEW j, JobOK(j), j.at \in Rowing, NEW val \in SmValues, NEW x,
           x = [j EXCEPT !.verified = j.verified \cup {<<Head(j.todo), val>>}]
    PROVE  Checked(x, j, val)
<1>1. PICK w2 : w2 = j.verified \cup {<<Head(j.todo), val>>}
  OBVIOUS
<1>2. PICK p, a, t, m, v, f, w, s :
         j = [program |-> p, at |-> a, todo |-> t, match |-> m, value |-> v,
              failed |-> f, verified |-> w, shown |-> s]
  BY DEF JobOK, JobShape
<1>3. x = [j EXCEPT !.verified = w2]
  BY <1>1
<1>4. x = [program |-> p, at |-> a, todo |-> t, match |-> m, value |-> v,
           failed |-> f, verified |-> w2, shown |-> s]
  BY <1>2, <1>3
<1>5. /\ x.program = j.program /\ x.at = j.at /\ x.todo = j.todo
      /\ x.value = j.value /\ x.failed = j.failed
      /\ x.verified = w2 /\ x.shown = j.shown
  BY <1>2, <1>4
<1>6. JobShape(x)
  <2>1. x = [program |-> x.program, at |-> x.at, todo |-> x.todo,
             match |-> x.match, value |-> x.value, failed |-> x.failed,
             verified |-> x.verified, shown |-> x.shown]
    BY <1>4
  <2> QED BY <2>1, <1>5 DEF JobOK, JobShape
<1>7. JobStage(x) /\ JobForm(x)
  BY <1>5 DEF JobOK, JobStage, JobForm
<1>8. \A k : IsVerified(j, k) => IsVerified(x, k)
  BY <1>1, <1>5 DEF IsVerified
<1>9. Progress(j) => Progress(x)
  BY <1>5, <1>8 DEF Progress
<1>10. JobRows(x)
  BY <1>5, <1>9 DEF JobOK, JobRows, Verifies, Rowing
<1>11. IsVerified(x, Head(x.todo))
  BY <1>1, <1>5 DEF IsVerified
<1> QED BY <1>1, <1>5, <1>6, <1>7, <1>10, <1>11 DEF JobOK, Checked

(* The item is read: a row is verified by an item that is there, under the *)
(* key of the row.                                                         *)
LEMMA GetStep ==
    ASSUME VaultInv, NEW c \in Commands, Get(c)
    PROVE  GoodStep
<1>1. /\ JobOK(job[c]) /\ JobSees(job[c], vault, made, blind)
      /\ JobShape(job[c]) /\ JobStage(job[c]) /\ JobForm(job[c])
      /\ JobRows(job[c]) /\ job = [d \in Commands |-> job[d]]
  BY JobKnown
<1>2. /\ job[c].at = "get" /\ job[c].at \in Rowing
      /\ job[c].program.kind \in {"import", "parity", "resolve"}
      /\ UNCHANGED <<vault, made, late, local, blind>>
  BY <1>1 DEF Get, Stands, Rowing, JobStage
<1>3. CASE job' = [job EXCEPT ![c] = RowFails(job[c])]
  BY <1>2, <1>3, RowIsOver
<1>4. ASSUME NEW i \in vault, i.id \in job[c].match,
             job' = [job EXCEPT ![c] = Fetched(job[c], i.value)]
      PROVE  GoodStep
  <2>1. CASE job[c].program.kind = "resolve"
    <3>1. Fetched(job[c], i.value) = RowEnds(job[c]) /\ ~Verifies(job[c])
      BY <2>1 DEF Fetched, Verifies
    <3> QED BY <1>2, <1>4, <3>1, RowIsOver
  <2>2. CASE job[c].program.kind # "resolve" /\ i.value # job[c].value
    <3>1. Fetched(job[c], i.value) = RowFails(job[c])
      BY <1>2, <2>2 DEF Fetched
    <3> QED BY <1>2, <1>4, <3>1, RowIsOver
  <2>3. CASE job[c].program.kind # "resolve" /\ i.value = job[c].value
    <3>1. PICK j : j = job[c]
      OBVIOUS
    <3>2. PICK val \in SmValues : val = i.value
      BY <1>1, <1>2, <2>3 DEF JobRows, Verifies
    <3>3. PICK x : x = [j EXCEPT !.verified = j.verified \cup {<<Head(j.todo), val>>}]
      OBVIOUS
    <3>4. /\ JobOK(x) /\ x.at = j.at /\ x.program = j.program
          /\ IsVerified(x, Head(x.todo))
          /\ x.verified = j.verified \cup {<<Head(j.todo), val>>}
      <4>1. JobOK(j) /\ j.at \in Rowing
        BY <1>1, <1>2, <3>1
      <4>2. Checked(x, j, val)
        BY <3>3, <4>1, VerifiedOK
      <4> QED BY <4>2 DEF Checked
    <3>5. PICK y : y = RowEnds(x)
      OBVIOUS
    <3>6. x.at \in Rowing
      BY <1>2, <3>1, <3>4
    <3>7. /\ JobOK(y) /\ y.program = x.program /\ y.verified = x.verified
          /\ y.at \notin {"prune", "get"}
      BY <3>4, <3>5, <3>6, RowEndsOK
    <3>8. Fetched(job[c], i.value) = y
      <4>1. j.program.kind \in {"import", "parity"} /\ val = j.value
        BY <1>2, <2>3, <3>1, <3>2
      <4>2. Fetched(j, val) = RowEnds(x)
        BY <3>3, <4>1 DEF Fetched
      <4> QED BY <4>2, <3>1, <3>2, <3>5
    <3>9. i.key = Head(j.todo)
      BY <1>1, <1>2, <1>4, <3>1 DEF JobSees, Named
    <3>10. Recalls(y, job[c], vault)
      BY <3>1, <3>2, <3>4, <3>7, <3>9 DEF Recalls
    <3>11. JobSees(y, vault, made, blind)
      BY <1>1, <3>1, <3>4, <3>7 DEF JobSees
    <3>12. job' = [job EXCEPT ![c] = y]
      BY <1>4, <3>8
    <3> QED BY <1>2, <3>7, <3>10, <3>11, <3>12, QuietJobMoves
  <2> QED BY <2>1, <2>2, <2>3
<1> QED BY <1>3, <1>4 DEF Get

(* A seed chooses what it prunes, and ends its pruning.                    *)
LEMMA PruneListStep ==
    ASSUME VaultInv, NEW c \in Commands, PruneList(c)
    PROVE  GoodStep
<1>1. /\ JobOK(job[c]) /\ JobSees(job[c], vault, made, blind)
      /\ JobShape(job[c]) /\ JobStage(job[c]) /\ JobForm(job[c])
      /\ JobRows(job[c]) /\ job = [d \in Commands |-> job[d]]
  BY JobKnown
<1>2. /\ job[c].at = "prunelist" /\ job[c].program.kind = "seed"
      /\ UNCHANGED <<vault, made, late, local, blind>>
  BY <1>1 DEF PruneList, Stands, JobStage
<1>3. PICK S \in SUBSET vault :
         S = {x \in vault : x.key \notin requiredKeysByProject(job[c].program)}
  OBVIOUS
<1>4. PICK ids : ids = {i.id : i \in S}
  OBVIOUS
<1>5. PICK j : j = job[c]
  OBVIOUS
<1>6. PICK x : x = [j EXCEPT !.match = ids, !.at = "prune"]
  OBVIOUS
<1>7. job' = [job EXCEPT ![c] = x]
  <2>1. job' = [job EXCEPT ![c] = [job[c] EXCEPT !.match = ids, !.at = "prune"]]
    BY <1>3, <1>4 DEF PruneList
  <2> QED BY <2>1, <1>5, <1>6
<1>8. Became(x, j, "prune", ids, j.value, j.shown)
  BY <1>1, <1>5, <1>6, GoesAndMatches
<1>9. /\ JobShape(x)
      /\ x.program = job[c].program /\ x.at = "prune" /\ x.todo = job[c].todo
      /\ x.match = ids /\ x.value = job[c].value /\ x.failed = job[c].failed
      /\ x.verified = job[c].verified /\ x.shown = job[c].shown
  BY <1>5, <1>8 DEF Became
<1>10. JobStage(x) /\ JobForm(x) /\ JobRows(x)
  BY <1>1, <1>2, <1>9 DEF JobStage, JobForm, JobRows, Verifies, Rowing
<1>11. Doomed(ids, vault, made, blind)
  <2>1. /\ ids \subseteq 1 .. made
        /\ \A i \in vault : i.id \in ids => \E k \in S : k.key = i.key
    BY <1>4, IdsOf
  <2>2. Kept(blind) \subseteq requiredKeysByProject(job[c].program)
    <3>1. blind \/ job[c].program.manifestLoads = TRUE
      BY <1>1, <1>2 DEF JobSees
    <3>2. blind \in BOOLEAN
      BY DEF VaultInv, VaultShape
    <3> QED BY <3>1, <3>2 DEF Kept, requiredKeysByProject
  <2> QED BY <1>3, <2>1, <2>2 DEF Doomed
<1>12. JobSees(x, vault, made, blind) /\ Recalls(x, job[c], vault)
  BY <1>1, <1>2, <1>9, <1>11 DEF JobSees, Recalls
<1> QED BY <1>2, <1>7, <1>9, <1>10, <1>12, QuietJobMoves DEF JobOK

(* The prune ends.                                                         *)
LEMMA PruneEndsStep ==
    ASSUME VaultInv, NEW c \in Commands, PruneEnds(c)
    PROVE  GoodStep
<1>1. /\ JobOK(job[c]) /\ JobSees(job[c], vault, made, blind)
      /\ JobShape(job[c]) /\ JobStage(job[c]) /\ JobForm(job[c])
      /\ JobRows(job[c]) /\ job = [d \in Commands |-> job[d]]
  BY JobKnown
<1>2. /\ job[c].at = "prune" /\ job[c].program.kind = "seed"
      /\ UNCHANGED <<vault, made, late, local, blind>>
      /\ job' = [job EXCEPT ![c].at = "seeded"]
  BY <1>1 DEF PruneEnds, Stands, JobStage
<1>3. PICK j : j = job[c]
  OBVIOUS
<1>4. PICK x : x = [j EXCEPT !.at = "seeded"]
  OBVIOUS
<1>5. job' = [job EXCEPT ![c] = x]
  BY <1>2, <1>3, <1>4
<1>6. Became(x, j, "seeded", j.match, j.value, j.shown)
  BY <1>1, <1>3, <1>4, GoesTo
<1>7. /\ JobShape(x)
      /\ x.program = job[c].program /\ x.at = "seeded" /\ x.todo = job[c].todo
      /\ x.match = job[c].match /\ x.value = job[c].value
      /\ x.failed = job[c].failed
      /\ x.verified = job[c].verified /\ x.shown = job[c].shown
  BY <1>3, <1>6 DEF Became
<1>8. JobStage(x) /\ JobForm(x) /\ JobRows(x)
  BY <1>1, <1>2, <1>7 DEF JobStage, JobForm, JobRows, Verifies, Rowing
<1>9. JobSees(x, vault, made, blind) /\ Recalls(x, job[c], vault)
  BY <1>1, <1>2, <1>7 DEF JobSees, Recalls
<1> QED BY <1>2, <1>5, <1>7, <1>8, <1>9, QuietJobMoves DEF JobOK

(* The smoke test goes on as a resolve of the same keys.                   *)
LEMMA SeededStep ==
    ASSUME VaultInv, NEW c \in Commands, Seeded(c)
    PROVE  GoodStep
<1>1. /\ JobOK(job[c]) /\ JobSees(job[c], vault, made, blind)
      /\ JobShape(job[c]) /\ JobStage(job[c]) /\ JobForm(job[c])
      /\ JobRows(job[c]) /\ job = [d \in Commands |-> job[d]]
  BY JobKnown
<1>2. /\ job[c].at = "seeded" /\ job[c].program.kind = "seed"
      /\ job[c].shown = {}
      /\ UNCHANGED <<vault, made, late, local, blind>>
  BY <1>1 DEF Seeded, Stands, JobStage, JobForm
<1>3. PICK j : j = job[c]
  OBVIOUS
<1>4. PICK ks : ks = j.program.keys
  OBVIOUS
<1>5. \/ job' = [job EXCEPT ![c] = [job[c] EXCEPT !.at = "ok"]]
      \/ job' = [job EXCEPT ![c] =
           [job[c] EXCEPT !.at = "fetch", !.todo = job[c].program.keys,
                          !.program.kind = "resolve"]]
  BY DEF Seeded
<1>6. CASE job' = [job EXCEPT ![c] = [job[c] EXCEPT !.at = "ok"]]
  <2>1. PICK x : x = [j EXCEPT !.at = "ok"]
    OBVIOUS
  <2>2. job' = [job EXCEPT ![c] = x]
    BY <1>6, <1>3, <2>1
  <2>3. Became(x, j, "ok", j.match, j.value, j.shown)
    BY <1>1, <1>3, <2>1, GoesTo
  <2>4. /\ JobShape(x)
        /\ x.program = job[c].program /\ x.at = "ok" /\ x.todo = job[c].todo
        /\ x.match = job[c].match /\ x.value = job[c].value
        /\ x.failed = job[c].failed
        /\ x.verified = job[c].verified /\ x.shown = job[c].shown
    BY <1>3, <2>3 DEF Became
  <2>5. JobStage(x) /\ JobForm(x) /\ JobRows(x)
    BY <1>1, <1>2, <2>4 DEF JobStage, JobForm, JobRows, Verifies, Rowing
  <2>6. JobSees(x, vault, made, blind) /\ Recalls(x, job[c], vault)
    BY <1>1, <1>2, <2>4 DEF JobSees, Recalls
  <2> QED BY <1>2, <2>2, <2>4, <2>5, <2>6, QuietJobMoves DEF JobOK
<1>7. CASE job' = [job EXCEPT ![c] =
           [job[c] EXCEPT !.at = "fetch", !.todo = job[c].program.keys,
                          !.program.kind = "resolve"]]
  <2>1. PICK x : x = [j EXCEPT !.at = "fetch", !.todo = ks,
                               !.program.kind = "resolve"]
    OBVIOUS
  <2>2. job' = [job EXCEPT ![c] = x]
    BY <1>7, <1>3, <1>4, <2>1
  <2>3. PICK p, a, t, m, v, f, w, s :
           j = [program |-> p, at |-> a, todo |-> t, match |-> m, value |-> v,
                failed |-> f, verified |-> w, shown |-> s]
    BY <1>1, <1>3 DEF JobShape
  <2>4. PICK q : q = [p EXCEPT !.kind = "resolve"]
    OBVIOUS
  <2>5. x = [program |-> q, at |-> "fetch", todo |-> ks, match |-> m, value |-> v,
             failed |-> f, verified |-> w, shown |-> s]
    BY <2>1, <2>3, <2>4
  <2>6. /\ x.program = q /\ x.at = "fetch"
        /\ x.failed = j.failed /\ x.verified = j.verified /\ x.shown = j.shown
    BY <2>3, <2>5
  <2>7. /\ q = [g \in DOMAIN q |-> q[g]] /\ {"kind", "keys"} \subseteq DOMAIN q
        /\ q.kind = "resolve"
    <3>1. p = [g \in DOMAIN p |-> p[g]] /\ {"kind", "keys"} \subseteq DOMAIN p
      BY <1>1, <1>3, <2>3 DEF JobShape
    <3> QED BY <3>1, <2>4
  <2>8. JobShape(x)
    <3>1. x = [program |-> x.program, at |-> x.at, todo |-> x.todo,
               match |-> x.match, value |-> x.value, failed |-> x.failed,
               verified |-> x.verified, shown |-> x.shown]
      BY <2>5
    <3>2. x.failed \in BOOLEAN
      BY <1>1, <1>3, <2>6 DEF JobShape
    <3> QED BY <3>1, <3>2, <2>6, <2>7 DEF JobShape
  <2>9. JobStage(x) /\ JobForm(x) /\ JobRows(x)
    BY <1>2, <1>3, <2>6, <2>7 DEF JobStage, JobForm, JobRows, Verifies, Rowing
  <2>10. JobSees(x, vault, made, blind) /\ Recalls(x, job[c], vault)
    BY <1>2, <1>3, <2>6, <2>7 DEF JobSees, Recalls, Verifies
  <2> QED BY <1>2, <2>2, <2>8, <2>9, <2>10, QuietJobMoves DEF JobOK
<1> QED BY <1>5, <1>6, <1>7

(* A command starts.                                                       *)
LEMMA BeginsStep ==
    ASSUME VaultInv, NEW c \in Commands, NEW program \in Programs,
           Begins(c, program)
    PROVE  GoodStep
<1>1. /\ JobOK(job[c]) /\ JobSees(job[c], vault, made, blind)
      /\ JobShape(job[c]) /\ JobStage(job[c]) /\ JobForm(job[c])
      /\ JobRows(job[c]) /\ job = [d \in Commands |-> job[d]]
  BY JobKnown
<1>2. ProgramOK(program)
  BY VaultAssumption
<1>3. PICK k : k = program.kind
  OBVIOUS
<1>4. k \in {"write", "entry", "seed", "import", "dryrun", "parity", "resolve"}
  BY <1>2, <1>3 DEF ProgramOK
<1>5. PICK a : a = IF ~Accepted(program) THEN "failed"
                   ELSE IF program.kind = "entry" THEN "dialog"
                   ELSE RowStart(program.kind)
  OBVIOUS
<1>6. /\ a \in {"failed", "dialog", "extract", "fetch", "list"}
      /\ a = "dialog" => k = "entry"
      /\ a = "extract" => k \in {"import", "dryrun", "parity"}
      /\ a = "fetch" => k = "resolve"
      /\ a = "list" => k \in {"write", "seed"}
      /\ k \in {"import", "parity"} => a \in {"failed", "extract"}
  BY <1>3, <1>4, <1>5 DEF RowStart
<1>7. k = "entry" /\ a # "failed" => parseSmSecretEntryForm(program)
  BY <1>3, <1>5 DEF Accepted
<1>8. PICK ks : ks = program.keys
  OBVIOUS
<1>9. PICK x : x = [program |-> program, at |-> a, todo |-> ks, match |-> {},
                    value |-> NoValue, failed |-> FALSE, verified |-> {},
                    shown |-> {}]
  OBVIOUS
<1>10. job' = [job EXCEPT ![c] = x]
  <2>1. x = [IdleJob EXCEPT !.program = program, !.todo = ks, !.at = a]
    <3>1. PICK j : j = IdleJob
      OBVIOUS
    <3>2. PICK np, at0, t, m, v, f, w, s :
             /\ np = NoProgram /\ at0 = "idle" /\ t = <<>> /\ m = {}
             /\ v = NoValue /\ f = FALSE /\ w = {} /\ s = {}
      OBVIOUS
    <3>3. j = [program |-> np, at |-> at0, todo |-> t, match |-> m,
               value |-> v, failed |-> f, verified |-> w, shown |-> s]
      BY <3>1, <3>2 DEF IdleJob
    <3>5. x = [program |-> program, at |-> a, todo |-> ks, match |-> m,
               value |-> v, failed |-> f, verified |-> w, shown |-> s]
      BY <3>2, <1>9
    <3>4. PICK y : y = [j EXCEPT !.program = program, !.todo = ks, !.at = a]
      OBVIOUS
    <3>6. y = [program |-> program, at |-> a, todo |-> ks, match |-> m,
               value |-> v, failed |-> f, verified |-> w, shown |-> s]
      BY <3>3, <3>4
    <3> QED BY <3>1, <3>4, <3>5, <3>6
  <2>2. job' = [job EXCEPT ![c] =
          [IdleJob EXCEPT !.program = program, !.todo = ks, !.at = a]]
    BY <1>5, <1>8 DEF Begins
  <2> QED BY <2>1, <2>2
<1>11. /\ x.program = program /\ x.at = a /\ x.todo = ks /\ x.match = {}
       /\ x.value = NoValue /\ x.failed = FALSE /\ x.verified = {} /\ x.shown = {}
  BY <1>9
<1>12. JobShape(x)
  <2>1. x = [program |-> x.program, at |-> x.at, todo |-> x.todo,
             match |-> x.match, value |-> x.value, failed |-> x.failed,
             verified |-> x.verified, shown |-> x.shown]
    BY <1>9
  <2> QED BY <2>1, <1>2, <1>11 DEF JobShape, ProgramOK
<1>13. JobStage(x)
  BY <1>3, <1>6, <1>11 DEF JobStage, Rowing
<1>14. JobForm(x)
  BY <1>3, <1>7, <1>11 DEF JobForm
<1>15. k \in {"import", "parity"} => Progress(x)
  <2> SUFFICES ASSUME k \in {"import", "parity"} PROVE Progress(x)
    OBVIOUS
  <2>1. ks \in Seq(InventoryKeys) /\ ks # <<>>
    BY <1>2, <1>3, <1>8 DEF ProgramOK
  <2>2. PICK n \in Nat : n = Len(ks)
    BY <2>1
  <2>3. n <= n /\ n - n = 0 /\ \A i \in 1 .. n : n - n + i = i
    OBVIOUS
  <2>4. 1 .. 0 = {}
    OBVIOUS
  <2>5. /\ Len(ks) <= Len(ks)
        /\ \A i \in 1 .. Len(ks) : ks[i] = ks[Len(ks) - Len(ks) + i]
        /\ 1 .. Len(ks) - Len(ks) = {}
    BY <2>2, <2>3, <2>4
  <2> QED BY <1>8, <1>11, <2>1, <2>5 DEF Progress
<1>16. JobRows(x)
  BY <1>3, <1>6, <1>11, <1>15 DEF JobRows, Verifies, Rowing
<1>17. /\ vault' = vault /\ made' = made /\ late' = late /\ local' = local
       /\ blind' = (blind \/ (program.kind = "seed" /\ ~program.manifestLoads))
       /\ job[c].at = "idle"
  BY DEF Begins, Stands
<1>18. blind' \in BOOLEAN /\ (blind => blind')
  BY <1>17
<1>19. /\ Moves(vault, made, blind, vault', made', blind')
       /\ ItemsOK(vault', made')
  BY <1>17, <1>18, StillMoves
<1>20. JobSees(x, vault', made', blind')
  <2>1. k = "seed" => blind' \/ program.manifestLoads = TRUE
    BY <1>2, <1>3, <1>17 DEF ProgramOK
  <2> QED BY <1>3, <1>6, <1>11, <2>1 DEF JobSees
<1>21. LateOK(late', vault', made', blind')
  BY <1>17, <1>18, <1>19, LateKeeps
<1>22. Survive
  BY <1>17 DEF Survive
<1>23. Recalls(x, job[c], vault)
  BY <1>1, <1>11, <1>17 DEF Recalls, Verifies, JobStage
<1>24. job'[c] = x
  BY <1>1, <1>10
<1>25. local' \in [InventoryKeys -> SmValues \cup {NoValue}]
  BY <1>17 DEF VaultInv, VaultShape
<1> QED BY <1>10, <1>12, <1>13, <1>14, <1>16, <1>18, <1>19, <1>20, <1>21, <1>22,
           <1>23, <1>24, <1>25, OneJobMoves DEF JobOK

(* What is written: an import reads it back, the others go on.             *)
LEMMA WrittenOK ==
    ASSUME NEW j, JobOK(j), j.at \in {"edit", "create"}
    PROVE  /\ JobOK(Written(j))
           /\ Written(j).program = j.program /\ Written(j).verified = j.verified
           /\ Written(j).at \notin {"prune", "get"}
<1>1. CASE j.program.kind # "import"
  <2>1. Written(j) = RowEnds(j) /\ ~Verifies(j) /\ j.at \in Rowing
    BY <1>1 DEF Written, Verifies, JobOK, JobStage, Rowing
  <2> QED BY <2>1, RowEndsOK
<1>2. CASE j.program.kind = "import"
  <2>1. PICK x : x = [j EXCEPT !.match = {}, !.at = "fetch"]
    OBVIOUS
  <2>2. Written(j) = x
    BY <1>2, <2>1 DEF Written
  <2>3. JobShape(j)
    BY DEF JobOK
  <2>4. Became(x, j, "fetch", {}, j.value, j.shown)
    BY <2>1, <2>3, GoesAndMatches
  <2>5. /\ JobShape(x)
        /\ x.program = j.program /\ x.at = "fetch" /\ x.todo = j.todo
        /\ x.value = j.value /\ x.failed = j.failed
        /\ x.verified = j.verified /\ x.shown = j.shown
    BY <2>4 DEF Became
  <2>6. JobStage(x) /\ JobForm(x)
    BY <1>2, <2>5 DEF JobOK, JobStage, JobForm, Rowing
  <2>7. Progress(j) => Progress(x)
    BY <2>5 DEF Progress, IsVerified
  <2>8. JobRows(x)
    BY <1>2, <2>5, <2>7 DEF JobOK, JobRows, Verifies, Rowing
  <2> QED BY <2>2, <2>5, <2>6, <2>8 DEF JobOK
<1> QED BY <1>1, <1>2

(* A vault in which values changed.                                        *)
Edits(A, n, B) ==
    /\ ItemsOK(B, n)
    /\ \A x \in B : \E i \in A : i.id = x.id /\ i.key = x.key
    /\ \A i \in A : \E x \in B : x.id = i.id /\ x.key = i.key

(* Items whose values change keep their numbers and keys.                  *)
LEMMA EditMoves ==
    ASSUME NEW A, NEW n \in Nat, ItemsOK(A, n), NEW B, NEW val,
           \A x \in B : \E i \in A : x = i \/ x = [i EXCEPT !.value = val],
           \A i \in A : \E x \in B : x = i \/ x = [i EXCEPT !.value = val]
    PROVE  Edits(A, n, B)
<1>1. ASSUME NEW i \in A, NEW x, x = i \/ x = [i EXCEPT !.value = val]
      PROVE  /\ x.id = i.id /\ x.key = i.key
             /\ x = [id |-> x.id, key |-> x.key, value |-> x.value]
  <2>1. PICK a, b, d : i = [id |-> a, key |-> b, value |-> d]
    BY DEF ItemsOK
  <2>2. CASE x = i
    BY <2>1, <2>2
  <2>3. CASE x = [i EXCEPT !.value = val]
    <3>1. x = [id |-> a, key |-> b, value |-> val]
      BY <2>1, <2>3
    <3> QED BY <2>1, <3>1
  <2> QED BY <1>1, <2>2, <2>3
<1>2. \A x \in B : \E i \in A : i.id = x.id /\ i.key = x.key
  BY <1>1
<1>3. \A i \in A : \E x \in B : x.id = i.id /\ x.key = i.key
  BY <1>1
<1>4. \A x \in B : x = [id |-> x.id, key |-> x.key, value |-> x.value]
  BY <1>1
<1>5. ItemsOK(B, n)
  <2>1. \A x \in B : x.id \in 1 .. n
    BY <1>2 DEF ItemsOK
  <2>2. \A x, y \in B : x.id = y.id => x.key = y.key
    BY <1>2 DEF ItemsOK
  <2> QED BY <1>4, <2>1, <2>2 DEF ItemsOK
<1> QED BY <1>2, <1>3, <1>5 DEF Edits

(* A vault that gained an item.                                            *)
Gains(A, n, B, n2, b) ==
    /\ ItemsOK(B, n2) /\ Moves(A, n, b, B, n2, b)
    /\ \A i \in A : \E x \in B : x.id = i.id /\ x.key = i.key

(* One more item, with a number that was not given before.                 *)
LEMMA CreateMoves ==
    ASSUME NEW A, NEW n \in Nat, ItemsOK(A, n), NEW B, NEW n2,
           NEW b \in BOOLEAN, NEW y, y.id = n + 1, B = A \cup {y}, n2 = n + 1,
           y = [id |-> y.id, key |-> y.key, value |-> y.value]
    PROVE  Gains(A, n, B, n2, b)
<1>2. /\ y.id = n + 1 /\ B = A \cup {y} /\ n2 \in Nat
      /\ y = [id |-> y.id, key |-> y.key, value |-> y.value]
  OBVIOUS
<1>3. \A i \in A : i.id \in 1 .. n /\ i.id # n + 1 /\ i.id \in 1 .. n2
  BY DEF ItemsOK
<1>4. y.id \in 1 .. n2 /\ y.id \in Nat /\ y.id > n /\ n <= n2
  BY <1>2
<1>5. ItemsOK(B, n2)
  <2>1. \A i \in B : i = [id |-> i.id, key |-> i.key, value |-> i.value]
                     /\ i.id \in 1 .. n2
    BY <1>2, <1>3, <1>4 DEF ItemsOK
  <2>2. \A i, l \in B : i.id = l.id => i.key = l.key
    BY <1>2, <1>3 DEF ItemsOK
  <2> QED BY <2>1, <2>2 DEF ItemsOK
<1>6. Moves(A, n, b, B, n2, b)
  BY <1>2, <1>4 DEF Moves
<1> QED BY <1>2, <1>5, <1>6 DEF Gains

(* The child of an edit ends.                                              *)
LEMMA EditStep ==
    ASSUME VaultInv, NEW c \in Commands, Edit(c)
    PROVE  GoodStep
<1>1. /\ JobOK(job[c]) /\ JobSees(job[c], vault, made, blind)
      /\ JobShape(job[c]) /\ JobStage(job[c]) /\ JobForm(job[c])
      /\ JobRows(job[c]) /\ job = [d \in Commands |-> job[d]]
  BY JobKnown
<1>2. /\ job[c].at = "edit" /\ job[c].at \in Rowing
      /\ made' = made /\ late' = late /\ local' = local /\ blind' = blind
  BY DEF Edit, Stands, Rowing
<1>3. PICK id, val : id = (CHOOSE i \in job[c].match : TRUE) /\ val = RowValue(c)
  OBVIOUS
<1>4. \/ vault' = vault /\ job' = [job EXCEPT ![c] = RowFails(job[c])]
      \/ vault' = Edited(vault, id, val) /\ job' = [job EXCEPT ![c] = Written(job[c])]
  BY <1>3 DEF Edit
<1>5. CASE vault' = vault /\ job' = [job EXCEPT ![c] = RowFails(job[c])]
  BY <1>2, <1>5, RowIsOver
<1>6. CASE vault' = Edited(vault, id, val) /\ job' = [job EXCEPT ![c] = Written(job[c])]
  <2>1. PICK x : x = Written(job[c])
    OBVIOUS
  <2>2. /\ JobOK(x) /\ x.program = job[c].program /\ x.verified = job[c].verified
        /\ x.at \notin {"prune", "get"}
    BY <1>1, <1>2, <2>1, WrittenOK
  <2>3. job' = [job EXCEPT ![c] = x] /\ job'[c] = x
    BY <1>1, <1>6, <2>1
  <2>4. made \in Nat /\ ItemsOK(vault, made) /\ blind \in BOOLEAN
        /\ local \in [InventoryKeys -> SmValues \cup {NoValue}]
    BY DEF VaultInv, VaultShape
  <2>5. /\ \A x2 \in vault' : \E i \in vault : x2 = i \/ x2 = [i EXCEPT !.value = val]
        /\ \A i \in vault : \E x2 \in vault' : x2 = i \/ x2 = [i EXCEPT !.value = val]
    BY <1>6 DEF Edited
  <2>10. Edits(vault, made, vault')
    BY <2>4, <2>5, EditMoves
  <2>6. ItemsOK(vault', made')
    BY <1>2, <2>10 DEF Edits
  <2>7. Moves(vault, made, blind, vault', made', blind') /\ Survive
    BY <1>2, <2>4, <2>10 DEF Edits, Moves, Survive
  <2>8. JobSees(x, vault', made', blind') /\ Recalls(x, job[c], vault)
    BY <1>1, <1>2, <2>2 DEF JobSees, Recalls
  <2>9. LateOK(late', vault', made', blind')
    BY <1>2, <2>4, <2>7, LateKeeps
  <2> QED BY <1>2, <2>2, <2>3, <2>4, <2>6, <2>7, <2>8, <2>9, OneJobMoves
<1> QED BY <1>4, <1>5, <1>6

(* The child of a create ends.                                             *)
LEMMA CreateStep ==
    ASSUME VaultInv, NEW c \in Commands, Create(c)
    PROVE  GoodStep
<1>1. /\ JobOK(job[c]) /\ JobSees(job[c], vault, made, blind)
      /\ JobShape(job[c]) /\ JobStage(job[c]) /\ JobForm(job[c])
      /\ JobRows(job[c]) /\ job = [d \in Commands |-> job[d]]
  BY JobKnown
<1>2. /\ job[c].at = "create" /\ late' = late /\ local' = local /\ blind' = blind
      /\ made' = made + 1
  BY DEF Create, Stands
<1>3. PICK k, val : k = Key(c) /\ val = RowValue(c)
  OBVIOUS
<1>4. vault' = vault \cup {[id |-> made + 1, key |-> k, value |-> val]}
  BY <1>3 DEF Create, NewItem
<1>5. PICK x : x = Written(job[c])
  OBVIOUS
<1>6. /\ JobOK(x) /\ x.program = job[c].program /\ x.verified = job[c].verified
      /\ x.at \notin {"prune", "get"}
  BY <1>1, <1>2, <1>5, WrittenOK
<1>7. job' = [job EXCEPT ![c] = x] /\ job'[c] = x
  BY <1>1, <1>5 DEF Create
<1>8. made \in Nat /\ ItemsOK(vault, made) /\ blind \in BOOLEAN
      /\ local \in [InventoryKeys -> SmValues \cup {NoValue}]
  BY DEF VaultInv, VaultShape
<1>9. /\ ItemsOK(vault', made') /\ Moves(vault, made, blind, vault', made', blind)
      /\ \A i \in vault : \E x2 \in vault' : x2.id = i.id /\ x2.key = i.key
  <2>1. PICK y : y = [id |-> made + 1, key |-> k, value |-> val]
    OBVIOUS
  <2>2. /\ y.id = made + 1 /\ vault' = vault \cup {y}
        /\ y = [id |-> y.id, key |-> y.key, value |-> y.value]
    BY <1>4, <2>1
  <2>3. Gains(vault, made, vault', made', blind)
    BY <1>2, <1>8, <2>2, CreateMoves
  <2> QED BY <2>3 DEF Gains
<1>10. Moves(vault, made, blind, vault', made', blind') /\ Survive
  BY <1>2, <1>9 DEF Survive
<1>11. JobSees(x, vault', made', blind') /\ Recalls(x, job[c], vault)
  BY <1>1, <1>2, <1>6 DEF JobSees, Recalls
<1>12. LateOK(late', vault', made', blind')
  BY <1>2, <1>8, <1>10, LateKeeps
<1> QED BY <1>2, <1>6, <1>7, <1>8, <1>9, <1>10, <1>11, <1>12, OneJobMoves

(* An item with a doomed number is removed.                                *)
LEMMA RemoveMoves ==
    ASSUME VaultInv, NEW ids, Doomed(ids, vault, made, blind),
           vault' = {i \in vault : i.id \notin ids}, made' = made, blind' = blind
    PROVE  /\ ItemsOK(vault', made')
           /\ Moves(vault, made, blind, vault', made', blind') /\ Survive
BY DEF VaultInv, VaultShape, ItemsOK, Moves, Survive, Doomed

(* An item is pruned.                                                      *)
LEMMA PruneStep ==
    ASSUME VaultInv, NEW c \in Commands, NEW id \in job[c].match, Prune(c, id)
    PROVE  GoodStep
<1>1. /\ JobOK(job[c]) /\ JobSees(job[c], vault, made, blind)
      /\ JobShape(job[c]) /\ JobStage(job[c]) /\ JobForm(job[c])
      /\ JobRows(job[c]) /\ job = [d \in Commands |-> job[d]]
  BY JobKnown
<1>2. /\ job[c].at = "prune" /\ job[c].program.kind = "seed"
      /\ made' = made /\ late' = late /\ local' = local /\ blind' = blind
      /\ vault' = {i \in vault : i.id \notin {id}}
  BY <1>1 DEF Prune, Stands, JobStage
<1>3. Doomed(job[c].match, vault, made, blind)
  BY <1>1, <1>2 DEF JobSees
<1>4. Doomed({id}, vault, made, blind)
  BY <1>3 DEF Doomed
<1>5. /\ ItemsOK(vault', made')
      /\ Moves(vault, made, blind, vault', made', blind') /\ Survive
  BY <1>2, <1>4, RemoveMoves
<1>6. PICK j : j = job[c]
  OBVIOUS
<1>7. PICK ids : ids = j.match \ {id}
  OBVIOUS
<1>8. \/ job' = [job EXCEPT ![c] = [job[c] EXCEPT !.at = "failed"]]
      \/ job' = [job EXCEPT ![c] = [job[c] EXCEPT !.match = job[c].match \ {id}]]
  BY DEF Prune
<1>9. PICK x : /\ job' = [job EXCEPT ![c] = x]
               /\ \/ x = [j EXCEPT !.at = "failed"]
                  \/ x = [j EXCEPT !.match = ids, !.at = "prune"]
  <2>1. CASE job' = [job EXCEPT ![c] = [job[c] EXCEPT !.at = "failed"]]
    <3>1. PICK x : x = [j EXCEPT !.at = "failed"]
      OBVIOUS
    <3>2. job' = [job EXCEPT ![c] = x]
      BY <1>6, <2>1, <3>1
    <3> QED BY <3>1, <3>2
  <2>2. CASE job' = [job EXCEPT ![c] = [job[c] EXCEPT !.match = job[c].match \ {id}]]
    <3>1. PICK x : x = [j EXCEPT !.match = ids, !.at = "prune"]
      OBVIOUS
    <3>2. PICK y : y = [j EXCEPT !.match = ids]
      OBVIOUS
    <3>3. job' = [job EXCEPT ![c] = y]
      BY <1>6, <1>7, <2>2, <3>2
    <3>4. PICK p, b, t, m, v, f, w, s :
             j = [program |-> p, at |-> b, todo |-> t, match |-> m, value |-> v,
                  failed |-> f, verified |-> w, shown |-> s]
      BY <1>1, <1>6 DEF JobShape
    <3>5. b = "prune"
      BY <1>2, <1>6, <3>4
    <3>6. y = [program |-> p, at |-> b, todo |-> t, match |-> ids, value |-> v,
               failed |-> f, verified |-> w, shown |-> s]
      BY <3>2, <3>4
    <3>7. x = [program |-> p, at |-> "prune", todo |-> t, match |-> ids,
               value |-> v, failed |-> f, verified |-> w, shown |-> s]
      BY <3>1, <3>4
    <3>8. x = y
      BY <3>5, <3>6, <3>7
    <3> QED BY <3>1, <3>3, <3>8
  <2> QED BY <1>8, <2>1, <2>2
<1>10. PICK a, ms : /\ a \in {"failed", "prune"}
                    /\ Became(x, j, a, ms, j.value, j.shown)
                    /\ a = "prune" => ms = ids
  <2>1. JobShape(j)
    BY <1>1, <1>6
  <2>2. CASE x = [j EXCEPT !.at = "failed"]
    <3>1. Became(x, j, "failed", j.match, j.value, j.shown)
      BY <2>1, <2>2, GoesTo
    <3> QED BY <3>1
  <2>3. CASE x = [j EXCEPT !.match = ids, !.at = "prune"]
    <3>1. Became(x, j, "prune", ids, j.value, j.shown)
      BY <2>1, <2>3, GoesAndMatches
    <3> QED BY <3>1
  <2> QED BY <1>9, <2>2, <2>3
<1>11. /\ JobShape(x)
       /\ x.program = job[c].program /\ x.at = a /\ x.todo = job[c].todo
       /\ x.match = ms /\ x.value = job[c].value /\ x.failed = job[c].failed
       /\ x.verified = job[c].verified /\ x.shown = job[c].shown
  BY <1>6, <1>10 DEF Became
<1>12. JobStage(x) /\ JobForm(x) /\ JobRows(x)
  BY <1>1, <1>2, <1>10, <1>11 DEF JobStage, JobForm, JobRows, Verifies, Rowing
<1>13. a = "prune" => Doomed(ms, vault', made', blind')
  BY <1>2, <1>3, <1>6, <1>7, <1>10 DEF Doomed
<1>14. JobSees(x, vault', made', blind') /\ Recalls(x, job[c], vault)
  BY <1>1, <1>2, <1>10, <1>11, <1>13 DEF JobSees, Recalls
<1>15. job'[c] = x
  BY <1>1, <1>9
<1>16. blind \in BOOLEAN /\ local \in [InventoryKeys -> SmValues \cup {NoValue}]
  BY DEF VaultInv, VaultShape
<1>17. LateOK(late', vault', made', blind')
  BY <1>2, <1>5, <1>16, LateKeeps
<1> QED BY <1>2, <1>5, <1>9, <1>11, <1>12, <1>14, <1>15, <1>16, <1>17, OneJobMoves
        DEF JobOK

(* What a request that is late may delete is what its command may prune.   *)
LEMMA RequestIsDoomed ==
    ASSUME VaultInv, NEW c \in Commands, NEW r \in Request(c)
    PROVE  /\ r.op \in {"edit", "create", "delete"}
           /\ r.op = "delete" => Doomed(r.ids, vault, made, blind)
<1>1. JobSees(job[c], vault, made, blind)
  BY JobKnown
<1>2. CASE job[c].at = "edit"
  BY <1>2 DEF Request, Stands
<1>3. CASE job[c].at = "create"
  BY <1>3 DEF Request, Stands
<1>4. CASE job[c].at = "prune"
  <2>1. PICK id \in job[c].match :
           r = [op |-> "delete", ids |-> {id}, key |-> NoValue, value |-> NoValue]
    BY <1>4 DEF Request, Stands
  <2>2. r.ids = {id} /\ r.op = "delete"
    BY <2>1
  <2>3. Doomed(job[c].match, vault, made, blind)
    BY <1>1, <1>4 DEF JobSees
  <2> QED BY <2>1, <2>2, <2>3 DEF Doomed
<1>5. CASE job[c].at \notin {"edit", "create", "prune"}
  BY <1>5 DEF Request, Stands
<1> QED BY <1>2, <1>3, <1>4, <1>5

(* A call of bws fails, and its request may be late.                       *)
LEMMA CallFailsStep ==
    ASSUME VaultInv, NEW c \in Commands, CallFails(c)
    PROVE  GoodStep
<1>1. /\ JobOK(job[c]) /\ JobSees(job[c], vault, made, blind)
      /\ job = [d \in Commands |-> job[d]]
  BY JobKnown
<1>2. /\ job[c].at \in Rowing \cup {"prunelist", "prune"}
      /\ vault' = vault /\ made' = made /\ local' = local /\ blind' = blind
  BY DEF CallFails, Rowing
<1>3. PICK x : x = RowFails(job[c])
  OBVIOUS
<1>4. /\ JobOK(x) /\ x.program = job[c].program /\ x.verified = job[c].verified
      /\ x.at \notin {"prune", "get"}
  BY <1>1, <1>2, <1>3, RowFailsOK
<1>5. job' = [job EXCEPT ![c] = x] /\ job'[c] = x
  BY <1>1, <1>3 DEF CallFails
<1>6. blind \in BOOLEAN /\ local \in [InventoryKeys -> SmValues \cup {NoValue}]
  BY DEF VaultInv, VaultShape
<1>7. /\ Moves(vault, made, blind, vault', made', blind')
      /\ ItemsOK(vault', made')
  BY <1>2, <1>6, StillMoves
<1>8. LateOK(late, vault, made, blind)
  BY DEF VaultInv
<1>9. LateOK(late', vault', made', blind')
  <2>1. CASE late' = late
    BY <1>2, <1>8, <2>1
  <2>2. ASSUME NEW r \in Request(c), late' = late \cup {r}
        PROVE  LateOK(late', vault', made', blind')
    BY <1>2, <1>8, <2>2, RequestIsDoomed DEF LateOK
  <2> QED BY <2>1, <2>2 DEF CallFails
<1>10. JobSees(x, vault', made', blind') /\ Recalls(x, job[c], vault)
  BY <1>1, <1>2, <1>4 DEF JobSees, Recalls
<1>11. Survive
  BY <1>2 DEF Survive
<1> QED BY <1>2, <1>4, <1>5, <1>6, <1>7, <1>9, <1>10, <1>11, OneJobMoves

(* A step of no command.                                                   *)
LEMMA NoJobMoves ==
    ASSUME VaultInv, job' = job, blind' = blind,
           Moves(vault, made, blind, vault', made', blind'),
           ItemsOK(vault', made'),
           local' \in [InventoryKeys -> SmValues \cup {NoValue}],
           late' \subseteq late, Survive
    PROVE  GoodStep
<1>1. blind \in BOOLEAN /\ job = [d \in Commands |-> job[d]] /\ made' \in Nat
  BY DEF VaultInv, VaultShape, Moves
<1>2. LateOK(late', vault', made', blind')
  BY <1>1, LateKeeps DEF LateOK
<1>3. \A d \in Commands : JobOK(job'[d]) /\ JobSees(job'[d], vault', made', blind')
  BY <1>1, JobSeesKeeps DEF VaultInv
<1>4. VaultShape'
  BY <1>1 DEF VaultShape
<1>5. \A d \in Commands : Recalls(job'[d], job[d], vault)
  BY DEF Recalls
<1> QED BY <1>2, <1>3, <1>4, <1>5 DEF GoodStep, VaultInv

(* The application changes its local store.                                *)
LEMMA LocalStep ==
    ASSUME VaultInv, NEW k \in InventoryKeys, NEW v \in SmValues, LocalChanges(k, v)
    PROVE  GoodStep
<1>1. /\ vault' = vault /\ made' = made /\ late' = late /\ job' = job
      /\ blind' = blind /\ local' = [local EXCEPT ![k] = v]
  BY DEF LocalChanges
<1>2. blind \in BOOLEAN /\ local \in [InventoryKeys -> SmValues \cup {NoValue}]
  BY DEF VaultInv, VaultShape
<1>3. local' \in [InventoryKeys -> SmValues \cup {NoValue}]
  BY <1>1, <1>2
<1>4. /\ Moves(vault, made, blind, vault', made', blind')
      /\ ItemsOK(vault', made')
  BY <1>1, <1>2, StillMoves
<1>5. Survive
  BY <1>1 DEF Survive
<1> QED BY <1>1, <1>3, <1>4, <1>5, NoJobMoves

(* A late request takes effect.                                            *)
LEMMA EffectStep ==
    ASSUME VaultInv, NEW r \in late, TakesEffect(r)
    PROVE  GoodStep
<1>1. /\ local' = local /\ job' = job /\ blind' = blind /\ late' \subseteq late
  BY DEF TakesEffect
<1>2. /\ blind \in BOOLEAN /\ local \in [InventoryKeys -> SmValues \cup {NoValue}]
      /\ made \in Nat /\ ItemsOK(vault, made)
  BY DEF VaultInv, VaultShape
<1>3. r.op \in {"edit", "create", "delete"}
  BY DEF VaultInv, LateOK
<1>4. /\ Moves(vault, made, blind, vault', made', blind')
      /\ ItemsOK(vault', made') /\ Survive
  <2>1. CASE r.op = "edit"
    <3>1. /\ made' = made
          /\ vault' = {IF i.id \in r.ids THEN [i EXCEPT !.value = r.value]
                       ELSE i : i \in vault}
      BY <2>1 DEF TakesEffect
    <3>2. PICK val : val = r.value
      OBVIOUS
    <3>3. /\ \A x2 \in vault' : \E i \in vault : x2 = i \/ x2 = [i EXCEPT !.value = val]
          /\ \A i \in vault : \E x2 \in vault' : x2 = i \/ x2 = [i EXCEPT !.value = val]
      BY <3>1, <3>2
    <3>4. Edits(vault, made, vault')
      BY <1>2, <3>3, EditMoves
    <3>7. made' = made /\ blind' = blind /\ made \in Nat
      BY <1>1, <1>2, <3>1
    <3>5. Moves(vault, made, blind, vault', made', blind') /\ Survive
      BY <3>4, <3>7 DEF Edits, Moves, Survive
    <3>6. ItemsOK(vault', made')
      BY <3>1, <3>4 DEF Edits
    <3> QED BY <3>5, <3>6
  <2>2. CASE r.op = "create"
    <3>1. made' = made + 1 /\ vault' = vault \cup {NewItem(r.key, r.value)}
      BY <2>2 DEF TakesEffect
    <3>2. PICK y : y = NewItem(r.key, r.value)
      OBVIOUS
    <3>3. /\ y.id = made + 1 /\ vault' = vault \cup {y}
          /\ y = [id |-> y.id, key |-> y.key, value |-> y.value]
      BY <3>1, <3>2 DEF NewItem
    <3>4. Gains(vault, made, vault', made', blind)
      BY <1>2, <3>1, <3>3, CreateMoves
    <3> QED BY <1>1, <3>4 DEF Gains, Survive
  <2>3. CASE r.op = "delete"
    <3>1. made' = made /\ vault' = {i \in vault : i.id \notin r.ids}
      BY <2>3 DEF TakesEffect
    <3>2. Doomed(r.ids, vault, made, blind)
      BY <2>3 DEF VaultInv, LateOK
    <3> QED BY <1>1, <3>1, <3>2, RemoveMoves
  <2> QED BY <1>3, <2>1, <2>2, <2>3
<1>5. local' \in [InventoryKeys -> SmValues \cup {NoValue}]
  BY <1>1, <1>2
<1> QED BY <1>1, <1>4, <1>5, NoJobMoves

(* Every step is good.                                                     *)
LEMMA VaultSteps == VaultInv /\ VaultNext => GoodStep
<1> SUFFICES ASSUME VaultInv, VaultNext PROVE GoodStep
  OBVIOUS
<1>1. ASSUME NEW c \in Commands, NEW p \in Programs, Begins(c, p) PROVE GoodStep
  BY <1>1, BeginsStep
<1>2. ASSUME NEW c \in Commands, DialogFails(c) \/ JobStep(c) PROVE GoodStep
  <2>1. CASE DialogFails(c) \/ DialogAnswers(c) \/ FieldStarts(c)
    BY <2>1, DialogStep
  <2>2. CASE Emit(c)
    BY <2>2, EmitStep
  <2>3. CASE Extract(c)
    BY <2>3, ExtractStep
  <2>4. CASE List(c) \/ FetchList(c)
    BY <2>4, ListStep
  <2>5. CASE Edit(c)
    BY <2>5, EditStep
  <2>6. CASE Create(c)
    BY <2>6, CreateStep
  <2>7. CASE Get(c)
    BY <2>7, GetStep
  <2>8. CASE PruneList(c)
    BY <2>8, PruneListStep
  <2>9. CASE \E id \in job[c].match : Prune(c, id)
    BY <2>9, PruneStep
  <2>10. CASE PruneEnds(c)
    BY <2>10, PruneEndsStep
  <2>11. CASE Seeded(c)
    BY <2>11, SeededStep
  <2>12. CASE CallFails(c)
    BY <2>12, CallFailsStep
  <2> QED BY <1>2, <2>1, <2>2, <2>3, <2>4, <2>5, <2>6, <2>7, <2>8, <2>9, <2>10,
             <2>11, <2>12 DEF JobStep, JobWork
<1>3. ASSUME NEW k \in InventoryKeys, NEW v \in SmValues, LocalChanges(k, v)
      PROVE  GoodStep
  BY <1>3, LocalStep
<1>4. ASSUME NEW r \in late, TakesEffect(r) PROVE GoodStep
  BY <1>4, EffectStep
<1> QED BY <1>1, <1>2, <1>3, <1>4 DEF VaultNext

(* The facts hold of the vault as it is first met.                         *)
LEMMA VaultInvInit == VaultInit => VaultInv
<1> SUFFICES ASSUME VaultInit PROVE VaultInv
  OBVIOUS
<1>1. /\ IsFiniteSet(vault)
      /\ vault \subseteq [id : 1 .. Cardinality(vault), key : SmKeys, value : SmValues]
      /\ \A i, k \in vault : i.id = k.id => i = k
  BY VaultAssumption DEF VaultInit
<1>2. made \in Nat /\ made = Cardinality(vault)
  BY <1>1, FS_CardinalityType DEF VaultInit
<1>3. ItemsOK(vault, made)
  BY <1>1, <1>2 DEF ItemsOK
<1>4. VaultShape
  BY <1>2, <1>3 DEF VaultInit, VaultShape
<1>5. LateOK(late, vault, made, blind)
  BY DEF VaultInit, LateOK
<1>6. JobOK(IdleJob) /\ JobSees(IdleJob, vault, made, blind)
  <2>1. /\ IdleJob.program = NoProgram /\ IdleJob.at = "idle"
        /\ IdleJob.failed = FALSE /\ IdleJob.shown = {}
        /\ NoProgram.kind = "none"
    BY DEF IdleJob, NoProgram
  <2>2. JobShape(IdleJob)
    BY DEF JobShape, IdleJob, NoProgram
  <2>3. JobStage(IdleJob) /\ JobForm(IdleJob) /\ JobRows(IdleJob)
    BY <2>1 DEF JobStage, JobForm, JobRows, Verifies, Rowing
  <2>4. JobSees(IdleJob, vault, made, blind)
    BY <2>1 DEF JobSees
  <2> QED BY <2>2, <2>3, <2>4 DEF JobOK
<1>7. \A c \in Commands : job[c] = IdleJob
  BY DEF VaultInit
<1> QED BY <1>4, <1>5, <1>6, <1>7 DEF VaultInv

(* In every state of the commands that use a project of Secrets Manager,   *)
(* whatever the keys, values, programs and late requests, the facts above  *)
(* hold.                                                                   *)
THEOREM VaultInvariant == VaultSpec => []VaultInv
<1>1. VaultInv /\ [VaultNext]_vaultVars => VaultInv'
  <2> SUFFICES ASSUME VaultInv, [VaultNext]_vaultVars PROVE VaultInv'
    OBVIOUS
  <2>1. CASE VaultNext
    BY <2>1, VaultSteps DEF GoodStep
  <2>2. CASE UNCHANGED vaultVars
    <3>1. /\ vault' = vault /\ made' = made /\ late' = late /\ local' = local
          /\ job' = job /\ blind' = blind
      BY <2>2 DEF vaultVars
    <3> QED BY <3>1 DEF VaultInv, VaultShape
  <2> QED BY <2>1, <2>2
<1> QED BY <1>1, VaultInvInit, PTL DEF VaultSpec

(* NoPasswordShown for every form, every dialog and any number of          *)
(* commands: what run-sm-secret-entry emits names no password field.       *)
THEOREM PasswordsAreNotShown == VaultSpec => []NoPasswordShown
<1>1. VaultInv => NoPasswordShown
  BY DEF VaultInv, JobOK, JobForm, NoPasswordShown
<1> QED BY <1>1, VaultInvariant, PTL

(* PruneKeepsInventory for every project: neither a prune nor a delete     *)
(* that is late removes an item of a binding, nor one of the inventory     *)
(* while every seed could load the manifest.                               *)
THEOREM PrunesKeepTheInventory == VaultSpec => PruneKeepsInventory
<1>1. VaultInv /\ [VaultNext]_vaultVars =>
         [\A i \in vault :
            i.key \in BindingKeys \cup (IF blind THEN {} ELSE InventoryKeys)
            => \E x \in vault' : x.id = i.id /\ x.key = i.key]_vaultVars
  BY VaultSteps DEF GoodStep, Survive, Kept
<1> QED BY <1>1, VaultInvariant, PTL DEF VaultSpec, PruneKeepsInventory

(* ImportOkIsStored for every manifest: a row is verified only by an item  *)
(* that the vault holds under the key and with the value of the row, and   *)
(* an import or a parity check that ends with ok verified all its rows.    *)
THEOREM ImportsThatAreOkAreStored == VaultSpec => ImportOkIsStored
<1>1. ASSUME VaultInv, VaultNext, NEW c \in Commands
      PROVE  /\ \A kv \in job'[c].verified :
                   \/ kv \in job[c].verified
                   \/ \E i \in vault : <<i.key, i.value>> = kv
             /\ job'[c].at = "ok" /\ job[c].at # "ok"
                /\ job[c].program.kind \in {"import", "parity"}
                => \A i \in 1 .. Len(job[c].program.keys) : \E v \in SmValues :
                      <<job[c].program.keys[i], v>> \in job'[c].verified
  <2>1. VaultInv' /\ Recalls(job'[c], job[c], vault)
    BY <1>1, VaultSteps DEF GoodStep
  <2>2. JobRows(job'[c])
    BY <2>1 DEF VaultInv, JobOK
  <2> QED BY <2>1, <2>2 DEF Recalls, JobRows, Verifies, IsVerified
<1>2. VaultInv /\ [VaultNext]_vaultVars =>
         [\A c \in Commands :
            /\ \A kv \in job'[c].verified :
                  \/ kv \in job[c].verified
                  \/ \E i \in vault : <<i.key, i.value>> = kv
            /\ job'[c].at = "ok" /\ job[c].at # "ok"
               /\ job[c].program.kind \in {"import", "parity"}
               => \A i \in 1 .. Len(job[c].program.keys) : \E v \in SmValues :
                     <<job[c].program.keys[i], v>> \in job'[c].verified]_vaultVars
  BY <1>1
<1> QED BY <1>2, VaultInvariant, PTL DEF VaultSpec, ImportOkIsStored
=============================================================================
