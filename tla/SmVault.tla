------------------------------- MODULE SmVault -------------------------------
(***************************************************************************)
(* The commands that use a project of Secrets Manager: write, the dialog   *)
(* for secret entry, seed with prune and smoke test, local import, parity  *)
(* check and resolve.  Each is a process that runs bws, one child after    *)
(* another.  Nothing keeps two commands from running at a time, no write   *)
(* of the server is conditional, and a child that is killed at its timeout *)
(* may have sent a request that takes effect later.                        *)
(***************************************************************************)
EXTENDS Naturals, Sequences, FiniteSets

CONSTANTS
    Commands,      \* the commands that run
    SmKeys,        \* keys of secrets
    SmValues,      \* values of secrets
    Stocks,        \* what the project may hold at first, as sets of items
    Programs,      \* what a command may be asked to do
    AllowedKeys,   \* the keys of projects that the allow file names
    BindingKeys,   \* the keys of the operational bindings
    InventoryKeys, \* the keys of the import manifest
    MaxMade,       \* how many items the server ever makes
    MaxLate        \* how many requests are late at a time

\* A local store that is absent or does not yield a value.
NoValue == "novalue"

(* A command names at least one key; what else a program holds depends on  *)
(* its kind.                                                               *)
ProgramOK(p) ==
    /\ p = [f \in DOMAIN p |-> p[f]] /\ {"kind", "keys"} \subseteq DOMAIN p
    /\ p.kind \in {"write", "entry", "seed", "import", "dryrun", "parity",
                   "resolve"}
    /\ p.keys \in Seq(SmKeys) /\ p.keys # <<>>
    /\ p.kind = "seed" => p.manifestLoads \in BOOLEAN
    /\ p.kind \in {"import", "dryrun", "parity"} => p.keys \in Seq(InventoryKeys)

ASSUME VaultAssumption ==
    /\ AllowedKeys \cup BindingKeys \cup InventoryKeys \subseteq SmKeys
    /\ NoValue \notin SmValues
    /\ MaxMade \in Nat /\ MaxLate \in Nat
    /\ \A s \in Stocks :
          /\ IsFiniteSet(s)
          /\ s \subseteq [id : 1 .. Cardinality(s), key : SmKeys, value : SmValues]
          /\ \A i, k \in s : i.id = k.id => i = k
    /\ \A p \in Programs : ProgramOK(p)

VARIABLES
    vault,   \* the items of the project, with id, key and value
    made,    \* how many items were ever made; an id is not used again
    late,    \* requests of killed children on their way
    local,   \* the value in each local store
    job,     \* what each command does
    blind    \* observes whether a seed ever ran without the manifest

vaultVars == <<vault, made, late, local, job, blind>>

NoProgram == [kind |-> "none", keys |-> <<>>]

IdleJob == [program |-> NoProgram, at |-> "idle", todo |-> <<>>, match |-> {},
            value |-> NoValue, failed |-> FALSE, verified |-> {}, shown |-> {}]

VaultInit ==
    /\ vault \in Stocks /\ made = Cardinality(vault) /\ late = {}
    /\ local \in [InventoryKeys -> SmValues \cup {NoValue}]
    /\ job = [c \in Commands |-> IdleJob]
    /\ blind = FALSE

-----------------------------------------------------------------------------
(* What a command checks before its first call.                            *)

(* A password is secret, and a form that says otherwise is refused; a text *)
(* is public unless the form says that it is secret.                       *)
FieldIsSecret(field) ==
    \/ field.secret = "yes"
    \/ field.secret = "unset" /\ field.kind = "password"

parseSmSecretEntryForm(program) ==
    \A k \in DOMAIN program.fields :
        program.fields[k].kind = "password" => FieldIsSecret(program.fields[k])

\* Mutant: the public values of the dialog are passed on as they come.
SanitizeNothing(program, payload) == payload

\* Of the values that the dialog calls public, those that the form says are.
sanitizeSmSecretEntryPublicValues(program, payload) ==
    {k \in payload : ~FieldIsSecret(program.fields[k])}

\* A kind of store has its ways of extraction, and a key is named once.
validateLocalToSmImportManifest(program) ==
    /\ program.source \in
          {<<"env_file", "env_var">>, <<"clixml", "password">>,
           <<"secure_string_file", "secure_string_file">>}
    /\ \A i, j \in 1 .. Len(program.keys) :
          program.keys[i] = program.keys[j] => i = j

\* A branded gate, a class that can be resolved, and one or two keys for it.
resolveSecretsManagerSecret(program) ==
    /\ program.gate = "branded"
    /\ program.class \in {"sentinel", "basic"}
    /\ Len(program.keys) = IF program.class = "basic" THEN 2 ELSE 1

isProjectAllowed(program) ==
    \A i \in 1 .. Len(program.keys) : program.keys[i] \in AllowedKeys

\* Whether the arguments of a command are taken, and where it then stands.
Accepted(program) ==
    CASE program.kind = "entry" -> parseSmSecretEntryForm(program)
      [] program.kind \in {"import", "dryrun", "parity"} ->
            validateLocalToSmImportManifest(program)
      [] program.kind = "resolve" ->
            resolveSecretsManagerSecret(program) /\ isProjectAllowed(program)
      [] program.kind \in {"write", "seed"} -> isProjectAllowed(program)

Stands(c, at) == job[c].at = at

RowStart(kind) ==
    CASE kind \in {"import", "dryrun", "parity"} -> "extract"
      [] kind = "entry"   -> "field"
      [] kind = "resolve" -> "fetch"
      [] OTHER            -> "list"

Begins(c, program) ==
    /\ Stands(c, "idle")
    /\ job' = [job EXCEPT ![c] =
         [IdleJob EXCEPT
            !.program = program, !.todo = program.keys,
            !.at = IF ~Accepted(program) THEN "failed"
                   ELSE IF program.kind = "entry" THEN "dialog"
                   ELSE RowStart(program.kind)]]
    /\ blind' = (blind \/ (program.kind = "seed" /\ ~program.manifestLoads))
    /\ UNCHANGED <<vault, made, late, local>>

-----------------------------------------------------------------------------
(* The rows of a command, one for each of its keys.                        *)

Key(c) == Head(job[c].todo)

\* What the row of an upsert writes.
RowValue(c) == IF job[c].program.kind = "import" THEN job[c].value
               ELSE job[c].program.values[Key(c)]

AfterLast(j) ==
    CASE j.program.kind = "seed"  -> IF j.program.prune THEN "prunelist"
                                     ELSE "seeded"
      [] j.program.kind = "entry" -> "emit"
      [] OTHER -> IF j.failed THEN "failed" ELSE "ok"

\* The row is over, and its value is forgotten.
RowEnds(j) ==
    LET rest == Tail(j.todo)
    IN  [j EXCEPT !.todo = rest, !.match = {}, !.value = NoValue,
                  !.at = IF rest = <<>> THEN AfterLast(j)
                         ELSE RowStart(j.program.kind)]

Continues(j) == j.program.kind \in {"import", "dryrun", "parity"}

\* Mutant: a row that fails is not counted.
RowFailsUncounted(j) ==
    IF Continues(j) THEN RowEnds(j) ELSE [j EXCEPT !.at = "failed"]

\* Imports and parity checks go on with the next row, the others end.
RowFails(j) ==
    IF Continues(j) THEN RowEnds([j EXCEPT !.failed = TRUE])
    ELSE [j EXCEPT !.at = "failed"]

\* The dialog is cancelled, or fails, or its values do not fit the form.
DialogFails(c) ==
    /\ Stands(c, "dialog")
    /\ job' = [job EXCEPT ![c].at = "failed"]
    /\ UNCHANGED <<vault, made, late, local, blind>>

DialogAnswers(c) ==
    /\ Stands(c, "dialog")
    /\ job' = [job EXCEPT ![c].at = "field"]
    /\ UNCHANGED <<vault, made, late, local, blind>>

\* Each field is written by a write of its own, which looks at the project.
FieldStarts(c) ==
    /\ Stands(c, "field")
    /\ job' = [job EXCEPT ![c].at =
                  IF Key(c) \in AllowedKeys THEN "list" ELSE "failed"]
    /\ UNCHANGED <<vault, made, late, local, blind>>

\* The answer for the agent; the dialog of Windows names the public values.
Emit(c) ==
    /\ Stands(c, "emit")
    /\ \E payload \in SUBSET DOMAIN job[c].program.fields :
          job' = [job EXCEPT ![c] =
             [@ EXCEPT !.at = "ok",
                       !.shown = sanitizeSmSecretEntryPublicValues(
                                    job[c].program, payload)]]
    /\ UNCHANGED <<vault, made, late, local, blind>>

(* The store is read; a dry run needs no more.  The project of a row is    *)
(* looked at by an import only.                                            *)
Extract(c) ==
    /\ Stands(c, "extract")
    /\ job' = [job EXCEPT ![c] =
         CASE local[Key(c)] = NoValue -> RowFails(@)
           [] local[Key(c)] # NoValue /\ @.program.kind = "dryrun" -> RowEnds(@)
           [] local[Key(c)] # NoValue /\ @.program.kind = "parity" ->
                 [@ EXCEPT !.value = local[Key(c)], !.at = "fetch"]
           [] local[Key(c)] # NoValue /\ @.program.kind = "import" ->
                 IF Key(c) \in AllowedKeys
                 THEN [@ EXCEPT !.value = local[Key(c)], !.at = "list"]
                 ELSE RowFails(@)]
    /\ UNCHANGED <<vault, made, late, local, blind>>

\* The application whose secret it is changes its own store.
LocalChanges(k, v) ==
    /\ local[k] # v
    /\ local' = [local EXCEPT ![k] = v]
    /\ UNCHANGED <<vault, made, late, job, blind>>

-----------------------------------------------------------------------------
(* The calls of bws.  The effect at the server and the end of the child    *)
(* are one step, as the command does nothing in between.                   *)

Matches(key) == {i \in vault : i.key = key}

\* upsertSecretsManagerSecret, the list: one item is edited, none is made.
List(c) ==
    /\ Stands(c, "list")
    /\ job' = [job EXCEPT ![c] =
         IF Cardinality(Matches(Key(c))) > 1 THEN RowFails(@)
         ELSE [@ EXCEPT !.match = {i.id : i \in Matches(Key(c))},
                        !.at = IF Matches(Key(c)) = {} THEN "create" ELSE "edit"]]
    /\ UNCHANGED <<vault, made, late, local, blind>>

\* An import reads its row back, for the others it is over.
Written(j) == IF j.program.kind = "import"
              THEN [j EXCEPT !.match = {}, !.at = "fetch"] ELSE RowEnds(j)

Edited(items, id, value) ==
    {IF i.id = id THEN [i EXCEPT !.value = value] ELSE i : i \in items}

(* The edit of an item.  A note is put between --value and its argument,   *)
(* so that bws refuses the command line; a deleted item is refused too.    *)
Edit(c) ==
    LET id == CHOOSE i \in job[c].match : TRUE
        refused == job[c].program.kind = "seed" \/ \A i \in vault : i.id # id
    IN  /\ Stands(c, "edit")
        /\ IF refused
           THEN vault' = vault /\ job' = [job EXCEPT ![c] = RowFails(@)]
           ELSE /\ vault' = Edited(vault, id, RowValue(c))
                /\ job' = [job EXCEPT ![c] = Written(@)]
        /\ UNCHANGED <<made, late, local, blind>>

NewItem(key, value) == [id |-> made + 1, key |-> key, value |-> value]

Create(c) ==
    /\ Stands(c, "create")
    /\ made < MaxMade
    /\ vault' = vault \cup {NewItem(Key(c), RowValue(c))}
    /\ made' = made + 1
    /\ job' = [job EXCEPT ![c] = Written(@)]
    /\ UNCHANGED <<late, local, blind>>

\* fetchSecretsManagerSecretValue, the list: exactly one item is read.
FetchList(c) ==
    /\ Stands(c, "fetch")
    /\ job' = [job EXCEPT ![c] =
         IF Cardinality(Matches(Key(c))) # 1 THEN RowFails(@)
         ELSE [@ EXCEPT !.match = {i.id : i \in Matches(Key(c))},
                        !.at = "get"]]
    /\ UNCHANGED <<vault, made, late, local, blind>>

(* What was read is compared by its digest; a resolve takes it.            *)
Fetched(j, value) ==
    CASE j.program.kind = "resolve" -> RowEnds(j)
      [] j.program.kind \in {"import", "parity"} ->
            IF value = j.value
            THEN RowEnds([j EXCEPT !.verified =
                             j.verified \cup {<<Head(j.todo), value>>}])
            ELSE RowFails(j)

Get(c) ==
    /\ Stands(c, "get")
    /\ \/ \E i \in vault :
             i.id \in job[c].match /\ job' = [job EXCEPT ![c] = Fetched(@, i.value)]
       \/ /\ \A i \in vault : i.id \notin job[c].match
          /\ job' = [job EXCEPT ![c] = RowFails(@)]
    /\ UNCHANGED <<vault, made, late, local, blind>>

-----------------------------------------------------------------------------
(* What a seed does when its keys are written.                             *)

\* Mutant: the keys of the manifest are not kept.
KeepBindingsOnly(program) == BindingKeys

(* The keys that are kept.  A manifest that cannot be loaded counts as one *)
(* without entries.                                                        *)
requiredKeysByProject(program) ==
    BindingKeys \cup (IF program.manifestLoads THEN InventoryKeys ELSE {})

\* What is to be deleted is decided by the keys of the one list.
PruneList(c) ==
    /\ Stands(c, "prunelist")
    /\ job' = [job EXCEPT ![c] =
         [@ EXCEPT !.match = {i.id : i \in {x \in vault :
                       x.key \notin requiredKeysByProject(job[c].program)}},
                   !.at = "prune"]]
    /\ UNCHANGED <<vault, made, late, local, blind>>

\* deleteSecretsManagerSecret; an item that is gone is an error.
Prune(c, id) ==
    /\ Stands(c, "prune") /\ id \in job[c].match
    /\ vault' = {i \in vault : i.id # id}
    /\ job' = [job EXCEPT ![c] =
         IF \A i \in vault : i.id # id THEN [@ EXCEPT !.at = "failed"]
         ELSE [@ EXCEPT !.match = job[c].match \ {id}]]
    /\ UNCHANGED <<made, late, local, blind>>

PruneEnds(c) ==
    /\ Stands(c, "prune") /\ job[c].match = {}
    /\ job' = [job EXCEPT ![c].at = "seeded"]
    /\ UNCHANGED <<vault, made, late, local, blind>>

\* The smoke test starts a bridge that resolves the keys.
Seeded(c) ==
    /\ Stands(c, "seeded")
    /\ job' = [job EXCEPT ![c] =
         IF ~@.program.smoke THEN [@ EXCEPT !.at = "ok"]
         ELSE [@ EXCEPT !.at = "fetch", !.todo = job[c].program.keys,
                        !.program.kind = "resolve"]]
    /\ UNCHANGED <<vault, made, late, local, blind>>

-----------------------------------------------------------------------------
(* runCommand fails: bws is missing, exits with an error, writes to stderr *)
(* or is killed after 30 seconds.  A request that changes the vault may    *)
(* have been carried out, or be carried out later.                         *)

Request(c) ==
    CASE Stands(c, "edit") ->
            {[op |-> "edit", ids |-> job[c].match, key |-> Key(c),
              value |-> RowValue(c)]}
      [] Stands(c, "create") ->
            {[op |-> "create", ids |-> {}, key |-> Key(c), value |-> RowValue(c)]}
      [] Stands(c, "prune") ->
            {[op |-> "delete", ids |-> {id}, key |-> NoValue, value |-> NoValue] :
                id \in job[c].match}
      [] OTHER -> {}

\* Mutant: a call that fails is tried again.
CallRetried(c) ==
    /\ job[c].at \in {"list", "edit", "create", "fetch", "get", "prunelist",
                      "prune"}
    /\ \/ UNCHANGED late
       \/ \E r \in Request(c) : late = {} /\ late' = {r}
    /\ UNCHANGED <<vault, made, local, job, blind>>

CallFails(c) ==
    /\ job[c].at \in {"list", "edit", "create", "fetch", "get", "prunelist",
                      "prune"}
    /\ Stands(c, "prune") => job[c].match # {}
    /\ \/ UNCHANGED late
       \/ \E r \in Request(c) :
             /\ ~(r.op = "edit" /\ job[c].program.kind = "seed")
             /\ Cardinality(late) < MaxLate
             /\ late' = late \cup {r}
    /\ job' = [job EXCEPT ![c] = RowFails(@)]
    /\ UNCHANGED <<vault, made, local, blind>>

TakesEffect(r) ==
    /\ late' = late \ {r}
    /\ CASE r.op = "edit" ->
              /\ vault' = {IF i.id \in r.ids THEN [i EXCEPT !.value = r.value]
                           ELSE i : i \in vault}
              /\ UNCHANGED made
         [] r.op = "create" ->
              /\ made < MaxMade
              /\ vault' = vault \cup {NewItem(r.key, r.value)}
              /\ made' = made + 1
         [] r.op = "delete" ->
              /\ vault' = {i \in vault : i.id \notin r.ids}
              /\ UNCHANGED made
    /\ UNCHANGED <<local, job, blind>>

-----------------------------------------------------------------------------

JobWork(c) ==
    \/ DialogAnswers(c) \/ FieldStarts(c) \/ Emit(c) \/ Extract(c)
    \/ List(c) \/ Edit(c) \/ Create(c) \/ FetchList(c) \/ Get(c)
    \/ PruneList(c) \/ (\E id \in job[c].match : Prune(c, id))
    \/ PruneEnds(c) \/ Seeded(c)

JobStep(c) == JobWork(c) \/ CallFails(c)

VaultNext ==
    \/ \E c \in Commands :
          \/ \E p \in Programs : Begins(c, p)
          \/ DialogFails(c) \/ JobStep(c)
    \/ \E k \in InventoryKeys, v \in SmValues : LocalChanges(k, v)
    \/ \E r \in late : TakesEffect(r)

VaultSpec == VaultInit /\ [][VaultNext]_vaultVars

(* Every call of bws has a timeout, and so has the dialog of Linux; for    *)
(* those of Windows and macOS the operator is assumed to answer.           *)
VaultFairness == \A c \in Commands : WF_vaultVars(JobStep(c))

FairVaultSpec == VaultSpec /\ VaultFairness

-----------------------------------------------------------------------------
(* Properties.                                                             *)

(* The type of every variable.                                             *)
VaultTypeOK ==
    /\ vault \subseteq [id : 1 .. made, key : SmKeys, value : SmValues]
    /\ made \in 0 .. MaxMade
    /\ local \in [InventoryKeys -> SmValues \cup {NoValue}]
    /\ \A c \in Commands :
          /\ job[c].value \in SmValues \cup {NoValue}
          /\ job[c].verified \subseteq SmKeys \X SmValues
          /\ job[c].shown \subseteq SmKeys

(* A row of an import becomes eligible for purging the local store only    *)
(* when the vault holds what was extracted, and an import or a parity      *)
(* check that reports ok has verified every one of its rows, whatever the  *)
(* other commands and late requests do (runLocalToSmImport).               *)
ImportOkIsStored ==
    [][\A c \in Commands :
         /\ \A kv \in job'[c].verified :
               \/ kv \in job[c].verified
               \/ \E i \in vault : <<i.key, i.value>> = kv
         /\ job'[c].at = "ok" /\ job[c].at # "ok"
            /\ job[c].program.kind \in {"import", "parity"}
            => \A i \in 1 .. Len(job[c].program.keys) : \E v \in SmValues :
                  <<job[c].program.keys[i], v>> \in job'[c].verified]_vaultVars

(* No command removes an item of an operational binding, and as long as    *)
(* every seed could load the manifest none of the inventory either, also   *)
(* not by a request that takes effect late (seed-sm-operational --prune).  *)
PruneKeepsInventory ==
    [][\A i \in vault :
         i.key \in BindingKeys \cup (IF blind THEN {} ELSE InventoryKeys)
         => \E x \in vault' : x.id = i.id /\ x.key = i.key]_vaultVars

(* The agent is never shown the value of a password field, whatever the    *)
(* form asks for and the dialog answers (run-sm-secret-entry).             *)
NoPasswordShown ==
    \A c \in Commands : \A k \in job[c].shown :
        job[c].program.fields[k].kind # "password"

(* A command that was started comes to its end, also when calls fail, items*)
(* vanish between list and get, or keys are ambiguous.                     *)
VaultCommandsSettle ==
    \A c \in Commands :
        job[c].at \notin {"idle", "dialog", "ok", "failed"} ~>
            job[c].at \in {"ok", "failed"}

(* docs/sm-onboarding-and-import.md:91 promises that a prune keeps the     *)
(* inventory without any condition.                                        *)
PruneKeepsManifest ==
    [][\A i \in vault :
         i.key \in InventoryKeys => \E x \in vault' : x.id = i.id]_vaultVars

(* docs/features.md calls the seed idempotent: without a failing call, the *)
(* seed of a vault that was seeded before succeeds.                        *)
SeedIsRepeatable ==
    \A c \in Commands : job[c].program.kind = "seed" => job[c].at # "failed"
=============================================================================
