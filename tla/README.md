# Formal models of the agent credential bridge

TLA+ models, TLC runs and TLAPS proofs about the program in `src/`. The models
are written from the code; every definition that models code is tied to its
lines in `PROJECT.json` (`map`), and every property is tied there to a mutant
of the code it can catch.

## 1. The system

The bridge lets an agent use credentials it never sees. A resolver fetches a
secret from a vault, a *broker* listens on loopback and injects the secret into
requests to one upstream, and responses are screened so that the secret does
not come back. Around that core are operators that start several brokers at
once, installers that must leave a machine as they found it, and per-platform
gates that decide from collected evidence whether a host counts as authorized.

### 1.1 Components, state, operations

| Component (files under `src/src`) | State | Operations | Talks to | What makes it correct |
|---|---|---|---|---|
| Bridge-owned browser, admission (`bridge-owned-browser.mjs`, `-session.mjs`) | `activeSessions`, the adapter and listener of each start | start, failed start, `close()` | page adapter, login site | exact slot counting; nothing left after a failure; close ends |
| Bridge-owned browser, agent session (same, `bridge-browser-*.mjs`) | page generation, last snapshot, authorized targets, sensitive values, `opTail` | status, snapshot, select, inject, goto, screenshot, close | page adapter, HTTP | only checked pages get the password; nothing secret is returned |
| Operational bridge (`operational-bridge.mjs`, its runner) | resource stack, `cleaning` | start, smoke, `close()`, signals | all brokers, discovery port | all or nothing; reverse teardown |
| Day-2 operator (`windows-day2-operator-session.mjs`, `windows-authorization-*`) | bridge handle, refresh chain, last snapshot | start, tick, stop | operational bridge, collectors | no orphan, nothing after stop, drift applied |
| HTTP broker (`broker.js`) | policy, credential, agent token, listener | one request pipeline, close | upstream API | every response path is screened |
| Browser session broker (`browser-session-broker.mjs`) | session count, cookie jar, sensitive values, TTL clocks | start (login), replay, close | login site | admission, no cookie leaves, closed is closed |
| SSH and FTP session brokers | session count, connection state | start, command, close | synthetic servers | command allow lists, one close |
| OneCLI proxy broker, supervisor and runtime (`onecli-proxy-*`) | clients, tunnels, child process, lease | start, connect, forced stop | child process over pipes | bounded clients; the child always ends |
| Disposable executor (`apply-manifest.mjs`, `disposable-*.mjs`) | files, rollback stack | apply manifest, roll back | file system | all changes, or none |
| Secrets Manager local lifecycle (`secrets-manager-local-lifecycle.mjs`, token stores) | allow file, token slots | store, rename, inspect, uninstall | DPAPI, Keychain, file | allow file and token agree after every failure |
| Secrets Manager resolver, bws adapter, local import | child process, deadline | resolve, write, import | `bws` | bounded output, no half import unnoticed |
| Helper protocol and pipe sessions (`helper-protocol.mjs`, `windows-*-session.mjs`) | nonce, sequence, child, deadline | hello, request, close | native helper | replies match requests; children end |
| Authorization verdicts, evidence, gates (`*-authorization.mjs`, `*-gate.mjs`, `*-evidence.mjs`, `*-plan.mjs`) | none | pure functions of documents | collectors | fail closed |
| Native lifecycle controller (`native/*.c`) and service (`native/windows-helper-service`) | journal of owned objects; pipe server | install, verify, remove; sessions | launchd; SCM | ownership before removal |
| Policy, classes, dialogs, wizards, audits, demos | none to speak of | validate, ask, scan | user, files | input is rejected early |

All JavaScript components run on one event loop: code between two `await`s is
atomic, and everything else interleaves. The models take every `await` as a
boundary between actions and let other actors act there.

### 1.2 Hard behaviours

Concurrent starts against a process-wide limit; adapters and browsers that
never settle; pages that change between a check and its use; requests queued
across `close()`; teardown in reverse with failures in the middle and several
callers; a timer whose ticks replace a resource that `stop()` is closing;
partial failure of installers between two system calls; crashes between an
allow file and a token store; child processes that ignore signals. `PROJECT.json`
lists each at its line under `hazards` with the property that covers it.

## 2. Modules

| Module | Models | Kind |
|---|---|---|
| `OwnedBrowserAdmission` | starts, the slot, failure paths, bounded close, login site | component |
| `OwnedBrowserAdmissionProofs` | theorems about it | proofs |
| `OwnedBrowser` | one session: queue, operations, page, screening, close | component |
| `OwnedBrowserProofs` | theorems about it | proofs |
| `OperationalOffer` | what agents may find through discovery | abstract specification |
| `OperationalBridge` | bridge processes, cleanup, discovery port, runner; implements `OperationalOffer` | component |
| `OperationalBridgeProofs` | theorems about it, and the refinement | proofs |
| `Day2Operator` | bootstrap, refresh chain, bridge replacement, stop, runner | component |
| `DisposableExecutor` | manifest, forward actions call by call, rollback | component |
| `HelperSession` | pipe session and handle transfer with the install helper | component |
| `MacLifecycle` | the macOS provisioner, runner and lifecycle controller | component |
| `ApplyAndHelperProofs` | theorems about `DisposableExecutor`, `HelperSession` and `MacLifecycle` | proofs |
| `ServiceLifecycle` | live tests and persistent setups of the Windows service | component |
| `BoundaryEvidence` | collection of evidence and the Windows verdict | component |
| `WindowsOperatorProofs` | theorems about `Day2Operator`, `ServiceLifecycle` and `BoundaryEvidence` | proofs |
| `HttpBroker` | start, one handler per request, screening, close | component |
| `HttpBrokerProofs` | theorems about it | proofs |
| `SmLifecycle` | allow file and token store: setup, rename, uninstall, collector, deaths | component |
| `SmVault` | commands against a Secrets Manager project through `bws` | component |
| `SecretsManagerProofs` | theorems about `SmLifecycle` and `SmVault` | proofs |
| `SessionPolicy` | the policies and the live gate a session broker takes | operators |
| `SessionBroker` | the browser, SSH and FTP session brokers; uses `SessionPolicy` | component |
| `ProxyRuntime` | OneCLI proxy: supervisor, child process, broker connections | composition of three |
| `LoopbackBrokersProofs` | theorems about `SessionBroker` and `ProxyRuntime` | proofs |
| `MC*` | constants for TLC; several put the components of one side of the system next to each other | instances |

### 2.1 `OwnedBrowserAdmission`

One record of phases per call of `startBridgeOwnedBrowserForBinding`: `idle`,
`admission` (the site is being started), `launching`, `binding`, `open`,
`closing` (closeAdapter is awaited), `closingHttp`, `closed`, `released`, and
`bindFailed`/`failed`. `ReserveAndLaunch` is the synchronous block from the
check of the limit to its increment. `closeAdapter`'s race against its timer is
the choice of `CloseAdapterSettles`: the adapter may be gone or may still be
closing, and `AdapterGone` may come late or never.

### 2.2 `OwnedBrowser`

`op` is the request at the head of `opTail` and the await it stands at; `queue`
is what is chained behind it. The page is one of seven documents told apart by
what `parseLoginPageFacts` reads, with a flag for a typed password. The page
may change at any await (`SiteChangesPage`), time may pass (`Tick`), and
`close()` may be called. `reply`, `delivered` and `shot` observe responses,
handed-over credentials and screenshots, they guide no action.

### 2.3 `OperationalBridge` and `OperationalOffer`

`resources` is the stack the code pushes to, `running` what is really up,
`stuck` what rejected its `close()`, and `teardown` one `cleanup()` call per
caller. Bridges of several processes share only the discovery port. The
refinement maps `offer[b]` to the services of `b` whose upstream and broker are
both up while its discovery endpoint answers.

### 2.4 `Day2Operator`

`main` is the await at which the start stands, `tick` the await of the refresh
tick, `pending` the ticks chained behind it, `stop` the progress of `stop()`.
`hostReady` is the environment: it changes at any time, and a collection may
find a ready host unready (a collector failed), never the reverse. `orphans`
counts bridges that were overwritten while running.

### 2.5 `DisposableExecutor`

`disk` says what each managed path holds, `linked` which two names share an
inode, `exposed` what others could write before the permission setter ran.
`Forward` is the list `buildApplyManifest` derives from an observation; `index`
and `at` are the action and the system call that comes next. Every call may
fail (`ActionFails`, `RollbackFails`), a failed write may have written any of
its bytes, and a crash is an execution that stops: the invariants about the
disk hold in every state. `initial` keeps the disk of the start; it guides no
action. Temporary and backup files carry the digest of the manifest in their
names, so an initial disk may hold a temporary file of an earlier run.

### 2.6 `HttpBroker`

`policy` and `material` are what the caller of `startBroker` passes; `handler`
has one record per request. Its `phase` is the await at which
`handleBrokerRequest` stands: `none` (not sent), `reading` the request body,
`ready` (read, not yet sent on), `fetching`, `cancelling` an upstream body,
`receiving` it, `done`. `call` says for each place of the upstream request
whether it is empty, holds the caller's value or the credential. A body is a
sequence of parts, each harmless, one of the written forms of the credential
(raw, percent-encoded, base64, base64url, the form-encoded or Basic form the
broker itself wrote, or a form it does not know), or half of it, so that a
credential split over two chunks is told apart. `connected` is the client's
socket: what is written after it is gone is lost. A streamed body over the limit
destroys the request, and with it the connection the 413 would use, as
`readRequestBody` does.

### 2.7 `SmLifecycle`

`allow` is the machine name in the allow file, `store` what each place for a
token holds: one Keychain item per name on macOS, one file on Windows and Linux
(`Torn` is a file `Export-Clixml` did not finish). `cmd` is the command that
runs and the await at which it stands; a person runs one command at a time, and
the collector interleaves with it. `Dies` ends the process at any await;
`leftover` holds the temporary token files that outlive a Linux store. A
Keychain call that is reported as failed may have had its effect. `given`
observes under which names a token was ever set; it guides no action.

The model also shows limits of the code that no document contradicts. Setup
writes the allow file before it verifies and stores the token, so a failed
setup leaves a name without a token (the collector then fails closed).
Uninstall deletes only the item of the name the allow file holds, so an item
that an earlier rename failed to delete stays.

### 2.8 `SessionPolicy` and `SessionBroker`

`SessionPolicy` has one predicate per validator of `policy.js` for the session
classes, over the parts of a URL, the sets of fields and paths and the numbers
the validator compares; a gate is branded or a copy. `SessionBroker` is one of
the three classes (`proto`), each with its counter. `call` has one record per
start: its await in the login (form, post, redirects, verification; or the
authentication of SSH and FTP), its cookie jar and its set of sensitive values.
`rq` has one record per agent request and its await. `close()` clears the
sensitive values before it waits for SSH and FTP requests, as the code does.
`OverflowCrash` is the rejection nobody handles when a replayed response
overfills the jar: the process ends, and `Restart` begins another. `shown`
observes what reached an agent.

### 2.9 `ProxyRuntime`

Three actors: `sup` (the supervisor's start, escalation and close), `child`
(the process: frames, listener, lease, noise on stdout, a loop that blocks) and
`tunnel` (one record per client connection with its two sides). Either process
may die at any step. The lease is the pipe whose end the child sees.

### 2.10 `SmVault`

`vault` is the project, `job` what each command process does: the row it is at
and the call of `bws` it waits for. A call may fail, with its effect, without
it, or with its effect later (`late`): the adapter kills `bws` after thirty
seconds. Nothing is conditional on the server, so commands interleave between
list, create, edit and get. Local stores may change. `blind` observes whether a
seed ran without the import manifest.

### 2.11 `ServiceLifecycle` and `BoundaryEvidence`

`ServiceLifecycle`: the elevated collector of a live test goes through the
thirty steps of the gate and records what it did; its caller evaluates the
transcript or gives up. A deleted service may stay pending, and everybody uses
the same service name. The order and the ownership rules of the evaluation are
translated, not assumed: `VerifiedTestIsClean` connects what the evaluation
accepts with the state of the host.

`BoundaryEvidence`: one collection cycle asks the host one question after the
other while `BoundaryChanges` may alter the host in between; `compose` is the
chain of the verdict functions. `held` is a history of what was true since the
cycle began.

### 2.12 `HelperSession`

`hs` is the parent: its await, the two handles of the launcher file, its name,
the pipe client. `helper` is the child, of which nothing is assumed: it may
hang for ever, also after it was killed. Both transports are modelled, the pipe
(`asked.mode = "pipe"`) and stdin.

### 2.13 `MacLifecycle`

`mac` says for each of the fixed names (runner, binary, plist, account, job)
what is there: nothing, something complete or incomplete of this run, something
a killed command made afterwards, or something of another program. `ctl` is the
controller in the runner with the ownership records of the C code, `prov` the
provisioner that publishes the runner, waits for it and kills it at its
deadline. `cut` holds commands that outlived their killed process or runner.
Other programs may create, replace or remove an object between any two calls; a
C function that checks an object and then acts on it is one step.

## 3. Runs

| Run | Bounds | Shows |
|---|---|---|
| `owned_browser_admission` | 3 starts, limit 1 | exact counting on every failure path; starts and closes settle |
| `one_browser_at_a_time` | 3 starts, limit 1 | *violation*: two browsers may exist at once (section 6) |
| `owned_browser` | 4 requests, queue 1, 1 cookie, no clock | selection, delivery, screenshot and screening properties for both drivers |
| `owned_browser_live` | 2 requests, queue 2, clock to 3 | the session drains: requests answered, close ends; expiry is final |
| `operational_bridge` | 2 processes with 2 and 1 services, one extra `close()` caller | exact reverse teardown, refinement of `OperationalOffer`, close ends |
| `windows_operator` | 2 pending ticks; 2 live tests, 2 setups, 1 fault; 2 builds | nothing after stop, snapshot and bridge agree, drift applied; live tests are clean or reported; a ready verdict is fresh |
| `disposable_executor` | all three platforms, every coherent disk; 2 launchers; every initial host | the launcher survives every failure and crash, what is applied is complete, completed actions are undone in a state they fit; helper sessions end, leave nothing and succeed only when earned; the macOS lifecycle is honest and harmless |
| `rollback_restores` | the executor's | *violation*: a completed rollback may leave files (section 6) |
| `http_broker` | 1 request, bodies of 2 units, all forms | no known form of the credential comes back; the injected credential is in its place only; requests settle |
| `secrets_manager` | 2 names, 2 tokens, all platforms; 2 commands, 3 items, 1 late request | no rename loses the token; a collector returns a token of its name; imports that report ok are stored; prune keeps the inventory; no password is shown; commands settle |
| `seed_is_repeatable` | the same | *violation*: the second seed fails (section 6) |
| `loopback_brokers` | 2 starts, 2 requests, 1 slot, jar of 1 cookie; 2 clients, 1 connection | slots exact, a secret is shown only to a request that close() overtook, work settles; the proxy's noise, tunnels and ends |

Several runs hold components side by side: a variable `part` chooses in the
initial state which of them the behaviour is about, and the others stay as they
begin. Their state spaces are added, not multiplied, and no interaction between
parts is claimed.

Bounds. Three starts with one slot are one holder, one competitor and one that
arrives after a release. Four requests are the longest dependent chain of an
agent (snapshot, select, inject, screenshot), with one waiting behind the
current one. Two services give the four-resource stack in which the middle can
fail with something below and above it, and the second process is the
competitor for the port. Two pending ticks are one that runs and one that stop()
finds on the chain. The executor needs no bound: a manifest is finite.
Handlers of the HTTP broker share only the listener and the policy, so one
request is every interleaving with `close()`; two body units are the smallest
split credential and the smallest overflow. Two names allow a rename and a
rename back onto an item that was not deleted, two tokens a second setup under
the same name. Two starts and one slot are a holder and a competitor, two
requests one that is served and one that close() finds; a jar of one cookie
overflows with the second, and rotates with one of the same name. Two commands
are a writer and its rival (or a verifier and a late request of the other), and
three items leave room for a duplicate key next to another one. Two live tests
and two setups are the owner of the service's name and its rival before and
after; with one fault every step of every collector fails once. Two builds tell
a stale binary from the published one. The macOS lifecycle needs no bound. Every
numeric bound of a model is a CONSTANT named in its comment as a bound; the
theorems hold for all of their values.

Deadlock checking is off where a run ends by design: sessions are released, the
agent stops sending, processes exit.

Fairness. `WF` on the continuation of each await whose promise the code bounds
(timers on adapters, page operations and HTTP exchanges) or that Node settles
(listen, close). Never on the environment: pages, agents, signals, `close()`
calls, a browser's end and the host are unfair. In the Day-2 model the interval
timer keeps firing while the loop is on, as `setInterval` does. In the HTTP
broker, a stalled client is cut off by the request timeout of Node's server and
a silent upstream by the header and body timeouts of `fetch`; the code sets no
deadline of its own, and `RequestsSettle` rests on those. In the session brokers
logins, handlers and `close()` go on (each exchange has a timeout of its own);
in the proxy both event loops run and each wait of the supervisor has a timer,
while clients, the gateway and a blocked child are unfair, and so are the deaths
of processes; every command against the vault goes on because each call of
`bws` has a timeout, except that the dialog is assumed to be answered where it
has none (Windows, macOS). In `HelperSession` only the parent is fair: its file
calls settle and its timers fire, and nothing is assumed of the helper, the
socket or the client.

## 4. Proofs

All theorems are checked for every value of the constants that the named
assumptions allow. The assumptions are the ones the code justifies: limits are
natural numbers, sets that are counted are finite, markers such as `None` and
`"nobody"` are not names of real things, a bridge has at least one binding, and
a program for the vault has at least one key, of the inventory where it is an
import or a parity check (`validateLocalToSmImportManifest`,
`sm-secret-entry-form.mjs:79`). The inductive invariants (`AdmissionInv`,
`SessionInv`, `Day2Inv`, `ExecInv`, `BrokerInv`, `SmInv`, `MacInv` and those of
the proof modules) and some consequences (`ListenersBounded`, `NoOrphanBridge`,
`ClosedBrokerIsSilent`) are proved and are no part of a run, which would only
repeat them on an instance.

* `OwnedBrowserAdmissionProofs`: `AdmissionInv` is inductive. The counter equals
  the cardinality of the set of calls in a phase that holds a slot; each action
  moves one call in or out of that set, so the cardinality lemmas for adding
  and removing one element carry every step. `AdmissionExact` and
  `ListenersBounded` follow, the latter because listeners are a subset of the
  holders.
* `OwnedBrowserProofs`: `SessionInv` strengthens the selection, screenshot and
  password-entry properties by: no snapshot is newer than the generation, an
  injection in flight has an authorized selection in a session that is not
  logged in, and the facts it passes on were found safe. `SelectionIsCurrent`,
  `PasswordEntryIsExclusive`, `NoScreenshotOfPassword` and the action property
  `DeliveryIsChecked` follow. `ScreenInv` says what the screening of a response
  rests on while `close()` is under way: the adapter ends only after the call,
  the sensitive values stay until it is done, and by then no exchange runs and
  none can begin. The action properties `ResponsesAreScreened` (with
  `NotIdle`: a request that goes on is not answered), `ClosedSessionIsInert` and
  `ExpiryIsFinal` are facts about each step under these two invariants.
* `OperationalBridgeProofs`, for any number of processes, any binding tables and
  any further callers of `close()`. The resources of a bridge stand in one order
  (`Slot`): upstream and broker of each binding, discovery on top.
  `OperationalInv` says that until its cleanup begins a bridge runs exactly the
  first so many slots (`Growing`), and that from then on what still runs is the
  lower part that the cleanup has not reached together with what refused to
  close (`Shrinking`); only the first caller of `close()` works. It is needed
  because the teardown property says nothing of a bridge that is still opening,
  and the order of closing follows from the order of opening.
  `TeardownIsExact` is a consequence. The refinement
  (`BridgeImplementsOffer`) maps each bridge to the services it offers and
  whether it has withdrawn them; `InitRefines` and `StepsRefine` show one step
  of the bridge to be one step of the offer or none: only the bind of discovery
  offers, with all slots below it running, and the first thing a cleanup closes
  is discovery, which cannot refuse.
* `WindowsOperatorProofs`, in three parts. `Day2Inv` adds where the bridge exists
  (a tick past its close holds none, a start before its first bridge holds
  none), who may touch it, and that the chain is empty once stop() passed its
  await. `LifecycleInv` adds to `CleanOrReported` that a collector has created
  nothing before its first mutation, that what it has left at each cleanup stage
  is what it has not yet removed or has logged as failed, and that its log holds
  the denial when its outcome says so; runs are any set, and the service belongs
  to one of them, to the setup or to nobody, so a step of one leaves no more of
  another (`LeavesNoMore`). `EvidenceInv` says that each answer of a running
  cycle was true at some moment of that cycle (`AnswersAreNoted`); a report that
  is ready needs all of them, which is `ReadyIsFresh`.
* `ApplyAndHelperProofs`, in four parts. `ExecInv` adds to `LauncherIsSafe` what
  holds between two system calls: the temporary file is complete before it is
  linked, the backup is the old launcher while the launcher path is empty, and
  the restored name is the old launcher before the backup goes; each action is
  one write whose effect on the two names is known (`WriteOne`). `ApplyInv`
  describes the whole execution. Whatever a manifest needs, it lists in one order
  (`ForwardSlice`: the list holds exactly the needed ranks, ascending), so an
  execution is known by the rank it has reached (`Cur`, `RanksAscend`); the
  rollback stack holds the entries of the actions done, the highest rank on top
  (`StackPush`, `StackPop`); each entry's effect is on the disk (`PresentInv`) and
  every path without an entry is as it was, save for what the failing action left
  (`UntouchedInv`); two names share a file only between a link and its unlink
  (`LinkInv`). It is needed because neither property speaks of an execution that
  is under way. `AppliedIsComplete` is what remains at the last rank, and
  `RollbackIsSound` follows because what lies in a directory has a higher rank
  than the directory: its entry has run when the directory's is on top
  (`EntriesFit`). `HelperInv` says
  for each await of the session which handles and names are open, that the
  content behind the reader is the launcher of the request once it was written,
  and what the helper must have seen for each of its states. `MacInv` adds to
  the honesty of the reports that no command is on its way while the mutations
  go on (one that is cut off ends them), that afterwards one can be on its way
  only if the cleanup is not complete or the denial was not shown, and that a
  runner that has not been executed has not begun; each action is reduced to its
  effect on what the invariant looks at (`MutationEffect`, `RemovalEffect`).
  That what others made is kept (`OthersAreKept`) needs no more than the types:
  each action writes one name, and only over nothing or over its own.
* `HttpBrokerProofs`: `BrokerInv` says that a broker that listens was allowed to
  start, and that every handler has a screened reply, a pinned call, a body
  within the limit and no connection once the broker closed. Every action of a
  handler changes one record (`UpdateOne`), so each step reduces to one fact
  about that record, for any number of requests and any body limit.
  `ForwardedIsScreened` is the link between `ContainsVariant` and what a caller
  may see. `ReplyIsScreened`, `OutboundIsPinned` and the action property
  `ClosedBrokerIsSilent` follow.
* `SecretsManagerProofs`, in two parts. `SmInv` says where the token of a rename
  is at each of its awaits (under the old name until the new item is stored,
  under the new one before the old is deleted), and that on macOS an item holds
  only tokens given to its name. `VaultInv` says what a command may still rely
  on after others have changed the vault: an id is given out once and keeps its
  key (`Moves`), so the ids a prune remembers are still none of the inventory's
  (`Doomed`) when its request arrives, however late, and the ids a verification
  remembers still carry its key (`Named`); the rows left are a suffix of the
  keys and those before it are verified unless one has failed (`Progress`). The
  three properties of the vault are consequences, two of them about steps.
* `LoopbackBrokersProofs`, in two parts. `SessionInv` counts slots as
  `AdmissionInv` does, over any number of starts, and adds that a session that
  owns a slot screens for its credential and always for its cookies, and that a
  request that runs belongs to a session that was opened and has lost its
  connection once `close()` returned. `SecretOnlyAfterClose` needs all of it.
  `ProxyInv` adds to `NoisyRuntimeIsInactive` that clients are connected only
  while the child serves, which makes `TunnelNeedsClient` a fact about each step.

Only model-checked: what holds under fairness (`StartsAndClosesSettle`,
`SessionDrains`, `CloseEnds`, `DriftIsApplied`, `StopCompletes`,
`HelperSessionsSettle`, `RequestsSettle`, `VaultCommandsSettle`,
`SessionWorkSettles`, `ProxyWorkEnds`), which the prover does not reach.

## 5. Not modelled

`PROJECT.json` gives the reason for each component: command lines, dialogs and
demos are user interaction or test doubles; the package builders, plans and the
Linux and macOS verdicts are functions of documents without state; the vault
resolvers wrap one external command each; the Windows native service is only
represented by what its callers see. Logging, wording and report layout are
left out everywhere.

Limits of modelled components, each a place where the model is coarser than the
code or the code does something no document speaks about:

* Owned browser. What happens between the last check of the live page and
  Playwright's fill is inside a library call. Cookies shorter than eight
  characters are never screened (`bridge-browser-playwright-adapter.mjs:184`).
  A request target that `new URL` refuses is never answered
  (`bridge-owned-browser.mjs:263`). The login site stays up when
  `session.close()` rejects (`bridge-owned-browser-session.mjs:93`).
* Operational bridge. A second `close()` returns while the first still works
  (`operational-bridge.mjs:314`); no caller relies on it.
* Day-2 operator. `hostReady` stands for what `BoundaryEvidence` models in
  detail. The refresh chain grows without bound when a cycle is slower than the
  interval (`windows-authorization-evidence-refresh.mjs:230`); the model bounds
  it. SIGINT during the start runs uninstall children next to install children
  (`run-windows-day2-operator.mjs:71`).
* HTTP broker. The 413 of a streamed body is written to a connection that was
  destroyed (`broker.js:932`).
* Session brokers. An SSH or FTP reply that `close()` overtakes is screened
  against nothing; `SecretOnlyAfterClose` states exactly this exception. The
  modelled FTP policies allow both operations.
* Proxy. A child that could not be spawned never emits `exit`, and the failed
  start waits for ever (`hung` in `SupervisorSettles`).
* Secrets Manager. Uninstall looks only at the item of the name it read
  (`secrets-manager-local-lifecycle.mjs:501`). User name and password of a
  binding are two items: a resolve between two edits reads a torn pair.
* Windows service. Uninstall checks by name and acts by name; a partial
  persistent install is not undone. The install gate of a live cycle is built
  from a transcript that no run produced
  (`windows-authorization-evidence-live-collectors.mjs:50`), so `ReadyIsFresh` is
  about the other four pieces of evidence. Brands and provenance of evidence
  objects are taken as the code sets them.
* macOS lifecycle. `dscl -create` takes over an account that appears between
  the probes and the creation (`OthersAreKept` names the exception). A command
  that was killed may take effect after the report; such an object counts as
  `late`, and only a report of success excludes it. The approval receipt, the
  sudo launcher and the Mach probes are choices.

## 6. Findings

* `docs/phase17-bridge-owned-browser.md:39` promises one browser at a time. The
  slot is released before the adapter close is awaited when the bind fails
  (`src/bridge-owned-browser.mjs:198`), and after a close that timed out, while
  the browser process still runs; a second start then launches another. Agent
  surfaces stay limited (`ListenersBounded`, proved).
* `docs/phase5d-apply-live-test-gate.md:15`: "On partial failure, restore only
  files created or replaced by the confirmed manifest and verify the final
  state." An action enters the rollback only after its last system call
  (`src/disposable-executor.mjs:166`, `237`, `252`). A write that fails after
  the exclusive open, or an unlink that fails after a link, leaves its file, and
  the error reports the rollback as completed. Everything completed before is
  undone (`RollbackIsSound`) and no launcher is lost (`LauncherIsSafe`).
* `docs/features.md:25` lists an "idempotent seed". The first seed creates its
  items; the second finds them and edits, and
  `src/secrets-manager-bws-adapter.mjs:338` inserts the note between `--value` and
  its argument. `bws` refuses the call and the seed fails at its first binding.

## 7. Plan

Proofs that are left: none of a safety property that a passing run checks;
liveness stays with TLC.

Modelling that is left: the Windows native service as the other side of
`HelperSession` and `BoundaryEvidence`, the Linux and macOS verdicts beside the
Windows one, and the package builders, whose outputs are bound by digests.
