---------------------------- MODULE OwnedBrowser ----------------------------
(***************************************************************************)
(* The agent-facing operations of one open Bridge-owned browser            *)
(* (src/bridge-owned-browser.mjs, handleAgentRequest and its handlers, with *)
(* the target checks of src/bridge-browser-targeting.mjs and the two page  *)
(* adapters).  Requests are served one at a time through opTail; between   *)
(* two awaits of the request being served the site may change the page,    *)
(* time may pass, clients may leave or hold a connection, a page operation *)
(* may hang, and the owner may call close().                               *)
(***************************************************************************)
EXTENDS Naturals, Sequences

CONSTANTS
    MaxRequests,    \* bound: requests the agent sends in a behaviour
    MaxQueue,       \* bound: requests waiting behind opTail
    MaxCookies,     \* bound: session cookie values the site issues
    MaxTime,        \* bound: ticks of the clock
    SessionTtl,     \* policy.session_ttl_ms, in ticks
    IdleTtl         \* policy.idle_ttl_ms, in ticks

ASSUME BoundsAssumption ==
    /\ MaxRequests \in Nat /\ MaxQueue \in Nat \ {0}
    /\ MaxCookies \in Nat /\ MaxTime \in Nat
    /\ SessionTtl \in Nat /\ IdleTtl \in Nat

VARIABLES
    driver,              \* "fetch" or "playwright", fixed at start
    now, lastUsedAt,     \* the clock (createdAt is 0) and the last accepted use
    queue, sent,         \* requests chained on opTail; how many were sent so far
    holding,             \* a client holds a connection that gets no answer
    op,                  \* the request being served and the await it stands at
    page,                \* the live page: its document, what became of a password
    cookie,              \* the session cookie value the site accepts (0: none)
    sensitive,           \* screened values: Credential and absorbed cookies
    loggedIn, passwordEntryActive,
    generation, lastSnapshot,
    authorized,          \* the generation whose targets were authorized
    closed, shutdown,    \* close() was called; how far its promise has come
    adapterUp,           \* the adapter has not been closed
    reply,               \* the last response: was it 200, the cookie its page knew
    delivered,           \* how often, and to which form, the credentials were given
    shot                 \* did the last screenshot show a typed password

timeVars == <<now, lastUsedAt>>
agentVars == <<queue, sent, holding>>
targetVars == <<generation, lastSnapshot, authorized>>
closeVars == <<closed, shutdown, adapterUp>>
ghostVars == <<reply, delivered, shot>>
vars == <<driver, timeVars, agentVars, op, page, cookie, sensitive, loggedIn,
          passwordEntryActive, targetVars, closeVars, ghostVars>>

\* lastSnapshot and authorized are null when their generation is 0.
NoSnapshot == [generation |-> 0, doc |-> "login"]

Credential == 0

OpNames == {"status", "forbidden", "snapshot", "select_targets",
            "inject_login", "goto", "screenshot", "malformed"}

\* The requests whose handler begins with readBody.
Posts == {"select_targets", "inject_login", "goto"}

\* A request whose client is gone is answered to nobody; the page operation
\* of a hung one does not settle.
Idle == [name |-> "idle", step |-> "idle", facts |-> "login", seen |-> 0,
         gone |-> FALSE, hung |-> FALSE]

Steps == {"idle", "start", "absorb", "verify", "fill", "submit", "landed",
          "reset", "load", "capture", "shoot"}

-----------------------------------------------------------------------------
(* Documents the site can show, told apart by what the target checks read: *)
(* the login form; the same form on a foreign origin or with a foreign     *)
(* form action; an MFA or CAPTCHA challenge; and pages without the         *)
(* policy's fields on the success path, an allowed path and neither.       *)

Documents == {"login", "foreign", "foreignAction", "challenge", "success",
              "allowed", "elsewhere"}

Origin(d) == IF d = "foreign" THEN "foreign" ELSE "own"

FormOrigin(d) == IF d \in {"foreign", "foreignAction"} THEN "foreign" ELSE "own"

Challenge(d) == d = "challenge"

HasPolicyFields(d) == d \in {"login", "foreign", "foreignAction"}

AllowedPath(d) == d \in {"success", "allowed"}

\* Mutant: the live origin is checked, the form action is not.
MutantInjectSafe(d) ==
    /\ ~Challenge(d)
    /\ Origin(d) = "own"
    /\ HasPolicyFields(d)

\* assertInjectSafe: challenge, origin, form action and field types.
InjectSafe(d) ==
    /\ ~Challenge(d)
    /\ Origin(d) = "own"
    /\ FormOrigin(d) = "own"
    /\ HasPolicyFields(d)

\* The records a session keeps.
QueuedType == [name : OpNames, gone : BOOLEAN]
OpType == [name : OpNames \cup {"idle"}, step : Steps,
           facts : Documents, seen : Nat, gone : BOOLEAN, hung : BOOLEAN]

\* filled: a password field shows the password; typed: the document was given
\* it; checked: nothing has changed since the adapter last looked at the page.
PageType == [doc : Documents, filled : BOOLEAN, typed : BOOLEAN,
             checked : BOOLEAN]
SnapshotType == [generation : Nat, doc : Documents]
ReplyType == [ok : BOOLEAN, seen : Nat]
DeliveryType == [count : Nat, target : {"own", "foreign"}]

\* authorizeTargetSelection: the agent names a generation and three indices,
\* which are either those of the policy's fields or not.
SelectionAuthorized(snapshot, g, rightTargets) ==
    /\ g = snapshot.generation
    /\ Origin(snapshot.doc) = "own"
    /\ FormOrigin(snapshot.doc) = "own"
    /\ HasPolicyFields(snapshot.doc)
    /\ rightTargets

\* The input[type=password] of the page holds text (Playwright only).
MutantOccupied == FALSE
passwordFieldsOccupied == page.filled

\* A page operation of a closed browser rejects; a jar keeps working.
AdapterCanAnswer == driver = "fetch" \/ adapterUp

\* A new document has empty fields.
Fresh(d) == [doc |-> d, filled |-> FALSE, typed |-> FALSE, checked |-> FALSE]

\* Playwright asserts the origin of every page it reads; fetch does not.
ReadRefused(d) == driver = "playwright" /\ Origin(d) = "foreign"

\* Mutant: the cookies of the page are not absorbed.
MutantAbsorbed == sensitive

\* absorbCookiesInto: nothing is left to absorb from a cleared jar.
Absorbed ==
    sensitive \cup (IF adapterUp /\ cookie # 0 THEN {cookie} ELSE {})

-----------------------------------------------------------------------------

Init ==
    /\ driver \in {"fetch", "playwright"}
    /\ now = 0 /\ lastUsedAt = 0
    /\ queue = <<>> /\ sent = 0 /\ holding = FALSE
    /\ op = Idle
    /\ page = Fresh("login")
    /\ cookie = 0
    /\ sensitive = {Credential}
    /\ loggedIn = FALSE
    /\ passwordEntryActive = FALSE
    /\ generation = 0
    /\ lastSnapshot = NoSnapshot
    /\ authorized = 0
    /\ closed = FALSE /\ shutdown = "open" /\ adapterUp = TRUE
    /\ reply = [ok |-> FALSE, seen |-> 0]
    /\ delivered = [count |-> 0, target |-> "own"]
    /\ shot = FALSE

(* The environment: agent, clock, site.                                    *)

(* A request reaches the HTTP server and is chained on opTail.             *)
Arrive(name) ==
    /\ shutdown \in {"open", "adapter"}
    /\ sent < MaxRequests /\ Len(queue) < MaxQueue
    /\ queue' = Append(queue, [name |-> name, gone |-> FALSE])
    /\ sent' = sent + 1
    /\ UNCHANGED <<driver, timeVars, holding, op, page, cookie, sensitive,
                   loggedIn, passwordEntryActive, targetVars, closeVars,
                   ghostVars>>

(* A client opens a connection and sends nothing, or half a request, or    *)
(* lets such a connection go.  Neither adds to opTail.                     *)
ClientHolds ==
    /\ \/ ~holding /\ shutdown \in {"open", "adapter"}
       \/ holding
    /\ holding' = ~holding
    /\ UNCHANGED <<driver, timeVars, queue, sent, op, page, cookie, sensitive,
                   loggedIn, passwordEntryActive, targetVars, closeVars,
                   ghostVars>>

(* The client of a request that waits on opTail leaves.  Nobody listens to *)
(* the request yet, so its destruction is seen by nobody.                  *)
QueuedClientLeaves(i) ==
    /\ ~queue[i].gone
    /\ queue' = [queue EXCEPT ![i].gone = TRUE]
    /\ UNCHANGED <<driver, timeVars, sent, holding, op, page, cookie,
                   sensitive, loggedIn, passwordEntryActive, targetVars,
                   closeVars, ghostVars>>

(* The client of the request being served leaves: readBody rejects, any    *)
(* other await goes on.                                                    *)
ServedClientLeaves ==
    /\ op # Idle /\ ~op.gone
    /\ op' = [op EXCEPT !.gone = TRUE,
                        !.step = IF @ = "start" /\ op.name \in Posts
                                 THEN "load" ELSE @]
    /\ UNCHANGED <<driver, timeVars, agentVars, page, cookie, sensitive,
                   loggedIn, passwordEntryActive, targetVars, closeVars,
                   ghostVars>>

\* The awaits of page operations: no call here passes a time limit.
AwaitsPage ==
    \/ op.step = "start" /\ op.name \in {"snapshot", "screenshot"}
    \/ op.step \in {"absorb", "verify", "fill", "submit", "landed", "capture"}

(* A page operation does not settle.                                       *)
PageHangs ==
    /\ AwaitsPage /\ AdapterCanAnswer /\ ~op.hung
    /\ op' = [op EXCEPT !.hung = TRUE]
    /\ UNCHANGED <<driver, timeVars, agentVars, page, cookie, sensitive,
                   loggedIn, passwordEntryActive, targetVars, closeVars,
                   ghostVars>>

Tick ==
    /\ now < MaxTime
    /\ now' = now + 1
    /\ UNCHANGED <<driver, lastUsedAt, agentVars, op, page, cookie, sensitive,
                   loggedIn, passwordEntryActive, targetVars, closeVars,
                   ghostVars>>

\* The site issues a fresh cookie value, or keeps the one it has.
SiteCookie ==
    \/ cookie' = cookie
    \/ cookie < MaxCookies /\ cookie' = cookie + 1

(* The page navigates by itself.                                           *)
SiteChangesPage(d) ==
    /\ shutdown \notin {"done", "crashed"}
    /\ page' = Fresh(d)
    /\ SiteCookie
    /\ UNCHANGED <<driver, timeVars, agentVars, op, sensitive, loggedIn,
                   passwordEntryActive, targetVars, closeVars, ghostVars>>

(* A script of a document that was given the password empties its field,   *)
(* or fills it again.                                                      *)
PageRedraws ==
    /\ page.typed
    /\ page' = [page EXCEPT !.filled = ~@, !.checked = FALSE]
    /\ UNCHANGED <<driver, timeVars, agentVars, op, cookie, sensitive,
                   loggedIn, passwordEntryActive, targetVars, closeVars,
                   ghostVars>>

-----------------------------------------------------------------------------
(* Serving one request.                                                    *)

\* A response is written, if there is still someone to read it.
Answer(gone, ok, seen) ==
    reply' = IF gone THEN reply ELSE [ok |-> ok, seen |-> seen]

\* The response is written and the next request on opTail may begin.
Respond(ok, seen) == op' = Idle /\ Answer(op.gone, ok, seen)

At(name, step) == op.name = name /\ op.step = step /\ ~op.hung

\* The body of a request that was destroyed while it was queued never ends.
BodyLost == op.step = "start" /\ op.name \in Posts /\ op.gone

\* A hung page operation is rejected when its browser ends; a fetch is not.
StillHung == op.hung /\ ~(driver = "playwright" /\ ~adapterUp)

Advance(step) == op' = [op EXCEPT !.step = step]

\* Mutant: the generation moves on, the authorized selection stays.
MutantBumpedTargets ==
    /\ generation' = generation + 1
    /\ UNCHANGED authorized

BumpedTargets ==
    /\ generation' = generation + 1
    /\ authorized' = 0

BumpGeneration ==
    /\ BumpedTargets
    /\ lastSnapshot' = NoSnapshot

Expired == now > SessionTtl \/ now - lastUsedAt > IdleTtl

\* The first request of opTail leaves it; one that is neither refused nor
\* answered at once goes on to its handler.
Dispatch(refused) ==
    LET r == Head(queue) IN
    /\ queue' = Tail(queue)
    /\ IF refused \/ r.name \in {"status", "forbidden"}
          THEN op' = Idle /\ Answer(r.gone, r.name = "status" /\ ~refused, 0)
          ELSE /\ op' = [Idle EXCEPT !.name = r.name, !.step = "start",
                                     !.gone = r.gone]
               /\ UNCHANGED reply
    /\ UNCHANGED <<driver, now, sent, holding, page, cookie, sensitive,
                   loggedIn, passwordEntryActive, targetVars, closeVars,
                   delivered, shot>>

\* Mutant: the request is counted as a use before the expiry check.
MutantTouchFirst ==
    /\ op = Idle /\ queue # <<>>
    /\ closed \/ Expired \/ Head(queue).name # "malformed"
    /\ lastUsedAt' = now
    /\ Dispatch(closed \/ Expired)

\* Mutant: a queued request is served without looking at closed again.
MutantBeginClosed ==
    /\ op = Idle /\ queue # <<>>
    /\ Expired \/ Head(queue).name # "malformed"
    /\ lastUsedAt' = IF Expired THEN lastUsedAt ELSE now
    /\ Dispatch(Expired)

(* handleAgentRequest up to its dispatch: a closed or expired session      *)
(* answers 503 or 401; any other request counts as a use, even one whose   *)
(* operation is then denied.                                               *)
BeginRequest ==
    /\ op = Idle /\ queue # <<>>
    /\ closed \/ Expired \/ Head(queue).name # "malformed"
    /\ lastUsedAt' = IF closed \/ Expired THEN lastUsedAt ELSE now
    /\ Dispatch(closed \/ Expired)

(* new URL throws outside the try.  A request chained behind it handles    *)
(* the rejection and this one is never answered; without one the rejection *)
(* is unhandled and ends the process.                                      *)
BeginMalformed ==
    /\ op = Idle /\ queue # <<>>
    /\ ~closed /\ ~Expired /\ Head(queue).name = "malformed"
    /\ queue' = Tail(queue)
    /\ lastUsedAt' = now
    /\ IF Tail(queue) # <<>>
          THEN /\ holding' = (holding \/ ~Head(queue).gone)
               /\ UNCHANGED closeVars
          ELSE /\ holding' = FALSE
               /\ shutdown' = "crashed" /\ adapterUp' = FALSE
               /\ UNCHANGED closed
    /\ UNCHANGED <<driver, now, sent, op, page, cookie, sensitive, loggedIn,
                   passwordEntryActive, targetVars, ghostVars>>

\* Mutant: the handler is returned without await, so its rejection is not caught.
MutantUncaught ==
    /\ op.step = "start" /\ ~BodyLost /\ ~StillHung
    /\ Respond(FALSE, 0)
    /\ UNCHANGED <<driver, timeVars, agentVars, page, cookie, sensitive,
                   loggedIn, passwordEntryActive, targetVars, closeVars,
                   delivered, shot>>

(* An awaited page operation, body read or check throws: the catch of      *)
(* handleAgentRequest answers with an error code and nothing else changes. *)
RequestFails ==
    /\ op.step \in {"start", "absorb", "load", "capture", "shoot"}
    /\ ~BodyLost /\ ~StillHung
    /\ Respond(FALSE, 0)
    /\ UNCHANGED <<driver, timeVars, agentVars, page, cookie, sensitive,
                   loggedIn, passwordEntryActive, targetVars, closeVars,
                   delivered, shot>>

(* snapshot: adapter.snapshotPage returns the facts of the page it read.   *)
SnapshotRead ==
    /\ At("snapshot", "start")
    /\ AdapterCanAnswer /\ ~ReadRefused(page.doc)
    /\ op' = [op EXCEPT !.step = "absorb", !.facts = page.doc, !.seen = cookie]
    /\ UNCHANGED <<driver, timeVars, agentVars, page, cookie, sensitive,
                   loggedIn, passwordEntryActive, targetVars, closeVars,
                   ghostVars>>

(* snapshot: cookies are absorbed, then the generation is bumped, then a   *)
(* challenge is refused.  The snapshot is recorded before the path of a    *)
(* logged-in page is refused.                                              *)
SnapshotFinish ==
    /\ At("snapshot", "absorb")
    /\ AdapterCanAnswer
    /\ sensitive' = Absorbed
    /\ BumpedTargets
    /\ lastSnapshot' =
          IF Challenge(op.facts) THEN NoSnapshot
          ELSE [generation |-> generation + 1, doc |-> op.facts]
    /\ Respond(/\ ~Challenge(op.facts)
               /\ loggedIn => AllowedPath(op.facts), op.seen)
    /\ UNCHANGED <<driver, timeVars, agentVars, page, cookie, loggedIn,
                   passwordEntryActive, closeVars, delivered, shot>>

(* select_targets: the selection must match the latest snapshot.           *)
SelectTargets(g, rightTargets) ==
    /\ At("select_targets", "start") /\ ~BodyLost
    /\ lastSnapshot # NoSnapshot
    /\ SelectionAuthorized(lastSnapshot, g, rightTargets)
    /\ authorized' = lastSnapshot.generation
    /\ Respond(TRUE, 0)
    /\ UNCHANGED <<driver, timeVars, agentVars, page, cookie, sensitive,
                   loggedIn, passwordEntryActive, generation, lastSnapshot,
                   closeVars, delivered, shot>>

(* inject_login: an empty body, or the generation the agent pins.          *)
InjectAdmit(pinned) ==
    /\ At("inject_login", "start") /\ ~BodyLost
    /\ ~loggedIn
    /\ authorized # 0 /\ lastSnapshot # NoSnapshot
    /\ pinned \in {0, lastSnapshot.generation}
    /\ passwordEntryActive' = TRUE
    /\ Advance("verify")
    /\ UNCHANGED <<driver, timeVars, agentVars, page, cookie, sensitive,
                   loggedIn, targetVars, closeVars, ghostVars>>

(* The live page is read again and must pass assertInjectSafe.             *)
InjectVerify ==
    /\ At("inject_login", "verify")
    /\ AdapterCanAnswer /\ ~ReadRefused(page.doc)
    /\ InjectSafe(page.doc)
    /\ op' = [op EXCEPT !.step = "fill", !.facts = page.doc]
    /\ page' = [page EXCEPT !.checked = TRUE]
    /\ UNCHANGED <<driver, timeVars, agentVars, cookie, sensitive, loggedIn,
                   passwordEntryActive, targetVars, closeVars, ghostVars>>

(* submitLogin of Playwright types both values into the fields that carry  *)
(* the authorized names on whatever page is live by now.                   *)
InjectFill ==
    /\ At("inject_login", "fill") /\ driver = "playwright"
    /\ adapterUp /\ HasPolicyFields(page.doc)
    /\ page' = [page EXCEPT !.filled = TRUE, !.typed = TRUE, !.checked = FALSE]
    /\ delivered' = [count |-> delivered.count + 1, target |-> Origin(page.doc)]
    /\ Advance("submit")
    /\ UNCHANGED <<driver, timeVars, agentVars, cookie, sensitive, loggedIn,
                   passwordEntryActive, targetVars, closeVars, reply, shot>>

(* submitLogin of fetch reads the hidden fields, then posts to the form    *)
(* action of the facts that were verified.                                 *)
InjectPost ==
    /\ At("inject_login", "fill") /\ driver = "fetch"
    /\ delivered' = [count |-> delivered.count + 1,
                     target |-> FormOrigin(op.facts)]
    /\ page' = [page EXCEPT !.checked = FALSE]
    /\ Advance("submit")
    /\ UNCHANGED <<driver, timeVars, agentVars, cookie, sensitive, loggedIn,
                   passwordEntryActive, targetVars, closeVars, reply, shot>>

(* The click, or the redirects of the post, lead to document d.            *)
InjectLands(d) ==
    /\ At("inject_login", "submit")
    /\ AdapterCanAnswer /\ ~ReadRefused(d)
    /\ page' = Fresh(d)
    /\ SiteCookie
    /\ op' = [op EXCEPT !.step = "landed", !.facts = d]
    /\ UNCHANGED <<driver, timeVars, agentVars, sensitive, loggedIn,
                   passwordEntryActive, targetVars, closeVars, ghostVars>>

(* Cookies are absorbed, then the landing page decides.                    *)
InjectFinish ==
    /\ At("inject_login", "landed")
    /\ AdapterCanAnswer
    /\ sensitive' = Absorbed
    /\ IF op.facts = "success"
          THEN /\ loggedIn' = TRUE
               /\ passwordEntryActive' = FALSE
               /\ BumpGeneration
               /\ Respond(TRUE, 0)
          ELSE /\ Advance("reset")
               /\ UNCHANGED <<loggedIn, passwordEntryActive, targetVars, reply>>
    /\ UNCHANGED <<driver, timeVars, agentVars, page, cookie, closeVars,
                   delivered, shot>>

(* Any await of the injection may throw: adapter failure, a page that is   *)
(* no longer safe, a locator that finds nothing, a foreign landing.        *)
InjectFails ==
    /\ op.name = "inject_login"
    /\ op.step \in {"verify", "fill", "submit", "landed"} /\ ~StillHung
    /\ op' = [op EXCEPT !.step = "reset", !.hung = FALSE]
    /\ page' = [page EXCEPT !.checked = FALSE]
    /\ UNCHANGED <<driver, timeVars, agentVars, cookie, sensitive, loggedIn,
                   passwordEntryActive, targetVars, closeVars, ghostVars>>

(* The catch and finally of handleInject: resetLoginPage is attempted, its *)
(* failure swallowed; the flag is dropped and the error answered.          *)
InjectReset ==
    /\ At("inject_login", "reset")
    /\ \/ /\ AdapterCanAnswer
          /\ page' = Fresh("login")
       \/ UNCHANGED page
    /\ passwordEntryActive' = FALSE
    /\ Respond(FALSE, 0)
    /\ UNCHANGED <<driver, timeVars, agentVars, cookie, sensitive, loggedIn,
                   targetVars, closeVars, delivered, shot>>

(* goto: only when logged in, only onto an allowed path; the load may end  *)
(* on any document, which is answered unless Playwright refuses its origin. *)
GotoLoad(d) ==
    /\ At("goto", "start") /\ ~BodyLost
    /\ loggedIn
    /\ AdapterCanAnswer
    /\ page' = Fresh(d)
    /\ SiteCookie
    /\ op' = [op EXCEPT !.step = IF ReadRefused(d) THEN "load" ELSE "absorb",
                        !.facts = d, !.seen = cookie']
    /\ UNCHANGED <<driver, timeVars, agentVars, sensitive, loggedIn,
                   passwordEntryActive, targetVars, closeVars, ghostVars>>

GotoFinish ==
    /\ At("goto", "absorb")
    /\ AdapterCanAnswer
    /\ sensitive' = Absorbed
    /\ BumpGeneration
    /\ Respond(TRUE, op.seen)
    /\ UNCHANGED <<driver, timeVars, agentVars, page, cookie, loggedIn,
                   passwordEntryActive, closeVars, delivered, shot>>

(* screenshot: refused while a password is being entered or stands in a    *)
(* field; fetch has no screenshots.                                        *)
ScreenshotCheck ==
    /\ At("screenshot", "start")
    /\ driver = "playwright" /\ adapterUp
    /\ ~passwordEntryActive /\ ~passwordFieldsOccupied
    /\ Advance("capture")
    /\ UNCHANGED <<driver, timeVars, agentVars, page, cookie, sensitive,
                   loggedIn, passwordEntryActive, targetVars, closeVars,
                   ghostVars>>

(* screenshotPage looks at the fields once more ...                        *)
ScreenshotRecheck ==
    /\ At("screenshot", "capture")
    /\ adapterUp /\ ~passwordFieldsOccupied
    /\ page' = [page EXCEPT !.checked = TRUE]
    /\ Advance("shoot")
    /\ UNCHANGED <<driver, timeVars, agentVars, cookie, sensitive, loggedIn,
                   passwordEntryActive, targetVars, closeVars, ghostVars>>

(* ... and then awaits the picture of what the page shows by now.          *)
ScreenshotCapture ==
    /\ At("screenshot", "shoot")
    /\ adapterUp
    /\ shot' = page.filled
    /\ Respond(TRUE, 0)
    /\ page' = [page EXCEPT !.checked = FALSE]
    /\ UNCHANGED <<driver, timeVars, agentVars, cookie, sensitive, loggedIn,
                   passwordEntryActive, targetVars, closeVars, delivered>>

-----------------------------------------------------------------------------
(* close() of the handle, concurrent with the request being served.        *)

\* Mutant: the sensitive set is cleared when close() begins.
MutantCloseClearsFirst ==
    /\ shutdown = "open"
    /\ closed' = TRUE /\ shutdown' = "adapter"
    /\ sensitive' = {}
    /\ UNCHANGED <<driver, timeVars, agentVars, op, page, cookie, loggedIn,
                   passwordEntryActive, targetVars, adapterUp, ghostVars>>

CloseCalled ==
    /\ shutdown = "open"
    /\ closed' = TRUE /\ shutdown' = "adapter"
    /\ UNCHANGED <<driver, timeVars, agentVars, op, page, cookie, sensitive,
                   loggedIn, passwordEntryActive, targetVars, adapterUp,
                   ghostVars>>

(* The browser ends, or the jar is cleared, possibly after the timeout.    *)
AdapterCloses ==
    /\ closed /\ adapterUp
    /\ adapterUp' = FALSE
    /\ UNCHANGED <<driver, timeVars, agentVars, op, page, cookie, sensitive,
                   loggedIn, passwordEntryActive, targetVars, closed, shutdown,
                   ghostVars>>

CloseAdapterSettles ==
    /\ shutdown = "adapter"
    /\ shutdown' = "http"
    /\ UNCHANGED <<driver, timeVars, agentVars, op, page, cookie, sensitive,
                   loggedIn, passwordEntryActive, targetVars, closed, adapterUp,
                   ghostVars>>

\* A client waits for the answer to a request.
ClientWaits ==
    \/ op # Idle /\ ~op.gone
    \/ \E i \in DOMAIN queue : ~queue[i].gone

(* server.close() waits for every connection, without a limit, and for     *)
(* nothing else: a handler whose client left may still run when            *)
(* sensitive.clear() follows.                                              *)
CloseHttpFinishes ==
    /\ shutdown = "http"
    /\ ~holding /\ ~ClientWaits
    /\ shutdown' = "done"
    /\ sensitive' = {}
    /\ UNCHANGED <<driver, timeVars, agentVars, op, page, cookie, loggedIn,
                   passwordEntryActive, targetVars, closed, adapterUp,
                   ghostVars>>

-----------------------------------------------------------------------------

Serve ==
    \/ BeginRequest \/ BeginMalformed \/ RequestFails
    \/ SnapshotRead \/ SnapshotFinish
    \/ \E g \in 1..MaxRequests, right \in BOOLEAN : SelectTargets(g, right)
    \/ \E pinned \in 0..MaxRequests : InjectAdmit(pinned)
    \/ InjectVerify \/ InjectFill \/ InjectPost
    \/ \E d \in Documents : InjectLands(d)
    \/ InjectFinish \/ InjectFails \/ InjectReset
    \/ \E d \in Documents : GotoLoad(d)
    \/ GotoFinish \/ ScreenshotCheck \/ ScreenshotRecheck \/ ScreenshotCapture

Shutdown == CloseAdapterSettles \/ CloseHttpFinishes

\* What the agent, the site and the owner do at any time ...
Usual ==
    \/ \E name \in OpNames : Arrive(name)
    \/ \E d \in Documents : SiteChangesPage(d)
    \/ PageRedraws \/ CloseCalled \/ AdapterCloses

\* ... and what comes in between: time, and clients and pages that do not go on.
Disturbance ==
    \/ Tick \/ PageHangs \/ ClientHolds \/ ServedClientLeaves
    \/ \E i \in DOMAIN queue : QueuedClientLeaves(i)

Environment == Usual \/ Disturbance

Next == Serve \/ Shutdown \/ Environment

Spec == Init /\ [][Next]_vars

(* Every await of a request settles, except that of a hung page operation  *)
(* and of a lost body, and close() makes progress when its awaits settle.  *)
FairSpec == Spec /\ WF_vars(Serve) /\ WF_vars(Shutdown)

-----------------------------------------------------------------------------
(* Properties.                                                             *)

(* The type of every variable of the session.                              *)
TypeOK ==
    /\ driver \in {"fetch", "playwright"}
    /\ now \in Nat /\ lastUsedAt \in Nat /\ lastUsedAt <= now
    /\ queue \in Seq(QueuedType) /\ sent \in Nat /\ holding \in BOOLEAN
    /\ op \in OpType
    /\ page \in PageType
    /\ cookie \in Nat /\ sensitive \subseteq Nat
    /\ loggedIn \in BOOLEAN /\ passwordEntryActive \in BOOLEAN
    /\ generation \in Nat /\ authorized \in Nat
    /\ lastSnapshot \in SnapshotType
    /\ closed \in BOOLEAN /\ adapterUp \in BOOLEAN
    /\ shutdown \in {"open", "adapter", "http", "done", "crashed"}
    /\ reply \in ReplyType
    /\ delivered \in DeliveryType
    /\ shot \in BOOLEAN

(* An authorized selection always belongs to the latest snapshot: no       *)
(* order of snapshot, select, inject and goto leaves one that survived a   *)
(* newer page.                                                             *)
SelectionIsCurrent ==
    authorized # 0 =>
        /\ authorized = generation
        /\ lastSnapshot.generation = generation
        /\ InjectSafe(lastSnapshot.doc)

(* The credentials are handed over only by an injection whose targets are  *)
(* still the authorized ones, before the session has logged in, and on     *)
(* facts of the live page that were found safe: fetch posts them to the    *)
(* form action of those facts, Playwright types them into the very page,   *)
(* unless the page itself moved on after it was checked.                   *)
DeliveryIsChecked ==
    [][delivered' # delivered =>
        /\ authorized = generation /\ authorized # 0
        /\ ~loggedIn /\ passwordEntryActive
        /\ InjectSafe(op.facts)
        /\ driver = "fetch" => delivered'.target = "own"
        /\ driver = "playwright" /\ page.checked =>
              delivered'.target = "own" /\ page.doc = op.facts]_vars

(* A screenshot shows a password only if the page itself brought it back   *)
(* after the adapter's last look at its fields: what a failed injection    *)
(* left typed, because resetLoginPage failed too, is never on a picture    *)
(* otherwise.                                                              *)
NoScreenshotOfPassword == [][shot' => shot \/ ~page.checked]_vars

(* docs/phase17-bridge-owned-browser.md: a screenshot is forbidden while   *)
(* any password input is non-empty.                                        *)
ScreenshotNeverShowsPassword == ~shot

(* While the password is being entered no other request is served, and the *)
(* flag never outlives the injection that set it.                          *)
PasswordEntryIsExclusive ==
    passwordEntryActive <=>
        /\ op.name = "inject_login"
        /\ op.step \in {"verify", "fill", "submit", "landed", "reset"}

\* An injection has passed its guards and has not been answered yet.
Injecting ==
    /\ op.name = "inject_login"
    /\ op.step \in {"verify", "fill", "submit", "landed", "reset"}

(* What the safety properties rest on: no snapshot is newer than the       *)
(* generation; an injection under way holds a current selection in a       *)
(* session that is not logged in, and passes the verified facts on.        *)
SessionInv ==
    /\ TypeOK
    /\ SelectionIsCurrent
    /\ PasswordEntryIsExclusive
    /\ page.filled => page.typed
    /\ At("screenshot", "shoot") /\ page.checked => ~page.filled
    /\ lastSnapshot.generation \in {0, generation}
    /\ Injecting => authorized # 0 /\ ~loggedIn
    /\ At("inject_login", "fill") =>
          InjectSafe(op.facts) /\ (page.checked => page.doc = op.facts)
    /\ op.name = "idle" => op.step = "idle"

(* A session that has expired never comes back to life.                    *)
ExpiryIsFinal == [][Expired => Expired']_vars

\* A 200 response is written in this step.
WritesOk == op # Idle /\ ~op.gone /\ op' = Idle /\ reply'.ok

(* Every 200 response is screened against the credentials, those written   *)
(* while close() is under way included: sensitive is cleared only after    *)
(* the last exchange has ended.                                            *)
CredentialsAlwaysScreened == [][WritesOk => Credential \in sensitive']_vars

(* Page data is screened against the session cookie the page knew, if the  *)
(* cookie is still good, as long as close() has not been called.           *)
LiveCookieScreened ==
    [][WritesOk /\ ~closed /\ reply'.seen # 0 /\ reply'.seen = cookie'
        => reply'.seen \in sensitive']_vars

(* No 200 response escapes screening: not the one that close() overtakes,  *)
(* and not the one whose page has a session cookie it did not have when    *)
(* the request began.                                                      *)
ResponsesAreScreened == CredentialsAlwaysScreened /\ LiveCookieScreened

(* Once close() was called only the request then in flight can still act:  *)
(* what is queued behind it is refused, nothing else is answered with 200, *)
(* and the login state, the targets and the credentials are frozen.        *)
ClosedSessionIsInert ==
    [][closed /\ op = Idle =>
        /\ op' = Idle
        /\ reply' # reply => ~reply'.ok
        /\ UNCHANGED <<loggedIn, generation, authorized, delivered, shot>>]_vars

\* The request being served has no continuation.
Blocked == BodyLost \/ StillHung

(* Every request that was accepted is answered, unless the one in front    *)
(* waits for a body that was destroyed while it was queued, or for a page  *)
(* operation that hangs in an adapter nobody closes.                       *)
RequestsAnswered ==
    (queue # <<>> \/ op # Idle) ~> ((queue = <<>> /\ op = Idle) \/ []Blocked)

(* close() finishes although requests are still queued behind opTail,      *)
(* unless a client holds on to a connection, be it an idle one or one that *)
(* waits for an answer behind a request that is blocked.                   *)
CloseFinishes ==
    closed ~> (shutdown = "done" \/ [](holding \/ (Blocked /\ ClientWaits)))

(* Nobody waits for ever for another: the queued requests wait for the one *)
(* that runs, close() for the connections of all of them, and both are     *)
(* over in the end but for the exceptions named.                           *)
SessionDrains == RequestsAnswered /\ CloseFinishes
=============================================================================
