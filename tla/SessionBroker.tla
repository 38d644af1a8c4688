---------------------------- MODULE SessionBroker ----------------------------
(***************************************************************************)
(* The brokers that log in once and then act for the agent: a form login    *)
(* whose cookies they keep (browser-session-broker.mjs), and the SSH and    *)
(* FTP brokers (ssh-session-broker.mjs, ftp-session-broker.mjs), which log  *)
(* in again for every operation.  The module models one of the three: each *)
(* class has its own counter.  A call of start holds one of its slots from *)
(* its login until it fails or is closed; requests of the agent run        *)
(* concurrently with each other and with close().                          *)
(***************************************************************************)
EXTENDS SessionPolicy, FiniteSets

CONSTANTS
    Protos,         \* the classes of broker to consider
    Calls,          \* calls of start, each with its session
    Requests,       \* requests of agents
    Offers,         \* policy, live gate and credentials that a caller offers
    Cookies,        \* cookies that the site may set: a name and a value
    ShortCookies,   \* the ones whose value has fewer than 8 characters
    MaxSessions,    \* MAX_BROWSER_SESSION_BROKERS and the like: 8
    MaxCookies      \* the largest jar: 32

\* No session; no secret, the credentials of a session, a fixed reply.
NoOne == "none"
Nothing == <<>>
Cred == <<"cred">>
Fixed == <<"fixed">>

Secrets == {Cred} \cup Cookies

ASSUME SessionAssumption ==
    /\ Protos \subseteq {"browser", "ssh", "ftp"}
    /\ \A k \in Cookies : k \notin {Nothing, Cred, Fixed}
    /\ ShortCookies \subseteq Cookies
    /\ IsFiniteSet(Calls)
    /\ MaxSessions \in Nat /\ MaxCookies \in Nat \ {0}
    /\ NoOne \notin Calls

VARIABLES
    proto,           \* the class of this broker
    running,         \* the process is alive
    activeSessions,  \* the counter of the class
    call,            \* the calls of start, and the sessions they made
    rq,              \* the requests of the agents
    held,            \* a client holds a connection and sends no request on it
    shown            \* observes the last reply that reached an agent

sessionVars == <<proto, running, activeSessions, call, rq, held, shown>>

NoCall == [at |-> "idle", allowed |-> {}, hopsLeft |-> 0, path |-> NoOne,
           jar |-> {}, sensitive |-> {}, quoted |-> FALSE, expired |-> FALSE]

NoRequest == [at |-> "idle", call |-> NoOne, op |-> NoOne, conn |-> FALSE]

NoReply == [call |-> NoOne, content |-> Nothing]

SessionInit ==
    /\ proto \in Protos
    /\ running = TRUE
    /\ activeSessions = 0
    /\ call = [c \in Calls |-> NoCall]
    /\ rq = [r \in Requests |-> NoRequest]
    /\ held = [c \in Calls |-> FALSE]
    /\ shown = NoReply

Logging == {"form", "posted", "verify", "auth"}

\* The calls that own a slot.
Holding == {c \in Calls : call[c].at \in Logging \cup {"listen", "open"}}

Handlers(c) == {r \in Requests : rq[r].call = c /\ rq[r].at # "idle"}

-----------------------------------------------------------------------------
(* startBrowserSessionBroker, startSshSessionBroker, startFtpSessionBroker. *)

VersionOf(k) == CASE k = "browser" -> 5 [] k = "ssh" -> 7 [] OTHER -> 8

\* The tests before the counter is raised.  No await separates them from it.
Admissible(o) ==
    /\ activeSessions < MaxSessions
    /\ IF proto = "browser" /\ o.gate.given
         THEN validateLiveBrowserFormLoginPolicy(o.policy, o.gate)
         ELSE validatePolicy(o.policy)
    /\ o.policy.version = VersionOf(proto)
    /\ proto = "browser" \/ o.policy.target_port >= 1
    /\ validateBasicCredentials(o.credentials)

Start(c, o) ==
    /\ running
    /\ call[c].at \in {"idle", "closed"} /\ Handlers(c) = {}
    /\ Admissible(o)
    /\ activeSessions' = activeSessions + 1
    /\ call' = [call EXCEPT ![c] =
          [NoCall EXCEPT !.at = IF proto = "browser" THEN "form" ELSE "auth",
                         !.allowed = o.policy.allowed,
                         !.hopsLeft = o.policy.max_redirect_hops,
                         !.sensitive = {Cred},
                         !.quoted = o.credentials.quoted]]
    /\ UNCHANGED <<proto, running, rq, held, shown>>

\* A refused call throws and changes nothing.
StartRefused(c, o) ==
    /\ running
    /\ call[c].at = "idle"
    /\ ~Admissible(o)
    /\ UNCHANGED sessionVars

\* Mutant: the slot of a call that fails is never given back.
ReleaseNothing == activeSessions' = activeSessions

\* Every failure and close() give the slot back.
Release == activeSessions' = IF activeSessions > 0 THEN activeSessions - 1 ELSE 0

\* Mutant: a login that ends at no page of the policy is not given up.
FailsBeforePost(c) ==
    /\ running
    /\ call[c].at \in {"form", "auth", "listen"}
    /\ Release
    /\ call' = [call EXCEPT ![c] = NoCall]
    /\ UNCHANGED <<proto, running, rq, held, shown>>

\* The login or the listen threw: the jar is dropped with the slot.
StartFails(c) ==
    /\ running
    /\ call[c].at \in Logging \cup {"listen"}
    /\ Release
    /\ call' = [call EXCEPT ![c] = NoCall]
    /\ UNCHANGED <<proto, running, rq, held, shown>>

\* Mutant: the cookie of a response is kept but not screened for.
IngestUnscreened(s, cookie) ==
    IF cookie = Nothing THEN s
    ELSE [s EXCEPT !.jar = {k \in @ : k[1] # cookie[1]} \cup {cookie}]

\* ingestSetCookie for the one cookie that a response may set: a cookie of
\* the same name is replaced, and every value is screened for from then on.
Ingest(s, cookie) ==
    IF cookie = Nothing THEN s
    ELSE [s EXCEPT !.jar = {k \in @ : k[1] # cookie[1]} \cup {cookie},
                   !.sensitive = @ \cup {cookie}]

Overflows(s, cookie) ==
    cookie # Nothing /\ Cardinality(Ingest(s, cookie).jar) > MaxCookies

\* The login is over: the jar, what to screen for and the credentials are kept.
Kept(s, at) == [NoCall EXCEPT !.at = at, !.jar = s.jar, !.sensitive = s.sensitive,
                              !.quoted = s.quoted]

\* performLogin: the form is read and the credentials are posted to it.
FormRead(c) ==
    /\ running
    /\ call[c].at = "form"
    /\ call' = [call EXCEPT ![c].at = "posted", ![c].path = "form_action"]
    /\ UNCHANGED <<proto, running, activeSessions, rq, held, shown>>

\* The paths that a redirect of the login may lead to.
HopPaths(s) == s.allowed \cup {"login_path", "form_action"}

\* A redirect within the origin is followed with a GET while hops are left.
LoginRedirected(c, cookie, path) ==
    /\ running
    /\ call[c].at = "posted"
    /\ ~Overflows(call[c], cookie)
    /\ call[c].hopsLeft > 0
    /\ path \in HopPaths(call[c])
    /\ call' = [call EXCEPT ![c] =
          [Ingest(call[c], cookie) EXCEPT
             !.hopsLeft = call[c].hopsLeft - 1, !.path = path]]
    /\ UNCHANGED <<proto, running, activeSessions, rq, held, shown>>

\* A page that is no challenge, at a path of the policy: it is asked once
\* more for the success path.
LoginLanded(c, cookie) ==
    /\ running
    /\ call[c].at = "posted"
    /\ ~Overflows(call[c], cookie)
    /\ call[c].path \in call[c].allowed
    /\ call' = [call EXCEPT ![c] = Kept(Ingest(@, cookie), "verify")]
    /\ UNCHANGED <<proto, running, activeSessions, rq, held, shown>>

LoginVerified(c, cookie) ==
    /\ running
    /\ call[c].at = "verify"
    /\ ~Overflows(call[c], cookie)
    /\ Ingest(call[c], cookie).jar # {}
    /\ call' = [call EXCEPT ![c] = Kept(Ingest(@, cookie), "listen")]
    /\ UNCHANGED <<proto, running, activeSessions, rq, held, shown>>

\* The SSH and FTP brokers: one exchange in which the target accepts the
\* credentials.
Authenticated(c) ==
    /\ running
    /\ call[c].at = "auth"
    /\ call' = [call EXCEPT ![c] = Kept(@, "listen")]
    /\ UNCHANGED <<proto, running, activeSessions, rq, held, shown>>

Listening(c) ==
    /\ running
    /\ call[c].at = "listen"
    /\ call' = [call EXCEPT ![c] = Kept(@, "open")]
    /\ UNCHANGED <<proto, running, activeSessions, rq, held, shown>>

\* session_ttl_ms has passed since the start, or idle_ttl_ms since the last
\* request.  Only a request that is not refused for it renews the idle time,
\* so both are final.
Expire(c) ==
    /\ call[c].at = "open" /\ ~call[c].expired
    /\ call' = [call EXCEPT ![c].expired = TRUE]
    /\ UNCHANGED <<proto, running, activeSessions, rq, held, shown>>

-----------------------------------------------------------------------------
(* close().                                                                *)

\* closeServer destroys every connection; closeHttp lets each request that
\* runs finish.
CloseConnections(c) ==
    rq' = IF proto = "browser"
            THEN [r \in Requests |-> IF rq[r].call = c
                                       THEN [rq[r] EXCEPT !.conn = FALSE]
                                       ELSE rq[r]]
            ELSE rq

Close(c) ==
    /\ running
    /\ call[c].at = "open"
    /\ call' = [call EXCEPT ![c] = [NoCall EXCEPT !.at = "closing"]]
    /\ Release
    /\ CloseConnections(c)
    /\ UNCHANGED <<proto, running, held, shown>>

\* server.close calls back once no connection is left, a connection without a
\* request included.
CloseDone(c) ==
    /\ running
    /\ call[c].at = "closing"
    /\ ~held[c] /\ \A r \in Handlers(c) : ~rq[r].conn
    /\ call' = [call EXCEPT ![c] = Kept(@, "closed")]
    /\ UNCHANGED <<proto, running, activeSessions, rq, held, shown>>

\* A client connects to an SSH or FTP broker and sends nothing; closeServer of
\* the browser broker would destroy its connection.
ClientHolds(c) ==
    /\ running /\ proto # "browser"
    /\ call[c].at = "open" /\ ~held[c]
    /\ held' = [held EXCEPT ![c] = TRUE]
    /\ UNCHANGED <<proto, running, activeSessions, call, rq, shown>>

ClientLeaves(c) ==
    /\ held[c]
    /\ held' = [held EXCEPT ![c] = FALSE]
    /\ UNCHANGED <<proto, running, activeSessions, call, rq, shown>>

-----------------------------------------------------------------------------
(* handleReplay and the two handleRequest.                                 *)

Ops == CASE proto = "browser" -> {"replay"}
         [] proto = "ssh" -> {"status", "exec"}
         [] OTHER -> {"status", "list", "retr"}

\* The await at which an operation begins: it reads its body, asks its
\* upstream, or is answered at once.
FirstAwait(op) == CASE op \in {"exec", "retr"} -> "body"
                    [] op \in {"replay", "list"} -> "upstream"
                    [] OTHER -> "idle"

\* The handler ends; its reply reaches the agent if the connection lives.
Answer(r, content) ==
    /\ shown' = [call |-> rq[r].call,
                 content |-> IF rq[r].conn THEN content ELSE Nothing]
    /\ rq' = [rq EXCEPT ![r] = NoRequest]

\* A request that the session serves.  The broker's limits, a method or a
\* path it does not have, and a query string are answered with a fixed reply.
Arrive(r, c, op) ==
    /\ running
    /\ rq[r].at = "idle"
    /\ call[c].at = "open" /\ ~call[c].expired
    /\ op \in Ops
    /\ rq' = [rq EXCEPT ![r] = IF FirstAwait(op) = "idle" THEN NoRequest ELSE
                 [at |-> FirstAwait(op), call |-> c, op |-> op, conn |-> TRUE]]
    /\ shown' = NoReply
    /\ UNCHANGED <<proto, running, activeSessions, call, held>>

\* new URL throws for the target // of a request: the rejection of the handler
\* is not handled, and ends the process.
ArriveMalformed(r, c) ==
    /\ running
    /\ rq[r].at = "idle"
    /\ call[c].at = "open" /\ ~call[c].expired
    /\ running' = FALSE
    /\ UNCHANGED <<proto, activeSessions, call, rq, held, shown>>

\* session_expired; session_closed, which only a connection that is still
\* there can bring; and not_found.
ArriveRefused(r, c) ==
    /\ running
    /\ rq[r].at = "idle"
    /\ \/ call[c].at = "open"
       \/ call[c].at = "closing" /\ (held[c] \/ \E q \in Handlers(c) : rq[q].conn)
    /\ shown' = [call |-> c, content |-> Fixed]
    /\ UNCHANGED <<proto, running, activeSessions, call, rq, held>>

\* The body names a command or a path of the policy: the exchange begins,
\* with the credentials of the session.
BodyAllowed(r) ==
    /\ running
    /\ rq[r].at = "body"
    /\ rq' = [rq EXCEPT ![r].at = "upstream"]
    /\ UNCHANGED <<proto, running, activeSessions, call, held, shown>>

\* Every fixed reply after an await: a body that is no request or is not
\* allowed, a failed exchange, a redirect, a reply that is too long.
FixedReply(r) ==
    /\ running
    /\ rq[r].at # "idle"
    /\ Answer(r, Fixed)
    /\ UNCHANGED <<proto, running, activeSessions, call, held>>

\* A reply that sets a cookie: it is ingested, and the reply is blocked
\* after its text was read.  The handler does not look whether the session
\* was closed meanwhile.
CookieReply(r, cookie) ==
    /\ running
    /\ rq[r].at = "upstream" /\ proto = "browser" /\ cookie # Nothing
    /\ ~Overflows(call[rq[r].call], cookie)
    /\ call' = [call EXCEPT ![rq[r].call] = Ingest(@, cookie)]
    /\ rq' = [rq EXCEPT ![r].at = "blocked"]
    /\ UNCHANGED <<proto, running, activeSessions, held, shown>>

\* cookie_jar_overflow is thrown outside of every try: the rejection of the
\* handler is not handled, and ends the process.
OverflowCrash(r, cookie) ==
    /\ running
    /\ rq[r].at = "upstream" /\ proto = "browser"
    /\ Overflows(call[rq[r].call], cookie)
    /\ running' = FALSE
    /\ UNCHANGED <<proto, activeSessions, call, rq, held, shown>>

\* The head of the upstream's answer; its text follows.
HeadReply(r) ==
    /\ running
    /\ rq[r].at = "upstream" /\ proto = "browser"
    /\ rq' = [rq EXCEPT ![r].at = "text"]
    /\ UNCHANGED <<proto, running, activeSessions, call, held, shown>>

\* A text is not searched for the value of a short cookie; and the body of an
\* SSH or FTP reply is JSON, which escapes a quote or a backslash that the
\* values to search for have as they are.
Searchable(s, content) ==
    /\ content \notin ShortCookies
    /\ proto = "browser" \/ ~s.quoted

containsSensitive(s, content) == content \in s.sensitive /\ Searchable(s, content)

\* The text is complete, and holds content.  A listing holds only paths of
\* the policy.
TextReply(r, content) ==
    /\ running
    /\ rq[r].at = (IF proto = "browser" THEN "text" ELSE "upstream")
    /\ rq[r].op = "list" => content = Nothing
    /\ Answer(r, IF containsSensitive(call[rq[r].call], content)
                   THEN Fixed ELSE content)
    /\ UNCHANGED <<proto, running, activeSessions, call, held>>

\* The agent, or a timeout of the HTTP server, gives up the connection.
Disconnect(r) ==
    /\ rq[r].at # "idle" /\ rq[r].conn
    /\ rq' = [rq EXCEPT ![r].conn = FALSE]
    /\ UNCHANGED <<proto, running, activeSessions, call, held, shown>>

\* A new process has no sessions.
Restart ==
    /\ ~running
    /\ running' = TRUE /\ activeSessions' = 0
    /\ call' = [c \in Calls |-> NoCall]
    /\ rq' = [r \in Requests |-> NoRequest]
    /\ held' = [c \in Calls |-> FALSE]
    /\ shown' = NoReply
    /\ UNCHANGED proto

-----------------------------------------------------------------------------
\* What becomes of a login, and of a request.
LoginStep(c) ==
    \/ StartFails(c) \/ FormRead(c) \/ Authenticated(c) \/ Listening(c)
    \/ \E cookie \in Cookies \cup {Nothing} :
          \/ LoginLanded(c, cookie) \/ LoginVerified(c, cookie)
          \/ \E path \in HopPaths(call[c]) : LoginRedirected(c, cookie, path)

HandlerStep(r) ==
    \/ BodyAllowed(r) \/ FixedReply(r) \/ HeadReply(r)
    \/ \E cookie \in Cookies : CookieReply(r, cookie) \/ OverflowCrash(r, cookie)
    \/ \E content \in Secrets \cup {Nothing} : TextReply(r, content)

SessionNext ==
    \/ \E c \in Calls :
          \/ \E o \in Offers : Start(c, o) \/ StartRefused(c, o)
          \/ LoginStep(c) \/ Expire(c) \/ Close(c) \/ CloseDone(c)
          \/ ClientHolds(c) \/ ClientLeaves(c)
          \/ \E r \in Requests :
                \/ \E op \in Ops : Arrive(r, c, op)
                \/ ArriveMalformed(r, c) \/ ArriveRefused(r, c)
    \/ \E r \in Requests : HandlerStep(r) \/ Disconnect(r)
    \/ Restart

\* A client that sends the body of its request no further: a server that was
\* closed gives it no time limit any more.
Stalled(r) == rq[r].at = "body" /\ rq[r].conn /\ call[rq[r].call].at # "open"

\* Every fetch and exchange ends (they have timeouts of their own), the body of
\* a request arrives or its connection ends or times out while the server
\* listens, and the event loop runs on.
SessionFairness ==
    /\ \A c \in Calls : WF_sessionVars(LoginStep(c)) /\ WF_sessionVars(CloseDone(c))
    /\ \A r \in Requests : WF_sessionVars(~Stalled(r) /\ HandlerStep(r))

SessionSpec == SessionInit /\ [][SessionNext]_sessionVars

FairSessionSpec == SessionSpec /\ SessionFairness

-----------------------------------------------------------------------------
\* The types of the variables.
SessionTypeOK ==
    /\ proto \in Protos /\ running \in BOOLEAN /\ activeSessions \in Nat
    /\ held \in [Calls -> BOOLEAN]
    /\ \A c \in Calls :
          /\ call[c].at \in Logging \cup {"idle", "listen", "open", "closing", "closed"}
          /\ call[c].jar \subseteq Cookies /\ call[c].sensitive \subseteq Secrets
    /\ \A r \in Requests :
          /\ rq[r].at \in {"idle", "body", "upstream", "blocked", "text"}
          /\ rq[r].call \in Calls \cup {NoOne}

\* The counter is the number of the sessions that log in, listen or are
\* open: no path of a failed start, of close() or of a second close() gives a
\* slot back twice or keeps it, so the limit never blocks a free slot.
SlotsAreExact == activeSessions = Cardinality(Holding)

\* Where a secret is not screened for: in what an SSH or FTP broker answers
\* after close() has cleared the set, or says of credentials that JSON escapes;
\* and the value of a short cookie.
Unscreened(c, secret) ==
    \/ proto # "browser" /\ (call[c].at = "closing" \/ call[c].quoted)
    \/ secret \in ShortCookies

\* What the agent is given holds neither the credentials nor a cookie of the
\* jar, however requests, rotations of cookies and close() interleave, but for
\* the three cases of Unscreened, each of which a refuted property shows.
SecretsAreScreened ==
    [][\A c \in Calls :
          shown' # shown /\ shown'.call = c /\ shown'.content \in {Cred} \cup call[c].jar =>
             Unscreened(c, shown'.content)]_sessionVars

\* REFUTED: "Agents see opaque session ids and allow-listed ops -- never
\* passwords" (docs/phase16-ssh-ftp-session-brokers.md:5-6).  With credentials
\* that JSON escapes an open session shows them; with others a request that
\* close() overtook does.
PasswordsStayInside ==
    [][\A c \in Calls :
          shown' # shown /\ shown'.call = c => shown'.content # Cred]_sessionVars

\* REFUTED: "Session cookies join the sensitive-variant set"
\* (docs/phase6-browser-form-login.md:25): a short value does, and no text is
\* searched for it.
SessionCookiesAreScreened ==
    [][\A c \in Calls :
          shown' # shown /\ shown'.call = c => shown'.content \notin call[c].jar]_sessionVars

\* A start ends with a session or without one, a request that was taken is
\* answered or has lost its connection, and close() returns although the SSH
\* and FTP brokers wait for their requests; unless the process dies, or a
\* client keeps a connection of a closed SSH or FTP session for ever.
SessionWorkSettles ==
    /\ \A c \in Calls :
          /\ call[c].at \in Logging \cup {"listen"} ~>
                call[c].at \in {"idle", "open"} \/ ~running
          /\ call[c].at = "closing" ~>
                \/ call[c].at # "closing" \/ ~running
                \/ [](held[c] \/ \E r \in Handlers(c) : Stalled(r))
    /\ \A r \in Requests :
          rq[r].at # "idle" ~> rq[r].at = "idle" \/ ~running \/ []Stalled(r)
=============================================================================
