------------------------------ MODULE HttpBroker ------------------------------
(***************************************************************************)
(* The foreground HTTP credential broker (src/broker.js): the checks before *)
(* it listens, one handler per request from the request target to the      *)
(* screened response, with every await a boundary between actions, and     *)
(* close().  Messages are abstracted to what the handler tells apart: which *)
(* headers the caller names, the number of body units and, for a response, *)
(* in which written form a part of it holds the credential.                *)
(***************************************************************************)
EXTENDS Naturals, Sequences

CONSTANTS
    HttpRequests,   \* the requests agents send
    MaxBody,        \* MAX_REQUEST_BODY_BYTES, MAX_UPSTREAM_RESPONSE_BODY_BYTES
    Forms           \* the written forms of the credential that upstreams echo

\* The credential may be echoed as it is, percent-encoded in any case of the
\* hex digits, in base64 or base64url, as the form-encoded value of the query,
\* as the base64 payload of Basic, or in a form the broker does not know.
AllForms == {"raw", "percent", "base64", "base64url", "form", "payload", "other"}

ASSUME BrokerAssumption == MaxBody \in Nat /\ Forms \subseteq AllForms

VARIABLES
    policy,     \* the supplied policy
    material,   \* which of sentinel and credentials the caller supplied
    broker,     \* new, refused, binding, open, closed or crashed
    handler     \* the handler of each request

httpVars == <<policy, material, broker, handler>>

HttpInjection == {"http_bearer", "http_api_key_header", "http_basic",
                  "http_api_key_query"}

\* valid is the verdict of validatePolicy on the remaining fields.
RawPolicies ==
    [class : HttpInjection \cup {"ssh", "oauth", "unknown"},
     method : {"GET", "POST"}, path : {"/p", "/q/../p"}, valid : BOOLEAN]

Materials == SUBSET {"sentinel", "credentials"}

\* What the URL parser makes of a path.
Normal(path) == IF path = "/q/../p" THEN "/p" ELSE path

-----------------------------------------------------------------------------
(* The credential on its way out.                                          *)

\* Where the class puts the credential: a header, or the query.
Slot == CASE policy.class = "http_api_key_header" -> "header_name"
          [] policy.class = "http_api_key_query" -> "query"
          [] OTHER -> "authorization"

\* How it is written there.
WireForm == CASE policy.class = "http_basic" -> "payload"
              [] policy.class = "http_api_key_query" -> "form"
              [] OTHER -> "raw"

\* The sensitive variants built at the start.
Variants ==
    {"raw", "percent", "base64", "base64url"}
    \cup CASE policy.class = "http_basic" -> {"payload"}
           [] policy.class = "http_api_key_query" -> {"form"}
           [] OTHER -> {}

\* Headers a caller may name: one of the credential and protocol headers, the
\* header of the policy, and a harmless one.
CallerHeaders == {"authorization", "header_name", "accept"}

UnsafeCallerHeader(name, connectionTokens) ==
    \/ policy.class = "http_api_key_header" /\ name = "header_name"
    \/ name \in connectionTokens
    \/ name = "authorization"

\* The places of an upstream request a credential can be in.
CallPlaces == CallerHeaders \cup {"query"}

NoUpstreamCall == [n \in CallPlaces |-> "absent"]

\* Mutant: the credential is injected before the caller's headers are dropped.
MutantOutbound(names, connectionTokens) ==
    LET all == [n \in CallPlaces |-> IF n \in names THEN "caller" ELSE "absent"]
        injected == [all EXCEPT ![Slot] = "credential"]
    IN  [n \in CallPlaces |->
            IF n \in connectionTokens THEN "absent" ELSE injected[n]]

(* The request to the upstream: the caller's headers without the unsafe    *)
(* ones, then the one injection.  The check of a query URL repeats what    *)
(* the match of the path has established.                                  *)
Outbound(names, connectionTokens) ==
    LET kept == [n \in CallPlaces |->
                    IF n \in names /\ ~UnsafeCallerHeader(n, connectionTokens)
                       THEN "caller" ELSE "absent"]
    IN  [kept EXCEPT ![Slot] = "credential"]

-----------------------------------------------------------------------------
(* The response on its way back.                                           *)

\* Parts of a body: harmless, half of the credential, or a form of it.
Parts == {"plain", "first", "second"} \cup Forms

\* Mutant: each chunk is screened when it arrives.
MutantContainsVariant(body) == \E i \in DOMAIN body : body[i] \in Variants

(* bufferContainsSensitiveVariant, on the complete body.                   *)
ContainsVariant(body) ==
    \/ \E i \in DOMAIN body : body[i] \in Variants
    \/ \E i, j \in DOMAIN body :
          j = i + 1 /\ body[i] = "first" /\ body[j] = "second"

ResponseHeaders == {"set-cookie", "hop", "header_name", "x-note"}

\* Header "hop" is one that the response's own Connection header names.
SanitizeResponseHeaders(names) ==
    {n \in names :
        /\ n \notin {"set-cookie", "hop"}
        /\ policy.class = "http_api_key_header" => n # "header_name"}

NotReplied == [status |-> 0, headers |-> {}, body |-> <<>>]

JsonReply(status) == [status |-> status, headers |-> {}, body |-> <<>>]

-----------------------------------------------------------------------------

IdleHandler == [phase |-> "none", connected |-> FALSE, received |-> 0,
         call |-> NoUpstreamCall, body |-> <<>>, reply |-> NotReplied]

HttpInit ==
    /\ policy \in RawPolicies
    /\ material \in Materials
    /\ broker = "new"
    /\ handler = [r \in HttpRequests |-> IdleHandler]

Update(r, h) == handler' = [handler EXCEPT ![r] = h]

\* The end of a handler: what is written to a lost connection is lost.
Finished(r, reply) ==
    [IdleHandler EXCEPT !.phase = "done", !.connected = handler[r].connected,
                 !.reply = IF handler[r].connected THEN reply ELSE NotReplied]

In(r, phase) == handler[r].phase = phase

-----------------------------------------------------------------------------
(* startBroker and close.                                                  *)

StartAllowed ==
    /\ policy.class \in HttpInjection
    /\ policy.valid
    /\ material = IF policy.class = "http_basic" THEN {"credentials"}
                                                 ELSE {"sentinel"}

HttpStart ==
    /\ broker = "new"
    /\ broker' = IF StartAllowed THEN "binding" ELSE "refused"
    /\ UNCHANGED <<policy, material, handler>>

BindSucceeds ==
    /\ broker = "binding"
    /\ broker' = "open"
    /\ UNCHANGED <<policy, material, handler>>

BindFails ==
    /\ broker = "binding"
    /\ broker' = "refused"
    /\ UNCHANGED <<policy, material, handler>>

(* closeServer: all connections are destroyed, handlers go on.             *)
HttpClose ==
    /\ broker = "open"
    /\ broker' = "closed"
    /\ handler' = [r \in HttpRequests |-> [handler[r] EXCEPT !.connected = FALSE]]
    /\ UNCHANGED <<policy, material>>

-----------------------------------------------------------------------------
(* handleBrokerRequest.                                                    *)

\* The status of an early return, or 0 for a request that is forwarded.
Denied(method, target) ==
    CASE target = "query" -> 400
      [] target # "query" /\ (method # policy.method
                              \/ Normal(target) # policy.path) -> 404
      [] OTHER -> 0

(* Everything up to the first await: denial, or the request to be sent.    *)
(* A GET has no body to read; a declared length may already exceed the     *)
(* limit.                                                                  *)
HttpArrive(r, method, target, names, connectionTokens, declared) ==
    /\ broker = "open" /\ In(r, "none")
    /\ LET live == [IdleHandler EXCEPT !.connected = TRUE]
           call == Outbound(names, connectionTokens)
       IN  \/ /\ Denied(method, target) # 0
              /\ Update(r, [live EXCEPT !.phase = "done",
                               !.reply = JsonReply(Denied(method, target))])
           \/ /\ Denied(method, target) = 0 /\ method = "GET"
              /\ Update(r, [live EXCEPT !.phase = "ready", !.call = call])
           \/ /\ Denied(method, target) = 0 /\ method # "GET"
              /\ declared > MaxBody
              /\ Update(r, [live EXCEPT !.phase = "done",
                                        !.reply = JsonReply(413)])
           \/ /\ Denied(method, target) = 0 /\ method # "GET"
              /\ declared <= MaxBody
              /\ Update(r, [live EXCEPT !.phase = "reading", !.call = call])
    /\ UNCHANGED <<policy, material, broker>>

\* A handler that ended with its process.
Lost == [IdleHandler EXCEPT !.phase = "lost"]

(* A target such as "/\" passes the check of its first characters, and the *)
(* URL parser then takes it for a host that is missing.  The handler        *)
(* rejects under a void call: an unhandled rejection, which ends the        *)
(* process and with it every other handler.                                 *)
HttpArriveMalformed(r) ==
    /\ broker = "open" /\ In(r, "none")
    /\ broker' = "crashed"
    /\ handler' = [q \in HttpRequests |->
          IF q # r /\ handler[q].phase \in {"none", "done"}
             THEN [handler[q] EXCEPT !.connected = FALSE] ELSE Lost]
    /\ UNCHANGED <<policy, material>>

(* readRequestBody: a chunk fits, or the request is destroyed, and with it *)
(* the connection of the 413.                                              *)
ReceiveChunk(r, size) ==
    /\ In(r, "reading") /\ handler[r].connected
    /\ LET received == handler[r].received + size
       IN  Update(r, IF received > MaxBody
                        THEN [IdleHandler EXCEPT !.phase = "done"]
                        ELSE [handler[r] EXCEPT !.received = received])
    /\ UNCHANGED <<policy, material, broker>>

BodyEnds(r) ==
    /\ In(r, "reading") /\ handler[r].connected
    /\ Update(r, [handler[r] EXCEPT !.phase = "ready", !.received = 0])
    /\ UNCHANGED <<policy, material, broker>>

\* Mutant: nothing listens for the error event.
MutantReadFails(r) ==
    /\ In(r, "reading")
    /\ Update(r, [handler[r] EXCEPT !.connected = FALSE])
    /\ UNCHANGED <<policy, material, broker>>

(* The error event: the client is gone, or close() or a timeout of the     *)
(* server destroyed the connection.                                        *)
ReadFails(r) ==
    /\ In(r, "reading")
    /\ Update(r, [IdleHandler EXCEPT !.phase = "done"])
    /\ UNCHANGED <<policy, material, broker>>

(* The client goes away while the handler is not reading.                  *)
HttpDisconnect(r) ==
    /\ handler[r].phase \in {"ready", "fetching", "cancelling", "receiving"}
    /\ handler[r].connected
    /\ Update(r, [handler[r] EXCEPT !.connected = FALSE])
    /\ UNCHANGED <<policy, material, broker>>

CallUpstream(r) ==
    /\ In(r, "ready")
    /\ Update(r, [handler[r] EXCEPT !.phase = "fetching"])
    /\ UNCHANGED <<policy, material, broker>>

FetchFails(r) ==
    /\ In(r, "fetching")
    /\ Update(r, Finished(r, JsonReply(502)))
    /\ UNCHANGED <<policy, material, broker>>

(* The head of the response: a redirect, a header with a sensitive variant *)
(* or a declared length over the limit end the forwarding.  The sensitive  *)
(* variants are looked for in names and values.                            *)
FetchResolves(r, redirect, header, declared) ==
    /\ In(r, "fetching")
    /\ Update(r, [handler[r] EXCEPT
                    !.call = NoUpstreamCall,
                    !.phase = IF redirect \/ ContainsVariant(<<header>>)
                                 \/ declared > MaxBody
                                 THEN "cancelling" ELSE "receiving"])
    /\ UNCHANGED <<policy, material, broker>>

(* cancelResponseBody or reader.cancel() has settled.                      *)
Cancelled(r) ==
    /\ In(r, "cancelling")
    /\ Update(r, Finished(r, JsonReply(502)))
    /\ UNCHANGED <<policy, material, broker>>

(* readBoundedResponseBody.                                                *)
ReceivePart(r, part) ==
    /\ In(r, "receiving")
    /\ Update(r, IF Len(handler[r].body) + 1 > MaxBody
                    THEN [handler[r] EXCEPT !.phase = "cancelling",
                                            !.body = <<>>]
                    ELSE [handler[r] EXCEPT !.body = Append(@, part)])
    /\ UNCHANGED <<policy, material, broker>>

ReceiveFails(r) ==
    /\ In(r, "receiving")
    /\ Update(r, [handler[r] EXCEPT !.phase = "cancelling", !.body = <<>>])
    /\ UNCHANGED <<policy, material, broker>>

(* The body is complete: it is screened and passed on with what is left of *)
(* the headers.                                                            *)
Respond(r, names) ==
    /\ In(r, "receiving")
    /\ Update(r, Finished(r,
          IF ContainsVariant(handler[r].body)
             THEN JsonReply(502)
             ELSE [status |-> 200, headers |-> SanitizeResponseHeaders(names),
                   body |-> handler[r].body]))
    /\ UNCHANGED <<policy, material, broker>>

-----------------------------------------------------------------------------

Lengths == {0, MaxBody + 1}

Agent(r) ==
    \/ \E method \in {"GET", "POST"}, target \in {"/p", "/q/../p", "/x", "query"},
          names \in SUBSET CallerHeaders, tokens \in SUBSET CallerHeaders,
          declared \in Lengths :
             HttpArrive(r, method, target, names, tokens, declared)
    \/ HttpArriveMalformed(r)
    \/ \E size \in 1 .. MaxBody + 1 : ReceiveChunk(r, size)
    \/ BodyEnds(r)
    \/ HttpDisconnect(r)

Upstream(r) ==
    \/ FetchFails(r)
    \/ \E redirect \in BOOLEAN, header \in Parts, declared \in Lengths :
          FetchResolves(r, redirect, header, declared)
    \/ \E part \in Parts : ReceivePart(r, part)
    \/ ReceiveFails(r)
    \/ \E names \in SUBSET ResponseHeaders : Respond(r, names)

HttpNext ==
    \/ HttpStart \/ BindSucceeds \/ BindFails \/ HttpClose
    \/ \E r \in HttpRequests :
          \/ Agent(r) \/ ReadFails(r)
          \/ CallUpstream(r) \/ Cancelled(r)
          \/ Upstream(r)

HttpSpec == HttpInit /\ [][HttpNext]_httpVars

(* A client that stalls is cut off by the request timeout of Node's server, *)
(* a silent upstream by the header and body timeouts of fetch.             *)
HttpFairness ==
    \A r \in HttpRequests :
        /\ WF_httpVars(BodyEnds(r) \/ ReadFails(r))
        /\ WF_httpVars(CallUpstream(r))
        /\ WF_httpVars(Cancelled(r))
        /\ WF_httpVars(Upstream(r))

HttpFairSpec == HttpSpec /\ HttpFairness

-----------------------------------------------------------------------------
(* Properties.                                                             *)

HttpHandlers ==
    [phase : {"none", "reading", "ready", "fetching", "cancelling", "receiving",
              "done", "lost"},
     connected : BOOLEAN, received : Nat,
     call : [CallPlaces -> {"absent", "caller", "credential"}], body : Seq(Parts),
     reply : [status : Nat, headers : SUBSET ResponseHeaders, body : Seq(Parts)]]

(* The type of every variable of a broker.                                 *)
HttpTypeOK ==
    /\ policy \in RawPolicies /\ material \in Materials
    /\ broker \in {"new", "refused", "binding", "open", "closed", "crashed"}
    /\ handler \in [HttpRequests -> HttpHandlers]

Screened(reply) ==
    /\ Len(reply.body) <= MaxBody
    /\ \A i \in DOMAIN reply.body :
          /\ reply.body[i] \notin {"raw", "percent", "base64", "base64url"}
          /\ reply.body[i] # WireForm
          /\ reply.body[i] = "first" =>
                \A j \in DOMAIN reply.body : j = i + 1 => reply.body[j] # "second"
    /\ reply.headers \cap {"set-cookie", "hop"} = {}
    /\ Slot \notin reply.headers

(* What a caller receives from an upstream holds the credential in no form *)
(* the broker wrote or promises to know, not even spread over two chunks,  *)
(* is within the limit, and has no header that carries credentials or      *)
(* concerns the connection.                                                *)
ReplyIsScreened == \A r \in HttpRequests : Screened(handler[r].reply)

Pinned(h) ==
    h.phase \in {"reading", "ready", "fetching"} =>
        /\ StartAllowed
        /\ \A n \in CallPlaces :
              /\ h.call[n] = "credential" <=> n = Slot
              /\ h.call[n] = "caller" => n # "authorization"

(* A request reaches the upstream only for an allowed policy, with the     *)
(* credential in exactly the place of its class: the caller's headers can  *)
(* neither displace it nor put another credential beside it.               *)
OutboundIsPinned == \A r \in HttpRequests : Pinned(handler[r])

(* After close() no caller gets an answer, and a request that was still    *)
(* being read never reaches the upstream.                                  *)
ClosedBrokerIsSilent ==
    [][broker = "closed" =>
          \A r \in HttpRequests :
              /\ handler'[r].reply # handler[r].reply => handler'[r].reply = NotReplied
              /\ In(r, "reading") => handler'[r].phase \in {"reading", "done"}
              /\ In(r, "none") => handler'[r].phase = "none"]_httpVars

GoodHandler(h) ==
    /\ Screened(h.reply)
    /\ Pinned(h)
    /\ Len(h.body) <= MaxBody
    /\ h.phase # "none" => broker \in {"open", "closed", "crashed"}
    /\ broker \in {"closed", "crashed"} => ~h.connected

(* The inductive invariant: a broker that listens was allowed to start, and *)
(* every handler is in order and has no connection once the broker closed. *)
BrokerInv ==
    /\ HttpTypeOK
    /\ broker \in {"binding", "open", "closed", "crashed"} => StartAllowed
    /\ \A r \in HttpRequests : GoodHandler(handler[r])

(* Every handler ends, whatever the client, the upstream and close() do,   *)
(* unless a malformed target ends the process first.                       *)
RequestsSettle ==
    \A r \in HttpRequests :
        ~In(r, "none") ~> (In(r, "done") \/ broker = "crashed")
=============================================================================
