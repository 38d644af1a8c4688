----------------------- MODULE LoopbackBrokersProofs -----------------------
(***************************************************************************)
(* Proofs about the loopback brokers, for any number of calls, requests    *)
(* and clients: the browser, SSH and FTP session brokers, and the          *)
(* supervised OneCLI proxy.                                                *)
(***************************************************************************)
EXTENDS SessionBroker, ProxyRuntime, FiniteSetTheorems, TLAPS

-----------------------------------------------------------------------------
(* The session brokers.                                                    *)

(* The stages of a start call and of its session.                          *)
Stages == Logging \cup {"idle", "listen", "open", "closing", "closed"}

\* The stages in which a call owns a slot.
SlotStages == Logging \cup {"listen", "open"}

\* A session that screens at least for the cookies it holds, and for the
\* credentials as long as it owns a slot.
CallOK(s) ==
    /\ s = [at |-> s.at, allowed |-> s.allowed, hopsLeft |-> s.hopsLeft,
            path |-> s.path, jar |-> s.jar, sensitive |-> s.sensitive,
            quoted |-> s.quoted, expired |-> s.expired]
    /\ s.at \in Stages
    /\ s.jar \subseteq Cookies /\ s.jar \subseteq s.sensitive
    /\ s.sensitive \subseteq Secrets
    /\ s.at \in SlotStages => Cred \in s.sensitive

(* The types of a request.                                                 *)
RequestRecords ==
    [at : {"idle", "body", "upstream", "blocked", "text"}, call : Calls \cup {NoOne},
     op : {NoOne, "replay", "status", "exec", "list", "retr"}, conn : BOOLEAN]

\* A request that runs belongs to a session that was opened; it has lost its
\* connection once close() has returned, and with the browser broker as soon
\* as close() was called.
FitsStage(q, stage) ==
    /\ stage \in {"open", "closing", "closed"}
    /\ q.conn => stage # "closed"
    /\ q.conn /\ proto = "browser" => stage = "open"

(* The handler of a request serves a call whose stage it fits.             *)
HandlerOK(q) == q.call \in Calls /\ FitsStage(q, call[q.call].at)

(* Types, what each session screens for, and which requests may run.       *)
SessionParts ==
    /\ proto \in Protos /\ running \in BOOLEAN /\ activeSessions \in Nat
    /\ call = [c \in Calls |-> call[c]]
    /\ \A c \in Calls : CallOK(call[c])
    /\ rq \in [Requests -> RequestRecords]
    /\ \A r \in Requests : rq[r].at # "idle" => HandlerOK(rq[r])

(* The inductive invariant.                                                *)
SessionInv == SessionParts /\ SlotsAreExact

(* A call that is not made, and the values of a step of a login.           *)
LEMMA NoCallOK == CallOK(NoCall) /\ NoCall.at = "idle"
BY DEF CallOK, NoCall, Stages, SlotStages, Logging, NoOne

(* A cookie from upstream is screened from then on.                        *)
LEMMA IngestOK ==
    ASSUME NEW s, CallOK(s), NEW cookie \in Cookies \cup {Nothing}
    PROVE  CallOK(Ingest(s, cookie)) /\ Ingest(s, cookie).at = s.at
<1>1. CASE cookie = Nothing
  BY <1>1 DEF Ingest
<1>2. CASE cookie # Nothing
  <2> DEFINE n == Ingest(s, cookie)
  <2>1. n = [at |-> s.at, allowed |-> s.allowed, hopsLeft |-> s.hopsLeft,
             path |-> s.path, jar |-> {k \in s.jar : k[1] # cookie[1]} \cup {cookie},
             sensitive |-> s.sensitive \cup {cookie}, quoted |-> s.quoted, expired |-> s.expired]
    BY <1>2 DEF Ingest, CallOK
  <2> HIDE DEF n
  <2>2. CallOK(n) /\ n.at = s.at
    BY <1>2, <2>1 DEF CallOK, Secrets
  <2> QED
    BY <2>2 DEF n
<1> QED
  BY <1>1, <1>2

(* What a session remembers survives a change of its stage.                *)
LEMMA KeptOK ==
    ASSUME NEW s, CallOK(s), NEW stage \in Stages,
           stage \in SlotStages => s.at \in SlotStages
    PROVE  CallOK(Kept(s, stage)) /\ Kept(s, stage).at = stage
<1>1. PICK n : n = Kept(s, stage)
  OBVIOUS
<1>2. n = [at |-> stage, allowed |-> {}, hopsLeft |-> 0, path |-> NoOne,
           jar |-> s.jar, sensitive |-> s.sensitive, quoted |-> s.quoted, expired |-> FALSE]
  BY <1>1 DEF Kept, NoCall
<1>3. CallOK(n) /\ n.at = stage
  BY <1>2 DEF CallOK
<1> QED
  BY <1>1, <1>3

-----------------------------------------------------------------------------
(* The holders of a slot.                                                  *)

(* The calls that hold a slot can be counted.                              *)
LEMMA HoldingFinite ==
    /\ IsFiniteSet(Holding) /\ Cardinality(Holding) \in Nat
BY FS_Subset, FS_CardinalityType, SessionAssumption DEF Holding

(* A step that changes one call changes the slots as its stages say.       *)
LEMMA SlotsKept ==
    ASSUME SessionInv, NEW c \in Calls, NEW s,
           call' = [call EXCEPT ![c] = s], activeSessions' = activeSessions,
           call[c].at \in SlotStages <=> s.at \in SlotStages
    PROVE  SlotsAreExact'
<1>1. Holding' = Holding
  BY DEF SessionInv, SessionParts, Holding, SlotStages
<1> QED
  BY <1>1 DEF SessionInv, SlotsAreExact

(* A call that takes a slot adds one to the counter.                       *)
LEMMA SlotTaken ==
    ASSUME SessionInv, NEW c \in Calls, NEW s,
           call' = [call EXCEPT ![c] = s], activeSessions' = activeSessions + 1,
           call[c].at \notin SlotStages, s.at \in SlotStages
    PROVE  SlotsAreExact'
<1>1. Holding' = Holding \cup {c} /\ c \notin Holding
  BY DEF SessionInv, SessionParts, Holding, SlotStages
<1>2. Cardinality(Holding') = Cardinality(Holding) + 1
  BY <1>1, HoldingFinite, FS_AddElement
<1> QED
  BY <1>2 DEF SessionInv, SlotsAreExact

(* A call that gives its slot back takes one from the counter, which is    *)
(* not zero then.                                                          *)
LEMMA SlotReleased ==
    ASSUME SessionInv, NEW c \in Calls, NEW s,
           call' = [call EXCEPT ![c] = s], Release,
           call[c].at \in SlotStages, s.at \notin SlotStages
    PROVE  SlotsAreExact' /\ activeSessions' \in Nat
<1>1. Holding' = Holding \ {c} /\ c \in Holding
  BY DEF SessionInv, SessionParts, Holding, SlotStages
<1>2. Cardinality(Holding') = Cardinality(Holding) - 1
  BY <1>1, HoldingFinite, FS_RemoveElement
<1>3. Cardinality(Holding) # 0
  BY <1>1, HoldingFinite, FS_EmptySet
<1> QED
  BY <1>2, <1>3, HoldingFinite DEF SessionInv, SlotsAreExact, Release

-----------------------------------------------------------------------------
(* What the steps do, and that it keeps the invariant.                     *)

(* A step of one call that its requests do not notice.                     *)
LEMMA CallStepKeeps ==
    ASSUME SessionInv, NEW c \in Calls, NEW s, CallOK(s),
           call' = [call EXCEPT ![c] = s], rq' = rq, proto' = proto,
           running' \in BOOLEAN, activeSessions' \in Nat,
           \A r \in Handlers(c) : FitsStage(rq[r], s.at)
    PROVE  SessionParts'
<1>1. /\ call' = [x \in Calls |-> call'[x]]
      /\ \A x \in Calls : call'[x] = IF x = c THEN s ELSE call[x]
  BY DEF SessionInv, SessionParts
<1>2. \A x \in Calls : CallOK(call[x])'
  BY <1>1 DEF SessionInv, SessionParts, CallOK
<1>3. ASSUME NEW r \in Requests, rq'[r].at # "idle"
      PROVE  HandlerOK(rq[r])'
  BY <1>1, <1>3 DEF SessionInv, SessionParts, HandlerOK, FitsStage, Handlers
<1> QED
  BY <1>1, <1>2, <1>3 DEF SessionInv, SessionParts

(* Before a session is open it has no requests.                            *)
LEMMA NoHandlersYet ==
    ASSUME SessionInv, NEW c \in Calls,
           call[c].at \notin {"open", "closing", "closed"}
    PROVE  Handlers(c) = {}
BY DEF SessionInv, SessionParts, HandlerOK, FitsStage, Handlers

(* A step of a login that goes on.                                         *)
LEMMA LoginGoesOn ==
    ASSUME SessionInv, NEW c \in Calls, NEW s, CallOK(s),
           call[c].at \in Logging \cup {"listen"}, s.at \in SlotStages,
           call' = [call EXCEPT ![c] = s],
           UNCHANGED <<proto, running, activeSessions, rq, shown>>
    PROVE  SessionInv'
<1>1. Handlers(c) = {}
  BY NoHandlersYet DEF Logging
<1>2. SessionParts'
  BY <1>1, CallStepKeeps DEF SessionInv, SessionParts
<1>3. SlotsAreExact'
  BY SlotsKept DEF SlotStages
<1> QED
  BY <1>2, <1>3 DEF SessionInv

(* A step of one request.                                                  *)
LEMMA RequestStepKeeps ==
    ASSUME SessionInv, NEW r \in Requests, NEW q \in RequestRecords,
           q.at # "idle" => HandlerOK(q),
           rq' = [rq EXCEPT ![r] = q],
           UNCHANGED <<proto, running, activeSessions, call>>
    PROVE  SessionInv'
<1>1. rq' \in [Requests -> RequestRecords]
  BY DEF SessionInv, SessionParts
<1>2. ASSUME NEW x \in Requests, rq'[x].at # "idle"
      PROVE  HandlerOK(rq[x])'
  BY <1>2 DEF SessionInv, SessionParts, HandlerOK, FitsStage
<1>3. \A c \in Calls : CallOK(call[c])'
  BY DEF SessionInv, SessionParts, CallOK
<1>4. SlotsAreExact'
  BY DEF SessionInv, SlotsAreExact, Holding
<1> QED
  BY <1>1, <1>2, <1>3, <1>4 DEF SessionInv, SessionParts

(* The invariant does not depend on what was shown last.                   *)
LEMMA NothingMoves ==
    ASSUME SessionInv, UNCHANGED <<proto, activeSessions, call, rq>>,
           running' \in BOOLEAN
    PROVE  SessionInv'
<1>1. \A c \in Calls : CallOK(call[c])'
  BY DEF SessionInv, SessionParts, CallOK
<1>2. \A r \in Requests : rq'[r].at # "idle" => HandlerOK(rq[r])'
  BY DEF SessionInv, SessionParts, HandlerOK, FitsStage
<1>3. SlotsAreExact'
  BY DEF SessionInv, SlotsAreExact, Holding
<1> QED
  BY <1>1, <1>2, <1>3 DEF SessionInv, SessionParts

(* start raises the counter for a call that begins to log in.              *)
LEMMA StartKeeps ==
    ASSUME SessionInv, NEW c \in Calls, NEW o \in Offers, Start(c, o)
    PROVE  SessionInv'
<1>1. PICK s : s = [NoCall EXCEPT !.at = IF proto = "browser" THEN "form" ELSE "auth",
                                  !.allowed = o.policy.allowed,
                                  !.hopsLeft = o.policy.max_redirect_hops,
                                  !.sensitive = {Cred}, !.quoted = o.credentials.quoted]
  OBVIOUS
<1>2. s = [at |-> IF proto = "browser" THEN "form" ELSE "auth",
           allowed |-> o.policy.allowed, hopsLeft |-> o.policy.max_redirect_hops,
           path |-> NoOne, jar |-> {}, sensitive |-> {Cred},
           quoted |-> o.credentials.quoted, expired |-> FALSE]
  BY <1>1 DEF NoCall
<1>3. CallOK(s) /\ s.at \in SlotStages
  BY <1>2 DEF CallOK, Stages, SlotStages, Logging, Secrets
<1>4. /\ call' = [call EXCEPT ![c] = s] /\ activeSessions' = activeSessions + 1
      /\ call[c].at \in {"idle", "closed"} /\ Handlers(c) = {}
      /\ UNCHANGED <<proto, running, rq>>
  BY <1>1 DEF Start
<1>5. SessionParts'
  BY <1>3, <1>4, CallStepKeeps DEF SessionInv, SessionParts
<1>6. SlotsAreExact'
  BY <1>3, <1>4, SlotTaken DEF SlotStages, Logging
<1> QED
  BY <1>5, <1>6 DEF SessionInv

(* A start that fails gives its slot back once.                            *)
LEMMA StartFailsKeeps ==
    ASSUME SessionInv, NEW c \in Calls, StartFails(c)
    PROVE  SessionInv'
<1>1. /\ call' = [call EXCEPT ![c] = NoCall] /\ Release
      /\ call[c].at \in SlotStages /\ call[c].at \in Logging \cup {"listen"}
      /\ UNCHANGED <<proto, running, rq>>
  BY DEF StartFails, SlotStages
<1>2. NoCall.at \notin SlotStages
  BY NoCallOK DEF SlotStages, Logging
<1>3. SlotsAreExact' /\ activeSessions' \in Nat
  BY <1>1, <1>2, SlotReleased
<1>4. Handlers(c) = {}
  BY <1>1, NoHandlersYet DEF Logging
<1>5. SessionParts'
  BY <1>1, <1>3, <1>4, NoCallOK, CallStepKeeps DEF SessionInv, SessionParts
<1> QED
  BY <1>3, <1>5 DEF SessionInv

(* The steps of a login that goes on.                                      *)
LEMMA LoginKeeps ==
    ASSUME SessionInv, NEW c \in Calls, LoginStep(c)
    PROVE  SessionInv'
<1> USE DEF SlotStages, Stages, Logging
<1>c. CallOK(call[c])
  BY DEF SessionInv, SessionParts
<1>f. call[c] = [at |-> call[c].at, allowed |-> call[c].allowed,
                 hopsLeft |-> call[c].hopsLeft, path |-> call[c].path,
                 jar |-> call[c].jar, sensitive |-> call[c].sensitive,
                 quoted |-> call[c].quoted, expired |-> call[c].expired]
      /\ call = [x \in Calls |-> call[x]]
  BY <1>c DEF CallOK, SessionInv, SessionParts
<1>1. CASE StartFails(c)
  BY <1>1, StartFailsKeeps
<1>2. CASE FormRead(c)
  <2>1. PICK s : s = [call[c] EXCEPT !.at = "posted", !.path = "form_action"]
    OBVIOUS
  <2>2. s = [at |-> "posted", allowed |-> call[c].allowed,
             hopsLeft |-> call[c].hopsLeft, path |-> "form_action",
             jar |-> call[c].jar, sensitive |-> call[c].sensitive,
             quoted |-> call[c].quoted, expired |-> call[c].expired]
    BY <2>1, <1>f
  <2>3. CallOK(s) /\ s.at \in SlotStages
    BY <2>2, <1>c, <1>2 DEF CallOK, FormRead
  <2>4. call' = [call EXCEPT ![c] = s]
    BY <1>2, <2>1, <1>f DEF FormRead
  <2> QED
    BY <1>2, <2>3, <2>4, LoginGoesOn DEF FormRead
<1>3. CASE Authenticated(c)
  <2>1. CallOK(Kept(call[c], "listen")) /\ Kept(call[c], "listen").at = "listen"
    BY <1>c, <1>3, KeptOK DEF Authenticated
  <2> QED
    BY <1>3, <2>1, LoginGoesOn DEF Authenticated
<1>4. CASE Listening(c)
  <2>1. CallOK(Kept(call[c], "open")) /\ Kept(call[c], "open").at = "open"
    BY <1>c, <1>4, KeptOK DEF Listening
  <2> QED
    BY <1>4, <2>1, LoginGoesOn DEF Listening
<1>5. ASSUME NEW cookie \in Cookies \cup {Nothing}, LoginLanded(c, cookie)
      PROVE  SessionInv'
  <2> DEFINE i == Ingest(call[c], cookie)
  <2>1. CallOK(i) /\ i.at = call[c].at
    BY <1>c, IngestOK
  <2>2. CallOK(Kept(i, "verify")) /\ Kept(i, "verify").at = "verify"
    BY <1>5, <2>1, KeptOK DEF LoginLanded
  <2> QED
    BY <1>5, <2>2, LoginGoesOn DEF LoginLanded
<1>6. ASSUME NEW cookie \in Cookies \cup {Nothing}, LoginVerified(c, cookie)
      PROVE  SessionInv'
  <2> DEFINE i == Ingest(call[c], cookie)
  <2>1. CallOK(i) /\ i.at = call[c].at
    BY <1>c, IngestOK
  <2>2. CallOK(Kept(i, "listen")) /\ Kept(i, "listen").at = "listen"
    BY <1>6, <2>1, KeptOK DEF LoginVerified
  <2> QED
    BY <1>6, <2>2, LoginGoesOn DEF LoginVerified
<1>7. ASSUME NEW cookie \in Cookies \cup {Nothing}, NEW path,
             LoginRedirected(c, cookie, path)
      PROVE  SessionInv'
  <2>0. PICK i : i = Ingest(call[c], cookie)
    OBVIOUS
  <2>1. CallOK(i) /\ i.at = call[c].at
    BY <2>0, <1>c, IngestOK
  <2>2. PICK s : s = [i EXCEPT !.hopsLeft = call[c].hopsLeft - 1, !.path = path]
    OBVIOUS
  <2>3. s = [at |-> i.at, allowed |-> i.allowed, hopsLeft |-> call[c].hopsLeft - 1,
             path |-> path, jar |-> i.jar, sensitive |-> i.sensitive,
             quoted |-> i.quoted, expired |-> i.expired]
    BY <2>1, <2>2 DEF CallOK
  <2>4. CallOK(s) /\ s.at = "posted"
    BY <2>1, <2>3, <1>7 DEF CallOK, LoginRedirected
  <2>5. call' = [call EXCEPT ![c] = s]
    BY <1>7, <2>0, <2>2 DEF LoginRedirected
  <2> QED
    BY <1>7, <2>4, <2>5, LoginGoesOn DEF LoginRedirected
<1> QED
  BY <1>1, <1>2, <1>3, <1>4, <1>5, <1>6, <1>7 DEF LoginStep

(* The time of a session passes, and close() returns.                      *)
LEMMA ExpireKeeps ==
    ASSUME SessionInv, NEW c \in Calls, Expire(c)
    PROVE  SessionInv'
<1>c. CallOK(call[c]) /\ call = [x \in Calls |-> call[x]]
  BY DEF SessionInv, SessionParts
<1>1. PICK s : s = [call[c] EXCEPT !.expired = TRUE]
  OBVIOUS
<1>2. s = [at |-> call[c].at, allowed |-> call[c].allowed,
           hopsLeft |-> call[c].hopsLeft, path |-> call[c].path,
           jar |-> call[c].jar, sensitive |-> call[c].sensitive, quoted |-> call[c].quoted, expired |-> TRUE]
  BY <1>1, <1>c DEF CallOK
<1>3. CallOK(s) /\ s.at = call[c].at
  BY <1>2, <1>c DEF CallOK
<1>4. call' = [call EXCEPT ![c] = s]
      /\ UNCHANGED <<proto, running, activeSessions, rq>>
  BY <1>1, <1>c DEF Expire
<1>5. \A r \in Handlers(c) : FitsStage(rq[r], s.at)
  BY <1>3 DEF SessionInv, SessionParts, HandlerOK, Handlers
<1>6. SessionParts'
  BY <1>3, <1>4, <1>5, CallStepKeeps DEF SessionInv, SessionParts
<1>7. SlotsAreExact'
  BY <1>3, <1>4, SlotsKept
<1> QED
  BY <1>6, <1>7 DEF SessionInv

(* A close that ends takes the requests of its session along.              *)
LEMMA CloseDoneKeeps ==
    ASSUME SessionInv, NEW c \in Calls, CloseDone(c)
    PROVE  SessionInv'
<1> DEFINE s == Kept(call[c], "closed")
<1>1. CallOK(s) /\ s.at = "closed"
  <2>1. CallOK(call[c])
    BY DEF SessionInv, SessionParts
  <2> QED
    BY <2>1, KeptOK DEF Stages, SlotStages, Logging
<1> HIDE DEF s
<1>2. call' = [call EXCEPT ![c] = s] /\ call[c].at = "closing"
      /\ UNCHANGED <<proto, running, activeSessions, rq>>
  BY DEF CloseDone, s
<1>3. \A r \in Handlers(c) : FitsStage(rq[r], s.at)
  BY <1>1 DEF FitsStage, CloseDone
<1>4. SessionParts'
  BY <1>1, <1>2, <1>3, CallStepKeeps DEF SessionInv, SessionParts
<1>5. SlotsAreExact'
  BY <1>1, <1>2, SlotsKept DEF SlotStages, Logging
<1> QED
  BY <1>4, <1>5 DEF SessionInv

(* close() gives the slot back and cuts off the requests of a browser       *)
(* session.                                                                *)
LEMMA CloseKeeps ==
    ASSUME SessionInv, NEW c \in Calls, Close(c)
    PROVE  SessionInv'
<1>1. PICK s : s = [NoCall EXCEPT !.at = "closing"]
  OBVIOUS
<1>2. s = [at |-> "closing", allowed |-> {}, hopsLeft |-> 0, path |-> NoOne,
           jar |-> {}, sensitive |-> {}, quoted |-> FALSE, expired |-> FALSE]
  BY <1>1 DEF NoCall
<1>3. CallOK(s) /\ s.at = "closing" /\ s.at \notin SlotStages
  BY <1>2 DEF CallOK, Stages, SlotStages, Logging
<1>4. /\ call' = [call EXCEPT ![c] = s] /\ Release /\ call[c].at \in SlotStages
      /\ CloseConnections(c) /\ proto' = proto /\ running' = running
  BY <1>1 DEF Close, SlotStages
<1>5. SlotsAreExact' /\ activeSessions' \in Nat
  BY <1>3, <1>4, SlotReleased
<1>6. /\ call' = [x \in Calls |-> call'[x]]
      /\ \A x \in Calls : call'[x] = IF x = c THEN s ELSE call[x]
  BY <1>4 DEF SessionInv, SessionParts
<1>7. \A x \in Calls : CallOK(call[x])'
  BY <1>3, <1>6 DEF SessionInv, SessionParts, CallOK
<1>8. ASSUME NEW r \in Requests
      PROVE  /\ rq'[r] \in RequestRecords
             /\ rq'[r].at = rq[r].at /\ rq'[r].call = rq[r].call
             /\ rq'[r].conn => rq[r].conn
             /\ proto = "browser" /\ rq[r].call = c => ~rq'[r].conn
  <2>1. rq[r] \in RequestRecords
    BY DEF SessionInv, SessionParts
  <2>2. CASE proto = "browser" /\ rq[r].call = c
    <3>1. rq'[r] = [rq[r] EXCEPT !.conn = FALSE]
      BY <1>4, <2>2 DEF CloseConnections
    <3> QED
      BY <2>1, <3>1 DEF RequestRecords
  <2>3. CASE ~(proto = "browser" /\ rq[r].call = c)
    <3>1. rq'[r] = rq[r]
      BY <1>4, <2>3 DEF CloseConnections
    <3> QED
      BY <2>1, <2>3, <3>1
  <2> QED
    BY <2>2, <2>3
<1>9. rq' \in [Requests -> RequestRecords]
  <2>1. rq' = [r \in Requests |-> rq'[r]]
    BY <1>4 DEF CloseConnections, SessionInv, SessionParts
  <2> QED
    BY <2>1, <1>8
<1>10. ASSUME NEW r \in Requests, rq'[r].at # "idle"
       PROVE  HandlerOK(rq[r])'
  <2>1. HandlerOK(rq[r])
    BY <1>8, <1>10 DEF SessionInv, SessionParts
  <2> QED
    BY <1>3, <1>4, <1>6, <1>8, <2>1 DEF HandlerOK, FitsStage
<1> QED
  BY <1>4, <1>5, <1>6, <1>7, <1>9, <1>10 DEF SessionInv, SessionParts

(* A reply of a browser session sets a cookie, perhaps after close().       *)
LEMMA CookieReplyKeeps ==
    ASSUME SessionInv, NEW r \in Requests, NEW cookie \in Cookies,
           CookieReply(r, cookie)
    PROVE  SessionInv'
<1> DEFINE c == rq[r].call
<1>1. rq[r] \in RequestRecords /\ HandlerOK(rq[r])
  BY DEF SessionInv, SessionParts, CookieReply
<1>2. c \in Calls /\ CallOK(call[c])
  BY <1>1 DEF HandlerOK, SessionInv, SessionParts
<1>3. PICK s : s = Ingest(call[c], cookie)
  OBVIOUS
<1>4. CallOK(s) /\ s.at = call[c].at
  BY <1>2, <1>3, IngestOK
<1>5. PICK q : q = [rq[r] EXCEPT !.at = "blocked"]
  OBVIOUS
<1>6. q \in RequestRecords /\ q.call = rq[r].call /\ q.conn = rq[r].conn
  BY <1>1, <1>5 DEF RequestRecords
<1>7. /\ call' = [call EXCEPT ![c] = s] /\ rq' = [rq EXCEPT ![r] = q]
      /\ UNCHANGED <<proto, running, activeSessions>>
  BY <1>3, <1>5 DEF CookieReply, SessionInv, SessionParts
<1> HIDE DEF c
<1>8. /\ call' = [x \in Calls |-> call'[x]]
      /\ \A x \in Calls : call'[x] = IF x = c THEN s ELSE call[x]
  BY <1>2, <1>7 DEF SessionInv, SessionParts
<1>9. \A x \in Calls : CallOK(call[x])'
  BY <1>4, <1>8 DEF SessionInv, SessionParts, CallOK
<1>10. /\ rq' \in [Requests -> RequestRecords]
       /\ \A x \in Requests : rq'[x] = IF x = r THEN q ELSE rq[x]
  BY <1>6, <1>7 DEF SessionInv, SessionParts
<1>11. ASSUME NEW x \in Requests, rq'[x].at # "idle"
       PROVE  HandlerOK(rq[x])'
  <2>1. HandlerOK(rq[x]) /\ rq'[x].call = rq[x].call /\ rq'[x].conn = rq[x].conn
    BY <1>1, <1>6, <1>10, <1>11 DEF SessionInv, SessionParts
  <2> QED
    BY <2>1, <1>4, <1>7, <1>8 DEF HandlerOK, FitsStage
<1>12. SlotsAreExact'
  BY <1>2, <1>4, <1>7, SlotsKept
<1> QED
  BY <1>7, <1>8, <1>9, <1>10, <1>11, <1>12 DEF SessionInv, SessionParts

(* The other steps of a request change that request only.                  *)
LEMMA NoRequestOK == NoRequest \in RequestRecords /\ NoRequest.at = "idle"
BY DEF NoRequest, RequestRecords, NoOne

(* An answer frees the handler.                                            *)
LEMMA AnswerKeeps ==
    ASSUME SessionInv, NEW r \in Requests, NEW content, Answer(r, content),
           UNCHANGED <<proto, running, activeSessions, call>>
    PROVE  SessionInv'
BY NoRequestOK, RequestStepKeeps DEF Answer

(* A handler goes on for the same call.                                    *)
LEMMA StageStepKeeps ==
    ASSUME SessionInv, NEW r \in Requests, rq[r].at # "idle",
           NEW at \in {"upstream", "text"}, rq' = [rq EXCEPT ![r].at = at],
           UNCHANGED <<proto, running, activeSessions, call>>
    PROVE  SessionInv'
<1>1. rq[r] \in RequestRecords /\ HandlerOK(rq[r])
  BY DEF SessionInv, SessionParts
<1>2. PICK q : q = [rq[r] EXCEPT !.at = at]
  OBVIOUS
<1>3. q \in RequestRecords /\ q.call = rq[r].call /\ q.conn = rq[r].conn
  BY <1>1, <1>2 DEF RequestRecords
<1>4. rq' = [rq EXCEPT ![r] = q]
  BY <1>2 DEF SessionInv, SessionParts
<1>5. HandlerOK(q)
  BY <1>1, <1>3 DEF HandlerOK, FitsStage
<1> QED
  BY <1>3, <1>4, <1>5, RequestStepKeeps

(* A client that leaves takes only its connection along.                   *)
LEMMA DisconnectKeeps ==
    ASSUME SessionInv, NEW r \in Requests, Disconnect(r)
    PROVE  SessionInv'
<1>1. rq[r] \in RequestRecords /\ HandlerOK(rq[r])
  BY DEF SessionInv, SessionParts, Disconnect
<1>2. PICK q : q = [rq[r] EXCEPT !.conn = FALSE]
  OBVIOUS
<1>3. q \in RequestRecords /\ q.call = rq[r].call /\ ~q.conn
  BY <1>1, <1>2 DEF RequestRecords
<1>4. rq' = [rq EXCEPT ![r] = q]
  BY <1>2 DEF Disconnect, SessionInv, SessionParts
<1>5. HandlerOK(q)
  BY <1>1, <1>3 DEF HandlerOK, FitsStage
<1> QED
  BY <1>3, <1>4, <1>5, RequestStepKeeps DEF Disconnect

(* A request enters for an open session.                                   *)
LEMMA ArriveKeeps ==
    ASSUME SessionInv, NEW r \in Requests, NEW c \in Calls, NEW op \in Ops,
           Arrive(r, c, op)
    PROVE  SessionInv'
<1>1. PICK q : q = IF FirstAwait(op) = "idle" THEN NoRequest ELSE
                     [at |-> FirstAwait(op), call |-> c, op |-> op, conn |-> TRUE]
  OBVIOUS
<1>2. op \in {NoOne, "replay", "status", "exec", "list", "retr"}
  BY SessionAssumption DEF Ops, SessionInv, SessionParts
<1>3. FirstAwait(op) \in {"idle", "body", "upstream"}
  BY <1>2 DEF FirstAwait, NoOne
<1>4. q \in RequestRecords
  BY <1>1, <1>2, <1>3, NoRequestOK DEF RequestRecords
<1>5. q.at # "idle" => HandlerOK(q)
  <2>1. call[c].at = "open"
    BY DEF Arrive
  <2>2. q.at # "idle" => q.call = c
    BY <1>1, NoRequestOK
  <2> QED
    BY <2>1, <2>2 DEF HandlerOK, FitsStage
<1>6. rq' = [rq EXCEPT ![r] = q]
  BY <1>1 DEF Arrive
<1> QED
  BY <1>4, <1>5, <1>6, RequestStepKeeps DEF Arrive

(* Every step of a handler.                                                *)
LEMMA HandlerKeeps ==
    ASSUME SessionInv, NEW r \in Requests, HandlerStep(r)
    PROVE  SessionInv'
<1>1. CASE BodyAllowed(r)
  BY <1>1, StageStepKeeps DEF BodyAllowed
<1>2. CASE FixedReply(r)
  BY <1>2, AnswerKeeps DEF FixedReply
<1>3. CASE HeadReply(r)
  BY <1>3, StageStepKeeps DEF HeadReply
<1>4. ASSUME NEW cookie \in Cookies, CookieReply(r, cookie)
      PROVE  SessionInv'
  BY <1>4, CookieReplyKeeps
<1>5. ASSUME NEW cookie \in Cookies, OverflowCrash(r, cookie)
      PROVE  SessionInv'
  BY <1>5, NothingMoves DEF OverflowCrash
<1>6. ASSUME NEW content \in Secrets \cup {Nothing}, TextReply(r, content)
      PROVE  SessionInv'
  BY <1>6, AnswerKeeps DEF TextReply
<1> QED
  BY <1>1, <1>2, <1>3, <1>4, <1>5, <1>6 DEF HandlerStep

(* A process that begins has no calls and no requests.                     *)
LEMMA FreshProcess ==
    ASSUME proto \in Protos, running = TRUE, activeSessions = 0,
           call = [c \in Calls |-> NoCall],
           rq = [r \in Requests |-> NoRequest]
    PROVE  SessionInv
<1>1. Holding = {}
  BY NoCallOK DEF Holding, Logging
<1>2. SlotsAreExact
  BY <1>1, FS_EmptySet DEF SlotsAreExact
<1> QED
  BY <1>2, NoCallOK, NoRequestOK DEF SessionInv, SessionParts

(* A restart begins without calls, requests or slots.                      *)
LEMMA RestartKeeps ==
    ASSUME SessionInv, Restart
    PROVE  SessionInv'
<1>1. Holding' = {}
  BY NoCallOK DEF Restart, Holding, Logging
<1>2. SlotsAreExact'
  BY <1>1, FS_EmptySet DEF SlotsAreExact, Restart
<1>3. \A c \in Calls : CallOK(call[c])'
  BY NoCallOK DEF Restart, CallOK
<1> QED
  BY <1>2, <1>3, NoRequestOK DEF Restart, SessionInv, SessionParts

(* One case per action.                                                    *)
LEMMA SessionInductive == SessionInv /\ [SessionNext]_sessionVars => SessionInv'
<1> SUFFICES ASSUME SessionInv, [SessionNext]_sessionVars
             PROVE  SessionInv'
  OBVIOUS
<1>1. ASSUME NEW c \in Calls, NEW o \in Offers, Start(c, o) \/ StartRefused(c, o)
      PROVE  SessionInv'
  BY <1>1, StartKeeps, NothingMoves
  DEF StartRefused, sessionVars, SessionInv, SessionParts
<1>2. ASSUME NEW c \in Calls,
             \/ LoginStep(c) \/ Expire(c) \/ Close(c) \/ CloseDone(c)
             \/ ClientHolds(c) \/ ClientLeaves(c)
      PROVE  SessionInv'
  BY <1>2, LoginKeeps, ExpireKeeps, CloseKeeps, CloseDoneKeeps, NothingMoves
  DEF ClientHolds, ClientLeaves, SessionInv, SessionParts
<1>3. ASSUME NEW c \in Calls, NEW r \in Requests, NEW op \in Ops, Arrive(r, c, op)
      PROVE  SessionInv'
  BY <1>3, ArriveKeeps
<1>4. ASSUME NEW c \in Calls, NEW r \in Requests, ArriveRefused(r, c) \/ ArriveMalformed(r, c)
      PROVE  SessionInv'
  BY <1>4, NothingMoves DEF ArriveRefused, ArriveMalformed, SessionInv, SessionParts
<1>5. ASSUME NEW r \in Requests, HandlerStep(r) \/ Disconnect(r)
      PROVE  SessionInv'
  BY <1>5, HandlerKeeps, DisconnectKeeps
<1>6. CASE Restart
  BY <1>6, RestartKeeps
<1>7. CASE UNCHANGED sessionVars
  BY <1>7, NothingMoves DEF sessionVars, SessionInv, SessionParts
<1> QED
  BY <1>1, <1>2, <1>3, <1>4, <1>5, <1>6, <1>7 DEF SessionNext

(* The inductive invariant of the session brokers.                         *)
THEOREM SessionInvariant == SessionSpec => []SessionInv
<1>1. SessionInit => SessionInv
  BY FreshProcess DEF SessionInit
<1> QED
  BY <1>1, SessionInductive, PTL DEF SessionSpec

(* The counter of a class of brokers is exact, for any number of calls,     *)
(* requests and cookies: neither a failed login, a failed listen, close()   *)
(* nor the end of the process leaks or double-frees a slot.                *)
THEOREM SessionSlotsAreExact == SessionSpec => []SlotsAreExact
<1>1. SessionInv => SlotsAreExact
  BY DEF SessionInv
<1> QED
  BY <1>1, SessionInvariant, PTL

HeldOK == held \in [Calls -> BOOLEAN]

(* A connection that a client holds is held or it is not.                  *)
LEMMA HeldTyped == SessionSpec => []HeldOK
<1>1. SessionInit => HeldOK
  BY DEF SessionInit, HeldOK
<1>2. HeldOK /\ [SessionNext]_sessionVars => HeldOK'
  <2> SUFFICES ASSUME held \in [Calls -> BOOLEAN], [SessionNext]_sessionVars
               PROVE  held' \in [Calls -> BOOLEAN]
    BY DEF HeldOK
  <2>1. ASSUME NEW c \in Calls, LoginStep(c) PROVE held' = held
    BY <2>1 DEF LoginStep, StartFails, FormRead, Authenticated, Listening, LoginLanded,
                LoginVerified, LoginRedirected
  <2>2. ASSUME NEW c \in Calls, Expire(c) \/ Close(c) \/ CloseDone(c) PROVE held' = held
    BY <2>2 DEF Expire, Close, CloseDone
  <2>3. ASSUME NEW c \in Calls, ClientHolds(c) \/ ClientLeaves(c)
        PROVE  held' \in [Calls -> BOOLEAN]
    BY <2>3 DEF ClientHolds, ClientLeaves
  <2>4. ASSUME NEW r \in Requests, HandlerStep(r) \/ Disconnect(r) PROVE held' = held
    BY <2>4 DEF HandlerStep, BodyAllowed, FixedReply, HeadReply, CookieReply, OverflowCrash,
                TextReply, Disconnect
  <2>5. ASSUME NEW c \in Calls, NEW r \in Requests,
               \/ \E op \in Ops : Arrive(r, c, op)
               \/ ArriveMalformed(r, c) \/ ArriveRefused(r, c)
        PROVE  held' = held
    BY <2>5 DEF Arrive, ArriveMalformed, ArriveRefused
  <2>6. ASSUME NEW c \in Calls, NEW o \in Offers, Start(c, o) \/ StartRefused(c, o)
        PROVE  held' = held
    BY <2>6 DEF Start, StartRefused, sessionVars
  <2>7. CASE Restart
    BY <2>7 DEF Restart
  <2>8. CASE UNCHANGED sessionVars
    BY <2>8 DEF sessionVars
  <2> QED
    BY <2>1, <2>2, <2>3, <2>4, <2>5, <2>6, <2>7, <2>8 DEF SessionNext
<1> QED
  BY <1>1, <1>2, PTL DEF SessionSpec

(* The types of the session brokers.                                       *)
THEOREM SessionTypes == SessionSpec => []SessionTypeOK
<1>1. SessionInv /\ HeldOK => SessionTypeOK
  BY DEF HeldOK, SessionInv, SessionParts, SessionTypeOK, CallOK, Stages, RequestRecords
<1> QED
  BY <1>1, SessionInvariant, HeldTyped, PTL

-----------------------------------------------------------------------------
(* What reaches the agent.                                                 *)

\* The step shows no secret but where none is screened for.
ShowsNoSecret ==
    \A c \in Calls :
       shown' # shown /\ shown'.call = c /\ shown'.content \in {Cred} \cup call[c].jar =>
          Unscreened(c, shown'.content)

(* A fixed reply and no reply are neither the credentials nor a cookie.     *)
LEMMA FixedIsNoSecret ==
    ASSUME SessionInv, NEW c \in Calls
    PROVE  Fixed \notin {Cred} \cup call[c].jar /\ Nothing \notin {Cred} \cup call[c].jar
<1>1. call[c].jar \subseteq Cookies
  BY DEF SessionInv, SessionParts, CallOK
<1>2. Fixed # Cred /\ Nothing # Cred
  BY DEF Fixed, Cred, Nothing
<1> QED
  BY <1>1, <1>2, SessionAssumption

(* An answer that is fixed, screened, or sent to nobody.                   *)
LEMMA AnswerShowsNoSecret ==
    ASSUME SessionInv, NEW r \in Requests, rq[r].at # "idle", NEW content,
           Answer(r, content),
           \/ content = Fixed
           \/ content \notin call[rq[r].call].sensitive
           \/ ~Searchable(call[rq[r].call], content)
    PROVE  ShowsNoSecret
<1> SUFFICES ASSUME NEW c \in Calls, shown'.call = c,
                    shown'.content \in {Cred} \cup call[c].jar
             PROVE  Unscreened(c, shown'.content)
  BY DEF ShowsNoSecret
<1>1. rq[r].call = c /\ shown'.content = IF rq[r].conn THEN content ELSE Nothing
  BY DEF Answer
<1>2. /\ rq[r].conn /\ content \in {Cred} \cup call[c].jar /\ content # Fixed
      /\ shown'.content = content
  BY <1>1, FixedIsNoSecret
<1>3. HandlerOK(rq[r])
  BY DEF SessionInv, SessionParts
<1>4. call[c].at \in {"open", "closing"}
      /\ (proto = "browser" => call[c].at = "open")
  BY <1>1, <1>2, <1>3 DEF HandlerOK, FitsStage
<1>5. call[c].at = "open" => content \in call[c].sensitive
  BY <1>2 DEF SessionInv, SessionParts, CallOK, SlotStages
<1>6. CASE ~Searchable(call[c], content)
  BY <1>2, <1>6 DEF Searchable, Unscreened
<1> QED
  BY <1>1, <1>2, <1>4, <1>5, <1>6 DEF Unscreened

(* A step sends the caller no secret that is screened for.                 *)
LEMMA SessionStepShowsNoSecret ==
    SessionInv /\ [SessionNext]_sessionVars => ShowsNoSecret
<1> SUFFICES ASSUME SessionInv, [SessionNext]_sessionVars
             PROVE  ShowsNoSecret
  OBVIOUS
<1>0. ASSUME shown' = shown \/ shown' = NoReply
      PROVE  ShowsNoSecret
  <2>1. shown' = NoReply => shown'.call \notin Calls
    BY SessionAssumption DEF NoReply
  <2> QED
    BY <1>0, <2>1 DEF ShowsNoSecret
<1>1. ASSUME NEW c \in Calls, NEW o \in Offers, Start(c, o) \/ StartRefused(c, o)
      PROVE  ShowsNoSecret
  BY <1>0, <1>1 DEF Start, StartRefused, sessionVars
<1>2. ASSUME NEW c \in Calls,
             \/ LoginStep(c) \/ Expire(c) \/ Close(c) \/ CloseDone(c)
             \/ ClientHolds(c) \/ ClientLeaves(c)
      PROVE  ShowsNoSecret
  <2>1. LoginStep(c) => shown' = shown
    BY DEF LoginStep, StartFails, FormRead, Authenticated, Listening, LoginLanded,
           LoginVerified, LoginRedirected
  <2> QED
    BY <1>0, <1>2, <2>1 DEF Expire, Close, CloseDone, ClientHolds, ClientLeaves
<1>3. ASSUME NEW c \in Calls, NEW r \in Requests, NEW op \in Ops, Arrive(r, c, op)
      PROVE  ShowsNoSecret
  BY <1>0, <1>3 DEF Arrive
<1>4. ASSUME NEW c \in Calls, NEW r \in Requests, ArriveRefused(r, c) \/ ArriveMalformed(r, c)
      PROVE  ShowsNoSecret
  <2>1. shown'.content = Fixed \/ shown' = shown
    BY <1>4 DEF ArriveRefused, ArriveMalformed
  <2> QED
    BY <2>1, FixedIsNoSecret DEF ShowsNoSecret
<1>5. ASSUME NEW r \in Requests, HandlerStep(r)
      PROVE  ShowsNoSecret
  <2>1. CASE FixedReply(r)
    BY <2>1, AnswerShowsNoSecret DEF FixedReply
  <2>2. ASSUME NEW content \in Secrets \cup {Nothing}, TextReply(r, content)
        PROVE  ShowsNoSecret
    <3>1. rq[r].at # "idle"
      BY <2>2 DEF TextReply
    <3> QED
      BY <2>2, <3>1, AnswerShowsNoSecret DEF TextReply, containsSensitive
  <2>3. CASE BodyAllowed(r) \/ HeadReply(r)
    BY <2>3, <1>0 DEF BodyAllowed, HeadReply
  <2>4. ASSUME NEW cookie \in Cookies,
               CookieReply(r, cookie) \/ OverflowCrash(r, cookie)
        PROVE  ShowsNoSecret
    BY <2>4, <1>0 DEF CookieReply, OverflowCrash
  <2> QED
    BY <1>5, <2>1, <2>2, <2>3, <2>4 DEF HandlerStep
<1>6. CASE Restart
  BY <1>6, <1>0 DEF Restart
<1>7. ASSUME NEW r \in Requests, Disconnect(r)
      PROVE  ShowsNoSecret
  BY <1>7, <1>0 DEF Disconnect
<1>8. CASE UNCHANGED sessionVars
  BY <1>8, <1>0 DEF sessionVars
<1> QED
  BY <1>1, <1>2, <1>3, <1>4, <1>5, <1>6, <1>7, <1>8 DEF SessionNext

(* Outside the three cases of Unscreened the agent is shown neither the     *)
(* credentials nor a cookie of the jar, for any number of sessions,         *)
(* requests and cookies, and however they interleave; in particular a       *)
(* browser session shows nothing but the values of short cookies.           *)
THEOREM SessionSecretsStay == SessionSpec => SecretsAreScreened
<1>1. SessionInv /\ [SessionNext]_sessionVars => [ShowsNoSecret]_sessionVars
  BY SessionStepShowsNoSecret
<1> QED
  BY <1>1, SessionInvariant, PTL DEF SessionSpec, SecretsAreScreened, ShowsNoSecret

-----------------------------------------------------------------------------
(* The proxy supervisor, its runtime and its tunnels.                      *)

(* The types of the supervisor.                                            *)
Supervisors ==
    [at : {"idle", "active", "done", "hung"} \cup Starting \cup Stopping,
     closeRequested : BOOLEAN, active : BOOLEAN, readyRead : BOOLEAN,
     outputViolation : BOOLEAN, exitSeen : BOOLEAN]

(* The stages of the runtime process.                                      *)
ChildStages == {"none", "frames", "listen", "serving", "closing", "gone"}

(* The types of the runtime process.                                       *)
Children ==
    [at : ChildStages, leaseEnded : BOOLEAN, readyEmitted : BOOLEAN,
     noise : BOOLEAN, term : BOOLEAN, stuck : BOOLEAN, code : Nat]

(* The types of a tunnel.                                                  *)
Tunnels ==
    [at : {"none", "connect", "request", "tunnel"}, client : {"open", "gone"},
     upstream : {"asked", "open", "gone"}]

\* A client is connected only while the broker serves: the end of the lease, a
\* signal and the end of the process all take the clients along, and a new
\* child begins without any.
ProxyInv ==
    /\ sup \in Supervisors /\ child \in Children
    /\ tunnel \in [Clients -> Tunnels]
    /\ NoisyRuntimeIsInactive
    /\ sup.at = "spawn" => child.at = "none"
    /\ \A k \in Clients : tunnel[k].client = "open" => child.at = "serving"

(* The initial values.                                                     *)
LEMMA NewProxyValues ==
    /\ NewSupervisor \in Supervisors /\ ~NewSupervisor.active
    /\ NewSupervisor.at = "idle"
    /\ NoChild \in Children /\ NoChild.at = "none"
    /\ NoTunnel \in Tunnels /\ NoTunnel.client = "gone" /\ NoTunnel.at = "none"
BY DEF NewSupervisor, Supervisors, NoChild, Children, ChildStages, NoTunnel,
       Tunnels

(* A step that the tunnels do not notice.                                  *)
LEMMA ProxyControlStep ==
    ASSUME ProxyInv, sup' \in Supervisors, child' \in Children,
           tunnel' = tunnel,
           sup'.outputViolation => ~sup'.active,
           sup'.at = "spawn" => child'.at = "none",
           child.at = "serving" => child'.at = "serving"
    PROVE  ProxyInv'
BY DEF ProxyInv, NoisyRuntimeIsInactive

(* A step that takes the clients along.                                    *)
LEMMA ProxyClientsGone ==
    ASSUME ProxyInv, sup' \in Supervisors, child' \in Children,
           tunnel' \in [Clients -> Tunnels],
           \A k \in Clients : tunnel'[k].client = "gone",
           sup'.outputViolation => ~sup'.active,
           sup'.at = "spawn" => child'.at = "none"
    PROVE  ProxyInv'
BY DEF ProxyInv, NoisyRuntimeIsInactive

(* A step of one connection.                                               *)
LEMMA ProxyTunnelStep ==
    ASSUME ProxyInv, NEW k \in Clients, NEW t \in Tunnels,
           UNCHANGED <<sup, child>>, tunnel' = [tunnel EXCEPT ![k] = t],
           t.client = "open" => child.at = "serving"
    PROVE  ProxyInv'
BY DEF ProxyInv, NoisyRuntimeIsInactive

(* The end of the child's process, for whatever reason.                    *)
LEMMA ChildExitKeeps ==
    ASSUME ProxyInv, NEW code \in Nat, ChildRuns, ChildExits(code),
           sup' \in Supervisors, sup'.outputViolation => ~sup'.active,
           sup'.at = sup.at
    PROVE  ProxyInv'
<1>1. child' \in Children
  BY DEF ChildExits, ProxyInv, Children, ChildStages
<1>2. tunnel' \in [Clients -> Tunnels] /\ \A k \in Clients : tunnel'[k].client = "gone"
  BY NewProxyValues DEF ChildExits, AllTunnelsGone
<1>3. sup.at # "spawn"
  BY DEF ProxyInv, ChildRuns
<1> QED
  BY <1>1, <1>2, <1>3, ProxyClientsGone

(* closeProxyServer.                                                       *)
LEMMA BrokerClosesKeeps ==
    ASSUME ProxyInv, child.at = "serving", NEW c \in Children, BrokerCloses(c),
           sup' = sup
    PROVE  ProxyInv'
<1>1. child' \in Children
  BY DEF BrokerCloses, Children, ChildStages
<1>2. ASSUME NEW k \in Clients
      PROVE  tunnel'[k] \in Tunnels /\ tunnel'[k].client = "gone"
  BY DEF BrokerCloses, ProxyInv, Tunnels
<1>3. tunnel' \in [Clients -> Tunnels]
  BY <1>2 DEF BrokerCloses
<1>4. sup.at # "spawn"
  BY DEF ProxyInv
<1>5. sup' \in Supervisors /\ (sup'.outputViolation => ~sup'.active)
  BY DEF ProxyInv, NoisyRuntimeIsInactive
<1> QED
  BY <1>1, <1>2, <1>3, <1>4, <1>5, ProxyClientsGone

(* The steps of the supervisor and of its process.                         *)
LEMMA SupervisorKeeps ==
    ASSUME ProxyInv,
           \/ SupervisorStarts \/ SupervisorStep \/ CloseCalled
           \/ ParentDies \/ ParentReturns
    PROVE  ProxyInv'
<1> USE DEF Starting, Stopping
<1>i. /\ sup \in Supervisors /\ child \in Children
      /\ sup.outputViolation => ~sup.active
      /\ sup.at = "spawn" => child.at = "none"
  BY DEF ProxyInv, NoisyRuntimeIsInactive
<1>g. ~ChildRuns => \A k \in Clients : tunnel[k].client = "gone"
  BY DEF ProxyInv, ChildRuns, Tunnels
<1>t. tunnel \in [Clients -> Tunnels]
  BY DEF ProxyInv
<1>f. ForceStop(sup) \in Supervisors
      /\ ForceStop(sup).outputViolation = sup.outputViolation
      /\ ForceStop(sup).active = sup.active
      /\ ForceStop(sup).at # "spawn"
  <2>1. PICK s : s = ForceStop(sup)
    OBVIOUS
  <2>2. s \in Supervisors /\ s.outputViolation = sup.outputViolation
        /\ s.active = sup.active /\ s.at # "spawn"
    BY <1>i, <2>1 DEF ForceStop, Supervisors
  <2> QED
    BY <2>1, <2>2
<1>1. CASE SupervisorStarts
  <2>1. sup' \in Supervisors /\ ~sup'.active /\ child' = NoChild /\ tunnel' = tunnel
    BY <1>1 DEF SupervisorStarts, NewSupervisor, Supervisors
  <2> QED
    BY <1>1, <2>1, <1>g, <1>t, NewProxyValues, ProxyClientsGone DEF SupervisorStarts
<1>2. CASE Spawned
  <2>1. sup' \in Supervisors /\ sup'.active = sup.active
        /\ sup'.outputViolation = sup.outputViolation /\ sup'.at = "frames"
    BY <1>2, <1>i DEF Spawned, Supervisors
  <2>2. child' \in Children
    BY <1>2 DEF Spawned, NoChild, Children, ChildStages
  <2>3. ~ChildRuns
    BY <1>2, <1>i DEF Spawned, ChildRuns
  <2> QED
    BY <1>2, <2>1, <2>2, <2>3, <1>i, <1>g, <1>t, ProxyClientsGone DEF Spawned
<1>3. CASE SpawnFails
  <2>1. sup' \in Supervisors /\ sup'.active = sup.active
        /\ sup'.outputViolation = sup.outputViolation /\ sup'.at = "hung"
    BY <1>3, <1>i DEF SpawnFails, Supervisors
  <2> QED
    BY <1>3, <2>1, <1>i, ProxyControlStep DEF SpawnFails
<1>4. CASE FramesWritten
  <2>1. sup' \in Supervisors /\ sup'.active = sup.active
        /\ sup'.outputViolation = sup.outputViolation /\ sup'.at = "ready"
    BY <1>4, <1>i DEF FramesWritten, Supervisors
  <2> QED
    BY <1>4, <2>1, <1>i, ProxyControlStep DEF FramesWritten
<1>5. CASE ReadyRead
  <2>1. sup' \in Supervisors /\ sup'.active = sup.active
        /\ sup'.outputViolation = sup.outputViolation /\ sup'.at = "verify"
    BY <1>5, <1>i DEF ReadyRead, Supervisors
  <2> QED
    BY <1>5, <2>1, <1>i, ProxyControlStep DEF ReadyRead
<1>6. CASE StartupFails
  BY <1>6, <1>f, <1>i, ProxyControlStep DEF StartupFails
<1>7. CASE Verified
  <2>1. sup' \in Supervisors /\ ~sup'.outputViolation /\ sup'.at = "active"
    BY <1>7, <1>i DEF Verified, Supervisors
  <2> QED
    BY <1>7, <2>1, <1>i, ProxyControlStep DEF Verified
<1>8. CASE OutputSeen
  <2>1. sup' \in Supervisors /\ ~sup'.active /\ sup'.at = sup.at
    BY <1>8, <1>i DEF OutputSeen, Supervisors
  <2>2. CASE ChildRuns
    BY <1>8, <2>1, <2>2, ChildExitKeeps DEF OutputSeen
  <2>3. CASE ~ChildRuns
    BY <1>8, <2>1, <2>3, <1>i, ProxyControlStep DEF OutputSeen
  <2> QED
    BY <2>2, <2>3
<1>9. CASE GraceOver
  <2>1. sup' \in Supervisors /\ sup'.active = sup.active
        /\ sup'.outputViolation = sup.outputViolation /\ sup'.at = "terminating"
    BY <1>9, <1>i DEF GraceOver, Supervisors
  <2>2. child' \in Children /\ child'.at = child.at
    <3>1. PICK t \in BOOLEAN : t = ChildRuns
      BY DEF ChildRuns
    <3>2. child' = [child EXCEPT !.term = t]
      BY <1>9, <3>1 DEF GraceOver
    <3> QED
      BY <3>2, <1>i DEF Children
  <2> QED
    BY <1>9, <2>1, <2>2, <1>i, ProxyControlStep DEF GraceOver
<1>10. CASE TerminationOver
  <2>1. sup' \in Supervisors /\ sup'.active = sup.active
        /\ sup'.outputViolation = sup.outputViolation /\ sup'.at = "killing"
    BY <1>10, <1>i DEF TerminationOver, Supervisors
  <2>2. CASE ChildRuns
    <3>1. ChildExits(9)
      BY <1>10, <2>2 DEF TerminationOver
    <3>2. child' \in Children
      BY <3>1, <1>i DEF ChildExits, Children, ChildStages
    <3>3. tunnel' \in [Clients -> Tunnels] /\ \A k \in Clients : tunnel'[k].client = "gone"
      BY <3>1, NewProxyValues DEF ChildExits, AllTunnelsGone
    <3> QED
      BY <2>1, <3>2, <3>3, <1>i, ProxyClientsGone
  <2>3. CASE ~ChildRuns
    BY <1>10, <2>1, <2>3, <1>i, ProxyControlStep DEF TerminationOver
  <2> QED
    BY <2>2, <2>3
<1>11. CASE ExitSeen
  <2>1. sup' \in Supervisors /\ ~sup'.active /\ sup'.at # "spawn"
    BY <1>11, <1>i DEF ExitSeen, Supervisors
  <2> QED
    BY <1>11, <2>1, <1>i, ProxyControlStep DEF ExitSeen
<1>12. CASE CloseCalled
  BY <1>12, <1>f, <1>i, ProxyControlStep DEF CloseCalled
<1>13. CASE ParentDies
  BY <1>13, <1>i, ProxyControlStep DEF ParentDies
<1>14. CASE ParentReturns
  BY <1>14, <1>g, <1>t, NewProxyValues, ProxyClientsGone DEF ParentReturns
<1> QED
  BY <1>1, <1>2, <1>3, <1>4, <1>5, <1>6, <1>7, <1>8, <1>9, <1>10, <1>11, <1>12,
     <1>13, <1>14 DEF SupervisorStep

(* The steps of the child.                                                 *)
LEMMA RuntimeKeeps ==
    ASSUME ProxyInv, RuntimeStep \/ ChildCrashes \/ ChildBlocks \/ ChildWrites
    PROVE  ProxyInv'
<1>i. /\ sup \in Supervisors /\ child \in Children
      /\ sup.outputViolation => ~sup.active
      /\ sup.at = "spawn" => child.at = "none"
  BY DEF ProxyInv, NoisyRuntimeIsInactive
<1>s. sup' = sup
  BY DEF RuntimeStep, FramesRead, RuntimeFails, Listened, LeaseEndSeen,
         TerminateSeen, BrokerClosed, ChildCrashes, ChildBlocks, ChildWrites
<1>e. ASSUME NEW code \in Nat, ChildRuns, ChildExits(code)
      PROVE  ProxyInv'
  BY <1>e, <1>s, <1>i, ChildExitKeeps
<1>k. ASSUME child' \in Children, child'.at = child.at, tunnel' = tunnel
      PROVE  ProxyInv'
  BY <1>k, <1>s, <1>i, ProxyControlStep
<1>1. CASE FramesRead
  <2>1. ChildRuns /\ child.at = "frames"
    BY <1>1 DEF FramesRead, Child, ChildRuns
  <2>2. CASE child.leaseEnded
    BY <1>1, <2>1, <2>2, <1>e DEF FramesRead
  <2>3. CASE ~child.leaseEnded
    <3>1. child' \in Children /\ tunnel' = tunnel
      BY <1>1, <2>3, <1>i DEF FramesRead, Children, ChildStages
    <3> QED
      BY <3>1, <2>1, <1>s, <1>i, ProxyControlStep
  <2> QED
    BY <2>2, <2>3
<1>2. CASE RuntimeFails
  BY <1>2, <1>e DEF RuntimeFails, Child, ChildRuns
<1>3. CASE Listened
  <2>1. ChildRuns /\ child.at = "listen"
    BY <1>3 DEF Listened, Child, ChildRuns
  <2>2. CASE child.leaseEnded
    BY <1>3, <2>1, <2>2, <1>e DEF Listened
  <2>3. CASE ~child.leaseEnded
    <3>1. child' \in Children /\ tunnel' = tunnel
      BY <1>3, <2>3, <1>i DEF Listened, Children, ChildStages
    <3> QED
      BY <3>1, <2>1, <1>s, <1>i, ProxyControlStep
  <2> QED
    BY <2>2, <2>3
<1>4. CASE LeaseEndSeen
  <2>1. PICK c : c = [child EXCEPT !.leaseEnded = TRUE]
    OBVIOUS
  <2>2. c \in Children /\ c.at = child.at
    BY <2>1, <1>i DEF Children
  <2>3. CASE child.at = "serving"
    BY <1>4, <2>1, <2>2, <2>3, <1>s, BrokerClosesKeeps DEF LeaseEndSeen
  <2>4. CASE child.at # "serving"
    BY <1>4, <2>1, <2>2, <2>4, <1>k DEF LeaseEndSeen
  <2> QED
    BY <2>3, <2>4
<1>5. CASE TerminateSeen
  <2>1. PICK c : c = [child EXCEPT !.term = FALSE]
    OBVIOUS
  <2>2. c \in Children /\ c.at = child.at
    BY <2>1, <1>i DEF Children
  <2>3. CASE child.at = "serving"
    BY <1>5, <2>1, <2>2, <2>3, <1>s, BrokerClosesKeeps DEF TerminateSeen
  <2>4. CASE child.at = "closing"
    BY <1>5, <2>1, <2>2, <2>4, <1>k DEF TerminateSeen
  <2>5. CASE child.at \notin {"serving", "closing"}
    BY <1>5, <2>5, <1>e DEF TerminateSeen
  <2> QED
    BY <2>3, <2>4, <2>5
<1>6. CASE BrokerClosed
  BY <1>6, <1>e DEF BrokerClosed, Child, ChildRuns
<1>7. CASE ChildCrashes
  BY <1>7, <1>e DEF ChildCrashes
<1>8. CASE ChildBlocks
  <2>1. child' \in Children /\ child'.at = child.at
    BY <1>8, <1>i DEF ChildBlocks, Children
  <2> QED
    BY <1>8, <2>1, <1>k DEF ChildBlocks
<1>9. CASE ChildWrites
  <2>1. child' \in Children /\ child'.at = child.at
    BY <1>9, <1>i DEF ChildWrites, Children
  <2> QED
    BY <1>9, <2>1, <1>k DEF ChildWrites
<1> QED
  BY <1>1, <1>2, <1>3, <1>4, <1>5, <1>6, <1>7, <1>8, <1>9 DEF RuntimeStep

(* The steps of a connection of the broker.                                *)
TunnelStep(k) ==
    \/ ClientConnects(k)
    \/ \E what \in {"connect", "request"} : GatewayAsked(k, what)
    \/ TunnelOpens(k) \/ ExchangeEnds(k)
    \/ ClientGone(k) \/ UpstreamGone(k) \/ TunnelEnds(k)

(* A step of a tunnel is a step of a client that is served.                *)
LEMMA TunnelKeeps ==
    ASSUME ProxyInv, NEW k \in Clients, TunnelStep(k)
    PROVE  ProxyInv'
<1>i. tunnel \in [Clients -> Tunnels] /\ tunnel[k] \in Tunnels
      /\ (tunnel[k].client = "open" => child.at = "serving")
  BY DEF ProxyInv
<1>u. UNCHANGED <<sup, child>>
  BY DEF TunnelStep, ClientConnects, GatewayAsked, TunnelOpens, ExchangeEnds,
         ClientGone, UpstreamGone, TunnelEnds
<1>n. ASSUME tunnel' = [tunnel EXCEPT ![k] = NoTunnel]
      PROVE  ProxyInv'
  BY <1>n, <1>u, NewProxyValues, ProxyTunnelStep
<1>1. CASE ClientConnects(k)
  <2>1. PICK t : t = [tunnel[k] EXCEPT !.client = "open"]
    OBVIOUS
  <2>2. t \in Tunnels /\ tunnel' = [tunnel EXCEPT ![k] = t] /\ child.at = "serving"
    BY <1>1, <2>1, <1>i DEF ClientConnects, Tunnels, Child
  <2> QED
    BY <2>2, <1>u, ProxyTunnelStep
<1>2. ASSUME NEW what \in {"connect", "request"}, GatewayAsked(k, what)
      PROVE  ProxyInv'
  <2>1. PICK t : t = [tunnel[k] EXCEPT !.at = what, !.upstream = "asked"]
    OBVIOUS
  <2>2. t \in Tunnels /\ tunnel' = [tunnel EXCEPT ![k] = t] /\ child.at = "serving"
    BY <1>2, <2>1, <1>i DEF GatewayAsked, Tunnels, Child
  <2> QED
    BY <2>2, <1>u, ProxyTunnelStep
<1>3. CASE TunnelOpens(k)
  <2>1. PICK t : t = [tunnel[k] EXCEPT !.at = "tunnel", !.upstream = "open"]
    OBVIOUS
  <2>2. t \in Tunnels /\ t.client = tunnel[k].client
    BY <2>1, <1>i DEF Tunnels
  <2>3. CASE tunnel[k].client = "open"
    <3>1. tunnel' = [tunnel EXCEPT ![k] = t]
      BY <1>3, <2>1, <2>3, <1>i DEF TunnelOpens
    <3> QED
      BY <2>2, <3>1, <1>i, <1>u, ProxyTunnelStep
  <2>4. CASE tunnel[k].client # "open"
    <3>1. tunnel' = [tunnel EXCEPT ![k] = NoTunnel]
      BY <1>3, <2>4, <1>i DEF TunnelOpens
    <3> QED
      BY <3>1, <1>n
  <2> QED
    BY <2>3, <2>4
<1>4. CASE ExchangeEnds(k) \/ TunnelEnds(k)
  BY <1>4, <1>n DEF ExchangeEnds, TunnelEnds
<1>5. CASE ClientGone(k)
  <2>1. PICK t : t = [tunnel[k] EXCEPT !.client = "gone"]
    OBVIOUS
  <2>2. t \in Tunnels /\ t.client = "gone" /\ tunnel' = [tunnel EXCEPT ![k] = t]
    BY <1>5, <2>1, <1>i DEF ClientGone, Tunnels
  <2> QED
    BY <2>2, <1>u, ProxyTunnelStep
<1>6. CASE UpstreamGone(k)
  <2>1. PICK t : t = [tunnel[k] EXCEPT !.upstream = "gone"]
    OBVIOUS
  <2>2. t \in Tunnels /\ t.client = tunnel[k].client
        /\ tunnel' = [tunnel EXCEPT ![k] = t]
    BY <1>6, <2>1, <1>i DEF UpstreamGone, Tunnels
  <2> QED
    BY <2>2, <1>i, <1>u, ProxyTunnelStep
<1> QED
  BY <1>1, <1>2, <1>3, <1>4, <1>5, <1>6 DEF TunnelStep

(* The inductive invariant of the proxy.                                   *)
THEOREM ProxyInvariant == ProxySpec => []ProxyInv
<1>1. ProxyInit => ProxyInv
  <2> SUFFICES ASSUME ProxyInit PROVE ProxyInv
    OBVIOUS
  <2>1. tunnel \in [Clients -> Tunnels] /\ \A k \in Clients : tunnel[k].client = "gone"
    BY NewProxyValues DEF ProxyInit, AllTunnelsGone
  <2> QED
    BY <2>1, NewProxyValues DEF ProxyInit, ProxyInv, NoisyRuntimeIsInactive
<1>2. ProxyInv /\ [ProxyNext]_proxyVars => ProxyInv'
  <2> SUFFICES ASSUME ProxyInv, [ProxyNext]_proxyVars PROVE ProxyInv'
    OBVIOUS
  <2>1. CASE UNCHANGED proxyVars
    BY <2>1 DEF proxyVars, ProxyInv, NoisyRuntimeIsInactive
  <2>2. CASE ProxyNext
    <3>1. \/ SupervisorStarts \/ SupervisorStep \/ CloseCalled
          \/ ParentDies \/ ParentReturns
          \/ RuntimeStep \/ ChildCrashes \/ ChildBlocks \/ ChildWrites
          \/ \E k \in Clients : TunnelStep(k)
      BY <2>2 DEF ProxyNext, TunnelStep
    <3> QED
      BY <3>1, SupervisorKeeps, RuntimeKeeps, TunnelKeeps
  <2> QED
    BY <2>1, <2>2
<1> QED
  BY <1>1, <1>2, PTL DEF ProxySpec

(* A runtime that wrote more than its ready record is never given out       *)
(* again, also when the output came while its listener was being probed.    *)
THEOREM NoisyProxyIsInactive == ProxySpec => []NoisyRuntimeIsInactive
<1>1. ProxyInv => NoisyRuntimeIsInactive
  BY DEF ProxyInv
<1> QED
  BY <1>1, ProxyInvariant, PTL

-----------------------------------------------------------------------------
(* Tunnels.                                                                *)

\* The step opens a tunnel only for a connected client of a serving broker.
OpensForClients ==
    \A k \in Clients :
       tunnel'[k].at = "tunnel" /\ tunnel[k].at # "tunnel" =>
          tunnel[k].client = "open" /\ child.at = "serving"

(* A step opens an upstream connection only for a client that is there.    *)
LEMMA ProxyStepOpensForClients ==
    ASSUME ProxyInv, [ProxyNext]_proxyVars
    PROVE  OpensForClients
<1>0. ASSUME \A k \in Clients : tunnel'[k].at = tunnel[k].at \/ tunnel'[k].at = "none"
      PROVE  OpensForClients
  BY <1>0 DEF OpensForClients
<1>u. CASE tunnel' = tunnel \/ tunnel' = AllTunnelsGone
  BY <1>0, <1>u, NewProxyValues DEF AllTunnelsGone
<1>b. CASE \E c \in {[child EXCEPT !.leaseEnded = TRUE], [child EXCEPT !.term = FALSE]} :
              BrokerCloses(c)
  <2>1. \A k \in Clients : tunnel'[k].at = tunnel[k].at
    BY <1>b DEF BrokerCloses, ProxyInv, Tunnels
  <2> QED
    BY <2>1, <1>0
<1>1. ASSUME \/ SupervisorStarts \/ SupervisorStep \/ CloseCalled
             \/ ParentDies \/ ParentReturns
      PROVE  OpensForClients
  <2>1. tunnel' = tunnel \/ tunnel' = AllTunnelsGone
    BY <1>1 DEF SupervisorStarts, SupervisorStep, CloseCalled, ParentDies,
       ParentReturns, Spawned, SpawnFails, FramesWritten, ReadyRead, StartupFails,
       Verified, OutputSeen, GraceOver, TerminationOver, ExitSeen, ChildExits
  <2> QED
    BY <2>1, <1>u
<1>2. ASSUME RuntimeStep \/ ChildCrashes \/ ChildBlocks \/ ChildWrites
      PROVE  OpensForClients
  <2>1. CASE LeaseEndSeen
    BY <2>1, <1>u, <1>b DEF LeaseEndSeen
  <2>2. CASE TerminateSeen
    <3>1. CASE child.at = "serving"
      BY <2>2, <3>1, <1>b DEF TerminateSeen
    <3>2. CASE child.at = "closing"
      BY <2>2, <3>2, <1>u DEF TerminateSeen
    <3>3. CASE child.at \notin {"serving", "closing"}
      BY <2>2, <3>3, <1>u DEF TerminateSeen, ChildExits
    <3> QED
      BY <3>1, <3>2, <3>3
  <2>3. CASE ~(LeaseEndSeen \/ TerminateSeen)
    <3>1. tunnel' = tunnel \/ tunnel' = AllTunnelsGone
      BY <1>2, <2>3 DEF RuntimeStep, FramesRead, RuntimeFails, Listened,
         BrokerClosed, ChildCrashes, ChildBlocks, ChildWrites, ChildExits
    <3> QED
      BY <3>1, <1>u
  <2> QED
    BY <2>1, <2>2, <2>3
<1>3. ASSUME NEW k \in Clients, TunnelStep(k)
      PROVE  OpensForClients
  <2>i. tunnel \in [Clients -> Tunnels]
        /\ (tunnel[k].client = "open" => child.at = "serving")
    BY DEF ProxyInv
  <2>o. \A j \in Clients : j # k => tunnel'[j] = tunnel[j]
    BY <1>3, <2>i DEF TunnelStep, ClientConnects, GatewayAsked, TunnelOpens,
       ExchangeEnds, ClientGone, UpstreamGone, TunnelEnds
  <2>1. CASE TunnelOpens(k)
    <3>1. CASE tunnel[k].client = "open"
      BY <2>o, <2>i, <3>1 DEF OpensForClients
    <3>2. CASE tunnel[k].client # "open"
      <4>1. tunnel'[k] = NoTunnel
        BY <2>1, <2>i, <3>2 DEF TunnelOpens
      <4> QED
        BY <4>1, <2>o, <1>0, NewProxyValues
    <3> QED
      BY <3>1, <3>2
  <2>2. ASSUME NEW what \in {"connect", "request"}, GatewayAsked(k, what)
        PROVE  OpensForClients
    BY <2>2, <2>i, <2>o DEF GatewayAsked, OpensForClients, Tunnels
  <2>3. CASE ClientConnects(k) \/ ClientGone(k) \/ UpstreamGone(k)
    <3>1. tunnel'[k].at = tunnel[k].at
      BY <2>3, <2>i DEF ClientConnects, ClientGone, UpstreamGone, Tunnels
    <3> QED
      BY <3>1, <2>o, <1>0
  <2>4. CASE ExchangeEnds(k) \/ TunnelEnds(k)
    <3>1. tunnel'[k] = NoTunnel
      BY <2>4, <2>i DEF ExchangeEnds, TunnelEnds
    <3> QED
      BY <3>1, <2>o, <1>0, NewProxyValues
  <2> QED
    BY <1>3, <2>1, <2>2, <2>3, <2>4 DEF TunnelStep
<1>4. CASE UNCHANGED proxyVars
  BY <1>4, <1>u DEF proxyVars
<1>5. CASE ProxyNext
  <2>1. \/ SupervisorStarts \/ SupervisorStep \/ CloseCalled
        \/ ParentDies \/ ParentReturns
        \/ RuntimeStep \/ ChildCrashes \/ ChildBlocks \/ ChildWrites
        \/ \E k \in Clients : TunnelStep(k)
    BY <1>5 DEF ProxyNext, TunnelStep
  <2> QED
    BY <2>1, <1>1, <1>2, <1>3
<1> QED
  BY <1>4, <1>5

(* A tunnel is opened only for a client that is still connected to a broker *)
(* that serves, for any number of clients and however the gateway's answer, *)
(* the end of the lease and the signals interleave.                         *)
THEOREM TunnelsAreForClients == ProxySpec => TunnelNeedsClient
<1>1. ProxyInv /\ [ProxyNext]_proxyVars => [OpensForClients]_proxyVars
  BY ProxyStepOpensForClients
<1> QED
  BY <1>1, ProxyInvariant, PTL DEF ProxySpec, TunnelNeedsClient, OpensForClients
=============================================================================
