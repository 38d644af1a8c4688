--------------------------- MODULE HttpBrokerProofs ---------------------------
(***************************************************************************)
(* For any number of requests, any limit and any forms of the credential:  *)
(* replies are screened, upstream requests are pinned, and a closed broker *)
(* is silent.  BrokerInv is inductive; every step of a handler replaces one *)
(* record, so UpdateOne reduces it to that record.                         *)
(***************************************************************************)
EXTENDS HttpBroker, TLAPS

Unchanging == UNCHANGED <<policy, material, broker>>

-----------------------------------------------------------------------------
(* Facts about the operators.                                              *)

(* The slot of a class is one of the places of a request.                  *)
LEMMA SlotIsPlace == Slot \in CallPlaces /\ Slot # "accept"
BY DEF Slot, CallPlaces, CallerHeaders

(* A request without an upstream answer has nothing to screen.             *)
LEMMA JsonIsScreened ==
    ASSUME NEW status \in Nat
    PROVE  /\ JsonReply(status) \in [status : Nat, headers : SUBSET ResponseHeaders,
                                     body : Seq(Parts)]
           /\ Screened(JsonReply(status))
BY BrokerAssumption DEF JsonReply, Screened

LEMMA NoReplyIsScreened ==
    /\ NotReplied \in [status : Nat, headers : SUBSET ResponseHeaders,
                    body : Seq(Parts)]
    /\ Screened(NotReplied)
BY BrokerAssumption DEF NotReplied, Screened

LEMMA NoCallTyped == NoUpstreamCall \in [CallPlaces -> {"absent", "caller", "credential"}]
BY DEF NoUpstreamCall

(* The handler of a request that has not arrived is in order.              *)
LEMMA IdleIsGood == IdleHandler \in HttpHandlers /\ GoodHandler(IdleHandler)
<1>1. IdleHandler \in HttpHandlers
  BY NoReplyIsScreened, NoCallTyped DEF IdleHandler, HttpHandlers
<1>2. GoodHandler(IdleHandler)
  BY NoReplyIsScreened, BrokerAssumption DEF IdleHandler, GoodHandler, Pinned
<1> QED BY <1>1, <1>2

(* Whatever the caller names, the credential is in its slot and no other   *)
(* authorization is passed on.                                             *)
LEMMA OutboundPins ==
    ASSUME NEW names, NEW tokens
    PROVE  /\ Outbound(names, tokens)
                 \in [CallPlaces -> {"absent", "caller", "credential"}]
           /\ \A n \in CallPlaces :
                 /\ Outbound(names, tokens)[n] = "credential" <=> n = Slot
                 /\ Outbound(names, tokens)[n] = "caller" => n # "authorization"
BY SlotIsPlace DEF Outbound, UnsafeCallerHeader

(* A body without a variant, with sanitized headers, is a screened reply.  *)
LEMMA ForwardedIsScreened ==
    ASSUME NEW body \in Seq(Parts), Len(body) <= MaxBody,
           ~ContainsVariant(body), NEW names \in SUBSET ResponseHeaders,
           NEW reply, reply = [status |-> 200,
                               headers |-> SanitizeResponseHeaders(names),
                               body |-> body]
    PROVE  /\ reply \in [status : Nat, headers : SUBSET ResponseHeaders,
                         body : Seq(Parts)]
           /\ Screened(reply)
<1>1. reply \in [status : Nat, headers : SUBSET ResponseHeaders,
                 body : Seq(Parts)]
  BY DEF SanitizeResponseHeaders
<1>2. WireForm \in Variants
  BY DEF WireForm, Variants
<1>3. \A i \in DOMAIN body :
         body[i] \notin {"raw", "percent", "base64", "base64url", WireForm}
  BY <1>2 DEF ContainsVariant, Variants
<1>4. Slot \notin SanitizeResponseHeaders(names)
  BY DEF Slot, SanitizeResponseHeaders, ResponseHeaders
<1> QED BY <1>1, <1>3, <1>4 DEF Screened, ContainsVariant, SanitizeResponseHeaders

(* A step that replaces one handler by a good one keeps the invariant.     *)
LEMMA UpdateOne ==
    ASSUME BrokerInv, NEW r \in HttpRequests, NEW h \in HttpHandlers, GoodHandler(h),
           Update(r, h), Unchanging
    PROVE  BrokerInv'
<1>1. handler' \in [HttpRequests -> HttpHandlers] /\ handler'[r] = h
      /\ \A q \in HttpRequests \ {r} : handler'[q] = handler[q]
  BY DEF BrokerInv, HttpTypeOK, Update
<1>2. HttpTypeOK'
  BY <1>1 DEF BrokerInv, HttpTypeOK, Unchanging
<1>3. \A q \in HttpRequests : GoodHandler(handler'[q])
  BY <1>1 DEF BrokerInv
<1>4. (\A q \in HttpRequests : GoodHandler(handler[q]))'
  <2>1. Slot' = Slot /\ WireForm' = WireForm /\ (StartAllowed' <=> StartAllowed)
    BY DEF Slot, WireForm, StartAllowed, Unchanging
  <2>2. SUFFICES ASSUME NEW q \in HttpRequests
                 PROVE  GoodHandler(handler[q])'
    OBVIOUS
  <2>3. GoodHandler(handler'[q])
    BY <1>3
  <2>4. Screened(handler[q].reply)'
    BY <2>1, <2>3 DEF GoodHandler, Screened
  <2>5. Pinned(handler[q])'
    BY <2>1, <2>3 DEF GoodHandler, Pinned
  <2> QED BY <2>3, <2>4, <2>5 DEF GoodHandler, Unchanging
<1> QED BY <1>2, <1>4 DEF BrokerInv, StartAllowed, Unchanging

(* A handler that ends with a screened reply is in order.                  *)
LEMMA FinishedIsGood ==
    ASSUME BrokerInv, NEW r \in HttpRequests, ~In(r, "none"),
           NEW reply \in [status : Nat, headers : SUBSET ResponseHeaders,
                          body : Seq(Parts)],
           Screened(reply)
    PROVE  Finished(r, reply) \in HttpHandlers /\ GoodHandler(Finished(r, reply))
<1>1. handler[r] \in HttpHandlers /\ GoodHandler(handler[r])
  BY DEF BrokerInv, HttpTypeOK
<1>2. /\ Finished(r, reply).phase = "done"
      /\ Finished(r, reply).connected = handler[r].connected
      /\ Finished(r, reply).body = <<>>
      /\ Finished(r, reply).reply \in {reply, NotReplied}
  BY DEF Finished, IdleHandler
<1>3. Finished(r, reply) \in HttpHandlers
  BY <1>1, IdleIsGood, NoReplyIsScreened DEF Finished, HttpHandlers
<1>4. GoodHandler(Finished(r, reply))
  BY <1>1, <1>2, NoReplyIsScreened, BrokerAssumption DEF GoodHandler, Pinned, In
<1> QED BY <1>3, <1>4

-----------------------------------------------------------------------------
(* The initial states, and one step per action.                            *)

(* A broker that has not started is in order.                              *)
LEMMA InitIsGood == HttpInit => BrokerInv
BY IdleIsGood DEF HttpInit, BrokerInv, HttpTypeOK

(* Starting, binding and closing touch no handler but for its connection.  *)
LEMMA LifecycleStep ==
    ASSUME BrokerInv, HttpStart \/ BindSucceeds \/ BindFails \/ HttpClose
    PROVE  BrokerInv'
<1>1. Slot' = Slot /\ WireForm' = WireForm /\ (StartAllowed' <=> StartAllowed)
  BY DEF Slot, WireForm, StartAllowed, HttpStart, BindSucceeds, BindFails, HttpClose
<1>2. CASE HttpStart \/ BindSucceeds \/ BindFails
  <2>1. HttpTypeOK'
    BY <1>2 DEF BrokerInv, HttpTypeOK, HttpStart, BindSucceeds, BindFails
  <2>2. SUFFICES ASSUME NEW q \in HttpRequests
                 PROVE  GoodHandler(handler[q])'
    BY <1>1, <1>2, <2>1 DEF BrokerInv, HttpStart, BindSucceeds, BindFails
  <2>3. handler'[q] = handler[q] /\ GoodHandler(handler[q])
        /\ handler[q].phase = "none" /\ broker' \notin {"closed", "crashed"}
    BY <1>2 DEF BrokerInv, GoodHandler, HttpStart, BindSucceeds, BindFails
  <2>4. Screened(handler[q].reply)'
    BY <1>1, <2>3 DEF GoodHandler, Screened
  <2>5. Pinned(handler[q])'
    BY <1>1, <2>3 DEF GoodHandler, Pinned
  <2> QED BY <2>3, <2>4, <2>5 DEF GoodHandler
<1>3. CASE HttpClose
  <2>1. \A q \in HttpRequests : handler'[q] = [handler[q] EXCEPT !.connected = FALSE]
    BY <1>3 DEF HttpClose
  <2>0. ASSUME NEW q \in HttpRequests PROVE handler'[q] \in HttpHandlers
    <3>1. handler[q] \in HttpHandlers
      BY DEF BrokerInv, HttpTypeOK
    <3>2. [handler[q] EXCEPT !.connected = FALSE] \in HttpHandlers
      BY <3>1 DEF HttpHandlers
    <3> QED BY <2>1, <3>2
  <2>2. HttpTypeOK'
    BY <1>3, <2>0 DEF BrokerInv, HttpTypeOK, HttpClose
  <2>3. SUFFICES ASSUME NEW q \in HttpRequests
                 PROVE  GoodHandler(handler[q])'
    BY <1>1, <1>3, <2>2 DEF BrokerInv, HttpClose
  <2>4. handler[q] \in HttpHandlers /\ GoodHandler(handler[q])
    BY DEF BrokerInv, HttpTypeOK
  <2>5. /\ handler'[q].reply = handler[q].reply
        /\ handler'[q].phase = handler[q].phase
        /\ handler'[q].call = handler[q].call
        /\ handler'[q].body = handler[q].body
        /\ handler'[q].connected = FALSE
        /\ broker' = "closed"
    BY <1>3, <2>1, <2>4 DEF HttpHandlers, HttpClose
  <2>6. Screened(handler[q].reply)'
    BY <1>1, <2>4, <2>5 DEF GoodHandler, Screened
  <2>7. Pinned(handler[q])'
    BY <1>1, <2>4, <2>5 DEF GoodHandler, Pinned
  <2> QED BY <2>4, <2>5, <2>6, <2>7 DEF GoodHandler
<1> QED BY <1>2, <1>3

(* The end of the process takes every handler with it.                     *)
LEMMA CrashStep ==
    ASSUME BrokerInv, NEW r \in HttpRequests, HttpArriveMalformed(r)
    PROVE  BrokerInv'
<1>1. /\ Slot' = Slot /\ WireForm' = WireForm /\ StartAllowed' /\ broker' = "crashed"
      /\ policy' = policy /\ material' = material
  BY DEF Slot, WireForm, StartAllowed, HttpArriveMalformed, BrokerInv
<1>2. Lost \in HttpHandlers /\ Lost.phase = "lost" /\ Lost.body = <<>>
      /\ Lost.reply = NotReplied /\ Lost.connected = FALSE
  BY IdleIsGood DEF Lost, IdleHandler, HttpHandlers
<1>3. ASSUME NEW q \in HttpRequests
      PROVE  handler'[q] \in HttpHandlers /\ GoodHandler(handler[q])'
  <2>1. handler[q] \in HttpHandlers /\ GoodHandler(handler[q])
    BY DEF BrokerInv, HttpTypeOK
  <2>2. CASE q # r /\ handler[q].phase \in {"none", "done"}
    <3>1. handler'[q] = [handler[q] EXCEPT !.connected = FALSE]
      BY <2>2 DEF HttpArriveMalformed
    <3>2. /\ handler'[q] \in HttpHandlers
          /\ handler'[q].phase \in {"none", "done"}
          /\ handler'[q].reply = handler[q].reply
          /\ handler'[q].body = handler[q].body
          /\ handler'[q].connected = FALSE
      BY <2>1, <2>2, <3>1 DEF HttpHandlers
    <3>3. Screened(handler[q].reply)' /\ Pinned(handler[q])'
      BY <1>1, <2>1, <3>2 DEF GoodHandler, Screened, Pinned
    <3> QED BY <1>1, <2>1, <3>2, <3>3 DEF GoodHandler
  <2>3. CASE ~(q # r /\ handler[q].phase \in {"none", "done"})
    <3>1. handler'[q] = Lost
      BY <2>3 DEF HttpArriveMalformed
    <3>2. Screened(handler[q].reply)'
      BY <1>1, <1>2, <3>1, NoReplyIsScreened DEF Screened
    <3>3. Pinned(handler[q])'
      BY <1>2, <3>1 DEF Pinned
    <3> QED BY <1>1, <1>2, <3>1, <3>2, <3>3, BrokerAssumption DEF GoodHandler
  <2> QED BY <2>2, <2>3
<1>4. HttpTypeOK'
  <2>1. handler' = [q \in HttpRequests |-> handler'[q]]
    BY DEF HttpArriveMalformed
  <2>2. policy' \in RawPolicies /\ material' \in Materials
    BY <1>1 DEF BrokerInv, HttpTypeOK
  <2> QED BY <1>1, <1>3, <2>1, <2>2 DEF HttpTypeOK
<1> QED BY <1>1, <1>3, <1>4 DEF BrokerInv

(* A handler that only changes its phase, connection or count of units.    *)
LEMMA SameCall ==
    ASSUME BrokerInv, NEW r \in HttpRequests, ~In(r, "none"), NEW h \in HttpHandlers,
           h.reply = handler[r].reply, h.call = handler[r].call,
           h.body = handler[r].body,
           h.connected => handler[r].connected,
           h.phase \in {"reading", "ready", "fetching"} =>
               handler[r].phase \in {"reading", "ready", "fetching"},
           Update(r, h), Unchanging
    PROVE  BrokerInv'
<1>1. GoodHandler(handler[r])
  BY DEF BrokerInv
<1>2. GoodHandler(h)
  BY <1>1 DEF GoodHandler, Pinned, In
<1> QED BY <1>2, UpdateOne

LEMMA ArriveStep ==
    ASSUME BrokerInv, NEW r \in HttpRequests,
           NEW method, NEW target, NEW names, NEW tokens, NEW declared,
           HttpArrive(r, method, target, names, tokens, declared)
    PROVE  BrokerInv'
<1> DEFINE live == [IdleHandler EXCEPT !.connected = TRUE]
           call == Outbound(names, tokens)
<1>1. StartAllowed /\ broker = "open" /\ Unchanging
  BY DEF HttpArrive, BrokerInv, Unchanging
<1>2. /\ live \in HttpHandlers /\ live.body = <<>> /\ live.reply = NotReplied
  BY IdleIsGood DEF IdleHandler, HttpHandlers
<1>3. ASSUME NEW status \in Nat,
             Update(r, [live EXCEPT !.phase = "done", !.reply = JsonReply(status)])
      PROVE  BrokerInv'
  <2> DEFINE h == [live EXCEPT !.phase = "done", !.reply = JsonReply(status)]
  <2>2. h \in HttpHandlers /\ h.phase = "done" /\ h.body = <<>>
        /\ h.reply = JsonReply(status)
    BY <1>2, JsonIsScreened DEF HttpHandlers
  <2>3. GoodHandler(h)
    BY <1>1, <2>2, JsonIsScreened, BrokerAssumption DEF GoodHandler, Pinned
  <2> QED BY <1>1, <1>3, <2>2, <2>3, UpdateOne
<1>4. ASSUME NEW phase \in {"ready", "reading"},
             Update(r, [live EXCEPT !.phase = phase, !.call = call])
      PROVE  BrokerInv'
  <2> DEFINE h == [live EXCEPT !.phase = phase, !.call = call]
  <2>2. h \in HttpHandlers /\ h.phase = phase /\ h.body = <<>> /\ h.call = call
        /\ h.reply = NotReplied
    BY <1>2, OutboundPins DEF HttpHandlers
  <2>3. Pinned(h)
    BY <1>1, <2>2, OutboundPins DEF Pinned
  <2>4. GoodHandler(h)
    BY <1>1, <2>2, <2>3, NoReplyIsScreened, BrokerAssumption DEF GoodHandler
  <2> QED BY <1>1, <1>4, <2>2, <2>4, UpdateOne
<1>5. Denied(method, target) \in Nat
  BY DEF Denied
<1>6. \/ Update(r, [live EXCEPT !.phase = "done",
                                !.reply = JsonReply(Denied(method, target))])
      \/ Update(r, [live EXCEPT !.phase = "done", !.reply = JsonReply(413)])
      \/ Update(r, [live EXCEPT !.phase = "ready", !.call = call])
      \/ Update(r, [live EXCEPT !.phase = "reading", !.call = call])
  BY DEF HttpArrive
<1> HIDE DEF live, call
<1>7. CASE Update(r, [live EXCEPT !.phase = "done",
                                  !.reply = JsonReply(Denied(method, target))])
  BY <1>3, <1>5, <1>7
<1>8. CASE Update(r, [live EXCEPT !.phase = "done", !.reply = JsonReply(413)])
  <2>1. 413 \in Nat
    OBVIOUS
  <2> QED BY <1>3, <1>8, <2>1
<1>9. CASE Update(r, [live EXCEPT !.phase = "ready", !.call = call])
  BY <1>4, <1>9
<1>10. CASE Update(r, [live EXCEPT !.phase = "reading", !.call = call])
  BY <1>4, <1>10
<1> QED BY <1>6, <1>7, <1>8, <1>9, <1>10

LEMMA ReadStep ==
    ASSUME BrokerInv, NEW r \in HttpRequests,
           \/ \E size \in 1 .. MaxBody + 1 : ReceiveChunk(r, size)
           \/ BodyEnds(r) \/ ReadFails(r) \/ HttpDisconnect(r) \/ CallUpstream(r)
    PROVE  BrokerInv'
<1>0. handler[r] \in HttpHandlers /\ GoodHandler(handler[r])
  BY DEF BrokerInv, HttpTypeOK
<1>1. ~In(r, "none") /\ Unchanging
  BY DEF ReceiveChunk, BodyEnds, ReadFails, HttpDisconnect, CallUpstream, In, Unchanging
<1>2. CASE Update(r, [IdleHandler EXCEPT !.phase = "done"])
  <2> DEFINE h == [IdleHandler EXCEPT !.phase = "done"]
  <2>1. h \in HttpHandlers /\ h.phase = "done" /\ h.body = <<>>
        /\ h.reply = NotReplied /\ h.connected = FALSE
    BY IdleIsGood DEF IdleHandler, HttpHandlers
  <2>2. GoodHandler(h)
    BY <1>0, <1>1, <2>1, NoReplyIsScreened, BrokerAssumption
       DEF GoodHandler, Pinned, In
  <2> QED BY <1>1, <1>2, <2>1, <2>2, UpdateOne
<1>3. ASSUME NEW n \in Nat,
             Update(r, [handler[r] EXCEPT !.received = n])
      PROVE  BrokerInv'
  <2> DEFINE h == [handler[r] EXCEPT !.received = n]
  <2>1. h \in HttpHandlers /\ h.reply = handler[r].reply /\ h.call = handler[r].call
        /\ h.body = handler[r].body /\ h.connected = handler[r].connected
        /\ h.phase = handler[r].phase
    BY <1>0, <1>3 DEF HttpHandlers
  <2> QED BY <1>1, <1>3, <2>1, SameCall
<1>4. CASE \E size \in 1 .. MaxBody + 1 : ReceiveChunk(r, size)
  <2>1. PICK size \in 1 .. MaxBody + 1 : ReceiveChunk(r, size)
    BY <1>4
  <2>2. handler[r].received + size \in Nat
    BY <1>0, <2>1, BrokerAssumption DEF HttpHandlers
  <2> QED BY <1>2, <1>3, <2>1, <2>2 DEF ReceiveChunk
<1>5. CASE BodyEnds(r)
  <2> DEFINE h == [handler[r] EXCEPT !.phase = "ready", !.received = 0]
  <2>1. h \in HttpHandlers /\ h.reply = handler[r].reply /\ h.call = handler[r].call
        /\ h.body = handler[r].body /\ h.connected = handler[r].connected
        /\ h.phase = "ready"
    BY <1>0 DEF HttpHandlers
  <2>2. handler[r].phase = "reading" /\ Update(r, h)
    BY <1>5 DEF BodyEnds, In
  <2> QED BY <1>1, <2>1, <2>2, SameCall
<1>6. CASE HttpDisconnect(r)
  <2> DEFINE h == [handler[r] EXCEPT !.connected = FALSE]
  <2>1. h \in HttpHandlers /\ h.reply = handler[r].reply /\ h.call = handler[r].call
        /\ h.body = handler[r].body /\ h.connected = FALSE
        /\ h.phase = handler[r].phase
    BY <1>0 DEF HttpHandlers
  <2>2. Update(r, h)
    BY <1>6 DEF HttpDisconnect
  <2> QED BY <1>1, <2>1, <2>2, SameCall
<1>7. CASE CallUpstream(r)
  <2> DEFINE h == [handler[r] EXCEPT !.phase = "fetching"]
  <2>1. h \in HttpHandlers /\ h.reply = handler[r].reply /\ h.call = handler[r].call
        /\ h.body = handler[r].body /\ h.connected = handler[r].connected
        /\ h.phase = "fetching"
    BY <1>0 DEF HttpHandlers
  <2>2. handler[r].phase = "ready" /\ Update(r, h)
    BY <1>7 DEF CallUpstream, In
  <2> QED BY <1>1, <2>1, <2>2, SameCall
<1>8. CASE ReadFails(r)
  BY <1>2, <1>8 DEF ReadFails
<1> QED BY <1>4, <1>5, <1>6, <1>7, <1>8

LEMMA ResponseStep ==
    ASSUME BrokerInv, NEW r \in HttpRequests, Upstream(r) \/ Cancelled(r)
    PROVE  BrokerInv'
<1>0. handler[r] \in HttpHandlers /\ GoodHandler(handler[r])
  BY DEF BrokerInv, HttpTypeOK
<1>1. ~In(r, "none") /\ Unchanging
  BY DEF Upstream, FetchFails, FetchResolves, ReceivePart, ReceiveFails,
         Respond, Cancelled, In, Unchanging
<1>2. ASSUME NEW reply \in [status : Nat, headers : SUBSET ResponseHeaders,
                            body : Seq(Parts)],
             Screened(reply), Update(r, Finished(r, reply))
      PROVE  BrokerInv'
  BY <1>1, <1>2, FinishedIsGood, UpdateOne
<1>3. CASE FetchFails(r) \/ Cancelled(r)
  <2>1. Update(r, Finished(r, JsonReply(502)))
    BY <1>3 DEF FetchFails, Cancelled
  <2> QED BY <1>2, <2>1, JsonIsScreened
<1>4. ASSUME NEW h \in HttpHandlers, h.reply = handler[r].reply,
             h.connected = handler[r].connected, Len(h.body) <= MaxBody,
             h.phase \in {"cancelling", "receiving"}, Update(r, h)
      PROVE  BrokerInv'
  <2>1. GoodHandler(h)
    BY <1>0, <1>1, <1>4 DEF GoodHandler, Pinned, In
  <2> QED BY <1>1, <1>4, <2>1, UpdateOne
<1>5. CASE \E redirect \in BOOLEAN, header \in Parts, declared \in Lengths :
             FetchResolves(r, redirect, header, declared)
  <2>1. PICK phase \in {"cancelling", "receiving"} :
           Update(r, [handler[r] EXCEPT !.call = NoUpstreamCall, !.phase = phase])
    BY <1>5 DEF FetchResolves
  <2> DEFINE h == [handler[r] EXCEPT !.call = NoUpstreamCall, !.phase = phase]
  <2>2. h \in HttpHandlers /\ h.reply = handler[r].reply /\ h.phase = phase
        /\ h.connected = handler[r].connected /\ h.body = handler[r].body
    BY <1>0, NoCallTyped DEF HttpHandlers
  <2>3. Len(h.body) <= MaxBody
    BY <1>0, <2>2 DEF GoodHandler
  <2> QED BY <1>4, <2>1, <2>2, <2>3
<1>6. CASE Update(r, [handler[r] EXCEPT !.phase = "cancelling", !.body = <<>>])
  <2> DEFINE h == [handler[r] EXCEPT !.phase = "cancelling", !.body = <<>>]
  <2>0. <<>> \in Seq(Parts)
    OBVIOUS
  <2>1. h \in HttpHandlers /\ h.reply = handler[r].reply /\ h.phase = "cancelling"
        /\ h.connected = handler[r].connected /\ h.body = <<>>
    BY <1>0, <2>0 DEF HttpHandlers
  <2>2. Len(h.body) <= MaxBody
    BY <2>1, BrokerAssumption
  <2> QED BY <1>4, <1>6, <2>1, <2>2
<1>7. CASE \E part \in Parts : ReceivePart(r, part)
  <2>1. PICK part \in Parts : ReceivePart(r, part)
    BY <1>7
  <2>2. CASE Len(handler[r].body) + 1 > MaxBody
    BY <1>6, <2>1, <2>2 DEF ReceivePart
  <2>3. CASE ~(Len(handler[r].body) + 1 > MaxBody)
    <3> DEFINE longer == Append(handler[r].body, part)
               h == [handler[r] EXCEPT !.body = longer]
    <3>0. handler[r].body \in Seq(Parts) /\ handler[r].phase = "receiving"
      BY <1>0, <2>1 DEF HttpHandlers, ReceivePart, In
    <3>4. longer \in Seq(Parts) /\ Len(longer) = Len(handler[r].body) + 1
      BY <3>0
    <3>1. h \in HttpHandlers /\ h.reply = handler[r].reply /\ h.phase = "receiving"
          /\ h.connected = handler[r].connected
          /\ h.body = longer
      <4> HIDE DEF longer
      <4> QED BY <1>0, <3>0, <3>4 DEF HttpHandlers
    <3>2. Len(h.body) <= MaxBody
      BY <2>3, <3>0, <3>1, <3>4, BrokerAssumption
    <3>3. Update(r, h)
      BY <2>1, <2>3 DEF ReceivePart
    <3> QED BY <1>4, <3>1, <3>2, <3>3
  <2> QED BY <2>2, <2>3
<1>8. CASE ReceiveFails(r)
  BY <1>6, <1>8 DEF ReceiveFails
<1>9. CASE \E names \in SUBSET ResponseHeaders : Respond(r, names)
  <2>1. PICK names \in SUBSET ResponseHeaders : Respond(r, names)
    BY <1>9
  <2>2. handler[r].body \in Seq(Parts) /\ Len(handler[r].body) <= MaxBody
    BY <1>0 DEF HttpHandlers, GoodHandler
  <2>3. CASE ContainsVariant(handler[r].body)
    <3>1. Update(r, Finished(r, JsonReply(502)))
      BY <2>1, <2>3 DEF Respond
    <3> QED BY <1>2, <3>1, JsonIsScreened
  <2>4. CASE ~ContainsVariant(handler[r].body)
    <3> DEFINE reply == [status |-> 200, body |-> handler[r].body,
                         headers |-> SanitizeResponseHeaders(names)]
    <3>1. Update(r, Finished(r, reply))
      BY <2>1, <2>4 DEF Respond
    <3> QED BY <1>2, <2>2, <2>4, <3>1, ForwardedIsScreened
  <2> QED BY <2>3, <2>4
<1> QED BY <1>3, <1>5, <1>7, <1>8, <1>9 DEF Upstream

-----------------------------------------------------------------------------

(* A stuttering step keeps the invariant.                                  *)
LEMMA StutterStep == ASSUME BrokerInv, UNCHANGED httpVars PROVE BrokerInv'
BY DEF httpVars, BrokerInv, HttpTypeOK, GoodHandler, Screened, Pinned, StartAllowed,
       Slot, WireForm

(* BrokerInv is an invariant of the broker of src/broker.js.               *)
THEOREM BrokerInvariant == HttpSpec => []BrokerInv
<1>1. ASSUME BrokerInv, [HttpNext]_httpVars PROVE BrokerInv'
  <2>1. CASE HttpStart \/ BindSucceeds \/ BindFails \/ HttpClose
    BY <1>1, <2>1, LifecycleStep
  <2>2. ASSUME NEW r \in HttpRequests, Agent(r) \/ ReadFails(r) \/ CallUpstream(r)
                                   \/ Cancelled(r) \/ Upstream(r)
        PROVE  BrokerInv'
    BY <1>1, <2>2, ArriveStep, CrashStep, ReadStep, ResponseStep DEF Agent
  <2>3. CASE UNCHANGED httpVars
    BY <1>1, <2>3, StutterStep
  <2> QED BY <1>1, <2>1, <2>2, <2>3 DEF HttpNext
<1> QED BY InitIsGood, <1>1, PTL DEF HttpSpec

(* The handler never passes on a response that holds the credential in a   *)
(* form it wrote or knows, for any body, any chunks and any headers.       *)
THEOREM RepliesAreScreened == HttpSpec => []ReplyIsScreened
<1>1. BrokerInv => ReplyIsScreened
  BY DEF BrokerInv, GoodHandler, ReplyIsScreened
<1> QED BY <1>1, BrokerInvariant, PTL

(* The handler sends the credential in the one place of its class, and no  *)
(* authorization of the caller beside it.                                  *)
THEOREM CallsArePinned == HttpSpec => []OutboundIsPinned
<1>1. BrokerInv => OutboundIsPinned
  BY DEF BrokerInv, GoodHandler, OutboundIsPinned
<1> QED BY <1>1, BrokerInvariant, PTL

Silent(r) ==
    /\ handler'[r].reply # handler[r].reply => handler'[r].reply = NotReplied
    /\ In(r, "reading") => handler'[r].phase \in {"reading", "done"}
    /\ In(r, "none") => handler'[r].phase = "none"

(* A closed broker's handler ends without an answer or goes on in silence. *)
LEMMA SilentStep ==
    ASSUME BrokerInv, HttpNext, broker = "closed", NEW r \in HttpRequests
    PROVE  Silent(r)
<1>1. /\ handler \in [HttpRequests -> HttpHandlers] /\ handler[r] \in HttpHandlers
      /\ handler[r].connected = FALSE
  BY DEF BrokerInv, HttpTypeOK, GoodHandler, HttpHandlers
<1>2. PICK q \in HttpRequests :
         \/ Agent(q) \/ ReadFails(q) \/ CallUpstream(q) \/ Cancelled(q)
         \/ Upstream(q)
  BY DEF HttpNext, HttpStart, BindSucceeds, BindFails, HttpClose
<1>3. ASSUME NEW h, Update(q, h)
      PROVE  handler'[r] = IF q = r THEN h ELSE handler[r]
  BY <1>1, <1>3 DEF Update
<1>4. CASE q # r
  <2>1. \E h : Update(q, h)
    <3>1. CASE ReadFails(q) \/ CallUpstream(q) \/ Cancelled(q) \/ BodyEnds(q)
               \/ HttpDisconnect(q) \/ FetchFails(q) \/ ReceiveFails(q)
      BY <3>1 DEF ReadFails, CallUpstream, Cancelled, BodyEnds, HttpDisconnect,
                  FetchFails, ReceiveFails
    <3>2. CASE \E redirect \in BOOLEAN, header \in Parts, declared \in Lengths :
                 FetchResolves(q, redirect, header, declared)
      BY <3>2 DEF FetchResolves
    <3>3. CASE \E part \in Parts : ReceivePart(q, part)
      BY <3>3 DEF ReceivePart
    <3>4. CASE \E names \in SUBSET ResponseHeaders : Respond(q, names)
      BY <3>4 DEF Respond
    <3>5. CASE \E size \in 1 .. MaxBody + 1 : ReceiveChunk(q, size)
      BY <3>5 DEF ReceiveChunk
    <3>6. ~\E method, target, names, tokens, declared :
              HttpArrive(q, method, target, names, tokens, declared)
      BY DEF HttpArrive
    <3>7. ~HttpArriveMalformed(q)
      BY DEF HttpArriveMalformed
    <3> QED BY <1>2, <3>1, <3>2, <3>3, <3>4, <3>5, <3>6, <3>7 DEF Agent, Upstream
  <2>2. handler'[r] = handler[r]
    BY <1>3, <1>4, <2>1
  <2> QED BY <2>2 DEF Silent, In
<1>5. CASE q = r
  <2>1. ASSUME NEW reply, Update(r, Finished(r, reply)), ~In(r, "reading"),
               ~In(r, "none")
        PROVE  Silent(r)
    <3>1. handler'[r] = Finished(r, reply)
      BY <1>3, <1>5, <2>1
    <3>2. handler'[r].reply = NotReplied
      BY <1>1, <3>1 DEF Finished, IdleHandler
    <3> QED BY <2>1, <3>2 DEF Silent
  <2>2. CASE FetchFails(r) \/ Cancelled(r) \/ \E names \in SUBSET ResponseHeaders :
                                                  Respond(r, names)
    <3>1. CASE FetchFails(r)
      BY <2>1, <3>1 DEF FetchFails, In
    <3>2. CASE Cancelled(r)
      BY <2>1, <3>2 DEF Cancelled, In
    <3>3. CASE \E names \in SUBSET ResponseHeaders : Respond(r, names)
      <4>1. PICK reply : Update(r, Finished(r, reply))
        BY <3>3 DEF Respond
      <4>2. ~In(r, "reading") /\ ~In(r, "none")
        BY <3>3 DEF Respond, In
      <4> QED BY <2>1, <4>1, <4>2
    <3> QED BY <2>2, <3>1, <3>2, <3>3
  <2>3. CASE ReadFails(r)
    <3>1. handler'[r] = [IdleHandler EXCEPT !.phase = "done"]
      BY <1>3, <1>5, <2>3 DEF ReadFails
    <3> QED BY <2>3, <3>1 DEF Silent, IdleHandler, In, ReadFails
  <2>4. ASSUME NEW h, Update(r, h), h.reply = handler[r].reply,
               ~In(r, "reading"), ~In(r, "none")
        PROVE  Silent(r)
    <3>1. handler'[r] = h
      BY <1>3, <1>5, <2>4
    <3> QED BY <2>4, <3>1 DEF Silent
  <2>5. CASE CallUpstream(r)
    <3>1. [handler[r] EXCEPT !.phase = "fetching"].reply = handler[r].reply
      BY <1>1 DEF HttpHandlers
    <3> QED BY <2>4, <2>5, <3>1 DEF CallUpstream, In
  <2>6. CASE \E redirect \in BOOLEAN, header \in Parts, declared \in Lengths :
               FetchResolves(r, redirect, header, declared)
    <3>1. PICK phase \in {"cancelling", "receiving"} :
             Update(r, [handler[r] EXCEPT !.call = NoUpstreamCall, !.phase = phase])
      BY <2>6 DEF FetchResolves
    <3>2. [handler[r] EXCEPT !.call = NoUpstreamCall, !.phase = phase].reply
             = handler[r].reply
      BY <1>1 DEF HttpHandlers
    <3>3. ~In(r, "reading") /\ ~In(r, "none")
      BY <2>6 DEF FetchResolves, In
    <3> QED BY <2>4, <3>1, <3>2, <3>3
  <2>7. CASE ReceiveFails(r) \/ \E part \in Parts : ReceivePart(r, part)
    <3>1. [handler[r] EXCEPT !.phase = "cancelling", !.body = <<>>].reply
             = handler[r].reply
      BY <1>1 DEF HttpHandlers
    <3>2. \A body : [handler[r] EXCEPT !.body = body].reply = handler[r].reply
      BY <1>1 DEF HttpHandlers
    <3>3. ~In(r, "reading") /\ ~In(r, "none")
      BY <2>7 DEF ReceiveFails, ReceivePart, In
    <3>4. \/ Update(r, [handler[r] EXCEPT !.phase = "cancelling", !.body = <<>>])
          \/ \E body : Update(r, [handler[r] EXCEPT !.body = body])
      BY <2>7 DEF ReceiveFails, ReceivePart
    <3>5. CASE Update(r, [handler[r] EXCEPT !.phase = "cancelling", !.body = <<>>])
      BY <2>4, <3>1, <3>3, <3>5
    <3>6. ASSUME NEW body, Update(r, [handler[r] EXCEPT !.body = body])
          PROVE  Silent(r)
      BY <2>4, <3>2, <3>3, <3>6
    <3> QED BY <3>4, <3>5, <3>6
  <2>8. ~Agent(r)
    <3>1. ~\E method, target, names, tokens, declared :
              HttpArrive(r, method, target, names, tokens, declared)
      BY DEF HttpArrive
    <3>2. ~\E size \in 1 .. MaxBody + 1 : ReceiveChunk(r, size)
      BY <1>1 DEF ReceiveChunk
    <3>3. ~BodyEnds(r) /\ ~HttpDisconnect(r)
      BY <1>1 DEF BodyEnds, HttpDisconnect
    <3>4. ~HttpArriveMalformed(r)
      BY DEF HttpArriveMalformed
    <3> QED BY <3>1, <3>2, <3>3, <3>4 DEF Agent
  <2> QED BY <1>2, <1>5, <2>2, <2>3, <2>5, <2>6, <2>7, <2>8 DEF Upstream
<1> QED BY <1>4, <1>5

(* closeServer() of src/broker.js is final: handlers that outlive it write *)
(* to no one, and none of them begins to use the credential.               *)
THEOREM ClosedIsSilent == HttpSpec => ClosedBrokerIsSilent
<1>1. ASSUME BrokerInv, [HttpNext]_httpVars
      PROVE  [broker = "closed" =>
                 \A r \in HttpRequests :
                    /\ handler'[r].reply # handler[r].reply =>
                          handler'[r].reply = NotReplied
                    /\ In(r, "reading") => handler'[r].phase \in {"reading", "done"}
                    /\ In(r, "none") => handler'[r].phase = "none"]_httpVars
  BY <1>1, SilentStep DEF Silent
<1> QED BY <1>1, BrokerInvariant, PTL DEF HttpSpec, ClosedBrokerIsSilent
=============================================================================
