------------------------- MODULE OwnedBrowserProofs -------------------------
(***************************************************************************)
(* Proofs about the agent operations of one Bridge-owned browser: any      *)
(* number of requests, cookies and ticks.                                  *)
(***************************************************************************)
EXTENDS OwnedBrowser, TLAPS

-----------------------------------------------------------------------------
(* What the record constructors of the handlers build.                     *)

(* Every form in which a handler leaves op is well typed.                  *)
LEMMA OpForms ==
    /\ Idle \in OpType
    /\ \A n \in OpNames, g \in BOOLEAN :
          [Idle EXCEPT !.name = n, !.step = "start", !.gone = g] \in OpType
    /\ \A o \in OpType, st \in Steps, d \in Documents, n \in Nat :
          /\ [o EXCEPT !.step = st] \in OpType
          /\ [o EXCEPT !.step = st, !.facts = d] \in OpType
          /\ [o EXCEPT !.step = st, !.facts = d, !.seen = n] \in OpType
          /\ [o EXCEPT !.gone = TRUE, !.step = st] \in OpType
          /\ [o EXCEPT !.step = st, !.hung = FALSE] \in OpType
          /\ [o EXCEPT !.hung = TRUE] \in OpType
    /\ {"start", "absorb", "verify", "fill", "submit", "landed", "reset", "load",
        "capture", "shoot"} \subseteq Steps
    /\ \A p \in PageType : p.doc \in Documents
    /\ \A o \in OpType : o.step \in Steps /\ o.gone \in BOOLEAN /\ o.hung \in BOOLEAN
<1>1. /\ Idle \in OpType
      /\ \A n \in OpNames, g \in BOOLEAN :
            [Idle EXCEPT !.name = n, !.step = "start", !.gone = g] \in OpType
  BY DEF Idle, OpType, Steps, Documents
<1>2. \A o \in OpType, st \in Steps, d \in Documents, n \in Nat :
          /\ [o EXCEPT !.step = st] \in OpType
          /\ [o EXCEPT !.step = st, !.facts = d] \in OpType
          /\ [o EXCEPT !.step = st, !.facts = d, !.seen = n] \in OpType
  BY DEF OpType
<1>3. \A o \in OpType, st \in Steps :
          /\ [o EXCEPT !.gone = TRUE, !.step = st] \in OpType
          /\ [o EXCEPT !.step = st, !.hung = FALSE] \in OpType
          /\ [o EXCEPT !.hung = TRUE] \in OpType
          /\ o.step \in Steps /\ o.gone \in BOOLEAN /\ o.hung \in BOOLEAN
  BY DEF OpType
<1>4. /\ {"start", "absorb", "verify", "fill", "submit", "landed", "reset", "load",
          "capture", "shoot"} \subseteq Steps
      /\ \A p \in PageType : p.doc \in Documents
  BY DEF Steps, PageType
<1>5. "idle" \in Steps
  BY DEF Steps
<1> QED
  BY <1>1, <1>2, <1>3, <1>4, <1>5

(* A response is a record of ReplyType.                                    *)
LEMMA ReplyForms ==
    /\ \A ok \in BOOLEAN, n \in Nat : [ok |-> ok, seen |-> n] \in ReplyType
    /\ \A o \in OpType : o.seen \in Nat
BY DEF ReplyType, OpType

(* A recorded snapshot is a record of SnapshotType.                        *)
LEMMA SnapshotForms ==
    /\ NoSnapshot \in SnapshotType
    /\ \A n \in Nat, d \in Documents :
          [generation |-> n, doc |-> d] \in SnapshotType
    /\ \A o \in OpType : o.facts \in Documents
    /\ \A x \in SnapshotType : x.generation \in Nat
BY DEF NoSnapshot, SnapshotType, Documents, OpType

(* A navigation, a fill, a look and a redrawing leave a page of PageType.  *)
LEMMA PageForms ==
    /\ "login" \in Documents
    /\ \A d \in Documents : Fresh(d) \in PageType
    /\ \A p \in PageType, b \in BOOLEAN :
          /\ [p EXCEPT !.filled = TRUE, !.typed = TRUE, !.checked = FALSE] \in PageType
          /\ [p EXCEPT !.filled = ~@, !.checked = FALSE] \in PageType
          /\ [p EXCEPT !.checked = b] \in PageType
BY DEF PageType, Documents, Fresh

(* A waiting request is a record of QueuedType, whoever leaves.            *)
LEMMA QueueForms ==
    /\ \A n \in OpNames : [name |-> n, gone |-> FALSE] \in QueuedType
    /\ \A q \in Seq(QueuedType) :
          /\ \A i \in DOMAIN q : [q EXCEPT ![i].gone = TRUE] \in Seq(QueuedType)
          /\ q # <<>> =>
                /\ Head(q) \in QueuedType /\ Head(q).name \in OpNames
                /\ Head(q).gone \in BOOLEAN
                /\ Tail(q) \in Seq(QueuedType)
<1>1. \A n \in OpNames : [name |-> n, gone |-> FALSE] \in QueuedType
  BY DEF QueuedType
<1>2. ASSUME NEW q \in Seq(QueuedType), NEW i \in DOMAIN q
      PROVE  [q EXCEPT ![i].gone = TRUE] \in Seq(QueuedType)
  <2>1. q[i] \in QueuedType
    OBVIOUS
  <2>2. [q[i] EXCEPT !.gone = TRUE] \in QueuedType
    BY <2>1 DEF QueuedType
  <2>3. [q EXCEPT ![i].gone = TRUE] = [q EXCEPT ![i] = [q[i] EXCEPT !.gone = TRUE]]
    OBVIOUS
  <2> QED BY <2>2, <2>3
<1>3. ASSUME NEW q \in Seq(QueuedType), q # <<>>
      PROVE  /\ Head(q) \in QueuedType /\ Head(q).name \in OpNames
             /\ Head(q).gone \in BOOLEAN
             /\ Tail(q) \in Seq(QueuedType)
  <2>1. Head(q) \in QueuedType /\ Tail(q) \in Seq(QueuedType)
    BY <1>3
  <2> QED BY <2>1 DEF QueuedType
<1> QED BY <1>1, <1>2, <1>3

(* A submission delivers to an origin that Origin or FormOrigin names.     *)
LEMMA DeliveryForms ==
    \A x \in DeliveryType : \A d :
        /\ [count |-> x.count + 1, target |-> Origin(d)] \in DeliveryType
        /\ [count |-> x.count + 1, target |-> FormOrigin(d)] \in DeliveryType
BY DEF DeliveryType, Origin, FormOrigin

-----------------------------------------------------------------------------

(* A fresh session has authorized nothing and answers nothing.             *)
LEMMA SessionInitially == Init => SessionInv
<1> SUFFICES ASSUME Init PROVE SessionInv
  OBVIOUS
<1>1. op \in OpType /\ page \in PageType /\ lastSnapshot \in SnapshotType
  BY OpForms, PageForms, SnapshotForms DEF Init
<1>2. reply \in ReplyType /\ delivered \in DeliveryType
  BY DEF Init, ReplyType, DeliveryType
<1>3. /\ now \in Nat /\ lastUsedAt \in Nat /\ lastUsedAt <= now
      /\ queue \in Seq(QueuedType) /\ sent \in Nat
      /\ cookie \in Nat /\ sensitive \subseteq Nat
      /\ generation \in Nat /\ authorized \in Nat
  BY DEF Init, Credential
<1>4. TypeOK
  BY <1>1, <1>2, <1>3, Zenon DEF Init, TypeOK
<1> QED
  BY <1>4 DEF Init, SessionInv, SelectionIsCurrent, PasswordEntryIsExclusive,
              Injecting, At, Idle, NoSnapshot, Fresh

(* Every step keeps the types.                                             *)
LEMMA TypeInductive == TypeOK /\ [Next]_vars => TypeOK'
<1> SUFFICES ASSUME TypeOK, [Next]_vars
             PROVE  TypeOK'
  OBVIOUS
<1> USE DEF timeVars, agentVars, targetVars, closeVars, ghostVars
<1>0. CASE UNCHANGED vars
  BY <1>0 DEF vars, TypeOK
<1>1. CASE BeginRequest
  <2>1. /\ Head(queue).name \in OpNames /\ Head(queue).gone \in BOOLEAN
        /\ Tail(queue) \in Seq(QueuedType)
    BY <1>1, QueueForms DEF BeginRequest, TypeOK
  <2>2. now' \in Nat /\ lastUsedAt' \in Nat /\ lastUsedAt' <= now'
    BY <1>1 DEF BeginRequest, Dispatch, TypeOK
  <2>3. op' \in OpType
    BY <1>1, <2>1, OpForms DEF BeginRequest, Dispatch
  <2>4. reply' \in ReplyType
    BY <1>1, ReplyForms DEF BeginRequest, Dispatch, Answer, TypeOK
  <2>5. queue' \in Seq(QueuedType)
    BY <1>1, <2>1 DEF BeginRequest, Dispatch
  <2> QED
    BY <1>1, <2>2, <2>3, <2>4, <2>5 DEF BeginRequest, Dispatch, TypeOK
<1>25. CASE BeginMalformed
  <2>1. queue' \in Seq(QueuedType) /\ Head(queue).gone \in BOOLEAN
    BY <1>25, QueueForms DEF BeginMalformed, TypeOK
  <2>2. now' \in Nat /\ lastUsedAt' \in Nat /\ lastUsedAt' <= now'
    BY <1>25 DEF BeginMalformed, TypeOK
  <2>3. /\ holding' \in BOOLEAN /\ closed' \in BOOLEAN /\ adapterUp' \in BOOLEAN
        /\ shutdown' \in {"open", "adapter", "http", "done", "crashed"}
    BY <1>25, <2>1 DEF BeginMalformed, TypeOK
  <2> QED BY <1>25, <2>1, <2>2, <2>3 DEF BeginMalformed, TypeOK
<1>2. CASE RequestFails
  <2>1. op' \in OpType
    BY <1>2, OpForms DEF RequestFails, Respond, Answer, TypeOK, At
  <2>2. reply' \in ReplyType
    BY <1>2, ReplyForms DEF RequestFails, Respond, Answer, TypeOK
  <2> QED
    BY <1>2, <2>1, <2>2 DEF RequestFails, Respond, Answer, TypeOK
<1>3. CASE SnapshotRead
  <2>1. op' \in OpType
    BY <1>3, OpForms DEF SnapshotRead, TypeOK, At
  <2> QED
    BY <1>3, <2>1 DEF SnapshotRead, TypeOK
<1>4. CASE SnapshotFinish
  <2>1. sensitive' \subseteq Nat
    BY <1>4 DEF SnapshotFinish, Absorbed, BumpedTargets, Respond, Answer, Challenge, TypeOK
  <2>2. generation' \in Nat /\ authorized' \in Nat
    BY <1>4 DEF SnapshotFinish, Absorbed, BumpedTargets, Respond, Answer, Challenge, TypeOK
  <2>3. lastSnapshot' \in SnapshotType
    BY <1>4, SnapshotForms DEF SnapshotFinish, Absorbed, BumpedTargets, Respond, Answer, Challenge, TypeOK
  <2>4. op' \in OpType
    BY <1>4, OpForms DEF SnapshotFinish, Absorbed, BumpedTargets, Respond, Answer, Challenge, TypeOK, At
  <2>5. reply' \in ReplyType
    BY <1>4, ReplyForms DEF SnapshotFinish, Absorbed, BumpedTargets, Respond, Answer, Challenge, TypeOK
  <2> QED
    BY <1>4, <2>1, <2>2, <2>3, <2>4, <2>5 DEF SnapshotFinish, Absorbed, BumpedTargets, Respond, Answer, Challenge, TypeOK
<1>5. ASSUME NEW g \in 1..MaxRequests, NEW right \in BOOLEAN,
             SelectTargets(g, right)
       PROVE  TypeOK'
  <2>1. authorized' \in Nat
    BY <1>5 DEF SelectTargets, SelectionAuthorized, Respond, Answer, TypeOK
  <2>2. op' \in OpType
    BY <1>5, OpForms DEF SelectTargets, SelectionAuthorized, Respond, Answer, TypeOK, At
  <2>3. reply' \in ReplyType
    BY <1>5, ReplyForms DEF SelectTargets, SelectionAuthorized, Respond, Answer, TypeOK
  <2> QED
    BY <1>5, <2>1, <2>2, <2>3 DEF SelectTargets, SelectionAuthorized, Respond, Answer, TypeOK
<1>6. ASSUME NEW pinned \in 0..MaxRequests, InjectAdmit(pinned)
       PROVE  TypeOK'
  <2>1. op' \in OpType
    BY <1>6, OpForms DEF InjectAdmit, Advance, TypeOK, At
  <2> QED
    BY <1>6, <2>1 DEF InjectAdmit, Advance, TypeOK
<1>7. CASE InjectVerify
  <2>1. op' \in OpType
    BY <1>7, OpForms DEF InjectVerify, TypeOK, At
  <2>2. page' \in PageType
    BY <1>7, PageForms DEF InjectVerify, TypeOK
  <2> QED
    BY <1>7, <2>1, <2>2 DEF InjectVerify, TypeOK
<1>8. CASE InjectFill
  <2>1. page' \in PageType
    BY <1>8, PageForms DEF InjectFill, Advance, TypeOK
  <2>2. delivered' \in DeliveryType
    BY <1>8, DeliveryForms DEF InjectFill, Advance, TypeOK
  <2>3. op' \in OpType
    BY <1>8, OpForms DEF InjectFill, Advance, TypeOK, At
  <2> QED
    BY <1>8, <2>1, <2>2, <2>3 DEF InjectFill, Advance, TypeOK
<1>9. CASE InjectPost
  <2>1. delivered' \in DeliveryType
    BY <1>9, DeliveryForms DEF InjectPost, Advance, TypeOK
  <2>2. op' \in OpType
    BY <1>9, OpForms DEF InjectPost, Advance, TypeOK, At
  <2>3. page' \in PageType
    BY <1>9, PageForms DEF InjectPost, Advance, TypeOK
  <2> QED
    BY <1>9, <2>1, <2>2, <2>3 DEF InjectPost, Advance, TypeOK
<1>10. ASSUME NEW d \in Documents, InjectLands(d)
       PROVE  TypeOK'
  <2>1. page' \in PageType
    BY <1>10, PageForms DEF InjectLands, SiteCookie, TypeOK
  <2>2. cookie' \in Nat
    BY <1>10 DEF InjectLands, SiteCookie, TypeOK
  <2>3. op' \in OpType
    BY <1>10, OpForms DEF InjectLands, SiteCookie, TypeOK, At
  <2> QED
    BY <1>10, <2>1, <2>2, <2>3 DEF InjectLands, SiteCookie, TypeOK
<1>11. CASE InjectFinish
  <2>1. sensitive' \subseteq Nat
    BY <1>11 DEF InjectFinish, Absorbed, BumpedTargets, BumpGeneration, Respond, Answer, Advance, TypeOK
  <2>2. loggedIn' \in BOOLEAN /\ passwordEntryActive' \in BOOLEAN
    BY <1>11 DEF InjectFinish, Absorbed, BumpedTargets, BumpGeneration, Respond, Answer, Advance, TypeOK
  <2>3. generation' \in Nat /\ authorized' \in Nat
    BY <1>11 DEF InjectFinish, Absorbed, BumpedTargets, BumpGeneration, Respond, Answer, Advance, TypeOK
  <2>4. lastSnapshot' \in SnapshotType
    BY <1>11, SnapshotForms DEF InjectFinish, Absorbed, BumpedTargets, BumpGeneration, Respond, Answer, Advance, TypeOK
  <2>5. op' \in OpType
    BY <1>11, OpForms DEF InjectFinish, Absorbed, BumpedTargets, BumpGeneration, Respond, Answer, Advance, TypeOK, At
  <2>6. reply' \in ReplyType
    BY <1>11, ReplyForms DEF InjectFinish, Absorbed, BumpedTargets, BumpGeneration, Respond, Answer, Advance, TypeOK
  <2> QED
    BY <1>11, <2>1, <2>2, <2>3, <2>4, <2>5, <2>6 DEF InjectFinish, Absorbed, BumpedTargets, BumpGeneration, Respond, Answer, Advance, TypeOK
<1>12. CASE InjectFails
  <2>1. op' \in OpType
    BY <1>12, OpForms DEF InjectFails, Advance, TypeOK, At
  <2>2. page' \in PageType
    BY <1>12, PageForms DEF InjectFails, TypeOK
  <2> QED
    BY <1>12, <2>1, <2>2 DEF InjectFails, TypeOK
<1>13. CASE InjectReset
  <2>1. page' \in PageType
    BY <1>13, PageForms DEF InjectReset, Respond, Answer, TypeOK
  <2>2. op' \in OpType
    BY <1>13, OpForms DEF InjectReset, Respond, Answer, TypeOK, At
  <2>3. reply' \in ReplyType
    BY <1>13, ReplyForms DEF InjectReset, Respond, Answer, TypeOK
  <2> QED
    BY <1>13, <2>1, <2>2, <2>3 DEF InjectReset, Respond, Answer, TypeOK
<1>14. ASSUME NEW d \in Documents, GotoLoad(d)
       PROVE  TypeOK'
  <2>1. page' \in PageType
    BY <1>14, PageForms DEF GotoLoad, SiteCookie, TypeOK
  <2>2. cookie' \in Nat
    BY <1>14 DEF GotoLoad, SiteCookie, TypeOK
  <2>3. op' \in OpType
    <3>1. CASE ReadRefused(d)
      <4>1. op' = [op EXCEPT !.step = "load", !.facts = d, !.seen = cookie']
        BY <1>14, <3>1 DEF GotoLoad
      <4> QED
        BY <4>1, <2>2, OpForms DEF TypeOK
    <3>2. CASE ~ReadRefused(d)
      <4>1. op' = [op EXCEPT !.step = "absorb", !.facts = d, !.seen = cookie']
        BY <1>14, <3>2 DEF GotoLoad
      <4> QED
        BY <4>1, <2>2, OpForms DEF TypeOK
    <3> QED
      BY <3>1, <3>2
  <2> QED
    BY <1>14, <2>1, <2>2, <2>3 DEF GotoLoad, SiteCookie, TypeOK
<1>15. CASE GotoFinish
  <2>1. sensitive' \subseteq Nat
    BY <1>15 DEF GotoFinish, Absorbed, BumpedTargets, BumpGeneration, Respond, Answer, TypeOK
  <2>2. generation' \in Nat /\ authorized' \in Nat
    BY <1>15 DEF GotoFinish, Absorbed, BumpedTargets, BumpGeneration, Respond, Answer, TypeOK
  <2>3. lastSnapshot' \in SnapshotType
    BY <1>15, SnapshotForms DEF GotoFinish, Absorbed, BumpedTargets, BumpGeneration, Respond, Answer, TypeOK
  <2>4. op' \in OpType
    BY <1>15, OpForms DEF GotoFinish, Absorbed, BumpedTargets, BumpGeneration, Respond, Answer, TypeOK, At
  <2>5. reply' \in ReplyType
    BY <1>15, ReplyForms DEF GotoFinish, Absorbed, BumpedTargets, BumpGeneration, Respond, Answer, TypeOK
  <2> QED
    BY <1>15, <2>1, <2>2, <2>3, <2>4, <2>5 DEF GotoFinish, Absorbed, BumpedTargets, BumpGeneration, Respond, Answer, TypeOK
<1>16. CASE ScreenshotCheck
  <2>1. op' \in OpType
    BY <1>16, OpForms DEF ScreenshotCheck, Advance, TypeOK, At
  <2> QED
    BY <1>16, <2>1 DEF ScreenshotCheck, Advance, TypeOK
<1>17. CASE ScreenshotCapture
  <2>1. shot' \in BOOLEAN
    BY <1>17 DEF ScreenshotCapture, TypeOK, PageType
  <2>2. op' \in OpType
    BY <1>17, OpForms DEF ScreenshotCapture, Respond, Answer, passwordFieldsOccupied, TypeOK, At
  <2>3. reply' \in ReplyType
    BY <1>17, ReplyForms DEF ScreenshotCapture, Respond, Answer, passwordFieldsOccupied, TypeOK
  <2>4. page' \in PageType
    BY <1>17, PageForms DEF ScreenshotCapture, TypeOK
  <2> QED
    BY <1>17, <2>1, <2>2, <2>3, <2>4 DEF ScreenshotCapture, Respond, Answer, passwordFieldsOccupied, TypeOK
<1>18. CASE CloseAdapterSettles
  BY <1>18 DEF CloseAdapterSettles, TypeOK
<1>19. CASE CloseHttpFinishes
  BY <1>19 DEF CloseHttpFinishes, TypeOK
<1>20. ASSUME NEW name \in OpNames, Arrive(name)
       PROVE  TypeOK'
  <2>1. queue' \in Seq(QueuedType)
    BY <1>20, QueueForms DEF Arrive, TypeOK
  <2> QED
    BY <1>20, <2>1 DEF Arrive, TypeOK
<1>21. CASE Tick
  <2>1. now' \in Nat /\ lastUsedAt' \in Nat /\ lastUsedAt' <= now'
    BY <1>21 DEF Tick, TypeOK
  <2> QED
    BY <1>21, <2>1 DEF Tick, TypeOK
<1>22. ASSUME NEW d \in Documents, SiteChangesPage(d)
       PROVE  TypeOK'
  <2>1. page' \in PageType
    BY <1>22, PageForms DEF SiteChangesPage, SiteCookie, TypeOK
  <2>2. cookie' \in Nat
    BY <1>22 DEF SiteChangesPage, SiteCookie, TypeOK
  <2> QED
    BY <1>22, <2>1, <2>2 DEF SiteChangesPage, SiteCookie, TypeOK
<1>23. CASE CloseCalled
  BY <1>23 DEF CloseCalled, TypeOK
<1>24. CASE AdapterCloses
  BY <1>24 DEF AdapterCloses, TypeOK
<1>26. CASE ScreenshotRecheck
  <2>1. op' \in OpType
    BY <1>26, OpForms DEF ScreenshotRecheck, Advance, TypeOK
  <2>2. page' \in PageType
    BY <1>26, PageForms DEF ScreenshotRecheck, TypeOK
  <2> QED
    BY <1>26, <2>1, <2>2 DEF ScreenshotRecheck, TypeOK
<1>27. CASE PageRedraws
  <2>1. page' \in PageType
    BY <1>27, PageForms DEF PageRedraws, TypeOK
  <2> QED BY <1>27, <2>1 DEF PageRedraws, TypeOK
<1>28. CASE PageHangs
  <2>1. op' \in OpType
    BY <1>28, OpForms DEF PageHangs, TypeOK
  <2> QED BY <1>28, <2>1 DEF PageHangs, TypeOK
<1>29. CASE ClientHolds
  BY <1>29 DEF ClientHolds, TypeOK
<1>30. CASE ServedClientLeaves
  <2>1. op' \in OpType
    BY <1>30, OpForms DEF ServedClientLeaves, TypeOK
  <2> QED BY <1>30, <2>1 DEF ServedClientLeaves, TypeOK
<1>31. ASSUME NEW i \in DOMAIN queue, QueuedClientLeaves(i)
       PROVE  TypeOK'
  <2>1. queue' \in Seq(QueuedType)
    BY <1>31, QueueForms DEF QueuedClientLeaves, TypeOK
  <2> QED BY <1>31, <2>1 DEF QueuedClientLeaves, TypeOK
<1> QED
  BY <1>0, <1>1, <1>2, <1>3, <1>4, <1>5, <1>6, <1>7, <1>8, <1>9, <1>10, <1>11, <1>12,
     <1>13, <1>14, <1>15, <1>16, <1>17, <1>18, <1>19, <1>20, <1>21, <1>22, <1>23, <1>24,
     <1>25, <1>26, <1>27, <1>28, <1>29, <1>30, <1>31
  DEF Next, Serve, Shutdown, Environment, Usual, Disturbance

(* SessionInv is inductive: one case per action.                           *)
LEMMA SessionInductive == SessionInv /\ [Next]_vars => SessionInv'
<1> SUFFICES ASSUME SessionInv, [Next]_vars
             PROVE  SessionInv'
  OBVIOUS
<1>t. TypeOK /\ TypeOK'
  BY TypeInductive DEF SessionInv
<1>g. generation \in Nat /\ authorized \in Nat
  BY <1>t DEF TypeOK
<1>o. op = [name |-> op.name, step |-> op.step, facts |-> op.facts,
            seen |-> op.seen, gone |-> op.gone, hung |-> op.hung]
  BY <1>t DEF TypeOK, OpType
<1>p. page = [doc |-> page.doc, filled |-> page.filled, typed |-> page.typed,
              checked |-> page.checked]
  BY <1>t DEF TypeOK, PageType
<1> USE <1>t
    DEF SessionInv, SelectionIsCurrent, PasswordEntryIsExclusive,
        Injecting, At, Idle, NoSnapshot, InjectSafe, Fresh,
        timeVars, agentVars, targetVars, closeVars, ghostVars
<1>0. CASE UNCHANGED vars
  BY <1>0 DEF vars
<1>1. CASE BeginRequest
  <2>1. ~Injecting /\ ~passwordEntryActive
    BY <1>1 DEF BeginRequest
  <2>2. UNCHANGED <<page, authorized, generation, lastSnapshot, loggedIn, passwordEntryActive>>
    BY <1>1 DEF BeginRequest, Dispatch
  <2>3. CASE op' = Idle
    BY <2>1, <2>2, <2>3
  <2>4. CASE op' # Idle
    <3>1. op' = [Idle EXCEPT !.name = Head(queue).name, !.step = "start",
                             !.gone = Head(queue).gone]
      BY <1>1, <2>4 DEF BeginRequest, Dispatch
    <3>2. Head(queue).name # "idle"
      <4>1. Head(queue).name \in OpNames
        BY <1>1, <1>t, QueueForms DEF BeginRequest, TypeOK
      <4> QED
        BY <4>1 DEF OpNames
    <3>3. op'.step = "start" /\ op'.name = Head(queue).name
      BY <3>1
    <3> QED
      BY <2>1, <2>2, <3>2, <3>3
  <2> QED
    BY <2>3, <2>4
<1>25. CASE BeginMalformed
  BY <1>25 DEF BeginMalformed
<1>2. CASE RequestFails
  BY <1>g, <1>o, <1>p, <1>2 DEF RequestFails, Respond
<1>3. CASE SnapshotRead
  BY <1>g, <1>o, <1>p, <1>3 DEF SnapshotRead
<1>4. CASE SnapshotFinish
  BY <1>g, <1>o, <1>p, <1>4 DEF SnapshotFinish, Absorbed, BumpedTargets, Respond, Challenge
<1>5. ASSUME NEW g \in 1..MaxRequests, NEW right \in BOOLEAN,
             SelectTargets(g, right)
       PROVE  SessionInv'
  <2>1. ~Injecting /\ ~passwordEntryActive
    BY <1>5 DEF SelectTargets
  <2>2. authorized' = lastSnapshot.generation /\ lastSnapshot' = lastSnapshot
    BY <1>5 DEF SelectTargets
  <2>3. InjectSafe(lastSnapshot.doc)
    BY <1>5 DEF SelectTargets, SelectionAuthorized, Challenge, HasPolicyFields
  <2>4. op' = Idle /\ UNCHANGED <<generation, passwordEntryActive, loggedIn, page>>
    BY <1>5 DEF SelectTargets, Respond
  <2> QED
    BY <1>g, <2>1, <2>2, <2>3, <2>4
<1>6. ASSUME NEW pinned \in 0..MaxRequests, InjectAdmit(pinned)
       PROVE  SessionInv'
  BY <1>g, <1>o, <1>p, <1>6 DEF InjectAdmit, Advance
<1>7. CASE InjectVerify
  BY <1>g, <1>o, <1>p, <1>7 DEF InjectVerify
<1>8. CASE InjectFill
  BY <1>g, <1>o, <1>p, <1>8 DEF InjectFill, Advance
<1>9. CASE InjectPost
  BY <1>g, <1>o, <1>p, <1>9 DEF InjectPost, Advance
<1>10. ASSUME NEW d \in Documents, InjectLands(d)
       PROVE  SessionInv'
  BY <1>g, <1>o, <1>p, <1>10 DEF InjectLands, SiteCookie
<1>11. CASE InjectFinish
  <2>1. CASE op.facts = "success"
    <3>1. /\ ~passwordEntryActive' /\ op' = Idle
          /\ authorized' = 0 /\ lastSnapshot' = NoSnapshot
          /\ UNCHANGED page
      BY <1>11, <2>1 DEF InjectFinish, BumpGeneration, BumpedTargets, Respond
    <3> QED
      BY <3>1
  <2>2. CASE op.facts # "success"
    BY <1>o, <1>p, <1>11, <2>2 DEF InjectFinish, Advance
  <2> QED
    BY <2>1, <2>2
<1>12. CASE InjectFails
  BY <1>g, <1>o, <1>p, <1>12 DEF InjectFails, Advance
<1>13. CASE InjectReset
  BY <1>g, <1>o, <1>p, <1>13 DEF InjectReset, Respond
<1>14. ASSUME NEW d \in Documents, GotoLoad(d)
       PROVE  SessionInv'
  BY <1>g, <1>o, <1>p, <1>14 DEF GotoLoad, SiteCookie
<1>15. CASE GotoFinish
  BY <1>g, <1>o, <1>p, <1>15 DEF GotoFinish, Absorbed, BumpedTargets, BumpGeneration, Respond
<1>16. CASE ScreenshotCheck
  BY <1>g, <1>o, <1>p, <1>16 DEF ScreenshotCheck, Advance
<1>17. CASE ScreenshotCapture
  BY <1>g, <1>o, <1>p, <1>17 DEF ScreenshotCapture, Respond, passwordFieldsOccupied
<1>18. CASE CloseAdapterSettles
  BY <1>g, <1>o, <1>p, <1>18 DEF CloseAdapterSettles
<1>19. CASE CloseHttpFinishes
  BY <1>g, <1>o, <1>p, <1>19 DEF CloseHttpFinishes
<1>20. ASSUME NEW name \in OpNames, Arrive(name)
       PROVE  SessionInv'
  BY <1>g, <1>o, <1>p, <1>20 DEF Arrive
<1>21. CASE Tick
  BY <1>g, <1>o, <1>p, <1>21 DEF Tick
<1>22. ASSUME NEW d \in Documents, SiteChangesPage(d)
       PROVE  SessionInv'
  BY <1>g, <1>o, <1>p, <1>22 DEF SiteChangesPage, SiteCookie
<1>23. CASE CloseCalled
  BY <1>g, <1>o, <1>p, <1>23 DEF CloseCalled
<1>24. CASE AdapterCloses
  BY <1>g, <1>o, <1>p, <1>24 DEF AdapterCloses
<1>26. CASE ScreenshotRecheck
  BY <1>g, <1>o, <1>p, <1>26 DEF ScreenshotRecheck, Advance, passwordFieldsOccupied
<1>27. CASE PageRedraws
  BY <1>g, <1>o, <1>p, <1>27 DEF PageRedraws
<1>28. CASE PageHangs
  BY <1>g, <1>o, <1>p, <1>28 DEF PageHangs
<1>29. CASE ClientHolds
  BY <1>29 DEF ClientHolds
<1>30. CASE ServedClientLeaves
  BY <1>g, <1>o, <1>p, <1>30 DEF ServedClientLeaves, Posts
<1>31. ASSUME NEW i \in DOMAIN queue, QueuedClientLeaves(i)
       PROVE  SessionInv'
  BY <1>31 DEF QueuedClientLeaves
<1> HIDE DEF SessionInv
<1> QED
  BY <1>0, <1>1, <1>2, <1>3, <1>4, <1>5, <1>6, <1>7, <1>8, <1>9, <1>10, <1>11, <1>12,
     <1>13, <1>14, <1>15, <1>16, <1>17, <1>18, <1>19, <1>20, <1>21, <1>22, <1>23, <1>24,
     <1>25, <1>26, <1>27, <1>28, <1>29, <1>30, <1>31
  DEF Next, Serve, Shutdown, Environment, Usual, Disturbance

(* The inductive invariant holds in every reachable state.                 *)
THEOREM SessionInvariant == Spec => []SessionInv
BY SessionInitially, SessionInductive, PTL DEF Spec

(* Every variable of a session keeps its type, for any number of requests. *)
THEOREM SessionTypeCorrect == Spec => []TypeOK
<1>1. SessionInv => TypeOK
  BY DEF SessionInv
<1> QED
  BY <1>1, SessionInvariant, PTL

(* No order of snapshot, select, inject and goto leaves an authorized      *)
(* selection that a newer page has made stale.                             *)
THEOREM SelectionStaysCurrent == Spec => []SelectionIsCurrent
<1>1. SessionInv => SelectionIsCurrent
  BY DEF SessionInv
<1> QED
  BY <1>1, SessionInvariant, PTL

(* The flag that blocks screenshots is up exactly during an injection.     *)
THEOREM PasswordEntryFlagExact == Spec => []PasswordEntryIsExclusive
<1>1. SessionInv => PasswordEntryIsExclusive
  BY DEF SessionInv
<1> QED
  BY <1>1, SessionInvariant, PTL

\* The step formula of NoScreenshotOfPassword.
ShowsOnlyRedrawn == shot' => shot \/ ~page.checked

(* Only ScreenshotCapture takes a picture, and the last look of the adapter *)
(* found the fields empty.                                                  *)
LEMMA StepShowsNoPassword == SessionInv /\ [Next]_vars => ShowsOnlyRedrawn
<1> SUFFICES ASSUME SessionInv, [Next]_vars, shot', ~shot, page.checked
             PROVE  FALSE
  BY DEF ShowsOnlyRedrawn
<1> USE DEF timeVars, agentVars, targetVars, closeVars, ghostVars
<1>1. ScreenshotCapture
  BY DEF Next, Serve, Shutdown, Environment, Usual, Disturbance, vars, Arrive, Tick,
         SiteChangesPage, CloseCalled, AdapterCloses, BeginRequest, Dispatch,
         RequestFails, SnapshotRead, SnapshotFinish, SelectTargets,
         InjectAdmit, InjectVerify, InjectFill, InjectPost, InjectLands,
         InjectFinish, InjectFails, InjectReset, GotoLoad, GotoFinish,
         ScreenshotCheck, ScreenshotRecheck, CloseAdapterSettles,
         CloseHttpFinishes, BeginMalformed, PageRedraws, PageHangs,
         ClientHolds, ServedClientLeaves, QueuedClientLeaves
<1>2. At("screenshot", "shoot") /\ page.filled
  BY <1>1 DEF ScreenshotCapture
<1> QED BY <1>2 DEF SessionInv

(* A screenshot shows a typed password only if the page changed between    *)
(* the adapter's last look at its fields and the picture, whatever failed  *)
(* injections left typed before.                                           *)
THEOREM ScreenshotsShowNoPassword == Spec => NoScreenshotOfPassword
<1>1. SessionInv /\ [Next]_vars => [ShowsOnlyRedrawn]_vars
  BY StepShowsNoPassword
<1> QED
  BY <1>1, SessionInvariant, PTL DEF Spec, NoScreenshotOfPassword, ShowsOnlyRedrawn

\* The step formula of DeliveryIsChecked.
Checked ==
    delivered' # delivered =>
        /\ authorized = generation /\ authorized # 0
        /\ ~loggedIn /\ passwordEntryActive
        /\ InjectSafe(op.facts)
        /\ driver = "fetch" => delivered'.target = "own"
        /\ driver = "playwright" /\ page.checked =>
              delivered'.target = "own" /\ page.doc = op.facts

(* Only InjectFill and InjectPost hand the credentials over, and both      *)
(* stand at a verified injection.                                          *)
LEMMA StepIsChecked == SessionInv /\ [Next]_vars => Checked
<1> SUFFICES ASSUME SessionInv, [Next]_vars, delivered' # delivered
             PROVE  Checked
  BY DEF Checked
<1> USE DEF timeVars, agentVars, targetVars, closeVars, ghostVars
<1>1. InjectFill \/ InjectPost
  BY DEF Next, Serve, Shutdown, Environment, Usual, Disturbance, vars, Arrive, Tick,
         SiteChangesPage, CloseCalled, AdapterCloses, BeginRequest, Dispatch,
         RequestFails, SnapshotRead, SnapshotFinish, SelectTargets,
         InjectAdmit, InjectVerify, InjectLands, InjectFinish, InjectFails,
         InjectReset, GotoLoad, GotoFinish, ScreenshotCheck, ScreenshotRecheck,
         ScreenshotCapture, CloseAdapterSettles, CloseHttpFinishes,
         BeginMalformed, PageRedraws, PageHangs, ClientHolds,
         ServedClientLeaves, QueuedClientLeaves
<1>2. At("inject_login", "fill")
  BY <1>1 DEF InjectFill, InjectPost
<1>3. Injecting
  BY <1>2 DEF At, Injecting
<1>4. /\ InjectSafe(op.facts) /\ authorized # 0 /\ authorized = generation
      /\ page.checked => page.doc = op.facts
  BY <1>2, <1>3 DEF SessionInv, SelectionIsCurrent
<1>5. ~loggedIn /\ passwordEntryActive
  BY <1>3 DEF SessionInv, PasswordEntryIsExclusive, Injecting
<1>6. /\ driver = "fetch" => delivered'.target = FormOrigin(op.facts)
      /\ driver = "playwright" => delivered'.target = Origin(page.doc)
  BY <1>1 DEF InjectFill, InjectPost
<1> QED
  BY <1>4, <1>5, <1>6 DEF Checked, InjectSafe

(* The credentials are handed over only under the selection the agent      *)
(* authorized for the latest snapshot and before login; fetch posts them   *)
(* to the form action it verified, and Playwright types them into the page *)
(* it verified, unless the page itself navigated between the two.          *)
THEOREM DeliveriesAreChecked == Spec => DeliveryIsChecked
<1>1. SessionInv /\ [Next]_vars => [Checked]_vars
  BY StepIsChecked
<1> QED
  BY <1>1, SessionInvariant, PTL DEF Spec, DeliveryIsChecked, Checked

-----------------------------------------------------------------------------
(* Screening, and what is left of a session that was closed or expired.    *)

(* What screening rests on: the adapter ends only after close() was called *)
(* or with the process, the sensitive values are kept until close() is     *)
(* done, and by then nobody waits for the answer to any request.           *)
ScreenInv ==
    /\ ~closed => adapterUp \/ shutdown = "crashed"
    /\ ~closed => shutdown \in {"open", "crashed"}
    /\ shutdown = "crashed" => op = Idle /\ queue = <<>> /\ ~closed
    /\ shutdown \notin {"done", "crashed"} => Credential \in sensitive
    /\ shutdown = "done" => ~ClientWaits

(* Every step of a request but the throw of new URL keeps what the owner's *)
(* close() has come to; each keeps the values it screens for.              *)
LEMMA ServeKeeps ==
    ASSUME Serve
    PROVE  /\ ~BeginMalformed => UNCHANGED <<closed, adapterUp, shutdown>>
           /\ sensitive \subseteq sensitive'
           /\ op # Idle \/ queue # <<>>
<1> USE DEF timeVars, agentVars, targetVars, closeVars, ghostVars
<1>1. ~BeginMalformed => UNCHANGED closeVars
  BY DEF Serve, BeginRequest, Dispatch, RequestFails, SnapshotRead, SnapshotFinish, SelectTargets,
         InjectAdmit, InjectVerify, InjectFill, InjectPost, InjectLands, InjectFinish,
         InjectFails, InjectReset, GotoLoad, GotoFinish, ScreenshotCheck, ScreenshotRecheck,
         ScreenshotCapture
<1>2. sensitive' \in {sensitive, Absorbed}
  BY DEF Serve, BeginRequest, Dispatch, BeginMalformed, RequestFails, SnapshotRead, SnapshotFinish,
         SelectTargets, InjectAdmit, InjectVerify, InjectFill, InjectPost, InjectLands,
         InjectFinish, InjectFails, InjectReset, GotoLoad, GotoFinish, ScreenshotCheck,
         ScreenshotRecheck, ScreenshotCapture
<1>3. queue # <<>> \/ op.step \in Steps \ {"idle"}
  BY DEF Serve, BeginRequest, BeginMalformed, RequestFails, SnapshotRead, SnapshotFinish,
         SelectTargets, InjectAdmit, InjectVerify, InjectFill, InjectPost, InjectLands,
         InjectFinish, InjectFails, InjectReset, GotoLoad, GotoFinish, ScreenshotCheck,
         ScreenshotRecheck, ScreenshotCapture, At, Steps
<1>4. op # Idle \/ queue # <<>>
  BY <1>3 DEF Idle
<1> QED BY <1>1, <1>2, <1>4 DEF Absorbed

(* No step of a request makes a client wait that did not wait before: what *)
(* leaves the queue keeps its client, and no one else joins it.            *)
LEMMA ServeWaits ==
    ASSUME TypeOK, Serve, ~ClientWaits
    PROVE  ~ClientWaits'
<1> USE DEF timeVars, agentVars, targetVars, closeVars, ghostVars
<1>q. queue \in Seq(QueuedType) /\ op \in OpType
  BY DEF TypeOK
<1>i. Idle.gone = FALSE
  BY DEF Idle
<1>1. CASE BeginRequest \/ BeginMalformed
  <2>1. queue # <<>> /\ queue' = Tail(queue)
    BY <1>1 DEF BeginRequest, BeginMalformed, Dispatch
  <2>2. \A i \in DOMAIN queue' : i + 1 \in DOMAIN queue /\ queue'[i] = queue[i + 1]
    BY <1>q, <2>1
  <2>3. Head(queue).gone
    <3>1. 1 \in DOMAIN queue /\ Head(queue) = queue[1]
      BY <1>q, <2>1
    <3> QED BY <3>1 DEF ClientWaits
  <2>4. op' = Idle \/ op'.gone = Head(queue).gone
    <3>1. \A n, g : [Idle EXCEPT !.name = n, !.step = "start", !.gone = g].gone = g
      BY DEF Idle
    <3>2. CASE BeginMalformed
      BY <3>2 DEF BeginMalformed
    <3>3. CASE BeginRequest
      <4>1. \/ op' = Idle
            \/ op' = [Idle EXCEPT !.name = Head(queue).name, !.step = "start",
                                  !.gone = Head(queue).gone]
        BY <3>3 DEF BeginRequest, Dispatch
      <4> QED BY <3>1, <4>1
    <3> QED BY <1>1, <3>2, <3>3
  <2> QED BY <2>2, <2>3, <2>4 DEF ClientWaits
<1>2. CASE ~BeginRequest /\ ~BeginMalformed
  <2>1. UNCHANGED queue
    BY <1>2 DEF Serve, RequestFails, SnapshotRead, SnapshotFinish, SelectTargets,
         InjectAdmit, InjectVerify, InjectFill, InjectPost, InjectLands, InjectFinish,
         InjectFails, InjectReset, GotoLoad, GotoFinish, ScreenshotCheck, ScreenshotRecheck,
         ScreenshotCapture
  <2>2. op # Idle
    <3>1. op.step \in Steps \ {"idle"}
      BY <1>2 DEF Serve, RequestFails, SnapshotRead, SnapshotFinish, SelectTargets,
         InjectAdmit, InjectVerify, InjectFill, InjectPost, InjectLands, InjectFinish,
         InjectFails, InjectReset, GotoLoad, GotoFinish, ScreenshotCheck, ScreenshotRecheck,
         ScreenshotCapture, At, Steps
    <3> QED BY <3>1 DEF Idle
  <2>3. op.gone
    BY <2>2 DEF ClientWaits
  <2>4. op' = Idle \/ op'.gone = op.gone
    <3>1. \A st, f, n :
             /\ [op EXCEPT !.step = st].gone = op.gone
             /\ [op EXCEPT !.step = st, !.facts = f].gone = op.gone
             /\ [op EXCEPT !.step = st, !.facts = f, !.seen = n].gone = op.gone
             /\ [op EXCEPT !.step = st, !.hung = FALSE].gone = op.gone
      BY <1>q DEF OpType
    <3>2. \/ \E ok, seen : Respond(ok, seen)
          \/ \E st : Advance(st)
          \/ \E st, f : op' = [op EXCEPT !.step = st, !.facts = f]
          \/ \E st, f, n : op' = [op EXCEPT !.step = st, !.facts = f, !.seen = n]
          \/ \E st : op' = [op EXCEPT !.step = st, !.hung = FALSE]
      <4>1. CASE RequestFails \/ InjectReset \/ ScreenshotCapture \/ GotoFinish \/ SnapshotFinish
        BY <4>1 DEF RequestFails, InjectReset, ScreenshotCapture, GotoFinish, SnapshotFinish
      <4>2. CASE \E g \in 1..MaxRequests, right \in BOOLEAN : SelectTargets(g, right)
        BY <4>2 DEF SelectTargets
      <4>3. CASE InjectFill \/ InjectPost \/ ScreenshotCheck \/ ScreenshotRecheck
                  \/ \E pinned \in 0..MaxRequests : InjectAdmit(pinned)
        BY <4>3 DEF InjectFill, InjectPost, ScreenshotCheck, ScreenshotRecheck, InjectAdmit
      <4>4. CASE SnapshotRead
        BY <4>4 DEF SnapshotRead
      <4>5. CASE InjectVerify \/ \E d \in Documents : InjectLands(d)
        BY <4>5 DEF InjectVerify, InjectLands
      <4>6. CASE \E d \in Documents : GotoLoad(d)
        BY <4>6 DEF GotoLoad
      <4>7. CASE InjectFinish
        BY <4>7 DEF InjectFinish
      <4>8. CASE InjectFails
        BY <4>8 DEF InjectFails
      <4> QED BY <1>2, <4>1, <4>2, <4>3, <4>4, <4>5, <4>6, <4>7, <4>8 DEF Serve
    <3>3. ASSUME NEW st, op' = [op EXCEPT !.step = st] PROVE op'.gone = op.gone
      BY <3>1, <3>3
    <3>4. ASSUME NEW st, NEW f, op' = [op EXCEPT !.step = st, !.facts = f]
          PROVE  op'.gone = op.gone
      BY <3>1, <3>4
    <3>5. ASSUME NEW st, NEW f, NEW n, op' = [op EXCEPT !.step = st, !.facts = f, !.seen = n]
          PROVE  op'.gone = op.gone
      BY <3>1, <3>5
    <3>6. ASSUME NEW st, op' = [op EXCEPT !.step = st, !.hung = FALSE]
          PROVE  op'.gone = op.gone
      BY <3>1, <3>6
    <3> QED BY <3>2, <3>3, <3>4, <3>5, <3>6 DEF Respond, Advance
  <2> QED BY <2>1, <2>3, <2>4 DEF ClientWaits
<1> QED BY <1>1, <1>2

(* Nor does any step of the environment once the server takes no requests. *)
LEMMA EnvironmentWaits ==
    ASSUME TypeOK, Environment, ~ClientWaits, shutdown = "done"
    PROVE  ~ClientWaits'
<1> USE DEF timeVars, agentVars, targetVars, closeVars, ghostVars
<1>q. queue \in Seq(QueuedType) /\ op \in OpType
  BY DEF TypeOK
<1>1. CASE ServedClientLeaves
  <2>1. UNCHANGED queue
    BY <1>1 DEF ServedClientLeaves
  <2>2. op # Idle /\ ~op.gone
    BY <1>1 DEF ServedClientLeaves
  <2> QED BY <2>2 DEF ClientWaits
<1>2. CASE PageHangs
  <2>1. op # Idle /\ UNCHANGED queue
    BY <1>2 DEF PageHangs, AwaitsPage, Idle
  <2>2. op'.gone = op.gone
    BY <1>2, <1>q DEF PageHangs, OpType
  <2> QED BY <2>1, <2>2 DEF ClientWaits
<1>3. CASE \E i \in DOMAIN queue : QueuedClientLeaves(i)
  BY <1>3 DEF QueuedClientLeaves, ClientWaits
<1>4. CASE UNCHANGED <<op, queue>>
  BY <1>4 DEF ClientWaits
<1>5. ~\E name \in OpNames : Arrive(name)
  BY DEF Arrive
<1>6. Tick \/ (\E d \in Documents : SiteChangesPage(d)) \/ PageRedraws \/ ClientHolds
        \/ CloseCalled \/ AdapterCloses => UNCHANGED <<op, queue>>
  BY DEF Tick, SiteChangesPage, PageRedraws, ClientHolds, CloseCalled, AdapterCloses
<1> QED BY <1>1, <1>2, <1>3, <1>4, <1>5, <1>6 DEF Environment, Usual, Disturbance

(* ScreenInv is inductive.                                                 *)
LEMMA ScreenInductive == TypeOK /\ ScreenInv /\ [Next]_vars => ScreenInv'
<1> SUFFICES ASSUME TypeOK, ScreenInv, [Next]_vars PROVE ScreenInv'
  OBVIOUS
<1> USE DEF timeVars, agentVars, targetVars, closeVars, ghostVars
<1>1. CASE Serve /\ ~BeginMalformed
  <2>1. /\ UNCHANGED <<closed, adapterUp, shutdown>>
        /\ sensitive \subseteq sensitive' /\ (op # Idle \/ queue # <<>>)
    BY <1>1, ServeKeeps
  <2>2. shutdown = "done" => ~ClientWaits'
    BY <1>1, ServeWaits DEF ScreenInv
  <2> QED BY <2>1, <2>2 DEF ScreenInv
<1>2. CASE BeginMalformed
  <2>1. shutdown = "open" /\ Credential \in sensitive /\ queue # <<>> /\ ~closed
    BY <1>2 DEF BeginMalformed, ScreenInv
  <2>2. op' = Idle /\ closed' = closed /\ sensitive' = sensitive /\ queue' = Tail(queue)
    BY <1>2 DEF BeginMalformed
  <2>3. \/ UNCHANGED <<shutdown, adapterUp>>
        \/ shutdown' = "crashed" /\ Tail(queue) = <<>>
    BY <1>2 DEF BeginMalformed
  <2> QED BY <2>1, <2>2, <2>3 DEF ScreenInv
<1>3. CASE CloseAdapterSettles
  BY <1>3 DEF CloseAdapterSettles, ScreenInv
<1>4. CASE CloseHttpFinishes
  <2>1. ~ClientWaits'
    BY <1>4 DEF CloseHttpFinishes, ClientWaits
  <2> QED BY <1>4, <2>1 DEF CloseHttpFinishes, ScreenInv
<1>5. CASE Environment
  <2>1. UNCHANGED sensitive
    BY <1>5 DEF Environment, Usual, Disturbance, Arrive, Tick, SiteChangesPage, PageRedraws, PageHangs,
                ClientHolds, ServedClientLeaves, QueuedClientLeaves, CloseCalled, AdapterCloses
  <2>2. CASE CloseCalled
    BY <2>1, <2>2 DEF CloseCalled, ScreenInv
  <2>3. CASE AdapterCloses
    <3>1. ~ClientWaits => ~ClientWaits'
      BY <2>3 DEF AdapterCloses, ClientWaits
    <3> QED BY <2>1, <2>3, <3>1 DEF AdapterCloses, ScreenInv
  <2>4. CASE ~CloseCalled /\ ~AdapterCloses
    <3>1. UNCHANGED closeVars
      BY <1>5, <2>4 DEF Environment, Usual, Disturbance, Arrive, Tick, SiteChangesPage, PageRedraws, PageHangs,
                ClientHolds, ServedClientLeaves, QueuedClientLeaves
    <3>2. shutdown = "done" => ~ClientWaits'
      BY <1>5, EnvironmentWaits DEF ScreenInv
    <3>3. shutdown = "crashed" => op' = Idle /\ queue' = <<>>
      <4> SUFFICES ASSUME shutdown = "crashed" PROVE op' = Idle /\ queue' = <<>>
        OBVIOUS
      <4>1. op = Idle /\ queue = <<>>
        BY DEF ScreenInv
      <4>2. op.step = "idle"
        BY <4>1 DEF Idle
      <4> QED
        BY <1>5, <2>4, <4>1, <4>2 DEF Environment, Usual, Disturbance, Arrive, Tick, SiteChangesPage, PageRedraws,
           PageHangs, AwaitsPage, ClientHolds, ServedClientLeaves, QueuedClientLeaves
    <3> QED BY <2>1, <3>1, <3>2, <3>3 DEF ScreenInv
  <2> QED BY <2>2, <2>3, <2>4
<1>6. CASE UNCHANGED vars
  <2>1. UNCHANGED <<closed, adapterUp, shutdown, sensitive, op, queue>>
    BY <1>6 DEF vars
  <2> QED BY <2>1 DEF ScreenInv, ClientWaits
<1> QED
  BY <1>1, <1>2, <1>3, <1>4, <1>5, <1>6 DEF Next, Shutdown

(* The sensitive values outlive every exchange, whenever close() is called. *)
THEOREM ScreenInvariant == Spec => []ScreenInv
<1>1. Init => ScreenInv
  BY DEF Init, ScreenInv, Credential
<1>2. SessionInv => TypeOK
  BY DEF SessionInv
<1> QED BY <1>1, <1>2, SessionInvariant, ScreenInductive, PTL DEF Spec

(* A request that goes on is not answered.                                 *)
LEMMA NotIdle ==
    ASSUME NEW o \in OpType, NEW st, st # "idle", NEW d, NEW n
    PROVE  /\ [o EXCEPT !.step = st] # Idle
           /\ [o EXCEPT !.step = st, !.facts = d] # Idle
           /\ [o EXCEPT !.step = st, !.facts = d, !.seen = n] # Idle
           /\ [o EXCEPT !.step = st, !.hung = FALSE] # Idle
<1>1. Idle.step = "idle"
  BY DEF Idle
<1>2. [o EXCEPT !.step = st].step = st
  BY DEF OpType
<1>3. [o EXCEPT !.step = st, !.facts = d].step = st
  BY DEF OpType
<1>4. [o EXCEPT !.step = st, !.facts = d, !.seen = n].step = st
  BY DEF OpType
<1>5. [o EXCEPT !.step = st, !.hung = FALSE].step = st
  BY DEF OpType
<1> QED BY <1>1, <1>2, <1>3, <1>4, <1>5

\* The step formulas of the two parts of ResponsesAreScreened.
KeepsCredential == WritesOk => Credential \in sensitive'

KeepsCookie ==
    WritesOk /\ ~closed /\ reply'.seen # 0 /\ reply'.seen = cookie'
        => reply'.seen \in sensitive'

(* A response is written by a step of the request, and page data by one    *)
(* that has just absorbed the cookies.                                     *)
LEMMA StepIsScreened ==
    TypeOK /\ ScreenInv /\ [Next]_vars => KeepsCredential /\ KeepsCookie
<1> SUFFICES ASSUME TypeOK, ScreenInv, [Next]_vars, WritesOk
             PROVE  /\ Credential \in sensitive'
                    /\ ~closed /\ reply'.seen # 0 /\ reply'.seen = cookie' =>
                          reply'.seen \in sensitive'
  BY DEF KeepsCredential, KeepsCookie
<1> USE DEF timeVars, agentVars, targetVars, closeVars, ghostVars
<1>1. op # Idle /\ op' = Idle /\ op' # op /\ ~op.gone /\ reply'.ok
  BY DEF WritesOk
<1>2. Serve
  <2>1. ~PageHangs
    <3>1. PageHangs => op'.hung
      BY DEF PageHangs, TypeOK, OpType
    <3> QED BY <1>1, <3>1 DEF Idle
  <2>2. ~ServedClientLeaves
    <3>1. ServedClientLeaves => op'.gone
      BY DEF ServedClientLeaves, TypeOK, OpType
    <3> QED BY <1>1, <3>1 DEF Idle
  <2> QED
    BY <1>1, <2>1, <2>2 DEF Next, Shutdown, Environment, Usual, Disturbance, vars, Arrive, Tick, SiteChangesPage,
              CloseCalled, AdapterCloses, CloseAdapterSettles, CloseHttpFinishes,
              PageRedraws, ClientHolds, QueuedClientLeaves
<1>3. Credential \in sensitive'
  <2>1. shutdown \notin {"done", "crashed"}
    BY <1>1 DEF ScreenInv, ClientWaits
  <2> QED BY <1>2, <2>1, ServeKeeps DEF ScreenInv
<1>4. ASSUME ~closed, reply'.seen # 0, reply'.seen = cookie'
      PROVE  reply'.seen \in sensitive'
  <2>1. adapterUp
    BY <1>1, <1>4 DEF ScreenInv
  <2>2. SnapshotFinish \/ GotoFinish
    <3>1. ASSUME NEW ok, Respond(ok, 0) PROVE FALSE
      BY <1>1, <1>4, <3>1 DEF Respond, Answer
    <3>2. ~BeginRequest /\ ~BeginMalformed
      BY <1>1 DEF BeginRequest, BeginMalformed
    <3>3. /\ ~RequestFails /\ ~InjectReset /\ ~ScreenshotCapture
          /\ ~\E g \in 1..MaxRequests, right \in BOOLEAN : SelectTargets(g, right)
      BY <3>1 DEF RequestFails, InjectReset, ScreenshotCapture, SelectTargets
    <3>4. /\ ~SnapshotRead /\ ~InjectVerify /\ ~InjectFill /\ ~InjectPost /\ ~InjectFails
          /\ ~ScreenshotCheck /\ ~ScreenshotRecheck
          /\ ~\E pinned \in 0..MaxRequests : InjectAdmit(pinned)
      <4>1. ASSUME NEW st, Advance(st), st # "idle" PROVE FALSE
        BY <1>1, <4>1, NotIdle DEF Advance, TypeOK
      <4>2. op' # [op EXCEPT !.step = "absorb", !.facts = page.doc, !.seen = cookie]
        <5>1. ASSUME NEW st, st # "idle", NEW d, NEW n
              PROVE  [op EXCEPT !.step = st, !.facts = d, !.seen = n] # Idle
          <6>1. op \in OpType
            BY DEF TypeOK
          <6> QED BY <5>1, <6>1, NotIdle
        <5>2. "absorb" # "idle"
          OBVIOUS
        <5> QED BY <1>1, <5>1, <5>2
      <4>3. op' # [op EXCEPT !.step = "fill", !.facts = page.doc]
        BY <1>1, NotIdle DEF TypeOK
      <4>4. op' # [op EXCEPT !.step = "reset", !.hung = FALSE]
        BY <1>1, NotIdle DEF TypeOK
      <4> QED BY <4>1, <4>2, <4>3, <4>4 DEF SnapshotRead, InjectVerify, InjectFill, InjectPost,
                            InjectFails, ScreenshotCheck, ScreenshotRecheck, InjectAdmit
    <3>5. /\ ~\E d \in Documents : InjectLands(d)
          /\ ~\E d \in Documents : GotoLoad(d)
      <4>1. ASSUME NEW d, op' = [op EXCEPT !.step = "landed", !.facts = d] PROVE FALSE
        BY <1>1, <4>1, NotIdle DEF TypeOK
      <4>2. ASSUME NEW d, NEW st \in {"load", "absorb"}, NEW n,
                   op' = [op EXCEPT !.step = st, !.facts = d, !.seen = n]
            PROVE  FALSE
        <5>1. op \in OpType /\ st # "idle"
          BY DEF TypeOK
        <5>2. [op EXCEPT !.step = st, !.facts = d, !.seen = n] # Idle
          BY <5>1, NotIdle
        <5> QED BY <1>1, <4>2, <5>2
      <4>3. \A d \in Documents :
               GotoLoad(d) => \E st \in {"load", "absorb"} :
                    op' = [op EXCEPT !.step = st, !.facts = d, !.seen = cookie']
        BY DEF GotoLoad
      <4> QED BY <4>1, <4>2, <4>3 DEF InjectLands
    <3>6. ~InjectFinish
      <4>1. ~Respond(TRUE, 0)
        BY <3>1
      <4>2. ~Advance("reset")
        BY <1>1, NotIdle DEF Advance, TypeOK
      <4> QED BY <4>1, <4>2 DEF InjectFinish
    <3> QED BY <1>2, <3>2, <3>3, <3>4, <3>5, <3>6 DEF Serve
  <2>3. sensitive' = Absorbed /\ cookie' = cookie
    BY <2>2 DEF SnapshotFinish, GotoFinish
  <2> QED BY <1>4, <2>1, <2>3 DEF Absorbed
<1> QED BY <1>3, <1>4

(* No 200 response leaves without the credentials and the cookie of its    *)
(* page among the values it was screened for, whenever close() is called.  *)
THEOREM EveryResponseIsScreened == Spec => ResponsesAreScreened
<1>1. SessionInv => TypeOK
  BY DEF SessionInv
<1>2. SessionInv /\ ScreenInv /\ [Next]_vars => [KeepsCredential]_vars /\ [KeepsCookie]_vars
  BY <1>1, StepIsScreened
<1>3. Spec => CredentialsAlwaysScreened
  BY <1>2, SessionInvariant, ScreenInvariant, PTL
  DEF Spec, CredentialsAlwaysScreened, KeepsCredential
<1>4. Spec => LiveCookieScreened
  BY <1>2, SessionInvariant, ScreenInvariant, PTL
  DEF Spec, LiveCookieScreened, KeepsCookie
<1> QED BY <1>3, <1>4 DEF ResponsesAreScreened

\* The step formula of ClosedSessionIsInert.
StaysInert ==
    closed /\ op = Idle =>
        /\ op' = Idle
        /\ reply' # reply => ~reply'.ok
        /\ UNCHANGED <<loggedIn, generation, authorized, delivered, shot>>

(* With no request in flight a closed session only refuses.                *)
LEMMA StepIsInert == [Next]_vars => StaysInert
<1> SUFFICES ASSUME [Next]_vars, closed, op = Idle
             PROVE  /\ op' = Idle
                    /\ reply' # reply => ~reply'.ok
                    /\ UNCHANGED <<loggedIn, generation, authorized, delivered, shot>>
  BY DEF StaysInert
<1> USE DEF timeVars, agentVars, targetVars, closeVars, ghostVars
<1>i. op.step = "idle" /\ op = Idle
  BY DEF Idle
<1>1. CASE Serve
  <2>1. BeginRequest
    BY <1>1, <1>i DEF Serve, RequestFails, SnapshotRead, SnapshotFinish, SelectTargets,
         InjectAdmit, InjectVerify, InjectFill, InjectPost, InjectLands, InjectFinish,
         InjectFails, InjectReset, GotoLoad, GotoFinish, ScreenshotCheck, ScreenshotRecheck,
         ScreenshotCapture, At, BeginMalformed
  <2>2. op' = Idle /\ Answer(Head(queue).gone, FALSE, 0)
    BY <2>1 DEF BeginRequest, Dispatch
  <2> QED BY <2>1, <2>2 DEF BeginRequest, Dispatch, Answer
<1>2. CASE ~Serve
  <2>1. UNCHANGED <<op, reply, loggedIn, generation, authorized, delivered, shot>>
    BY <1>2, <1>i DEF Next, Shutdown, Environment, Usual, Disturbance, vars, Arrive, Tick, SiteChangesPage,
              CloseCalled, AdapterCloses, CloseAdapterSettles, CloseHttpFinishes,
              PageRedraws, PageHangs, AwaitsPage, ClientHolds, ServedClientLeaves,
              QueuedClientLeaves
  <2> QED BY <1>i, <2>1
<1> QED BY <1>1, <1>2

(* A closed session refuses what was queued, and neither logs in, nor      *)
(* authorizes, nor delivers, nor takes a picture again.                    *)
THEOREM ClosedSessionsAreInert == Spec => ClosedSessionIsInert
<1>1. [Next]_vars => [StaysInert]_vars
  BY StepIsInert
<1> QED BY <1>1, PTL DEF Spec, ClosedSessionIsInert, StaysInert

\* The step formula of ExpiryIsFinal.
StaysExpired == Expired => Expired'

(* The clock does not run back, and only an accepted request is a use.     *)
LEMMA StepKeepsExpiry == TypeOK /\ [Next]_vars => StaysExpired
<1> SUFFICES ASSUME TypeOK, [Next]_vars, Expired
             PROVE  Expired'
  BY DEF StaysExpired
<1> USE DEF timeVars, agentVars, targetVars, closeVars, ghostVars
<1>1. /\ now \in Nat /\ lastUsedAt \in Nat /\ SessionTtl \in Nat /\ IdleTtl \in Nat
  BY BoundsAssumption DEF TypeOK
<1>2. lastUsedAt' = lastUsedAt /\ now' \in {now, now + 1}
  <2>1. CASE BeginRequest
    BY <2>1 DEF BeginRequest, Dispatch
  <2>2. CASE Tick
    BY <2>2 DEF Tick
  <2>3. CASE ~BeginRequest /\ ~Tick
    <3>1. ~BeginMalformed
      BY DEF BeginMalformed
    <3>2. UNCHANGED timeVars
      BY <2>3, <3>1 DEF Next, Serve, Shutdown, Environment, Usual, Disturbance, vars, Arrive, SiteChangesPage,
         CloseCalled, AdapterCloses, CloseAdapterSettles, CloseHttpFinishes,
         PageRedraws, PageHangs, ClientHolds, ServedClientLeaves, QueuedClientLeaves,
         RequestFails, SnapshotRead, SnapshotFinish, SelectTargets,
         InjectAdmit, InjectVerify, InjectFill, InjectPost, InjectLands, InjectFinish,
         InjectFails, InjectReset, GotoLoad, GotoFinish, ScreenshotCheck, ScreenshotRecheck,
         ScreenshotCapture
    <3> QED BY <3>2
  <2> QED BY <2>1, <2>2, <2>3
<1>3. now > SessionTtl \/ now - lastUsedAt > IdleTtl
  BY DEF Expired
<1>4. now' > SessionTtl \/ now' - lastUsedAt' > IdleTtl
  <2>1. CASE now' = now
    BY <1>1, <1>2, <1>3, <2>1
  <2>2. CASE now' = now + 1
    BY <1>1, <1>2, <1>3, <2>2
  <2> QED BY <1>2, <2>1, <2>2
<1> QED BY <1>4 DEF Expired

(* A session that has expired is never revived, by no request in any order. *)
THEOREM ExpiredSessionsStayExpired == Spec => ExpiryIsFinal
<1>1. SessionInv /\ [Next]_vars => [StaysExpired]_vars
  BY StepKeepsExpiry DEF SessionInv
<1> QED BY <1>1, SessionInvariant, PTL DEF Spec, ExpiryIsFinal, StaysExpired
=============================================================================
