--------------------- MODULE OwnedBrowserAdmissionProofs ---------------------
(***************************************************************************)
(* Proofs about the admission counter of Bridge-owned browsers, for every  *)
(* number of concurrent starts and every limit.                            *)
(***************************************************************************)
EXTENDS OwnedBrowserAdmission, FiniteSetTheorems, TLAPS

(* The holders of a slot are a finite set, no larger than Sessions.        *)
LEMMA HoldersFinite ==
    /\ IsFiniteSet(Holders)
    /\ Cardinality(Holders) \in 0..Cardinality(Sessions)
<1>1. Holders \in SUBSET Sessions
  BY DEF Holders
<1>2. /\ IsFiniteSet(Holders)
      /\ Cardinality(Holders) <= Cardinality(Sessions)
  BY <1>1, FS_Subset, SessionsAssumption
<1>3. Cardinality(Holders) \in Nat /\ Cardinality(Sessions) \in Nat
  BY <1>2, FS_CardinalityType, SessionsAssumption
<1> QED
  BY <1>2, <1>3

(* A step between two phases that agree on holding a slot keeps the set    *)
(* of holders.                                                             *)
LEMMA HoldersKept ==
    ASSUME AdmissionTypeOK, NEW s \in Sessions, NEW p \in Phases, Goto(s, p),
           phase[s] \in Reserved <=> p \in Reserved
    PROVE  Holders' = Holders
BY DEF AdmissionTypeOK, Goto, Holders

(* The synchronous reservation before the first await adds one holder.     *)
LEMMA HolderAdded ==
    ASSUME AdmissionTypeOK, NEW s \in Sessions, NEW p \in Phases, Goto(s, p),
           phase[s] \notin Reserved, p \in Reserved
    PROVE  Cardinality(Holders') = Cardinality(Holders) + 1
<1>1. Holders' = Holders \cup {s}
  BY DEF AdmissionTypeOK, Goto, Holders
<1>2. s \notin Holders
  BY DEF Holders
<1> QED
  BY <1>1, <1>2, HoldersFinite, FS_AddElement

(* A failure path or the end of close() removes one holder, and the        *)
(* counter it decrements is positive: Math.max never hides a double        *)
(* release.                                                                *)
LEMMA HolderReleased ==
    ASSUME AdmissionTypeOK, AdmissionExact,
           NEW s \in Sessions, NEW p \in Phases, Goto(s, p),
           phase[s] \in Reserved, p \notin Reserved
    PROVE  /\ Cardinality(Holders') = Cardinality(Holders) - 1
           /\ ReleaseSlot = activeSessions - 1
           /\ activeSessions > 0
<1>1. Holders' = Holders \ {s}
  BY DEF AdmissionTypeOK, Goto, Holders
<1>2. s \in Holders
  BY DEF Holders
<1>3. Cardinality(Holders') = Cardinality(Holders) - 1
  BY <1>1, <1>2, HoldersFinite, FS_RemoveElement
<1>4. Cardinality(Holders) # 0
  BY <1>2, HoldersFinite, FS_EmptySet
<1> QED
  BY <1>3, <1>4, HoldersFinite DEF AdmissionExact, ReleaseSlot

(* AdmissionInv is inductive: one case per action.                         *)
LEMMA AdmissionInductive ==
    AdmissionInv /\ [AdmissionNext]_admissionVars => AdmissionInv'
<1> SUFFICES ASSUME AdmissionInv, [AdmissionNext]_admissionVars
             PROVE  AdmissionInv'
  OBVIOUS
<1> USE DEF AdmissionInv
<1>t. Cardinality(Sessions) \in Nat /\ MaxBrowsers \in Nat \ {0}
  BY FS_CardinalityType, SessionsAssumption, MaxBrowsersAssumption
<1>h. Cardinality(Holders) \in 0..Cardinality(Sessions)
  BY HoldersFinite
<1>1. CASE UNCHANGED admissionVars
  BY <1>1 DEF admissionVars, AdmissionTypeOK, AdmissionExact, Holders
<1>2. ASSUME NEW s \in Sessions,
             \/ StartSite(s) \/ Close(s) \/ AdapterGone(s) \/ ConnectionHeld(s)
             \/ Continue(s)
      PROVE  AdmissionInv'
  \* A step that keeps the holders and the counter keeps the counting facts.
  <2>a. ASSUME Holders' = Holders, UNCHANGED activeSessions
        PROVE  AdmissionExact' /\ activeSessions' \in 0..Cardinality(Sessions)
               /\ activeSessions' <= MaxBrowsers
    BY <2>a DEF AdmissionExact, AdmissionTypeOK
  <2>1. CASE StartSite(s)
    <3>1. Holders' = Holders
      BY <2>1, HoldersKept DEF StartSite, Phases, Reserved
    <3> QED
      BY <2>1, <3>1, <2>a DEF StartSite, Goto, AdmissionTypeOK, Phases
  <2>2. CASE Close(s)
    <3>1. Holders' = Holders
      BY <2>2, HoldersKept DEF Close, Phases, Reserved
    <3> QED
      BY <2>2, <3>1, <2>a DEF Close, BeginAdapterClose, Goto, AdmissionTypeOK, Phases
  <2>3. CASE AdapterGone(s)
    <3>1. Holders' = Holders
      BY <2>3 DEF AdapterGone, Holders
    <3> QED
      BY <2>3, <3>1, <2>a DEF AdapterGone, AdmissionTypeOK
  <2>4. CASE RefuseConcurrent(s)
    <3>1. Holders' = Holders
      BY <2>4, HoldersKept DEF RefuseConcurrent, Phases, Reserved
    <3> QED
      BY <2>4, <3>1, <2>a DEF RefuseConcurrent, Goto, AdmissionTypeOK, Phases
  <2>5. CASE RefuseInvalid(s)
    <3>1. Holders' = Holders
      BY <2>5, HoldersKept DEF RefuseInvalid, Phases, Reserved
    <3> QED
      BY <2>5, <3>1, <2>a DEF RefuseInvalid, Goto, AdmissionTypeOK, Phases
  <2>6. CASE ReserveAndLaunch(s)
    <3>1. Cardinality(Holders') = Cardinality(Holders) + 1
      BY <2>6, HolderAdded DEF ReserveAndLaunch, Phases, Reserved
    <3>2. Cardinality(Holders') \in 0..Cardinality(Sessions)
      BY <2>6, <1>t, HoldersFinite, FS_Subset, SessionsAssumption,
         FS_CardinalityType DEF Holders
    <3>3. AdmissionExact' /\ activeSessions' \in 0..Cardinality(Sessions)
          /\ activeSessions' <= MaxBrowsers
      BY <2>6, <1>t, <3>1, <3>2 DEF ReserveAndLaunch, AdmissionExact, AdmissionTypeOK
    <3> QED
      BY <2>6, <3>3 DEF ReserveAndLaunch, Goto, AdmissionTypeOK, Phases
  <2>7. CASE ReserveWithoutLaunch(s)
    <3>1. Cardinality(Holders') = Cardinality(Holders) + 1
      BY <2>7, HolderAdded DEF ReserveWithoutLaunch, Phases, Reserved
    <3>2. Cardinality(Holders') \in 0..Cardinality(Sessions)
      BY <2>7, <1>t, HoldersFinite, FS_Subset, SessionsAssumption,
         FS_CardinalityType DEF Holders
    <3>3. AdmissionExact' /\ activeSessions' \in 0..Cardinality(Sessions)
          /\ activeSessions' <= MaxBrowsers
      BY <2>7, <1>t, <3>1, <3>2 DEF ReserveWithoutLaunch, AdmissionExact, AdmissionTypeOK
    <3> QED
      BY <2>7, <3>3 DEF ReserveWithoutLaunch, Goto, AdmissionTypeOK, Phases
  <2>8. CASE LaunchSucceeds(s)
    <3>1. Holders' = Holders
      BY <2>8, HoldersKept DEF LaunchSucceeds, Phases, Reserved
    <3> QED
      BY <2>8, <3>1, <2>a DEF LaunchSucceeds, Goto, AdmissionTypeOK, Phases
  <2>9. CASE LaunchFails(s)
    <3>1. /\ Cardinality(Holders') = Cardinality(Holders) - 1
          /\ ReleaseSlot = activeSessions - 1 /\ activeSessions > 0
      BY <2>9, HolderReleased DEF LaunchFails, Phases, Reserved
    <3>2. AdmissionExact' /\ activeSessions' \in 0..Cardinality(Sessions)
          /\ activeSessions' <= MaxBrowsers
      BY <2>9, <1>t, <1>h, <3>1 DEF LaunchFails, AdmissionExact, AdmissionTypeOK
    <3> QED
      BY <2>9, <3>2 DEF LaunchFails, Goto, AdmissionTypeOK, Phases
  <2>10. CASE BindSucceeds(s)
    <3>1. Holders' = Holders
      BY <2>10, HoldersKept DEF BindSucceeds, Phases, Reserved
    <3> QED
      BY <2>10, <3>1, <2>a DEF BindSucceeds, Goto, AdmissionTypeOK, Phases
  <2>11. CASE BindFails(s)
    <3>1. /\ Cardinality(Holders') = Cardinality(Holders) - 1
          /\ ReleaseSlot = activeSessions - 1 /\ activeSessions > 0
      BY <2>11, HolderReleased DEF BindFails, Phases, Reserved
    <3>2. AdmissionExact' /\ activeSessions' \in 0..Cardinality(Sessions)
          /\ activeSessions' <= MaxBrowsers
      BY <2>11, <1>t, <1>h, <3>1 DEF BindFails, AdmissionExact, AdmissionTypeOK
    <3> QED
      BY <2>11, <3>2 DEF BindFails, BeginAdapterClose, Goto, AdmissionTypeOK, Phases
  <2>12. CASE BindFailureSettles(s)
    <3>1. Holders' = Holders
      BY <2>12, HoldersKept DEF BindFailureSettles, Phases, Reserved
    <3> QED
      BY <2>12, <3>1, <2>a DEF BindFailureSettles, Goto, AdmissionTypeOK, Phases
  <2>13. CASE AdapterCloseSettles(s)
    <3>1. Holders' = Holders
      BY <2>13, HoldersKept DEF AdapterCloseSettles, Phases, Reserved
    <3> QED
      BY <2>13, <3>1, <2>a DEF AdapterCloseSettles, Goto, AdmissionTypeOK, Phases
  <2>14. CASE CloseHttpDone(s)
    <3>1. /\ Cardinality(Holders') = Cardinality(Holders) - 1
          /\ ReleaseSlot = activeSessions - 1 /\ activeSessions > 0
      BY <2>14, HolderReleased DEF CloseHttpDone, Phases, Reserved
    <3>2. AdmissionExact' /\ activeSessions' \in 0..Cardinality(Sessions)
          /\ activeSessions' <= MaxBrowsers
      BY <2>14, <1>t, <1>h, <3>1 DEF CloseHttpDone, AdmissionExact, AdmissionTypeOK
    <3> QED
      BY <2>14, <3>2 DEF CloseHttpDone, Goto, AdmissionTypeOK, Phases
  <2>15. CASE WrapperClosesSite(s)
    <3>1. Holders' = Holders
      BY <2>15, HoldersKept DEF WrapperClosesSite, Phases, Reserved
    <3> QED
      BY <2>15, <3>1, <2>a DEF WrapperClosesSite, Goto, AdmissionTypeOK, Phases
  <2>16. CASE FailedStartClosesSite(s)
    <3>1. Holders' = Holders
      BY <2>16 DEF FailedStartClosesSite, Holders
    <3> QED
      BY <2>16, <3>1, <2>a DEF FailedStartClosesSite, AdmissionTypeOK
  <2>17. CASE NoAddress(s)
    <3>1. /\ Cardinality(Holders') = Cardinality(Holders) - 1
          /\ ReleaseSlot = activeSessions - 1 /\ activeSessions > 0
      BY <2>17, HolderReleased DEF NoAddress, Phases, Reserved
    <3>2. AdmissionExact' /\ activeSessions' \in 0..Cardinality(Sessions)
          /\ activeSessions' <= MaxBrowsers
      BY <2>17, <1>t, <1>h, <3>1 DEF NoAddress, AdmissionExact, AdmissionTypeOK
    <3> QED
      BY <2>17, <3>2 DEF NoAddress, BeginAdapterClose, Goto, AdmissionTypeOK, Phases
  <2>18. CASE NoAddressAdapterSettles(s)
    <3>1. Holders' = Holders
      BY <2>18, HoldersKept DEF NoAddressAdapterSettles, Phases, Reserved
    <3> QED
      BY <2>18, <3>1, <2>a DEF NoAddressAdapterSettles, Goto, AdmissionTypeOK, Phases
  <2>19. CASE NoAddressHttpDone(s)
    <3>1. Holders' = Holders
      BY <2>19, HoldersKept DEF NoAddressHttpDone, Phases, Reserved
    <3> QED
      BY <2>19, <3>1, <2>a DEF NoAddressHttpDone, Goto, AdmissionTypeOK, Phases
  <2>20. CASE ConnectionHeld(s)
    <3>1. Holders' = Holders
      BY <2>20 DEF ConnectionHeld, Holders
    <3> QED
      BY <2>20, <3>1, <2>a DEF ConnectionHeld, AdmissionTypeOK
  <2> QED
    BY <1>2, <2>1, <2>2, <2>3, <2>4, <2>5, <2>6, <2>7, <2>8, <2>9, <2>10, <2>11, <2>12,
       <2>13, <2>14, <2>15, <2>16, <2>17, <2>18, <2>19, <2>20 DEF Continue
<1> QED
  BY <1>1, <1>2 DEF AdmissionNext

(* The initial state has no holder and no listener.                        *)
LEMMA AdmissionInitially == AdmissionInit => AdmissionInv
<1> SUFFICES ASSUME AdmissionInit PROVE AdmissionInv
  OBVIOUS
<1>1. Holders = {}
  BY DEF AdmissionInit, Holders, Reserved
<1>2. Cardinality(Holders) = 0 /\ Cardinality(Sessions) \in Nat
  BY <1>1, FS_EmptySet, FS_CardinalityType, SessionsAssumption
<1> QED
  BY <1>2, MaxBrowsersAssumption
  DEF AdmissionInit, AdmissionInv, AdmissionTypeOK, AdmissionExact, Phases

(* The inductive invariant holds in every reachable state.                 *)
THEOREM AdmissionInvariant == AdmissionSpec => []AdmissionInv
BY AdmissionInitially, AdmissionInductive, PTL DEF AdmissionSpec

(* The counter is exact for any number of concurrent starts and closes: no *)
(* path of startBridgeOwnedBrowser or close() leaks or double-frees a slot. *)
THEOREM AdmissionIsExact == AdmissionSpec => []AdmissionExact
<1>1. AdmissionInv => AdmissionExact
  BY DEF AdmissionInv
<1> QED
  BY <1>1, AdmissionInvariant, PTL

(* At most MAX_BRIDGE_OWNED_BROWSERS agent surfaces answer at any time.    *)
THEOREM AgentSurfacesBounded == AdmissionSpec => []ListenersBounded
<1>1. AdmissionInv => ListenersBounded
  <2> SUFFICES ASSUME AdmissionInv PROVE ListenersBounded
    OBVIOUS
  <2>1. Answering \in SUBSET Holders
    BY DEF Answering, Holders
  <2>2. Cardinality(Answering) <= Cardinality(Holders) /\ IsFiniteSet(Answering)
    BY <2>1, HoldersFinite, FS_Subset
  <2>3. Cardinality(Answering) \in Nat
    BY <2>2, FS_CardinalityType
  <2> QED
    BY <2>2, <2>3, HoldersFinite, MaxBrowsersAssumption
    DEF AdmissionInv, AdmissionExact, ListenersBounded
<1> QED
  BY <1>1, AdmissionInvariant, PTL
=============================================================================
