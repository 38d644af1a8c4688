----------------------- MODULE WindowsOperatorProofs -----------------------
(***************************************************************************)
(* Proofs about the Windows operator: its Day-2 session for any number of  *)
(* waiting ticks, the live tests of the service for any runs that compete  *)
(* for its name, and the evidence cycle whoever changes the host           *)
(* meanwhile.                                                              *)
(***************************************************************************)
EXTENDS Day2Operator, ServiceLifecycle, BoundaryEvidence, SequenceTheorems, TLAPS

-----------------------------------------------------------------------------
(* The Day-2 session.                                                      *)

(* The session starts without a bridge, a loop or a helper copy.           *)
LEMMA Day2Initially == Init => Day2Inv
<1> SUFFICES ASSUME Init PROVE Day2Inv
  OBVIOUS
<1>1. pending \in 0..MaxPending /\ orphans \in Nat /\ refused \in 0..MaxRefused
  BY MaxPendingAssumption, MaxRefusedAssumption DEF Init
<1>2. TypeOK
  BY <1>1, Zenon DEF Init, TypeOK, MainSteps, TickSteps
<1> QED
  BY <1>2 DEF Init, Day2Inv, NothingAfterStop, NoOrphanBridge,
              BridgeMatchesSnapshot

(* Day2Inv is inductive: one case per action.                              *)
LEMMA Day2Inductive == Day2Inv /\ [Next]_vars => Day2Inv'
<1> SUFFICES ASSUME Day2Inv, [Next]_vars
             PROVE  Day2Inv'
  OBVIOUS
<1> USE MaxPendingAssumption, MaxRefusedAssumption
    DEF Day2Inv, TypeOK, NothingAfterStop, NoOrphanBridge,
        BridgeMatchesSnapshot, Alive, MainSteps, TickSteps, ChainDone,
        sessionVars, refreshVars, bridgeVars
<1>0. CASE UNCHANGED vars
  BY <1>0 DEF vars
<1>1. ASSUME NEW ready \in BOOLEAN, Bootstrap(ready)
       PROVE  Day2Inv'
  <2>1. tempDir' \in {"none", "made", "broken", "left"} /\ cycleReady' \in BOOLEAN
    BY <1>1 DEF Bootstrap, Cycle, HelperDir
  <2>2. main' \in {"bridge", "apply", "catch"} /\ (main' = "bridge" => cycleReady')
    BY <1>1 DEF Bootstrap, Cycle
  <2> QED
    BY <1>1, <2>1, <2>2 DEF Bootstrap
<1>2. ASSUME NEW ready \in BOOLEAN, ApplyAndCollect(ready)
       PROVE  Day2Inv'
  <2>1. /\ hostReady' \in BOOLEAN /\ cycleReady' \in BOOLEAN
        /\ tempDir' \in {"none", "made", "broken", "left"}
    BY <1>2 DEF ApplyAndCollect, HelperDir
  <2>2. main' \in {"bridge", "catch"} /\ (main' = "bridge" => cycleReady')
    BY <1>2 DEF ApplyAndCollect
  <2> QED
    BY <1>2, <2>1, <2>2 DEF ApplyAndCollect
<1>3. CASE FirstBridge
  BY <1>3 DEF FirstBridge, AssignBridge
<1>4. CASE StartRefresh
  <2>1. pending' \in 0..MaxPending
    BY <1>4 DEF StartRefresh
  <2>2. /\ refresh' = "on" /\ main' = "settle" /\ tick' = "none" /\ stop' = "no"
        /\ UNCHANGED <<hostReady, cycleReady, snapshotReady, bridge, orphans,
                       refused, client, tempDir, process>>
    BY <1>4 DEF StartRefresh
  <2>3. bridge = "ready" /\ snapshotReady
    BY <1>4 DEF StartRefresh
  <2> QED
    BY <2>1, <2>2, <2>3
<1>5. CASE SessionOpens
  BY <1>5 DEF SessionOpens
<1>6. CASE StartThrows
  BY <1>6 DEF StartThrows
<1>7. CASE CatchEnds
  <2>1. /\ bridge' = "null" /\ client' = "none" /\ orphans' = refused'
        /\ orphans' \in Nat /\ refused' \in 0..MaxRefused
    BY <1>7 DEF CatchEnds, BridgeCloses
  <2>2. /\ tempDir' \in {"none", "left"}
        /\ main = "catch" /\ main' = "failed"
        /\ UNCHANGED <<hostReady, stop, refresh, pending, tick, cycleReady,
                       snapshotReady, process>>
    BY <1>7 DEF CatchEnds, DisposeCollectors
  <2> QED
    BY <1>7, <2>1, <2>2 DEF CatchEnds
<1>8. CASE TickBegins
  BY <1>8 DEF TickBegins
<1>9. CASE \E ready \in BOOLEAN : TickCollected(ready)
  <2>1. tempDir' \in {"none", "made", "broken", "left"} /\ cycleReady' \in BOOLEAN
    BY <1>9 DEF TickCollected, Cycle, HelperDir
  <2> QED
    BY <1>9, <2>1 DEF TickCollected, Cycle
<1>10. CASE TickClosesBridge
  <2>1. /\ bridge' = "null" /\ client' = "none" /\ orphans' = refused'
        /\ orphans' \in Nat /\ refused' \in 0..MaxRefused
    BY <1>10 DEF TickClosesBridge, BridgeCloses
  <2> QED
    BY <1>10, <2>1 DEF TickClosesBridge
<1>11. CASE TickStartsBridge
  BY <1>11 DEF TickStartsBridge, AssignBridge
<1>12. CASE TickFails
  BY <1>12 DEF TickFails, ProcessEnds
<1>13. CASE IntervalFires
  BY <1>13 DEF IntervalFires
<1>14. CASE Stop
  BY <1>14 DEF Stop
<1>15. CASE StopChainDone
  BY <1>15 DEF StopChainDone
<1>16. CASE StopEnds
  <2>1. /\ bridge' = "null" /\ client' = "none" /\ orphans' = refused'
        /\ orphans' \in Nat /\ refused' \in 0..MaxRefused
    BY <1>16 DEF StopEnds, BridgeCloses
  <2>2. /\ tempDir' \in {"none", "left"}
        /\ stop = "closing" /\ stop' = "stopped"
        /\ UNCHANGED <<hostReady, main, refresh, pending, tick, cycleReady,
                       snapshotReady, process>>
    BY <1>16 DEF StopEnds, DisposeCollectors
  <2> QED
    BY <1>16, <2>1, <2>2 DEF StopEnds
<1>17. CASE HostChanges
  BY <1>17 DEF HostChanges
<1>18. CASE RunnerExits
  BY <1>18 DEF RunnerExits, ProcessEnds
<1>19. CASE ClientHolds
  BY <1>19 DEF ClientHolds
<1>20. CASE ClientLeaves
  BY <1>20 DEF ClientLeaves
<1> HIDE DEF Day2Inv
<1> QED
  BY <1>0, <1>1, <1>2, <1>3, <1>4, <1>5, <1>6, <1>7, <1>8, <1>9, <1>10,
     <1>11, <1>12, <1>13, <1>14, <1>15, <1>16, <1>17, <1>18, <1>19, <1>20
  DEF Next, Start, Tick, Stopping

(* The inductive invariant holds in every reachable state.                 *)
THEOREM Day2Invariant == Spec => []Day2Inv
BY Day2Initially, Day2Inductive, PTL DEF Spec

(* Whatever tick a stop() or a failed start meets, nothing outlives it but *)
(* what refused to go: the parts of a bridge whose own close() rejected,   *)
(* and a directory that dispose() could not remove.  No bridge was lost    *)
(* and no directory made behind the back of the last dispose().            *)
THEOREM NothingOutlivesStop == Spec => []NothingAfterStop
<1>1. Day2Inv => NothingAfterStop
  BY DEF Day2Inv
<1> QED
  BY <1>1, Day2Invariant, PTL

(* Replacing the bridge never loses one.                                   *)
THEOREM BridgesAreNeverOrphaned == Spec => []NoOrphanBridge
<1>1. Day2Inv => NoOrphanBridge
  BY DEF Day2Inv
<1> QED
  BY <1>1, Day2Invariant, PTL

(* Between two ticks the bridge never claims more than the last snapshot.  *)
THEOREM BridgeFollowsSnapshot == Spec => []BridgeMatchesSnapshot
<1>1. Day2Inv => BridgeMatchesSnapshot
  BY DEF Day2Inv
<1> QED
  BY <1>1, Day2Invariant, PTL

-----------------------------------------------------------------------------
(* The live tests of the service and its persistent setup.                 *)

(* How a step of a live test is logged.                                    *)
Statuses == {"verified", "failed", "skipped_not_owned", "skipped_not_started"}

(* An entry of the log of a live test.                                     *)
Event == [step : Nat, status : Statuses]

\* The event of a denial that was seen.
Denial == [step |-> 21, status |-> "verified"]

(* The log holds the denial.                                               *)
HasDenial(ev) == \E i \in DOMAIN ev : ev[i] = Denial

\* The service has a state of the host, and an absent one is nobody's.
ServiceOK(s) ==
    /\ s \in [by : Runs \cup {"persistent", "nobody"},
              st : {"absent", "stopped", "running", "pending", "leaving"}]
    /\ s.st = "absent" => s.by = "nobody"

\* A collector whose outcome says that the denial was seen has logged it.
CollectorOK(c) ==
    /\ c = [at |-> c.at, events |-> c.events, owned |-> c.owned,
            handle |-> c.handle, terminal |-> c.terminal]
    /\ c.events \in Seq(Event)
    /\ c.terminal = "denial_verified" => HasDenial(c.events)

\* Where a collector stands that has tried to delete its service.
PastDelete == {"binary_off", "root_off", "absence", "write", "written"}

\* A collector knows of the service it created; one that has seen no failure
\* since its deletion has the service marked at least; one that has reached its
\* end reports what it left, but for what the failing query hid.
Residue(r, c) ==
    /\ service.by = r => c.at = "dead" \/ "service" \in c.owned
    /\ c.at \in PastDelete /\ service.by = r =>
          c.terminal = "cleanup_failed" \/ service.st \in {"pending", "leaving"}
    /\ c.at \in {"write", "written"} /\ Left(r) =>
          c.terminal = "cleanup_failed" \/ Hidden(r)

\* A live test leaves nothing before its first mutation; a caller believes only
\* an end that was reached.
RunOK(r) ==
    /\ CollectorOK(col[r])
    /\ col[r].at \in {"off", "preflight"} => ~Left(r)
    /\ Residue(r, col[r])
    /\ node[r] = "idle" => col[r].at = "off"
    /\ node[r] = "verified" =>
          col[r].at = "written" /\ col[r].terminal = "denial_verified"

(* What the caller of a live test knows of it.                             *)
Verdicts == {"idle", "waiting", "verified", "unverified", "rejected", "timeout"}

(* The inductive invariant: whose the service is, what each collector has  *)
(* logged and left, and what its caller believes.                          *)
LifecycleInv ==
    /\ ServiceOK(service)
    /\ col = [r \in Runs |-> col[r]] /\ node \in [Runs -> Verdicts]
    /\ \A r \in Runs : RunOK(r)

-----------------------------------------------------------------------------
(* Transcripts grow and keep what they hold.                               *)

(* A log that grows keeps the denial it holds.                             *)
LEMMA LongerKeepsDenial ==
    ASSUME NEW ev \in Seq(Event), NEW more \in Seq(Event)
    PROVE  /\ ev \o more \in Seq(Event)
           /\ HasDenial(ev) => HasDenial(ev \o more)
           /\ HasDenial(more) => HasDenial(ev \o more)
<1>1. /\ ev \o more \in Seq(Event) /\ Len(ev \o more) = Len(ev) + Len(more)
      /\ \A i \in 1..Len(ev \o more) :
            (ev \o more)[i] = IF i <= Len(ev) THEN ev[i] ELSE more[i - Len(ev)]
  BY ConcatProperties
<1>2. DOMAIN ev = 1..Len(ev) /\ DOMAIN more = 1..Len(more)
      /\ DOMAIN (ev \o more) = 1..Len(ev \o more)
      /\ Len(ev) \in Nat /\ Len(more) \in Nat
  BY <1>1, LenProperties
<1>3. ASSUME NEW i \in DOMAIN ev, ev[i] = Denial
      PROVE  HasDenial(ev \o more)
  <2>1. i \in DOMAIN (ev \o more) /\ (ev \o more)[i] = Denial
    BY <1>1, <1>2, <1>3
  <2> QED
    BY <2>1 DEF HasDenial
<1>4. ASSUME NEW i \in DOMAIN more, more[i] = Denial
      PROVE  HasDenial(ev \o more)
  <2>1. Len(ev) + i \in DOMAIN (ev \o more) /\ (ev \o more)[Len(ev) + i] = Denial
    BY <1>1, <1>2, <1>4
  <2> QED
    BY <2>1 DEF HasDenial
<1> QED
  BY <1>1, <1>3, <1>4 DEF HasDenial

(* A batch of steps makes a log of events, keeps the denial, and holds it  *)
(* when the last denial step succeeded.                                    *)
LEMMA LogKeeps ==
    ASSUME NEW ev \in Seq(Event), NEW from \in Nat \ {0}, NEW to \in Nat, from <= to,
           NEW ok \in BOOLEAN
    PROVE  /\ Log(ev, from, to, ok) \in Seq(Event)
           /\ HasDenial(ev) => HasDenial(Log(ev, from, to, ok))
           /\ ok /\ from = 20 /\ to = 21 => HasDenial(Log(ev, from, to, ok))
<1> DEFINE n == to - from + 1
           more == [i \in 1..n |->
              [step |-> from + i - 1,
               status |-> IF ok \/ from + i - 1 < to THEN "verified" ELSE "failed"]]
<1>1. n \in Nat
  OBVIOUS
<1>2. ASSUME NEW i \in 1..n PROVE more[i] \in Event
  BY <1>1 DEF Event, Statuses
<1>3. more \in Seq(Event) /\ DOMAIN more = 1..n
  <2>1. more \in [1..n -> Event]
    BY <1>2
  <2> QED
    <3> HIDE DEF more, n
    <3>1. more \in UNION {[1..k -> Event] : k \in Nat}
      BY <1>1, <2>1
    <3> QED
      BY <2>1, <3>1, SeqDef
<1>4. ok /\ from = 20 /\ to = 21 => HasDenial(more)
  <2> SUFFICES ASSUME ok, from = 20, to = 21 PROVE HasDenial(more)
    OBVIOUS
  <2>1. 2 \in DOMAIN more /\ more[2] = Denial
    BY DEF Denial
  <2> QED
    BY <2>1 DEF HasDenial
<1> HIDE DEF more
<1>5. Log(ev, from, to, ok) = ev \o more
  BY DEF Log, more
<1> QED
  BY <1>3, <1>4, <1>5, LongerKeepsDenial

(* What Advanced and CleanupTried make of a collector.                           *)
LEMMA AdvanceIs ==
    ASSUME LifecycleInv, NEW r \in Runs, NEW from, NEW to, NEW ok, NEW next
    PROVE  Advanced(r, from, to, ok, next) =
              [at |-> IF ok THEN next ELSE "stop",
               events |-> Log(col[r].events, from, to, ok),
               owned |-> col[r].owned, handle |-> col[r].handle,
               terminal |-> col[r].terminal]
<1>1. CollectorOK(col[r])
  BY DEF LifecycleInv, RunOK
<1>2. PICK c : c = Advanced(r, from, to, ok, next)
  OBVIOUS
<1>3. c = [at |-> IF ok THEN next ELSE "stop",
           events |-> Log(col[r].events, from, to, ok),
           owned |-> col[r].owned, handle |-> col[r].handle,
           terminal |-> col[r].terminal]
  BY <1>1, <1>2 DEF Advanced, CollectorOK
<1> QED
  BY <1>2, <1>3

(* The collector after a cleanup step: two more entries, the next stage,   *)
(* and the failure if there was one.                                       *)
LEMMA CleanedIs ==
    ASSUME LifecycleInv, NEW r \in Runs, NEW step \in Nat,
           NEW first \in Statuses, NEW second \in Statuses, NEW next
    PROVE  \E c : /\ c = CleanupTried(r, step, first, second, next)
                  /\ CollectorOK(c) /\ c.at = next
                  /\ c = [at |-> next, events |-> c.events, owned |-> col[r].owned,
                          handle |-> col[r].handle,
                          terminal |-> IF "failed" \in {first, second}
                                          THEN "cleanup_failed" ELSE col[r].terminal]
<1> DEFINE more == <<[step |-> step, status |-> first],
                     [step |-> step + 1, status |-> second]>>
<1>1. CollectorOK(col[r])
  BY DEF LifecycleInv, RunOK
<1>2. more \in Seq(Event)
  BY DEF Event
<1>3. PICK c : c = CleanupTried(r, step, first, second, next)
  OBVIOUS
<1>4. PICK ev : ev = col[r].events \o more
  OBVIOUS
<1>5. ev \in Seq(Event) /\ (HasDenial(col[r].events) => HasDenial(ev))
  BY <1>1, <1>2, <1>4, LongerKeepsDenial DEF CollectorOK
<1>6. c = [at |-> next, events |-> ev, owned |-> col[r].owned,
           handle |-> col[r].handle,
           terminal |-> IF "failed" \in {first, second} THEN "cleanup_failed"
                                                         ELSE col[r].terminal]
  BY <1>1, <1>3, <1>4 DEF CleanupTried, CollectorOK
<1>7. CollectorOK(c)
  BY <1>1, <1>5, <1>6 DEF CollectorOK
<1> QED
  BY <1>3, <1>6, <1>7

-----------------------------------------------------------------------------
(* What the steps do, and that it keeps the invariant.                     *)

\* The step gives no service to run x, and takes no mark for deletion from its.
KeepsMark(x) ==
    service'.by = x => /\ service.by = x
                       /\ service.st = "pending" => service'.st = "pending"
                       /\ service.st = "leaving" => service'.st \in {"pending", "leaving"}

\* The step leaves nothing more behind than there was, for runs in R.
LeavesNoMore(R) ==
    /\ cim # "up" => cim' # "up"
    /\ \A x \in R : files' \cap Of(x) \subseteq files /\ KeepsMark(x)

(* What a run that has ended left behind stays as it is or goes away.      *)
LEMMA ResidueStays ==
    ASSUME NEW R, LeavesNoMore(R), NEW x \in R, NEW c, Residue(x, c)
    PROVE  Residue(x, c)' /\ (Left(x)' => Left(x))
<1>1. files' \cap Of(x) \subseteq files \cap Of(x) /\ KeepsMark(x)
  BY DEF LeavesNoMore
<1>2. Left(x)' => Left(x)
  BY <1>1 DEF Left, KeepsMark, Of
<1>3. Left(x)' /\ Hidden(x) => Hidden(x)'
  BY <1>1 DEF Left, Hidden, KeepsMark, LeavesNoMore, Of
<1> QED
  BY <1>1, <1>2, <1>3 DEF Residue, KeepsMark

(* A step of one collector.                                                *)
LEMMA CollectorMoves ==
    ASSUME LifecycleInv, NEW r \in Runs, NEW c, CollectorOK(c),
           col' = [col EXCEPT ![r] = c], node' = node,
           ServiceOK(service)', LeavesNoMore(Runs \ {r}),
           col[r].at \notin {"off", "written"},
           c.at \notin {"off", "preflight"},
           Residue(r, c)'
    PROVE  LifecycleInv'
<1>1. /\ col' = [x \in Runs |-> col'[x]] /\ node' \in [Runs -> Verdicts]
      /\ \A x \in Runs : col'[x] = IF x = r THEN c ELSE col[x]
  BY DEF LifecycleInv
<1>2. node[r] \notin {"idle", "verified"}
  BY DEF LifecycleInv, RunOK
<1>3. ASSUME NEW x \in Runs PROVE RunOK(x)'
  <2>1. CASE x = r
    <3>1. CollectorOK(col[r])' /\ Residue(r, col[r])'
      BY <1>1 DEF CollectorOK, Residue
    <3> QED
      BY <1>1, <1>2, <2>1, <3>1 DEF RunOK
  <2>2. CASE x # r
    <3>1. RunOK(x) /\ col'[x] = col[x]
      BY <1>1, <2>2 DEF LifecycleInv
    <3>2. CollectorOK(col[x])'
      BY <3>1 DEF RunOK, CollectorOK
    <3>3. PICK d : d = col[x]
      OBVIOUS
    <3>4. Residue(x, d)' /\ (Left(x)' => Left(x))
      BY <2>2, <3>1, <3>3, ResidueStays DEF RunOK
    <3>5. Residue(x, col[x])'
      BY <3>1, <3>3, <3>4 DEF Residue
    <3> QED
      BY <3>1, <3>2, <3>4, <3>5 DEF RunOK
  <2> QED
    BY <2>1, <2>2
<1> QED
  BY <1>1, <1>3 DEF LifecycleInv

(* A step of a caller: the collector of the run stays, or begins.          *)
LEMMA CallerMoves ==
    ASSUME LifecycleInv, NEW r \in Runs, NEW v \in Verdicts \ {"idle"},
           node' = [node EXCEPT ![r] = v],
           UNCHANGED <<service, files, cim, col>>,
           v = "verified" => col[r].at = "written" /\ col[r].terminal = "denial_verified"
    PROVE  LifecycleInv'
<1>1. /\ node' \in [Runs -> Verdicts]
      /\ \A x \in Runs : node'[x] = IF x = r THEN v ELSE node[x]
  BY DEF LifecycleInv
<1>2. ASSUME NEW x \in Runs PROVE RunOK(x)'
  <2>1. RunOK(x)
    BY DEF LifecycleInv
  <2>2. Left(x)' <=> Left(x)
    BY DEF Left, Of
  <2>3. CollectorOK(col[x])' /\ Residue(x, col[x])'
    BY <2>1 DEF RunOK, CollectorOK, Residue, Left, Hidden, Of
  <2> QED
    BY <1>1, <2>1, <2>2, <2>3 DEF RunOK
<1> QED
  BY <1>1, <1>2 DEF LifecycleInv, ServiceOK

(* A step of the persistent setup, or of the host.                         *)
LEMMA SetupMoves ==
    ASSUME LifecycleInv, UNCHANGED <<col, node>>, ServiceOK(service)',
           LeavesNoMore(Runs)
    PROVE  LifecycleInv'
<1>1. ASSUME NEW x \in Runs PROVE RunOK(x)'
  <2>1. RunOK(x)
    BY DEF LifecycleInv
  <2>2. PICK d : d = col[x]
    OBVIOUS
  <2>3. Residue(x, d)' /\ (Left(x)' => Left(x))
    BY <2>1, <2>2, ResidueStays DEF RunOK
  <2>4. CollectorOK(col[x])' /\ Residue(x, col[x])'
    BY <2>1, <2>2, <2>3 DEF RunOK, CollectorOK, Residue
  <2> QED
    BY <2>1, <2>3, <2>4 DEF RunOK
<1> QED
  BY <1>1 DEF LifecycleInv

\* What becomes of a service that is stopped or deleted: it stays whose it was,
\* and marked if it was, or is nobody's.
Fades(s, t) ==
    /\ ServiceOK(t)
    /\ t.by # "nobody" =>
          /\ t.by = s.by
          /\ s.st = "pending" => t.st = "pending"
          /\ s.st = "leaving" => t.st \in {"pending", "leaving"}

(* Less on the files, and a service that fades or is the persistent one.     *)
LEMMA ShrinkingLeavesNoMore ==
    ASSUME Fades(service, service') \/ service'.by = "persistent",
           cim # "up" => cim' # "up",
           \A x \in Runs : files' \cap Of(x) \subseteq files
    PROVE  LeavesNoMore(Runs)
BY LifecycleAssumption DEF LeavesNoMore, KeepsMark, Fades

(* The services of two owners are different ones.                          *)
LEMMA OwnersAreApart ==
    \A x, y : x # y => Of(x) \cap Of(y) = {}
BY DEF Of

(* The absent service is nobody's.                                         *)
LEMMA NoService == ServiceOK(None) /\ None.by = "nobody"
BY DEF ServiceOK, None

\* What a stop and a deletion make of a service.
LEMMA FadingServices ==
    ASSUME NEW s, ServiceOK(s)
    PROVE  /\ Fades(s, s) /\ Fades(s, None) /\ Fades(s, Halted(s))
           /\ Exists(s) => Fades(s, Marked(s)) /\ Fades(s, Marked(Halted(s)))
           /\ Halted(s).by = s.by
<1>1. s = [by |-> s.by, st |-> s.st]
  BY DEF ServiceOK
<1>2. Fades(s, s) /\ Fades(s, None)
  BY NoService DEF Fades, ServiceOK
<1>3. PICK h : h = Halted(s)
  OBVIOUS
<1>4. /\ h = [by |-> s.by, st |-> h.st]
      /\ h.st = CASE s.st = "running" -> "stopped"
                  [] s.st = "leaving" -> "pending"
                  [] OTHER -> s.st
  BY <1>1, <1>3 DEF Halted
<1>5. ServiceOK(h) /\ Fades(s, h) /\ (Exists(s) => Exists(h))
  BY <1>1, <1>4 DEF ServiceOK, Fades, Exists
<1>6. ASSUME NEW t, ServiceOK(t), Exists(t), t.by = s.by,
             s.st \in {"pending", "leaving"} => t.st \in {"pending", "leaving"},
             s.st = "pending" => t.st = "pending"
      PROVE  Fades(s, Marked(t))
  <2>1. PICK m : m = Marked(t)
    OBVIOUS
  <2>2. m = [by |-> t.by, st |-> IF Running(t) THEN "leaving" ELSE "pending"]
    BY <2>1, <1>6 DEF Marked, ServiceOK
  <2>3. ServiceOK(m) /\ Fades(s, m)
    BY <2>2, <1>6 DEF ServiceOK, Fades, Running, Exists
  <2> QED
    BY <2>1, <2>3
<1>7. Exists(s) => Fades(s, Marked(s))
  BY <1>6
<1>8. Exists(s) => Fades(s, Marked(h))
  BY <1>4, <1>5, <1>6 DEF Fades
<1> QED
  BY <1>2, <1>3, <1>4, <1>5, <1>7, <1>8

(* The services DeleteService, sc stop and sc delete may leave.            *)
LEMMA DeletedService ==
    ASSUME ServiceOK(service), NEW to \in Deletions \cup AfterStop
    PROVE  Fades(service, to)
<1>1. CASE to \in Deletions
  <2>1. to = service \/ to = None \/ (Exists(service) /\ to = Marked(service))
    BY <1>1 DEF Deletions, Running, Exists
  <2> QED
    BY <2>1, FadingServices
<1>2. CASE to \in AfterStop
  <2>1. \/ to = Halted(service) \/ to = None
        \/ Exists(service) /\ to = Marked(Halted(service))
    BY <1>2 DEF AfterStop
  <2> QED
    BY <2>1, FadingServices
<1> QED
  BY <1>1, <1>2

(* The mutations of a live test.                                           *)
LEMMA LoggedOK ==
    ASSUME LifecycleInv, NEW r \in Runs, NEW from \in Nat \ {0}, NEW to \in Nat,
           from <= to, NEW ok \in BOOLEAN
    PROVE  /\ Log(col[r].events, from, to, ok) \in Seq(Event)
           /\ HasDenial(col[r].events) => HasDenial(Log(col[r].events, from, to, ok))
           /\ ok /\ from = 20 /\ to = 21 => HasDenial(Log(col[r].events, from, to, ok))
<1>1. col[r].events \in Seq(Event)
  BY DEF LifecycleInv, RunOK, CollectorOK
<1> QED
  BY <1>1, LogKeeps

(* A preflight step changes only its collector.                            *)
LEMMA PreflightKeeps ==
    ASSUME LifecycleInv, NEW r \in Runs, NEW ok \in BOOLEAN, NEW to \in 1..4,
           PreflightProbes(r, to, ok)
    PROVE  LifecycleInv'
<1> DEFINE ev == Log(col[r].events, 1, to, ok)
<1>1. RunOK(r) /\ col[r].at = "preflight"
  BY DEF LifecycleInv, PreflightProbes
<1>2. ev \in Seq(Event) /\ (HasDenial(col[r].events) => HasDenial(ev))
  <2>1. 1 \in Nat \ {0} /\ to \in Nat /\ 1 <= to
    OBVIOUS
  <2> QED
    BY <2>1, LoggedOK
<1>3. PICK a : a = Advanced(r, 1, to, ok, "root")
  OBVIOUS
<1>4. a = [at |-> IF ok THEN "root" ELSE "stop", events |-> ev,
           owned |-> col[r].owned, handle |-> col[r].handle,
           terminal |-> col[r].terminal]
  BY <1>3, AdvanceIs
<1>5. PICK c : c = [a EXCEPT !.at = IF ok THEN "root" ELSE "write",
                             !.terminal = IF ok THEN "mutation_failed" ELSE @]
  OBVIOUS
<1> HIDE DEF ev
<1>6. c = [at |-> IF ok THEN "root" ELSE "write", events |-> ev,
           owned |-> col[r].owned, handle |-> col[r].handle,
           terminal |-> IF ok THEN "mutation_failed" ELSE col[r].terminal]
  BY <1>4, <1>5
<1>7. CollectorOK(c)
  BY <1>1, <1>2, <1>6 DEF CollectorOK, RunOK
<1>8. col' = [col EXCEPT ![r] = c] /\ UNCHANGED <<service, files, cim, node>>
  BY <1>3, <1>5 DEF PreflightProbes
<1>9. /\ \A x \in Runs : Left(x)' <=> Left(x)
      /\ ServiceOK(service)' /\ LeavesNoMore(Runs \ {r})
  BY <1>8 DEF Left, Of, LifecycleInv, ServiceOK, LeavesNoMore, KeepsMark
<1>10. ~Left(r)'
  BY <1>1, <1>9 DEF RunOK
<1>11. c.at \in {"root", "write"}
  BY <1>6
<1>12. Residue(r, c)'
  BY <1>10 DEF Residue, Left
<1> QED
  BY <1>1, <1>7, <1>8, <1>9, <1>11, <1>12, CollectorMoves

(* What the mutations put on the host is theirs.                           *)
LEMMA CreatingLeavesNoMore ==
    ASSUME NEW r \in Runs, service' = service \/ service'.by = r, cim' = cim,
           NEW made \in SUBSET Of(r), files' = files \cup made
    PROVE  LeavesNoMore(Runs \ {r})
<1>1. ASSUME NEW x \in Runs \ {r} PROVE files' \cap Of(x) = files \cap Of(x)
  BY OwnersAreApart
<1> QED
  BY <1>1 DEF LeavesNoMore, KeepsMark

\* Where a mutation leads.
MutationStages == {"binary", "service", "configure", "start", "deny", "stop"}

(* A mutation that leaves the other runs' services alone keeps the         *)
(* invariant.                                                              *)
LEMMA MutationKeeps ==
    ASSUME LifecycleInv, NEW r \in Runs, NEW c, CollectorOK(c), c.at \in MutationStages,
           col' = [col EXCEPT ![r] = c], node' = node,
           col[r].at \notin {"off", "written"},
           service'.by = r => "service" \in c.owned,
           ServiceOK(service)', LeavesNoMore(Runs \ {r})
    PROVE  LifecycleInv'
<1>1. Residue(r, c)'
  BY DEF Residue, MutationStages, PastDelete
<1> QED
  BY <1>1, CollectorMoves DEF MutationStages

(* The mutations of a live test, whether they succeed or fail.             *)
LEMMA MutationsKeep ==
    ASSUME LifecycleInv, NEW r \in Runs, NEW ok \in BOOLEAN,
           \/ \E to \in 5..6 : CreateRoot(r, to, ok)
           \/ \E to \in 7..10 : CreateBinary(r, to, ok)
           \/ \E to \in 11..12, made \in BOOLEAN : CreateService(r, to, ok, made)
           \/ \E to \in 13..18 : Configure(r, to, ok)
           \/ StartService(r, ok)
           \/ \E to \in 20..21 : DenialProbes(r, to, ok)
    PROVE  LifecycleInv'
<1>s. ServiceOK(service) /\ r # "nobody" /\ r # "persistent" /\ CollectorOK(col[r])
  BY LifecycleAssumption DEF LifecycleInv, RunOK
<1>o. col[r].at # "dead" /\ service.by = r => "service" \in col[r].owned
  BY DEF LifecycleInv, RunOK, Residue
<1>u. service' = service => ServiceOK(service)'
  BY <1>s DEF ServiceOK
<1>e. ASSUME service' = service \/ service'.by = r, files' = files, cim' = cim
      PROVE  LeavesNoMore(Runs \ {r})
  BY <1>e DEF LeavesNoMore, KeepsMark, Of
<1>1. ASSUME NEW to \in 5..6, CreateRoot(r, to, ok) PROVE LifecycleInv'
  <2>0. 5 \in Nat \ {0} /\ to \in Nat /\ 5 <= to
    OBVIOUS
  <2>1. PICK ev : ev = Log(col[r].events, 5, to, ok)
    OBVIOUS
  <2>2. ev \in Seq(Event) /\ (HasDenial(col[r].events) => HasDenial(ev))
    BY <2>0, <2>1, LoggedOK
  <2>3. PICK a : a = Advanced(r, 5, to, ok, "binary")
    OBVIOUS
  <2>4. a = [at |-> IF ok THEN "binary" ELSE "stop", events |-> ev,
             owned |-> col[r].owned, handle |-> col[r].handle,
             terminal |-> col[r].terminal]
    BY <2>1, <2>3, AdvanceIs
  <2>5. PICK more : more = IF ok \/ to = 6 THEN {"root"} ELSE {}
    OBVIOUS
  <2>6. PICK c : c = [a EXCEPT !.owned = @ \cup more]
    OBVIOUS
  <2>7. c.at = a.at /\ CollectorOK(c) /\ col[r].owned \subseteq c.owned
    BY <2>2, <2>4, <2>6, <1>s DEF CollectorOK
  <2>8. col' = [col EXCEPT ![r] = c] /\ service' = service /\ node' = node
        /\ cim' = cim /\ col[r].at = "root"
    BY <1>1, <2>3, <2>5, <2>6 DEF CreateRoot
  <2>9. LeavesNoMore(Runs \ {r})
    <3>1. PICK made : made = IF ok \/ to = 6 THEN {<<r, "root">>} ELSE {}
      OBVIOUS
    <3>2. made \in SUBSET Of(r) /\ files' = files \cup made
      BY <1>1, <3>1 DEF CreateRoot, Of
    <3> QED
      BY <2>8, <3>2, CreatingLeavesNoMore
  <2>10. c.at \in MutationStages
    BY <2>4, <2>7 DEF MutationStages
  <2> QED
    BY <2>7, <2>8, <2>9, <2>10, <1>o, <1>u, MutationKeeps
<1>2. ASSUME NEW to \in 7..10, CreateBinary(r, to, ok) PROVE LifecycleInv'
  <2>0. 7 \in Nat \ {0} /\ to \in Nat /\ 7 <= to
    OBVIOUS
  <2>1. PICK ev : ev = Log(col[r].events, 7, to, ok)
    OBVIOUS
  <2>2. ev \in Seq(Event) /\ (HasDenial(col[r].events) => HasDenial(ev))
    BY <2>0, <2>1, LoggedOK
  <2>3. PICK a : a = Advanced(r, 7, to, ok, "service")
    OBVIOUS
  <2>4. a = [at |-> IF ok THEN "service" ELSE "stop", events |-> ev,
             owned |-> col[r].owned, handle |-> col[r].handle,
             terminal |-> col[r].terminal]
    BY <2>1, <2>3, AdvanceIs
  <2>5. PICK more : more = IF ok \/ to > 7 THEN {"binary"} ELSE {}
    OBVIOUS
  <2>6. PICK c : c = [a EXCEPT !.owned = @ \cup more]
    OBVIOUS
  <2>7. c.at = a.at /\ CollectorOK(c) /\ col[r].owned \subseteq c.owned
    BY <2>2, <2>4, <2>6, <1>s DEF CollectorOK
  <2>8. col' = [col EXCEPT ![r] = c] /\ service' = service /\ node' = node
        /\ cim' = cim /\ col[r].at = "binary"
    BY <1>2, <2>3, <2>5, <2>6 DEF CreateBinary
  <2>9. LeavesNoMore(Runs \ {r})
    <3>1. PICK made : made = IF ok \/ to > 7 THEN {<<r, "binary">>} ELSE {}
      OBVIOUS
    <3>2. made \in SUBSET Of(r) /\ files' = files \cup made
      BY <1>2, <3>1 DEF CreateBinary, Of
    <3> QED
      BY <2>8, <3>2, CreatingLeavesNoMore
  <2>10. c.at \in MutationStages
    BY <2>4, <2>7 DEF MutationStages
  <2> QED
    BY <2>7, <2>8, <2>9, <2>10, <1>o, <1>u, MutationKeeps
<1>3. ASSUME NEW to \in 11..12, NEW made \in BOOLEAN, CreateService(r, to, ok, made)
      PROVE  LifecycleInv'
  <2>0. 11 \in Nat \ {0} /\ to \in Nat /\ 11 <= to
    OBVIOUS
  <2>1. PICK ev : ev = Log(col[r].events, 11, to, ok)
    OBVIOUS
  <2>2. ev \in Seq(Event) /\ (HasDenial(col[r].events) => HasDenial(ev))
    BY <2>0, <2>1, LoggedOK
  <2>3. PICK a : a = Advanced(r, 11, to, ok, "configure")
    OBVIOUS
  <2>4. a = [at |-> IF ok THEN "configure" ELSE "stop", events |-> ev,
             owned |-> col[r].owned, handle |-> col[r].handle,
             terminal |-> col[r].terminal]
    BY <2>1, <2>3, AdvanceIs
  <2>5. PICK more : more = IF made THEN {"service"} ELSE {}
    OBVIOUS
  <2>6. PICK h \in BOOLEAN : col' = [col EXCEPT ![r] =
             [a EXCEPT !.owned = @ \cup more, !.handle = h]]
    BY <1>3, <2>3, <2>5, Zenon DEF CreateService
  <2>7. PICK c : c = [a EXCEPT !.owned = @ \cup more, !.handle = h]
    OBVIOUS
  <2>8. c.at = a.at /\ CollectorOK(c) /\ c.owned = col[r].owned \cup more
    <3>1. c = [at |-> a.at, events |-> ev, owned |-> col[r].owned \cup more,
               handle |-> h, terminal |-> col[r].terminal]
      BY <2>4, <2>7
    <3> QED
      BY <2>2, <3>1, <1>s DEF CollectorOK
  <2>9. /\ service' = IF made THEN [by |-> r, st |-> "stopped"] ELSE service
        /\ files' = files /\ cim' = cim /\ node' = node /\ col[r].at = "service"
    BY <1>3, Zenon DEF CreateService
  <2>10. ServiceOK(service)' /\ (service'.by = r => "service" \in c.owned)
    BY <1>s, <1>o, <2>5, <2>8, <2>9 DEF ServiceOK
  <2>11. c.at \in MutationStages
    BY <2>4, <2>8 DEF MutationStages
  <2> QED
    BY <2>6, <2>7, <2>8, <2>9, <2>10, <2>11, <1>e, MutationKeeps
<1>4. ASSUME NEW to \in 13..18, Configure(r, to, ok) PROVE LifecycleInv'
  <2>0. 13 \in Nat \ {0} /\ to \in Nat /\ 13 <= to
    OBVIOUS
  <2>1. PICK ev : ev = Log(col[r].events, 13, to, ok)
    OBVIOUS
  <2>2. ev \in Seq(Event) /\ (HasDenial(col[r].events) => HasDenial(ev))
    BY <2>0, <2>1, LoggedOK
  <2>3. PICK a : a = Advanced(r, 13, to, ok, "start")
    OBVIOUS
  <2>4. a = [at |-> IF ok THEN "start" ELSE "stop", events |-> ev,
             owned |-> col[r].owned, handle |-> col[r].handle,
             terminal |-> col[r].terminal]
    BY <2>1, <2>3, AdvanceIs
  <2>5. CollectorOK(a) /\ a.at \in MutationStages /\ a.owned = col[r].owned
    BY <2>2, <2>4, <1>s DEF CollectorOK, MutationStages
  <2>6. col' = [col EXCEPT ![r] = a] /\ UNCHANGED <<service, files, cim, node>>
        /\ col[r].at = "configure"
    BY <1>4, <2>3 DEF Configure
  <2> QED
    BY <2>5, <2>6, <1>o, <1>u, <1>e, MutationKeeps
<1>5. ASSUME NEW to, to = 19, StartService(r, ok) PROVE LifecycleInv'
  <2>0. 19 \in Nat \ {0} /\ to \in Nat /\ 19 <= to
    BY <1>5
  <2>1. PICK ev : ev = Log(col[r].events, 19, to, ok)
    OBVIOUS
  <2>2. ev \in Seq(Event) /\ (HasDenial(col[r].events) => HasDenial(ev))
    BY <2>0, <2>1, LoggedOK
  <2>3. PICK a : a = Advanced(r, 19, to, ok, "deny")
    OBVIOUS
  <2>4. a = [at |-> IF ok THEN "deny" ELSE "stop", events |-> ev,
             owned |-> col[r].owned, handle |-> col[r].handle,
             terminal |-> col[r].terminal]
    BY <2>1, <2>3, AdvanceIs
  <2>5. PICK c : c = [a EXCEPT !.owned = @ \cup {"start"}]
    OBVIOUS
  <2>6. c.at = a.at /\ CollectorOK(c) /\ col[r].owned \subseteq c.owned
    BY <2>2, <2>4, <2>5, <1>s DEF CollectorOK
  <2>7. /\ col' = [col EXCEPT ![r] = c] /\ files' = files /\ node' = node
        /\ col[r].at = "start" /\ (ok => service.by = r) /\ cim' = cim
        /\ service' = IF ok THEN [service EXCEPT !.st = "running"] ELSE service
    BY <1>5, <2>3, <2>5 DEF StartService
  <2>8. ServiceOK(service)' /\ service'.by = service.by
    BY <1>s, <2>7 DEF ServiceOK
  <2>9. c.at \in MutationStages
    BY <2>4, <2>6 DEF MutationStages
  <2> QED
    BY <2>6, <2>7, <2>8, <2>9, <1>e, <1>o, MutationKeeps
<1>6. ASSUME NEW to \in 20..21, DenialProbes(r, to, ok) PROVE LifecycleInv'
  <2>0. 20 \in Nat \ {0} /\ to \in Nat /\ 20 <= to
    OBVIOUS
  <2>1. PICK ev : ev = Log(col[r].events, 20, to, ok)
    OBVIOUS
  <2>2. ev \in Seq(Event) /\ (HasDenial(col[r].events) => HasDenial(ev))
    BY <2>0, <2>1, LoggedOK
  <2>3. PICK a : a = Advanced(r, 20, to, ok, "stop")
    OBVIOUS
  <2>4. a = [at |-> IF ok THEN "stop" ELSE "stop", events |-> ev,
             owned |-> col[r].owned, handle |-> col[r].handle,
             terminal |-> col[r].terminal]
    BY <2>1, <2>3, AdvanceIs
  <2>5. PICK c : c = [a EXCEPT !.terminal = IF ok THEN "denial_verified" ELSE @]
    OBVIOUS
  <2>6. /\ col' = [col EXCEPT ![r] = c] /\ UNCHANGED <<service, files, cim, node>>
        /\ col[r].at = "deny" /\ (ok => to = 21)
    BY <1>6, <2>3, <2>5 DEF DenialProbes, Ends
  <2>7. ok => HasDenial(ev)
    BY <2>0, <2>1, <2>6, LoggedOK
  <2>8. c.at = a.at /\ CollectorOK(c) /\ c.owned = col[r].owned
    BY <2>2, <2>4, <2>5, <2>7, <1>s DEF CollectorOK
  <2>9. c.at \in MutationStages
    BY <2>4, <2>8 DEF MutationStages
  <2> QED
    BY <2>6, <2>8, <2>9, <1>o, <1>u, <1>e, MutationKeeps
<1> QED
  BY <1>1, <1>2, <1>3, <1>4, <1>5, <1>6

(* The cleanup of a live test takes away and reports.                      *)
LEMMA CleanupKeeps ==
    ASSUME LifecycleInv, NEW r \in Runs, NEW c, CollectorOK(c),
           c.at \in {"delete", "binary_off", "root_off", "absence"},
           col' = [col EXCEPT ![r] = c], node' = node,
           col[r].at \notin {"off", "written"},
           c.owned = col[r].owned, col[r].at # "dead",
           c.at # "delete" /\ service'.by = r =>
              c.terminal = "cleanup_failed" \/ service'.st \in {"pending", "leaving"},
           Fades(service, service'), files' \subseteq files, cim' = cim
    PROVE  LifecycleInv'
<1>1. LeavesNoMore(Runs)
  BY ShrinkingLeavesNoMore
<1>2. LeavesNoMore(Runs \ {r})
  BY <1>1 DEF LeavesNoMore
<1>3. service'.by = r => "service" \in c.owned
  BY LifecycleAssumption DEF Fades, LifecycleInv, RunOK, Residue
<1>4. Residue(r, c)' /\ ServiceOK(service)'
  BY <1>3 DEF Residue, PastDelete, Fades, ServiceOK
<1> QED
  BY <1>2, <1>4, CollectorMoves

(* The cleanup steps of a live test, whether they succeed or fail.         *)
LEMMA CleanupsKeep ==
    ASSUME LifecycleInv, NEW r \in Runs, NEW ok \in BOOLEAN,
           \/ \E halted \in BOOLEAN : StopService(r, ok, halted)
           \/ \E to \in Deletions : DeleteService(r, to)
           \/ RemoveBinary(r, ok)
           \/ RemoveRoot(r, ok)
    PROVE  LifecycleInv'
<1>s. ServiceOK(service) /\ Fades(service, service) /\ Residue(r, col[r]) /\ r # "nobody"
  BY FadingServices, LifecycleAssumption DEF LifecycleInv, RunOK
<1>m. \A b \in BOOLEAN : Mark(b) \in Statuses
  BY DEF Mark, Statuses
<1>k. "skipped_not_started" \in Statuses /\ "skipped_not_owned" \in Statuses
  BY DEF Statuses
<1>1. ASSUME NEW halted \in BOOLEAN, StopService(r, ok, halted) PROVE LifecycleInv'
  <2>1. PICK tried \in BOOLEAN : tried <=> ("start" \in col[r].owned)
    OBVIOUS
  <2>2. PICK mine \in BOOLEAN : mine <=> (tried \/ "service" \in col[r].owned)
    OBVIOUS
  <2>3. PICK down \in BOOLEAN : down = (cim = "down" \/ ~Running(service'))
    OBVIOUS
  <2>4. PICK first \in Statuses :
            first = IF tried THEN Mark(ok)
                    ELSE IF mine THEN "skipped_not_started" ELSE "skipped_not_owned"
    BY <1>m, <1>k
  <2>5. PICK second \in Statuses :
            second = IF mine THEN Mark(down) ELSE "skipped_not_owned"
    BY <1>m, <1>k
  <2>6. /\ col' = [col EXCEPT ![r] = CleanupTried(r, 22, first, second, "delete")]
        /\ service' = IF halted THEN Halted(service) ELSE service
        /\ files' = files /\ cim' = cim /\ node' = node /\ col[r].at = "stop"
    BY <1>1, <2>1, <2>2, <2>3, <2>4, <2>5 DEF StopService
  <2>7. Fades(service, service')
    BY <1>s, <2>6, FadingServices
  <2>8. PICK c : /\ c = CleanupTried(r, 22, first, second, "delete")
                  /\ CollectorOK(c) /\ c.at = "delete" /\ c.owned = col[r].owned
    BY CleanedIs
  <2> QED
    BY <2>6, <2>7, <2>8, CleanupKeeps
<1>2. ASSUME NEW to \in Deletions, DeleteService(r, to) PROVE LifecycleInv'
  <2>1. /\ service' = to /\ files' = files /\ cim' = cim /\ node' = node
        /\ col[r].at = "delete"
    BY <1>2 DEF DeleteService
  <2>2. Fades(service, service')
    BY <1>s, <2>1, DeletedService
  <2>3. CASE "service" \in col[r].owned
    <3>1. PICK done \in BOOLEAN : done = (to # service \/ ~Exists(service))
      OBVIOUS
    <3>2. PICK gone \in BOOLEAN : gone = TestServiceAbsent(to)
      BY DEF TestServiceAbsent
    <3>3. PICK b : /\ b = CleanupTried(r, 24, Mark(done), Mark(gone), "binary_off")
                   /\ CollectorOK(b)
                   /\ b = [at |-> "binary_off", events |-> b.events,
                           owned |-> col[r].owned, handle |-> col[r].handle,
                           terminal |-> IF "failed" \in {Mark(done), Mark(gone)}
                                           THEN "cleanup_failed" ELSE col[r].terminal]
      BY <1>m, CleanedIs
    <3>4. PICK h \in BOOLEAN : col' = [col EXCEPT ![r] = [b EXCEPT !.handle = h]]
      BY <1>2, <2>3, <3>1, <3>2, <3>3, Zenon DEF DeleteService
    <3>5. PICK c : c = [b EXCEPT !.handle = h]
      OBVIOUS
    <3>6. /\ CollectorOK(c) /\ c.at = "binary_off" /\ c.owned = col[r].owned
          /\ ~done => c.terminal = "cleanup_failed"
      BY <3>3, <3>5 DEF CollectorOK, Mark
    <3>7. service'.by = r => ~done \/ service'.st \in {"pending", "leaving"}
      <4>1. CASE to = service
        BY <4>1, <1>s, <2>1, <3>1 DEF ServiceOK, Exists
      <4>2. CASE to = None
        BY <4>2, <1>s, <2>1, NoService
      <4>3. CASE to = Marked(service)
        BY <4>3, <1>s, <2>1 DEF Marked, ServiceOK
      <4> QED
        BY <1>2, <4>1, <4>2, <4>3 DEF Deletions
    <3> QED
      BY <2>1, <2>2, <3>4, <3>5, <3>6, <3>7, CleanupKeeps
  <2>4. CASE "service" \notin col[r].owned
    <3>1. col' = [col EXCEPT ![r] = CleanupTried(r, 24, "skipped_not_owned",
                                            "skipped_not_owned", "binary_off")]
          /\ service' = service
      BY <1>2, <2>4 DEF DeleteService
    <3>2. PICK c : /\ c = CleanupTried(r, 24, "skipped_not_owned", "skipped_not_owned",
                                 "binary_off")
                   /\ CollectorOK(c) /\ c.at = "binary_off" /\ c.owned = col[r].owned
      BY <1>k, CleanedIs
    <3>3. service'.by # r
      BY <1>s, <2>1, <2>4, <3>1 DEF Residue
    <3> QED
      BY <2>1, <2>2, <3>1, <3>2, <3>3, CleanupKeeps
  <2> QED
    BY <2>3, <2>4
<1>d. ASSUME service' = service, col[r].at \in PastDelete, NEW c,
             c.terminal \in {"cleanup_failed", col[r].terminal}
      PROVE  service'.by = r =>
                c.terminal = "cleanup_failed" \/ service'.st \in {"pending", "leaving"}
  BY <1>s, <1>d DEF Residue
<1>3. ASSUME RemoveBinary(r, ok) PROVE LifecycleInv'
  <2>1. PICK mine \in BOOLEAN : mine <=> ("binary" \in col[r].owned)
    OBVIOUS
  <2>2. PICK seen \in Statuses : seen = IF mine THEN Mark(ok) ELSE "skipped_not_owned"
    BY <1>m, <1>k
  <2>3. /\ col' = [col EXCEPT ![r] = CleanupTried(r, 26, seen, seen, "root_off")]
        /\ service' = service /\ node' = node /\ col[r].at = "binary_off"
        /\ files' \subseteq files /\ cim' = cim
    BY <1>3, <2>1, <2>2 DEF RemoveBinary
  <2>4. PICK c : /\ c = CleanupTried(r, 26, seen, seen, "root_off")
                  /\ CollectorOK(c) /\ c.at = "root_off" /\ c.owned = col[r].owned
                  /\ c.terminal \in {"cleanup_failed", col[r].terminal}
    BY CleanedIs
  <2>5. service'.by = r =>
           c.terminal = "cleanup_failed" \/ service'.st \in {"pending", "leaving"}
    BY <1>d, <2>3, <2>4 DEF PastDelete
  <2> QED
    BY <1>s, <2>3, <2>4, <2>5, CleanupKeeps
<1>4. ASSUME RemoveRoot(r, ok) PROVE LifecycleInv'
  <2>1. PICK mine \in BOOLEAN : mine <=> ("root" \in col[r].owned)
    OBVIOUS
  <2>2. PICK seen \in Statuses : seen = IF mine THEN Mark(ok) ELSE "skipped_not_owned"
    BY <1>m, <1>k
  <2>3. /\ col' = [col EXCEPT ![r] = CleanupTried(r, 28, seen, seen, "absence")]
        /\ service' = service /\ node' = node /\ col[r].at = "root_off"
        /\ files' \subseteq files /\ cim' = cim
    BY <1>4, <2>1, <2>2 DEF RemoveRoot
  <2>4. PICK c : /\ c = CleanupTried(r, 28, seen, seen, "absence")
                  /\ CollectorOK(c) /\ c.at = "absence" /\ c.owned = col[r].owned
                  /\ c.terminal \in {"cleanup_failed", col[r].terminal}
    BY CleanedIs
  <2>5. service'.by = r =>
           c.terminal = "cleanup_failed" \/ service'.st \in {"pending", "leaving"}
    BY <1>d, <2>3, <2>4 DEF PastDelete
  <2> QED
    BY <1>s, <2>3, <2>4, <2>5, CleanupKeeps
<1> QED
  BY <1>1, <1>2, <1>3, <1>4

(* The proof of absence, the written result and the death of a collector.  *)
LEMMA EndsKeep ==
    ASSUME LifecycleInv, NEW r \in Runs,
           ProveAbsence(r) \/ WriteResult(r) \/ CollectorDies(r)
    PROVE  LifecycleInv'
<1>s. ServiceOK(service) /\ r # "nobody" /\ r # "persistent" /\ RunOK(r)
  BY LifecycleAssumption DEF LifecycleInv
<1>u. /\ UNCHANGED <<service, files, cim, node>> /\ col[r].at \notin {"off", "written", "dead"}
      /\ ServiceOK(service)' /\ LeavesNoMore(Runs \ {r}) /\ (Left(r)' <=> Left(r))
  <2>1. UNCHANGED <<service, files, cim, node>> /\ col[r].at \notin {"off", "written", "dead"}
    <3>1. CASE ProveAbsence(r)
      <4>1. UNCHANGED <<service, files, cim, node>> /\ col[r].at = "absence"
        BY <3>1, Zenon DEF ProveAbsence
      <4> QED
        BY <4>1
    <3>2. CASE WriteResult(r) \/ CollectorDies(r)
      BY <3>2 DEF WriteResult, CollectorDies
    <3> QED
      BY <3>1, <3>2
  <2> QED
    BY <1>s, <2>1 DEF ServiceOK, LeavesNoMore, KeepsMark, Left, Of
<1>r. ASSUME NEW c, Residue(r, c) PROVE Residue(r, c)'
  BY <1>u, <1>r DEF Residue, Left, Hidden, Of
<1>1. CASE ProveAbsence(r)
  <2>1. PICK absent \in BOOLEAN :
           absent = (/\ TestServiceAbsent(service) /\ TestPipeAbsent(service)
                     /\ files \cap Of(r) = {})
    OBVIOUS
  <2>2. absent /\ Left(r) => col[r].terminal = "cleanup_failed" \/ Hidden(r)
    <3>1. col[r].at = "absence" /\ col[r].at \in PastDelete
      BY <1>1, Zenon DEF ProveAbsence, PastDelete
    <3>2. absent /\ Left(r) => service.by = r /\ files \cap Of(r) = {}
      BY <2>1 DEF Left
    <3>3. service.by = r => service.st # "absent"
      BY <1>s DEF ServiceOK
    <3>4. service.by = r =>
             col[r].terminal = "cleanup_failed" \/ service.st \in {"pending", "leaving"}
      BY <1>s, <3>1 DEF RunOK, Residue
    <3> QED
      BY <2>1, <3>2, <3>3, <3>4
      DEF Hidden, TestServiceAbsent, TestPipeAbsent, Exists, Running
  <2>3. PICK more : more = <<[step |-> 30, status |-> Mark(absent)]>>
    OBVIOUS
  <2>4. more \in Seq(Event)
    BY <2>3 DEF Event, Statuses, Mark
  <2>5. PICK ev : ev = Append(col[r].events, [step |-> 30, status |-> Mark(absent)])
    OBVIOUS
  <2>6. ev = col[r].events \o more /\ col[r].events \in Seq(Event)
    <3>1. col[r].events \in Seq(Event)
      BY <1>s DEF RunOK, CollectorOK
    <3>2. [step |-> 30, status |-> Mark(absent)] \in Event
      BY DEF Event, Statuses, Mark
    <3> QED
      BY <2>3, <2>5, <3>1, <3>2, AppendIsConcat
  <2>7. ev \in Seq(Event) /\ (HasDenial(col[r].events) => HasDenial(ev))
    BY <2>4, <2>6, LongerKeepsDenial
  <2>8. PICK c : c = [at |-> "write", events |-> ev, owned |-> col[r].owned,
                      handle |-> col[r].handle,
                      terminal |-> IF absent THEN col[r].terminal ELSE "cleanup_failed"]
    OBVIOUS
  <2>9. CollectorOK(c)
    BY <1>s, <2>7, <2>8 DEF CollectorOK, RunOK
  <2>10. PICK d : d = [col[r] EXCEPT !.events = Append(@, [step |-> 30, status |-> Mark(absent)]),
                           !.terminal = IF absent THEN @ ELSE "cleanup_failed",
                           !.at = "write"]
    OBVIOUS
  <2>11. d = c
    <3>1. PICK a : /\ a = col[r]
                   /\ a = [at |-> a.at, events |-> a.events, owned |-> a.owned,
                           handle |-> a.handle, terminal |-> a.terminal]
      BY <1>s DEF RunOK, CollectorOK
    <3>2. d = [a EXCEPT !.events = ev,
                        !.terminal = IF absent THEN a.terminal ELSE "cleanup_failed",
                        !.at = "write"]
      BY <2>5, <2>10, <3>1
    <3>3. d = [at |-> "write", events |-> ev, owned |-> a.owned, handle |-> a.handle,
               terminal |-> IF absent THEN a.terminal ELSE "cleanup_failed"]
      BY <3>1, <3>2
    <3> QED
      BY <2>8, <3>1, <3>3
  <2>12. col' = [col EXCEPT ![r] = d]
    BY <1>1, <2>1, <2>10, Zenon DEF ProveAbsence
  <2>13. Residue(r, c)
    <3>1. col[r].at = "absence"
      BY <1>1, Zenon DEF ProveAbsence
    <3>2. Residue(r, col[r]) /\ c.at = "write" /\ c.owned = col[r].owned
          /\ c.terminal = IF absent THEN col[r].terminal ELSE "cleanup_failed"
      BY <1>s, <2>8 DEF RunOK
    <3> QED
      BY <2>2, <3>1, <3>2 DEF Residue, PastDelete
  <2> QED
    BY <1>u, <1>r, <2>8, <2>9, <2>11, <2>12, <2>13, CollectorMoves
<1>2. CASE WriteResult(r)
  <2>1. PICK c : c = [col[r] EXCEPT !.at = "written"]
    OBVIOUS
  <2>2. CollectorOK(c) /\ c.at = "written" /\ c.terminal = col[r].terminal
        /\ c.owned = col[r].owned
    BY <1>s, <2>1 DEF RunOK, CollectorOK
  <2>3. col' = [col EXCEPT ![r] = c] /\ col[r].at = "write"
    BY <1>2, <2>1 DEF WriteResult
  <2>4. Residue(r, c)
    BY <1>s, <2>2, <2>3 DEF RunOK, Residue, PastDelete
  <2> QED
    BY <1>u, <1>r, <2>2, <2>3, <2>4, CollectorMoves
<1>3. CASE CollectorDies(r)
  <2>1. PICK c : c = [Collector0 EXCEPT !.at = "dead"]
    OBVIOUS
  <2>2. CollectorOK(c) /\ c.at = "dead"
    <3>1. c = [at |-> "dead", events |-> <<>>, owned |-> {}, handle |-> FALSE,
               terminal |-> "preflight_failed"]
      BY <2>1 DEF Collector0
    <3> QED
      BY <3>1 DEF CollectorOK
  <2>3. col' = [col EXCEPT ![r] = c]
    BY <1>3, <2>1 DEF CollectorDies
  <2>4. Residue(r, c)
    BY <2>2 DEF Residue, PastDelete
  <2> QED
    BY <1>u, <1>r, <2>2, <2>3, <2>4, CollectorMoves
<1> QED
  BY <1>1, <1>2, <1>3

-----------------------------------------------------------------------------
(* The callers and the persistent setup.                                   *)

(* The caller starts a collector, times out, or reads its result.          *)
LEMMA CallersKeep ==
    ASSUME LifecycleInv, NEW r \in Runs, CallerStep(r)
    PROVE  LifecycleInv'
<1>s. RunOK(r)
  BY DEF LifecycleInv
<1>1. CASE LiveTestStarts(r)
  <2>1. PICK c : c = [col[r] EXCEPT !.at = "preflight"]
    OBVIOUS
  <2>2. CollectorOK(c) /\ c.at = "preflight"
    BY <1>s, <2>1 DEF RunOK, CollectorOK
  <2>3. /\ col' = [col EXCEPT ![r] = c] /\ node' = [node EXCEPT ![r] = "waiting"]
        /\ UNCHANGED <<service, files, cim>> /\ node[r] = "idle"
    BY <1>1, <2>1 DEF LiveTestStarts
  <2>4. ~Left(r) /\ \A x \in Runs : Left(x)' <=> Left(x)
    BY <1>s, <2>3 DEF RunOK, Left, Of
  <2>5. /\ col' = [x \in Runs |-> col'[x]] /\ node' \in [Runs -> Verdicts]
        /\ \A x \in Runs : /\ col'[x] = IF x = r THEN c ELSE col[x]
                           /\ node'[x] = IF x = r THEN "waiting" ELSE node[x]
    BY <2>3 DEF LifecycleInv, Verdicts
  <2>6. ASSUME NEW x \in Runs PROVE RunOK(x)'
    <3>1. CASE x = r
      <4>1. CollectorOK(col[x])' /\ Residue(x, col[x])'
        BY <2>2, <2>4, <2>5, <3>1 DEF CollectorOK, Residue, PastDelete, Left
      <4> QED
        BY <2>2, <2>4, <2>5, <3>1, <4>1 DEF RunOK
    <3>2. CASE x # r
      <4>1. RunOK(x) /\ col'[x] = col[x] /\ node'[x] = node[x]
        BY <2>5, <3>2 DEF LifecycleInv
      <4>2. CollectorOK(col[x])' /\ Residue(x, col[x])'
        BY <2>3, <4>1 DEF RunOK, CollectorOK, Residue, Left, Hidden, Of
      <4> QED
        BY <2>4, <4>1, <4>2 DEF RunOK
    <3> QED
      BY <3>1, <3>2
  <2> QED
    BY <2>3, <2>5, <2>6 DEF LifecycleInv, ServiceOK
<1>2. ASSUME NEW torn \in BOOLEAN, ResultRead(r, torn) PROVE LifecycleInv'
  <2>1. PICK v : v = IF torn THEN "rejected" ELSE evaluateLiveCollectorResult(col[r])
    OBVIOUS
  <2>2. v \in Verdicts \ {"idle"} /\ (v = "verified" => col[r].terminal = "denial_verified")
    BY <2>1 DEF evaluateLiveCollectorResult, Verdicts
  <2>3. /\ node' = [node EXCEPT ![r] = v] /\ UNCHANGED <<service, files, cim, col>>
        /\ col[r].at = "written"
    BY <1>2, <2>1 DEF ResultRead
  <2> QED
    BY <2>2, <2>3, CallerMoves
<1>3. CASE ElevationTimeout(r)
  <2>1. /\ node' = [node EXCEPT ![r] = "timeout"] /\ UNCHANGED <<service, files, cim, col>>
    BY <1>3 DEF ElevationTimeout
  <2>2. "timeout" \in Verdicts \ {"idle"} /\ "timeout" # "verified"
    BY DEF Verdicts
  <2> QED
    BY <2>1, <2>2, CallerMoves
<1> QED
  BY <1>1, <1>2, <1>3 DEF CallerStep

(* The persistent setup works on the same service name between the live    *)
(* tests.                                                                  *)
LEMMA SetupsKeep ==
    ASSUME LifecycleInv,
           \/ SetupStep \/ UninstallBegins \/ PendingDeleteEnds
           \/ QueryFails \/ QueryAnswers
           \/ \E r \in Runs : InstallBegins(r)
    PROVE  LifecycleInv'
<1>s. ServiceOK(service) /\ Fades(service, service)
  BY FadingServices DEF LifecycleInv
<1>o. \A x \in Runs : Of(x) \cap Of("persistent") = {}
  <2>1. \A x \in Runs : x # "persistent"
    BY LifecycleAssumption
  <2> QED
    BY <2>1, OwnersAreApart
<1>q. ASSUME UNCHANGED <<service, files, col, node>>, cim # "up" => cim' # "up"
      PROVE  LifecycleInv'
  <2>1. ServiceOK(service)' /\ LeavesNoMore(Runs)
    BY <1>s, <1>q DEF ServiceOK, LeavesNoMore, KeepsMark
  <2> QED
    BY <1>q, <2>1, SetupMoves
<1>1. ASSUME NEW made \in SUBSET Of("persistent"), InstallWrites(made)
      PROVE  LifecycleInv'
  <2>1. UNCHANGED <<service, cim, col, node>> /\ files' \subseteq files \cup made
    BY <1>1 DEF InstallWrites, SetupTo
  <2>2. ServiceOK(service)'
    BY <1>s, <2>1 DEF ServiceOK
  <2>3. \A x \in Runs : files' \cap Of(x) \subseteq files
    BY <1>o, <2>1
  <2> QED
    BY <1>s, <2>1, <2>2, <2>3, ShrinkingLeavesNoMore, SetupMoves
<1>2. ASSUME NEW left \in SUBSET Of("persistent"), UninstallErases(left)
      PROVE  LifecycleInv'
  <2>1. UNCHANGED <<service, cim, col, node>> /\ files' \subseteq files \cup left
    BY <1>2 DEF UninstallErases, SetupTo
  <2>2. ServiceOK(service)'
    BY <1>s, <2>1 DEF ServiceOK
  <2>3. \A x \in Runs : files' \cap Of(x) \subseteq files
    BY <1>o, <2>1
  <2> QED
    BY <1>s, <2>1, <2>2, <2>3, ShrinkingLeavesNoMore, SetupMoves
<1>3. ASSUME NEW to \in {"absent", "stopped", "running"}, InstallCreates(to)
      PROVE  LifecycleInv'
  <2>1. /\ UNCHANGED <<files, cim, col, node>>
        /\ \/ service' = service
           \/ to # "absent" /\ service' = [by |-> "persistent", st |-> to]
    BY <1>3 DEF InstallCreates, SetupTo
  <2>2. ServiceOK(service)' /\ (Fades(service, service') \/ service'.by = "persistent")
    BY <1>s, <2>1 DEF ServiceOK
  <2> QED
    BY <2>1, <2>2, ShrinkingLeavesNoMore, SetupMoves
<1>4. ASSUME NEW digest \in BOOLEAN, UninstallChecks(digest) PROVE LifecycleInv'
  BY <1>q, <1>4 DEF UninstallChecks, SetupTo
<1>f. ASSUME Fades(service, service'), UNCHANGED <<files, cim, col, node>>
      PROVE  LifecycleInv'
  <2>1. ServiceOK(service)'
    BY <1>f DEF Fades, ServiceOK
  <2> QED
    BY <1>f, <2>1, ShrinkingLeavesNoMore, SetupMoves
<1>5. ASSUME NEW to \in Deletions \cup AfterStop, UninstallDeletes(to)
      PROVE  LifecycleInv'
  <2>1. UNCHANGED <<files, cim, col, node>> /\ service' = to
    BY <1>5 DEF UninstallDeletes, SetupTo
  <2>2. Fades(service, service')
    BY <1>s, <2>1, DeletedService
  <2> QED
    BY <1>f, <2>1, <2>2
<1>6. CASE PendingDeleteEnds
  <2>1. /\ UNCHANGED <<files, cim, col, node>>
        /\ service' = Halted(service) \/ service' = None
    BY <1>6 DEF PendingDeleteEnds
  <2>2. Fades(service, service')
    BY <1>s, <2>1, FadingServices
  <2> QED
    BY <1>f, <2>1, <2>2
<1>7. CASE SetupReported \/ UninstallBegins \/ \E r \in Runs : InstallBegins(r)
  BY <1>q, <1>7 DEF SetupReported, SetupTo, UninstallBegins, InstallBegins
<1>8. CASE QueryFails \/ QueryAnswers
  BY <1>q, <1>8 DEF QueryFails, QueryAnswers
<1> QED
  BY <1>1, <1>2, <1>3, <1>4, <1>5, <1>6, <1>7, <1>8 DEF SetupStep

-----------------------------------------------------------------------------

(* No service, no run.                                                     *)
LEMMA LifecycleInvInit == LifecycleInit => LifecycleInv
<1> SUFFICES ASSUME LifecycleInit PROVE LifecycleInv
  OBVIOUS
<1>1. ASSUME NEW r \in Runs PROVE RunOK(r)
  <2>1. col[r] = Collector0 /\ node[r] = "idle"
    BY DEF LifecycleInit
  <2>2. CollectorOK(Collector0) /\ Collector0.at = "off"
    BY DEF Collector0, CollectorOK
  <2>3. ~Left(r)
    BY LifecycleAssumption, NoService DEF LifecycleInit, Left
  <2>4. Residue(r, col[r])
    BY <2>1, <2>2, <2>3 DEF Residue, PastDelete, Left
  <2> QED
    BY <2>1, <2>2, <2>3, <2>4 DEF RunOK
<1>2. ServiceOK(service) /\ node \in [Runs -> Verdicts]
      /\ col = [r \in Runs |-> col[r]]
  BY NoService DEF LifecycleInit, Verdicts
<1> QED
  BY <1>1, <1>2 DEF LifecycleInv

(* One case per group of actions.                                          *)
LEMMA LifecycleInductive == LifecycleInv /\ [LifecycleNext]_lifecycleVars => LifecycleInv'
<1> SUFFICES ASSUME LifecycleInv, [LifecycleNext]_lifecycleVars PROVE LifecycleInv'
  OBVIOUS
<1>1. ASSUME NEW r \in Runs, CollectorStep(r) PROVE LifecycleInv'
  <2>1. ASSUME NEW ok \in BOOLEAN, NEW to \in 1..4, PreflightProbes(r, to, ok)
        PROVE  LifecycleInv'
    BY <2>1, PreflightKeeps
  <2>2. ASSUME NEW ok \in BOOLEAN,
           \/ \E to \in 5..6 : CreateRoot(r, to, ok)
           \/ \E to \in 7..10 : CreateBinary(r, to, ok)
           \/ \E to \in 11..12, made \in BOOLEAN : CreateService(r, to, ok, made)
           \/ \E to \in 13..18 : Configure(r, to, ok)
           \/ StartService(r, ok)
           \/ \E to \in 20..21 : DenialProbes(r, to, ok)
        PROVE  LifecycleInv'
    BY <2>2, MutationsKeep
  <2>3. ASSUME NEW ok \in BOOLEAN,
           \/ \E halted \in BOOLEAN : StopService(r, ok, halted)
           \/ \E to \in Deletions : DeleteService(r, to)
           \/ RemoveBinary(r, ok)
           \/ RemoveRoot(r, ok)
        PROVE  LifecycleInv'
    BY <2>3, CleanupsKeep
  <2>4. ASSUME ProveAbsence(r) \/ WriteResult(r) PROVE LifecycleInv'
    BY <2>4, EndsKeep
  <2> QED
    BY <1>1, <2>1, <2>2, <2>3, <2>4 DEF CollectorStep
<1>2. ASSUME NEW r \in Runs, CallerStep(r) PROVE LifecycleInv'
  BY <1>2, CallersKeep
<1>3. ASSUME NEW r \in Runs, CollectorDies(r) PROVE LifecycleInv'
  BY <1>3, EndsKeep
<1>4. ASSUME SetupStep \/ UninstallBegins \/ PendingDeleteEnds
             \/ QueryFails \/ QueryAnswers \/ \E r \in Runs : InstallBegins(r)
      PROVE  LifecycleInv'
  BY <1>4, SetupsKeep
<1>5. CASE UNCHANGED lifecycleVars
  <2>1. ServiceOK(service)' /\ LeavesNoMore(Runs) /\ UNCHANGED <<col, node>>
    BY <1>5 DEF LifecycleInv, ServiceOK, LeavesNoMore, KeepsMark, lifecycleVars
  <2> QED
    BY <2>1, SetupMoves
<1> QED
  BY <1>1, <1>2, <1>3, <1>4, <1>5 DEF LifecycleNext

(* windows-service-lifecycle: for any runs that compete for the one        *)
(* service name, and a service query that fails open, the inductive        *)
(* invariant holds.                                                        *)
THEOREM LifecycleInvariant == LifecycleSpec => []LifecycleInv
BY LifecycleInvInit, LifecycleInductive, PTL DEF LifecycleSpec

(* windows-service-lifecycle: a live test that is over has left nothing,   *)
(* or its result does not say that it is verified and clean; its caller    *)
(* believes nothing else.  The one exception is a service that a failing   *)
(* service query hid, and it is marked for deletion.                       *)
THEOREM LiveTestsAreCleanOrReported == LifecycleSpec => []CleanOrReported
<1>1. LifecycleInv => CleanOrReported
  <2> SUFFICES ASSUME LifecycleInv PROVE CleanOrReported
    OBVIOUS
  <2>1. ASSUME NEW r \in Runs, node[r] = "verified"
        PROVE  (Left(r) => Hidden(r)) /\ HasDenial(col[r].events)
    BY <2>1 DEF LifecycleInv, RunOK, CollectorOK, Residue
  <2>2. VerifiedTestIsClean
    BY <2>1 DEF VerifiedTestIsClean, HasDenial, Denial
  <2>3. ResidueIsReported
    BY DEF ResidueIsReported, LifecycleInv, RunOK, Residue
  <2> QED
    BY <2>2, <2>3 DEF CleanOrReported
<1> QED
  BY <1>1, LifecycleInvariant, PTL

-----------------------------------------------------------------------------
(* The evidence cycle of the boundary.                                     *)

(* The answers of the collectors in one cycle.                             *)
Answers == [local : BOOLEAN, service : BOOLEAN, binary : BOOLEAN, checked : BOOLEAN,
            locked : BOOLEAN, denial : BOOLEAN, peer : BOOLEAN]

(* A collection cycle: how far it is, what it was built from, its answers. *)
Cycles == [at : {"idle", "identity", "binary", "acl", "denial", "peer"},
           built : Versions, got : Answers]

(* What the composed report says.                                          *)
Reports == [ready : BOOLEAN, acl : BOOLEAN, error : BOOLEAN]

(* The facts of the host that a cycle asks for.                            *)
AllFacts == {"published", "service", "binary", "acl"}

\* While a cycle runs, what is true of the host now has been noted, and each
\* answer that it holds was true at some moment of the cycle.  Nobody installs
\* while a cycle runs.
AnswersAreNoted(got) ==
    /\ "published" \in held
    /\ got.service => "service" \in held
    /\ got.binary => "binary" \in held
    /\ got.locked => "acl" \in held

(* The inductive invariant: a running cycle holds only answers that were   *)
(* true at some moment since it began.                                     *)
EvidenceInv ==
    /\ host \in Host /\ repo \in Versions /\ cyc \in Cycles /\ report \in Reports
    /\ boot \in {"first", "apply", "second", "done", "loop"}
    /\ held \subseteq AllFacts
    /\ boot \in {"apply", "done"} => cyc.at = "idle"
    /\ cyc.at # "idle" => Facts(host, repo, cyc.built) \subseteq held
                           /\ AnswersAreNoted(cyc.got)

(* The facts of a host are among those.                                    *)
LEMMA FactsTyped == \A h, p, b : Facts(h, p, b) \subseteq AllFacts
BY DEF Facts, AllFacts

(* A cycle begins without an answer.                                       *)
LEMMA NoAnswersTyped ==
    NoAnswers \in Answers /\ ~NoAnswers.service /\ ~NoAnswers.binary /\ ~NoAnswers.locked
BY DEF NoAnswers, Answers

(* A question is answered: the cycle goes on with answers that were noted. *)
LEMMA AnswerKeeps ==
    ASSUME EvidenceInv, NEW at \in {"binary", "acl", "denial", "peer"},
           NEW got \in Answers, AnswersAreNoted(got), cyc.at # "idle",
           cyc' = [at |-> at, built |-> cyc.built, got |-> got],
           UNCHANGED <<host, repo, boot, report, held>>
    PROVE  EvidenceInv'
<1>1. cyc' \in Cycles
  BY DEF EvidenceInv, Cycles
<1>2. Facts(host, repo, cyc.built)' \subseteq held'
  BY DEF EvidenceInv, Facts
<1>3. AnswersAreNoted(cyc.got)'
  BY DEF AnswersAreNoted
<1>4. boot \notin {"apply", "done"}
  BY DEF EvidenceInv
<1> QED
  BY <1>1, <1>2, <1>3, <1>4 DEF EvidenceInv

(* A cycle that has ended.                                                 *)
LEMMA EndKeeps ==
    ASSUME EvidenceInv, cyc' \in Cycles, cyc'.at = "idle", report' \in Reports,
           host' \in Host, boot' \in {"first", "apply", "second", "done", "loop"},
           UNCHANGED <<repo, held>>
    PROVE  EvidenceInv'
BY DEF EvidenceInv

(* What is true of the host now is among what has held.                    *)
LEMMA NotedNow ==
    ASSUME EvidenceInv, cyc.at # "idle"
    PROVE  /\ host.pipe = "service" => "service" \in held
           /\ host.installed = cyc.built => "binary" \in held
           /\ host.acl = "locked" => "acl" \in held
           /\ AnswersAreNoted(cyc.got)
<1>1. Facts(host, repo, cyc.built) \subseteq held /\ AnswersAreNoted(cyc.got)
  BY DEF EvidenceInv
<1>2. /\ host.pipe = "service" => "service" \in Facts(host, repo, cyc.built)
      /\ host.installed = cyc.built => "binary" \in Facts(host, repo, cyc.built)
      /\ host.acl = "locked" => "acl" \in Facts(host, repo, cyc.built)
  BY DEF Facts
<1> QED
  BY <1>1, <1>2

(* Each collector reads the host as it is at its own moment.               *)
LEMMA CollectingKeeps ==
    ASSUME EvidenceInv, Collecting
    PROVE  EvidenceInv'
<1>c. /\ cyc \in Cycles /\ cyc.got \in Answers /\ cyc.built \in Versions
      /\ cyc = [at |-> cyc.at, built |-> cyc.built, got |-> cyc.got]
  BY DEF EvidenceInv, Cycles
<1>1. CASE FoundationBuilt
  <2>1. cyc' \in Cycles /\ cyc'.got = NoAnswers /\ cyc'.built = repo /\ cyc'.at = "identity"
    BY <1>1, NoAnswersTyped DEF FoundationBuilt, Cycles, EvidenceInv
  <2>2. held' = Facts(host, repo, repo) /\ UNCHANGED <<host, repo, boot, report>>
        /\ boot \in {"first", "second", "loop"}
    BY <1>1 DEF FoundationBuilt
  <2>3. "published" \in held'
    BY <2>2 DEF Facts
  <2>4. Facts(host, repo, cyc.built)' = held'
    BY <2>1, <2>2 DEF Facts
  <2>5. AnswersAreNoted(cyc.got)'
    BY <2>1, <2>3, NoAnswersTyped DEF AnswersAreNoted
  <2> QED
    BY <2>1, <2>2, <2>4, <2>5, FactsTyped DEF EvidenceInv
<1>2. CASE IdentityVerified
  <2>1. PICK l \in BOOLEAN, s \in BOOLEAN :
           l = (host.pipe # "none") /\ s = (host.pipe = "service")
    OBVIOUS
  <2>2. PICK g : g = [cyc.got EXCEPT !.local = l, !.service = s]
    OBVIOUS
  <2>3. g \in Answers /\ g.service = s /\ g.binary = cyc.got.binary
        /\ g.locked = cyc.got.locked
    BY <2>2, <1>c DEF Answers
  <2>4. cyc' = [at |-> "binary", built |-> cyc.built, got |-> g]
    <3>1. cyc' = [cyc EXCEPT !.at = "binary", !.got.local = l, !.got.service = s]
      BY <1>2, <2>1 DEF IdentityVerified
    <3> QED
      BY <3>1, <2>2, <1>c DEF Answers
  <2>5. AnswersAreNoted(g)
    BY <1>2, <2>1, <2>3, NotedNow DEF AnswersAreNoted, IdentityVerified
  <2> QED
    BY <1>2, <2>3, <2>4, <2>5, AnswerKeeps DEF IdentityVerified
<1>3. CASE BinaryProbed
  <2>1. PICK b \in BOOLEAN : b = (host.installed = cyc.built)
    OBVIOUS
  <2>2. PICK g : g = [cyc.got EXCEPT !.binary = b]
    OBVIOUS
  <2>3. g \in Answers /\ g.service = cyc.got.service /\ g.binary = b
        /\ g.locked = cyc.got.locked
    BY <2>2, <1>c DEF Answers
  <2>4. cyc' = [at |-> "acl", built |-> cyc.built, got |-> g]
    <3>1. cyc' = [cyc EXCEPT !.at = "acl", !.got.binary = b]
      BY <1>3, <2>1 DEF BinaryProbed
    <3> QED
      BY <3>1, <2>2, <1>c DEF Answers
  <2>5. AnswersAreNoted(g)
    BY <1>3, <2>1, <2>3, NotedNow DEF AnswersAreNoted, BinaryProbed
  <2> QED
    BY <1>3, <2>3, <2>4, <2>5, AnswerKeeps DEF BinaryProbed
<1>4. CASE TargetAclProbed
  <2>1. PICK k \in BOOLEAN, l \in BOOLEAN :
           /\ k = (host.pipe = "service" /\ host.acl # "absent")
           /\ l = ((host.pipe = "service" /\ host.acl # "absent") /\ host.acl = "locked")
    OBVIOUS
  <2>2. PICK g : g = [cyc.got EXCEPT !.checked = k, !.locked = l]
    OBVIOUS
  <2>3. g \in Answers /\ g.service = cyc.got.service /\ g.binary = cyc.got.binary
        /\ g.locked = l
    BY <2>2, <1>c DEF Answers
  <2>4. cyc' = [at |-> "denial", built |-> cyc.built, got |-> g]
    <3>1. cyc' = [cyc EXCEPT !.at = "denial", !.got.checked = k, !.got.locked = l]
      BY <1>4, <2>1 DEF TargetAclProbed
    <3> QED
      BY <3>1, <2>2, <1>c DEF Answers
  <2>5. AnswersAreNoted(g)
    BY <1>4, <2>1, <2>3, NotedNow DEF AnswersAreNoted, TargetAclProbed
  <2> QED
    BY <1>4, <2>3, <2>4, <2>5, AnswerKeeps DEF TargetAclProbed
<1>5. CASE DenialExercised
  <2>1. PICK d \in BOOLEAN : d = (host.pipe = "service")
    OBVIOUS
  <2>2. PICK g : g = [cyc.got EXCEPT !.denial = d]
    OBVIOUS
  <2>3. g \in Answers /\ g.service = cyc.got.service /\ g.binary = cyc.got.binary
        /\ g.locked = cyc.got.locked
    BY <2>2, <1>c DEF Answers
  <2>4. cyc' = [at |-> "peer", built |-> cyc.built, got |-> g]
    <3>1. cyc' = [cyc EXCEPT !.at = "peer", !.got.denial = d]
      BY <1>5, <2>1 DEF DenialExercised
    <3> QED
      BY <3>1, <2>2, <1>c DEF Answers
  <2>5. AnswersAreNoted(g)
    BY <1>5, <2>3, NotedNow DEF AnswersAreNoted, DenialExercised
  <2> QED
    BY <1>5, <2>3, <2>4, <2>5, AnswerKeeps DEF DenialExercised
<1>6. ASSUME NEW skip \in BOOLEAN, CycleComposed(skip)
      PROVE  EvidenceInv'
  <2>1. cyc' \in Cycles /\ cyc'.at = "idle"
    BY <1>6, <1>c, NoAnswersTyped DEF CycleComposed, Cycles
  <2>2. report' \in Reports
    <3>1. PICK g : report' = compose(g)
      BY <1>6 DEF CycleComposed
    <3>2. PICK a \in BOOLEAN, b \in BOOLEAN :
             a = evaluateProductionAuthorization(g) /\ b = mapTargetAcl(g)
      BY DEF evaluateProductionAuthorization, mapTargetAcl
    <3> QED
      BY <3>1, <3>2 DEF compose, Reports
  <2>3. boot' \in {"apply", "loop", "done"}
    BY <1>6 DEF CycleComposed, After
  <2>4. UNCHANGED <<host, repo, held>>
    BY <1>6 DEF CycleComposed
  <2> QED
    BY <2>1, <2>2, <2>3, <2>4, EndKeeps DEF EvidenceInv
<1>7. CASE CollectorFails
  <2>1. cyc' \in Cycles /\ cyc'.at = "idle"
    BY <1>7, <1>c, NoAnswersTyped DEF CollectorFails, Cycles
  <2>2. report' \in Reports
    BY <1>7 DEF CollectorFails, NoReport, Reports
  <2>3. boot' \in {"apply", "loop", "done"}
    BY <1>7 DEF CollectorFails, After
  <2>4. UNCHANGED <<host, repo, held>>
    BY <1>7 DEF CollectorFails
  <2> QED
    BY <2>1, <2>2, <2>3, <2>4, EndKeeps DEF EvidenceInv
<1>8. ASSUME NEW ok \in BOOLEAN, FirstInstallApplied(ok)
      PROVE  EvidenceInv'
  <2>1. host' \in Host
    BY <1>8 DEF FirstInstallApplied, EvidenceInv, Host
  <2>2. cyc.at = "idle" /\ boot' = "second" /\ UNCHANGED <<repo, cyc, report, held>>
    BY <1>8 DEF FirstInstallApplied, EvidenceInv
  <2> QED
    BY <1>c, <2>1, <2>2, EndKeeps DEF EvidenceInv
<1> QED
  BY <1>1, <1>2, <1>3, <1>4, <1>5, <1>6, <1>7, <1>8 DEF Collecting

(* The host changes: what becomes true is noted, what was stays noted.     *)
LEMMA ChangesKeep ==
    ASSUME EvidenceInv, NEW h \in Host, NEW b \in Versions, BoundaryChanges(h, b)
    PROVE  EvidenceInv'
<1>1. host' \in Host /\ repo' \in Versions /\ UNCHANGED <<cyc, boot, report>>
  BY DEF BoundaryChanges
<1>2. CASE cyc.at = "idle"
  BY <1>1, <1>2 DEF EvidenceInv, BoundaryChanges
<1>3. CASE cyc.at # "idle"
  <2>1. held' = held \cup Facts(h, b, cyc.built)
    BY <1>3 DEF BoundaryChanges
  <2>2. Facts(host, repo, cyc.built)' = Facts(h, b, cyc.built)
    BY <1>1 DEF BoundaryChanges, Facts
  <2>3. AnswersAreNoted(cyc.got)'
    BY <1>1, <1>3, <2>1 DEF EvidenceInv, AnswersAreNoted
  <2> QED
    BY <1>1, <1>3, <2>1, <2>2, <2>3, FactsTyped DEF EvidenceInv
<1> QED
  BY <1>2, <1>3

(* The inductive invariant of the collection of evidence.                  *)
THEOREM EvidenceInvariant == EvidenceSpec => []EvidenceInv
<1>1. EvidenceInit => EvidenceInv
  <2> SUFFICES ASSUME EvidenceInit PROVE EvidenceInv
    OBVIOUS
  <2>1. cyc \in Cycles /\ cyc.at = "idle" /\ report \in Reports
    BY NoAnswersTyped DEF EvidenceInit, Cycles, NoReport, Reports
  <2> QED
    BY <2>1 DEF EvidenceInit, EvidenceInv
<1>2. EvidenceInv /\ [EvidenceNext]_evidenceVars => EvidenceInv'
  <2> SUFFICES ASSUME EvidenceInv, [EvidenceNext]_evidenceVars PROVE EvidenceInv'
    OBVIOUS
  <2>1. CASE UNCHANGED evidenceVars
    <3>1. AnswersAreNoted(cyc.got)' <=> AnswersAreNoted(cyc.got)
      BY <2>1 DEF evidenceVars, AnswersAreNoted
    <3>2. Facts(host, repo, cyc.built)' = Facts(host, repo, cyc.built)
      BY <2>1 DEF evidenceVars, Facts
    <3> QED
      BY <2>1, <3>1, <3>2 DEF evidenceVars, EvidenceInv
  <2>2. ASSUME NEW to \in {"first", "loop"}, BootstrapReturns(to)
        PROVE  EvidenceInv'
    <3>1. cyc.at = "idle" /\ boot' = to /\ UNCHANGED <<host, repo, cyc, report, held>>
      BY <2>2 DEF BootstrapReturns, EvidenceInv
    <3> QED
      BY <3>1, EndKeeps DEF EvidenceInv
  <2> QED
    BY <2>1, <2>2, CollectingKeeps, ChangesKeep DEF EvidenceNext
<1> QED
  BY <1>1, <1>2, PTL DEF EvidenceSpec

(* The types of the collection of evidence.                                *)
THEOREM EvidenceTypes == EvidenceSpec => []EvidenceTypeOK
<1>1. EvidenceInv => EvidenceTypeOK
  BY DEF EvidenceInv, EvidenceTypeOK, Cycles, Reports
<1> QED
  BY <1>1, EvidenceInvariant, PTL

\* The step composes a ready report only from facts that held in its cycle.
ComposesFreshly ==
    report' # report /\ report'.ready => held = {"published", "service", "binary", "acl"}

(* A step that composes a ready report does so from facts of its own       *)
(* cycle.                                                                  *)
LEMMA EvidenceStepIsFresh ==
    ASSUME EvidenceInv, [EvidenceNext]_evidenceVars
    PROVE  ComposesFreshly
<1>1. ASSUME NEW skip \in BOOLEAN, CycleComposed(skip), report'.ready
      PROVE  held = AllFacts
  <2>1. PICK p \in BOOLEAN : p = (host.pipe = "service")
    OBVIOUS
  <2>2. PICK g : g = [cyc.got EXCEPT !.peer = p]
    OBVIOUS
  <2>3. report' = compose(g)
    BY <1>1, <2>1, <2>2 DEF CycleComposed
  <2>4. evaluateProductionAuthorization(g)
    BY <1>1, <2>3 DEF compose
  <2>5. g.service /\ g.binary /\ g.locked
    BY <2>4 DEF evaluateProductionAuthorization, mergeHandleBound, mapTargetAcl
  <2>6. g.service = cyc.got.service /\ g.binary = cyc.got.binary
        /\ g.locked = cyc.got.locked
    BY <2>2 DEF EvidenceInv, Cycles, Answers
  <2>7. AnswersAreNoted(cyc.got) /\ held \subseteq AllFacts
    BY <1>1 DEF EvidenceInv, CycleComposed
  <2> QED
    BY <2>5, <2>6, <2>7 DEF AnswersAreNoted, AllFacts
<1>2. CASE CollectorFails
  <2>1. ~report'.ready
    BY <1>2 DEF CollectorFails, NoReport
  <2> QED
    BY <2>1 DEF ComposesFreshly
<1>3. CASE report' = report
  BY <1>3 DEF ComposesFreshly
<1>4. \/ report' = report \/ CollectorFails
      \/ \E skip \in BOOLEAN : CycleComposed(skip)
  BY DEF EvidenceNext, Collecting, FoundationBuilt, IdentityVerified, BinaryProbed,
         TargetAclProbed, DenialExercised, FirstInstallApplied, BoundaryChanges,
         BootstrapReturns, evidenceVars
<1> QED
  BY <1>1, <1>2, <1>3, <1>4 DEF ComposesFreshly, AllFacts

(* A ready report rests on facts that all held at some moment of its own    *)
(* cycle, for any set of builds and however the host changes between the    *)
(* questions.                                                              *)
THEOREM ReadyReportsAreFresh == EvidenceSpec => ReadyIsFresh
<1>1. EvidenceInv /\ [EvidenceNext]_evidenceVars => [ComposesFreshly]_evidenceVars
  BY EvidenceStepIsFresh
<1> QED
  BY <1>1, EvidenceInvariant, PTL DEF EvidenceSpec, ReadyIsFresh, ComposesFreshly
=============================================================================
