----------------------- MODULE OperationalBridgeProofs -----------------------
(***************************************************************************)
(* Proofs about the operational bridge, for any number of processes, any   *)
(* binding tables and any further callers of close(): every resource is    *)
(* closed once and in reverse, a broker never outlives its upstream,       *)
(* nothing is left behind, and what agents find is all of one bridge or    *)
(* nothing.                                                                *)
(***************************************************************************)
EXTENDS OperationalBridge, SequenceTheorems, TLAPS

-----------------------------------------------------------------------------
(* The resources of a bridge stand in one order: upstream and broker of    *)
(* each binding, discovery on top.                                         *)

\* How many resources a bridge that is up has.
Height(b) == 2 * NumServices[b] + 1

\* The i-th resource.
Slot(b, i) ==
    IF i = Height(b) THEN Discovery
    ELSE IF i % 2 = 1 THEN Upstream((i + 1) \div 2) ELSE Broker(i \div 2)

\* The first m resources.
Stack(b, m) == {Slot(b, i) : i \in 1..m}

\* A sequence that lists the stack from the bottom, and one from the top.
InOrder(b, s) ==
    /\ Len(s) <= Height(b)
    /\ \A i \in 1..Len(s) : s[i] = Slot(b, i)

(* A sequence that lists the first resources from the top down.            *)
InReverse(b, s) ==
    /\ Len(s) <= Height(b)
    /\ \A i \in 1..Len(s) : s[i] = Slot(b, Len(s) + 1 - i)

\* What runs and has not refused to close is the stack up to m.
Standing(b, m) == running[b] \ stuck[b] = Stack(b, m)

\* A bridge that no cleanup() has been called on.
Growing(b) ==
    /\ stuck[b] = {} /\ InOrder(b, resources[b])
    /\ running[b] = Stack(b, Len(resources[b]))
    /\ \A c \in Cleaners : teardown[b][c] = NotCalled
    /\ phase[b] = "off" => resources[b] = <<>> /\ services[b] = 0
    /\ phase[b] = "starting" =>
          /\ Len(resources[b]) \in {2 * services[b], 2 * services[b] + 1}
          /\ Len(resources[b]) <= 2 * NumServices[b]
    /\ phase[b] = "up" => Len(resources[b]) = Height(b)

\* A bridge whose cleanup() has been called: at most one call closes, from
\* the top down, and what it has still to close is what stands.
Shrinking(b) ==
    /\ phase[b] # "off"
    /\ \A c \in Cleaners : teardown[b][c].state # "closing" => teardown[b][c].left = <<>>
    /\ \A c, d \in Cleaners :
          teardown[b][c].state = "closing" /\ teardown[b][d].state = "closing" => c = d
    /\ \A c \in Cleaners : teardown[b][c].state = "closing" =>
          InReverse(b, teardown[b][c].left) /\ Standing(b, Len(teardown[b][c].left))
    /\ (\A c \in Cleaners : teardown[b][c].state # "closing") => Standing(b, 0)

(* One bridge: growing until its cleanup begins, shrinking from then on,   *)
(* gone once its process has exited.                                       *)
BridgeInv(b) ==
    /\ phase[b] = "exited" => running[b] = {}
    /\ Discovery \notin stuck[b]
    /\ phase[b] # "exited" /\ ~stopping[b] => teardown[b]["shutdown"] = NotCalled
    /\ phase[b] # "exited" /\ ~cleaning[b] => Growing(b)
    /\ phase[b] # "exited" /\ cleaning[b] => Shrinking(b)

(* The inductive invariant.                                                *)
OperationalInv == BridgeTypeOK /\ \A b \in Bridges : BridgeInv(b)

-----------------------------------------------------------------------------
(* The order.                                                              *)

(* A bridge has at least one service.                                      *)
LEMMA Heights ==
    ASSUME NEW b \in Bridges
    PROVE  /\ NumServices[b] \in Nat /\ NumServices[b] >= 1
           /\ Height(b) \in Nat /\ Height(b) = 2 * NumServices[b] + 1
BY NumServicesAssumption DEF Height

(* The resources are different from each other.                            *)
LEMMA ResourcesDiffer ==
    \A i, j : /\ Upstream(i) # Broker(j)
              /\ Upstream(i) # Discovery /\ Broker(i) # Discovery
              /\ Upstream(i) = Upstream(j) => i = j
              /\ Broker(i) = Broker(j) => i = j
BY DEF Upstream, Broker, Discovery

(* Which slot holds what.                                                  *)
LEMMA SlotIs ==
    ASSUME NEW b \in Bridges
    PROVE  /\ \A k \in ServicesOf(b) : /\ 2 * k - 1 \in 1..Height(b) /\ 2 * k \in 1..Height(b)
                                       /\ Slot(b, 2 * k - 1) = Upstream(k)
                                       /\ Slot(b, 2 * k) = Broker(k)
           /\ Slot(b, Height(b)) = Discovery
<1>1. ASSUME NEW k \in ServicesOf(b)
      PROVE  /\ 2 * k - 1 \in 1..Height(b) /\ 2 * k \in 1..Height(b)
             /\ 2 * k - 1 # Height(b) /\ 2 * k # Height(b)
  BY Heights DEF ServicesOf
<1>2. ASSUME NEW k \in ServicesOf(b)
      PROVE  /\ (2 * k - 1) % 2 = 1 /\ (2 * k) % 2 = 0
             /\ (2 * k - 1 + 1) \div 2 = k /\ (2 * k) \div 2 = k
  BY Heights DEF ServicesOf
<1>3. Slot(b, Height(b)) = Discovery
  BY DEF Slot
<1> QED
  BY <1>1, <1>2, <1>3 DEF Slot

(* Every slot below discovery is an upstream or a broker.                  *)
LEMMA SlotCases ==
    ASSUME NEW b \in Bridges, NEW i \in 1..Height(b)
    PROVE  \/ i = Height(b)
           \/ \E k \in ServicesOf(b) : i = 2 * k - 1
           \/ \E k \in ServicesOf(b) : i = 2 * k
<1>1. CASE i % 2 = 1
  <2>1. PICK k : k = (i + 1) \div 2
    OBVIOUS
  <2>2. k \in Nat /\ i = 2 * k - 1 /\ (i # Height(b) => k \in ServicesOf(b))
    BY <1>1, <2>1, Heights DEF ServicesOf
  <2> QED
    BY <2>2
<1>2. CASE i % 2 # 1
  <2>1. PICK k : k = i \div 2
    OBVIOUS
  <2>2. k \in Nat /\ i = 2 * k /\ k \in ServicesOf(b)
    BY <1>2, <2>1, Heights DEF ServicesOf
  <2> QED
    BY <2>2
<1> QED
  BY <1>1, <1>2

(* No resource has two slots.                                              *)
LEMMA SlotsDiffer ==
    ASSUME NEW b \in Bridges, NEW i \in 1..Height(b), NEW j \in 1..Height(b),
           Slot(b, i) = Slot(b, j)
    PROVE  i = j
<1> DEFINE Up(x, k) == k \in ServicesOf(b) /\ x = 2 * k - 1 /\ Slot(b, x) = Upstream(k)
           Br(x, k) == k \in ServicesOf(b) /\ x = 2 * k /\ Slot(b, x) = Broker(k)
           Top(x) == x = Height(b) /\ Slot(b, x) = Discovery
<1>1. Top(i) \/ (\E k : Up(i, k)) \/ (\E k : Br(i, k))
  BY SlotCases, SlotIs
<1>2. Top(j) \/ (\E k : Up(j, k)) \/ (\E k : Br(j, k))
  BY SlotCases, SlotIs
<1> QED
  BY <1>1, <1>2, ResourcesDiffer

(* Every slot of the stack is a resource.                                  *)
LEMMA SlotTyped ==
    ASSUME NEW b \in Bridges, NEW i \in 1..Height(b)
    PROVE  Slot(b, i) \in Resources
<1>1. \A k \in ServicesOf(b) : k \in Positions
  BY DEF Positions
<1> QED
  BY <1>1, SlotCases, SlotIs DEF Resources

(* The stack, one resource at a time.                                      *)
LEMMA StackGrows ==
    ASSUME NEW b \in Bridges, NEW m \in Nat, m < Height(b)
    PROVE  /\ Stack(b, m + 1) = Stack(b, m) \cup {Slot(b, m + 1)}
           /\ Slot(b, m + 1) \notin Stack(b, m)
<1>1. 1..(m + 1) = (1..m) \cup {m + 1}
  OBVIOUS
<1>2. Stack(b, m + 1) = Stack(b, m) \cup {Slot(b, m + 1)}
  BY <1>1 DEF Stack
<1>3. ASSUME NEW i \in 1..m, Slot(b, i) = Slot(b, m + 1) PROVE FALSE
  <2>1. i \in 1..Height(b) /\ m + 1 \in 1..Height(b)
    BY Heights
  <2>2. i = m + 1
    BY <1>3, <2>1, SlotsDiffer
  <2> QED
    BY <2>2
<1> QED
  BY <1>2, <1>3 DEF Stack

(* There is nothing below the first slot.                                  *)
LEMMA EmptyStack == \A b : Stack(b, 0) = {}
BY DEF Stack

(* A broker in the stack stands on its upstream.                           *)
LEMMA BrokerStandsOnUpstream ==
    ASSUME NEW b \in Bridges, NEW m \in 0..Height(b), NEW k \in ServicesOf(b),
           Broker(k) \in Stack(b, m)
    PROVE  Upstream(k) \in Stack(b, m)
<1>1. PICK i \in 1..m : Broker(k) = Slot(b, i)
  BY DEF Stack
<1>2. i \in 1..Height(b) /\ 2 * k \in 1..Height(b) /\ Slot(b, 2 * k) = Broker(k)
  BY SlotIs, Heights
<1>3. i = 2 * k
  BY <1>1, <1>2, SlotsDiffer
<1>4. 2 * k - 1 \in 1..m /\ Slot(b, 2 * k - 1) = Upstream(k)
  BY <1>3, SlotIs, Heights DEF ServicesOf
<1> QED
  BY <1>4 DEF Stack

(* Discovery is in the stack only when everything is.                      *)
LEMMA DiscoveryIsOnTop ==
    ASSUME NEW b \in Bridges, NEW m \in 0..Height(b)
    PROVE  /\ Discovery \in Stack(b, m) <=> m = Height(b)
           /\ m = Height(b) => \A k \in ServicesOf(b) :
                 Upstream(k) \in Stack(b, m) /\ Broker(k) \in Stack(b, m)
<1>1. Height(b) \in 1..Height(b) /\ Slot(b, Height(b)) = Discovery
  BY SlotIs, Heights
<1>2. ASSUME NEW i \in 1..m, Discovery = Slot(b, i) PROVE m = Height(b)
  <2>1. i \in 1..Height(b)
    BY Heights
  <2>2. i = Height(b)
    BY <1>1, <1>2, <2>1, SlotsDiffer
  <2> QED
    BY <2>2, Heights
<1>3. m = Height(b) => Discovery \in Stack(b, m)
  BY <1>1 DEF Stack
<1>4. m = Height(b) => \A k \in ServicesOf(b) :
         Upstream(k) \in Stack(b, m) /\ Broker(k) \in Stack(b, m)
  BY SlotIs DEF Stack
<1> QED
  BY <1>2, <1>3, <1>4 DEF Stack

(* resources.push keeps the order.                                         *)
LEMMA AppendInOrder ==
    ASSUME NEW b \in Bridges, NEW s \in Seq(Resources), InOrder(b, s),
           Len(s) < Height(b), NEW r, r = Slot(b, Len(s) + 1)
    PROVE  /\ Append(s, r) \in Seq(Resources) /\ InOrder(b, Append(s, r))
           /\ Len(Append(s, r)) = Len(s) + 1
<1>1. r \in Resources
  BY SlotTyped, Heights
<1>2. /\ Append(s, r) \in Seq(Resources) /\ Len(Append(s, r)) = Len(s) + 1
      /\ \A i \in 1..Len(s) : Append(s, r)[i] = s[i]
      /\ Append(s, r)[Len(s) + 1] = r
  BY <1>1
<1>3. \A i \in 1..(Len(s) + 1) : Append(s, r)[i] = Slot(b, i)
  BY <1>2 DEF InOrder
<1> QED
  BY <1>2, <1>3, Heights DEF InOrder

(* [...resources].reverse() lists the stack from the top.                  *)
LEMMA ReverseInReverse ==
    ASSUME NEW b \in Bridges, NEW s \in Seq(Resources), InOrder(b, s)
    PROVE  /\ Reverse(s) \in Seq(Resources) /\ InReverse(b, Reverse(s))
           /\ Len(Reverse(s)) = Len(s)
<1>1. Len(s) \in Nat /\ \A i \in 1..Len(s) : s[i] \in Resources
  OBVIOUS
<1>2. \A i \in 1..Len(s) : (Len(s) - i) + 1 \in 1..Len(s)
  BY <1>1
<1>3. Reverse(s) \in [1..Len(s) -> Resources]
  BY <1>1, <1>2 DEF Reverse
<1>4. Reverse(s) \in Seq(Resources) /\ Len(Reverse(s)) = Len(s)
  BY <1>1, <1>3
<1>5. \A i \in 1..Len(s) : Reverse(s)[i] = Slot(b, Len(s) + 1 - i)
  <2>1. ASSUME NEW i \in 1..Len(s) PROVE Reverse(s)[i] = Slot(b, Len(s) + 1 - i)
    <3>1. Reverse(s)[i] = s[(Len(s) - i) + 1]
      BY DEF Reverse
    <3>2. s[(Len(s) - i) + 1] = Slot(b, (Len(s) - i) + 1)
      BY <1>2 DEF InOrder
    <3>3. (Len(s) - i) + 1 = Len(s) + 1 - i
      BY <1>1
    <3> QED
      BY <3>1, <3>2, <3>3
  <2> QED
    BY <2>1
<1> QED
  BY <1>4, <1>5 DEF InReverse, InOrder

(* The next resource to close is the top of the stack.                     *)
LEMMA TopComesFirst ==
    ASSUME NEW b \in Bridges, NEW s \in Seq(Resources), InReverse(b, s), s # <<>>
    PROVE  /\ Len(s) \in 1..Height(b) /\ Head(s) = Slot(b, Len(s))
           /\ Tail(s) \in Seq(Resources) /\ InReverse(b, Tail(s))
           /\ Len(Tail(s)) = Len(s) - 1
<1>1. /\ Len(s) \in Nat \ {0} /\ Head(s) = s[1]
      /\ Tail(s) \in Seq(Resources) /\ Len(Tail(s)) = Len(s) - 1
      /\ \A i \in 1..(Len(s) - 1) : Tail(s)[i] = s[i + 1]
  OBVIOUS
<1>2. Len(s) \in 1..Height(b) /\ s[1] = Slot(b, Len(s))
  BY <1>1, Heights DEF InReverse
<1>3. PICK n \in Nat : n = Len(s)
  BY <1>1
<1>4. ASSUME NEW i \in 1..(n - 1) PROVE Tail(s)[i] = Slot(b, (n - 1) + 1 - i)
  <2>1. i + 1 \in 1..n /\ n + 1 - (i + 1) = (n - 1) + 1 - i
    OBVIOUS
  <2>2. s[i + 1] = Slot(b, n + 1 - (i + 1))
    BY <1>3, <2>1 DEF InReverse
  <2> QED
    BY <1>1, <1>3, <2>1, <2>2
<1>5. Len(Tail(s)) = n - 1 /\ n - 1 <= Height(b)
  BY <1>1, <1>2, <1>3, Heights
<1>6. InReverse(b, Tail(s))
  BY <1>4, <1>5 DEF InReverse
<1> QED
  BY <1>1, <1>2, <1>6

-----------------------------------------------------------------------------
(* The properties of one bridge, from the invariant.                       *)

(* Whatever a bridge that has not exited does, what stands is a stack.     *)
LEMMA SomethingStands ==
    ASSUME OperationalInv, NEW b \in Bridges, phase[b] # "exited"
    PROVE  \E m \in 0..Height(b) : Standing(b, m)
<1>1. BridgeInv(b) /\ resources[b] \in Seq(Resources)
      /\ cleaning[b] \in BOOLEAN
      /\ \A c \in Cleaners : teardown[b][c].left \in Seq(Resources)
  BY DEF OperationalInv, BridgeTypeOK
<1>2. CASE ~cleaning[b]
  <2>1. Standing(b, Len(resources[b])) /\ Len(resources[b]) \in 0..Height(b)
    BY <1>1, <1>2, Heights DEF BridgeInv, Growing, Standing, InOrder
  <2> QED
    BY <2>1
<1>3. CASE cleaning[b]
  <2>1. CASE \A c \in Cleaners : teardown[b][c].state # "closing"
    BY <1>1, <1>3, <2>1, Heights DEF BridgeInv, Shrinking
  <2>2. ASSUME NEW c \in Cleaners, teardown[b][c].state = "closing"
        PROVE  \E m \in 0..Height(b) : Standing(b, m)
    <3>1. /\ Standing(b, Len(teardown[b][c].left))
          /\ Len(teardown[b][c].left) \in 0..Height(b)
      BY <1>1, <1>3, <2>2, Heights DEF BridgeInv, Shrinking, InReverse
    <3> QED
      BY <3>1
  <2> QED
    BY <2>1, <2>2
<1> QED
  BY <1>1, <1>2, <1>3

(* Resources that shrink from the top are closed in reverse, once, and     *)
(* completely.                                                             *)
LEMMA InvImpliesTeardown == OperationalInv => TeardownIsExact
<1> SUFFICES ASSUME OperationalInv PROVE TeardownIsExact
  OBVIOUS
<1>1. BrokerHasUpstream
  <2> SUFFICES ASSUME NEW b \in Bridges, NEW i \in ServicesOf(b), Broker(i) \in running[b],
                      Broker(i) \notin stuck[b]
               PROVE  Upstream(i) \in running[b]
    BY DEF BrokerHasUpstream
  <2>1. phase[b] # "exited"
    BY DEF OperationalInv, BridgeInv
  <2>2. PICK m \in 0..Height(b) : Standing(b, m)
    BY <2>1, SomethingStands
  <2> QED
    BY <2>2, BrokerStandsOnUpstream DEF Standing
<1>2. NothingLeftBehind
  <2> SUFFICES ASSUME NEW b \in Bridges, cleaning[b],
                      \A c \in Cleaners : teardown[b][c].state # "closing"
               PROVE  running[b] \subseteq stuck[b]
    BY DEF NothingLeftBehind
  <2>1. BridgeInv(b)
    BY DEF OperationalInv
  <2>2. CASE phase[b] = "exited"
    BY <2>1, <2>2 DEF BridgeInv
  <2>3. CASE phase[b] # "exited"
    BY <2>1, <2>3, EmptyStack DEF BridgeInv, Shrinking, Standing
  <2> QED
    BY <2>2, <2>3
<1>3. ClosedOnce
  <2> SUFFICES ASSUME NEW b \in Bridges, NEW c \in Cleaners, phase[b] # "exited"
               PROVE  /\ ToSet(teardown[b][c].left) \subseteq running[b] \ stuck[b]
                      /\ \A d \in Cleaners \ {c} : teardown[b][d].left # <<>>
                                          => teardown[b][c].left = <<>>
    BY DEF ClosedOnce
  <2>1. /\ BridgeInv(b) /\ cleaning[b] \in BOOLEAN
        /\ \A d \in Cleaners : teardown[b][d].left \in Seq(Resources)
    BY DEF OperationalInv, BridgeTypeOK
  <2>2. CASE ~cleaning[b]
    <3>1. \A d \in Cleaners : teardown[b][d].left = <<>>
      BY <2>1, <2>2 DEF BridgeInv, Growing, NotCalled
    <3> QED
      BY <3>1 DEF ToSet
  <2>3. CASE cleaning[b]
    <3>1. Shrinking(b)
      BY <2>1, <2>3 DEF BridgeInv
    <3>2. \A d \in Cleaners \ {c} : teardown[b][d].left # <<>> => teardown[b][c].left = <<>>
      BY <3>1 DEF Shrinking
    <3>3. CASE teardown[b][c].left = <<>>
      BY <3>2, <3>3 DEF ToSet
    <3>4. CASE teardown[b][c].left # <<>>
      <4> DEFINE s == teardown[b][c].left
      <4>1. InReverse(b, s) /\ Standing(b, Len(s)) /\ s \in Seq(Resources)
        BY <2>1, <3>1, <3>4 DEF Shrinking
      <4>2. DOMAIN s = 1..Len(s) /\ Len(s) \in Nat
        BY <4>1
      <4>3. ASSUME NEW i \in DOMAIN s PROVE s[i] \in Stack(b, Len(s))
        <5>1. Len(s) + 1 - i \in 1..Len(s) /\ s[i] = Slot(b, Len(s) + 1 - i)
          BY <4>1, <4>2 DEF InReverse
        <5> QED
          BY <5>1 DEF Stack
      <4> QED
        BY <3>2, <4>1, <4>3 DEF ToSet, Standing
    <3> QED
      BY <3>3, <3>4
  <2> QED
    BY <2>1, <2>2, <2>3
<1> QED
  BY <1>1, <1>2, <1>3 DEF TeardownIsExact

-----------------------------------------------------------------------------
(* The steps.                                                              *)

\* The step does not concern bridge d.
Same(d) ==
    /\ phase'[d] = phase[d] /\ resources'[d] = resources[d] /\ running'[d] = running[d]
    /\ stuck'[d] = stuck[d] /\ services'[d] = services[d]
    /\ teardown'[d] = teardown[d] /\ cleaning'[d] = cleaning[d]
    /\ stopping'[d] = stopping[d]

(* A step of one process keeps the invariant of the others.                *)
LEMMA OnlyOneMoves ==
    ASSUME OperationalInv, NEW b \in Bridges, BridgeTypeOK', BridgeInv(b)',
           \A d \in Bridges \ {b} : Same(d)
    PROVE  OperationalInv'
<1>1. ASSUME NEW d \in Bridges \ {b} PROVE BridgeInv(d)'
  <2>1. BridgeInv(d) /\ Same(d)
    BY DEF OperationalInv
  <2>2. Growing(d) => Growing(d)'
    BY <2>1 DEF Same, Growing, InOrder
  <2>3. Shrinking(d) => Shrinking(d)'
    BY <2>1 DEF Same, Shrinking, InReverse, Standing
  <2> QED
    BY <2>1, <2>2, <2>3 DEF BridgeInv, Same
<1> QED
  BY <1>1 DEF OperationalInv

(* cleanup() called by one that is not closing yet.                        *)
LEMMA CleanupBegins ==
    ASSUME OperationalInv, NEW b \in Bridges, NEW c \in Cleaners,
           phase[b] \in {"starting", "up"}, teardown[b][c].state # "closing",
           BeginCleanup(b, c), UNCHANGED <<phase, resources, running, stuck, services>>
    PROVE  /\ teardown' \in [Bridges -> [Cleaners ->
                 [state : {"idle", "closing", "done"}, left : Seq(Resources)]]]
           /\ cleaning' \in [Bridges -> BOOLEAN]
           /\ cleaning'[b] /\ Shrinking(b)'
           /\ \A d \in Bridges \ {b} : teardown'[d] = teardown[d] /\ cleaning'[d] = cleaning[d]
           /\ \A x \in Cleaners \ {c} : teardown'[b][x] = teardown[b][x]
<1> DEFINE Calls == [state : {"idle", "closing", "done"}, left : Seq(Resources)]
<1>1. /\ BridgeInv(b) /\ resources[b] \in Seq(Resources) /\ cleaning[b] \in BOOLEAN
      /\ teardown \in [Bridges -> [Cleaners -> Calls]] /\ cleaning \in [Bridges -> BOOLEAN]
  BY DEF OperationalInv, BridgeTypeOK
<1>2. ASSUME NEW k \in Calls, teardown' = [teardown EXCEPT ![b][c] = k]
      PROVE  /\ teardown' \in [Bridges -> [Cleaners -> Calls]]
             /\ \A d \in Bridges \ {b} : teardown'[d] = teardown[d]
             /\ teardown'[b][c] = k
             /\ \A x \in Cleaners \ {c} : teardown'[b][x] = teardown[b][x]
  BY <1>1, <1>2
<1> HIDE DEF Calls
<1>3. CASE cleaning[b]
  <2>1. /\ teardown' = [teardown EXCEPT ![b][c] = Returned] /\ cleaning' = cleaning
        /\ Returned \in Calls /\ Returned.state = "done" /\ Returned.left = <<>>
    BY <1>3 DEF BeginCleanup, Returned, Calls
  <2>2. Shrinking(b)
    BY <1>1, <1>3 DEF BridgeInv
  <2>3. \A x \in Cleaners : teardown'[b][x] = IF x = c THEN Returned ELSE teardown[b][x]
    BY <1>2, <2>1
  <2>4. Shrinking(b)'
    BY <2>1, <2>2, <2>3 DEF Shrinking, InReverse, Standing
  <2> QED
    BY <1>1, <1>2, <1>3, <2>1, <2>4 DEF Calls
<1>4. CASE ~cleaning[b]
  <2>1. PICK k : k = [state |-> "closing", left |-> Reverse(resources[b])]
    OBVIOUS
  <2>2. Growing(b) /\ running[b] = Stack(b, Len(resources[b])) /\ stuck[b] = {}
    BY <1>1, <1>4 DEF BridgeInv, Growing
  <2>3. /\ k.left \in Seq(Resources) /\ InReverse(b, k.left) /\ k.state = "closing"
        /\ Len(k.left) = Len(resources[b])
    BY <1>1, <2>1, <2>2, ReverseInReverse DEF Growing
  <2>4. k \in Calls
    BY <2>1, <2>3 DEF Calls
  <2>5. /\ teardown' = [teardown EXCEPT ![b][c] = k]
        /\ cleaning' = [cleaning EXCEPT ![b] = TRUE]
    BY <1>4, <2>1 DEF BeginCleanup
  <2>6. \A x \in Cleaners : teardown'[b][x] = IF x = c THEN k ELSE NotCalled
    BY <1>2, <2>2, <2>4, <2>5 DEF Growing
  <2>7. NotCalled.state = "idle" /\ NotCalled.left = <<>>
    BY DEF NotCalled
  <2>8. Standing(b, Len(k.left))'
    BY <2>2, <2>3 DEF Standing
  <2>9. Shrinking(b)'
    BY <2>3, <2>6, <2>7, <2>8 DEF Shrinking, InReverse, Standing
  <2>10. cleaning' \in [Bridges -> BOOLEAN] /\ cleaning'[b]
         /\ \A d \in Bridges \ {b} : cleaning'[d] = cleaning[d]
    BY <1>1, <2>5
  <2> QED
    BY <1>2, <2>4, <2>5, <2>9, <2>10 DEF Calls
<1> QED
  BY <1>1, <1>3, <1>4

(* A resource is opened on top of the stack.                               *)
LEMMA OpenStacks ==
    ASSUME OperationalInv, NEW b \in Bridges, phase[b] = "starting", ~cleaning[b],
           NEW r, r = Slot(b, Len(resources[b]) + 1), Open(b, r)
    PROVE  /\ resources' \in [Bridges -> Seq(Resources)]
           /\ running' \in [Bridges -> SUBSET Resources]
           /\ InOrder(b, resources[b])' /\ Len(resources[b]) \in Nat
           /\ Len(resources[b])' = Len(resources[b]) + 1
           /\ running'[b] = Stack(b, Len(resources[b]))'
           /\ \A d \in Bridges \ {b} : resources'[d] = resources[d] /\ running'[d] = running[d]
<1>1. /\ Growing(b) /\ resources[b] \in Seq(Resources) /\ running[b] \in SUBSET Resources
      /\ resources \in [Bridges -> Seq(Resources)] /\ running \in [Bridges -> SUBSET Resources]
  BY DEF OperationalInv, BridgeTypeOK, BridgeInv
<1>2. /\ InOrder(b, resources[b]) /\ running[b] = Stack(b, Len(resources[b]))
      /\ Len(resources[b]) \in Nat /\ Len(resources[b]) < Height(b)
  BY <1>1, Heights DEF Growing
<1>3. PICK s : s = Append(resources[b], r)
  OBVIOUS
<1>4. /\ s \in Seq(Resources) /\ InOrder(b, s) /\ Len(s) = Len(resources[b]) + 1
  BY <1>1, <1>2, <1>3, AppendInOrder
<1>5. r \in Resources
  BY <1>2, SlotTyped, Heights
<1>6. Stack(b, Len(resources[b]) + 1) = Stack(b, Len(resources[b])) \cup {r}
  BY <1>2, StackGrows
<1>7. /\ resources' = [resources EXCEPT ![b] = s]
      /\ running' = [running EXCEPT ![b] = running[b] \cup {r}]
  BY <1>3 DEF Open
<1>8. resources'[b] = s /\ running'[b] = running[b] \cup {r}
  BY <1>1, <1>7
<1>9. /\ resources' \in [Bridges -> Seq(Resources)]
      /\ running' \in [Bridges -> SUBSET Resources]
      /\ \A d \in Bridges \ {b} : resources'[d] = resources[d] /\ running'[d] = running[d]
  BY <1>1, <1>4, <1>5, <1>7
<1>10. InOrder(b, resources[b])' /\ Len(resources[b])' = Len(resources[b]) + 1
  BY <1>4, <1>8 DEF InOrder
<1>11. running'[b] = Stack(b, Len(resources[b]))'
  BY <1>2, <1>6, <1>8, <1>10
<1> QED
  BY <1>2, <1>9, <1>10, <1>11

(* The number of resources tells which half of a binding is next.          *)
LEMMA Halves ==
    ASSUME NEW k \in Nat, NEW l \in Nat, NEW n \in Nat, k <= n, l <= 2 * n,
           l = 2 * k \/ l = 2 * k + 1
    PROVE  /\ l % 2 = 1 <=> l = 2 * k + 1
           /\ k + 1 \notin 1..n => l = 2 * n
<1>1. (2 * k) % 2 = 0 /\ (2 * k + 1) % 2 = 1
  OBVIOUS
<1>2. ASSUME k + 1 \notin 1..n PROVE l = 2 * n
  <2>1. k = n
    BY <1>2
  <2> QED
    BY <2>1
<1> QED
  BY <1>1, <1>2

(* A resource that opens is the next slot.                                 *)
LEMMA OpensKeep ==
    ASSUME OperationalInv, NEW b \in Bridges,
           OpenUpstream(b) \/ OpenBroker(b) \/ DiscoveryBinds(b)
    PROVE  OperationalInv'
<1>0. /\ BridgeTypeOK /\ BridgeInv(b) /\ phase[b] = "starting" /\ ~cleaning[b] /\ Growing(b)
  BY DEF OperationalInv, BridgeInv, OpenUpstream, OpenBroker, DiscoveryBinds
<1> DEFINE len == Len(resources[b])
<1>1. /\ services[b] \in Nat /\ services[b] <= NumServices[b] /\ len \in Nat
      /\ len \in {2 * services[b], 2 * services[b] + 1} /\ len <= 2 * NumServices[b]
      /\ stuck[b] = {} /\ \A c \in Cleaners : teardown[b][c] = NotCalled
  BY <1>0 DEF Growing, BridgeTypeOK
<1>a. PICK k \in Nat, n \in Nat, l \in Nat :
        /\ k = services[b] /\ n = NumServices[b] /\ l = len
        /\ k <= n /\ (l = 2 * k \/ l = 2 * k + 1) /\ l <= 2 * n
  BY <1>1, Heights
<1>2. UpstreamIsUp(b) <=> len = 2 * services[b] + 1
  <2>1. l % 2 = 1 <=> l = 2 * k + 1
    BY <1>a, Halves
  <2> QED
    BY <1>a, <2>1 DEF UpstreamIsUp
<1>3. CASE OpenUpstream(b)
  <2>1. /\ Open(b, Upstream(services[b] + 1)) /\ services[b] + 1 \in ServicesOf(b)
        /\ len = 2 * services[b]
        /\ UNCHANGED <<phase, stuck, services, teardown, cleaning, waiter, stopping, smoke>>
    BY <1>1, <1>2, <1>3 DEF OpenUpstream, Current
  <2>2. len + 1 = 2 * (services[b] + 1) - 1
    BY <1>1, <2>1
  <2>3. Upstream(services[b] + 1) = Slot(b, len + 1)
    BY <2>1, <2>2, SlotIs
  <2>4. /\ resources' \in [Bridges -> Seq(Resources)]
        /\ running' \in [Bridges -> SUBSET Resources]
        /\ InOrder(b, resources[b])' /\ Len(resources[b])' = len + 1
        /\ running'[b] = Stack(b, Len(resources[b]))'
        /\ \A d \in Bridges \ {b} : resources'[d] = resources[d] /\ running'[d] = running[d]
    BY <1>0, <2>1, <2>3, OpenStacks
  <2>5. BridgeTypeOK'
    BY <1>0, <2>1, <2>4 DEF BridgeTypeOK
  <2>6. Len(resources[b])' = 2 * services[b] + 1 /\ Len(resources[b])' <= 2 * NumServices[b]
    BY <1>1, <2>1, <2>4, Heights DEF ServicesOf
  <2>7. Growing(b)'
    BY <1>0, <1>1, <2>1, <2>4, <2>6 DEF Growing
  <2>8. BridgeInv(b)'
    BY <1>0, <2>1, <2>7 DEF BridgeInv
  <2>9. \A d \in Bridges \ {b} : Same(d)
    BY <2>1, <2>4 DEF Same
  <2> QED
    BY <2>5, <2>8, <2>9, OnlyOneMoves
<1>4. CASE OpenBroker(b)
  <2>1. /\ Open(b, Broker(services[b] + 1)) /\ services[b] + 1 \in ServicesOf(b)
        /\ len = 2 * services[b] + 1 /\ services' = [services EXCEPT ![b] = services[b] + 1]
        /\ UNCHANGED <<phase, stuck, teardown, cleaning, waiter, stopping, smoke>>
    BY <1>1, <1>2, <1>4 DEF OpenBroker, Current
  <2>2. len + 1 = 2 * (services[b] + 1)
    BY <1>1, <2>1
  <2>3. Broker(services[b] + 1) = Slot(b, len + 1)
    BY <2>1, <2>2, SlotIs
  <2>4. /\ resources' \in [Bridges -> Seq(Resources)]
        /\ running' \in [Bridges -> SUBSET Resources]
        /\ InOrder(b, resources[b])' /\ Len(resources[b])' = len + 1
        /\ running'[b] = Stack(b, Len(resources[b]))'
        /\ \A d \in Bridges \ {b} : resources'[d] = resources[d] /\ running'[d] = running[d]
    BY <1>0, <2>1, <2>3, OpenStacks
  <2>5. /\ services' \in [Bridges -> Nat] /\ \A d \in Bridges : services'[d] <= NumServices[d]
        /\ services'[b] = services[b] + 1 /\ \A d \in Bridges \ {b} : services'[d] = services[d]
    <3>1. services \in [Bridges -> Nat] /\ \A d \in Bridges : services[d] <= NumServices[d]
      BY <1>0 DEF BridgeTypeOK, ServicesOf
    <3>2. services[b] + 1 \in Nat /\ services[b] + 1 <= NumServices[b]
      BY <2>1, <3>1, Heights DEF ServicesOf
    <3>3. services' = [services EXCEPT ![b] = services[b] + 1]
      BY <2>1
    <3> QED BY <3>1, <3>2, <3>3
  <2>6. BridgeTypeOK'
    BY <1>0, <2>1, <2>4, <2>5 DEF BridgeTypeOK
  <2>7. Len(resources[b])' = 2 * services'[b] /\ Len(resources[b])' <= 2 * NumServices[b]
    <3>1. k + 1 <= n /\ l = 2 * k + 1
      BY <1>a, <2>1 DEF ServicesOf
    <3>2. l + 1 = 2 * (k + 1) /\ l + 1 <= 2 * n
      BY <3>1
    <3> QED
      BY <1>a, <2>4, <2>5, <3>2
  <2>8. Growing(b)'
    BY <1>0, <1>1, <2>1, <2>4, <2>7 DEF Growing
  <2>9. BridgeInv(b)'
    BY <1>0, <2>1, <2>8 DEF BridgeInv
  <2>10. \A d \in Bridges \ {b} : Same(d)
    BY <2>1, <2>4, <2>5 DEF Same
  <2> QED
    BY <2>6, <2>9, <2>10, OnlyOneMoves
<1>5. CASE DiscoveryBinds(b)
  <2>1. /\ Open(b, Discovery) /\ services[b] + 1 \notin ServicesOf(b)
        /\ phase' = [phase EXCEPT ![b] = "up"]
        /\ UNCHANGED <<stuck, services, teardown, cleaning, waiter, stopping, smoke>>
    BY <1>5 DEF DiscoveryBinds, Current
  <2>2. len + 1 = Height(b)
    <3>1. k + 1 \notin 1..n
      BY <1>a, <2>1 DEF ServicesOf
    <3>2. l = 2 * n
      BY <1>a, <3>1, Halves
    <3>3. l + 1 = 2 * n + 1
      BY <3>2
    <3> QED
      BY <1>a, <3>3 DEF Height
  <2>3. Discovery = Slot(b, len + 1)
    BY <2>2, SlotIs
  <2>4. /\ resources' \in [Bridges -> Seq(Resources)]
        /\ running' \in [Bridges -> SUBSET Resources]
        /\ InOrder(b, resources[b])' /\ Len(resources[b])' = len + 1
        /\ running'[b] = Stack(b, Len(resources[b]))'
        /\ \A d \in Bridges \ {b} : resources'[d] = resources[d] /\ running'[d] = running[d]
    BY <1>0, <2>1, <2>3, OpenStacks
  <2>5. /\ phase' \in [Bridges -> {"off", "starting", "up", "exited"}]
        /\ phase'[b] = "up" /\ \A d \in Bridges \ {b} : phase'[d] = phase[d]
    BY <1>0, <2>1 DEF BridgeTypeOK
  <2>6. BridgeTypeOK'
    BY <1>0, <2>1, <2>4, <2>5 DEF BridgeTypeOK
  <2>7. Growing(b)'
    BY <1>0, <1>1, <2>1, <2>2, <2>4, <2>5 DEF Growing
  <2>8. BridgeInv(b)'
    BY <1>0, <2>1, <2>5, <2>7 DEF BridgeInv
  <2>9. \A d \in Bridges \ {b} : Same(d)
    BY <2>1, <2>4, <2>5 DEF Same
  <2> QED
    BY <2>6, <2>8, <2>9, OnlyOneMoves
<1> QED
  BY <1>3, <1>4, <1>5

(* The start is accepted or rejected.                                      *)
LEMMA StartsKeep ==
    ASSUME OperationalInv, NEW b \in Bridges, StartBridge(b) \/ Reject(b)
    PROVE  OperationalInv'
<1>1. PICK p \in {"starting", "exited"} :
        /\ phase' = [phase EXCEPT ![b] = p] /\ phase[b] = "off"
        /\ UNCHANGED <<resources, running, stuck, services, teardown, cleaning, waiter, stopping, smoke>>
  BY DEF StartBridge, Reject
<1>2. /\ BridgeTypeOK /\ BridgeInv(b) /\ cleaning[b] \in BOOLEAN
  BY DEF OperationalInv, BridgeTypeOK
<1>3. /\ phase' \in [Bridges -> {"off", "starting", "up", "exited"}]
      /\ phase'[b] = p /\ \A d \in Bridges \ {b} : phase'[d] = phase[d]
  BY <1>1, <1>2 DEF BridgeTypeOK
<1>4. BridgeTypeOK'
  BY <1>1, <1>2, <1>3 DEF BridgeTypeOK
<1>5. ~cleaning[b] /\ Growing(b) /\ resources[b] = <<>> /\ services[b] = 0
  BY <1>1, <1>2 DEF BridgeInv, Shrinking, Growing
<1>6. running[b] = {} /\ Len(resources[b]) = 0
  BY <1>5, EmptyStack DEF Growing
<1>7. Growing(b)'
  <2>1. Len(resources[b])' \in {2 * services'[b], 2 * services'[b] + 1}
        /\ Len(resources[b])' <= 2 * NumServices[b]
    BY <1>1, <1>5, <1>6, Heights
  <2> QED
    BY <1>1, <1>3, <1>5, <2>1 DEF Growing, InOrder
<1>8. BridgeInv(b)'
  BY <1>1, <1>2, <1>3, <1>5, <1>6, <1>7 DEF BridgeInv
<1>9. \A d \in Bridges \ {b} : Same(d)
  BY <1>1, <1>3 DEF Same
<1> QED
  BY <1>4, <1>8, <1>9, OnlyOneMoves

(* A step of cleanup(): one awaited close(), or the return.                *)
LEMMA ClosesKeep ==
    ASSUME OperationalInv, NEW b \in Bridges, NEW c \in Cleaners,
           CloseResource(b, c) \/ CleanupReturns(b, c)
    PROVE  OperationalInv'
<1> DEFINE Calls == [state : {"idle", "closing", "done"}, left : Seq(Resources)]
           s == teardown[b][c].left
<1>1. /\ BridgeTypeOK /\ BridgeInv(b) /\ phase[b] # "exited" /\ cleaning[b] \in BOOLEAN
      /\ teardown \in [Bridges -> [Cleaners -> Calls]] /\ s \in Seq(Resources)
      /\ running[b] \in SUBSET Resources /\ stuck[b] \in SUBSET Resources
      /\ UNCHANGED <<phase, services, cleaning, stopping, smoke>>
      /\ waiter' \in [Bridges -> {"none", "holds", "left"}]
  BY DEF OperationalInv, BridgeTypeOK, CloseResource, CleanupReturns
<1>2. cleaning[b] /\ Shrinking(b) /\ teardown[b][c].state = "closing"
  <2>1. teardown[b][c] # NotCalled
    <3>1. NotCalled.state = "idle" /\ NotCalled.left = <<>>
      BY DEF NotCalled
    <3>2. CASE CloseResource(b, c)
      <4>1. teardown[b][c].left # <<>>
        BY <3>2 DEF CloseResource
      <4> QED BY <3>1, <4>1
    <3>3. CASE CleanupReturns(b, c)
      <4>1. teardown[b][c].state = "closing"
        BY <3>3 DEF CleanupReturns
      <4> QED BY <3>1, <4>1
    <3> QED BY <3>2, <3>3
  <2>2. cleaning[b] /\ Shrinking(b)
    BY <1>1, <2>1 DEF BridgeInv, Growing
  <2>3. CASE CloseResource(b, c)
    <3>1. teardown[b][c].left # <<>>
      BY <2>3 DEF CloseResource
    <3> QED BY <2>2, <3>1 DEF Shrinking
  <2>4. CASE CleanupReturns(b, c)
    <3>1. teardown[b][c].state = "closing"
      BY <2>4 DEF CleanupReturns
    <3> QED BY <2>2, <3>1
  <2> QED
    BY <2>3, <2>4
<1>3. InReverse(b, s) /\ Standing(b, Len(s)) /\ phase[b] # "off"
      /\ \A x \in Cleaners \ {c} : /\ teardown[b][x].state # "closing"
                                   /\ teardown[b][x].left = <<>>
  BY <1>2 DEF Shrinking
<1>4. ASSUME NEW k \in Calls, teardown' = [teardown EXCEPT ![b][c] = k]
      PROVE  /\ teardown' \in [Bridges -> [Cleaners -> Calls]]
             /\ \A d \in Bridges \ {b} : teardown'[d] = teardown[d]
             /\ \A x \in Cleaners : teardown'[b][x] = IF x = c THEN k ELSE teardown[b][x]
  BY <1>1, <1>4
<1>5. ~stopping[b] => c # "shutdown"
  BY <1>1, <1>2 DEF BridgeInv, NotCalled
<1>6. ~stopping[b] => "shutdown" \in Cleaners /\ teardown[b]["shutdown"] = NotCalled
  BY <1>1 DEF BridgeInv, Cleaners
<1> HIDE DEF Calls
<1>7. CASE CleanupReturns(b, c)
  <2>1. /\ teardown' = [teardown EXCEPT ![b][c] = Returned] /\ s = <<>>
        /\ resources' = [resources EXCEPT ![b] = <<>>] /\ UNCHANGED <<running, stuck>>
    BY <1>7 DEF CleanupReturns
  <2>2. Returned \in Calls /\ Returned.state = "done" /\ Returned.left = <<>>
    BY DEF Returned, Calls
  <2>3. resources' \in [Bridges -> Seq(Resources)]
        /\ \A d \in Bridges \ {b} : resources'[d] = resources[d]
    BY <1>1, <2>1 DEF BridgeTypeOK
  <2>4. BridgeTypeOK'
    BY <1>1, <1>4, <2>1, <2>2, <2>3 DEF BridgeTypeOK, Calls
  <2>5. \A x \in Cleaners : teardown'[b][x].state # "closing" /\ teardown'[b][x].left = <<>>
    BY <1>3, <1>4, <2>1, <2>2
  <2>6. Standing(b, 0)'
    BY <1>3, <2>1 DEF Standing
  <2>7. Shrinking(b)'
    BY <1>1, <1>3, <2>5, <2>6 DEF Shrinking
  <2>8. BridgeInv(b)'
    BY <1>1, <1>2, <1>4, <1>5, <1>6, <2>1, <2>2, <2>7 DEF BridgeInv
  <2>9. \A d \in Bridges \ {b} : Same(d)
    BY <1>1, <1>4, <2>1, <2>2, <2>3 DEF Same
  <2> QED
    BY <2>4, <2>8, <2>9, OnlyOneMoves
<1>8. CASE CloseResource(b, c)
  <2>1. s # <<>> /\ UNCHANGED resources
        /\ teardown' = [teardown EXCEPT ![b][c].left = Tail(@)]
    BY <1>8 DEF CloseResource
  <2>2. PICK m \in Nat : m = Len(s) - 1
    BY <1>1, <1>3, <2>1, TopComesFirst
  <2>3. /\ m < Height(b) /\ Len(s) = m + 1 /\ Head(s) = Slot(b, m + 1)
        /\ Tail(s) \in Seq(Resources) /\ InReverse(b, Tail(s)) /\ Len(Tail(s)) = m
    BY <1>1, <1>3, <2>1, <2>2, TopComesFirst, Heights
  <2>4. PICK k : k = [state |-> "closing", left |-> Tail(s)]
    OBVIOUS
  <2>5. k \in Calls /\ k.state = "closing" /\ k.left = Tail(s)
    BY <2>3, <2>4 DEF Calls
  <2>6. teardown' = [teardown EXCEPT ![b][c] = k]
    <3>1. PICK a : a = teardown[b][c] /\ a = [state |-> "closing", left |-> a.left]
      <4>1. teardown[b][c] \in Calls
        BY <1>1
      <4> QED
        BY <1>2, <4>1 DEF Calls
    <3>t. PICK t : t = Tail(a.left)
      OBVIOUS
    <3>2. PICK j : j = [a EXCEPT !.left = t]
      OBVIOUS
    <3>3. j = k
      <4>0. a = [state |-> "closing", left |-> a.left]
        BY <3>1
      <4>1. j = [state |-> "closing", left |-> t]
        BY <4>0, <3>2
      <4> QED
        BY <2>4, <3>1, <3>t, <4>1
    <3>4. teardown' = [teardown EXCEPT ![b][c] = j]
      BY <2>1, <3>1, <3>t, <3>2
    <3> QED
      BY <3>3, <3>4
  <2>7. /\ running[b] \ stuck[b] = Stack(b, m) \cup {Head(s)} /\ Head(s) \notin Stack(b, m)
        /\ Head(s) \in Resources
    <3>1. m + 1 \in 1..Height(b)
      BY <2>3, Heights
    <3> QED
      BY <1>3, <2>3, <3>1, StackGrows, SlotTyped DEF Standing
  <2>8. /\ running' \in [Bridges -> SUBSET Resources] /\ stuck' \in [Bridges -> SUBSET Resources]
        /\ \A d \in Bridges \ {b} : running'[d] = running[d] /\ stuck'[d] = stuck[d]
        /\ \/ running'[b] = running[b] \ {Head(s)} /\ stuck'[b] = stuck[b]
           \/ /\ stuck'[b] = stuck[b] \cup {Head(s)} /\ running'[b] = running[b]
              /\ Head(s) # Discovery
    <3>1. \/ running' = [running EXCEPT ![b] = running[b] \ {Head(s)}] /\ stuck' = stuck
          \/ /\ stuck' = [stuck EXCEPT ![b] = stuck[b] \cup {Head(s)}] /\ running' = running
             /\ Head(s) # Discovery
      BY <1>8 DEF CloseResource
    <3>2. running \in [Bridges -> SUBSET Resources] /\ stuck \in [Bridges -> SUBSET Resources]
      BY <1>1 DEF BridgeTypeOK
    <3> QED
      BY <2>7, <3>1, <3>2
  <2>9. running'[b] \ stuck'[b] = Stack(b, m)
    BY <2>7, <2>8
  <2>10. BridgeTypeOK'
    BY <1>1, <1>4, <2>1, <2>5, <2>6, <2>8 DEF BridgeTypeOK, Calls
  <2>11. \A x \in Cleaners : teardown'[b][x] = IF x = c THEN k ELSE teardown[b][x]
    BY <1>4, <2>5, <2>6
  <2>12. Shrinking(b)'
    BY <1>1, <1>3, <2>3, <2>5, <2>9, <2>11 DEF Shrinking, InReverse, Standing
  <2>13. Discovery \notin stuck'[b]
    BY <1>1, <2>8 DEF BridgeInv
  <2>14. BridgeInv(b)'
    BY <1>1, <1>2, <1>5, <1>6, <2>11, <2>12, <2>13 DEF BridgeInv
  <2>15. \A d \in Bridges \ {b} : Same(d)
    BY <1>1, <1>4, <2>1, <2>5, <2>6, <2>8 DEF Same
  <2> QED
    BY <2>10, <2>14, <2>15, OnlyOneMoves
<1> QED
  BY <1>7, <1>8

(* A failed start, a call of close(), a signal or a failed smoke test      *)
(* calls cleanup().                                                        *)
LEMMA CleanupCallsKeep ==
    ASSUME OperationalInv, NEW b \in Bridges, NEW c \in Cleaners,
           phase[b] \in {"starting", "up"}, teardown[b][c].state # "closing",
           BeginCleanup(b, c),
           UNCHANGED <<phase, resources, running, stuck, services, waiter, smoke>>,
           stopping' \in [Bridges -> BOOLEAN],
           \A d \in Bridges \ {b} : stopping'[d] = stopping[d],
           ~stopping'[b] => ~stopping[b] /\ c # "shutdown"
    PROVE  OperationalInv'
<1>1. BridgeTypeOK /\ BridgeInv(b)
  BY DEF OperationalInv
<1>2. /\ teardown' \in [Bridges -> [Cleaners ->
            [state : {"idle", "closing", "done"}, left : Seq(Resources)]]]
      /\ cleaning' \in [Bridges -> BOOLEAN]
      /\ cleaning'[b] /\ Shrinking(b)'
      /\ \A d \in Bridges \ {b} : teardown'[d] = teardown[d] /\ cleaning'[d] = cleaning[d]
      /\ \A x \in Cleaners \ {c} : teardown'[b][x] = teardown[b][x]
  BY CleanupBegins
<1>3. BridgeTypeOK'
  BY <1>1, <1>2 DEF BridgeTypeOK
<1>4. ~stopping'[b] => teardown'[b]["shutdown"] = NotCalled
  BY <1>1, <1>2 DEF BridgeInv, Cleaners
<1>5. BridgeInv(b)'
  BY <1>1, <1>2, <1>4 DEF BridgeInv
<1>6. \A d \in Bridges \ {b} : Same(d)
  BY <1>2 DEF Same
<1> QED
  BY <1>3, <1>5, <1>6, OnlyOneMoves

(* process.exit.                                                           *)
LEMMA ExitsKeep ==
    ASSUME OperationalInv, NEW b \in Bridges, Exit(b),
           UNCHANGED <<resources, stuck, services, teardown, cleaning, waiter, smoke>>,
           stopping' \in [Bridges -> BOOLEAN],
           \A d \in Bridges \ {b} : stopping'[d] = stopping[d]
    PROVE  OperationalInv'
<1>1. BridgeTypeOK /\ BridgeInv(b)
  BY DEF OperationalInv
<1>2. /\ phase' \in [Bridges -> {"off", "starting", "up", "exited"}]
      /\ running' \in [Bridges -> SUBSET Resources]
      /\ phase'[b] = "exited" /\ running'[b] = {}
      /\ \A d \in Bridges \ {b} : phase'[d] = phase[d] /\ running'[d] = running[d]
  BY <1>1 DEF Exit, BridgeTypeOK
<1>3. BridgeTypeOK'
  BY <1>1, <1>2 DEF BridgeTypeOK
<1>4. BridgeInv(b)'
  BY <1>1, <1>2 DEF BridgeInv
<1>5. \A d \in Bridges \ {b} : Same(d)
  BY <1>2 DEF Same
<1> QED
  BY <1>3, <1>4, <1>5, OnlyOneMoves

(* A step that leaves every bridge's resources alone.                      *)
LEMMA QuietKeeps ==
    ASSUME OperationalInv, BridgeTypeOK', \A d \in Bridges : Same(d)
    PROVE  OperationalInv'
<1>1. ASSUME NEW d \in Bridges PROVE BridgeInv(d)'
  <2>1. BridgeInv(d) /\ Same(d)
    BY DEF OperationalInv
  <2>2. Growing(d) => Growing(d)'
    BY <2>1 DEF Same, Growing, InOrder
  <2>3. Shrinking(d) => Shrinking(d)'
    BY <2>1 DEF Same, Shrinking, InReverse, Standing
  <2> QED
    BY <2>1, <2>2, <2>3 DEF BridgeInv, Same
<1> QED
  BY <1>1 DEF OperationalInv

(* Nothing runs before the first start.                                    *)
LEMMA OperationalInvInit == BridgeInit => OperationalInv
<1> SUFFICES ASSUME BridgeInit PROVE OperationalInv
  OBVIOUS
<1>1. <<>> \in Seq(Resources) /\ Len(<<>>) = 0
  OBVIOUS
<1>2. NotCalled \in [state : {"idle", "closing", "done"}, left : Seq(Resources)]
      /\ NotCalled.state = "idle"
  BY DEF NotCalled
<1>3. BridgeTypeOK
  BY <1>2, Heights DEF BridgeInit, BridgeTypeOK
<1>4. ASSUME NEW b \in Bridges PROVE BridgeInv(b)
  <2>1. /\ phase[b] = "off" /\ resources[b] = <<>> /\ running[b] = {} /\ stuck[b] = {}
        /\ services[b] = 0 /\ ~cleaning[b]
        /\ \A c \in Cleaners : teardown[b][c] = NotCalled
    BY DEF BridgeInit
  <2>2. InOrder(b, <<>>)
    BY <1>1, Heights DEF InOrder
  <2>3. Growing(b)
    BY <1>1, <2>1, <2>2, EmptyStack DEF Growing
  <2>4. teardown[b]["shutdown"] = NotCalled
    BY <2>1 DEF Cleaners
  <2> QED
    BY <2>1, <2>3, <2>4 DEF BridgeInv
<1> QED
  BY <1>3, <1>4 DEF OperationalInv

(* One case per action.                                                    *)
LEMMA OperationalInductive == OperationalInv /\ [BridgeNext]_operationalVars => OperationalInv'
<1> SUFFICES ASSUME OperationalInv, [BridgeNext]_operationalVars PROVE OperationalInv'
  OBVIOUS
<1>t. /\ BridgeTypeOK /\ \A b \in Bridges : BridgeInv(b) /\ cleaning[b] \in BOOLEAN
      /\ stopping \in [Bridges -> BOOLEAN]
      /\ "startup" \in Cleaners /\ "shutdown" \in Cleaners /\ "startup" # "shutdown"
  BY DEF OperationalInv, BridgeTypeOK, Cleaners
<1>n. NotCalled.state # "closing"
  BY DEF NotCalled
<1>1. ASSUME NEW b \in Bridges, StartBridge(b) \/ Reject(b) PROVE OperationalInv'
  BY <1>1, StartsKeep
<1>2. ASSUME NEW b \in Bridges, OpenUpstream(b) \/ OpenBroker(b) \/ DiscoveryBinds(b)
      PROVE  OperationalInv'
  BY <1>2, OpensKeep
<1>3. ASSUME NEW b \in Bridges, StartupFails(b) \/ DiscoveryFails(b) PROVE OperationalInv'
  <2>1. /\ phase[b] = "starting" /\ ~cleaning[b] /\ BeginCleanup(b, "startup")
        /\ UNCHANGED <<phase, resources, running, stuck, services, waiter, stopping, smoke>>
    BY <1>3 DEF StartupFails, DiscoveryFails
  <2>2. teardown[b]["startup"].state # "closing"
    BY <1>t, <1>n, <2>1 DEF BridgeInv, Growing
  <2> QED
    BY <1>t, <2>1, <2>2, CleanupCallsKeep
<1>4. ASSUME NEW b \in Bridges, NEW c \in Cleaners,
             CloseResource(b, c) \/ CleanupReturns(b, c)
      PROVE  OperationalInv'
  BY <1>4, ClosesKeep
<1>5. ASSUME NEW b \in Bridges, ProcessExits(b) PROVE OperationalInv'
  <2>1. Exit(b) /\ UNCHANGED <<resources, stuck, services, teardown, cleaning, waiter, stopping, smoke>>
    BY <1>5 DEF ProcessExits
  <2> QED
    BY <1>t, <2>1, ExitsKeep
<1>6. ASSUME NEW b \in Bridges, SmokeRequest(b) PROVE OperationalInv'
  <2>1. PICK i \in ServicesOf(b) : smoke' = [smoke EXCEPT ![b] = @ \cup {i}]
    BY <1>6 DEF SmokeRequest
  <2>2. UNCHANGED <<phase, resources, running, stuck, services, teardown, cleaning, waiter, stopping>>
    BY <1>6 DEF SmokeRequest
  <2>3. i \in Positions
    BY DEF Positions
  <2>4. smoke' \in [Bridges -> SUBSET Positions]
    BY <1>t, <2>1, <2>3 DEF BridgeTypeOK
  <2>5. BridgeTypeOK'
    BY <1>t, <2>2, <2>4 DEF BridgeTypeOK
  <2> QED
    BY <2>2, <2>5, QuietKeeps DEF Same
<1>7. ASSUME NEW b \in Bridges, phase[b] = "up", ~stopping[b], Shutdown(b),
             UNCHANGED <<phase, resources, running, stuck, services, waiter, smoke>>
      PROVE  OperationalInv'
  <2>1. /\ stopping' = [stopping EXCEPT ![b] = TRUE] /\ BeginCleanup(b, "shutdown")
    BY <1>7 DEF Shutdown
  <2>2. /\ stopping' \in [Bridges -> BOOLEAN] /\ stopping'[b]
        /\ \A d \in Bridges \ {b} : stopping'[d] = stopping[d]
    BY <1>t, <2>1
  <2>3. teardown[b]["shutdown"].state # "closing"
    BY <1>t, <1>n, <1>7 DEF BridgeInv
  <2> QED
    BY <1>t, <1>7, <2>1, <2>2, <2>3, CleanupCallsKeep
<1>8. ASSUME NEW b \in Bridges, Signal(b) PROVE OperationalInv'
  <2>1. CASE phase[b] = "up"
    BY <1>7, <1>8, <2>1 DEF Signal
  <2>2. CASE phase[b] # "up"
    <3>1. /\ stopping' = [stopping EXCEPT ![b] = TRUE] /\ Exit(b)
          /\ UNCHANGED <<resources, stuck, services, teardown, cleaning, waiter, smoke>>
      BY <1>8, <2>2 DEF Signal
    <3>2. /\ stopping' \in [Bridges -> BOOLEAN]
          /\ \A d \in Bridges \ {b} : stopping'[d] = stopping[d]
      BY <1>t, <3>1
    <3> QED
      BY <3>1, <3>2, ExitsKeep
  <2> QED
    BY <2>1, <2>2
<1>9. ASSUME NEW b \in Bridges, SmokeFails(b) PROVE OperationalInv'
  BY <1>7, <1>9 DEF SmokeFails
<1>10. ASSUME NEW b \in Bridges, NEW c \in Callers, CloseCalled(b, c) PROVE OperationalInv'
  <2>1. /\ phase[b] = "up" /\ teardown[b][c] = NotCalled /\ BeginCleanup(b, c)
        /\ UNCHANGED <<phase, resources, running, stuck, services, waiter, stopping, smoke>>
    BY <1>10 DEF CloseCalled
  <2>2. c \in Cleaners /\ c # "shutdown"
    BY CallersAssumption DEF Cleaners
  <2> QED
    BY <1>t, <1>n, <2>1, <2>2, CleanupCallsKeep
<1>11. ASSUME NEW b \in Bridges, ConnectionHeld(b) \/ ConnectionDropped(b) PROVE OperationalInv'
  <2>1. /\ waiter' \in [Bridges -> {"none", "holds", "left"}]
        /\ UNCHANGED <<phase, resources, running, stuck, services, teardown, cleaning,
                       stopping, smoke>>
    BY <1>t, <1>11 DEF ConnectionHeld, ConnectionDropped, BridgeTypeOK
  <2>2. BridgeTypeOK' /\ \A d \in Bridges : Same(d)
    BY <1>t, <2>1 DEF BridgeTypeOK, Same
  <2> QED
    BY <2>2, QuietKeeps
<1>12. ASSUME NEW b \in Bridges, SecondSignal(b) PROVE OperationalInv'
  <2>1. Exit(b) /\ UNCHANGED <<resources, stuck, services, teardown, cleaning, waiter, stopping,
                               smoke>>
    BY <1>12 DEF SecondSignal
  <2> QED
    BY <1>t, <2>1, ExitsKeep
<1>13. CASE UNCHANGED operationalVars
  <2>1. BridgeTypeOK' /\ \A d \in Bridges : Same(d)
    BY <1>t, <1>13 DEF BridgeTypeOK, operationalVars, Same
  <2> QED
    BY <2>1, QuietKeeps
<1> QED
  BY <1>1, <1>2, <1>3, <1>4, <1>5, <1>6, <1>8, <1>9, <1>10, <1>11, <1>12, <1>13 DEF BridgeNext, Progress

(* The invariant holds in every reachable state.                           *)
THEOREM OperationalInvariant == BridgeSpec => []OperationalInv
BY OperationalInvInit, OperationalInductive, PTL DEF BridgeSpec

(* Every variable of the operational bridge keeps its type.                *)
THEOREM OperationalTypes == BridgeSpec => []BridgeTypeOK
<1>1. OperationalInv => BridgeTypeOK
  BY DEF OperationalInv
<1> QED
  BY <1>1, OperationalInvariant, PTL

(* operational-bridge: close() and a failed start close every resource     *)
(* once, in the reverse of the order in which they were opened, and leave  *)
(* nothing but what refused to close.                                      *)
THEOREM TeardownsAreExact == BridgeSpec => []TeardownIsExact
BY InvImpliesTeardown, OperationalInvariant, PTL

-----------------------------------------------------------------------------
(* The bridge implements OperationalOffer.                                 *)

\* The bridge will not be published again, as the refinement maps it.
Retired(b) ==
    /\ cleaning[b] \/ phase[b] = "exited"
    /\ Discovery \notin running[b]

(* The abstract offer of each bridge: what an agent finds through its      *)
(* discovery.                                                              *)
OfferMap == [b \in Bridges |-> Offered(b)]

(* The bridges that have withdrawn their offer for good.                   *)
RetiredMap == [b \in Bridges |-> Retired(b)]

(* An agent that finds the discovery endpoint finds every service.         *)
LEMMA OfferIsWhole ==
    ASSUME OperationalInv, NEW b \in Bridges
    PROVE  /\ Offered(b) = IF Discovery \in running[b] THEN ServicesOf(b) ELSE {}
           /\ ServicesOf(b) # {}
           /\ Discovery \in running[b] /\ ~cleaning[b] => phase[b] = "up"
           /\ phase[b] = "up" /\ ~cleaning[b] => Discovery \in running[b]
           /\ phase[b] \in {"off", "exited"} => Discovery \notin running[b]
<1>1. BridgeInv(b) /\ phase[b] \in {"off", "starting", "up", "exited"}
      /\ resources[b] \in Seq(Resources)
  BY DEF OperationalInv, BridgeTypeOK
<1>2. ServicesOf(b) # {}
  BY Heights DEF ServicesOf
<1>3. ASSUME Discovery \in running[b]
      PROVE  \A k \in ServicesOf(b) : Upstream(k) \in running[b] /\ Broker(k) \in running[b]
  <2>1. phase[b] # "exited"
    BY <1>1, <1>3 DEF BridgeInv
  <2>2. PICK m \in 0..Height(b) : Standing(b, m)
    BY <2>1, SomethingStands
  <2>3. Discovery \in Stack(b, m)
    BY <1>1, <1>3, <2>2 DEF Standing, BridgeInv
  <2> QED
    BY <2>2, <2>3, DiscoveryIsOnTop DEF Standing
<1>4. Offered(b) = IF Discovery \in running[b] THEN ServicesOf(b) ELSE {}
  BY <1>3 DEF Offered
<1>5. ASSUME ~cleaning[b], phase[b] # "exited"
      PROVE  Discovery \in running[b] <=> phase[b] = "up"
  <2>1. Growing(b)
    BY <1>1, <1>5 DEF BridgeInv
  <2>2. Len(resources[b]) \in 0..Height(b) /\ (phase[b] = "up" <=> Len(resources[b]) = Height(b))
    BY <1>1, <1>5, <2>1, Heights DEF Growing, InOrder
  <2> QED
    BY <2>1, <2>2, DiscoveryIsOnTop DEF Growing
<1>6. phase[b] = "exited" => Discovery \notin running[b]
  BY <1>1 DEF BridgeInv
<1>7. phase[b] = "off" => ~cleaning[b]
  BY <1>1 DEF BridgeInv, Shrinking
<1> QED
  BY <1>2, <1>4, <1>5, <1>6, <1>7

(* The same of the next state.                                             *)
LEMMA OfferIsWholeNext ==
    OperationalInv' => \A b \in Bridges :
        Offered(b)' = IF Discovery \in running'[b] THEN ServicesOf(b) ELSE {}
<1>1. OperationalInv => \A b \in Bridges :
         Offered(b) = IF Discovery \in running[b] THEN ServicesOf(b) ELSE {}
  BY OfferIsWhole
<1>2. (OperationalInv => \A b \in Bridges :
         Offered(b) = IF Discovery \in running[b] THEN ServicesOf(b) ELSE {})'
  BY <1>1, PTL
<1> QED
  BY <1>2 DEF ServicesOf

(* What a step of one process does to the abstract state.                  *)
LEMMA OneOfferMoves ==
    ASSUME NEW b \in Bridges, \A d \in Bridges \ {b} : Same(d),
           NEW o, o = Offered(b)', NEW t \in BOOLEAN, t <=> Retired(b)'
    PROVE  /\ OfferMap' = [OfferMap EXCEPT ![b] = o]
           /\ RetiredMap' = [RetiredMap EXCEPT ![b] = t]
<1>1. ASSUME NEW d \in Bridges \ {b}
      PROVE  Offered(d)' = Offered(d) /\ (Retired(d)' <=> Retired(d))
  BY DEF Same, Offered, Retired
<1>2. OfferMap' = [OfferMap EXCEPT ![b] = o]
  BY <1>1 DEF OfferMap
<1>3. RetiredMap' = [RetiredMap EXCEPT ![b] = t]
  <2>1. \A d \in Bridges : Retired(d) \in BOOLEAN /\ Retired(d)' \in BOOLEAN
    BY DEF Retired
  <2>2. \A d \in Bridges : Retired(d)' = IF d = b THEN t ELSE Retired(d)
    BY <1>1, <2>1
  <2> QED
    BY <2>2 DEF RetiredMap
<1> QED
  BY <1>2, <1>3

(* A step that never un-retires a bridge, takes the endpoint down only for *)
(* good and puts it up only when the port was free is a step of the        *)
(* abstract specification, or none.                                        *)
LEMMA MovesRefine ==
    ASSUME OperationalInv, OperationalInv', NEW b \in Bridges,
           \A d \in Bridges \ {b} : Same(d),
           Retired(b) => Retired(b)',
           Discovery \in running[b] /\ Discovery \notin running'[b] => Retired(b)',
           Discovery \notin running[b] /\ Discovery \in running'[b] =>
               PortFree /\ ~Retired(b)
    PROVE  [Offer!Next]_<<OfferMap, RetiredMap>>
<1>1. /\ Offered(b) = IF Discovery \in running[b] THEN ServicesOf(b) ELSE {}
      /\ ServicesOf(b) # {}
      /\ \A d \in Bridges : Discovery \notin running[d] => Offered(d) = {}
  BY OfferIsWhole
<1>2. Offered(b)' = IF Discovery \in running'[b] THEN ServicesOf(b) ELSE {}
  BY OfferIsWholeNext
<1>3. PICK t \in BOOLEAN : t <=> Retired(b)'
  OBVIOUS
<1>4. /\ OfferMap' = [OfferMap EXCEPT ![b] = IF Discovery \in running'[b] THEN ServicesOf(b) ELSE {}]
      /\ RetiredMap' = [RetiredMap EXCEPT ![b] = t]
  BY <1>2, <1>3, OneOfferMoves
<1>5. /\ \A d \in Bridges : OfferMap[d] = Offered(d) /\ (RetiredMap[d] <=> Retired(d))
      /\ OfferMap = [d \in Bridges |-> OfferMap[d]]
      /\ RetiredMap = [d \in Bridges |-> RetiredMap[d]]
  BY DEF OfferMap, RetiredMap
<1>6. RetiredMap[b] = Retired(b) /\ Retired(b) \in BOOLEAN
  BY DEF RetiredMap, Retired
<1>7. CASE Discovery \in running[b] <=> Discovery \in running'[b]
  <2>1. OfferMap' = OfferMap
    BY <1>1, <1>4, <1>5, <1>7
  <2>2. CASE ~t
    <3>1. RetiredMap[b] = t
      BY <1>3, <1>6, <2>2
    <3> QED
      BY <1>4, <1>5, <2>1, <3>1
  <2>3. CASE t
    <3>1. Discovery \notin running[b]
      BY <1>3, <1>7, <2>3 DEF Retired
    <3>2. OfferMap[b] = {} /\ RetiredMap' = [RetiredMap EXCEPT ![b] = TRUE]
      BY <1>1, <1>4, <1>5, <2>3, <3>1
    <3>3. Offer!Retire(b)
      BY <2>1, <3>2 DEF Offer!Retire, OfferMap, RetiredMap, Retired
    <3> QED
      BY <3>3 DEF Offer!Next
  <2> QED
    BY <2>2, <2>3
<1>8. CASE Discovery \in running[b] /\ Discovery \notin running'[b]
  <2>1. OfferMap[b] # {} /\ OfferMap' = [OfferMap EXCEPT ![b] = {}]
        /\ RetiredMap' = [RetiredMap EXCEPT ![b] = TRUE]
    BY <1>1, <1>3, <1>4, <1>5, <1>8
  <2>2. Offer!Withdraw(b)
    BY <2>1 DEF Offer!Withdraw, OfferMap, RetiredMap, Retired
  <2> QED
    BY <2>2 DEF Offer!Next
<1>9. CASE Discovery \notin running[b] /\ Discovery \in running'[b]
  <2>1. PortFree /\ ~Retired(b) /\ ~t
    BY <1>3, <1>9 DEF Retired
  <2>2. \A d \in Bridges : OfferMap[d] = {}
    BY <1>1, <1>5, <2>1 DEF PortFree
  <2>3. ~RetiredMap[b] /\ RetiredMap' = RetiredMap
    BY <1>4, <1>5, <1>6, <2>1
  <2>4. OfferMap' = [OfferMap EXCEPT ![b] = ServicesOf(b)]
    BY <1>4, <1>9
  <2>5. Offer!Publish(b)
    BY <2>2, <2>3, <2>4 DEF Offer!Publish, OfferMap, RetiredMap, Retired
  <2> QED
    BY <2>5 DEF Offer!Next
<1> QED
  BY <1>7, <1>8, <1>9

(* A step that leaves the endpoint as it is and retires no bridge that is  *)
(* still found.                                                            *)
LEMMA QuietRefines ==
    ASSUME OperationalInv, OperationalInv', NEW b \in Bridges,
           \A d \in Bridges \ {b} : Same(d),
           Discovery \in running[b] <=> Discovery \in running'[b],
           Retired(b) => Retired(b)'
    PROVE  [Offer!Next]_<<OfferMap, RetiredMap>>
BY MovesRefine

(* Every step of the bridge is a step of the offer, or none.               *)
LEMMA StepsRefine ==
    ASSUME OperationalInv, OperationalInv', [BridgeNext]_operationalVars
    PROVE  [Offer!Next]_<<OfferMap, RetiredMap>>
<1>t. BridgeTypeOK
  BY DEF OperationalInv
<1>w. ASSUME NEW b \in Bridges
      PROVE  /\ Discovery \in running[b] /\ ~cleaning[b] => phase[b] = "up"
             /\ phase[b] = "up" /\ ~cleaning[b] => Discovery \in running[b]
             /\ phase[b] \in {"off", "exited"} => Discovery \notin running[b]
  BY OfferIsWhole
<1>c. ASSUME NEW b \in Bridges, NEW c \in Cleaners, BeginCleanup(b, c),
             phase[b] \in {"starting", "up"},
             UNCHANGED <<phase, resources, running, stuck, services, waiter, smoke>>,
             \A d \in Bridges \ {b} : stopping'[d] = stopping[d]
      PROVE  [Offer!Next]_<<OfferMap, RetiredMap>>
  <2>1. /\ \A d \in Bridges \ {b} : teardown'[d] = teardown[d] /\ cleaning'[d] = cleaning[d]
        /\ cleaning'[b] = TRUE \/ cleaning'[b] = cleaning[b]
    BY <1>t, <1>c DEF BeginCleanup, BridgeTypeOK
  <2>2. \A d \in Bridges \ {b} : Same(d)
    BY <1>c, <2>1 DEF Same
  <2>3. Retired(b) => Retired(b)'
    BY <1>c, <2>1 DEF Retired
  <2> QED
    BY <1>c, <2>2, <2>3, QuietRefines
<1>x. ASSUME NEW b \in Bridges, Exit(b),
             UNCHANGED <<resources, stuck, services, teardown, cleaning, waiter, smoke>>,
             \A d \in Bridges \ {b} : stopping'[d] = stopping[d]
      PROVE  [Offer!Next]_<<OfferMap, RetiredMap>>
  <2>1. /\ phase'[b] = "exited" /\ running'[b] = {}
        /\ \A d \in Bridges \ {b} : phase'[d] = phase[d] /\ running'[d] = running[d]
    BY <1>t, <1>x DEF Exit, BridgeTypeOK
  <2>2. \A d \in Bridges \ {b} : Same(d)
    BY <1>x, <2>1 DEF Same
  <2>3. Retired(b)' /\ Discovery \notin running'[b]
    BY <2>1 DEF Retired
  <2> QED
    BY <2>2, <2>3, MovesRefine
<1>1. ASSUME NEW b \in Bridges, StartBridge(b) \/ Reject(b)
      PROVE  [Offer!Next]_<<OfferMap, RetiredMap>>
  <2>1. /\ UNCHANGED <<resources, running, stuck, services, teardown, cleaning, waiter, stopping>>
        /\ phase[b] = "off" /\ \A d \in Bridges \ {b} : phase'[d] = phase[d]
    BY <1>1, <1>t DEF StartBridge, Reject, BridgeTypeOK
  <2>2. \A d \in Bridges \ {b} : Same(d)
    BY <2>1 DEF Same
  <2>3. Retired(b) => Retired(b)'
    BY <2>1 DEF Retired
  <2> QED
    BY <2>1, <2>2, <2>3, QuietRefines
<1>2. ASSUME NEW b \in Bridges, NEW r, r # Discovery, Open(b, r),
             UNCHANGED <<phase, stuck, teardown, cleaning, stopping>>,
             \A d \in Bridges \ {b} : services'[d] = services[d]
      PROVE  [Offer!Next]_<<OfferMap, RetiredMap>>
  <2>1. /\ \A d \in Bridges \ {b} : resources'[d] = resources[d] /\ running'[d] = running[d]
        /\ running'[b] = running[b] \cup {r}
    BY <1>2, <1>t DEF Open, BridgeTypeOK
  <2>2. \A d \in Bridges \ {b} : Same(d)
    BY <1>2, <2>1 DEF Same
  <2>3. Retired(b) => Retired(b)'
    BY <1>2, <2>1 DEF Retired
  <2> QED
    BY <1>2, <2>1, <2>2, <2>3, QuietRefines
<1>3. ASSUME NEW b \in Bridges, OpenUpstream(b) \/ OpenBroker(b)
      PROVE  [Offer!Next]_<<OfferMap, RetiredMap>>
  <2>1. PICK r : /\ r # Discovery /\ Open(b, r)
                 /\ UNCHANGED <<phase, stuck, teardown, cleaning, stopping>>
    BY <1>3, ResourcesDiffer DEF OpenUpstream, OpenBroker
  <2>2. \A d \in Bridges \ {b} : services'[d] = services[d]
    BY <1>3, <1>t DEF OpenUpstream, OpenBroker, BridgeTypeOK
  <2> QED
    BY <1>2, <2>1, <2>2
<1>4. ASSUME NEW b \in Bridges, DiscoveryBinds(b)
      PROVE  [Offer!Next]_<<OfferMap, RetiredMap>>
  <2>1. /\ phase[b] = "starting" /\ ~cleaning[b] /\ PortFree
        /\ UNCHANGED <<stuck, services, teardown, cleaning, stopping>>
        /\ \A d \in Bridges \ {b} : /\ resources'[d] = resources[d]
                                    /\ running'[d] = running[d] /\ phase'[d] = phase[d]
        /\ running'[b] = running[b] \cup {Discovery}
    BY <1>4, <1>t DEF DiscoveryBinds, Open, BridgeTypeOK
  <2>2. \A d \in Bridges \ {b} : Same(d)
    BY <2>1 DEF Same
  <2>3. ~Retired(b) /\ Discovery \notin running[b]
    BY <2>1 DEF Retired, PortFree
  <2> QED
    BY <2>1, <2>2, <2>3, MovesRefine
<1>5. ASSUME NEW b \in Bridges, StartupFails(b) \/ DiscoveryFails(b)
      PROVE  [Offer!Next]_<<OfferMap, RetiredMap>>
  <2>1. "startup" \in Cleaners
    BY DEF Cleaners
  <2> QED
    BY <1>5, <1>c, <2>1 DEF StartupFails, DiscoveryFails
<1>6. ASSUME NEW b \in Bridges, NEW c \in Cleaners, CloseResource(b, c)
      PROVE  [Offer!Next]_<<OfferMap, RetiredMap>>
  <2>1. /\ phase[b] # "exited" /\ teardown[b][c].left # <<>>
        /\ UNCHANGED <<phase, resources, services, cleaning, stopping>>
        /\ \A d \in Bridges \ {b} : /\ running'[d] = running[d] /\ stuck'[d] = stuck[d]
                                    /\ teardown'[d] = teardown[d]
        /\ running'[b] \subseteq running[b]
    BY <1>6, <1>t DEF CloseResource, BridgeTypeOK
  <2>2. cleaning[b]
    <3>1. BridgeInv(b) /\ cleaning[b] \in BOOLEAN
      BY <1>t DEF OperationalInv, BridgeTypeOK
    <3> QED
      BY <2>1, <3>1 DEF BridgeInv, Growing, NotCalled
  <2>3. \A d \in Bridges \ {b} : Same(d)
    BY <2>1 DEF Same
  <2>4. Discovery \notin running'[b] => Retired(b)'
    BY <2>1, <2>2 DEF Retired
  <2>5. Discovery \in running'[b] => Discovery \in running[b] /\ ~Retired(b)
    BY <2>1 DEF Retired
  <2> QED
    BY <2>3, <2>4, <2>5, MovesRefine
<1>7. ASSUME NEW b \in Bridges, NEW c \in Cleaners, CleanupReturns(b, c)
      PROVE  [Offer!Next]_<<OfferMap, RetiredMap>>
  <2>1. /\ UNCHANGED <<phase, running, stuck, services, cleaning, stopping>>
        /\ \A d \in Bridges \ {b} : resources'[d] = resources[d] /\ teardown'[d] = teardown[d]
    BY <1>7, <1>t DEF CleanupReturns, BridgeTypeOK
  <2>2. (\A d \in Bridges \ {b} : Same(d)) /\ (Retired(b) => Retired(b)')
    BY <2>1 DEF Same, Retired
  <2> QED
    BY <2>1, <2>2, QuietRefines
<1>8. ASSUME NEW b \in Bridges, ProcessExits(b)
      PROVE  [Offer!Next]_<<OfferMap, RetiredMap>>
  BY <1>8, <1>x DEF ProcessExits
<1>9. ASSUME NEW b \in Bridges, SmokeRequest(b)
      PROVE  [Offer!Next]_<<OfferMap, RetiredMap>>
  <2>1. UNCHANGED <<phase, resources, running, stuck, services, teardown, cleaning, waiter, stopping>>
    BY <1>9 DEF SmokeRequest
  <2>2. (\A d \in Bridges \ {b} : Same(d)) /\ (Retired(b) => Retired(b)')
    BY <2>1 DEF Same, Retired
  <2> QED
    BY <2>1, <2>2, QuietRefines
<1>10. ASSUME NEW b \in Bridges, Signal(b) \/ SmokeFails(b)
       PROVE  [Offer!Next]_<<OfferMap, RetiredMap>>
  <2>1. \A d \in Bridges \ {b} : stopping'[d] = stopping[d]
    BY <1>10, <1>t DEF Signal, SmokeFails, Shutdown, BridgeTypeOK
  <2>2. "shutdown" \in Cleaners
    BY DEF Cleaners
  <2>3. CASE phase[b] = "up"
    <3>1. /\ BeginCleanup(b, "shutdown")
          /\ UNCHANGED <<phase, resources, running, stuck, services, waiter, smoke>>
      BY <1>10, <2>3 DEF Signal, SmokeFails, Shutdown
    <3> QED
      BY <1>c, <2>1, <2>2, <2>3, <3>1
  <2>4. CASE phase[b] # "up"
    <3>1. Exit(b) /\ UNCHANGED <<resources, stuck, services, teardown, cleaning, waiter, smoke>>
      BY <1>10, <2>4 DEF Signal, SmokeFails
    <3> QED
      BY <1>x, <2>1, <3>1
  <2> QED
    BY <2>3, <2>4
<1>11. ASSUME NEW b \in Bridges, NEW c \in Callers, CloseCalled(b, c)
       PROVE  [Offer!Next]_<<OfferMap, RetiredMap>>
  <2>1. c \in Cleaners
    BY DEF Cleaners
  <2> QED
    BY <1>c, <1>11, <2>1 DEF CloseCalled
<1>12. ASSUME NEW b \in Bridges, ConnectionHeld(b) \/ ConnectionDropped(b)
       PROVE  [Offer!Next]_<<OfferMap, RetiredMap>>
  <2>1. UNCHANGED <<phase, resources, running, stuck, services, teardown, cleaning, stopping>>
    BY <1>12 DEF ConnectionHeld, ConnectionDropped
  <2>2. (\A d \in Bridges \ {b} : Same(d)) /\ (Retired(b) => Retired(b)')
    BY <2>1 DEF Same, Retired
  <2> QED
    BY <2>1, <2>2, QuietRefines
<1>13. ASSUME NEW b \in Bridges, SecondSignal(b)
       PROVE  [Offer!Next]_<<OfferMap, RetiredMap>>
  BY <1>13, <1>x DEF SecondSignal
<1>14. CASE UNCHANGED operationalVars
  <2>1. \A d \in Bridges : Same(d)
    BY <1>14 DEF operationalVars, Same
  <2>2. \A d \in Bridges : Offered(d)' = Offered(d) /\ Retired(d)' = Retired(d)
    BY <1>14 DEF operationalVars, Offered, Retired
  <2> QED
    BY <2>2 DEF OfferMap, RetiredMap
<1> QED
  BY <1>1, <1>3, <1>4, <1>5, <1>6, <1>7, <1>8, <1>9, <1>10, <1>11, <1>12, <1>13, <1>14 DEF BridgeNext, Progress

(* No bridge offers anything at first.                                     *)
LEMMA InitRefines == BridgeInit => Offer!Init
<1> SUFFICES ASSUME BridgeInit PROVE Offer!Init
  OBVIOUS
<1>1. \A b \in Bridges : Offered(b) = {} /\ ~Retired(b)
  BY DEF BridgeInit, Offered, Retired
<1>2. \A b \in Bridges : Retired(b) = FALSE
  BY <1>1 DEF Retired
<1> QED
  BY <1>1, <1>2 DEF Offer!Init, Retired

(* The bridge implements OperationalOffer.                                 *)
THEOREM BridgeImplementsOffer == BridgeSpec => OfferIsAllOrNothing
<1>1. OperationalInv /\ OperationalInv' /\ [BridgeNext]_operationalVars
         => [Offer!Next]_<<OfferMap, RetiredMap>>
  BY StepsRefine
<1>2. OperationalInv /\ OperationalInv' /\ [BridgeNext]_operationalVars
         => [Offer!Next]_<<[b \in Bridges |-> Offered(b)],
                           [b \in Bridges |-> /\ cleaning[b] \/ phase[b] = "exited"
                                              /\ Discovery \notin running[b]]>>
  BY <1>1 DEF OfferMap, RetiredMap, Retired
<1> QED
  BY <1>2, InitRefines, OperationalInvariant, PTL DEF BridgeSpec, OfferIsAllOrNothing, Offer!Spec
=============================================================================
