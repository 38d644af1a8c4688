--------------------------- MODULE OperationalOffer ---------------------------
(***************************************************************************)
(* What an operational bridge promises an agent that reads the discovery   *)
(* endpoint: it finds either nothing, or one bridge with every service of  *)
(* its binding table alive.  A bridge is published once and withdrawn once. *)
(***************************************************************************)
EXTENDS Naturals

CONSTANTS
    Bridges,    \* processes that run startOperationalBridge
    Services    \* positions in the binding table of each process

VARIABLES
    offer,      \* the live services an agent finds at each bridge
    retired     \* the bridge will not be published again

Init ==
    /\ offer = [b \in Bridges |-> {}]
    /\ retired = [b \in Bridges |-> FALSE]

Publish(b) ==
    /\ \A c \in Bridges : offer[c] = {}
    /\ ~retired[b]
    /\ offer' = [offer EXCEPT ![b] = Services[b]]
    /\ UNCHANGED retired

Withdraw(b) ==
    /\ offer[b] # {}
    /\ offer' = [offer EXCEPT ![b] = {}]
    /\ retired' = [retired EXCEPT ![b] = TRUE]

\* A start that fails, or a process that ends, before it was published.
Retire(b) ==
    /\ offer[b] = {}
    /\ retired' = [retired EXCEPT ![b] = TRUE]
    /\ UNCHANGED offer

Next == \E b \in Bridges : Publish(b) \/ Withdraw(b) \/ Retire(b)

Spec == Init /\ [][Next]_<<offer, retired>>
=============================================================================
