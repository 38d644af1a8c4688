----------------------------- MODULE MCOperators -----------------------------
(* The operators of brokers and their helper: a behaviour is one of two       *)
(* operational bridges on one machine, which compete for the discovery port   *)
(* and of which one starts two services, one of the Day-2 session, or one of  *)
(* a session with the install helper, the other parts staying where they      *)
(* begin.  The bridges share nothing but the port, so signals, smoke requests *)
(* and clients that hold on are taken for the larger one.                     *)
EXTENDS OperationalBridge, Day2Operator, HelperSession

CONSTANTS b1, b2, c1

VARIABLE part   \* what the behaviour is about

MCBridges == {b1, b2}
MCCallers == {c1}
MCNumServices == [b \in MCBridges |-> IF b = b1 THEN 2 ELSE 1]
MCLoginServices == [b \in MCBridges |-> IF b = b1 THEN {2} ELSE {}]

MCInit ==
    /\ BridgeInit /\ Init /\ SessionInit
    /\ part \in {"bridge", "day2", "helper"}
    /\ part # "day2" => hostReady
    /\ part # "helper" => asked = CHOOSE a \in Asked : TRUE

MCNext ==
    \/ /\ part = "bridge" /\ BridgeNext
       /\ waiter'[b2] = "none" /\ smoke'[b2] = {} /\ ~stopping'[b2]
       /\ UNCHANGED <<vars, helperVars, part>>
    \/ /\ part = "day2" /\ Next
       /\ UNCHANGED <<operationalVars, helperVars, part>>
    \/ /\ part = "helper" /\ SessionNext
       /\ UNCHANGED <<operationalVars, vars, part>>

\* The parts that stay where they begin owe no step.
MCSpec ==
    /\ MCInit /\ [][MCNext]_<<operationalVars, vars, helperVars, part>>
    /\ \A b \in Bridges : WF_operationalVars(Progress(b))
    /\ WF_vars(part = "day2" /\ Start) /\ WF_vars(Tick) /\ WF_vars(Stopping)
    /\ WF_vars(IntervalFires) /\ WF_helperVars(part = "helper" /\ Parent)
=============================================================================
