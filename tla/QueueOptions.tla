---------------------------- MODULE QueueOptions ----------------------------
(* The parameters of one subscription queue (QueueOptions of subscribe()).  *)
EXTENDS EventQueue

CONSTANTS
    QueueCapacity,   \* QueueOptions::capacity
    QueuePolicy,     \* QueueOptions::overflow
    LastStamp        \* the bus hands out no sequence beyond this

ASSUME QueueAssumption ==
    /\ QueueCapacity \in Nat
    /\ QueuePolicy \in Policies
    /\ LastStamp \in Nat
=============================================================================
