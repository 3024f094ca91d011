----------------------------- MODULE MCEventBus -----------------------------
(* Small buses. *)
EXTENDS EventBus, TLC

CONSTANTS s1, s2

MCSubscribers2 == {s1, s2}

\* Two subscribers that share a kind with demand; one has a kind that coalesces,
\* the other one that is replayed and never dropped; both queues overflow.
BusKinds     == {"move", "click", "created"}
BusNeverDrop == {"created"}
BusReplay    == {"created"}
BusDemand    == {"move", "click"}
BusScope     == (s1 :> {"move", "click"} @@ s2 :> {"click", "created"})
BusCapacity  == (s1 :> 2 @@ s2 :> 1)
BusPolicy    == (s1 :> "coalesce" @@ s2 :> "neverDrop")
BusBits      == ("move" :> "motion" @@ "click" :> "button")
=============================================================================
