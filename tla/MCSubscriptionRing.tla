------------------------- MODULE MCSubscriptionRing -------------------------
(* A small ring: one kind of each coalescing class. *)
EXTENDS SubscriptionRing

MCKinds     == {"move", "focus", "key"}
MCNeverDrop == {"key"}
=============================================================================
