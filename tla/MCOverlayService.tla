-------------------------- MODULE MCOverlayService --------------------------
EXTENDS OverlayService

Shape(kind) == [kind |-> kind, pos |-> 0]

MCBatches == {<<Shape("brief"), Shape("foreign"), Shape("invalid")>>}
MCRedrawn == {Shape("animated")}
=============================================================================
