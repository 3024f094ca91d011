--------------------------- MODULE MCTimerThread ---------------------------
(* Small instances of TimerThread for TLC. *)
EXTENDS TimerThread, TLC

CONSTANTS c1, c2

MCClients == {c1, c2}
Symmetry  == Permutations(MCClients)
=============================================================================
