----------------------------- MODULE MCReactor -----------------------------
(* Two threads; two registrations share one descriptor number.             *)
EXTENDS Reactor

CONSTANTS c1, c2

MCCallers  == {c1, c2}
MCFds      == {1}
MCDelays   == {0, 1}
=============================================================================
