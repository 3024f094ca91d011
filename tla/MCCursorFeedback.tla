-------------------------- MODULE MCCursorFeedback --------------------------
(* Two observers that come and go, and two threads that close the session.  *)
EXTENDS CursorFeedback, TLC

CONSTANTS o1, o2, c1, c2

MCObservers == {o1, o2}
MCBusy      == {o1}
MCClosers   == {c1, c2}
Symmetry    == Permutations(MCClosers)
=============================================================================
