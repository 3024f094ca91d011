--------------------------- MODULE MCSessionClose ---------------------------
(* Three foreign threads: one only calls, one only closes, one does both.   *)
EXTENDS SessionClose

CONSTANTS u1, u2, u3

MCCallers == {u1, u2}
MCClosers == {u2, u3}
=============================================================================
