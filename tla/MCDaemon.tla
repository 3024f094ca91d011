------------------------------ MODULE MCDaemon ------------------------------
(* Two days and a line that cannot be written, over a store that keeps one  *)
(* file.                                                                    *)
EXTENDS Daemon

MCDays   == {1, 2}
MCDateOf == <<1, 2, 0, 1>>
MCKinds  == {"motion", "key"}
MCKindOf == <<"key", "motion", "motion", "key">>
=============================================================================
