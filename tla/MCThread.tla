------------------------------- MODULE MCThread -------------------------------
(***************************************************************************)
(* Small instances of Thread: two levels, one of them MAXINT, a delay of   *)
(* one second and a clock with two ticks in a second.                      *)
(***************************************************************************)
EXTENDS Thread

CONSTANT p1

MCPosters == {p1}
MCLevels == {0, 1}
MCMsgIds == {1}
MCDelays == {1}
=============================================================================
