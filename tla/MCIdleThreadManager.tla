-------------------------- MODULE MCIdleThreadManager --------------------------
(***************************************************************************)
(* A small instance of IdleThreadManager: two threads, one caller beside   *)
(* the handlers, two equal tasks of which one is m_bKeepSingle, and a pool *)
(* of three threads elsewhere in the process.                              *)
(***************************************************************************)
EXTENDS IdleThreadManager

CONSTANTS t1, t2, c1

MCTasks == {t1, t2}
MCKeepSingle == {t2}
MCSame == {<<t1, t2>>, <<t2, t1>>} \cup {<<t, t>> : t \in MCTasks}
=============================================================================
