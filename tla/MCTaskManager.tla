----------------------------- MODULE MCTaskManager -----------------------------
(***************************************************************************)
(* A small instance of TaskManager: one caller, two equal tasks, the       *)
(* first delayed, the second bKeepSingle, and two agents of which one has  *)
(* no invoker for the first task.  Another manager has three agents.       *)
(***************************************************************************)
EXTENDS TaskManager

CONSTANTS t1, t2, c1, s1, s2

MCTasks == {t1, t2}
MCSubscribers == {s1, s2}
MCSame == {<<t1, t2>>, <<t2, t1>>} \cup {<<t, t>> : t \in MCTasks}
MCKeepSingle == {t2}
MCDelayed == {t1}
MCNoInvoker == {<<t1, 1>>}
=============================================================================
