----------------------------- MODULE MCIdleThread -----------------------------
(***************************************************************************)
(* Small instances of IdleThread.  Windows: two equal client tasks of one  *)
(* client, called back with PostMessage and with SendMessage, the second   *)
(* one m_bKeepSingle, and a static task without a window, which a handler  *)
(* may submit; the client's tasks are cancelled together.  POSIX: thread   *)
(* tasks only, the third without a thread, and CancelTask(dwUniqueID),     *)
(* which with the 0 that RunTask returned selects nothing.                 *)
(***************************************************************************)
EXTENDS IdleThread

CONSTANTS t1, t2, t3, c1, c2

MCTasks == {t1, t2, t3}
MCCallers == {c1, c2}
MCSame == {<<t1, t2>>, <<t2, t1>>} \cup {<<t, t>> : t \in MCTasks}

WinType == (t1 :> "ITT_CLIENT") @@ (t2 :> "ITT_CLIENT") @@ (t3 :> "ITT_STATIC")
WinKeepSingle == {t2}
WinSync == {t2}
MCHasCallback == {t1, t2}
WinSelections == {{t1, t2}}
WinHandlerTasks == {t3}

PosixType == [t \in MCTasks |-> "ITT_THREAD"]
PosixKeepSingle == {t1, t2}
PosixSelections == {{}}
=============================================================================
