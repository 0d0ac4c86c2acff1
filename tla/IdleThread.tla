------------------------------ MODULE IdleThread ------------------------------
(***************************************************************************)
(* CIdleThread (core/thread/idle_thread.{h,cpp}): a worker thread with two *)
(* task lists.  Callers append to m_lstTmpTasks under m_mutexTmpTasks; the *)
(* worker moves tasks to m_lstTasks and runs them with m_mutexTasks held.  *)
(* A critical section that calls nothing is one step; the worker's, which  *)
(* calls the task handler, and those of IsTaskExist and CancelTask over    *)
(* m_lstTasks, which the worker's unguarded push_back can meet, take       *)
(* several.                                                                *)
(*                                                                         *)
(* MSVC tells the two builds apart: there a mutex is recursive, a task may *)
(* be of every type, and CancelTask(pClient) exists.                       *)
(***************************************************************************)
EXTENDS Integers, Sequences, SequencesExt, Lists

CONSTANTS
    Tasks,          \* the SIdleThreadTask objects; each is run at most once
    Callers,        \* the threads that call RunTask and CancelTask
    Worker,         \* the idle thread itself
    None,           \* no thread, no task: an unlocked mutex, end()
    MSVC,           \* TRUE: the Windows build
    MaxRunList,     \* the 5 of OnExecute (149)
    TaskType,       \* m_eTaskType of each task
    KeepSingle,     \* the tasks with m_bKeepSingle
    SyncCallback,   \* the tasks with m_bSyncCallback
    HasCallback,    \* the tasks with a window or thread to call back
    Same,           \* <<t, u>>: the compare function of the lists says equal
    Selections,     \* what one CancelTask call may select
    HandlerTasks    \* the tasks a task handler may submit to its own thread

Threads == Callers \cup {Worker}

TaskTypes == {"ITT_CLIENT", "ITT_STATIC", "ITT_THREAD"}

ASSUME IdleThreadAssumption ==
    /\ None \notin Tasks \cup Threads
    /\ Worker \notin Callers
    /\ MSVC \in BOOLEAN
    /\ MaxRunList \in Nat \ {0}
    /\ TaskType \in [Tasks -> TaskTypes]
    /\ ~MSVC => \A t \in Tasks : TaskType[t] = "ITT_THREAD"
    /\ Selections \subseteq SUBSET Tasks

VARIABLES
    m_lstTmpTasks, m_lstTasks,          \* idle_thread.h:123-125
    m_mutexTmpTasks, m_mutexTasks,      \* the thread that holds it, or None
    m_mapRetryCBNotify,                 \* the tasks in the map (127)
    wpc,            \* where OnExecute is
    it, pTask,      \* its locals
    bPostRet, bDelete,
    cpc,            \* per thread, where its RunTask or CancelTask call is
    ctask,          \* per thread, the argument of RunTask
    csel,           \* per thread, the tasks its CancelTask looks for
    stopping,       \* the destructor has begun: Stop() posted WM_QUIT
    freed,          \* the task objects deleted
    undefined,      \* the program did something that has no defined effect
    \* history
    submitted,      \* the tasks passed to RunTask
    accepts,        \* how many tasks RunTask has pushed
    ticket,         \* the order of the push_backs; 0: not accepted
    ran,            \* the tasks whose handler was called
    done,           \* the tasks the worker is through with
    cancelled,      \* the tasks CancelTask removed
    called,         \* how often a task's callback was delivered
    finished,       \* how often WM_TASK_FINISH was posted for it
    known           \* per thread, the tasks accepted before its call

lists == <<m_lstTmpTasks, m_lstTasks>>
locks == <<m_mutexTmpTasks, m_mutexTasks>>
local == <<it, pTask, bPostRet, bDelete>>
calls == <<cpc, ctask, csel, known>>
notes == <<called, finished, m_mapRetryCBNotify>>
fate  == <<submitted, accepts, ticket, ran, done, cancelled>>
vars == <<lists, locks, wpc, local, calls, notes, fate, stopping, freed, undefined>>

(* asleep: the Resume of the constructor was lost; entry: before 146; move:  *)
(* in the loop 149-154; first: at 160; test: at the head of the loop, 161;   *)
(* handler: in the task handler; notify: at the callback; erase: at 235;     *)
(* retry: in RetryCBNotify; exited: Execute has returned; gone: the          *)
(* destructor has freed the lists.                                           *)
WorkerPC == {"asleep", "entry", "move", "first", "test", "handler", "notify",
             "erase", "retry", "exited", "gone"}

(* none: in no call; scanTmp, scanLock: before the two loops of IsTaskExist; *)
(* scanTasks: in the second, m_mutexTasks held; push: past the check of      *)
(* RunTask; dump: after its push_back, at 308; cancelTmp, cancelLock: before *)
(* the two loops of CancelTask; cancelTasks: in the second.                  *)
CallPC == {"none", "scanTmp", "scanLock", "scanTasks", "push", "dump",
           "cancelTmp", "cancelLock", "cancelTasks"}

(* The threads that walk m_lstTasks in a call.                               *)
Walks(th) == cpc[th] \in {"scanTasks", "cancelTasks"}

TmpSet == ToSet(m_lstTmpTasks)
TaskSet == ToSet(m_lstTasks)
Queued == TmpSet \cup TaskSet
Accepted == {t \in Tasks : ticket[t] # 0}

(* Which thread holds which mutex follows from where the threads are.        *)
LocksHeld ==
    /\ m_mutexTmpTasks = IF wpc = "move" THEN Worker ELSE None
    /\ wpc \in {"handler", "notify", "erase"} => m_mutexTasks = Worker
    /\ \A th \in Threads : Walks(th) => m_mutexTasks = th
    /\ m_mutexTasks # None =>
           \/ m_mutexTasks = Worker /\ wpc \in {"handler", "notify", "erase"}
           \/ Walks(m_mutexTasks)
    /\ cpc[Worker] # "none" => wpc = "handler"

TypeOK ==
    /\ m_lstTmpTasks \in Seq(Tasks)
    /\ m_lstTasks \in Seq(Tasks) /\ Len(m_lstTasks) =< MaxRunList
    /\ m_mutexTmpTasks \in {Worker, None}
    /\ m_mutexTasks \in Threads \cup {None}
    /\ m_mapRetryCBNotify \subseteq Tasks
    /\ wpc \in WorkerPC
    /\ it \in Tasks \cup {None}
    /\ pTask \in Tasks \cup {None}
    /\ bPostRet \in BOOLEAN
    /\ bDelete \in BOOLEAN
    /\ cpc \in [Threads -> CallPC]
    /\ ctask \in [Threads -> Tasks \cup {None}]
    /\ csel \in [Threads -> SUBSET Tasks]
    /\ known \in [Threads -> SUBSET Tasks]
    /\ stopping \in BOOLEAN
    /\ freed \subseteq Tasks
    /\ undefined \in BOOLEAN
    /\ submitted \subseteq Tasks
    /\ accepts \in Nat
    /\ ticket \in [Tasks -> Nat]
    /\ ran \subseteq Tasks
    /\ done \subseteq Tasks
    /\ cancelled \subseteq Tasks
    /\ called \in [Tasks -> Nat]
    /\ finished \in [Tasks -> Nat]
    /\ LocksHeld

(* The thread starts suspended and is resumed (97-100).  With pthreads the    *)
(* worker may test m_eThreadState, and wait, before and after this Resume    *)
(* stores and signals (thread.cpp:66-67, 231-234), which then is lost: there *)
(* is no other.                                                              *)
Init ==
    /\ m_lstTmpTasks = <<>>
    /\ m_lstTasks = <<>>
    /\ m_mutexTmpTasks = None
    /\ m_mutexTasks = None
    /\ m_mapRetryCBNotify = {}
    /\ wpc \in IF MSVC THEN {"entry"} ELSE {"entry", "asleep"}
    /\ it = None
    /\ pTask = None
    /\ bPostRet = TRUE
    /\ bDelete = TRUE
    /\ cpc = [th \in Threads |-> "none"]
    /\ ctask = [th \in Threads |-> None]
    /\ csel = [th \in Threads |-> {}]
    /\ known = [th \in Threads |-> {}]
    /\ stopping = FALSE
    /\ freed = {}
    /\ undefined = FALSE
    /\ submitted = {}
    /\ accepts = 0
    /\ ticket = [t \in Tasks |-> 0]
    /\ ran = {}
    /\ done = {}
    /\ cancelled = {}
    /\ called = [t \in Tasks |-> 0]
    /\ finished = [t \in Tasks |-> 0]
-----------------------------------------------------------------------------
(* Where the worker and a caller are, in a program with a defined state.     *)
At(pc) == ~undefined /\ wpc = pc
InCall(th, pc) == ~undefined /\ cpc[th] = pc
-----------------------------------------------------------------------------
(* Calls from other threads, and from a handler on the worker.               *)

MayCall(th) ==
    /\ InCall(th, "none")
    /\ IF th = Worker THEN wpc = "handler" ELSE ~stopping

(* CMutexLock::Lock: a Windows mutex lets its holder in again, a pthread     *)
(* mutex of the default kind blocks its holder for ever.                     *)
CanLockTasks(th) == m_mutexTasks = None \/ (MSVC /\ m_mutexTasks = th)

(* The handler runs with m_mutexTasks held: a call it makes leaves it so.    *)
AfterUnlock(th) == IF th = Worker THEN Worker ELSE None

Goto(th, pc) ==
    /\ cpc' = [cpc EXCEPT ![th] = pc]
    /\ UNCHANGED <<ctask, csel, known>>

Return(th) ==
    /\ cpc' = [cpc EXCEPT ![th] = "none"]
    /\ ctask' = [ctask EXCEPT ![th] = None]
    /\ csel' = [csel EXCEPT ![th] = {}]
    /\ known' = [known EXCEPT ![th] = {}]

(* RunTask (295): with m_bKeepSingle, IsTaskExist comes first.               *)
CallRunTask(th, t) ==
    /\ MayCall(th)
    /\ t \in Tasks \ submitted
    /\ th = Worker => t \in HandlerTasks
    /\ submitted' = submitted \cup {t}
    /\ ctask' = [ctask EXCEPT ![th] = t]
    /\ known' = [known EXCEPT ![th] = Accepted]
    /\ cpc' = [cpc EXCEPT ![th] = IF t \in KeepSingle THEN "scanTmp" ELSE "push"]
    /\ UNCHANGED <<lists, locks, wpc, local, csel, notes, accepts, ticket,
                   ran, done, cancelled, stopping, freed, undefined>>

Equal(t, S) == \E u \in S : <<t, u>> \in Same

(* IsTaskExist, first loop (449-459); an equal task makes RunTask return 0.  *)
ScanTmp(th) ==
    /\ InCall(th, "scanTmp")
    /\ m_mutexTmpTasks = None
    /\ IF Equal(ctask[th], TmpSet) THEN Return(th) ELSE Goto(th, "scanLock")
    /\ UNCHANGED <<lists, locks, wpc, local, notes, fate, stopping, freed,
                   undefined>>

ScanLock(th) ==
    /\ InCall(th, "scanLock")
    /\ CanLockTasks(th)
    /\ m_mutexTasks' = th
    /\ Goto(th, "scanTasks")
    /\ UNCHANGED <<lists, m_mutexTmpTasks, wpc, local, notes, fate, stopping,
                   freed, undefined>>

(* IsTaskExist, second loop (463-473).                                       *)
ScanTasks(th) ==
    /\ InCall(th, "scanTasks")
    /\ m_mutexTasks' = AfterUnlock(th)
    /\ IF Equal(ctask[th], TaskSet) THEN Return(th) ELSE Goto(th, "push")
    /\ UNCHANGED <<lists, m_mutexTmpTasks, wpc, local, notes, fate, stopping,
                   freed, undefined>>

(* push_back (304-306).                                                      *)
PushTmp(th) ==
    /\ InCall(th, "push")
    /\ m_mutexTmpTasks = None
    /\ m_lstTmpTasks' = Append(m_lstTmpTasks, ctask[th])
    /\ accepts' = accepts + 1
    /\ ticket' = [ticket EXCEPT ![ctask[th]] = accepts + 1]
    /\ Goto(th, "dump")
    /\ UNCHANGED <<m_lstTasks, locks, wpc, local, notes, submitted, ran, done,
                   cancelled, stopping, freed, undefined>>

(* RunTask reads its task once more, for a log line (308), after the unlock: *)
(* it may have been deleted by then.                                         *)
ReadsFreed(th) == cpc[th] = "dump" /\ ctask[th] \in freed

DumpTask(th) ==
    /\ InCall(th, "dump")
    /\ ~ReadsFreed(th)
    /\ Return(th)
    /\ UNCHANGED <<lists, locks, wpc, local, notes, fate, stopping, freed,
                   undefined>>

CallCancelTask(th, sel) ==
    /\ MayCall(th)
    /\ csel' = [csel EXCEPT ![th] = sel]
    /\ known' = [known EXCEPT ![th] = Accepted]
    /\ cpc' = [cpc EXCEPT ![th] = "cancelTmp"]
    /\ UNCHANGED <<lists, locks, wpc, local, ctask, notes, fate, stopping,
                   freed, undefined>>

Cancel(S) ==
    /\ cancelled' = cancelled \cup S
    /\ freed' = freed \cup S

(* Faulty variant: only m_lstTasks is searched.                              *)
CancelSkipsTmp(th) ==
    /\ InCall(th, "cancelTmp")
    /\ Goto(th, "cancelLock")
    /\ UNCHANGED <<lists, locks, wpc, local, notes, fate, stopping, freed,
                   undefined>>

(* First loop (321-338, 366-383): a match here ends the call.                *)
CancelTmp(th) ==
    /\ InCall(th, "cancelTmp")
    /\ m_mutexTmpTasks = None
    /\ LET hit == csel[th] \cap TmpSet
       IN  /\ m_lstTmpTasks' = Without(m_lstTmpTasks, hit)
           /\ Cancel(hit)
           /\ IF hit # {} THEN Return(th) ELSE Goto(th, "cancelLock")
    /\ UNCHANGED <<m_lstTasks, locks, wpc, local, notes, submitted, accepts,
                   ticket, ran, done, stopping, undefined>>

CancelLock(th) ==
    /\ InCall(th, "cancelLock")
    /\ CanLockTasks(th)
    /\ m_mutexTasks' = th
    /\ Goto(th, "cancelTasks")
    /\ UNCHANGED <<lists, m_mutexTmpTasks, wpc, local, notes, fate, stopping,
                   freed, undefined>>

(* Second loop (340-355, 385-400).                                           *)
CancelTasks(th) ==
    /\ InCall(th, "cancelTasks")
    /\ LET hit == csel[th] \cap TaskSet
       IN  /\ m_lstTasks' = Without(m_lstTasks, hit)
           /\ Cancel(hit)
    /\ m_mutexTasks' = AfterUnlock(th)
    /\ Return(th)
    /\ UNCHANGED <<m_lstTmpTasks, m_mutexTmpTasks, wpc, local, notes,
                   submitted, accepts, ticket, ran, done, stopping, undefined>>
-----------------------------------------------------------------------------
(* OnExecute on the worker.                                                  *)

LockTmpTasks ==
    /\ At("entry")
    /\ m_mutexTmpTasks = None
    /\ m_mutexTmpTasks' = Worker
    /\ wpc' = "move"
    /\ UNCHANGED <<lists, m_mutexTasks, local, calls, notes, fate, stopping,
                   freed, undefined>>

(* Faulty variants: no limit on m_lstTasks, and a push_front.                *)
RoomAlways == m_lstTmpTasks # <<>>

Room == m_lstTmpTasks # <<>> /\ Len(m_lstTasks) < MaxRunList

MoveToFront(t) == m_lstTasks' = <<t>> \o m_lstTasks

MoveToBack(t) == m_lstTasks' = Append(m_lstTasks, t)

(* The push_back onto m_lstTasks (153) is made without m_mutexTasks: it races *)
(* with an IsTaskExist or a CancelTask that reads the links of the list, or   *)
(* erases nodes of it, under that mutex.                                      *)
Race ==
    /\ wpc = "move"
    /\ Room
    /\ \E th \in Threads : Walks(th)

MoveTask ==
    /\ At("move")
    /\ Room
    /\ ~Race
    /\ m_lstTmpTasks' = Tail(m_lstTmpTasks)
    /\ MoveToBack(Head(m_lstTmpTasks))
    /\ UNCHANGED <<locks, wpc, local, calls, notes, fate, stopping, freed,
                   undefined>>

(* Faulty variant: a way out of the section that forgets the unlock.         *)
ForgetUnlock ==
    /\ At("move")
    /\ ~Room
    /\ wpc' = "first"
    /\ UNCHANGED <<lists, locks, local, calls, notes, fate, stopping, freed,
                   undefined>>

(* End of the section of m_mutexTmpTasks (155).                              *)
UnlockTmpTasks ==
    /\ At("move")
    /\ ~Room
    /\ m_mutexTmpTasks' = None
    /\ wpc' = "first"
    /\ UNCHANGED <<lists, m_mutexTasks, local, calls, notes, fate, stopping,
                   freed, undefined>>

(* it = m_lstTasks.begin(), without a lock; the two flags are set once for   *)
(* all the tasks of the pass.                                                *)
BeginPass ==
    /\ At("first")
    /\ it' = IF m_lstTasks = <<>> THEN None ELSE Head(m_lstTasks)
    /\ bPostRet' = TRUE
    /\ bDelete' = TRUE
    /\ wpc' = "test"
    /\ UNCHANGED <<lists, locks, pTask, calls, notes, fate, stopping, freed,
                   undefined>>

(* A thread task without a thread is not run (221).                          *)
Runs(t) == TaskType[t] = "ITT_THREAD" => t \in HasCallback

(* *it is read once the lock is held (163-164); CancelTask may have erased    *)
(* the node while the worker waited for it.                                   *)
DanglingNode == wpc = "test" /\ it # None /\ m_mutexTasks = None /\ it \notin TaskSet

LockTasks ==
    /\ At("test")
    /\ it \in TaskSet
    /\ m_mutexTasks = None
    /\ m_mutexTasks' = Worker
    /\ pTask' = it
    /\ IF Runs(it)
       THEN wpc' = "handler" /\ ran' = ran \cup {it}
       ELSE wpc' = "erase" /\ UNCHANGED ran
    /\ UNCHANGED <<lists, m_mutexTmpTasks, it, bPostRet, bDelete, calls, notes,
                   submitted, accepts, ticket, done, cancelled, stopping, freed,
                   undefined>>

(* The handler returns; while it runs it may make calls of its own.          *)
HandlerReturns ==
    /\ At("handler")
    /\ cpc[Worker] = "none"
    /\ wpc' = "notify"
    /\ UNCHANGED <<lists, locks, local, calls, notes, fate, stopping, freed,
                   undefined>>

Finish(t) == finished' = [finished EXCEPT ![t] = @ + 1]
CallBack(t) == called' = [called EXCEPT ![t] = @ + 1]

NotifyThread(t) ==
    /\ TaskType[t] = "ITT_THREAD"
    /\ CallBack(t)
    /\ Finish(t)
    /\ UNCHANGED <<bPostRet, bDelete, m_mapRetryCBNotify>>

NotifyNobody(t) ==
    /\ TaskType[t] # "ITT_THREAD"
    /\ t \notin HasCallback
    /\ UNCHANGED <<bPostRet, bDelete, notes>>

(* Faulty variant: a callback that could not be posted is dropped.           *)
Forget(t) == UNCHANGED m_mapRetryCBNotify

(* 189, 213.                                                                 *)
Defer(t) == m_mapRetryCBNotify' = m_mapRetryCBNotify \cup {t}

(* ::SendMessage leaves bPostRet as the task before left it; ::PostMessage   *)
(* fails when the queue of the window is full.                               *)
NotifyWindow(t) ==
    /\ TaskType[t] # "ITT_THREAD"
    /\ t \in HasCallback
    /\ IF t \in SyncCallback
       THEN CallBack(t) /\ UNCHANGED bPostRet
       ELSE \/ CallBack(t) /\ bPostRet' = TRUE
            \/ UNCHANGED called /\ bPostRet' = FALSE
    /\ IF bPostRet'
       THEN Finish(t) /\ UNCHANGED <<m_mapRetryCBNotify, bDelete>>
       ELSE /\ Defer(t)
            /\ bDelete' = FALSE
            /\ UNCHANGED finished

(* A handler that cancelled its own task has deleted what is read next.       *)
DanglingTask == wpc = "notify" /\ pTask \in freed

(* 174-192, 199-217, 225-229.                                                *)
Notify ==
    /\ At("notify")
    /\ ~DanglingTask
    /\ NotifyThread(pTask) \/ NotifyNobody(pTask) \/ NotifyWindow(pTask)
    /\ wpc' = "erase"
    /\ UNCHANGED <<lists, locks, it, pTask, calls, fate, stopping, freed,
                   undefined>>

(* The element after the k-th, or end().  (Faulty variant: erase(it); it++.)  *)
StaleSuccessor(k) == m_lstTasks[k]

Successor(k) == IF k < Len(m_lstTasks) THEN m_lstTasks[k + 1] ELSE None

(* Faulty variant: the task is deleted whatever bDelete says.                *)
DeleteAlways == TRUE

DeleteIt == bDelete

(* erase(it++), delete unless the task waits for a retry, unlock (235-237).  *)
EraseTask ==
    /\ At("erase")
    /\ \E k \in DOMAIN m_lstTasks :
        /\ m_lstTasks[k] = it
        /\ m_lstTasks' = RemoveAt(m_lstTasks, k)
        /\ it' = Successor(k)
    /\ done' = done \cup {pTask}
    /\ freed' = IF DeleteIt THEN freed \cup {pTask} ELSE freed
    /\ pTask' = None
    /\ m_mutexTasks' = None
    /\ wpc' = "test"
    /\ UNCHANGED <<m_lstTmpTasks, m_mutexTmpTasks, bPostRet, bDelete, calls,
                   notes, submitted, accepts, ticket, ran, cancelled, stopping,
                   undefined>>

EndPass ==
    /\ At("test")
    /\ it = None
    /\ wpc' = "retry"
    /\ UNCHANGED <<lists, locks, local, calls, notes, fate, stopping, freed,
                   undefined>>

(* RetryCBNotify (250), which only the Windows build has and which passes    *)
(* over the map at most every 10 ms: each callback in the map is posted      *)
(* again, and those that succeed are finished and deleted.                   *)
RetryCBNotify ==
    /\ At("retry")
    /\ wpc' = "entry"
    /\ \E sent \in SUBSET m_mapRetryCBNotify :
        /\ m_mapRetryCBNotify' = m_mapRetryCBNotify \ sent
        /\ called' = [t \in Tasks |-> called[t] + IF t \in sent THEN 1 ELSE 0]
        /\ finished' = [t \in Tasks |-> finished[t] + IF t \in sent THEN 1 ELSE 0]
        /\ freed' = freed \cup sent
    /\ UNCHANGED <<lists, locks, local, calls, fate, stopping, undefined>>
-----------------------------------------------------------------------------
(* The destructor (102), which no other thread's call may overlap: Stop()    *)
(* posts WM_QUIT, the worker leaves its loop between two passes and is       *)
(* joined, and the tasks still in the lists are deleted.                     *)

Stop ==
    /\ ~undefined
    /\ ~stopping
    /\ \A c \in Callers : cpc[c] = "none"
    /\ stopping' = TRUE
    /\ UNCHANGED <<lists, locks, wpc, local, calls, notes, fate, freed, undefined>>

Quit ==
    /\ At("entry")
    /\ stopping
    /\ wpc' = "exited"
    /\ UNCHANGED <<lists, locks, local, calls, notes, fate, stopping, freed,
                   undefined>>

Destroy ==
    /\ At("exited")
    /\ wpc' = "gone"
    /\ freed' = freed \cup Queued
    /\ m_lstTmpTasks' = <<>>
    /\ m_lstTasks' = <<>>
    /\ UNCHANGED <<locks, local, calls, notes, fate, stopping, undefined>>
-----------------------------------------------------------------------------
(* What has no defined effect ends the model: nothing is claimed after it.   *)
GoesWrong ==
    /\ ~undefined
    /\ \/ Race \/ DanglingNode \/ DanglingTask
       \/ \E th \in Threads : ReadsFreed(th)
    /\ undefined' = TRUE
    /\ UNCHANGED <<lists, locks, wpc, local, calls, notes, fate, stopping, freed>>

Submit(th) ==
    \/ \E t \in Tasks : CallRunTask(th, t)
    \/ \E sel \in Selections : CallCancelTask(th, sel)

CallStep(th) ==
    \/ ScanTmp(th)
    \/ ScanLock(th)
    \/ ScanTasks(th)
    \/ PushTmp(th)
    \/ DumpTask(th)
    \/ CancelTmp(th)
    \/ CancelLock(th)
    \/ CancelTasks(th)

WorkerStep ==
    \/ LockTmpTasks
    \/ MoveTask
    \/ UnlockTmpTasks
    \/ BeginPass
    \/ LockTasks
    \/ HandlerReturns
    \/ Notify
    \/ EraseTask
    \/ EndPass
    \/ RetryCBNotify
    \/ Quit

Next ==
    \/ \E th \in Threads : Submit(th) \/ CallStep(th)
    \/ WorkerStep
    \/ Stop
    \/ Destroy
    \/ GoesWrong

Spec == Init /\ [][Next]_vars

(* The scheduler runs every thread that can run; the worker, which competes  *)
(* for m_mutexTasks with its callers, is not starved of it for ever.         *)
Fairness ==
    /\ WF_vars(WorkerStep)
    /\ SF_vars(LockTasks)
    /\ \A th \in Threads : WF_vars(CallStep(th))

FairSpec == Spec /\ Fairness
-----------------------------------------------------------------------------
(* Tasks run in the order in which RunTask accepted them: when a task runs,  *)
(* no task accepted before it is still waiting (the moves of OnExecute).     *)
RunInOrder ==
    \A t \in ran, u \in Queued :
        u \notin ran => ticket[t] < ticket[u]

(* An accepted task is in one list, once, or was run, or was cancelled; what *)
(* lies in a list or waits for the retry of its callback has not been        *)
(* deleted.                                                                  *)
OnePlace ==
    /\ \A i, j \in DOMAIN m_lstTmpTasks : m_lstTmpTasks[i] = m_lstTmpTasks[j] => i = j
    /\ \A i, j \in DOMAIN m_lstTasks : m_lstTasks[i] = m_lstTasks[j] => i = j
    /\ TmpSet \cap TaskSet = {}
    /\ wpc # "gone" => Accepted = Queued \cup done \cup cancelled
    /\ Queued \cap (done \cup cancelled) = {}
    /\ (Queued \cup m_mapRetryCBNotify) \cap freed = {}

(* A call of CancelTask that finds nothing in either list leaves none of the *)
(* tasks it looked for that were accepted before it began: the worker moves  *)
(* tasks only forward, and the lists are searched in the same direction.     *)
CancelIsThorough ==
    [][\A th \in Threads :
           cpc[th] = "cancelTasks" /\ cpc'[th] = "none" =>
               csel[th] \cap known[th] \cap Queued' = {}]_vars

(* A callback is not lost: a task the worker is through with has been called *)
(* back or waits in the retry map; WM_TASK_FINISH goes to the manager once   *)
(* and not before the callback.                                              *)
CallbackNotLost ==
    \A t \in Tasks :
        /\ t \in done /\ t \in HasCallback => called[t] > 0 \/ t \in m_mapRetryCBNotify
        /\ finished[t] =< 1
        /\ finished[t] = 1 => called[t] > 0

(* The iterator that OnExecute keeps while m_mutexTasks is free (160-165),   *)
(* and the tasks it reads through it, stay good whatever is appended to and  *)
(* erased from the list: the program goes wrong in three ways only.  The     *)
(* push_back at 153 meets a walk of m_lstTasks; a CancelTask, another        *)
(* thread's or one the handler makes, has deleted the task the iterator is   *)
(* at; RunTask reads, at 308, a task that has meanwhile been run or          *)
(* cancelled.                                                                *)
OnlyKnownFaults ==
    undefined =>
        \/ Race
        \/ it \in cancelled
        \/ \E th \in Threads : cpc[th] = "dump" /\ ctask[th] \in done \cup cancelled

(* A handler's call waits for the m_mutexTasks its own thread holds.         *)
SelfDeadlock ==
    /\ cpc[Worker] \in {"scanLock", "cancelLock"}
    /\ ~CanLockTasks(Worker)

(* Every accepted task is done with or cancelled, unless the thread was       *)
(* never woken up, which happens only with pthreads, or is stopped, or a      *)
(* handler asks its own thread, built with pthreads, for CancelTask or for a  *)
(* m_bKeepSingle RunTask (463, 385): nothing else stops the worker.           *)
AcceptedIsRun ==
    \A t \in Tasks :
        t \in Queued ~>
            \/ t \in done \cup cancelled
            \/ wpc = "asleep" \/ stopping
            \/ undefined \/ SelfDeadlock

(* idle_thread.cpp:177 and 240: the retry map holds the callbacks that       *)
(* ::PostMessage failed to deliver.                                          *)
RetryOnlyFailed == \A t \in m_mapRetryCBNotify : called[t] = 0
=============================================================================
