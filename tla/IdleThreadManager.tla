--------------------------- MODULE IdleThreadManager ---------------------------
(***************************************************************************)
(* CIdleThreadManager (core/thread/idle_thread.cpp 479-647): a pool of     *)
(* idle threads, which gives a task to the least loaded one and keeps a    *)
(* map from tasks to threads.  Of the idle threads (module IdleThread) it  *)
(* has the two lists, the handler, which runs with m_mutexTasks held and   *)
(* may call the pool, and WM_TASK_FINISH.  The build is the POSIX one: no  *)
(* mutex is recursive and every task is a thread task.                     *)
(*                                                                         *)
(* A section of a mutex that calls nothing is one step.  m_mutexTasks is   *)
(* held over a handler, m_mtxTaskThreadMap over CIdleThread::CancelTask.   *)
(* What goes wrong within one idle thread is in IdleThread: here a pass    *)
(* takes its tasks in one step, and RunTask is over with the push.         *)
(***************************************************************************)
EXTENDS Integers, Sequences, SequencesExt, Lists

CONSTANTS
    Tasks,          \* the tasks, each passed to RunTask at most once
    Callers,        \* the threads of the application that call the pool
    None,           \* no task, no thread
    NoID,           \* 0, the m_dwUniqueID of a task the application made
    m_nThreadNums,  \* 1..5 after SetThreadNums
    MaxRunList,     \* the 5 of CIdleThread::OnExecute (149)
    KeepSingle,     \* the tasks with m_bKeepSingle
    Same,           \* <<t, u>>: the compare function says equal
    OtherNums,      \* the threads of another pool of the process, or 0
    MaxForeign      \* bound: how often that pool stores its index

Threads == 0..(m_nThreadNums - 1)
Actors == Callers \cup Threads      \* a handler calls on its idle thread

ASSUME IdleThreadManagerAssumption ==
    /\ m_nThreadNums \in 1..5
    /\ OtherNums \in 0..5
    /\ MaxRunList \in Nat \ {0}
    /\ None \notin Tasks \cup Actors
    /\ NoID \notin Tasks
    /\ Callers \cap Threads = {}
    /\ KeepSingle \subseteq Tasks
    /\ MaxForeign \in Nat

VARIABLES
    m_lstTmpTasks, m_lstTasks,  \* per thread, its lists
    wpc,                \* per thread, where its OnExecute is
    inbox,              \* the WM_TASK_FINISH messages of the pool, by wParam
    m_mapTaskThreadMap,
    m_mtxTaskThreadMap, \* the holder, or None
    s_nLastThreadIndex, \* shared by all pools of the process
    call,               \* per actor, its RunTask or CancelTask
    foreign,            \* how often another pool stored its index
    closing,            \* the destructor has begun
    undefined,          \* an index past the array, or a deleted thread
    \* history
    submitted,          \* the tasks passed to RunTask
    accepted            \* the tasks pushed

threads == <<m_lstTmpTasks, m_lstTasks, wpc, inbox>>
map == <<m_mapTaskThreadMap, m_mtxTaskThreadMap>>
vars == <<threads, map, s_nLastThreadIndex, call, foreign, closing, undefined,
          submitted, accepted>>

(* asleep: never woken up (thread.cpp:66-67, 231-234); idle: between two     *)
(* passes; pass: in the loop of OnExecute; run: in the handler, with         *)
(* m_mutexTasks held; gone: deleted.                                         *)
WorkerPC == {"asleep", "idle", "pass", "run", "gone"}

(* scanTmp, scanTasks: in IsTaskExist, called by the pool (525, 533) or, when *)
(* inner, by CIdleThread::RunTask (297); load: at 559, 562; choose: at 569;  *)
(* enter: at 544, 571; push: at 304; file: at 545, 572; lockMap: at 607;     *)
(* cancelTmp, cancelTasks: in CIdleThread::CancelTask (366, 385).            *)
CallPC == {"none", "scanTmp", "scanTasks", "load", "choose", "enter", "push", "file",
           "lockMap", "cancelTmp", "cancelTasks"}

Quiet == [pc |-> "none", task |-> None, index |-> -1, i |-> 0, inner |-> FALSE,
          best |-> 0, load |-> 0, known |-> {}]

TypeOK ==
    /\ m_lstTmpTasks \in [Threads -> Seq(Tasks)]
    /\ m_lstTasks \in [Threads -> Seq(Tasks)]
    /\ wpc \in [Threads -> WorkerPC]
    /\ inbox \subseteq Tasks
    /\ DOMAIN m_mapTaskThreadMap \subseteq Tasks \cup {NoID}
    /\ \A id \in DOMAIN m_mapTaskThreadMap : m_mapTaskThreadMap[id] \in 0..4
    /\ m_mtxTaskThreadMap \in Actors \cup {None}
    /\ s_nLastThreadIndex \in -1..4
    /\ DOMAIN call = Actors
    /\ \A a \in Actors :
        /\ call[a].pc \in CallPC
        /\ call[a].task \in Tasks \cup {None}
        /\ call[a].index \in Threads \cup {-1}
        /\ call[a].i \in 0..4
        /\ call[a].best \in Threads
        /\ call[a].load \in Nat
        /\ m_mtxTaskThreadMap = a <=>
             call[a].pc \in {"cancelTmp", "cancelTasks"} /\ call[a].index = -1
    /\ foreign \in 0..MaxForeign
    /\ closing \in BOOLEAN
    /\ undefined \in BOOLEAN
    /\ accepted \subseteq submitted
    /\ submitted \subseteq Tasks

Init ==
    /\ m_lstTmpTasks = [i \in Threads |-> <<>>]
    /\ m_lstTasks = [i \in Threads |-> <<>>]
    /\ wpc \in [Threads -> {"idle", "asleep"}]
    /\ inbox = {}
    /\ m_mapTaskThreadMap = <<>>
    /\ m_mtxTaskThreadMap = None
    /\ s_nLastThreadIndex = -1
    /\ call = [a \in Actors |-> Quiet]
    /\ foreign = 0
    /\ closing = FALSE
    /\ undefined = FALSE
    /\ submitted = {}
    /\ accepted = {}
-----------------------------------------------------------------------------
(* What CIdleThread::RunTask returns (310): the id of the argument, not the  *)
(* one of the copy in the list, GenerateUniqueID(), which stands for the     *)
(* task in the messages and the lists.                                       *)
Returned(t) == NoID

Busy(i) == wpc[i] = "run"           \* the worker holds m_mutexTasks
GetTaskRemain(i) == Len(m_lstTmpTasks[i]) + Len(m_lstTasks[i])

At(a, pc) == ~undefined /\ call[a].pc = pc

(* The threads the next step of a call reads, for GoesWrong.                 *)
Target(a) == IF call[a].index = -1 THEN s_nLastThreadIndex ELSE call[a].index

Reach(a) ==
    CASE call[a].pc \in {"scanTmp", "scanTasks", "load", "push", "cancelTmp",
                         "cancelTasks"} -> {call[a].i}
      [] call[a].pc = "enter" -> {Target(a)}
      [] OTHER -> {}

Sound(a) == \A i \in Reach(a) : i \in Threads /\ wpc[i] # "gone"

Step(a, pc) == At(a, pc) /\ Sound(a)

Return(a) == call' = [call EXCEPT ![a] = Quiet]
Goto(a, pc) == call' = [call EXCEPT ![a].pc = pc]
-----------------------------------------------------------------------------
(* Calls.  A handler calls while it runs, the application until it destroys  *)
(* the pool.                                                                 *)
MayCall(a) ==
    /\ At(a, "none")
    /\ IF a \in Callers THEN ~closing ELSE Busy(a)

CallRunTask(a, t, nThreadIndex) ==
    /\ MayCall(a)
    /\ t \notin submitted
    /\ submitted' = submitted \cup {t}
    /\ call' = [call EXCEPT ![a] = [Quiet EXCEPT
         !.pc = IF t \in KeepSingle THEN "scanTmp"
                ELSE IF nThreadIndex = -1 THEN "load" ELSE "enter",
         !.task = t,
         !.index = nThreadIndex,
         !.i = IF nThreadIndex = -1 THEN 0 ELSE nThreadIndex,
         !.known = accepted]]
    /\ UNCHANGED <<threads, map, s_nLastThreadIndex, foreign, closing, undefined, accepted>>

(* Faulty variant: the loops over the threads go on once more.               *)
OnePast(i) == i = m_nThreadNums

LastThread(i) == i + 1 = m_nThreadNums

Equal(t, list) == \E k \in DOMAIN list : <<t, list[k]>> \in Same

(* An equal task was found: RunTask of the pool returns 0 (526, 535); that   *)
(* of the thread returns 0 to the pool, which goes on (544, 571).            *)
Found(a) == IF call[a].inner THEN Goto(a, "file") ELSE Return(a)

(* None was: the next thread, or the choice of one, or the push.             *)
NotFound(a) ==
    LET c == call[a]
    IN  call' = [call EXCEPT ![a] =
          IF c.inner THEN [c EXCEPT !.pc = "push"]
          ELSE IF c.index # -1 THEN [c EXCEPT !.pc = "enter"]
          ELSE IF ~LastThread(c.i) THEN [c EXCEPT !.pc = "scanTmp", !.i = @ + 1]
          ELSE [c EXCEPT !.pc = "load", !.i = 0]]

(* IsTaskExist: 449-459, and 463-473, which waits for a handler.             *)
ScanTmp(a) ==
    /\ Step(a, "scanTmp")
    /\ IF Equal(call[a].task, m_lstTmpTasks[call[a].i])
       THEN Found(a)
       ELSE Goto(a, "scanTasks")
    /\ UNCHANGED <<threads, map, s_nLastThreadIndex, foreign, closing, undefined,
                   submitted, accepted>>

(* Faulty variant: the tasks about to run are not looked at.                 *)
SkipTasks(a) ==
    /\ Step(a, "scanTasks")
    /\ NotFound(a)
    /\ UNCHANGED <<threads, map, s_nLastThreadIndex, foreign, closing, undefined,
                   submitted, accepted>>

ScanTasks(a) ==
    /\ Step(a, "scanTasks")
    /\ ~Busy(call[a].i)
    /\ IF Equal(call[a].task, m_lstTasks[call[a].i]) THEN Found(a) ELSE NotFound(a)
    /\ UNCHANGED <<threads, map, s_nLastThreadIndex, foreign, closing, undefined,
                   submitted, accepted>>

Lighter(load, nRemain) == load > nRemain

(* One round of 559-568: the lists' sizes are read without their mutexes.    *)
Load(a) ==
    /\ Step(a, "load")
    /\ LET c == call[a]
           nRemain == GetTaskRemain(c.i)
           taken == c.i = 0 \/ Lighter(c.load, nRemain)
       IN  call' = [call EXCEPT ![a].best = IF taken THEN c.i ELSE @,
                                ![a].load = IF taken THEN nRemain ELSE @,
                                ![a].i = IF LastThread(c.i) THEN 0 ELSE @ + 1,
                                ![a].pc = IF LastThread(c.i) THEN "choose" ELSE @]
    /\ UNCHANGED <<threads, map, s_nLastThreadIndex, foreign, closing, undefined,
                   submitted, accepted>>

Choose(a) ==
    /\ Step(a, "choose")
    /\ s_nLastThreadIndex' = call[a].best
    /\ Goto(a, "enter")
    /\ UNCHANGED <<threads, map, foreign, closing, undefined, submitted, accepted>>

(* CIdleThread::RunTask of the thread with the index read here (544, 571).   *)
Enter(a) ==
    /\ Step(a, "enter")
    /\ call' = [call EXCEPT ![a].i = Target(a),
                            ![a].inner = TRUE,
                            ![a].pc = IF call[a].task \in KeepSingle
                                      THEN "scanTmp" ELSE "push"]
    /\ UNCHANGED <<threads, map, s_nLastThreadIndex, foreign, closing, undefined,
                   submitted, accepted>>

Push(a) ==
    /\ Step(a, "push")
    /\ m_lstTmpTasks' = [m_lstTmpTasks EXCEPT ![call[a].i] = Append(@, call[a].task)]
    /\ accepted' = accepted \cup {call[a].task}
    /\ Goto(a, "file")
    /\ UNCHANGED <<m_lstTasks, wpc, inbox, map, s_nLastThreadIndex, foreign, closing,
                   undefined, submitted>>

(* The index is read once more (546, 573).                                   *)
File(a) ==
    /\ Step(a, "file")
    /\ m_mtxTaskThreadMap = None
    /\ m_mapTaskThreadMap' =
         [id \in DOMAIN m_mapTaskThreadMap \cup {Returned(call[a].task)} |->
             IF id = Returned(call[a].task) THEN Target(a) ELSE m_mapTaskThreadMap[id]]
    /\ Return(a)
    /\ UNCHANGED <<threads, m_mtxTaskThreadMap, s_nLastThreadIndex, foreign, closing,
                   undefined, submitted, accepted>>
-----------------------------------------------------------------------------
(* CancelTask with the number RunTask returned.                              *)
CallCancelTask(a, nThreadIndex) ==
    /\ MayCall(a)
    /\ call' = [call EXCEPT ![a].pc = IF nThreadIndex = -1 THEN "lockMap" ELSE "cancelTmp",
                            ![a].index = nThreadIndex,
                            ![a].i = IF nThreadIndex = -1 THEN 0 ELSE nThreadIndex]
    /\ UNCHANGED <<threads, map, s_nLastThreadIndex, foreign, closing, undefined,
                   submitted, accepted>>

LockMap(a) ==
    /\ Step(a, "lockMap")
    /\ m_mtxTaskThreadMap = None
    /\ IF NoID \in DOMAIN m_mapTaskThreadMap
       THEN /\ m_mtxTaskThreadMap' = a
            /\ call' = [call EXCEPT ![a].pc = "cancelTmp",
                                    ![a].i = m_mapTaskThreadMap[NoID]]
       ELSE /\ Return(a)
            /\ UNCHANGED m_mtxTaskThreadMap
    /\ UNCHANGED <<threads, m_mapTaskThreadMap, s_nLastThreadIndex, foreign, closing,
                   undefined, submitted, accepted>>

(* Faulty variant: the map stays locked.                                     *)
KeepMap(a) == UNCHANGED m_mtxTaskThreadMap

ReleaseMap(a) ==
    m_mtxTaskThreadMap' = IF m_mtxTaskThreadMap = a THEN None ELSE m_mtxTaskThreadMap

(* 366-383: a task taken from the first list ends the call.                  *)
CancelTmp(a) ==
    /\ Step(a, "cancelTmp")
    /\ LET rest == Without(m_lstTmpTasks[call[a].i], {NoID})
       IN  IF rest = m_lstTmpTasks[call[a].i]
           THEN /\ Goto(a, "cancelTasks")
                /\ UNCHANGED <<m_lstTmpTasks, m_mtxTaskThreadMap>>
           ELSE /\ m_lstTmpTasks' = [m_lstTmpTasks EXCEPT ![call[a].i] = rest]
                /\ ReleaseMap(a)
                /\ Return(a)
    /\ UNCHANGED <<m_lstTasks, wpc, inbox, m_mapTaskThreadMap, s_nLastThreadIndex,
                   foreign, closing, undefined, submitted, accepted>>

(* 385-402, which waits for a handler, and 611.                              *)
CancelTasks(a) ==
    /\ Step(a, "cancelTasks")
    /\ ~Busy(call[a].i)
    /\ m_lstTasks' = [m_lstTasks EXCEPT ![call[a].i] = Without(@, {NoID})]
    /\ ReleaseMap(a)
    /\ Return(a)
    /\ UNCHANGED <<m_lstTmpTasks, wpc, inbox, m_mapTaskThreadMap, s_nLastThreadIndex,
                   foreign, closing, undefined, submitted, accepted>>
-----------------------------------------------------------------------------
(* The idle threads: OnExecute (143-242).                                    *)

BeginPass(i) ==
    /\ ~undefined
    /\ wpc[i] = "idle"
    /\ m_lstTmpTasks[i] # <<>>
    /\ LET n == CHOOSE n \in 0..Len(m_lstTmpTasks[i]) :
                    \/ n = MaxRunList
                    \/ n = Len(m_lstTmpTasks[i]) /\ n < MaxRunList
       IN  /\ m_lstTasks' = [m_lstTasks EXCEPT ![i] = SubSeq(m_lstTmpTasks[i], 1, n)]
           /\ m_lstTmpTasks' = [m_lstTmpTasks EXCEPT ![i] = SubSeq(@, n + 1, Len(@))]
    /\ wpc' = [wpc EXCEPT ![i] = "pass"]
    /\ UNCHANGED <<inbox, map, s_nLastThreadIndex, call, foreign, closing, undefined,
                   submitted, accepted>>

RunHandler(i) ==
    /\ ~undefined
    /\ wpc[i] = "pass"
    /\ m_lstTasks[i] # <<>>
    /\ wpc' = [wpc EXCEPT ![i] = "run"]
    /\ UNCHANGED <<m_lstTmpTasks, m_lstTasks, inbox, map, s_nLastThreadIndex, call,
                   foreign, closing, undefined, submitted, accepted>>

(* The handler has returned: 226-237.                                        *)
FinishTask(i) ==
    /\ ~undefined
    /\ Busy(i)
    /\ call[i].pc = "none"
    /\ inbox' = inbox \cup {Head(m_lstTasks[i])}
    /\ m_lstTasks' = [m_lstTasks EXCEPT ![i] = Tail(@)]
    /\ wpc' = [wpc EXCEPT ![i] = "pass"]
    /\ UNCHANGED <<m_lstTmpTasks, map, s_nLastThreadIndex, call, foreign, closing,
                   undefined, submitted, accepted>>

EndPass(i) ==
    /\ ~undefined
    /\ wpc[i] = "pass"
    /\ m_lstTasks[i] = <<>>
    /\ wpc' = [wpc EXCEPT ![i] = "idle"]
    /\ UNCHANGED <<m_lstTmpTasks, m_lstTasks, inbox, map, s_nLastThreadIndex, call,
                   foreign, closing, undefined, submitted, accepted>>

(* The pool's own thread (632-641).                                          *)
HandleMessage ==
    /\ ~undefined
    /\ m_mtxTaskThreadMap = None
    /\ \E wparam \in inbox :
        /\ inbox' = inbox \ {wparam}
        /\ m_mapTaskThreadMap' =
             [id \in DOMAIN m_mapTaskThreadMap \ {wparam} |-> m_mapTaskThreadMap[id]]
    /\ UNCHANGED <<m_lstTmpTasks, m_lstTasks, wpc, m_mtxTaskThreadMap, s_nLastThreadIndex,
                   call, foreign, closing, undefined, submitted, accepted>>
-----------------------------------------------------------------------------
(* The destructor (497-504): no call of the application overlaps it.         *)
BeginDestroy ==
    /\ ~undefined
    /\ ~closing
    /\ \A c \in Callers : call[c].pc = "none"
    /\ closing' = TRUE
    /\ UNCHANGED <<threads, map, s_nLastThreadIndex, call, foreign, undefined,
                   submitted, accepted>>

(* The threads are deleted in order, each after its pass: WM_QUIT is read    *)
(* between two passes.  What is left in its list is not run.                 *)
DeleteThread(i) ==
    /\ ~undefined
    /\ closing
    /\ wpc[i] = "idle"
    /\ \A j \in Threads : j < i => wpc[j] = "gone"
    /\ wpc' = [wpc EXCEPT ![i] = "gone"]
    /\ m_lstTmpTasks' = [m_lstTmpTasks EXCEPT ![i] = <<>>]
    /\ UNCHANGED <<m_lstTasks, inbox, map, s_nLastThreadIndex, call, foreign, undefined,
                   closing, submitted, accepted>>

(* RunTask of a pool with OtherNums threads chooses one of them (569).       *)
OtherPoolChooses ==
    /\ ~undefined
    /\ foreign < MaxForeign
    /\ foreign' = foreign + 1
    /\ s_nLastThreadIndex' \in 0..(OtherNums - 1)
    /\ UNCHANGED <<threads, map, call, closing, undefined, submitted, accepted>>

(* What has no defined effect ends the model: nothing is claimed after it.   *)
GoesWrong ==
    /\ ~undefined
    /\ \E a \in Actors : ~Sound(a)
    /\ undefined' = TRUE
    /\ UNCHANGED <<threads, map, s_nLastThreadIndex, call, foreign, closing, submitted,
                   accepted>>
-----------------------------------------------------------------------------
CallStep(a) ==
    \/ ScanTmp(a)
    \/ ScanTasks(a)
    \/ Load(a)
    \/ Choose(a)
    \/ Enter(a)
    \/ Push(a)
    \/ File(a)
    \/ LockMap(a)
    \/ CancelTmp(a)
    \/ CancelTasks(a)

WorkerStep(i) == BeginPass(i) \/ RunHandler(i) \/ FinishTask(i) \/ EndPass(i)

NewCall(a) ==
    \E n \in Threads \cup {-1} :
        CallCancelTask(a, n) \/ \E t \in Tasks : CallRunTask(a, t, n)

Next ==
    \/ \E a \in Actors : NewCall(a) \/ CallStep(a)
    \/ \E i \in Threads : WorkerStep(i) \/ DeleteThread(i)
    \/ HandleMessage
    \/ BeginDestroy
    \/ OtherPoolChooses
    \/ GoesWrong

Spec == Init /\ [][Next]_vars

(* A thread waits for a mutex that others take again and again, and a        *)
(* handler makes finitely many calls: strong fairness of both.               *)
Fairness ==
    /\ \A a \in Actors : SF_vars(CallStep(a))
    /\ \A i \in Threads : SF_vars(WorkerStep(i))

FairSpec == Spec /\ Fairness
-----------------------------------------------------------------------------
Waiting(i) == ToSet(m_lstTmpTasks[i]) \cup ToSet(m_lstTasks[i])

(* A task with m_bKeepSingle is pushed by a RunTask without an index only    *)
(* when no equal task that was pushed before the call waits or runs in any   *)
(* thread, although the lists are searched one by one and the worker moves   *)
(* tasks between them (529-538).                                             *)
SingleAmongKnown ==
    \A a \in Actors :
        At(a, "push") /\ call[a].index = -1 /\ call[a].task \in KeepSingle =>
            \A i \in Threads : \A u \in Waiting(i) \cap call[a].known :
                <<call[a].task, u>> \notin Same

(* The program leaves the array of threads only when a pool of more threads  *)
(* has stored its index, and reaches a deleted thread only from a handler,   *)
(* while the destructor runs.                                                *)
OnlyStrangersGoWrong ==
    \A a \in Actors : ~Sound(a) =>
        \/ foreign > 0 /\ OtherNums > m_nThreadNums
        \/ closing /\ a \in Threads

(* The actor that holds the mutex an actor waits for.                        *)
Holders(a) ==
    CASE call[a].pc \in {"scanTasks", "cancelTasks"} -> {i \in {call[a].i} : Busy(i)}
      [] call[a].pc \in {"lockMap", "file"} -> {m_mtxTaskThreadMap} \ {None}
      [] OTHER -> {}

(* Actors that wait for each other for ever: a handler that waits for its    *)
(* own thread, two handlers for each other's, or a handler that files a task *)
(* and a CancelTask that holds the map and waits for the handler's thread.   *)
LockedOut(a) ==
    \E S \in SUBSET Actors : a \in S /\ \A b \in S : Holders(b) \cap S # {}

(* Every call of the application returns, also one that waits for a handler  *)
(* that calls the pool, and whichever threads were never woken up, unless    *)
(* such a handler closes a circle of waiting threads, or the array or a      *)
(* deleted thread is misread.                                                *)
CallReturns ==
    \A c \in Callers :
        call[c].pc # "none" ~>
            call[c].pc = "none" \/ LockedOut(c) \/ \E b \in Actors : ~Sound(b)

(* idle_thread.h:160 of the map: "<UniqueID, ThreadIndex>".  A task that     *)
(* waits, and whose RunTask has returned, is filed under its id with the     *)
(* thread it waits in.                                                       *)
MapTellsThread ==
    \A i \in Threads : \A t \in Waiting(i) :
        (\A a \in Actors : call[a].task # t) =>
            t \in DOMAIN m_mapTaskThreadMap /\ m_mapTaskThreadMap[t] = i
=============================================================================
