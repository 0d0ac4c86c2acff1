------------------------------ MODULE TaskManager ------------------------------
(***************************************************************************)
(* CTaskManager and CTaskAgent (core/task): a thread that hands tasks to   *)
(* agents, which are idle threads, receives their answers as messages,     *)
(* tells its subscribers, and retries or recycles the task.  Invoke runs   *)
(* on the threads of the application.  A section of a mutex that calls     *)
(* nothing is one step; m_mtxTask is held over the whole of DealTask and   *)
(* m_mtxCBs over the whole of Notice.  m_lstRetryTask and m_lstTrashbin    *)
(* have no mutex.  What an agent does with its own lists is in IdleThread: *)
(* here giving it a task is one step.                                      *)
(*                                                                         *)
(* Time is not counted: a task waits for the end of its delay, of the      *)
(* retry interval or of the clean interval, and TimePasses ends the wait.  *)
(***************************************************************************)
EXTENDS Integers, Sequences, SequencesExt

CONSTANTS
    Tasks,          \* the STask objects
    Callers,        \* the threads that call Invoke
    Subscribers,    \* the threads that register for notices
    None,           \* no task: the lParam of a message without a result
    AgentCounts,    \* m_nAgentCounts, 1..16 after SetAgentCounts
    OtherCounts,    \* that of another manager of the program
    KeepSingle,     \* the tasks invoked with bKeepSingle
    Delayed,        \* the tasks with a request and uDelaySecs > 0
    NoInvoker,      \* <<task, agent>>: the agent has no invoker for its id
    Same,           \* <<t, u>>: IsSameTask of the subclass says equal
    MaxRetries,     \* bound: answers the subclass puts in the retry list
    MaxForeign      \* bound: turns of the other manager

Agents == 0..(AgentCounts - 1)

ASSUME TaskManagerAssumption ==
    /\ None \notin Tasks
    /\ AgentCounts \in 1..16
    /\ OtherCounts \in 1..16
    /\ KeepSingle \subseteq Tasks
    /\ Delayed \subseteq Tasks
    /\ NoInvoker \subseteq Tasks \X Agents
    /\ MaxRetries \in Nat
    /\ MaxForeign \in Nat

VARIABLES
    m_lstTask, m_lstRetryTask, m_lstTrashbin,   \* TaskManager.h:81-83
    m_mapTaskWorkMapping,   \* the tasks in the map (85)
    m_lstCBThreads,         \* the subscribers (79)
    nLastAgentIndex,        \* GetNextAgent's, one for all managers
    pAgent,         \* per task, its agent
    pResp,          \* the tasks with a response
    agent,          \* per agent, the tasks it has been given and not run
    asleep,         \* the agents that were never woken up
    inbox,          \* the messages posted to the manager
    mpc,            \* where the manager's thread is
    pTask,          \* its locals: the task at hand,
    at,             \*   the position of its iterator,
    bRecycle,       \*   what OnHandleMessage decided,
    notify,         \*   the subscribers Notice has still to post to
    cpc, ctask,     \* per caller, where its Invoke is, and its task
    delayed,        \* the tasks whose delay is not over
    ripe,           \* the tasks whose interval is over: since the deal, or
                    \* in the trash bin since the recycling
    retries,        \* how many answers went to the retry list
    stopping,       \* the subclass's destructor has begun
    freed,          \* the task objects deleted
    undefined,      \* the program did something that has no defined effect
    \* history
    foreign,        \* the turns of the other manager
    invoked,        \* the tasks passed to Invoke
    accepted,       \* the tasks pushed to m_lstTask
    silent,         \* the tasks that were run and not answered
    rested,         \* the tasks that spent the clean interval in the bin
    known,          \* per caller, the tasks accepted before its call
    retried         \* per caller, the tasks in the retry list during its call

lists == <<m_lstTask, m_lstRetryTask, m_lstTrashbin, m_mapTaskWorkMapping>>
local == <<mpc, pTask, at, bRecycle, notify>>
calls == <<cpc, ctask, known, retried, invoked, accepted, pAgent, nLastAgentIndex,
           foreign>>
work  == <<agent, asleep, inbox, pResp, silent>>
time  == <<delayed, ripe, rested>>
end   == <<stopping, freed, undefined>>
vars == <<lists, local, calls, work, time, end, m_lstCBThreads, retries>>

(* asleep: never woken up; get: at GetMessage; answer: at OnHandleMessage    *)
(* (418); tell: at the lock of Notice; notice: inside it; recycle, unmap:    *)
(* 422, 425; lock: at the lock of DealTask; deal, map: inside it, at 213 and *)
(* 244; retry, unretry: in DealRetryTask, at 265 and 279; clean: at          *)
(* DealMemClean; exited: Execute has returned; gone: the object is           *)
(* destroyed.                                                                *)
ManagerPC == {"asleep", "get", "answer", "tell", "notice", "recycle", "unmap",
              "lock", "deal", "map", "retry", "unretry", "clean", "exited", "gone"}

(* scanTask, scanRetry, scanMap: in the loops of IsTaskExist; trash: at 138; *)
(* push: at 142; report: at 146.                                             *)
CallPC == {"none", "scanTask", "scanRetry", "scanMap", "trash", "push", "report"}

TaskSet == ToSet(m_lstTask)
RetrySet == ToSet(m_lstRetryTask)
WithAgents == UNION {ToSet(agent[a]) : a \in Agents}
Answers == ToSet(inbox) \ {None}

TypeOK ==
    /\ m_lstTask \in Seq(Tasks)
    /\ m_lstRetryTask \in Seq(Tasks)
    /\ m_lstTrashbin \subseteq Tasks
    /\ m_mapTaskWorkMapping \subseteq Tasks
    /\ m_lstCBThreads \in Seq(Subscribers)
    /\ nLastAgentIndex \in Agents \cup 0..(OtherCounts - 1)
    /\ nLastAgentIndex \notin Agents => foreign > 0 /\ OtherCounts > AgentCounts
    /\ foreign \in 0..MaxForeign
    /\ pAgent \in [Tasks -> Agents]
    /\ pResp \subseteq Tasks
    /\ agent \in [Agents -> Seq(Tasks)]
    /\ asleep \subseteq Agents
    /\ inbox \in Seq(Tasks \cup {None})
    /\ mpc \in ManagerPC
    /\ pTask \in Tasks \cup {None}
    /\ at \in Nat \ {0}
    /\ bRecycle \in BOOLEAN
    /\ notify \in Seq(Subscribers)
    /\ cpc \in [Callers -> CallPC]
    /\ ctask \in [Callers -> Tasks \cup {None}]
    /\ delayed \subseteq Tasks
    /\ ripe \subseteq Tasks
    /\ retries \in Nat
    /\ stopping \in BOOLEAN
    /\ freed \subseteq Tasks
    /\ undefined \in BOOLEAN
    /\ invoked \subseteq Tasks
    /\ accepted \subseteq Tasks
    /\ silent \subseteq Tasks
    /\ rested \subseteq Tasks
    /\ known \in [Callers -> SUBSET Tasks]
    /\ retried \in [Callers -> SUBSET Tasks]

(* The constructor, and that of a subclass, which creates the agents and     *)
(* resumes the thread.  Manager and agents start suspended, and with         *)
(* pthreads the one Resume each is given may be lost between the worker's    *)
(* test and its wait (thread.cpp:66-67, 231-234): it then sleeps for ever.   *)
Init ==
    /\ m_lstTask = <<>>
    /\ m_lstRetryTask = <<>>
    /\ m_lstTrashbin = {}
    /\ m_mapTaskWorkMapping = {}
    /\ m_lstCBThreads = <<>>
    /\ nLastAgentIndex = 0
    /\ foreign = 0
    /\ pAgent = [t \in Tasks |-> 0]
    /\ pResp = {}
    /\ agent = [a \in Agents |-> <<>>]
    /\ asleep \in SUBSET Agents
    /\ inbox = <<>>
    /\ mpc \in {"get", "asleep"}
    /\ pTask = None
    /\ at = 1
    /\ bRecycle = TRUE
    /\ notify = <<>>
    /\ cpc = [c \in Callers |-> "none"]
    /\ ctask = [c \in Callers |-> None]
    /\ delayed = Delayed
    /\ ripe = {}
    /\ retries = 0
    /\ stopping = FALSE
    /\ freed = {}
    /\ undefined = FALSE
    /\ invoked = {}
    /\ accepted = {}
    /\ silent = {}
    /\ rested = {}
    /\ known = [c \in Callers |-> {}]
    /\ retried = [c \in Callers |-> {}]
-----------------------------------------------------------------------------
(* Where the manager and a caller are, in a program with a defined state.    *)
At(pc) == ~undefined /\ mpc = pc
InCall(c, pc) == ~undefined /\ cpc[c] = pc

(* m_mtxTask and m_mtxCBs are held by the manager.                           *)
TasksLocked == mpc \in {"deal", "map"}
CBsLocked == mpc = "notice"
-----------------------------------------------------------------------------
(* Subscribers.                                                              *)

RegisterCallBack(s) ==
    /\ ~undefined /\ ~stopping /\ ~CBsLocked
    /\ s \notin ToSet(m_lstCBThreads)
    /\ m_lstCBThreads' = Append(m_lstCBThreads, s)
    /\ UNCHANGED <<lists, local, calls, work, time, end, retries>>

(* Faulty variant: the list is changed without m_mtxCBs.                     *)
UnRegisterUnlocked(s) ==
    /\ ~undefined /\ ~stopping
    /\ \E k \in DOMAIN m_lstCBThreads :
        /\ m_lstCBThreads[k] = s
        /\ m_lstCBThreads' = RemoveAt(m_lstCBThreads, k)
    /\ UNCHANGED <<lists, local, calls, work, time, end, retries>>

UnRegisterCallBack(s) ==
    /\ ~undefined /\ ~stopping /\ ~CBsLocked
    /\ \E k \in DOMAIN m_lstCBThreads :
        /\ m_lstCBThreads[k] = s
        /\ m_lstCBThreads' = RemoveAt(m_lstCBThreads, k)
    /\ UNCHANGED <<lists, local, calls, work, time, end, retries>>
-----------------------------------------------------------------------------
(* Invoke on a caller's thread.                                              *)

Goto(c, pc) ==
    /\ cpc' = [cpc EXCEPT ![c] = pc]
    /\ UNCHANGED <<ctask, known, retried, invoked, pAgent, nLastAgentIndex, foreign>>

Return(c) ==
    /\ cpc' = [cpc EXCEPT ![c] = "none"]
    /\ ctask' = [ctask EXCEPT ![c] = None]
    /\ known' = [known EXCEPT ![c] = {}]
    /\ retried' = [retried EXCEPT ![c] = {}]
    /\ UNCHANGED <<invoked, pAgent, nLastAgentIndex, foreign>>

(* Faulty variant: the index runs past the end of the array.                 *)
NotWrapped(counts) == nLastAgentIndex + 1

NextAgentIndex(counts) ==
    IF nLastAgentIndex + 1 >= counts THEN 0 ELSE nLastAgentIndex + 1

(* The index is a static local of GetNextAgent (111): every manager takes    *)
(* its turn at it, and wraps it by its own count (115-117).  Bounds:         *)
(* MaxForeign, and nothing reads the index once every task is invoked.       *)
OtherManagerTakes ==
    /\ ~undefined
    /\ invoked # Tasks
    /\ foreign < MaxForeign
    /\ nLastAgentIndex < OtherCounts
    /\ nLastAgentIndex' = NextAgentIndex(OtherCounts)
    /\ foreign' = foreign + 1
    /\ UNCHANGED <<lists, local, cpc, ctask, known, retried, invoked, accepted, pAgent,
                   work, time, end, m_lstCBThreads, retries>>

(* m_pAgents[nLastAgentIndex] is past the end of somebody's array.           *)
IndexPastEnd == nLastAgentIndex \notin Agents \/ nLastAgentIndex >= OtherCounts

(* Invoke(GetNextAgent(), ...): the agents take turns.                       *)
CallInvoke(c, t) ==
    /\ InCall(c, "none")
    /\ ~stopping
    /\ t \notin invoked
    /\ nLastAgentIndex \in Agents
    /\ invoked' = invoked \cup {t}
    /\ pAgent' = [pAgent EXCEPT ![t] = nLastAgentIndex]
    /\ nLastAgentIndex' = NextAgentIndex(AgentCounts)
    /\ ctask' = [ctask EXCEPT ![c] = t]
    /\ known' = [known EXCEPT ![c] = accepted]
    /\ retried' = [retried EXCEPT ![c] = RetrySet]
    /\ cpc' = [cpc EXCEPT ![c] = IF t \in KeepSingle THEN "scanTask" ELSE "push"]
    /\ UNCHANGED <<lists, local, accepted, foreign, work, time, end,
                   m_lstCBThreads, retries>>

Equal(t, S) == \E u \in S : <<t, u>> \in Same

(* IsTaskExist, first loop (157-169).                                        *)
ScanTask(c) ==
    /\ InCall(c, "scanTask")
    /\ ~TasksLocked
    /\ Goto(c, IF Equal(ctask[c], TaskSet) THEN "trash" ELSE "scanRetry")
    /\ UNCHANGED <<lists, local, accepted, work, time, end, m_lstCBThreads, retries>>

(* Second loop, without a lock (172-182).                                    *)
ScanRetry(c) ==
    /\ InCall(c, "scanRetry")
    /\ Goto(c, IF Equal(ctask[c], RetrySet) THEN "trash" ELSE "scanMap")
    /\ UNCHANGED <<lists, local, accepted, work, time, end, m_lstCBThreads, retries>>

(* Faulty variant: the tasks at work are not looked at.                      *)
SkipMap(c) ==
    /\ InCall(c, "scanMap")
    /\ Goto(c, "push")
    /\ UNCHANGED <<lists, local, accepted, work, time, end, m_lstCBThreads, retries>>

(* Third loop (185-195).                                                     *)
ScanMap(c) ==
    /\ InCall(c, "scanMap")
    /\ Goto(c, IF Equal(ctask[c], m_mapTaskWorkMapping) THEN "trash" ELSE "push")
    /\ UNCHANGED <<lists, local, accepted, work, time, end, m_lstCBThreads, retries>>

(* m_lstTrashbin.push_back without a lock, with tRecycleTime 0 (138).        *)
Trash(c) ==
    /\ InCall(c, "trash")
    /\ m_lstTrashbin' = m_lstTrashbin \cup {ctask[c]}
    /\ ripe' = ripe \cup {ctask[c]}
    /\ Return(c)
    /\ UNCHANGED <<m_lstTask, m_lstRetryTask, m_mapTaskWorkMapping, local, accepted,
                   work, delayed, rested, end, m_lstCBThreads, retries>>

(* m_lstTask.push_back (142-144).                                            *)
Push(c) ==
    /\ InCall(c, "push")
    /\ ~TasksLocked
    /\ m_lstTask' = Append(m_lstTask, ctask[c])
    /\ accepted' = accepted \cup {ctask[c]}
    /\ Goto(c, "report")
    /\ UNCHANGED <<m_lstRetryTask, m_lstTrashbin, m_mapTaskWorkMapping, local,
                   work, time, end, m_lstCBThreads, retries>>

(* The task is read once more, for the log and the result (146-148).         *)
ReadsFreed(c) == cpc[c] = "report" /\ ctask[c] \in freed

Report(c) ==
    /\ InCall(c, "report")
    /\ ~ReadsFreed(c)
    /\ Return(c)
    /\ UNCHANGED <<lists, local, accepted, work, time, end, m_lstCBThreads, retries>>
-----------------------------------------------------------------------------
(* The agents: CIdleThread::OnExecute runs the handler and calls             *)
(* CTaskAgent::HandleMessage, which posts the result to the manager.  The    *)
(* handler is the application's: it may leave the result or the response of  *)
(* the task unset.                                                           *)
AgentRuns(a) ==
    /\ ~undefined
    /\ mpc # "gone"
    /\ a \notin asleep
    /\ agent[a] # <<>>
    /\ agent' = [agent EXCEPT ![a] = Tail(@)]
    /\ LET t == Head(agent[a])
       IN  \E lParam \in {t, None} :
            /\ inbox' = Append(inbox, lParam)
            /\ pResp' \in {pResp, pResp \cup {t}}
            /\ silent' = IF lParam # None /\ t \in pResp' THEN silent ELSE silent \cup {t}
    /\ UNCHANGED <<lists, local, calls, asleep, time, end, m_lstCBThreads, retries>>
-----------------------------------------------------------------------------
(* The manager's thread: one message, if there is one, and OnExecute.        *)

(* HandleMessage gives up on a message without task or response (413).       *)
TakeMessage ==
    /\ At("get")
    /\ ~stopping
    /\ inbox # <<>>
    /\ inbox' = Tail(inbox)
    /\ IF Head(inbox) \in pResp
       THEN pTask' = Head(inbox) /\ mpc' = "answer"
       ELSE pTask' = None /\ mpc' = "lock"
    /\ UNCHANGED <<lists, at, bRecycle, notify, calls, agent, asleep, pResp, silent,
                   time, end, m_lstCBThreads, retries>>

TakeNothing ==
    /\ At("get")
    /\ ~stopping
    /\ inbox = <<>>
    /\ mpc' = "lock"
    /\ UNCHANGED <<lists, pTask, at, bRecycle, notify, calls, work, time, end,
                   m_lstCBThreads, retries>>

(* OnHandleMessage: the subclass keeps the task for a retry or lets it be    *)
(* recycled, and has the subscribers told or not (an invoker without nMsgID  *)
(* tells nobody either).                                                     *)
OnHandleMessage ==
    /\ At("answer")
    /\ mpc' \in {"tell", "recycle"}
    /\ \/ /\ bRecycle' = TRUE
          /\ UNCHANGED <<m_lstRetryTask, retried, retries>>
       \/ /\ retries < MaxRetries
          /\ bRecycle' = FALSE
          /\ m_lstRetryTask' = Append(m_lstRetryTask, pTask)
          /\ retried' = [c \in Callers |-> retried[c] \cup {pTask}]
          /\ retries' = retries + 1
    /\ UNCHANGED <<m_lstTask, m_lstTrashbin, m_mapTaskWorkMapping, pTask, at, notify,
                   cpc, ctask, known, invoked, accepted, pAgent, nLastAgentIndex,
                   foreign, work, time, end, m_lstCBThreads>>

(* Notice, with m_mtxCBs held over the loop (361-375).                       *)
BeginNotice ==
    /\ At("tell")
    /\ notify' = m_lstCBThreads
    /\ mpc' = "notice"
    /\ UNCHANGED <<lists, pTask, at, bRecycle, calls, work, time, end,
                   m_lstCBThreads, retries>>

PostNotice ==
    /\ At("notice")
    /\ notify # <<>>
    /\ notify' = Tail(notify)
    /\ UNCHANGED <<lists, mpc, pTask, at, bRecycle, calls, work, time, end,
                   m_lstCBThreads, retries>>

EndNotice ==
    /\ At("notice")
    /\ notify = <<>>
    /\ mpc' = "recycle"
    /\ UNCHANGED <<lists, pTask, at, bRecycle, notify, calls, work, time, end,
                   m_lstCBThreads, retries>>

(* Faulty variant: tRecycleTime is not set.                                  *)
Unstamped(t) == UNCHANGED ripe

Stamp(t) == ripe' = ripe \ {t}

(* 422; Recycle (349-355).                                                   *)
Recycle ==
    /\ At("recycle")
    /\ IF bRecycle
       THEN Stamp(pTask) /\ m_lstTrashbin' = m_lstTrashbin \cup {pTask}
       ELSE UNCHANGED <<ripe, m_lstTrashbin>>
    /\ mpc' = "unmap"
    /\ UNCHANGED <<m_lstTask, m_lstRetryTask, m_mapTaskWorkMapping, pTask, at, bRecycle,
                   notify, calls, work, delayed, rested, end, m_lstCBThreads, retries>>

(* Faulty variant: the entry stays in the map.                               *)
LeftMapped(t) == UNCHANGED m_mapTaskWorkMapping

LeaveMap(t) == m_mapTaskWorkMapping' = m_mapTaskWorkMapping \ {t}

(* 424-426.                                                                  *)
Unmap ==
    /\ At("unmap")
    /\ LeaveMap(pTask)
    /\ pTask' = None
    /\ mpc' = "lock"
    /\ UNCHANGED <<m_lstTask, m_lstRetryTask, m_lstTrashbin, at, bRecycle, notify,
                   calls, work, time, end, m_lstCBThreads, retries>>

(* DealTask: m_mtxTask is held from here to EndDeal.                         *)
BeginDeal ==
    /\ At("lock")
    /\ at' = 1
    /\ mpc' = "deal"
    /\ UNCHANGED <<lists, pTask, bRecycle, notify, calls, work, time, end,
                   m_lstCBThreads, retries>>

NobodyRuns(t) == <<t, pAgent[t]>> \in NoInvoker

Dealing == At("deal") /\ at \in DOMAIN m_lstTask

(* The delay of the task at hand is not over (216-220).                      *)
SkipDelayed ==
    /\ Dealing
    /\ m_lstTask[at] \in delayed
    /\ at' = at + 1
    /\ UNCHANGED <<lists, mpc, pTask, bRecycle, notify, calls, work, time, end,
                   m_lstCBThreads, retries>>

(* No invoker: the task goes to the trash bin with tRecycleTime 0 (253).     *)
DiscardTask ==
    /\ Dealing
    /\ m_lstTask[at] \notin delayed
    /\ NobodyRuns(m_lstTask[at])
    /\ m_lstTrashbin' = m_lstTrashbin \cup {m_lstTask[at]}
    /\ ripe' = ripe \cup {m_lstTask[at]}
    /\ m_lstTask' = RemoveAt(m_lstTask, at)
    /\ UNCHANGED <<m_lstRetryTask, m_mapTaskWorkMapping, local, calls, work,
                   delayed, rested, end, m_lstCBThreads, retries>>

(* pAgent->RunTask (241); tDealTime is now.                                  *)
RunTask ==
    /\ Dealing
    /\ m_lstTask[at] \notin delayed
    /\ ~NobodyRuns(m_lstTask[at])
    /\ pTask' = m_lstTask[at]
    /\ agent' = [agent EXCEPT ![pAgent[m_lstTask[at]]] = Append(@, m_lstTask[at])]
    /\ ripe' = ripe \ {m_lstTask[at]}
    /\ mpc' = "map"
    /\ UNCHANGED <<lists, at, bRecycle, notify, calls, asleep, inbox, pResp, silent,
                   delayed, rested, end, m_lstCBThreads, retries>>

(* Faulty variant: the task is not entered into the map.                     *)
NotMapped(t) == UNCHANGED m_mapTaskWorkMapping

EnterMap(t) == m_mapTaskWorkMapping' = m_mapTaskWorkMapping \cup {t}

(* 243-247, and the erase of the task (255).                                 *)
MapTask ==
    /\ At("map")
    /\ EnterMap(pTask)
    /\ m_lstTask' = RemoveAt(m_lstTask, at)
    /\ pTask' = None
    /\ mpc' = "deal"
    /\ UNCHANGED <<m_lstRetryTask, m_lstTrashbin, at, bRecycle, notify, calls, work,
                   time, end, m_lstCBThreads, retries>>

EndDeal ==
    /\ At("deal")
    /\ at > Len(m_lstTask)
    /\ at' = 1
    /\ mpc' = "retry"
    /\ UNCHANGED <<lists, pTask, bRecycle, notify, calls, work, time, end,
                   m_lstCBThreads, retries>>

(* DealRetryTask (260-283): the push onto m_lstTask is locked, the erase     *)
(* that follows it is not.                                                   *)
Retrying == At("retry") /\ at \in DOMAIN m_lstRetryTask

KeepForRetry ==
    /\ Retrying
    /\ m_lstRetryTask[at] \notin ripe
    /\ at' = at + 1
    /\ UNCHANGED <<lists, mpc, pTask, bRecycle, notify, calls, work, time, end,
                   m_lstCBThreads, retries>>

RetryTask ==
    /\ Retrying
    /\ m_lstRetryTask[at] \in ripe
    /\ m_lstTask' = Append(m_lstTask, m_lstRetryTask[at])
    /\ mpc' = "unretry"
    /\ UNCHANGED <<m_lstRetryTask, m_lstTrashbin, m_mapTaskWorkMapping, pTask, at,
                   bRecycle, notify, calls, work, time, end, m_lstCBThreads, retries>>

(* Faulty variant: the task stays in the retry list.                         *)
NotErased == at' = at + 1 /\ UNCHANGED m_lstRetryTask

Erased == m_lstRetryTask' = RemoveAt(m_lstRetryTask, at) /\ UNCHANGED at

EraseRetried ==
    /\ At("unretry")
    /\ Erased
    /\ mpc' = "retry"
    /\ UNCHANGED <<m_lstTask, m_lstTrashbin, m_mapTaskWorkMapping, pTask, bRecycle,
                   notify, calls, work, time, end, m_lstCBThreads, retries>>

EndRetry ==
    /\ At("retry")
    /\ at > Len(m_lstRetryTask)
    /\ at' = 1
    /\ mpc' = "clean"
    /\ UNCHANGED <<lists, pTask, bRecycle, notify, calls, work, time, end,
                   m_lstCBThreads, retries>>

(* DealMemClean (285-326).                                                   *)
DealMemClean ==
    /\ At("clean")
    /\ freed' = freed \cup (m_lstTrashbin \cap ripe)
    /\ m_lstTrashbin' = m_lstTrashbin \ ripe
    /\ mpc' = "get"
    /\ UNCHANGED <<m_lstTask, m_lstRetryTask, m_mapTaskWorkMapping, pTask, at, bRecycle,
                   notify, calls, work, time, stopping, undefined, m_lstCBThreads,
                   retries>>
-----------------------------------------------------------------------------
(* The destructors: that of the subclass stops the thread, and no call of    *)
(* the application may overlap it.                                           *)

Stop ==
    /\ ~undefined
    /\ ~stopping
    /\ \A c \in Callers : cpc[c] = "none"
    /\ stopping' = TRUE
    /\ UNCHANGED <<lists, local, calls, work, time, freed, undefined, m_lstCBThreads,
                   retries>>

Quit ==
    /\ At("get")
    /\ stopping
    /\ mpc' = "exited"
    /\ UNCHANGED <<lists, pTask, at, bRecycle, notify, calls, work, time, end,
                   m_lstCBThreads, retries>>

(* CleanTasks and DealMemClean(true): what is with the agents stays.         *)
Destroy ==
    /\ At("exited")
    /\ freed' = freed \cup TaskSet \cup RetrySet \cup m_lstTrashbin
    /\ m_lstTask' = <<>>
    /\ m_lstRetryTask' = <<>>
    /\ m_lstTrashbin' = {}
    /\ mpc' = "gone"
    /\ UNCHANGED <<m_mapTaskWorkMapping, pTask, at, bRecycle, notify, calls, work,
                   time, stopping, undefined, m_lstCBThreads, retries>>
-----------------------------------------------------------------------------
(* The wait of t for its delay, its retry or its deletion is over.           *)
TimePasses(t) ==
    /\ ~undefined
    /\ t \in invoked
    /\ t \in delayed \/ t \notin ripe
    /\ delayed' = delayed \ {t}
    /\ ripe' = ripe \cup {t}
    /\ rested' = IF t \in m_lstTrashbin THEN rested \cup {t} ELSE rested
    /\ UNCHANGED <<lists, local, calls, work, end, m_lstCBThreads, retries>>

(* Two threads at a list without a mutex, one of them to change it.          *)
BinRace ==
    \E c \in Callers :
        /\ cpc[c] = "trash"
        /\ \/ mpc = "clean"
           \/ mpc = "recycle" /\ bRecycle
           \/ mpc = "deal" /\ at \in DOMAIN m_lstTask /\ NobodyRuns(m_lstTask[at])
           \/ \E d \in Callers \ {c} : cpc[d] = "trash"

RetryRace ==
    \E c \in Callers :
        /\ cpc[c] = "scanRetry"
        /\ mpc = "unretry" \/ (mpc = "answer" /\ retries < MaxRetries)

(* What has no defined effect ends the model: nothing is claimed after it.   *)
GoesWrong ==
    /\ ~undefined
    /\ BinRace \/ RetryRace \/ (invoked # Tasks /\ IndexPastEnd) \/ \E c \in Callers : ReadsFreed(c)
    /\ undefined' = TRUE
    /\ UNCHANGED <<lists, local, calls, work, time, stopping, freed, m_lstCBThreads,
                   retries>>

CallStep(c) ==
    \/ ScanTask(c)
    \/ ScanRetry(c)
    \/ ScanMap(c)
    \/ Trash(c)
    \/ Push(c)
    \/ Report(c)

HandleStep ==
    \/ OnHandleMessage
    \/ BeginNotice
    \/ PostNotice
    \/ EndNotice
    \/ Recycle
    \/ Unmap

ExecuteStep ==
    \/ BeginDeal
    \/ SkipDelayed
    \/ DiscardTask
    \/ RunTask
    \/ MapTask
    \/ EndDeal
    \/ KeepForRetry
    \/ RetryTask
    \/ EraseRetried
    \/ EndRetry
    \/ DealMemClean

ManagerStep == TakeMessage \/ TakeNothing \/ HandleStep \/ ExecuteStep \/ Quit

Next ==
    \/ ManagerStep
    \/ \E a \in Agents : AgentRuns(a)
    \/ \E c \in Callers : CallStep(c) \/ \E t \in Tasks : CallInvoke(c, t)
    \/ \E s \in Subscribers : RegisterCallBack(s) \/ UnRegisterCallBack(s)
    \/ \E t \in Tasks : TimePasses(t)
    \/ OtherManagerTakes
    \/ Stop
    \/ Destroy
    \/ GoesWrong

Spec == Init /\ [][Next]_vars

(* Every thread that can run runs, and time passes.                          *)
Fairness ==
    /\ WF_vars(ManagerStep)
    /\ \A a \in Agents : WF_vars(AgentRuns(a))
    /\ \A c \in Callers : WF_vars(CallStep(c))
    /\ \A t \in Tasks : WF_vars(TimePasses(t))

FairSpec == Spec /\ Fairness
-----------------------------------------------------------------------------
(* The tasks an answer of which is being handled, before the erase (425).    *)
Handled == IF mpc \in {"answer", "tell", "notice", "recycle", "unmap"} THEN {pTask} ELSE {}

(* A task pushed is in one list, once, or at work, or was deleted; while     *)
(* DealTask and DealRetryTask hand it over it is in the place it comes from  *)
(* too.  Nothing but a subscriber can reach a task that was deleted.         *)
OnePlace ==
    LET listed == TaskSet \ (IF mpc = "map" THEN {pTask} ELSE {})
        waits == IF mpc = "unretry" THEN RetrySet \ {m_lstRetryTask[at]} ELSE RetrySet
        working == WithAgents \cup (Answers \ silent)
    IN  /\ \A i, j \in DOMAIN m_lstTask : m_lstTask[i] = m_lstTask[j] => i = j
        /\ \A i, j \in DOMAIN m_lstRetryTask : m_lstRetryTask[i] = m_lstRetryTask[j] => i = j
        /\ listed \cap waits = {}
        /\ (listed \cup waits) \cap (working \cup m_lstTrashbin) = {}
        /\ working \cap m_lstTrashbin = {}
        /\ (TaskSet \cup RetrySet \cup WithAgents \cup Answers \cup m_lstTrashbin
              \cup m_mapTaskWorkMapping) \cap freed = {}
        /\ accepted \subseteq listed \cup waits \cup working \cup m_lstTrashbin
              \cup Handled \cup silent \cup freed

(* The tasks at work are in the map, except the one DealTask has just given  *)
(* to its agent: an answer cannot be handled before the task is entered, so  *)
(* no entry outlives its task unless the task was never answered.            *)
WorkingIsMapped ==
    LET handedOver == IF mpc = "map" THEN {pTask} ELSE {}
    IN  /\ WithAgents \cup Answers \cup Handled \subseteq m_mapTaskWorkMapping \cup handedOver
        /\ m_mapTaskWorkMapping \subseteq WithAgents \cup Answers \cup Handled \cup silent

(* A task with bKeepSingle is pushed only when every equal task pushed       *)
(* before its Invoke began is done with, although the three containers are   *)
(* searched one after the other: on the way from m_lstTask to the map a task *)
(* is not missed.  Only one that was in the retry list meanwhile can be.     *)
SingleUnlessRetried ==
    \A c \in Callers :
        cpc[c] = "push" /\ ctask[c] \in KeepSingle =>
            ~Equal(ctask[c], (known[c] \ retried[c])
                                 \cap (TaskSet \cup RetrySet \cup m_mapTaskWorkMapping))

(* Notice posts to every subscriber of the list once and to no thread that   *)
(* has unregistered (m_mtxCBs).                                              *)
NoticeIsExact ==
    mpc = "notice" =>
        \E k \in 0..Len(m_lstCBThreads) :
            notify = SubSeq(m_lstCBThreads, k + 1, Len(m_lstCBThreads))

(* A task that was answered is deleted only when the clean interval has      *)
(* passed since: subscribers have that long to read it, and so has Invoke,   *)
(* which reads a task it has handed over.                                    *)
FreedAfterRest ==
    mpc # "gone" =>
        \A t \in freed : t \in rested \/ NobodyRuns(t) \/ t \notin accepted

(* Every task pushed is answered or deleted, and leaves the map, over delays *)
(* and retries, unless its handler gives no response, the manager stops, or  *)
(* the manager or the agent of the task itself was never woken up: an agent  *)
(* that sleeps holds up no task but its own.                                 *)
TaskEnds ==
    \A t \in Tasks :
        t \in TaskSet ~>
            \/ t \in freed /\ t \notin m_mapTaskWorkMapping
            \/ t \in silent \/ stopping \/ undefined
            \/ mpc = "asleep" \/ pAgent[t] \in asleep
=============================================================================
