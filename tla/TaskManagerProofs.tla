--------------------------- MODULE TaskManagerProofs ---------------------------
(***************************************************************************)
(* The safety invariants of TaskManager hold for every set of tasks,       *)
(* callers, subscribers and agents.  IInv adds to them what a step needs   *)
(* to know: where a task is, between the lists, the agents, the messages   *)
(* and the locals of the threads.                                          *)
(***************************************************************************)
EXTENDS TaskManager, BasicLemmas

(* What the locals of the threads say.                                       *)
Locals ==
    /\ \A c \in Callers : cpc[c] # "none" => ctask[c] \in invoked
    /\ \A c, d \in Callers :
           cpc[c] # "none" /\ cpc[d] # "none" /\ ctask[c] = ctask[d] => c = d
    /\ mpc \in {"answer", "tell", "notice", "recycle", "unmap", "map"} => pTask \in Tasks
    /\ mpc = "map" => at \in DOMAIN m_lstTask /\ pTask = m_lstTask[at]
    /\ mpc = "unretry" =>
           at \in DOMAIN m_lstRetryTask /\ m_lstRetryTask[at] \in TaskSet

(* The places a task can be in.                                              *)
Calling == {ctask[c] : c \in {d \in Callers : cpc[d] \notin {"none", "report"}}}
Listed == TaskSet \ (IF mpc = "map" THEN {pTask} ELSE {})
Waits == IF mpc = "unretry" THEN RetrySet \ {m_lstRetryTask[at]} ELSE RetrySet
Answered == Answers \ silent
InHand ==
    IF mpc = "answer" \/ (mpc \in {"tell", "notice", "recycle"} /\ bRecycle)
    THEN {pTask} ELSE {}

(* No task is in two places, or twice in one.                                *)
Apart ==
    /\ Calling \cap (Listed \cup Waits \cup WithAgents \cup Answered \cup InHand
                       \cup m_lstTrashbin \cup silent \cup freed) = {}
    /\ Listed \cap (Waits \cup WithAgents \cup Answered \cup InHand
                       \cup m_lstTrashbin \cup silent \cup freed) = {}
    /\ Waits \cap (WithAgents \cup Answered \cup InHand
                       \cup m_lstTrashbin \cup silent \cup freed) = {}
    /\ WithAgents \cap (Answered \cup InHand \cup m_lstTrashbin \cup silent \cup freed) = {}
    /\ Answered \cap (InHand \cup m_lstTrashbin \cup freed) = {}
    /\ InHand \cap (m_lstTrashbin \cup silent \cup freed) = {}
    /\ m_lstTrashbin \cap (silent \cup freed) = {}
    /\ silent \cap freed = {}

Once ==
    /\ OnlyOnce(m_lstTask, Tasks)
    /\ OnlyOnce(m_lstRetryTask, Tasks)
    /\ OnlyOnce(inbox, Tasks)
    /\ \A a \in Agents : OnlyOnce(agent[a], Tasks)
    /\ \A a, b \in Agents : a # b => ToSet(agent[a]) \cap ToSet(agent[b]) = {}

(* Every task that was pushed is in a place, and only those passed to Invoke *)
(* are.                                                                      *)
Somewhere ==
    /\ accepted \subseteq Listed \cup Waits \cup WithAgents \cup Answered \cup InHand
                            \cup m_lstTrashbin \cup silent \cup freed
    /\ accepted \cap Calling = {}
    /\ Listed \cup Waits \cup WithAgents \cup Answered \cup InHand
         \cup m_lstTrashbin \cup silent \cup freed \subseteq invoked
    /\ accepted \subseteq invoked

(* Where the tasks are that the manager is in the middle of moving, and what *)
(* makes an answer one.                                                      *)
Moving ==
    /\ mpc = "map" => pTask \in WithAgents \cup Answered \cup silent
    /\ mpc \in {"tell", "notice", "recycle"} /\ ~bRecycle => pTask \in Waits
    /\ mpc = "unmap" => pTask \in Waits \cup m_lstTrashbin
    /\ Answered \subseteq pResp
    /\ Answers \cap silent \cap pResp = {}

(* What IsTaskExist has found out so far.                                    *)
Searched ==
    \A c \in Callers :
        LET before == known[c] \ retried[c]
        IN  /\ cpc[c] # "none" => known[c] \subseteq accepted
            /\ cpc[c] \in {"scanTask", "scanRetry", "scanMap", "push"} =>
                   before \cap RetrySet = {}
            /\ cpc[c] \in {"scanRetry", "scanMap", "push"} /\ ctask[c] \in KeepSingle =>
                   ~Equal(ctask[c], before \cap TaskSet)
            /\ cpc[c] = "push" /\ ctask[c] \in KeepSingle =>
                   ~Equal(ctask[c], before \cap m_mapTaskWorkMapping)

(* A task whose interval in the trash bin is over has spent it there, or was *)
(* never given to anybody.                                                   *)
Excused(t) == t \in rested \/ NobodyRuns(t) \/ t \notin accepted

Rests ==
    /\ \A t \in m_lstTrashbin \cap ripe : Excused(t)
    /\ mpc # "gone" => \A t \in freed : Excused(t)

IInv ==
    /\ TypeOK
    /\ Locals
    /\ Apart
    /\ Once
    /\ Somewhere
    /\ Moving
    /\ WorkingIsMapped
    /\ Searched
    /\ NoticeIsExact
    /\ Rests
-----------------------------------------------------------------------------
LEMMA InitIInv == Init => IInv
  <1> SUFFICES ASSUME Init PROVE IInv
    OBVIOUS
  <1> USE TaskManagerAssumption DEF Init
  <1>1. TypeOK
    <2>1. /\ nLastAgentIndex \in Agents
          /\ pAgent \in [Tasks -> Agents]
      BY DEF Agents
    <2>2. agent \in [Agents -> Seq(Tasks)]
      OBVIOUS
    <2>3. /\ cpc \in [Callers -> CallPC]
          /\ mpc \in ManagerPC
      BY DEF CallPC, ManagerPC
    <2>4. /\ known \in [Callers -> SUBSET Tasks]
          /\ retried \in [Callers -> SUBSET Tasks]
          /\ ctask \in [Callers -> Tasks \cup {None}]
      OBVIOUS
    <2>5. asleep \subseteq Agents
      OBVIOUS
    <2>6. /\ m_lstTask \in Seq(Tasks) /\ m_lstRetryTask \in Seq(Tasks)
          /\ m_lstCBThreads \in Seq(Subscribers) /\ notify \in Seq(Subscribers)
          /\ inbox \in Seq(Tasks \cup {None})
          /\ at \in Nat \ {0} /\ retries \in Nat /\ foreign \in 0..MaxForeign
      OBVIOUS
    <2>7. /\ m_lstTrashbin \subseteq Tasks /\ m_mapTaskWorkMapping \subseteq Tasks
          /\ pResp \subseteq Tasks /\ pTask \in Tasks \cup {None}
          /\ delayed \subseteq Tasks /\ ripe \subseteq Tasks /\ freed \subseteq Tasks
          /\ bRecycle \in BOOLEAN /\ stopping \in BOOLEAN /\ undefined \in BOOLEAN
          /\ invoked \subseteq Tasks /\ accepted \subseteq Tasks
          /\ silent \subseteq Tasks /\ rested \subseteq Tasks
      OBVIOUS
    <2> HIDE DEF Init
    <2> QED BY <2>1, <2>2, <2>3, <2>4, <2>5, <2>6, <2>7 DEF TypeOK
  <1>2. /\ TaskSet = {} /\ RetrySet = {} /\ Answers = {} /\ WithAgents = {}
        /\ Calling = {} /\ Listed = {} /\ Waits = {} /\ Answered = {} /\ InHand = {}
    BY DEF TaskSet, RetrySet, Answers, WithAgents, Calling, Listed, Waits, Answered,
           InHand, ToSet
  <1>3. Locals /\ Moving /\ WorkingIsMapped /\ NoticeIsExact /\ Searched /\ Rests
    BY <1>2 DEF Locals, Moving, WorkingIsMapped, NoticeIsExact, Searched, Rests, Handled
  <1>4. Apart /\ Somewhere
    BY <1>2 DEF Apart, Somewhere
  <1>5. Once
    BY DEF Once, OnlyOnce, ToSet
  <1> QED BY <1>1, <1>3, <1>4, <1>5 DEF IInv

LEMMA AgentTaken ==
    ASSUME TypeOK
    PROVE  /\ \A n \in {AgentCounts, OtherCounts} :
                  NextAgentIndex(n) \in Agents \cup 0..(OtherCounts - 1)
           /\ nLastAgentIndex \in Agents => NextAgentIndex(AgentCounts) \in Agents
           /\ OtherCounts =< AgentCounts => NextAgentIndex(OtherCounts) \in Agents
  BY TaskManagerAssumption DEF TypeOK, NextAgentIndex, Agents

LEMMA CallKeepsTypes ==
    ASSUME IInv, NEW c \in Callers, CallStep(c) \/ \E t \in Tasks : CallInvoke(c, t)
    PROVE  TypeOK'
  <1> USE DEF TypeOK, ManagerPC, CallPC, lists, local, calls, work, time, end, InCall
  <1>0. TypeOK /\ Locals
    BY DEF IInv
  <1>1. ASSUME NEW t \in Tasks, CallInvoke(c, t) PROVE TypeOK'
    <2>1. RetrySet \subseteq Tasks
      BY <1>0, ElementsOfList DEF RetrySet
    <2>2. nLastAgentIndex' \in Agents
      BY <1>0, <1>1, AgentTaken DEF CallInvoke
    <2> QED BY <1>0, <1>1, <2>1, <2>2 DEF CallInvoke
  <1>2. CASE ScanTask(c)
    BY <1>0, <1>2 DEF ScanTask, Goto
  <1>3. CASE ScanRetry(c)
    BY <1>0, <1>3 DEF ScanRetry, Goto
  <1>4. CASE ScanMap(c)
    BY <1>0, <1>4 DEF ScanMap, Goto
  <1>5. CASE Trash(c)
    BY <1>0, <1>5 DEF Trash, Return, Locals
  <1>6. CASE Push(c)
    BY <1>0, <1>6, ElementsOfAppend DEF Push, Goto, Locals
  <1>7. CASE Report(c)
    BY <1>0, <1>7 DEF Report, Return
  <1> QED BY <1>1, <1>2, <1>3, <1>4, <1>5, <1>6, <1>7 DEF CallStep

LEMMA HandlingKeepsTypes ==
    ASSUME IInv, TakeMessage \/ TakeNothing \/ HandleStep
    PROVE  TypeOK'
  <1> USE DEF TypeOK, ManagerPC, lists, local, calls, work, time, end, At
  <1>0. TypeOK /\ Locals
    BY DEF IInv
  <1>1. CASE TakeMessage
    <2>1. Tail(inbox) \in Seq(Tasks \cup {None}) /\ Head(inbox) \in Tasks \cup {None}
      BY <1>0, <1>1, ElementsOfTail DEF TakeMessage
    <2> QED BY <1>0, <1>1, <2>1 DEF TakeMessage
  <1>2. CASE TakeNothing
    BY <1>0, <1>2 DEF TakeNothing
  <1>3. CASE OnHandleMessage
    <2>1. pTask \in Tasks /\ Append(m_lstRetryTask, pTask) \in Seq(Tasks)
      BY <1>0, <1>3, ElementsOfAppend DEF OnHandleMessage, Locals
    <2>2. /\ m_lstRetryTask' \in Seq(Tasks)
          /\ retried' \in [Callers -> SUBSET Tasks]
          /\ retries' \in Nat
          /\ bRecycle' \in BOOLEAN
      <3>1. CASE UNCHANGED <<m_lstRetryTask, retried, retries>>
        BY <1>0, <1>3, <3>1 DEF OnHandleMessage
      <3>2. CASE /\ m_lstRetryTask' = Append(m_lstRetryTask, pTask)
                 /\ retried' = [d \in Callers |-> retried[d] \cup {pTask}]
                 /\ retries' = retries + 1
        <4>1. retried' \in [Callers -> SUBSET Tasks]
          BY <1>0, <2>1, <3>2
        <4>2. bRecycle' \in BOOLEAN
          BY <1>3 DEF OnHandleMessage
        <4> QED BY <1>0, <2>1, <3>2, <4>1, <4>2
      <3> QED BY <1>3, <3>1, <3>2 DEF OnHandleMessage
    <2> QED BY <1>0, <1>3, <2>2 DEF OnHandleMessage
  <1>4. CASE BeginNotice
    BY <1>0, <1>4 DEF BeginNotice
  <1>5. CASE PostNotice
    BY <1>0, <1>5, ElementsOfTail DEF PostNotice
  <1>6. CASE EndNotice
    BY <1>0, <1>6 DEF EndNotice
  <1>7. CASE Recycle
    BY <1>0, <1>7 DEF Recycle, Stamp, Locals
  <1>8. CASE Unmap
    BY <1>0, <1>8 DEF Unmap, LeaveMap
  <1> QED BY <1>1, <1>2, <1>3, <1>4, <1>5, <1>6, <1>7, <1>8 DEF HandleStep

LEMMA ExecutingKeepsTypes ==
    ASSUME IInv, ExecuteStep
    PROVE  TypeOK'
  <1> USE DEF TypeOK, ManagerPC, lists, local, calls, work, time, end, At
  <1>0. TypeOK /\ Locals
    BY DEF IInv
  <1>1. CASE BeginDeal
    BY <1>0, <1>1 DEF BeginDeal
  <1>2. CASE SkipDelayed
    BY <1>0, <1>2, SMTT(40) DEF SkipDelayed, Dealing
  <1>3. CASE DiscardTask
    <2>1. m_lstTask[at] \in Tasks /\ RemoveAt(m_lstTask, at) \in Seq(Tasks)
      BY <1>0, <1>3, ElementsOfRemoveAt, ElementsOfList DEF DiscardTask, Dealing
    <2> QED BY <1>0, <1>3, <2>1 DEF DiscardTask, Dealing
  <1>4. CASE RunTask
    <2>1. m_lstTask[at] \in Tasks
      BY <1>0, <1>4, ElementsOfList DEF RunTask, Dealing
    <2>2. Append(agent[pAgent[m_lstTask[at]]], m_lstTask[at]) \in Seq(Tasks)
      BY <1>0, <2>1, ElementsOfAppend
    <2> QED BY <1>0, <1>4, <2>1, <2>2 DEF RunTask, Dealing
  <1>5. CASE MapTask
    <2>1. RemoveAt(m_lstTask, at) \in Seq(Tasks) /\ pTask \in Tasks
      BY <1>0, <1>5, ElementsOfRemoveAt DEF MapTask, Locals
    <2> QED BY <1>0, <1>5, <2>1 DEF MapTask, EnterMap
  <1>6. CASE EndDeal
    BY <1>0, <1>6, SMTT(40) DEF EndDeal
  <1>7. CASE KeepForRetry
    BY <1>0, <1>7 DEF KeepForRetry, Retrying
  <1>8. CASE RetryTask
    <2>1. Append(m_lstTask, m_lstRetryTask[at]) \in Seq(Tasks)
      BY <1>0, <1>8, ElementsOfAppend, ElementsOfList DEF RetryTask, Retrying
    <2> QED BY <1>0, <1>8, <2>1 DEF RetryTask, Retrying
  <1>9. CASE EraseRetried
    <2>1. RemoveAt(m_lstRetryTask, at) \in Seq(Tasks)
      BY <1>0, <1>9, ElementsOfRemoveAt DEF EraseRetried, Locals
    <2> QED BY <1>0, <1>9, <2>1 DEF EraseRetried, Erased
  <1>10. CASE EndRetry
    BY <1>0, <1>10 DEF EndRetry
  <1>11. CASE DealMemClean
    BY <1>0, <1>11 DEF DealMemClean
  <1> QED BY <1>1, <1>2, <1>3, <1>4, <1>5, <1>6, <1>7, <1>8, <1>9, <1>10, <1>11
          DEF ExecuteStep
LEMMA OtherStepsKeepTypes ==
    ASSUME IInv,
           \/ Quit \/ Stop \/ Destroy \/ GoesWrong \/ OtherManagerTakes
           \/ \E a \in Agents : AgentRuns(a)
           \/ \E s \in Subscribers : RegisterCallBack(s) \/ UnRegisterCallBack(s)
           \/ \E t \in Tasks : TimePasses(t)
           \/ UNCHANGED vars
    PROVE  TypeOK'
  <1> USE DEF TypeOK, ManagerPC, lists, local, calls, work, time, end, At
  <1>0. TypeOK
    BY DEF IInv
  <1>1. CASE Quit
    BY <1>0, <1>1 DEF Quit
  <1>2. CASE Stop
    BY <1>0, <1>2 DEF Stop
  <1>3. CASE Destroy
    <2>1. TaskSet \subseteq Tasks /\ RetrySet \subseteq Tasks
      BY <1>0, ElementsOfList DEF TaskSet, RetrySet
    <2> QED BY <1>0, <1>3, <2>1 DEF Destroy
  <1>4. CASE GoesWrong
    BY <1>0, <1>4 DEF GoesWrong
  <1>5. CASE OtherManagerTakes
    <2>1. /\ nLastAgentIndex' \in Agents \cup 0..(OtherCounts - 1)
          /\ OtherCounts =< AgentCounts => nLastAgentIndex' \in Agents
      BY <1>0, <1>5, AgentTaken DEF OtherManagerTakes
    <2>2. foreign' \in 0..MaxForeign /\ foreign' > 0
      BY <1>0, <1>5, TaskManagerAssumption DEF OtherManagerTakes
    <2>3. OtherCounts > AgentCounts \/ OtherCounts =< AgentCounts
      BY TaskManagerAssumption
    <2> QED BY <1>0, <1>5, <2>1, <2>2, <2>3 DEF OtherManagerTakes
  <1>6. ASSUME NEW a \in Agents, AgentRuns(a) PROVE TypeOK'
    <2>1. Head(agent[a]) \in Tasks /\ Tail(agent[a]) \in Seq(Tasks)
      BY <1>0, <1>6, ElementsOfTail DEF AgentRuns
    <2>2. inbox' \in Seq(Tasks \cup {None})
      BY <1>0, <1>6, <2>1, ElementsOfAppend DEF AgentRuns
    <2>3. pResp' \subseteq Tasks /\ silent' \subseteq Tasks
      BY <1>0, <1>6, <2>1 DEF AgentRuns
    <2> QED BY <1>0, <1>6, <2>1, <2>2, <2>3, SMTT(40) DEF AgentRuns
  <1>7. ASSUME NEW s \in Subscribers, RegisterCallBack(s) PROVE TypeOK'
    BY <1>0, <1>7, ElementsOfAppend DEF RegisterCallBack
  <1>8. ASSUME NEW s \in Subscribers, UnRegisterCallBack(s) PROVE TypeOK'
    <2>1. m_lstCBThreads' \in Seq(Subscribers)
      BY <1>0, <1>8, ElementsOfRemoveAt DEF UnRegisterCallBack
    <2> QED BY <1>0, <1>8, <2>1 DEF UnRegisterCallBack
  <1>9. ASSUME NEW t \in Tasks, TimePasses(t) PROVE TypeOK'
    BY <1>0, <1>9 DEF TimePasses
  <1>10. CASE UNCHANGED vars
    BY <1>0, <1>10 DEF vars
  <1> QED BY <1>1, <1>2, <1>3, <1>4, <1>5, <1>6, <1>7, <1>8, <1>9, <1>10

LEMMA TypesKept == IInv /\ [Next]_vars => TypeOK'
  BY CallKeepsTypes, HandlingKeepsTypes, ExecutingKeepsTypes, OtherStepsKeepTypes
     DEF Next, ManagerStep
-----------------------------------------------------------------------------
(* The tasks keep to their places.                                           *)
PlacesOK == Locals /\ Apart /\ Once /\ Somewhere /\ Moving /\ WorkingIsMapped

lists_ == <<m_lstTask, m_lstRetryTask, mpc, at, pTask, bRecycle, agent, inbox, silent>>

(* The places follow from the variables of lists_, but for Calling.          *)
LEMMA PlacesSame ==
    ASSUME UNCHANGED lists_
    PROVE  UNCHANGED <<TaskSet, RetrySet, Listed, Waits, WithAgents, Answers, Answered,
                       InHand, Handled>>
  BY DEF lists_, TaskSet, RetrySet, Listed, Waits, WithAgents, Answers, Answered, InHand,
         Handled

LEMMA CallKeepsPlaces ==
    ASSUME IInv, NEW c \in Callers, CallStep(c) \/ \E t \in Tasks : CallInvoke(c, t)
    PROVE  PlacesOK'
  <1> USE DEF lists, local, work, time, end, InCall
  <1>0. TypeOK /\ PlacesOK
    BY DEF IInv, PlacesOK
  <1>1. ASSUME NEW t \in Tasks, CallInvoke(c, t) PROVE PlacesOK'
    <2>1. UNCHANGED lists_
      BY <1>1 DEF CallInvoke, lists_
    <2>2. Calling' = Calling \cup {t}
      <3>1. /\ cpc' = [cpc EXCEPT ![c] = cpc'[c]]
            /\ cpc'[c] \in {"scanTask", "push"}
            /\ cpc[c] = "none"
            /\ ctask' = [ctask EXCEPT ![c] = t]
        BY <1>0, <1>1 DEF CallInvoke, TypeOK
      <3>2. \A d \in Callers :
              /\ cpc'[d] = (IF d = c THEN cpc'[c] ELSE cpc[d])
              /\ ctask'[d] = (IF d = c THEN t ELSE ctask[d])
        BY <1>0, <3>1 DEF TypeOK
      <3>3. ASSUME NEW x \in Calling'
            PROVE  x \in Calling \cup {t}
        BY <3>2, Zenon DEF Calling
      <3>4. ASSUME NEW x \in Calling
            PROVE  x \in Calling'
        BY <3>1, <3>2 DEF Calling
      <3>5. t \in Calling'
        BY <3>1, <3>2 DEF Calling
      <3> QED BY <3>3, <3>4, <3>5
    <2>3. /\ t \notin invoked
          /\ invoked' = invoked \cup {t}
          /\ UNCHANGED <<m_lstTrashbin, freed, accepted, pResp, m_mapTaskWorkMapping>>
      BY <1>1 DEF CallInvoke
    <2>4. Locals'
      BY <1>0, <1>1, <2>1, PlacesSame DEF PlacesOK, Locals, CallInvoke, TypeOK, lists_
    <2>5. Apart'
      BY <1>0, <2>1, <2>2, <2>3, PlacesSame DEF PlacesOK, Apart, Somewhere, lists_
    <2>6. Somewhere'
      BY <1>0, <2>1, <2>2, <2>3, PlacesSame DEF PlacesOK, Somewhere, lists_
    <2>7. Once'
      BY <1>0, <2>1 DEF PlacesOK, Once, lists_
    <2>8. Moving' /\ WorkingIsMapped'
      BY <1>0, <2>1, <2>3, PlacesSame DEF PlacesOK, Moving, WorkingIsMapped, lists_
    <2> QED BY <2>4, <2>5, <2>6, <2>7, <2>8 DEF PlacesOK
  <1>2. CASE ScanTask(c) \/ ScanRetry(c) \/ ScanMap(c) \/ Report(c)
    <2>1. UNCHANGED lists_
      BY <1>2 DEF ScanTask, ScanRetry, ScanMap, Report, lists_
    <2>2. /\ UNCHANGED <<m_lstTrashbin, freed, accepted, pResp, m_mapTaskWorkMapping, invoked>>
          /\ cpc' = [cpc EXCEPT ![c] = cpc'[c]]
          /\ \/ /\ cpc[c] \in {"scanTask", "scanRetry", "scanMap"}
                /\ cpc'[c] \notin {"none", "report"}
                /\ UNCHANGED ctask
             \/ /\ cpc[c] = "report" /\ cpc'[c] = "none"
                /\ ctask' = [ctask EXCEPT ![c] = None]
      BY <1>0, <1>2 DEF ScanTask, ScanRetry, ScanMap, Report, Goto, Return, TypeOK
    <2>3. UNCHANGED Calling
      <3>1. ASSUME NEW d \in Callers
            PROVE  /\ cpc'[d] \in {"none", "report"} <=> cpc[d] \in {"none", "report"}
                   /\ cpc[d] \notin {"none", "report"} => ctask'[d] = ctask[d]
        BY <1>0, <2>2 DEF TypeOK
      <3> QED BY <3>1 DEF Calling
    <2>4. Locals'
      <3>1. \A d \in Callers :
              cpc'[d] # "none" => cpc[d] # "none" /\ ctask'[d] = ctask[d]
        BY <1>0, <2>2 DEF TypeOK
      <3>2. /\ \A d \in Callers : cpc'[d] # "none" => ctask'[d] \in invoked'
            /\ \A d, e \in Callers :
                   cpc'[d] # "none" /\ cpc'[e] # "none" /\ ctask'[d] = ctask'[e] => d = e
        BY <1>0, <2>2, <3>1 DEF PlacesOK, Locals
      <3> QED BY <1>0, <2>1, <3>2, PlacesSame DEF PlacesOK, Locals, lists_
    <2>5. Apart'
      BY <1>0, <2>1, <2>2, <2>3, PlacesSame DEF PlacesOK, Apart, lists_
    <2>6. Somewhere'
      BY <1>0, <2>1, <2>2, <2>3, PlacesSame DEF PlacesOK, Somewhere, lists_
    <2>7. Once'
      BY <1>0, <2>1 DEF PlacesOK, Once, lists_
    <2>8. Moving' /\ WorkingIsMapped'
      BY <1>0, <2>1, <2>2, PlacesSame DEF PlacesOK, Moving, WorkingIsMapped, lists_
    <2> QED BY <2>4, <2>5, <2>6, <2>7, <2>8 DEF PlacesOK
  <1>3. CASE Trash(c)
    <2>1. UNCHANGED lists_
      BY <1>3 DEF Trash, lists_
    <2>2. /\ UNCHANGED <<freed, accepted, pResp, m_mapTaskWorkMapping, invoked>>
          /\ m_lstTrashbin' = m_lstTrashbin \cup {ctask[c]}
          /\ cpc[c] = "trash"
          /\ cpc' = [cpc EXCEPT ![c] = "none"]
          /\ ctask' = [ctask EXCEPT ![c] = None]
      BY <1>3 DEF Trash, Return
    <2>3. ctask[c] \in Calling /\ Calling' = Calling \ {ctask[c]} /\ ctask[c] \in invoked
      BY <1>0, <2>2 DEF Calling, TypeOK, PlacesOK, Locals
    <2>4. Locals'
      BY <1>0, <2>1, <2>2, PlacesSame DEF PlacesOK, Locals, TypeOK, lists_
    <2>5. Apart'
      BY <1>0, <2>1, <2>2, <2>3, PlacesSame DEF PlacesOK, Apart, lists_
    <2>6. Somewhere'
      BY <1>0, <2>1, <2>2, <2>3, PlacesSame DEF PlacesOK, Somewhere, lists_
    <2>7. Once'
      BY <1>0, <2>1 DEF PlacesOK, Once, lists_
    <2>8. Moving' /\ WorkingIsMapped'
      BY <1>0, <2>1, <2>2, PlacesSame DEF PlacesOK, Moving, WorkingIsMapped, lists_
    <2> QED BY <2>4, <2>5, <2>6, <2>7, <2>8 DEF PlacesOK
  <1>4. CASE Push(c)
    <2>1. /\ UNCHANGED <<m_lstRetryTask, mpc, at, pTask, bRecycle, agent, inbox, silent>>
          /\ UNCHANGED <<freed, pResp, m_mapTaskWorkMapping, invoked, m_lstTrashbin, ctask>>
          /\ m_lstTask' = Append(m_lstTask, ctask[c])
          /\ accepted' = accepted \cup {ctask[c]}
          /\ cpc[c] = "push"
          /\ cpc' = [cpc EXCEPT ![c] = "report"]
          /\ mpc \notin {"deal", "map"}
      BY <1>4 DEF Push, Goto, TasksLocked
    <2>2. /\ ctask[c] \in Tasks /\ ctask[c] \in Calling /\ ctask[c] \in invoked
          /\ Calling' = Calling \ {ctask[c]}
      BY <1>0, <2>1 DEF Calling, TypeOK, PlacesOK, Locals
    <2>3. ctask[c] \notin TaskSet
      BY <1>0, <2>1, <2>2 DEF PlacesOK, Apart, Listed
    <2>4. /\ TaskSet' = TaskSet \cup {ctask[c]}
          /\ OnlyOnce(m_lstTask', Tasks)
      BY <1>0, <2>1, <2>2, <2>3, ElementsOfAppend DEF TaskSet, TypeOK, PlacesOK, Once
    <2>5. /\ Listed' = Listed \cup {ctask[c]}
          /\ UNCHANGED <<RetrySet, Waits, WithAgents, Answers, Answered, InHand, Handled>>
      BY <2>1, <2>4 DEF Listed, RetrySet, Waits, WithAgents, Answers, Answered, InHand, Handled
    <2>6. Locals'
      BY <1>0, <2>1, <2>4 DEF PlacesOK, Locals, TypeOK
    <2>7. Apart'
      BY <1>0, <2>1, <2>2, <2>5 DEF PlacesOK, Apart
    <2>8. Somewhere'
      BY <1>0, <2>1, <2>2, <2>5 DEF PlacesOK, Somewhere
    <2>9. Once'
      BY <1>0, <2>1, <2>4 DEF PlacesOK, Once
    <2>10. Moving' /\ WorkingIsMapped'
      BY <1>0, <2>1, <2>5 DEF PlacesOK, Moving, WorkingIsMapped
    <2> QED BY <2>6, <2>7, <2>8, <2>9, <2>10 DEF PlacesOK
  <1> QED BY <1>1, <1>2, <1>3, <1>4 DEF CallStep

LEMMA TakingKeepsPlaces ==
    ASSUME IInv, TakeMessage \/ TakeNothing
    PROVE  PlacesOK'
  <1> USE DEF At
  <1>0. TypeOK /\ PlacesOK
    BY DEF IInv, PlacesOK
  <1>1. /\ UNCHANGED <<m_lstTask, m_lstRetryTask, at, bRecycle, agent, silent, freed, pResp,
                       m_mapTaskWorkMapping, m_lstTrashbin, invoked, accepted, cpc, ctask>>
        /\ mpc = "get"
    BY DEF TakeMessage, TakeNothing, lists, calls, time, end, local, work
  <1>2. UNCHANGED Calling
    BY <1>1 DEF Calling
  <1>3. CASE TakeNothing \/ Head(inbox) \notin pResp
    <2>1. mpc' = "lock" /\ (UNCHANGED inbox \/ (inbox # <<>> /\ inbox' = Tail(inbox)))
      BY <1>1, <1>3 DEF TakeNothing, TakeMessage, work
    <2>2. /\ Answers' \subseteq Answers
          /\ \A t \in Answers \ Answers' : t \notin pResp
          /\ OnlyOnce(inbox', Tasks)
      <3>1. CASE UNCHANGED inbox
        BY <1>0, <3>1 DEF Answers, PlacesOK, Once
      <3>2. CASE inbox # <<>> /\ inbox' = Tail(inbox)
        <4>1. /\ ToSet(inbox) = {Head(inbox)} \cup ToSet(inbox')
              /\ OnlyOnce(inbox', Tasks)
          BY <1>0, <3>2, ElementsOfTail DEF TypeOK, PlacesOK, Once
        <4>2. Head(inbox) \notin pResp
          BY <1>3, <3>2 DEF TakeNothing
        <4> QED BY <4>1, <4>2 DEF Answers
      <3> QED BY <2>1, <3>1, <3>2
    <2>3. /\ UNCHANGED <<TaskSet, RetrySet, Listed, Waits, WithAgents, Answered>>
          /\ InHand' = {} /\ InHand = {} /\ Handled' = {} /\ Handled = {}
      BY <1>0, <1>1, <2>1, <2>2 DEF TaskSet, RetrySet, Listed, Waits, WithAgents, Answered,
         InHand, Handled, PlacesOK, Moving
    <2>4. Locals'
      BY <1>0, <1>1, <2>1 DEF PlacesOK, Locals
    <2>5. Apart'
      BY <1>0, <1>1, <1>2, <2>3 DEF PlacesOK, Apart
    <2>6. Somewhere'
      BY <1>0, <1>1, <1>2, <2>3 DEF PlacesOK, Somewhere
    <2>7. Once'
      BY <1>0, <1>1, <2>2 DEF PlacesOK, Once
    <2>8. Moving'
      BY <1>0, <1>1, <2>1, <2>2, <2>3 DEF PlacesOK, Moving
    <2>9. Answers \ Answers' \subseteq silent
      BY <1>0, <2>2 DEF PlacesOK, Moving, Answered
    <2>10. WorkingIsMapped'
      <3>1. mpc # "map" /\ mpc' # "map"
        BY <1>1, <2>1
      <3> QED BY <1>0, <1>1, <2>2, <2>3, <2>9, <3>1 DEF PlacesOK, WorkingIsMapped
    <2> QED BY <2>4, <2>5, <2>6, <2>7, <2>8, <2>10 DEF PlacesOK
  <1>4. CASE TakeMessage /\ Head(inbox) \in pResp
    <2>1. /\ mpc' = "answer" /\ pTask' = Head(inbox)
          /\ inbox # <<>> /\ inbox' = Tail(inbox)
      BY <1>4 DEF TakeMessage
    <2>2. /\ pTask' \in Tasks
          /\ ToSet(inbox) = {pTask'} \cup ToSet(inbox')
          /\ pTask' \notin ToSet(inbox')
          /\ OnlyOnce(inbox', Tasks)
      BY <1>0, <1>4, <2>1, ElementsOfTail DEF TypeOK, PlacesOK, Once
    <2>3. Answers' = Answers \ {pTask'} /\ pTask' \in Answers
      BY <2>2, TaskManagerAssumption DEF Answers
    <2>4. pTask' \notin silent
      BY <1>0, <1>4, <2>1, <2>3 DEF PlacesOK, Moving
    <2>5. /\ UNCHANGED <<TaskSet, RetrySet, Listed, Waits, WithAgents>>
          /\ Answered' = Answered \ {pTask'} /\ pTask' \in Answered
          /\ InHand' = {pTask'} /\ InHand = {} /\ Handled' = {pTask'} /\ Handled = {}
      BY <1>1, <2>1, <2>3, <2>4 DEF TaskSet, RetrySet, Listed, Waits, WithAgents, Answered,
         InHand, Handled
    <2>6. Locals'
      BY <1>0, <1>1, <2>1, <2>2 DEF PlacesOK, Locals
    <2>7. Apart'
      BY <1>0, <1>1, <1>2, <2>4, <2>5 DEF PlacesOK, Apart
    <2>8. Somewhere'
      BY <1>0, <1>1, <1>2, <2>5 DEF PlacesOK, Somewhere
    <2>9. Once'
      BY <1>0, <1>1, <2>2 DEF PlacesOK, Once
    <2>10. Moving' /\ WorkingIsMapped'
      BY <1>0, <1>1, <2>1, <2>3, <2>5 DEF PlacesOK, Moving, WorkingIsMapped
    <2> QED BY <2>6, <2>7, <2>8, <2>9, <2>10 DEF PlacesOK
  <1> QED BY <1>3, <1>4

LEMMA HandlingKeepsPlaces ==
    ASSUME IInv, HandleStep
    PROVE  PlacesOK'
  <1> USE DEF At, lists, local, calls, work, time, end
  <1>0. TypeOK /\ PlacesOK
    BY DEF IInv, PlacesOK
  <1>1. CASE OnHandleMessage /\ UNCHANGED m_lstRetryTask /\ bRecycle'
    <2>1. /\ UNCHANGED <<m_lstTask, m_lstRetryTask, at, agent, silent, freed, pResp, inbox,
                         m_mapTaskWorkMapping, m_lstTrashbin, invoked, accepted, cpc, ctask,
                         pTask>>
          /\ mpc = "answer" /\ mpc' \in {"tell", "recycle"} /\ bRecycle'
      BY <1>1 DEF OnHandleMessage
    <2>2. /\ UNCHANGED <<TaskSet, RetrySet, Listed, Waits, WithAgents, Answers, Answered,
                         Calling, InHand, Handled>>
      BY <2>1 DEF TaskSet, RetrySet, Listed, Waits, WithAgents, Answers, Answered, Calling,
         InHand, Handled
    <2>3. Locals' /\ Once'
      BY <1>0, <2>1, <2>2 DEF PlacesOK, Locals, Once
    <2>4. Apart' /\ Somewhere'
      BY <1>0, <2>1, <2>2 DEF PlacesOK, Apart, Somewhere
    <2>5. Moving' /\ WorkingIsMapped'
      BY <1>0, <2>1, <2>2 DEF PlacesOK, Moving, WorkingIsMapped
    <2> QED BY <2>3, <2>4, <2>5 DEF PlacesOK
  <1>2. CASE OnHandleMessage /\ ~bRecycle'
    <2>1. /\ UNCHANGED <<m_lstTask, at, agent, silent, freed, pResp, inbox,
                         m_mapTaskWorkMapping, m_lstTrashbin, invoked, accepted, cpc, ctask,
                         pTask>>
          /\ m_lstRetryTask' = Append(m_lstRetryTask, pTask)
          /\ mpc = "answer" /\ mpc' \in {"tell", "recycle"} /\ ~bRecycle'
      BY <1>2 DEF OnHandleMessage
    <2>2. /\ pTask \in Tasks /\ InHand = {pTask} /\ Handled = {pTask}
          /\ Waits = RetrySet
          /\ pTask \notin RetrySet
      BY <1>0, <2>1 DEF PlacesOK, Locals, InHand, Handled, Apart, Waits
    <2>3. RetrySet' = RetrySet \cup {pTask} /\ OnlyOnce(m_lstRetryTask', Tasks)
      BY <1>0, <2>1, <2>2, ElementsOfAppend DEF RetrySet, TypeOK, PlacesOK, Once
    <2>4. /\ UNCHANGED <<TaskSet, Listed, WithAgents, Answers, Answered, Calling, Handled>>
          /\ InHand' = {} /\ Waits' = Waits \cup {pTask}
      BY <2>1, <2>2, <2>3 DEF TaskSet, Listed, Waits, WithAgents, Answers, Answered, Calling,
         InHand, Handled
    <2>5. Locals' /\ Once'
      BY <1>0, <2>1, <2>2, <2>3 DEF PlacesOK, Locals, Once
    <2>6. Apart' /\ Somewhere'
      BY <1>0, <2>1, <2>2, <2>4 DEF PlacesOK, Apart, Somewhere
    <2>7. Moving' /\ WorkingIsMapped'
      BY <1>0, <2>1, <2>2, <2>4 DEF PlacesOK, Moving, WorkingIsMapped
    <2> QED BY <2>5, <2>6, <2>7 DEF PlacesOK
  <1>3. CASE BeginNotice \/ PostNotice \/ EndNotice
    <2>1. /\ UNCHANGED <<m_lstTask, m_lstRetryTask, at, agent, silent, freed, pResp, inbox,
                         m_mapTaskWorkMapping, m_lstTrashbin, invoked, accepted, cpc, ctask,
                         pTask, bRecycle>>
          /\ mpc \in {"tell", "notice"} /\ mpc' \in {"notice", "recycle"}
      BY <1>3 DEF BeginNotice, PostNotice, EndNotice
    <2>2. UNCHANGED <<TaskSet, RetrySet, Listed, Waits, WithAgents, Answers, Answered,
                      Calling, InHand, Handled>>
      BY <2>1 DEF TaskSet, RetrySet, Listed, Waits, WithAgents, Answers, Answered, Calling,
         InHand, Handled
    <2>3. Locals' /\ Once'
      BY <1>0, <2>1, <2>2 DEF PlacesOK, Locals, Once
    <2>4. Apart' /\ Somewhere'
      BY <1>0, <2>1, <2>2 DEF PlacesOK, Apart, Somewhere
    <2>5. Moving' /\ WorkingIsMapped'
      BY <1>0, <2>1, <2>2 DEF PlacesOK, Moving, WorkingIsMapped
    <2> QED BY <2>3, <2>4, <2>5 DEF PlacesOK
  <1>4. CASE Recycle
    <2>1. /\ UNCHANGED <<m_lstTask, m_lstRetryTask, at, agent, silent, freed, pResp, inbox,
                         m_mapTaskWorkMapping, invoked, accepted, cpc, ctask, pTask, bRecycle>>
          /\ mpc = "recycle" /\ mpc' = "unmap"
          /\ m_lstTrashbin' = m_lstTrashbin \cup (IF bRecycle THEN {pTask} ELSE {})
      BY <1>4 DEF Recycle
    <2>2. /\ UNCHANGED <<TaskSet, RetrySet, Listed, Waits, WithAgents, Answers, Answered,
                         Calling, Handled>>
          /\ InHand = (IF bRecycle THEN {pTask} ELSE {}) /\ InHand' = {}
      BY <2>1 DEF TaskSet, RetrySet, Listed, Waits, WithAgents, Answers, Answered, Calling,
         InHand, Handled
    <2>3. Locals' /\ Once'
      BY <1>0, <2>1, <2>2 DEF PlacesOK, Locals, Once
    <2>4. Apart' /\ Somewhere'
      BY <1>0, <2>1, <2>2 DEF PlacesOK, Apart, Somewhere
    <2>5. Moving' /\ WorkingIsMapped'
      BY <1>0, <2>1, <2>2 DEF PlacesOK, Moving, WorkingIsMapped
    <2> QED BY <2>3, <2>4, <2>5 DEF PlacesOK
  <1>5. CASE Unmap
    <2>1. /\ UNCHANGED <<m_lstTask, m_lstRetryTask, at, agent, silent, freed, pResp, inbox,
                         m_lstTrashbin, invoked, accepted, cpc, ctask, bRecycle>>
          /\ mpc = "unmap" /\ mpc' = "lock"
          /\ m_mapTaskWorkMapping' = m_mapTaskWorkMapping \ {pTask}
      BY <1>5 DEF Unmap, LeaveMap
    <2>2. /\ UNCHANGED <<TaskSet, RetrySet, Listed, Waits, WithAgents, Answers, Answered,
                         Calling, InHand>>
          /\ Handled = {pTask} /\ Handled' = {}
      BY <2>1 DEF TaskSet, RetrySet, Listed, Waits, WithAgents, Answers, Answered, Calling,
         InHand, Handled
    <2>3. pTask \notin WithAgents \cup Answers
      BY <1>0, <2>1 DEF PlacesOK, Moving, Apart, Answered
    <2>4. Locals' /\ Once'
      BY <1>0, <2>1, <2>2 DEF PlacesOK, Locals, Once
    <2>5. Apart' /\ Somewhere'
      BY <1>0, <2>1, <2>2 DEF PlacesOK, Apart, Somewhere
    <2>6. Moving' /\ WorkingIsMapped'
      BY <1>0, <2>1, <2>2, <2>3 DEF PlacesOK, Moving, WorkingIsMapped
    <2> QED BY <2>4, <2>5, <2>6 DEF PlacesOK
  <1> QED BY <1>1, <1>2, <1>3, <1>4, <1>5 DEF HandleStep, OnHandleMessage

LEMMA ExecutingKeepsPlaces ==
    ASSUME IInv, ExecuteStep
    PROVE  PlacesOK'
  <1> USE DEF At, lists, local, calls, work, time, end
  <1>0. TypeOK /\ PlacesOK
    BY DEF IInv, PlacesOK
  <1>1. CASE BeginDeal \/ SkipDelayed \/ EndDeal \/ KeepForRetry \/ EndRetry
    <2>1. /\ UNCHANGED <<m_lstTask, m_lstRetryTask, agent, silent, freed, pResp, inbox,
                         m_mapTaskWorkMapping, m_lstTrashbin, invoked, accepted, cpc, ctask,
                         pTask, bRecycle>>
          /\ mpc \in {"lock", "deal", "retry"} /\ mpc' \in {"deal", "retry", "clean"}
      BY <1>1 DEF BeginDeal, SkipDelayed, EndDeal, KeepForRetry, EndRetry, Dealing, Retrying
    <2>2. UNCHANGED <<TaskSet, RetrySet, Listed, Waits, WithAgents, Answers, Answered,
                      Calling, InHand, Handled>>
      BY <2>1 DEF TaskSet, RetrySet, Listed, Waits, WithAgents, Answers, Answered, Calling,
         InHand, Handled
    <2>3. Locals' /\ Once'
      BY <1>0, <2>1, <2>2 DEF PlacesOK, Locals, Once
    <2>4. Apart' /\ Somewhere'
      BY <1>0, <2>1, <2>2 DEF PlacesOK, Apart, Somewhere
    <2>5. Moving' /\ WorkingIsMapped'
      BY <1>0, <2>1, <2>2 DEF PlacesOK, Moving, WorkingIsMapped
    <2> QED BY <2>3, <2>4, <2>5 DEF PlacesOK
  <1>2. CASE DiscardTask
    <2> DEFINE t == m_lstTask[at]
    <2>1. /\ UNCHANGED <<m_lstRetryTask, at, agent, silent, freed, pResp, inbox, mpc,
                         m_mapTaskWorkMapping, invoked, accepted, cpc, ctask,
                         pTask, bRecycle>>
          /\ at \in DOMAIN m_lstTask /\ mpc = "deal"
          /\ m_lstTask' = RemoveAt(m_lstTask, at)
          /\ m_lstTrashbin' = m_lstTrashbin \cup {t}
      BY <1>2 DEF DiscardTask, Dealing
    <2>2. /\ t \in Tasks /\ TaskSet = TaskSet' \cup {t} /\ t \notin TaskSet'
          /\ OnlyOnce(m_lstTask', Tasks)
      BY <1>0, <2>1, ElementsOfRemoveAt, ElementsOfList DEF TaskSet, TypeOK, PlacesOK, Once
    <2>3. /\ UNCHANGED <<RetrySet, Waits, WithAgents, Answers, Answered, Calling, InHand,
                         Handled>>
          /\ Listed = Listed' \cup {t} /\ t \notin Listed'
      BY <2>1, <2>2 DEF Listed, RetrySet, Waits, WithAgents, Answers, Answered, Calling,
         InHand, Handled
    <2> HIDE DEF t
    <2>4. Locals' /\ Once'
      BY <1>0, <2>1, <2>2, <2>3 DEF PlacesOK, Locals, Once
    <2>5. Apart'
      BY <1>0, <2>1, <2>3 DEF PlacesOK, Apart
    <2>6. Somewhere'
      BY <1>0, <2>1, <2>3 DEF PlacesOK, Somewhere
    <2>7. Moving' /\ WorkingIsMapped'
      BY <1>0, <2>1, <2>3 DEF PlacesOK, Moving, WorkingIsMapped
    <2> QED BY <2>4, <2>5, <2>6, <2>7 DEF PlacesOK
  <1>3. CASE RunTask
    <2> DEFINE t == m_lstTask[at]
               a == pAgent[t]
    <2>1. /\ UNCHANGED <<m_lstTask, m_lstRetryTask, at, silent, freed, pResp, inbox,
                         m_mapTaskWorkMapping, m_lstTrashbin, invoked, accepted, cpc, ctask,
                         bRecycle>>
          /\ at \in DOMAIN m_lstTask /\ mpc = "deal" /\ mpc' = "map"
          /\ pTask' = t
          /\ agent' = [agent EXCEPT ![a] = Append(agent[a], t)]
      BY <1>3 DEF RunTask, Dealing
    <2>2. /\ t \in Tasks /\ t \in TaskSet /\ a \in Agents
          /\ Listed = TaskSet /\ t \notin WithAgents
      BY <1>0, <2>1, ElementsOfList DEF TaskSet, TypeOK, Listed, PlacesOK, Apart
    <2>3. /\ \A b \in Agents : ToSet(agent'[b]) = ToSet(agent[b]) \cup (IF b = a THEN {t} ELSE {})
          /\ \A b \in Agents : OnlyOnce(agent'[b], Tasks)
      <3>1. /\ ToSet(Append(agent[a], t)) = ToSet(agent[a]) \cup {t}
            /\ OnlyOnce(Append(agent[a], t), Tasks)
        <4>1. t \notin ToSet(agent[a])
          BY <2>2 DEF WithAgents
        <4>2. agent[a] \in Seq(Tasks) /\ OnlyOnce(agent[a], Tasks)
          BY <1>0, <2>2 DEF TypeOK, PlacesOK, Once
        <4> QED BY <2>2, <4>1, <4>2, ElementsOfAppend
      <3>2. /\ agent'[a] = Append(agent[a], t)
            /\ \A b \in Agents \ {a} : agent'[b] = agent[b]
        BY <1>0, <2>1, <2>2 DEF TypeOK
      <3> QED BY <1>0, <3>1, <3>2 DEF PlacesOK, Once
    <2>4. WithAgents' = WithAgents \cup {t}
      BY <2>2, <2>3 DEF WithAgents
    <2>5. /\ UNCHANGED <<TaskSet, RetrySet, Waits, Answers, Answered, Calling, InHand,
                         Handled>>
          /\ Listed' = Listed \ {t} /\ t \in Listed
      BY <2>1, <2>2 DEF TaskSet, Listed, RetrySet, Waits, Answers, Answered, Calling,
         InHand, Handled
    <2> HIDE DEF t, a
    <2>6. Locals'
      BY <1>0, <2>1, <2>2, <2>5 DEF PlacesOK, Locals, t
    <2>7. Once'
      <3>1. ASSUME NEW b \in Agents, NEW d \in Agents, b # d
            PROVE  ToSet(agent'[b]) \cap ToSet(agent'[d]) = {}
        <4>1. t \notin ToSet(agent[b]) /\ t \notin ToSet(agent[d])
          BY <2>2 DEF WithAgents
        <4> QED BY <1>0, <2>3, <3>1, <4>1 DEF PlacesOK, Once
      <3> QED BY <1>0, <2>1, <2>3, <3>1 DEF PlacesOK, Once
    <2>8. Apart'
      BY <1>0, <2>1, <2>4, <2>5 DEF PlacesOK, Apart
    <2>9. Somewhere'
      BY <1>0, <2>1, <2>4, <2>5 DEF PlacesOK, Somewhere
    <2>10. Moving' /\ WorkingIsMapped'
      BY <1>0, <2>1, <2>4, <2>5 DEF PlacesOK, Moving, WorkingIsMapped
    <2> QED BY <2>6, <2>7, <2>8, <2>9, <2>10 DEF PlacesOK
  <1>4. CASE MapTask
    <2>1. /\ UNCHANGED <<m_lstRetryTask, at, agent, silent, freed, pResp, inbox,
                         m_lstTrashbin, invoked, accepted, cpc, ctask, bRecycle>>
          /\ mpc = "map" /\ mpc' = "deal"
          /\ m_lstTask' = RemoveAt(m_lstTask, at)
          /\ m_mapTaskWorkMapping' = m_mapTaskWorkMapping \cup {pTask}
      BY <1>4 DEF MapTask, EnterMap
    <2>2. /\ at \in DOMAIN m_lstTask /\ pTask = m_lstTask[at] /\ pTask \in Tasks
      BY <1>0, <2>1 DEF PlacesOK, Locals
    <2>3. /\ TaskSet = TaskSet' \cup {pTask} /\ pTask \notin TaskSet'
          /\ OnlyOnce(m_lstTask', Tasks)
      BY <1>0, <2>1, <2>2, ElementsOfRemoveAt DEF TaskSet, TypeOK, PlacesOK, Once
    <2>4. UNCHANGED <<Listed, RetrySet, Waits, WithAgents, Answers, Answered, Calling, InHand,
                      Handled>>
      BY <2>1, <2>3 DEF Listed, RetrySet, Waits, WithAgents, Answers, Answered, Calling,
         InHand, Handled
    <2>5. Locals' /\ Once'
      BY <1>0, <2>1, <2>3, <2>4 DEF PlacesOK, Locals, Once
    <2>6. Apart' /\ Somewhere'
      BY <1>0, <2>1, <2>4 DEF PlacesOK, Apart, Somewhere
    <2>7. Moving'
      BY <1>0, <2>1, <2>4 DEF PlacesOK, Moving
    <2>8. WorkingIsMapped'
      BY <1>0, <2>1, <2>4 DEF PlacesOK, Moving, WorkingIsMapped, Answered
    <2> QED BY <2>5, <2>6, <2>7, <2>8 DEF PlacesOK
  <1>5. CASE RetryTask
    <2> DEFINE t == m_lstRetryTask[at]
    <2>1. /\ UNCHANGED <<m_lstRetryTask, at, agent, silent, freed, pResp, inbox,
                         m_mapTaskWorkMapping, m_lstTrashbin, invoked, accepted, cpc, ctask,
                         bRecycle, pTask>>
          /\ mpc = "retry" /\ mpc' = "unretry" /\ at \in DOMAIN m_lstRetryTask
          /\ m_lstTask' = Append(m_lstTask, t)
      BY <1>5 DEF RetryTask, Retrying
    <2>2. /\ t \in Tasks /\ t \in RetrySet /\ Waits = RetrySet
          /\ t \notin TaskSet /\ Listed = TaskSet
      BY <1>0, <2>1, ElementsOfList DEF RetrySet, TypeOK, Waits, Listed, PlacesOK, Apart
    <2>3. TaskSet' = TaskSet \cup {t} /\ OnlyOnce(m_lstTask', Tasks)
      BY <1>0, <2>1, <2>2, ElementsOfAppend DEF TaskSet, TypeOK, PlacesOK, Once
    <2>4. /\ UNCHANGED <<RetrySet, WithAgents, Answers, Answered, Calling, InHand, Handled>>
          /\ Listed' = Listed \cup {t} /\ Waits' = Waits \ {t} /\ t \in Waits
      BY <2>1, <2>2, <2>3 DEF Listed, RetrySet, Waits, WithAgents, Answers, Answered, Calling,
         InHand, Handled
    <2> HIDE DEF t
    <2>5. Locals'
      BY <1>0, <2>1, <2>3, <2>4 DEF PlacesOK, Locals, t
    <2>6. Once'
      BY <1>0, <2>1, <2>3 DEF PlacesOK, Once
    <2>7. Apart' /\ Somewhere'
      BY <1>0, <2>1, <2>4 DEF PlacesOK, Apart, Somewhere
    <2>8. Moving' /\ WorkingIsMapped'
      BY <1>0, <2>1, <2>4 DEF PlacesOK, Moving, WorkingIsMapped
    <2> QED BY <2>5, <2>6, <2>7, <2>8 DEF PlacesOK
  <1>6. CASE EraseRetried
    <2>1. /\ UNCHANGED <<m_lstTask, at, agent, silent, freed, pResp, inbox,
                         m_mapTaskWorkMapping, m_lstTrashbin, invoked, accepted, cpc, ctask,
                         bRecycle, pTask>>
          /\ mpc = "unretry" /\ mpc' = "retry"
          /\ m_lstRetryTask' = RemoveAt(m_lstRetryTask, at)
      BY <1>6 DEF EraseRetried, Erased
    <2>2. at \in DOMAIN m_lstRetryTask /\ m_lstRetryTask[at] \in Tasks
      BY <1>0, <2>1, ElementsOfList DEF PlacesOK, Locals, TypeOK
    <2>3. /\ RetrySet = RetrySet' \cup {m_lstRetryTask[at]}
          /\ m_lstRetryTask[at] \notin RetrySet'
          /\ OnlyOnce(m_lstRetryTask', Tasks)
      BY <1>0, <2>1, <2>2, ElementsOfRemoveAt DEF RetrySet, TypeOK, PlacesOK, Once
    <2>4. UNCHANGED <<TaskSet, Listed, Waits, WithAgents, Answers, Answered, Calling, InHand,
                      Handled>>
      BY <2>1, <2>3 DEF TaskSet, Listed, Waits, WithAgents, Answers, Answered, Calling,
         InHand, Handled
    <2>5. Locals' /\ Once'
      BY <1>0, <2>1, <2>3, <2>4 DEF PlacesOK, Locals, Once
    <2>6. Apart' /\ Somewhere'
      BY <1>0, <2>1, <2>4 DEF PlacesOK, Apart, Somewhere
    <2>7. Moving' /\ WorkingIsMapped'
      BY <1>0, <2>1, <2>4 DEF PlacesOK, Moving, WorkingIsMapped
    <2> QED BY <2>5, <2>6, <2>7 DEF PlacesOK
  <1>7. CASE DealMemClean
    <2>1. /\ UNCHANGED <<m_lstTask, m_lstRetryTask, at, agent, silent, pResp, inbox,
                         m_mapTaskWorkMapping, invoked, accepted, cpc, ctask,
                         bRecycle, pTask>>
          /\ mpc = "clean" /\ mpc' = "get"
          /\ freed' = freed \cup (m_lstTrashbin \cap ripe)
          /\ m_lstTrashbin' = m_lstTrashbin \ ripe
      BY <1>7 DEF DealMemClean
    <2>2. UNCHANGED <<TaskSet, RetrySet, Listed, Waits, WithAgents, Answers, Answered,
                      Calling, InHand, Handled>>
      BY <2>1 DEF TaskSet, RetrySet, Listed, Waits, WithAgents, Answers, Answered, Calling,
         InHand, Handled
    <2>3. Locals' /\ Once'
      BY <1>0, <2>1, <2>2 DEF PlacesOK, Locals, Once
    <2>4. Apart' /\ Somewhere'
      BY <1>0, <2>1, <2>2 DEF PlacesOK, Apart, Somewhere
    <2>5. Moving' /\ WorkingIsMapped'
      BY <1>0, <2>1, <2>2 DEF PlacesOK, Moving, WorkingIsMapped
    <2> QED BY <2>3, <2>4, <2>5 DEF PlacesOK
  <1> QED BY <1>1, <1>2, <1>3, <1>4, <1>5, <1>6, <1>7 DEF ExecuteStep

LEMMA AgentKeepsPlaces ==
    ASSUME IInv, NEW a \in Agents, AgentRuns(a)
    PROVE  PlacesOK'
  <1> DEFINE t == Head(agent[a])
  <1>0. TypeOK /\ PlacesOK
    BY DEF IInv, PlacesOK
  <1>1. /\ UNCHANGED <<m_lstTask, m_lstRetryTask, at, freed, mpc, m_lstTrashbin,
                       m_mapTaskWorkMapping, invoked, accepted, cpc, ctask, bRecycle, pTask>>
        /\ agent[a] # <<>>
        /\ agent' = [agent EXCEPT ![a] = Tail(agent[a])]
    BY DEF AgentRuns, lists, local, calls, time, end
  <1>2. PICK lParam \in {t, None} :
            /\ inbox' = Append(inbox, lParam)
            /\ pResp' \in {pResp, pResp \cup {t}}
            /\ silent' = IF lParam # None /\ t \in pResp' THEN silent ELSE silent \cup {t}
    BY DEF AgentRuns
  <1>3. /\ t \in Tasks /\ t # None
        /\ ToSet(agent[a]) = {t} \cup ToSet(Tail(agent[a]))
        /\ t \notin ToSet(Tail(agent[a]))
        /\ OnlyOnce(Tail(agent[a]), Tasks)
    BY <1>0, <1>1, ElementsOfTail, TaskManagerAssumption DEF TypeOK, PlacesOK, Once
  <1>4. /\ agent'[a] = Tail(agent[a])
        /\ \A b \in Agents \ {a} : agent'[b] = agent[b]
    BY <1>0, <1>1 DEF TypeOK
  <1> HIDE DEF t
  <1>5. WithAgents = WithAgents' \cup {t} /\ t \notin WithAgents'
    <2>1. \A b \in Agents \ {a} : t \notin ToSet(agent[b])
      BY <1>0, <1>3 DEF PlacesOK, Once
    <2> QED BY <1>3, <1>4, <2>1 DEF WithAgents
  <1>6. t \notin Answers /\ t \notin silent /\ t \notin Answered
    BY <1>0, <1>5 DEF PlacesOK, Apart, Answered
  <1>7. /\ Answers' = Answers \cup ({lParam} \ {None})
        /\ OnlyOnce(inbox', Tasks)
    <2>1. lParam \notin ToSet(inbox) \/ lParam \notin Tasks
      BY <1>3, <1>6, TaskManagerAssumption DEF Answers
    <2>2. /\ inbox \in Seq(Tasks \cup {None}) /\ OnlyOnce(inbox, Tasks)
          /\ lParam \in Tasks \cup {None}
      BY <1>0, <1>3 DEF TypeOK, PlacesOK, Once
    <2>3. ToSet(inbox') = ToSet(inbox) \cup {lParam} /\ OnlyOnce(inbox', Tasks)
      BY <1>2, <2>1, <2>2, ElementsOfAppend
    <2> QED BY <2>3 DEF Answers
  <1>8. UNCHANGED <<TaskSet, RetrySet, Listed, Waits, Calling, InHand, Handled>>
    BY <1>1 DEF TaskSet, RetrySet, Listed, Waits, Calling, InHand, Handled
  <1>9. \/ silent' = silent \cup {t} /\ Answered' = Answered
        \/ silent' = silent /\ Answered' = Answered \cup {t} /\ t \in pResp'
    BY <1>2, <1>3, <1>6, <1>7 DEF Answered
  <1>10. Locals'
    BY <1>0, <1>1, <1>8 DEF PlacesOK, Locals
  <1>11. Apart'
    BY <1>0, <1>1, <1>5, <1>6, <1>8, <1>9 DEF PlacesOK, Apart
  <1>12. Somewhere'
    BY <1>0, <1>1, <1>5, <1>8, <1>9 DEF PlacesOK, Somewhere
  <1>13. Once'
    <2>1. \A b \in Agents : OnlyOnce(agent'[b], Tasks)
      BY <1>0, <1>3, <1>4 DEF PlacesOK, Once
    <2>2. ASSUME NEW b \in Agents, NEW d \in Agents, b # d
          PROVE  ToSet(agent'[b]) \cap ToSet(agent'[d]) = {}
      <3>1. ToSet(agent'[b]) \subseteq ToSet(agent[b])
        BY <1>3, <1>4
      <3>2. ToSet(agent'[d]) \subseteq ToSet(agent[d])
        BY <1>3, <1>4
      <3> QED BY <1>0, <2>2, <3>1, <3>2 DEF PlacesOK, Once
    <2> QED BY <1>0, <1>1, <1>7, <2>1, <2>2 DEF PlacesOK, Once
  <1>14. Moving'
    BY <1>0, <1>1, <1>2, <1>5, <1>6, <1>7, <1>8, <1>9 DEF PlacesOK, Moving
  <1>15. WorkingIsMapped'
    <2>1. WithAgents' \cup Answers' \subseteq WithAgents \cup Answers
      BY <1>2, <1>5, <1>7
    <2>2. WithAgents \cup Answers \subseteq WithAgents' \cup Answers' \cup silent'
      BY <1>5, <1>7, <1>9 DEF Answered
    <2>3. silent \subseteq silent'
      BY <1>2
    <2> QED BY <1>0, <1>1, <1>8, <2>1, <2>2, <2>3 DEF PlacesOK, WorkingIsMapped
  <1> QED BY <1>10, <1>11, <1>12, <1>13, <1>14, <1>15 DEF PlacesOK

LEMMA OtherStepsKeepPlaces ==
    ASSUME IInv,
           \/ Quit \/ Stop \/ Destroy \/ GoesWrong \/ OtherManagerTakes
           \/ \E s \in Subscribers : RegisterCallBack(s) \/ UnRegisterCallBack(s)
           \/ \E t \in Tasks : TimePasses(t)
           \/ UNCHANGED vars
    PROVE  PlacesOK'
  <1> USE DEF At, lists, local, calls, work, time, end
  <1>0. TypeOK /\ PlacesOK
    BY DEF IInv, PlacesOK
  <1>1. CASE Destroy
    <2>1. /\ UNCHANGED <<at, agent, silent, pResp, inbox, m_mapTaskWorkMapping, invoked,
                         accepted, cpc, ctask, bRecycle, pTask>>
          /\ mpc = "exited" /\ mpc' = "gone"
          /\ freed' = freed \cup TaskSet \cup RetrySet \cup m_lstTrashbin
          /\ m_lstTask' = <<>> /\ m_lstRetryTask' = <<>> /\ m_lstTrashbin' = {}
      BY <1>1 DEF Destroy
    <2>2. /\ UNCHANGED <<WithAgents, Answers, Answered, Calling, InHand, Handled>>
          /\ Listed = TaskSet /\ Waits = RetrySet
      BY <2>1 DEF Listed, Waits, WithAgents, Answers, Answered, Calling, InHand, Handled
    <2>3. TaskSet' = {} /\ RetrySet' = {} /\ Listed' = {} /\ Waits' = {}
      BY <2>1 DEF TaskSet, RetrySet, Listed, Waits, ToSet
    <2>4. Locals'
      BY <1>0, <2>1 DEF PlacesOK, Locals
    <2>5. Once'
      <3>1. OnlyOnce(<<>>, Tasks)
        BY DEF OnlyOnce
      <3> QED BY <1>0, <2>1, <3>1 DEF PlacesOK, Once
    <2>6. Apart' /\ Somewhere'
      BY <1>0, <2>1, <2>2, <2>3 DEF PlacesOK, Apart, Somewhere
    <2>7. Moving' /\ WorkingIsMapped'
      BY <1>0, <2>1, <2>2, <2>3 DEF PlacesOK, Moving, WorkingIsMapped
    <2> QED BY <2>4, <2>5, <2>6, <2>7 DEF PlacesOK
  <1>2. CASE ~Destroy
    <2>1. /\ UNCHANGED <<m_lstTask, m_lstRetryTask, at, agent, silent, freed, pResp, inbox,
                         m_mapTaskWorkMapping, m_lstTrashbin, invoked, accepted, cpc, ctask,
                         bRecycle, pTask>>
          /\ UNCHANGED mpc \/ (mpc = "get" /\ mpc' = "exited")
      BY <1>2 DEF Quit, Stop, GoesWrong, OtherManagerTakes, RegisterCallBack,
         UnRegisterCallBack, TimePasses, vars
    <2>2. UNCHANGED <<TaskSet, RetrySet, Listed, Waits, WithAgents, Answers, Answered,
                      Calling, InHand, Handled>>
      BY <2>1 DEF TaskSet, RetrySet, Listed, Waits, WithAgents, Answers, Answered, Calling,
         InHand, Handled
    <2>3. Locals' /\ Once'
      BY <1>0, <2>1, <2>2 DEF PlacesOK, Locals, Once
    <2>4. Apart' /\ Somewhere'
      BY <1>0, <2>1, <2>2 DEF PlacesOK, Apart, Somewhere
    <2>5. Moving' /\ WorkingIsMapped'
      BY <1>0, <2>1, <2>2 DEF PlacesOK, Moving, WorkingIsMapped
    <2> QED BY <2>3, <2>4, <2>5 DEF PlacesOK
  <1> QED BY <1>1, <1>2

LEMMA PlacesKept == IInv /\ [Next]_vars => PlacesOK'
  BY CallKeepsPlaces, TakingKeepsPlaces, HandlingKeepsPlaces, ExecutingKeepsPlaces,
     AgentKeepsPlaces, OtherStepsKeepPlaces DEF Next, ManagerStep
-----------------------------------------------------------------------------
(* What IsTaskExist has found out stays true: a task of before comes into    *)
(* m_lstTask from the retry list only, and into the map from m_lstTask.      *)
LEMMA SearchedStays ==
    ASSUME IInv, UNCHANGED <<cpc, ctask, known>>,
           \A c \in Callers : retried[c] \subseteq retried'[c],
           \A c \in Callers : RetrySet' \subseteq RetrySet \cup retried'[c],
           TaskSet' \subseteq TaskSet \cup RetrySet \cup (Tasks \ accepted),
           m_mapTaskWorkMapping' \subseteq m_mapTaskWorkMapping \cup TaskSet,
           accepted \subseteq accepted'
    PROVE  Searched'
  <1> SUFFICES ASSUME NEW c \in Callers
               PROVE  LET before == known[c] \ retried'[c]
                      IN  /\ cpc[c] # "none" => known[c] \subseteq accepted'
                          /\ cpc[c] \in {"scanTask", "scanRetry", "scanMap", "push"} =>
                                 before \cap RetrySet' = {}
                          /\ cpc[c] \in {"scanRetry", "scanMap", "push"}
                               /\ ctask[c] \in KeepSingle =>
                                 ~Equal(ctask[c], before \cap TaskSet')
                          /\ cpc[c] = "push" /\ ctask[c] \in KeepSingle =>
                                 ~Equal(ctask[c], before \cap m_mapTaskWorkMapping')
    BY DEF Searched, Equal
  <1> DEFINE before == known[c] \ retried[c]
             after == known[c] \ retried'[c]
  <1>1. /\ cpc[c] # "none" => known[c] \subseteq accepted
        /\ cpc[c] \in {"scanTask", "scanRetry", "scanMap", "push"} =>
               before \cap RetrySet = {}
        /\ cpc[c] \in {"scanRetry", "scanMap", "push"} /\ ctask[c] \in KeepSingle =>
               ~Equal(ctask[c], before \cap TaskSet)
        /\ cpc[c] = "push" /\ ctask[c] \in KeepSingle =>
               ~Equal(ctask[c], before \cap m_mapTaskWorkMapping)
    BY DEF IInv, Searched
  <1>2. after \subseteq before
    OBVIOUS
  <1>3. cpc[c] \in {"scanTask", "scanRetry", "scanMap", "push"} =>
            /\ after \cap RetrySet' = {}
            /\ after \cap TaskSet' \subseteq before \cap TaskSet
    BY <1>1, <1>2
  <1>4. after \cap m_mapTaskWorkMapping' \subseteq
            (before \cap m_mapTaskWorkMapping) \cup (before \cap TaskSet)
    BY <1>2
  <1> HIDE DEF before, after
  <1>5. cpc[c] \in {"scanRetry", "scanMap", "push"} /\ ctask[c] \in KeepSingle =>
            ~Equal(ctask[c], after \cap TaskSet')
    BY <1>1, <1>3 DEF Equal
  <1>6. cpc[c] = "push" /\ ctask[c] \in KeepSingle =>
            ~Equal(ctask[c], after \cap m_mapTaskWorkMapping')
    BY <1>1, <1>4 DEF Equal
  <1> QED BY <1>1, <1>3, <1>5, <1>6 DEF after

LEMMA CallKeepsSearched ==
    ASSUME IInv, NEW c \in Callers, CallStep(c) \/ \E t \in Tasks : CallInvoke(c, t)
    PROVE  Searched'
  <1> USE DEF lists, local, work, time, end, InCall
  <1>0. TypeOK /\ Searched /\ PlacesOK
    BY DEF IInv, PlacesOK
  <1>1. ASSUME NEW t \in Tasks, CallInvoke(c, t) PROVE Searched'
    <2>1. /\ UNCHANGED <<m_lstTask, m_lstRetryTask, m_mapTaskWorkMapping, accepted>>
          /\ known' = [known EXCEPT ![c] = accepted]
          /\ retried' = [retried EXCEPT ![c] = RetrySet]
          /\ ctask' = [ctask EXCEPT ![c] = t]
          /\ cpc' = [cpc EXCEPT ![c] = IF t \in KeepSingle THEN "scanTask" ELSE "push"]
      BY <1>1 DEF CallInvoke
    <2>2. UNCHANGED <<TaskSet, RetrySet>>
      BY <2>1 DEF TaskSet, RetrySet
    <2>3. \A d \in Callers \ {c} :
              /\ known'[d] = known[d] /\ retried'[d] = retried[d]
              /\ ctask'[d] = ctask[d] /\ cpc'[d] = cpc[d]
      BY <1>0, <2>1 DEF TypeOK
    <2>4. /\ known'[c] = accepted /\ retried'[c] = RetrySet /\ ctask'[c] = t
          /\ cpc'[c] = IF t \in KeepSingle THEN "scanTask" ELSE "push"
      BY <1>0, <2>1 DEF TypeOK
    <2>5. ASSUME NEW d \in Callers
          PROVE  LET before == known'[d] \ retried'[d]
                 IN  /\ cpc'[d] # "none" => known'[d] \subseteq accepted'
                     /\ cpc'[d] \in {"scanTask", "scanRetry", "scanMap", "push"} =>
                            before \cap RetrySet' = {}
                     /\ cpc'[d] \in {"scanRetry", "scanMap", "push"}
                          /\ ctask'[d] \in KeepSingle =>
                            ~Equal(ctask'[d], before \cap TaskSet')
                     /\ cpc'[d] = "push" /\ ctask'[d] \in KeepSingle =>
                            ~Equal(ctask'[d], before \cap m_mapTaskWorkMapping')
      <3>1. CASE d = c
        BY <1>0, <2>1, <2>2, <2>4, <3>1
      <3>2. CASE d # c
        BY <1>0, <2>1, <2>2, <2>3, <3>2 DEF Searched
      <3> QED BY <3>1, <3>2
    <2> QED BY <2>5 DEF Searched, Equal
  <1>2. CASE ScanTask(c) \/ ScanRetry(c) \/ ScanMap(c) \/ Report(c) \/ Trash(c)
    <2>1. /\ UNCHANGED <<m_lstTask, m_lstRetryTask, m_mapTaskWorkMapping, accepted>>
          /\ cpc' = [cpc EXCEPT ![c] = cpc'[c]]
          /\ \A d \in Callers \ {c} :
              /\ known'[d] = known[d] /\ retried'[d] = retried[d]
              /\ ctask'[d] = ctask[d] /\ cpc'[d] = cpc[d]
          /\ \/ cpc'[c] \in {"none", "trash"} /\ (cpc'[c] = "trash" => UNCHANGED <<known, accepted>>)
             \/ cpc[c] = "scanTask" /\ cpc'[c] = "scanRetry" /\ ~Equal(ctask[c], TaskSet)
                  /\ UNCHANGED <<ctask, known, retried>>
             \/ cpc[c] = "scanRetry" /\ cpc'[c] = "scanMap"
                  /\ UNCHANGED <<ctask, known, retried>>
             \/ cpc[c] = "scanMap" /\ cpc'[c] = "push"
                  /\ ~Equal(ctask[c], m_mapTaskWorkMapping)
                  /\ UNCHANGED <<ctask, known, retried>>
      BY <1>0, <1>2 DEF ScanTask, ScanRetry, ScanMap, Report, Trash, Goto, Return, TypeOK
    <2>2. UNCHANGED <<TaskSet, RetrySet>>
      BY <2>1 DEF TaskSet, RetrySet
    <2>3. cpc[c] # "none"
      BY <1>2 DEF ScanTask, ScanRetry, ScanMap, Report, Trash
    <2> QED BY <1>0, <2>1, <2>2, <2>3 DEF Searched, Equal
  <1>3. CASE Push(c)
    <2>1. /\ UNCHANGED <<m_lstRetryTask, m_mapTaskWorkMapping, ctask, known, retried>>
          /\ accepted' = accepted \cup {ctask[c]}
          /\ m_lstTask' = Append(m_lstTask, ctask[c])
          /\ cpc[c] = "push" /\ cpc' = [cpc EXCEPT ![c] = "report"]
      BY <1>3 DEF Push, Goto
    <2>2. ctask[c] \in Tasks /\ ctask[c] \notin accepted
      BY <1>0, <2>1 DEF PlacesOK, Locals, Somewhere, Calling, TypeOK
    <2>3. TaskSet' = TaskSet \cup {ctask[c]} /\ UNCHANGED RetrySet
      BY <1>0, <2>1, <2>2, ElementsOfAppend DEF TaskSet, RetrySet, TypeOK
    <2>4. \A d \in Callers : cpc'[d] = IF d = c THEN "report" ELSE cpc[d]
      BY <1>0, <2>1 DEF TypeOK
    <2>5. ASSUME NEW d \in Callers
          PROVE  /\ cpc'[d] # "none" => known'[d] \subseteq accepted'
                 /\ cpc'[d] \in {"scanTask", "scanRetry", "scanMap", "push"} =>
                        (known'[d] \ retried'[d]) \cap RetrySet' = {}
                 /\ cpc'[d] \in {"scanRetry", "scanMap", "push"} /\ ctask'[d] \in KeepSingle =>
                        ~Equal(ctask'[d], (known'[d] \ retried'[d]) \cap TaskSet')
                 /\ cpc'[d] = "push" /\ ctask'[d] \in KeepSingle =>
                        ~Equal(ctask'[d], (known'[d] \ retried'[d]) \cap m_mapTaskWorkMapping')
      <3>1. CASE d = c
        <4>1. cpc'[d] = "report" /\ known'[d] = known[c] /\ known[c] \subseteq accepted
          BY <1>0, <2>1, <2>4, <3>1 DEF Searched
        <4> QED BY <2>1, <4>1
      <3>2. CASE d # c
        <4>1. /\ cpc'[d] = cpc[d] /\ known'[d] = known[d] /\ retried'[d] = retried[d]
              /\ ctask'[d] = ctask[d]
          BY <2>1, <2>4, <3>2
        <4>2. cpc[d] # "none" => (known[d] \ retried[d]) \cap TaskSet'
                                     = (known[d] \ retried[d]) \cap TaskSet
          BY <1>0, <2>2, <2>3 DEF Searched
        <4> QED BY <1>0, <2>1, <2>3, <4>1, <4>2 DEF Searched
      <3> QED BY <3>1, <3>2
    <2> QED BY <2>5 DEF Searched, Equal
  <1> QED BY <1>1, <1>2, <1>3 DEF CallStep

LEMMA SearchedKept == IInv /\ [Next]_vars => Searched'
  <1> SUFFICES ASSUME IInv, [Next]_vars PROVE Searched'
    OBVIOUS
  <1> USE DEF lists, local, calls, work, time, end, At
  <1>0. TypeOK /\ PlacesOK
    BY DEF IInv, PlacesOK
  <1>1. ASSUME UNCHANGED <<m_lstTask, m_lstRetryTask, m_mapTaskWorkMapping, cpc, ctask,
                           known, retried, accepted>>
        PROVE  Searched'
    <2>1. UNCHANGED <<TaskSet, RetrySet>>
      BY <1>1 DEF TaskSet, RetrySet
    <2> QED BY <1>1, <2>1, SearchedStays
  <1>2. CASE TakeMessage \/ TakeNothing \/ Quit
    BY <1>1, <1>2 DEF TakeMessage, TakeNothing, Quit
  <1>3. CASE HandleStep
    <2>1. CASE BeginNotice \/ PostNotice \/ EndNotice \/ Recycle
      BY <1>1, <2>1 DEF BeginNotice, PostNotice, EndNotice, Recycle
    <2>2. CASE OnHandleMessage
      <3>1. CASE UNCHANGED <<m_lstRetryTask, retried>>
        BY <1>1, <2>2, <3>1 DEF OnHandleMessage
      <3>2. CASE /\ m_lstRetryTask' = Append(m_lstRetryTask, pTask)
                 /\ retried' = [d \in Callers |-> retried[d] \cup {pTask}]
        <4>1. /\ UNCHANGED <<m_lstTask, m_mapTaskWorkMapping, cpc, ctask, known, accepted>>
              /\ pTask \in Tasks
          BY <1>0, <2>2 DEF OnHandleMessage, PlacesOK, Locals
        <4>2. /\ RetrySet' = RetrySet \cup {pTask} /\ UNCHANGED TaskSet
          BY <1>0, <3>2, <4>1, ElementsOfAppend DEF RetrySet, TaskSet, TypeOK
        <4> QED BY <3>2, <4>1, <4>2, SearchedStays
      <3> QED BY <2>2, <3>1, <3>2 DEF OnHandleMessage
    <2>3. CASE Unmap
      <3>1. UNCHANGED <<TaskSet, RetrySet>>
        BY <2>3 DEF Unmap, TaskSet, RetrySet
      <3> QED BY <2>3, <3>1, SearchedStays DEF Unmap, LeaveMap
    <2> QED BY <1>3, <2>1, <2>2, <2>3 DEF HandleStep
  <1>4. CASE ExecuteStep
    <2>1. CASE BeginDeal \/ SkipDelayed \/ RunTask \/ EndDeal \/ KeepForRetry \/ EndRetry
                 \/ DealMemClean
      BY <1>1, <2>1 DEF BeginDeal, SkipDelayed, RunTask, EndDeal, KeepForRetry, EndRetry,
         DealMemClean
    <2>2. CASE DiscardTask
      <3>1. TaskSet' \subseteq TaskSet /\ UNCHANGED RetrySet
        BY <1>0, <2>2, ElementsOfRemoveAt DEF DiscardTask, Dealing, TaskSet, RetrySet, TypeOK
      <3> QED BY <2>2, <3>1, SearchedStays DEF DiscardTask
    <2>3. CASE MapTask
      <3>1. at \in DOMAIN m_lstTask /\ pTask = m_lstTask[at]
        BY <1>0, <2>3 DEF MapTask, PlacesOK, Locals
      <3>2. TaskSet' \subseteq TaskSet /\ pTask \in TaskSet /\ UNCHANGED RetrySet
        BY <1>0, <2>3, <3>1, ElementsOfRemoveAt DEF MapTask, TaskSet, RetrySet, TypeOK
      <3> QED BY <2>3, <3>2, SearchedStays DEF MapTask, EnterMap
    <2>4. CASE RetryTask
      <3>1. m_lstRetryTask[at] \in Tasks /\ m_lstRetryTask[at] \in RetrySet
        BY <1>0, <2>4, ElementsOfList DEF RetryTask, Retrying, RetrySet, TypeOK
      <3>2. TaskSet' = TaskSet \cup {m_lstRetryTask[at]} /\ UNCHANGED RetrySet
        BY <1>0, <2>4, <3>1, ElementsOfAppend DEF RetryTask, TaskSet, RetrySet, TypeOK
      <3> QED BY <2>4, <3>1, <3>2, SearchedStays DEF RetryTask
    <2>5. CASE EraseRetried
      <3>1. at \in DOMAIN m_lstRetryTask
        BY <1>0, <2>5 DEF EraseRetried, PlacesOK, Locals
      <3>2. RetrySet' \subseteq RetrySet /\ UNCHANGED TaskSet
        BY <1>0, <2>5, <3>1, ElementsOfRemoveAt DEF EraseRetried, Erased, TaskSet, RetrySet,
           TypeOK
      <3> QED BY <2>5, <3>2, SearchedStays DEF EraseRetried
    <2> QED BY <1>4, <2>1, <2>2, <2>3, <2>4, <2>5 DEF ExecuteStep
  <1>5. CASE Destroy
    <2>1. TaskSet' = {} /\ RetrySet' = {}
      BY <1>5 DEF Destroy, TaskSet, RetrySet, ToSet
    <2> QED BY <1>5, <2>1, SearchedStays DEF Destroy
  <1>6. CASE \/ Stop \/ GoesWrong \/ OtherManagerTakes
             \/ \E a \in Agents : AgentRuns(a)
             \/ \E s \in Subscribers : RegisterCallBack(s) \/ UnRegisterCallBack(s)
             \/ \E t \in Tasks : TimePasses(t)
             \/ UNCHANGED vars
    BY <1>1, <1>6 DEF Stop, GoesWrong, OtherManagerTakes, AgentRuns, RegisterCallBack,
       UnRegisterCallBack, TimePasses, vars
  <1> QED BY <1>2, <1>3, <1>4, <1>5, <1>6, CallKeepsSearched DEF Next, ManagerStep
-----------------------------------------------------------------------------
LEMMA NoticeKept == IInv /\ [Next]_vars => NoticeIsExact'
  <1> SUFFICES ASSUME IInv, [Next]_vars, mpc' = "notice"
               PROVE  \E k \in 0..Len(m_lstCBThreads') :
                          notify' = SubSeq(m_lstCBThreads', k + 1, Len(m_lstCBThreads'))
    BY DEF NoticeIsExact
  <1> USE DEF lists, local, calls, work, time, end, At
  <1>0. TypeOK /\ NoticeIsExact
    BY DEF IInv
  <1>1. /\ Len(m_lstCBThreads) \in Nat
        /\ m_lstCBThreads \in Seq(Subscribers)
    BY <1>0, LenProperties DEF TypeOK
  <1>2. CASE BeginNotice
    <2>1. notify' = m_lstCBThreads /\ m_lstCBThreads' = m_lstCBThreads
      BY <1>2 DEF BeginNotice
    <2>2. SubSeq(m_lstCBThreads, 1, Len(m_lstCBThreads)) = m_lstCBThreads
      BY <1>1
    <2>3. 0 \in 0..Len(m_lstCBThreads) /\ 0 + 1 = 1
      BY <1>1
    <2> QED BY <2>1, <2>2, <2>3
  <1>3. CASE PostNotice
    <2>1. /\ mpc = "notice" /\ notify # <<>>
          /\ notify' = Tail(notify) /\ m_lstCBThreads' = m_lstCBThreads
      BY <1>3 DEF PostNotice
    <2>2. PICK k \in 0..Len(m_lstCBThreads) :
              notify = SubSeq(m_lstCBThreads, k + 1, Len(m_lstCBThreads))
      BY <1>0, <2>1 DEF NoticeIsExact
    <2>3. k \in Nat /\ k < Len(m_lstCBThreads)
      BY <1>1, <2>1, <2>2
    <2>4. Tail(notify) = SubSeq(m_lstCBThreads, (k + 1) + 1, Len(m_lstCBThreads))
      BY <1>1, <2>2, <2>3
    <2>5. k + 1 \in 0..Len(m_lstCBThreads)
      BY <1>1, <2>3
    <2> QED BY <2>1, <2>4, <2>5
  <1>4. CASE ~BeginNotice /\ ~PostNotice
    <2>1. CASE ManagerStep
      BY <1>4, <2>1 DEF ManagerStep, TakeMessage, TakeNothing, HandleStep, OnHandleMessage,
         EndNotice, Recycle, Unmap, ExecuteStep, BeginDeal, SkipDelayed, DiscardTask, RunTask,
         MapTask, EndDeal, KeepForRetry, RetryTask, EraseRetried, EndRetry, DealMemClean, Quit,
         Dealing, Retrying
    <2>2. CASE ~ManagerStep
      <3>1. UNCHANGED <<mpc, notify, m_lstCBThreads>>
        BY <2>2 DEF Next, Stop, Destroy, GoesWrong, OtherManagerTakes,
           AgentRuns, RegisterCallBack, UnRegisterCallBack, TimePasses, vars, CallStep,
           ScanTask, ScanRetry, ScanMap, Trash, Push, Report, CallInvoke, CBsLocked
      <3> QED BY <1>0, <3>1 DEF NoticeIsExact
    <2> QED BY <2>1, <2>2
  <1> QED BY <1>2, <1>3, <1>4
-----------------------------------------------------------------------------
(* Nobody is excused once and not later: the agent of a task is chosen       *)
(* before it can come into the trash bin.                                    *)
LEMMA RestsKept == IInv /\ [Next]_vars => Rests'
  <1> SUFFICES ASSUME IInv, [Next]_vars PROVE Rests'
    OBVIOUS
  <1> USE DEF lists, local, calls, work, time, end, At, InCall
  <1>0. TypeOK /\ PlacesOK /\ Rests
    BY DEF IInv, PlacesOK
  <1>1. ASSUME UNCHANGED <<m_lstTrashbin, freed, rested, pAgent, accepted>>,
               ripe' \subseteq ripe, mpc' # "gone" => mpc # "gone"
        PROVE  Rests'
    BY <1>0, <1>1 DEF Rests, Excused, NobodyRuns
  <1>2. CASE TakeMessage \/ TakeNothing \/ Quit
    BY <1>1, <1>2 DEF TakeMessage, TakeNothing, Quit
  <1>3. CASE HandleStep
    <2>1. CASE OnHandleMessage \/ BeginNotice \/ PostNotice \/ EndNotice \/ Unmap
      BY <1>1, <2>1 DEF OnHandleMessage, BeginNotice, PostNotice, EndNotice, Unmap
    <2>2. CASE Recycle
      BY <1>0, <2>2 DEF Recycle, Stamp, Rests, Excused, NobodyRuns
    <2> QED BY <1>3, <2>1, <2>2 DEF HandleStep
  <1>4. CASE ExecuteStep
    <2>1. CASE BeginDeal \/ SkipDelayed \/ RunTask \/ MapTask \/ EndDeal \/ KeepForRetry
                 \/ RetryTask \/ EraseRetried \/ EndRetry
      BY <1>1, <2>1 DEF BeginDeal, SkipDelayed, RunTask, MapTask, EndDeal, KeepForRetry,
         RetryTask, EraseRetried, EndRetry, Dealing, Retrying
    <2>2. CASE DiscardTask
      BY <1>0, <2>2 DEF DiscardTask, Dealing, Rests, Excused, NobodyRuns
    <2>3. CASE DealMemClean
      BY <1>0, <2>3 DEF DealMemClean, Rests, Excused, NobodyRuns
    <2> QED BY <1>4, <2>1, <2>2, <2>3 DEF ExecuteStep
  <1>5. CASE Destroy
    BY <1>5 DEF Destroy, Rests
  <1>6. ASSUME NEW c \in Callers, NEW t \in Tasks, CallInvoke(c, t) PROVE Rests'
    <2>1. /\ UNCHANGED <<m_lstTrashbin, freed, rested, accepted, ripe, mpc>>
          /\ t \notin invoked /\ pAgent' = [pAgent EXCEPT ![t] = nLastAgentIndex]
      BY <1>6 DEF CallInvoke
    <2>2. m_lstTrashbin \cup freed \subseteq invoked
      BY <1>0 DEF PlacesOK, Somewhere
    <2>3. \A u \in invoked : u \in Tasks /\ pAgent'[u] = pAgent[u]
      BY <1>0, <2>1 DEF TypeOK
    <2> QED BY <1>0, <2>1, <2>2, <2>3 DEF Rests, Excused, NobodyRuns
  <1>7. ASSUME NEW c \in Callers, CallStep(c) PROVE Rests'
    <2>1. CASE ScanTask(c) \/ ScanRetry(c) \/ ScanMap(c) \/ Report(c)
      BY <1>1, <2>1 DEF ScanTask, ScanRetry, ScanMap, Report, Goto, Return
    <2>2. CASE Trash(c) \/ Push(c)
      <3>1. /\ ctask[c] \in Calling /\ ctask[c] \notin accepted
            /\ ctask[c] \notin m_lstTrashbin /\ ctask[c] \notin freed
        BY <1>0, <2>2 DEF Trash, Push, PlacesOK, Apart, Somewhere, Calling
      <3>2. CASE Trash(c)
        BY <1>0, <3>1, <3>2 DEF Trash, Return, Rests, Excused, NobodyRuns
      <3>3. CASE Push(c)
        BY <1>0, <3>1, <3>3 DEF Push, Goto, Rests, Excused, NobodyRuns
      <3> QED BY <2>2, <3>2, <3>3
    <2> QED BY <1>7, <2>1, <2>2 DEF CallStep
  <1>8. ASSUME NEW t \in Tasks, TimePasses(t) PROVE Rests'
    BY <1>0, <1>8 DEF TimePasses, Rests, Excused, NobodyRuns
  <1>9. CASE \/ Stop \/ GoesWrong \/ OtherManagerTakes
             \/ \E a \in Agents : AgentRuns(a)
             \/ \E s \in Subscribers : RegisterCallBack(s) \/ UnRegisterCallBack(s)
             \/ UNCHANGED vars
    BY <1>1, <1>9 DEF Stop, GoesWrong, OtherManagerTakes, AgentRuns, RegisterCallBack,
       UnRegisterCallBack, vars
  <1> QED BY <1>2, <1>3, <1>4, <1>5, <1>6, <1>7, <1>8, <1>9 DEF Next, ManagerStep
-----------------------------------------------------------------------------
LEMMA Inductive == IInv /\ [Next]_vars => IInv'
  BY TypesKept, PlacesKept, SearchedKept, NoticeKept, RestsKept DEF IInv, PlacesOK

LEMMA Invariance == Spec => []IInv
  BY InitIInv, Inductive, PTL DEF Spec

(* The lists, maps and locals keep their types, and GetNextAgent's index     *)
(* leaves the agents only where another manager has more of them.            *)
THEOREM TypeCorrect == Spec => []TypeOK
  <1>1. IInv => TypeOK
    BY DEF IInv
  <1> QED BY <1>1, Invariance, PTL

(* A task that was pushed is never lost, never in two of the lists or twice  *)
(* in one, and is not reachable once DealMemClean has deleted it.            *)
THEOREM TasksKeepToOnePlace == Spec => []OnePlace
  <1>1. IInv => OnePlace
    <2> SUFFICES ASSUME IInv PROVE OnePlace
      OBVIOUS
    <2>0. TypeOK /\ Locals /\ Apart /\ Once /\ Somewhere /\ Moving /\ WorkingIsMapped
      BY DEF IInv
    <2> DEFINE working == WithAgents \cup (Answers \ silent)
    <2>1. Answered = Answers \ silent
      BY DEF Answered
    <2>2. /\ \A i, j \in DOMAIN m_lstTask : m_lstTask[i] = m_lstTask[j] => i = j
          /\ \A i, j \in DOMAIN m_lstRetryTask :
                 m_lstRetryTask[i] = m_lstRetryTask[j] => i = j
      BY <2>0, SMTT(40) DEF Once, OnlyOnce, TypeOK
    <2>3. /\ Listed \cap Waits = {}
          /\ (Listed \cup Waits) \cap (working \cup m_lstTrashbin) = {}
          /\ working \cap m_lstTrashbin = {}
      BY <2>0, <2>1 DEF Apart
    <2>4. (TaskSet \cup RetrySet \cup WithAgents \cup Answers \cup m_lstTrashbin
              \cup m_mapTaskWorkMapping) \cap freed = {}
      <3>1. TaskSet \subseteq Listed \cup WithAgents \cup Answered \cup silent
        BY <2>0 DEF Listed, Moving
      <3>2. RetrySet \subseteq Waits \cup Listed
        BY <2>0 DEF Waits, Listed, Locals
      <3>3. Handled \subseteq InHand \cup Waits \cup m_lstTrashbin
        BY <2>0 DEF Handled, InHand, Moving
      <3>4. Answers \subseteq Answered \cup silent
        BY DEF Answered
      <3>5. m_mapTaskWorkMapping \subseteq WithAgents \cup Answers \cup Handled \cup silent
        BY <2>0 DEF WorkingIsMapped
      <3> QED BY <2>0, <3>1, <3>2, <3>3, <3>4, <3>5 DEF Apart
    <2>5. accepted \subseteq Listed \cup Waits \cup working \cup m_lstTrashbin
              \cup Handled \cup silent \cup freed
      <3>1. InHand \subseteq Handled
        BY DEF InHand, Handled
      <3> QED BY <2>0, <2>1, <3>1 DEF Somewhere
    <2> QED BY <2>2, <2>3, <2>4, <2>5 DEF OnePlace, Listed, Waits
  <1> QED BY <1>1, Invariance, PTL

(* An answer finds its task in m_mapTaskWorkMapping, and no entry outlives   *)
(* its task, although DealTask gives the task away before it enters it.      *)
THEOREM MapIsOfTasksAtWork == Spec => []WorkingIsMapped
  <1>1. IInv => WorkingIsMapped
    BY DEF IInv
  <1> QED BY <1>1, Invariance, PTL

(* IsTaskExist misses no equal task that stays out of the retry list,        *)
(* however many callers and agents move tasks between its three searches.    *)
THEOREM KeepSingleHolds == Spec => []SingleUnlessRetried
  <1>1. IInv => SingleUnlessRetried
    <2> SUFFICES ASSUME IInv, NEW c \in Callers, cpc[c] = "push", ctask[c] \in KeepSingle
                 PROVE  ~Equal(ctask[c], (known[c] \ retried[c])
                                   \cap (TaskSet \cup RetrySet \cup m_mapTaskWorkMapping))
      BY DEF SingleUnlessRetried
    <2> DEFINE before == known[c] \ retried[c]
    <2>1. /\ before \cap RetrySet = {}
          /\ ~Equal(ctask[c], before \cap TaskSet)
          /\ ~Equal(ctask[c], before \cap m_mapTaskWorkMapping)
      BY DEF IInv, Searched
    <2> HIDE DEF before
    <2>2. ~Equal(ctask[c], before \cap (TaskSet \cup RetrySet \cup m_mapTaskWorkMapping))
      BY <2>1 DEF Equal
    <2> QED BY <2>2 DEF before
  <1> QED BY <1>1, Invariance, PTL

(* Notice posts to each subscriber of the list once, whoever registers or    *)
(* unregisters meanwhile.                                                    *)
THEOREM NoticeReachesEach == Spec => []NoticeIsExact
  <1>1. IInv => NoticeIsExact
    BY DEF IInv
  <1> QED BY <1>1, Invariance, PTL

(* An answered task is deleted after the clean interval only.                *)
THEOREM DeletedAfterRest == Spec => []FreedAfterRest
  <1>1. IInv => FreedAfterRest
    BY DEF IInv, Rests, Excused, FreedAfterRest
  <1> QED BY <1>1, Invariance, PTL
=============================================================================
