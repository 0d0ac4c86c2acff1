---------------------------- MODULE IdleThreadProofs ----------------------------
(***************************************************************************)
(* The safety invariants of IdleThread, and what CancelTask promises, hold *)
(* for every set of tasks and callers, whatever the handlers submit and    *)
(* the callers cancel, in both builds.  IInv adds to the invariants where  *)
(* the iterator of OnExecute may be, in which order the lists are, and     *)
(* what a call has read before the step it is at.                          *)
(***************************************************************************)
EXTENDS IdleThread, BasicLemmas

Pending == {"scanTmp", "scanLock", "scanTasks", "push"}
AfterTmp == {"cancelLock", "cancelTasks"}

(* The argument of a RunTask has not been accepted and is that of one call,  *)
(* until the push_back; a CancelTask past its first loop has left nothing of *)
(* what it looks for, and knew of, in m_lstTmpTasks.                         *)
Calls ==
    /\ \A th \in Threads :
        /\ cpc[th] \in Pending => ctask[th] \in submitted \ Accepted
        /\ cpc[th] = "dump" => ctask[th] \in Accepted
        /\ known[th] \subseteq Accepted
        /\ cpc[th] \in AfterTmp => csel[th] \cap known[th] \cap TmpSet = {}
    /\ \A th, oth \in Threads :
        cpc[th] \in Pending /\ cpc[oth] \in Pending /\ ctask[th] = ctask[oth] => th = oth

(* Both lists are in the order of acceptance, and m_lstTasks has the tasks   *)
(* accepted first.                                                           *)
Increasing(list) == \A i, j \in DOMAIN list : i < j => ticket[list[i]] < ticket[list[j]]

Order ==
    /\ Increasing(m_lstTmpTasks)
    /\ Increasing(m_lstTasks)
    /\ \A t \in TaskSet, u \in TmpSet : ticket[t] < ticket[u]
    /\ \A t \in Tasks : ticket[t] =< accepts
    /\ Accepted \subseteq submitted
    /\ ran \cup Queued \cup done \cup cancelled \cup freed \subseteq Accepted

(* The iterator is at the first task, or at a node CancelTask has erased.    *)
AtFirst == m_lstTasks # <<>> /\ it = m_lstTasks[1]

Iterator ==
    /\ wpc \in {"entry", "move", "first", "retry", "exited", "gone"} => it = None
    /\ wpc \in {"handler", "notify", "erase"} => it = pTask /\ pTask # None
    /\ wpc \in {"test", "handler", "notify"} /\ it # None => it \in cancelled \/ AtFirst
    /\ wpc = "erase" => AtFirst

Erasing(t) == wpc = "erase" /\ t = pTask

(* What is known of a task by where it is.                                   *)
Fate ==
    /\ cancelled \subseteq freed
    /\ \A t \in m_mapRetryCBNotify : t \in done \/ Erasing(t)
    /\ wpc = "erase" /\ pTask \in m_mapRetryCBNotify => ~bDelete

Notes ==
    \A t \in Tasks :
        /\ finished[t] =< 1
        /\ finished[t] = 1 => called[t] > 0
        /\ t \in m_mapRetryCBNotify => finished[t] = 0
        /\ t \notin done /\ ~Erasing(t) => finished[t] = 0
        /\ (t \in done \/ Erasing(t)) /\ t \in HasCallback =>
               called[t] > 0 \/ t \in m_mapRetryCBNotify

(* When the worker has left its loop no caller is in a call.                 *)
Quitting ==
    /\ cpc \in [Threads -> CallPC]
    /\ stopping => \A c \in Callers : cpc[c] = "none"
    /\ wpc \in {"exited", "gone"} => stopping

IInv ==
    /\ TypeOK
    /\ Calls
    /\ Order
    /\ Iterator
    /\ Fate
    /\ Notes
    /\ RunInOrder
    /\ OnePlace
    /\ OnlyKnownFaults
-----------------------------------------------------------------------------
LEMMA InitIInv == Init => IInv
  <1> SUFFICES ASSUME Init PROVE IInv
    OBVIOUS
  <1> USE IdleThreadAssumption
  <1>1. /\ m_lstTmpTasks \in Seq(Tasks) /\ m_lstTasks \in Seq(Tasks)
        /\ Len(m_lstTasks) = 0
        /\ TmpSet = {} /\ TaskSet = {} /\ Accepted = {}
        /\ DOMAIN m_lstTmpTasks = {} /\ DOMAIN m_lstTasks = {}
    BY EmptySeq DEF Init, TmpSet, TaskSet, Accepted, ToSet
  <1>2. Threads = Callers \cup {Worker} /\ None \notin Threads
    BY DEF Threads
  <1>3. LocksHeld
    BY <1>2 DEF Init, LocksHeld, Walks
  <1>4. TypeOK
    <2>1. Len(m_lstTasks) =< MaxRunList
      BY <1>1
    <2>2. /\ m_mutexTmpTasks \in {Worker, None}
          /\ m_mutexTasks \in Threads \cup {None}
          /\ m_mapRetryCBNotify \subseteq Tasks
          /\ wpc \in WorkerPC
          /\ it \in Tasks \cup {None} /\ pTask \in Tasks \cup {None}
          /\ bPostRet \in BOOLEAN /\ bDelete \in BOOLEAN
          /\ stopping \in BOOLEAN /\ undefined \in BOOLEAN
          /\ freed \subseteq Tasks /\ submitted \subseteq Tasks /\ ran \subseteq Tasks
          /\ done \subseteq Tasks /\ cancelled \subseteq Tasks
          /\ accepts \in Nat
      BY DEF Init, WorkerPC
    <2>3. /\ cpc \in [Threads -> CallPC]
          /\ ctask \in [Threads -> Tasks \cup {None}]
          /\ csel \in [Threads -> SUBSET Tasks]
          /\ known \in [Threads -> SUBSET Tasks]
      BY DEF Init, CallPC
    <2>4. /\ ticket \in [Tasks -> Nat]
          /\ called \in [Tasks -> Nat]
          /\ finished \in [Tasks -> Nat]
      BY DEF Init
    <2> QED BY <1>1, <1>3, <2>1, <2>2, <2>3, <2>4 DEF TypeOK
  <1>5. Calls /\ Order /\ Iterator
    BY <1>1 DEF Init, Calls, Order, Increasing, Iterator, Pending, AfterTmp, Queued
  <1>6. Fate /\ Notes /\ RunInOrder /\ OnePlace /\ OnlyKnownFaults
    BY <1>1 DEF Init, Fate, Notes, Erasing, RunInOrder, OnePlace, OnlyKnownFaults, Queued
  <1> QED BY <1>4, <1>5, <1>6 DEF IInv

(* A step that changes only where calls are, and what they were passed.      *)
LEMMA CallsMoveOnly ==
    ASSUME IInv, ~undefined, submitted \subseteq submitted',
           UNCHANGED <<lists, wpc, local, notes, accepts, ticket, ran, done, cancelled,
                       freed, undefined>>
    PROVE  /\ TmpSet' = TmpSet /\ TaskSet' = TaskSet /\ Accepted' = Accepted
           /\ Order' /\ Iterator' /\ Fate' /\ Notes'
           /\ RunInOrder' /\ OnePlace' /\ OnlyKnownFaults'
  <1> USE DEF IInv, lists, local, notes
  <1>1. TmpSet' = TmpSet /\ TaskSet' = TaskSet /\ Accepted' = Accepted
    BY DEF TmpSet, TaskSet, Accepted
  <1>2. Order'
    BY <1>1 DEF Order, Increasing, Queued
  <1>3. Iterator' /\ Fate' /\ Notes'
    BY <1>1 DEF Iterator, AtFirst, Fate, Notes, Erasing
  <1>4. RunInOrder' /\ OnePlace' /\ OnlyKnownFaults'
    BY <1>1 DEF RunInOrder, OnePlace, OnlyKnownFaults, Queued
  <1> QED BY <1>1, <1>2, <1>3, <1>4

LEMMA SubmitKeepsIInv ==
    ASSUME IInv, NEW th \in Threads, Submit(th)
    PROVE  IInv'
  <1> USE IdleThreadAssumption
  <1>1. CASE \E t \in Tasks : CallRunTask(th, t)
    <2>1. PICK t \in Tasks : CallRunTask(th, t)
      BY <1>1
    <2> USE <2>1 DEF IInv, CallRunTask, MayCall, InCall, lists, locks, local, notes
    <2>2. TypeOK'
      <3>1. LocksHeld'
        BY DEF TypeOK, LocksHeld, Walks
      <3>2. /\ cpc' \in [Threads -> CallPC]
            /\ ctask' \in [Threads -> Tasks \cup {None}]
            /\ known' \in [Threads -> SUBSET Tasks]
        BY DEF TypeOK, CallPC, Accepted
      <3> QED BY <3>1, <3>2, SMTT(40) DEF TypeOK
    <2>3. /\ TmpSet' = TmpSet /\ TaskSet' = TaskSet /\ Accepted' = Accepted
          /\ Order' /\ Iterator' /\ Fate' /\ Notes'
          /\ RunInOrder' /\ OnePlace' /\ OnlyKnownFaults'
      BY CallsMoveOnly
    <2>4. Calls'
      BY <2>3, SMTT(40) DEF TypeOK, Calls, Pending, AfterTmp, Order
    <2> QED BY <2>2, <2>3, <2>4
  <1>2. CASE \E sel \in Selections : CallCancelTask(th, sel)
    <2>1. PICK sel \in Selections : CallCancelTask(th, sel)
      BY <1>2
    <2> USE <2>1 DEF IInv, CallCancelTask, MayCall, InCall, lists, locks, local, notes, fate
    <2>2. TypeOK'
      <3>1. LocksHeld'
        BY DEF TypeOK, LocksHeld, Walks
      <3>2. /\ cpc' \in [Threads -> CallPC]
            /\ csel' \in [Threads -> SUBSET Tasks]
            /\ known' \in [Threads -> SUBSET Tasks]
        BY DEF TypeOK, CallPC, Accepted
      <3> QED BY <3>1, <3>2 DEF TypeOK
    <2>3. /\ TmpSet' = TmpSet /\ TaskSet' = TaskSet /\ Accepted' = Accepted
          /\ Order' /\ Iterator' /\ Fate' /\ Notes'
          /\ RunInOrder' /\ OnePlace' /\ OnlyKnownFaults'
      BY CallsMoveOnly
    <2>4. Calls'
      BY <2>3 DEF TypeOK, Calls, Pending, AfterTmp, Order
    <2> QED BY <2>2, <2>3, <2>4
  <1> QED BY <1>1, <1>2 DEF Submit

(* A step that moves only where a call is, and takes or leaves m_mutexTasks. *)
LEMMA ScansKeepIInv ==
    ASSUME IInv, NEW th \in Threads,
           \/ ScanTmp(th) \/ ScanLock(th) \/ ScanTasks(th)
           \/ DumpTask(th) \/ CancelLock(th)
    PROVE  IInv'
  <1> USE IdleThreadAssumption DEF IInv, InCall, lists, local, notes, fate
  <1>1. /\ cpc[th] \in {"scanTmp", "scanLock", "scanTasks", "dump", "cancelLock"}
        /\ \/ Return(th)
           \/ cpc[th] = "scanTmp" /\ Goto(th, "scanLock")
           \/ cpc[th] = "scanLock" /\ Goto(th, "scanTasks")
           \/ cpc[th] = "scanTasks" /\ Goto(th, "push")
           \/ cpc[th] = "cancelLock" /\ Goto(th, "cancelTasks")
        /\ cpc[th] \in {"scanTmp", "dump"} => m_mutexTasks' = m_mutexTasks
        /\ cpc[th] = "scanTasks" => m_mutexTasks' = AfterUnlock(th)
        /\ cpc[th] \in {"scanLock", "cancelLock"} =>
               m_mutexTasks' = th /\ CanLockTasks(th) /\ ~Return(th)
        /\ UNCHANGED <<lists, m_mutexTmpTasks, wpc, local, notes, fate, stopping, freed,
                       undefined>>
        /\ ~undefined
    <2>1. cpc \in [Threads -> CallPC]
      BY DEF TypeOK
    <2>2. CASE ScanTmp(th)
      BY <2>2 DEF ScanTmp, locks
    <2>3. CASE ScanLock(th)
      BY <2>1, <2>3 DEF ScanLock, Goto, Return
    <2>4. CASE ScanTasks(th)
      BY <2>4 DEF ScanTasks
    <2>5. CASE DumpTask(th)
      BY <2>5 DEF DumpTask, locks
    <2>6. CASE CancelLock(th)
      BY <2>1, <2>6 DEF CancelLock, Goto, Return
    <2> QED BY <2>2, <2>3, <2>4, <2>5, <2>6
  <1>2. /\ TmpSet' = TmpSet /\ TaskSet' = TaskSet /\ Accepted' = Accepted
        /\ Order' /\ Iterator' /\ Fate' /\ Notes'
        /\ RunInOrder' /\ OnePlace' /\ OnlyKnownFaults'
    BY <1>1, CallsMoveOnly
  <1>3. /\ cpc' \in [Threads -> CallPC]
        /\ \A o \in Threads : o # th => cpc'[o] = cpc[o]
        /\ \/ cpc'[th] = "none"
           \/ cpc[th] = "scanTmp" /\ cpc'[th] = "scanLock"
           \/ cpc[th] = "scanLock" /\ cpc'[th] = "scanTasks"
           \/ cpc[th] = "scanTasks" /\ cpc'[th] = "push"
           \/ cpc[th] = "cancelLock" /\ cpc'[th] = "cancelTasks"
        /\ cpc[th] \in {"scanLock", "cancelLock"} => cpc'[th] # "none"
    <2>1. cpc \in [Threads -> CallPC]
      BY DEF TypeOK
    <2>2. CASE Return(th)
      BY <1>1, <2>1, <2>2 DEF Return, CallPC
    <2>3. CASE ~Return(th)
      BY <1>1, <2>1, <2>3 DEF Goto, CallPC
    <2> QED BY <1>1, <2>2, <2>3
  <1>4. LocksHeld'
    <2>1. m_mutexTasks' \in {m_mutexTasks, th, AfterUnlock(th)}
      BY <1>1
    <2>2. th = Worker => wpc = "handler" /\ m_mutexTasks = Worker
      BY <1>1 DEF TypeOK, LocksHeld, Walks
    <2>3. CASE cpc[th] \in {"scanTmp", "dump"}
      <3>1. cpc'[th] \notin {"scanTasks", "cancelTasks"} /\ ~Walks(th)
        BY <1>3, <2>3 DEF Walks
      <3>2. \A o \in Threads : Walks(o)' <=> Walks(o)
        BY <1>3, <3>1 DEF Walks
      <3>3. m_mutexTasks' = m_mutexTasks /\ m_mutexTasks \in Threads \cup {None}
        BY <1>1, <2>3 DEF TypeOK
      <3>4. cpc'[Worker] # "none" => cpc[Worker] # "none"
        BY <1>3, <2>3 DEF Threads
      <3> QED BY <1>1, <3>2, <3>3, <3>4 DEF TypeOK, LocksHeld
    <2>4. CASE cpc[th] = "scanTasks"
      BY <1>1, <1>3, <2>2, <2>4 DEF TypeOK, LocksHeld, Walks, AfterUnlock, Threads
    <2>5. CASE cpc[th] \in {"scanLock", "cancelLock"}
      <3>1. cpc'[th] \in {"scanTasks", "cancelTasks"}
        BY <1>3, <2>5
      <3>2. m_mutexTasks' = th /\ (m_mutexTasks = None \/ m_mutexTasks = th)
        BY <1>1, <2>5 DEF CanLockTasks
      <3> QED BY <1>1, <1>3, <2>2, <3>1, <3>2 DEF TypeOK, LocksHeld, Walks, Threads
    <2> QED BY <1>1, <2>3, <2>4, <2>5
  <1>5. TypeOK'
    <2>1. m_mutexTasks' \in Threads \cup {None}
      BY <1>1 DEF TypeOK, AfterUnlock
    <2>2. /\ ctask' \in [Threads -> Tasks \cup {None}]
          /\ csel' \in [Threads -> SUBSET Tasks]
          /\ known' \in [Threads -> SUBSET Tasks]
      <3>1. CASE Return(th)
        BY <3>1 DEF Return, TypeOK
      <3>2. CASE ~Return(th)
        BY <1>1, <3>2 DEF Goto, TypeOK
      <3> QED BY <3>1, <3>2
    <2> QED BY <1>1, <1>3, <1>4, <2>1, <2>2 DEF TypeOK
  <1>6. Calls'
    <2>1. CASE Return(th)
      BY <1>1, <1>2, <2>1, SMTT(60) DEF Return, TypeOK, Calls, Pending, AfterTmp
    <2>2. CASE ~Return(th)
      <3>1. /\ UNCHANGED <<ctask, csel, known, submitted>>
            /\ cpc'[th] \in Pending => cpc[th] \in Pending
            /\ cpc'[th] \in AfterTmp => cpc[th] \in AfterTmp
            /\ cpc'[th] # "dump"
        <4>1. UNCHANGED <<ctask, csel, known, submitted>>
          BY <1>1, <2>2 DEF Goto
        <4> QED BY <1>3, <4>1 DEF Pending, AfterTmp
      <3>2. \A o \in Threads :
                /\ cpc'[o] \in Pending => cpc[o] \in Pending
                /\ cpc'[o] \in AfterTmp => cpc[o] \in AfterTmp
                /\ cpc'[o] = "dump" => cpc[o] = "dump"
        BY <1>3, <3>1
      <3> QED BY <1>2, <3>1, <3>2 DEF Calls
    <2> QED BY <2>1, <2>2
  <1> QED BY <1>2, <1>5, <1>6

LEMMA PushKeepsIInv ==
    ASSUME IInv, NEW th \in Threads, PushTmp(th)
    PROVE  IInv'
  <1> USE IdleThreadAssumption
  <1> DEFINE t == ctask[th]
  <1>1. /\ t \in Tasks /\ t \in submitted /\ t \notin Accepted /\ ticket[t] = 0
        /\ m_lstTmpTasks \in Seq(Tasks) /\ m_lstTasks \in Seq(Tasks)
        /\ ticket \in [Tasks -> Nat] /\ accepts \in Nat
        /\ TmpSet \subseteq Accepted /\ TaskSet \subseteq Accepted
    BY DEF IInv, PushTmp, InCall, Calls, Pending, TypeOK, Accepted, Order, Queued
  <1>2. /\ m_lstTmpTasks' = Append(m_lstTmpTasks, t)
        /\ ticket' = [ticket EXCEPT ![t] = accepts + 1]
        /\ accepts' = accepts + 1
    BY DEF PushTmp
  <1>3. /\ UNCHANGED <<m_lstTasks, locks, wpc, local, notes, submitted, ran, done,
                       cancelled, stopping, freed, undefined>>
        /\ Goto(th, "dump")
        /\ cpc[th] = "push" /\ ~undefined
    BY DEF PushTmp, InCall
  <1>4. ticket'[t] = accepts + 1 /\ \A u \in Tasks : u # t => ticket'[u] = ticket[u]
    BY <1>1, <1>2
  <1>5. /\ TmpSet' = TmpSet \cup {t} /\ TaskSet' = TaskSet
        /\ Accepted' = Accepted \cup {t}
        /\ m_lstTmpTasks' \in Seq(Tasks)
    <2>1. Accepted' = Accepted \cup {t}
      BY <1>1, <1>2, <1>4 DEF Accepted
    <2> QED BY <1>1, <1>2, <1>3, <2>1, ElementsOfAppend DEF TmpSet, TaskSet
  <1> HIDE DEF t
  <1>6. TypeOK'
    <2> USE <1>3 DEF IInv, Goto, locks, local, notes
    <2>1. LocksHeld'
      BY DEF TypeOK, LocksHeld, Walks
    <2>2. cpc' \in [Threads -> CallPC]
      BY DEF TypeOK, CallPC
    <2>3. accepts' \in Nat /\ ticket' \in [Tasks -> Nat]
      BY <1>1, <1>2
    <2> QED BY <1>5, <2>1, <2>2, <2>3 DEF TypeOK
  <1>7. Calls'
    <2> USE <1>3, <1>5 DEF Goto
    <2>1. ASSUME NEW o \in Threads
          PROVE  /\ cpc'[o] \in Pending => ctask'[o] \in submitted' \ Accepted'
                 /\ cpc'[o] = "dump" => ctask'[o] \in Accepted'
                 /\ known'[o] \subseteq Accepted'
                 /\ cpc'[o] \in AfterTmp => csel'[o] \cap known'[o] \cap TmpSet' = {}
      <3>1. CASE o = th
        BY <3>1 DEF IInv, TypeOK, Calls, Pending, AfterTmp, t
      <3>2. CASE o # th
        <4>1. /\ cpc'[o] = cpc[o] /\ ctask'[o] = ctask[o]
              /\ csel'[o] = csel[o] /\ known'[o] = known[o]
          BY <3>2 DEF IInv, TypeOK
        <4>2. cpc[o] \in Pending => ctask[o] # t
          BY <3>2 DEF IInv, Calls, Pending, t
        <4> QED BY <1>1, <4>1, <4>2 DEF IInv, Calls
      <3> QED BY <3>1, <3>2
    <2>2. ASSUME NEW o \in Threads, NEW v \in Threads,
                 cpc'[o] \in Pending, cpc'[v] \in Pending, ctask'[o] = ctask'[v]
          PROVE  o = v
      BY <2>2 DEF IInv, TypeOK, Calls, Pending
    <2> QED BY <2>1, <2>2 DEF Calls
  <1>8. Order'
    <2>1. ASSUME NEW i \in DOMAIN m_lstTmpTasks', NEW j \in DOMAIN m_lstTmpTasks', i < j
          PROVE  ticket'[m_lstTmpTasks'[i]] < ticket'[m_lstTmpTasks'[j]]
      <3>1. /\ Len(m_lstTmpTasks) \in Nat
            /\ i \in 1..(Len(m_lstTmpTasks) + 1) /\ j \in 1..(Len(m_lstTmpTasks) + 1)
            /\ \A k \in 1..Len(m_lstTmpTasks) : m_lstTmpTasks'[k] = m_lstTmpTasks[k]
            /\ m_lstTmpTasks'[Len(m_lstTmpTasks) + 1] = t
            /\ DOMAIN m_lstTmpTasks = 1..Len(m_lstTmpTasks)
        BY <1>1, <1>2, AppendProperties, LenProperties
      <3>2. \A k \in 1..Len(m_lstTmpTasks) :
                /\ m_lstTmpTasks[k] \in Tasks /\ m_lstTmpTasks[k] # t
                /\ ticket[m_lstTmpTasks[k]] =< accepts
        BY <1>1, <3>1, ElementsOfList DEF TmpSet, IInv, Order
      <3>3. i \in 1..Len(m_lstTmpTasks)
        BY <2>1, <3>1
      <3>4. CASE j = Len(m_lstTmpTasks) + 1
        BY <1>1, <1>4, <3>1, <3>2, <3>3, <3>4
      <3>5. CASE j \in 1..Len(m_lstTmpTasks)
        <4>1. ticket[m_lstTmpTasks[i]] < ticket[m_lstTmpTasks[j]]
          BY <2>1, <3>1, <3>3, <3>5 DEF IInv, Order, Increasing
        <4> QED BY <1>4, <3>1, <3>2, <3>3, <3>5, <4>1
      <3> QED BY <3>1, <3>4, <3>5
    <2>2. Increasing(m_lstTasks)'
      <3>1. \A k \in DOMAIN m_lstTasks : m_lstTasks[k] \in Tasks /\ m_lstTasks[k] # t
        BY <1>1, ElementsOfList DEF TaskSet
      <3> QED BY <1>3, <1>4, <3>1 DEF IInv, Order, Increasing
    <2>3. \A u \in TaskSet', v \in TmpSet' : ticket'[u] < ticket'[v]
      <3>1. \A u \in TaskSet \cup TmpSet : u \in Tasks /\ u # t /\ ticket[u] =< accepts
        BY <1>1 DEF IInv, Order, Accepted
      <3> QED BY <1>1, <1>4, <1>5, <3>1 DEF IInv, Order
    <2>4. \A u \in Tasks : ticket'[u] =< accepts'
      BY <1>1, <1>2, <1>4 DEF IInv, Order
    <2>5. Accepted' \subseteq submitted'
      BY <1>1, <1>3, <1>5 DEF IInv, Order
    <2>6. ran' \cup Queued' \cup done' \cup cancelled' \cup freed' \subseteq Accepted'
      BY <1>3, <1>5 DEF IInv, Order, Queued
    <2> QED BY <2>1, <2>2, <2>3, <2>4, <2>5, <2>6 DEF Order, Increasing
  <1>9. Iterator' /\ Fate' /\ Notes' /\ OnlyKnownFaults'
    BY <1>3 DEF IInv, Iterator, AtFirst, Fate, Notes, Erasing, OnlyKnownFaults,
                local, notes
  <1>10. RunInOrder'
    <2>1. \A u \in ran \cup Queued : u \in Tasks /\ u # t /\ ticket[u] =< accepts
      BY <1>1 DEF IInv, Order, Accepted
    <2> QED BY <1>1, <1>3, <1>4, <1>5, <2>1 DEF IInv, RunInOrder, Queued
  <1>11. OnePlace'
    <2>1. OnlyOnce(m_lstTmpTasks', Tasks)
      <3>1. OnlyOnce(m_lstTmpTasks, Tasks)
        BY DEF IInv, OnePlace, OnlyOnce
      <3>2. t \notin ToSet(m_lstTmpTasks)
        BY <1>1 DEF TmpSet
      <3> QED BY <1>1, <1>2, <3>1, <3>2, ElementsOfAppend
    <2>2. \A i, j \in DOMAIN m_lstTmpTasks' : m_lstTmpTasks'[i] = m_lstTmpTasks'[j] => i = j
      BY <1>5, <2>1, ElementsOfList DEF OnlyOnce
    <2>3. t \notin done \cup cancelled \cup freed
      BY <1>1 DEF IInv, Order
    <2>4. (Queued' \cup m_mapRetryCBNotify') \cap freed' = {}
      BY <1>3, <1>5, <2>3 DEF IInv, OnePlace, Queued, notes
    <2> QED BY <1>1, <1>3, <1>5, <2>2, <2>3, <2>4 DEF IInv, OnePlace, Queued
  <1> QED BY <1>6, <1>7, <1>8, <1>9, <1>10, <1>11 DEF IInv

LEMMA WithoutKeepsOrder ==
    ASSUME NEW q \in Seq(Tasks), NEW S, ticket \in [Tasks -> Nat], Increasing(q)
    PROVE  /\ Increasing(Without(q, S))
           /\ \A i, j \in DOMAIN Without(q, S) : Without(q, S)[i] = Without(q, S)[j] => i = j
  <1> DEFINE w == Without(q, S)
  <1>1. /\ w \in Seq(Tasks)
        /\ \A i, j \in DOMAIN w : i < j =>
               \E a, b \in DOMAIN q : a < b /\ w[i] = q[a] /\ w[j] = q[b]
    BY WithoutProperties
  <1> HIDE DEF w
  <1>2. Increasing(w)
    <2> SUFFICES ASSUME NEW i \in DOMAIN w, NEW j \in DOMAIN w, i < j
                 PROVE  ticket[w[i]] < ticket[w[j]]
      BY DEF Increasing
    <2>1. PICK a \in DOMAIN q, b \in DOMAIN q : a < b /\ w[i] = q[a] /\ w[j] = q[b]
      BY <1>1
    <2> QED BY <2>1 DEF Increasing
  <1>3. ASSUME NEW i \in DOMAIN w, NEW j \in DOMAIN w, w[i] = w[j]
        PROVE  i = j
    <2>1. i \in Nat /\ j \in Nat
      BY <1>1, LenProperties
    <2>2. w[i] \in Tasks /\ ticket[w[i]] \in Nat
      BY <1>1, ElementsOfList
    <2> QED BY <1>2, <1>3, <2>1, <2>2 DEF Increasing
  <1> QED BY <1>2, <1>3 DEF w

LEMMA CancelTmpKeepsIInv ==
    ASSUME IInv, NEW th \in Threads, CancelTmp(th)
    PROVE  IInv'
  <1> USE IdleThreadAssumption
  <1> DEFINE hit == csel[th] \cap TmpSet
  <1>1. /\ m_lstTmpTasks' = Without(m_lstTmpTasks, hit)
        /\ cancelled' = cancelled \cup hit /\ freed' = freed \cup hit
        /\ \/ hit = {} /\ Goto(th, "cancelLock")
           \/ Return(th)
        /\ UNCHANGED <<m_lstTasks, m_mutexTmpTasks, m_mutexTasks, wpc, local, notes,
                       submitted, accepts, ticket, ran, done, stopping, undefined>>
        /\ cpc[th] = "cancelTmp" /\ ~undefined
    BY DEF CancelTmp, InCall, Cancel, locks
  <1>2. /\ m_lstTmpTasks \in Seq(Tasks) /\ m_lstTasks \in Seq(Tasks)
        /\ ticket \in [Tasks -> Nat] /\ TmpSet \subseteq Tasks /\ TaskSet \subseteq Tasks
    BY ElementsOfList DEF IInv, TypeOK, TmpSet, TaskSet
  <1>3. /\ m_lstTmpTasks' \in Seq(Tasks)
        /\ TmpSet' = TmpSet \ hit /\ TaskSet' = TaskSet /\ Accepted' = Accepted
    BY <1>1, <1>2, WithoutProperties DEF TmpSet, TaskSet, Accepted
  <1>4. /\ hit \subseteq TmpSet /\ hit \subseteq Tasks /\ hit \subseteq Accepted
        /\ hit \cap TaskSet = {} /\ hit \cap m_mapRetryCBNotify = {} /\ hit \cap done = {}
        /\ hit = csel[th] \cap TmpSet
    <2>1. \A t \in hit : ~Erasing(t)
      BY <1>2, ElementsOfList, EmptySeq
         DEF IInv, OnePlace, Iterator, AtFirst, Erasing, TaskSet
    <2> QED BY <1>2, <2>1 DEF IInv, OnePlace, Order, Queued, Fate
  <1> HIDE DEF hit
  <1>5. TypeOK' /\ Calls'
    <2>1. cancelled' \subseteq Tasks /\ freed' \subseteq Tasks
      BY <1>1, <1>4 DEF IInv, TypeOK
    <2>2. CASE hit = {} /\ Goto(th, "cancelLock")
      <3> USE <1>1, <2>2 DEF IInv, Goto, local, notes
      <3>1. LocksHeld'
        BY DEF TypeOK, LocksHeld, Walks
      <3>2. cpc' \in [Threads -> CallPC]
        BY DEF TypeOK, CallPC
      <3>3. TypeOK'
        BY <1>3, <2>1, <3>1, <3>2 DEF TypeOK
      <3>4. Calls'
        BY <1>3, <1>4 DEF TypeOK, Calls, Pending, AfterTmp
      <3> QED BY <3>3, <3>4
    <2>3. CASE Return(th)
      <3> USE <1>1, <2>3 DEF IInv, Return, local, notes
      <3>1. LocksHeld'
        BY DEF TypeOK, LocksHeld, Walks
      <3>2. /\ cpc' \in [Threads -> CallPC]
            /\ ctask' \in [Threads -> Tasks \cup {None}]
            /\ csel' \in [Threads -> SUBSET Tasks]
            /\ known' \in [Threads -> SUBSET Tasks]
        BY DEF TypeOK, CallPC
      <3>3. TypeOK'
        BY <1>3, <2>1, <3>1, <3>2 DEF TypeOK
      <3>4. Calls'
        BY <1>3, <1>4 DEF TypeOK, Calls, Pending, AfterTmp
      <3> QED BY <3>3, <3>4
    <2> QED BY <1>1, <2>2, <2>3
  <1>6. Order'
    <2>1. Increasing(m_lstTmpTasks)'
      BY <1>1, <1>2, WithoutKeepsOrder DEF IInv, Order, Increasing
    <2>2. Increasing(m_lstTasks)'
      BY <1>1 DEF IInv, Order, Increasing
    <2> QED BY <1>1, <1>3, <1>4, <2>1, <2>2 DEF IInv, Order, Queued
  <1>7. Iterator' /\ Fate' /\ Notes' /\ OnlyKnownFaults'
    BY <1>1 DEF IInv, Iterator, AtFirst, Fate, Notes, Erasing, OnlyKnownFaults,
                local, notes
  <1>8. RunInOrder'
    BY <1>1, <1>3 DEF IInv, RunInOrder, Queued
  <1>9. OnePlace'
    <2>1. \A i, j \in DOMAIN m_lstTmpTasks' : m_lstTmpTasks'[i] = m_lstTmpTasks'[j] => i = j
      BY <1>1, <1>2, WithoutKeepsOrder DEF IInv, Order
    <2>2. Queued' = Queued \ hit
      BY <1>3, <1>4 DEF Queued
    <2>3. wpc' # "gone" => Accepted' = Queued' \cup done' \cup cancelled'
      BY <1>1, <1>3, <1>4, <2>2 DEF IInv, OnePlace, Queued
    <2>4. /\ Queued' \cap (done' \cup cancelled') = {}
          /\ (Queued' \cup m_mapRetryCBNotify') \cap freed' = {}
      BY <1>1, <1>4, <2>2 DEF IInv, OnePlace, notes
    <2> QED BY <1>1, <1>3, <2>1, <2>3, <2>4 DEF IInv, OnePlace
  <1> QED BY <1>5, <1>6, <1>7, <1>8, <1>9 DEF IInv

LEMMA CancelTasksKeepsIInv ==
    ASSUME IInv, NEW th \in Threads, CancelTasks(th)
    PROVE  /\ IInv'
           /\ csel[th] \cap known[th] \cap Queued' = {}
  <1> USE IdleThreadAssumption
  <1> DEFINE hit == csel[th] \cap TaskSet
  <1>1. /\ hit = csel[th] \cap TaskSet
        /\ m_lstTasks' = Without(m_lstTasks, hit)
        /\ cancelled' = cancelled \cup hit /\ freed' = freed \cup hit
        /\ m_mutexTasks' = AfterUnlock(th)
        /\ Return(th)
        /\ UNCHANGED <<m_lstTmpTasks, m_mutexTmpTasks, wpc, local, notes,
                       submitted, accepts, ticket, ran, done, stopping, undefined>>
        /\ cpc[th] = "cancelTasks" /\ ~undefined
    BY DEF CancelTasks, InCall, Cancel
  <1> HIDE DEF hit
  <1>2. /\ m_lstTmpTasks \in Seq(Tasks) /\ m_lstTasks \in Seq(Tasks)
        /\ ticket \in [Tasks -> Nat] /\ TmpSet \subseteq Tasks /\ TaskSet \subseteq Tasks
    BY ElementsOfList DEF IInv, TypeOK, TmpSet, TaskSet
  <1>3. /\ m_lstTasks' \in Seq(Tasks) /\ Len(m_lstTasks') =< Len(m_lstTasks)
        /\ TaskSet' = TaskSet \ hit /\ TmpSet' = TmpSet /\ Accepted' = Accepted
        /\ m_lstTasks # <<>> /\ m_lstTasks[1] \notin hit =>
               m_lstTasks' # <<>> /\ m_lstTasks'[1] = m_lstTasks[1]
    <2>1. TmpSet' = TmpSet /\ Accepted' = Accepted
      BY <1>1 DEF TmpSet, Accepted
    <2>2. /\ Without(m_lstTasks, hit) \in Seq(Tasks)
          /\ Len(Without(m_lstTasks, hit)) =< Len(m_lstTasks)
          /\ ToSet(Without(m_lstTasks, hit)) = ToSet(m_lstTasks) \ hit
          /\ m_lstTasks # <<>> /\ m_lstTasks[1] \notin hit =>
                 /\ Without(m_lstTasks, hit) # <<>>
                 /\ Without(m_lstTasks, hit)[1] = m_lstTasks[1]
      BY <1>2, WithoutProperties
    <2> QED BY <1>1, <2>1, <2>2 DEF TaskSet
  <1>4. wpc # "erase" /\ (th = Worker => wpc = "handler")
    BY <1>1 DEF IInv, TypeOK, LocksHeld, Walks
  <1>5. /\ hit \subseteq TaskSet /\ hit \subseteq Tasks /\ hit \subseteq Accepted
        /\ hit \cap TmpSet = {} /\ hit \cap m_mapRetryCBNotify = {} /\ hit \cap done = {}
    BY <1>1, <1>2, <1>4 DEF IInv, OnePlace, Order, Queued, Fate, Erasing
  <1>6. TypeOK'
    <2> USE <1>1 DEF IInv, Return, local, notes
    <2>1. LocksHeld'
      BY <1>4 DEF TypeOK, LocksHeld, Walks, AfterUnlock, Threads
    <2>2. /\ cpc' \in [Threads -> CallPC]
          /\ ctask' \in [Threads -> Tasks \cup {None}]
          /\ csel' \in [Threads -> SUBSET Tasks]
          /\ known' \in [Threads -> SUBSET Tasks]
      BY DEF TypeOK, CallPC
    <2>3. Len(m_lstTasks') =< MaxRunList
      BY <1>2, <1>3, LenProperties DEF TypeOK
    <2>4. /\ cancelled' \subseteq Tasks /\ freed' \subseteq Tasks
          /\ m_mutexTasks' \in Threads \cup {None}
      BY <1>5 DEF TypeOK, AfterUnlock
    <2> QED BY <1>3, <2>1, <2>2, <2>3, <2>4 DEF TypeOK
  <1>7. Calls'
    <2> USE <1>1 DEF IInv, TypeOK, Return
    <2>1. ASSUME NEW o \in Threads
          PROVE  /\ cpc'[o] \in Pending => ctask'[o] \in submitted' \ Accepted'
                 /\ cpc'[o] = "dump" => ctask'[o] \in Accepted'
                 /\ known'[o] \subseteq Accepted'
                 /\ cpc'[o] \in AfterTmp => csel'[o] \cap known'[o] \cap TmpSet' = {}
      <3>1. CASE o = th
        BY <3>1 DEF Pending, AfterTmp
      <3>2. CASE o # th
        <4>1. /\ cpc'[o] = cpc[o] /\ ctask'[o] = ctask[o]
              /\ csel'[o] = csel[o] /\ known'[o] = known[o]
          BY <3>2
        <4>2. submitted' = submitted
          BY DEF fate
        <4> HIDE DEF TypeOK
        <4> QED BY <1>3, <4>1, <4>2, SMTT(40) DEF Calls
      <3> QED BY <3>1, <3>2
    <2>2. ASSUME NEW o \in Threads, NEW v \in Threads,
                 cpc'[o] \in Pending, cpc'[v] \in Pending, ctask'[o] = ctask'[v]
          PROVE  o = v
      BY <2>2 DEF Calls, Pending
    <2> QED BY <2>1, <2>2 DEF Calls
  <1>8. Order'
    <2>1. Increasing(m_lstTasks)'
      BY <1>1, <1>2, WithoutKeepsOrder DEF IInv, Order, Increasing
    <2>2. Increasing(m_lstTmpTasks)'
      BY <1>1 DEF IInv, Order, Increasing
    <2> QED BY <1>1, <1>3, <1>5, <2>1, <2>2 DEF IInv, Order, Queued
  <1>9. Iterator'
    BY <1>1, <1>3, <1>4, <1>5 DEF IInv, Iterator, AtFirst, local
  <1>10. Fate' /\ Notes' /\ OnlyKnownFaults'
    BY <1>1 DEF IInv, Fate, Notes, Erasing, OnlyKnownFaults, local, notes
  <1>11. RunInOrder'
    BY <1>1, <1>3 DEF IInv, RunInOrder, Queued
  <1>12. Queued' = Queued \ hit
    BY <1>3, <1>5 DEF Queued
  <1>13. OnePlace'
    <2>1. \A i, j \in DOMAIN m_lstTasks' : m_lstTasks'[i] = m_lstTasks'[j] => i = j
      BY <1>1, <1>2, WithoutKeepsOrder DEF IInv, Order
    <2>2. wpc' # "gone" => Accepted' = Queued' \cup done' \cup cancelled'
      BY <1>1, <1>3, <1>5, <1>12 DEF IInv, OnePlace, Queued
    <2>3. /\ Queued' \cap (done' \cup cancelled') = {}
          /\ (Queued' \cup m_mapRetryCBNotify') \cap freed' = {}
      BY <1>1, <1>5, <1>12 DEF IInv, OnePlace, notes
    <2> QED BY <1>1, <1>3, <2>1, <2>2, <2>3 DEF IInv, OnePlace
  <1>14. csel[th] \cap known[th] \cap Queued' = {}
    BY <1>1, <1>3, <1>5 DEF IInv, Calls, AfterTmp, Queued
  <1> QED BY <1>6, <1>7, <1>8, <1>9, <1>10, <1>11, <1>13, <1>14 DEF IInv

LEMMA MoveKeepsIInv ==
    ASSUME IInv, MoveTask
    PROVE  IInv'
  <1> USE IdleThreadAssumption
  <1> DEFINE t == Head(m_lstTmpTasks)
  <1>1. /\ m_lstTmpTasks # <<>> /\ Len(m_lstTasks) < MaxRunList
        /\ m_lstTmpTasks' = Tail(m_lstTmpTasks)
        /\ m_lstTasks' = Append(m_lstTasks, t)
        /\ UNCHANGED <<locks, wpc, local, calls, notes, fate, stopping, freed, undefined>>
        /\ wpc = "move" /\ ~undefined
    BY DEF MoveTask, At, Room, MoveToBack
  <1>2. /\ m_lstTmpTasks \in Seq(Tasks) /\ m_lstTasks \in Seq(Tasks)
        /\ ticket \in [Tasks -> Nat] /\ TmpSet \subseteq Tasks /\ TaskSet \subseteq Tasks
        /\ OnlyOnce(m_lstTmpTasks, Tasks) /\ OnlyOnce(m_lstTasks, Tasks)
    BY ElementsOfList DEF IInv, TypeOK, TmpSet, TaskSet, OnePlace, OnlyOnce
  <1>3. /\ t \in Tasks
        /\ m_lstTmpTasks' \in Seq(Tasks)
        /\ TmpSet = {t} \cup TmpSet' /\ t \notin TmpSet'
        /\ OnlyOnce(m_lstTmpTasks', Tasks)
    BY <1>1, <1>2, ElementsOfTail DEF TmpSet
  <1>4. /\ m_lstTasks' \in Seq(Tasks)
        /\ TaskSet' = TaskSet \cup {t}
        /\ OnlyOnce(m_lstTasks', Tasks)
    <2>1. t \notin ToSet(m_lstTasks)
      BY <1>3 DEF TaskSet, IInv, OnePlace
    <2> QED BY <1>1, <1>2, <1>3, <2>1, ElementsOfAppend DEF TaskSet
  <1>5. Queued' = Queued /\ Accepted' = Accepted
    BY <1>1, <1>3, <1>4 DEF Queued, Accepted, fate
  <1>6. /\ Len(m_lstTmpTasks) \in Nat \ {0} /\ Len(m_lstTasks) \in Nat
        /\ DOMAIN m_lstTmpTasks = 1..Len(m_lstTmpTasks)
        /\ DOMAIN m_lstTasks = 1..Len(m_lstTasks)
        /\ DOMAIN m_lstTmpTasks' = 1..(Len(m_lstTmpTasks) - 1)
        /\ DOMAIN m_lstTasks' = 1..(Len(m_lstTasks) + 1)
        /\ \A i \in 1..(Len(m_lstTmpTasks) - 1) : m_lstTmpTasks'[i] = m_lstTmpTasks[i + 1]
        /\ \A i \in 1..Len(m_lstTasks) : m_lstTasks'[i] = m_lstTasks[i]
        /\ m_lstTasks'[Len(m_lstTasks) + 1] = t
        /\ t = m_lstTmpTasks[1]
        /\ Len(m_lstTasks') = Len(m_lstTasks) + 1
    <2>1. /\ Len(m_lstTmpTasks) \in Nat \ {0}
          /\ Len(m_lstTmpTasks') = Len(m_lstTmpTasks) - 1
          /\ \A i \in 1..Len(m_lstTmpTasks') : m_lstTmpTasks'[i] = m_lstTmpTasks[i + 1]
          /\ t = m_lstTmpTasks[1]
      BY <1>1, <1>2, HeadTailProperties, EmptySeq
    <2>2. /\ Len(m_lstTasks') = Len(m_lstTasks) + 1
          /\ \A i \in 1..Len(m_lstTasks) : m_lstTasks'[i] = m_lstTasks[i]
          /\ m_lstTasks'[Len(m_lstTasks) + 1] = t
      BY <1>1, <1>2, <1>3, AppendProperties
    <2> HIDE DEF t
    <2> QED BY <1>2, <1>3, <1>4, <2>1, <2>2, LenProperties
  <1> HIDE DEF t
  <1>7. TypeOK'
    <2> USE <1>1 DEF IInv, locks, local, calls, notes, fate
    <2>1. LocksHeld'
      BY DEF TypeOK, LocksHeld, Walks
    <2>2. Len(m_lstTasks') =< MaxRunList
      BY <1>6
    <2> QED BY <1>3, <1>4, <2>1, <2>2 DEF TypeOK
  <1>8. Calls'
    BY <1>1, <1>3, <1>5 DEF IInv, Calls, calls, fate
  <1>9. Order'
    <2>1. \A i \in 1..Len(m_lstTmpTasks) : i # 1 => ticket[t] < ticket[m_lstTmpTasks[i]]
      BY <1>6 DEF IInv, Order, Increasing
    <2>2. \A u \in TmpSet : u # t => ticket[t] < ticket[u]
      <3> SUFFICES ASSUME NEW u \in TmpSet, u # t
                   PROVE  ticket[t] < ticket[u]
        OBVIOUS
      <3>1. PICK i \in DOMAIN m_lstTmpTasks : m_lstTmpTasks[i] = u
        BY <1>2, ElementsOfList DEF TmpSet
      <3> QED BY <1>6, <2>1, <3>1
    <2>3. Increasing(m_lstTmpTasks')
      <3> SUFFICES ASSUME NEW i \in 1..(Len(m_lstTmpTasks) - 1),
                          NEW j \in 1..(Len(m_lstTmpTasks) - 1), i < j
                   PROVE  ticket[m_lstTmpTasks'[i]] < ticket[m_lstTmpTasks'[j]]
        BY <1>6 DEF Increasing
      <3>1. i + 1 \in DOMAIN m_lstTmpTasks /\ j + 1 \in DOMAIN m_lstTmpTasks /\ i + 1 < j + 1
        BY <1>6
      <3>2. ticket[m_lstTmpTasks[i + 1]] < ticket[m_lstTmpTasks[j + 1]]
        BY <3>1 DEF IInv, Order, Increasing
      <3> QED BY <1>6, <3>2
    <2>4. Increasing(m_lstTasks')
      <3> SUFFICES ASSUME NEW i \in 1..(Len(m_lstTasks) + 1),
                          NEW j \in 1..(Len(m_lstTasks) + 1), i < j
                   PROVE  ticket[m_lstTasks'[i]] < ticket[m_lstTasks'[j]]
        BY <1>6 DEF Increasing
      <3>1. i \in 1..Len(m_lstTasks) /\ m_lstTasks[i] \in TaskSet
        BY <1>2, <1>6, ElementsOfList DEF TaskSet
      <3>2. CASE j = Len(m_lstTasks) + 1
        BY <1>3, <1>6, <3>1, <3>2 DEF IInv, Order
      <3>3. CASE j \in 1..Len(m_lstTasks)
        BY <1>6, <3>1, <3>3 DEF IInv, Order, Increasing
      <3>4. j = Len(m_lstTasks) + 1 \/ j \in 1..Len(m_lstTasks)
        BY <1>6
      <3> QED BY <3>2, <3>3, <3>4
    <2>5. \A u \in TaskSet', v \in TmpSet' : ticket[u] < ticket[v]
      BY <1>3, <1>4, <2>2 DEF IInv, Order
    <2> QED BY <1>1, <1>5, <2>3, <2>4, <2>5 DEF IInv, Order, Increasing, fate
  <1>10. Iterator' /\ Fate' /\ Notes' /\ OnlyKnownFaults'
    BY <1>1 DEF IInv, Iterator, AtFirst, Fate, Notes, Erasing, OnlyKnownFaults,
                local, notes, fate
  <1>11. RunInOrder'
    BY <1>1, <1>5 DEF IInv, RunInOrder, fate
  <1>12. OnePlace'
    <2>1. /\ \A i, j \in DOMAIN m_lstTmpTasks' : m_lstTmpTasks'[i] = m_lstTmpTasks'[j] => i = j
          /\ \A i, j \in DOMAIN m_lstTasks' : m_lstTasks'[i] = m_lstTasks'[j] => i = j
      BY <1>3, <1>4, ElementsOfList DEF OnlyOnce
    <2> QED BY <1>1, <1>3, <1>4, <1>5, <2>1 DEF IInv, OnePlace, notes, fate
  <1> QED BY <1>7, <1>8, <1>9, <1>10, <1>11, <1>12 DEF IInv

LEMMA EraseKeepsIInv ==
    ASSUME IInv, EraseTask
    PROVE  IInv'
  <1> USE IdleThreadAssumption
  <1>1. PICK k \in DOMAIN m_lstTasks :
            /\ m_lstTasks[k] = it
            /\ m_lstTasks' = RemoveAt(m_lstTasks, k)
            /\ it' = Successor(k)
    BY DEF EraseTask
  <1>2. /\ done' = done \cup {pTask}
        /\ freed' = (IF bDelete THEN freed \cup {pTask} ELSE freed)
        /\ pTask' = None /\ m_mutexTasks' = None /\ wpc' = "test"
        /\ UNCHANGED <<m_lstTmpTasks, m_mutexTmpTasks, bPostRet, bDelete, calls,
                       notes, submitted, accepts, ticket, ran, cancelled, stopping, undefined>>
        /\ wpc = "erase" /\ ~undefined
    BY DEF EraseTask, At, DeleteIt
  <1>3. /\ m_lstTmpTasks \in Seq(Tasks) /\ m_lstTasks \in Seq(Tasks)
        /\ ticket \in [Tasks -> Nat] /\ TmpSet \subseteq Tasks /\ TaskSet \subseteq Tasks
        /\ OnlyOnce(m_lstTasks, Tasks)
    BY ElementsOfList, SMTT(40) DEF IInv, TypeOK, TmpSet, TaskSet, OnePlace, OnlyOnce
  <1>4. it = pTask /\ AtFirst
    BY <1>2 DEF IInv, Iterator
  <1>5. /\ k = 1 /\ pTask \in TaskSet /\ pTask \in Tasks
        /\ Len(m_lstTasks) \in Nat \ {0} /\ DOMAIN m_lstTasks = 1..Len(m_lstTasks)
    <2>1. Len(m_lstTasks) \in Nat \ {0} /\ DOMAIN m_lstTasks = 1..Len(m_lstTasks)
      BY <1>3, <1>4, LenProperties, EmptySeq DEF AtFirst
    <2>2. k = 1
      BY <1>1, <1>4, <2>1 DEF AtFirst, IInv, OnePlace
    <2> QED BY <1>1, <1>3, <1>4, <2>1, <2>2, ElementsOfList DEF TaskSet
  <1>6. /\ m_lstTasks' \in Seq(Tasks)
        /\ TaskSet = {pTask} \cup TaskSet' /\ pTask \notin TaskSet'
        /\ OnlyOnce(m_lstTasks', Tasks)
        /\ TmpSet' = TmpSet /\ Accepted' = Accepted
    <2>1. TmpSet' = TmpSet /\ Accepted' = Accepted
      BY <1>2 DEF TmpSet, Accepted
    <2>2. /\ RemoveAt(m_lstTasks, k) \in Seq(Tasks)
          /\ ToSet(m_lstTasks) = {m_lstTasks[k]} \cup ToSet(RemoveAt(m_lstTasks, k))
          /\ OnlyOnce(m_lstTasks, Tasks) =>
                 /\ OnlyOnce(RemoveAt(m_lstTasks, k), Tasks)
                 /\ m_lstTasks[k] \in Tasks =>
                        m_lstTasks[k] \notin ToSet(RemoveAt(m_lstTasks, k))
      BY <1>3, ElementsOfRemoveAt
    <2> QED BY <1>1, <1>3, <1>4, <1>5, <2>1, <2>2 DEF TaskSet
  <1>7. /\ Len(m_lstTasks') = Len(m_lstTasks) - 1
        /\ DOMAIN m_lstTasks' = 1..(Len(m_lstTasks) - 1)
        /\ \A i \in 1..(Len(m_lstTasks) - 1) : m_lstTasks'[i] = m_lstTasks[i + 1]
    <2>1. 1 \in 1..Len(m_lstTasks) /\ m_lstTasks' = RemoveAt(m_lstTasks, 1)
      BY <1>1, <1>5
    <2>2. /\ Len(m_lstTasks') = Len(m_lstTasks) - 1
          /\ \A i \in 1..(Len(m_lstTasks) - 1) : m_lstTasks'[i] = m_lstTasks[i + 1]
      BY <1>3, <2>1, RemovedAtFront
    <2> QED BY <1>5, <1>6, <2>2, LenProperties
  <1>8. it' \in Tasks \cup {None} /\ (it' # None => m_lstTasks' # <<>> /\ it' = m_lstTasks'[1])
    <2>1. CASE 1 < Len(m_lstTasks)
      <3>1. it' = m_lstTasks[2] /\ 2 \in DOMAIN m_lstTasks
        BY <1>1, <1>5, <2>1 DEF Successor
      <3>2. m_lstTasks'[1] = m_lstTasks[2] /\ Len(m_lstTasks') > 0
        BY <1>5, <1>7, <2>1
      <3> QED BY <1>3, <1>6, <3>1, <3>2, ElementsOfList, EmptySeq
    <2>2. CASE ~(1 < Len(m_lstTasks))
      BY <1>1, <1>5, <2>2 DEF Successor
    <2> QED BY <2>1, <2>2
  <1>9. /\ Queued = {pTask} \cup Queued' /\ pTask \notin Queued'
        /\ pTask \notin done \cup cancelled /\ pTask \in Accepted
    <2>1. pTask \notin TmpSet
      BY <1>5 DEF IInv, OnePlace
    <2> QED BY <1>5, <1>6, <2>1 DEF IInv, OnePlace, Order, Queued
  <1>10. TypeOK'
    <2> USE <1>2 DEF IInv, calls, notes
    <2>1. LocksHeld'
      BY DEF TypeOK, LocksHeld, Walks
    <2>2. Len(m_lstTasks') =< MaxRunList
      BY <1>5, <1>7 DEF TypeOK
    <2>3. done' \subseteq Tasks /\ freed' \subseteq Tasks
      BY <1>5 DEF TypeOK
    <2>4. wpc' \in WorkerPC
      BY DEF WorkerPC
    <2> QED BY <1>6, <1>8, <2>1, <2>2, <2>3, <2>4 DEF TypeOK
  <1>11. Calls'
    BY <1>2, <1>6 DEF IInv, Calls, calls
  <1>12. Order'
    <2>1. Increasing(m_lstTasks)'
      <3> SUFFICES ASSUME NEW i \in 1..(Len(m_lstTasks) - 1),
                          NEW j \in 1..(Len(m_lstTasks) - 1), i < j
                   PROVE  ticket[m_lstTasks'[i]] < ticket[m_lstTasks'[j]]
        BY <1>2, <1>7 DEF Increasing
      <3>1. i + 1 \in DOMAIN m_lstTasks /\ j + 1 \in DOMAIN m_lstTasks /\ i + 1 < j + 1
        BY <1>5
      <3> QED BY <1>7, <3>1, SMTT(40) DEF IInv, Order, Increasing
    <2>2. Increasing(m_lstTmpTasks)'
      BY <1>2 DEF IInv, Order, Increasing
    <2>3. ran' \cup Queued' \cup done' \cup cancelled' \cup freed' \subseteq Accepted'
      BY <1>2, <1>6, <1>9 DEF IInv, Order
    <2> QED BY <1>2, <1>6, <2>1, <2>2, <2>3 DEF IInv, Order
  <1>13. Iterator'
    BY <1>2, <1>8 DEF Iterator, AtFirst
  <1>14. Fate' /\ Notes' /\ OnlyKnownFaults'
    BY <1>2, <1>4 DEF IInv, Fate, Notes, Erasing, OnlyKnownFaults, notes
  <1>15. RunInOrder'
    BY <1>2, <1>9 DEF IInv, RunInOrder
  <1>16. OnePlace'
    <2>1. /\ \A i, j \in DOMAIN m_lstTmpTasks' : m_lstTmpTasks'[i] = m_lstTmpTasks'[j] => i = j
          /\ \A i, j \in DOMAIN m_lstTasks' : m_lstTasks'[i] = m_lstTasks'[j] => i = j
      BY <1>2, <1>6, ElementsOfList DEF OnlyOnce, IInv, OnePlace
    <2>2. (Queued' \cup m_mapRetryCBNotify') \cap freed' = {}
      BY <1>2, <1>9 DEF IInv, OnePlace, Fate, notes
    <2>3. Accepted' = Queued' \cup done' \cup cancelled'
      BY <1>2, <1>6, <1>9 DEF IInv, OnePlace
    <2>4. Queued' \cap (done' \cup cancelled') = {}
      BY <1>2, <1>9 DEF IInv, OnePlace
    <2> QED BY <1>2, <1>6, <2>1, <2>2, <2>3, <2>4 DEF IInv, OnePlace
  <1> QED BY <1>10, <1>11, <1>12, <1>13, <1>14, <1>15, <1>16 DEF IInv

(* OnExecute before and after the pass over m_lstTasks.                      *)
LEMMA PassKeepsIInv ==
    ASSUME IInv,
           LockTmpTasks \/ UnlockTmpTasks \/ BeginPass \/ HandlerReturns \/ EndPass \/ Quit
    PROVE  IInv'
  <1> USE IdleThreadAssumption
  <1>1. /\ UNCHANGED <<lists, m_mutexTasks, pTask, calls, notes, fate, stopping, freed,
                       undefined>>
        /\ ~undefined
        /\ wpc \notin {"notify", "erase"} /\ wpc' # "erase" /\ wpc # "gone" /\ wpc' # "gone"
        /\ wpc' \in WorkerPC
        /\ wpc = "handler" => wpc' = "notify" /\ cpc[Worker] = "none"
        /\ wpc' = "handler" \/ wpc' = "notify" => wpc = "handler"
        /\ m_mutexTmpTasks' = IF wpc' = "move" THEN Worker ELSE None
    BY DEF LockTmpTasks, UnlockTmpTasks, BeginPass, HandlerReturns, EndPass, Quit, At,
           WorkerPC, local, locks, IInv, TypeOK, LocksHeld, Walks
  <1>2. /\ TmpSet' = TmpSet /\ TaskSet' = TaskSet /\ Accepted' = Accepted
        /\ Queued' = Queued
    BY <1>1 DEF TmpSet, TaskSet, Accepted, Queued, lists, fate
  <1>3. /\ it' \in Tasks \cup {None} /\ bPostRet' \in BOOLEAN /\ bDelete' \in BOOLEAN
        /\ Iterator'
    <2>1. m_lstTasks \in Seq(Tasks)
      BY DEF IInv, TypeOK
    <2>2. CASE BeginPass
      <3>1. m_lstTasks # <<>> => Head(m_lstTasks) = m_lstTasks[1] /\ Head(m_lstTasks) \in Tasks
        BY <2>1, HeadTailProperties
      <3> QED BY <1>1, <2>2, <3>1 DEF BeginPass, Iterator, AtFirst, lists
    <2>3. CASE LockTmpTasks \/ UnlockTmpTasks \/ HandlerReturns \/ EndPass \/ Quit
      BY <1>1, <2>3, SMTT(40) DEF LockTmpTasks, UnlockTmpTasks, HandlerReturns, EndPass, Quit, At,
                        Iterator, AtFirst, lists, local, fate, IInv, TypeOK
    <2> QED BY <2>2, <2>3
  <1>4. TypeOK'
    <2>1. LocksHeld'
      BY <1>1 DEF IInv, TypeOK, LocksHeld, Walks, calls, WorkerPC
    <2>2. m_mutexTmpTasks' \in {Worker, None}
      BY <1>1
    <2> QED BY <1>1, <1>3, <2>1, <2>2 DEF IInv, TypeOK, lists, calls, notes, fate
  <1>5. Calls'
    BY <1>1, <1>2 DEF IInv, Calls, calls, fate
  <1>6. Order'
    BY <1>1, <1>2 DEF IInv, Order, Increasing, lists, fate
  <1>7. Fate' /\ Notes' /\ RunInOrder' /\ OnlyKnownFaults'
    BY <1>1, <1>2 DEF IInv, Fate, Notes, Erasing, RunInOrder, OnlyKnownFaults, notes, fate
  <1>8. OnePlace'
    BY <1>1, <1>2 DEF IInv, OnePlace, lists, notes, fate
  <1> QED BY <1>3, <1>4, <1>5, <1>6, <1>7, <1>8 DEF IInv

LEMMA LockTasksKeepsIInv ==
    ASSUME IInv, LockTasks
    PROVE  IInv'
  <1> USE IdleThreadAssumption
  <1>1. /\ it \in TaskSet /\ m_mutexTasks = None /\ m_mutexTasks' = Worker
        /\ pTask' = it
        /\ \/ wpc' = "handler" /\ ran' = ran \cup {it}
           \/ wpc' = "erase" /\ ran' = ran /\ ~Runs(it)
        /\ UNCHANGED <<lists, m_mutexTmpTasks, it, bPostRet, bDelete, calls, notes,
                       submitted, accepts, ticket, done, cancelled, stopping, freed, undefined>>
        /\ wpc = "test" /\ ~undefined
    BY DEF LockTasks, At
  <1>2. /\ TmpSet' = TmpSet /\ TaskSet' = TaskSet /\ Accepted' = Accepted
        /\ Queued' = Queued
    BY <1>1 DEF TmpSet, TaskSet, Accepted, Queued, lists
  <1>3. /\ m_lstTasks \in Seq(Tasks) /\ TaskSet \subseteq Tasks /\ it \in Tasks /\ it # None
    BY <1>1, ElementsOfList, SMTT(40) DEF IInv, TypeOK, TaskSet
  <1>4. it \notin done \cup cancelled /\ it \notin m_mapRetryCBNotify /\ AtFirst
    BY <1>1, <1>3 DEF IInv, OnePlace, Queued, Fate, Erasing, Iterator
  <1>5. TypeOK'
    <2> USE <1>1 DEF lists, calls, notes
    <2>1. LocksHeld'
      BY DEF IInv, TypeOK, LocksHeld, Walks
    <2>2. /\ m_mutexTasks' \in Threads \cup {None}
          /\ wpc' \in WorkerPC /\ pTask' \in Tasks \cup {None} /\ ran' \subseteq Tasks
      BY <1>3 DEF IInv, TypeOK, Threads, WorkerPC
    <2> QED BY <2>1, <2>2 DEF IInv, TypeOK
  <1>6. Calls'
    BY <1>1, <1>2 DEF IInv, Calls, calls
  <1>7. Order'
    BY <1>1, <1>2 DEF IInv, Order, Increasing, Queued, lists
  <1>8. Iterator'
    BY <1>1, <1>3, <1>4 DEF Iterator, AtFirst, lists
  <1>9. Fate' /\ Notes' /\ OnlyKnownFaults'
    BY <1>1, <1>3, <1>4 DEF IInv, Fate, Notes, Erasing, OnlyKnownFaults, Runs, notes
  <1>10. RunInOrder'
    <2>1. \A u \in Queued : u # it => ticket[it] < ticket[u]
      <3>1. ASSUME NEW u \in TaskSet, u # it
            PROVE  ticket[it] < ticket[u]
        <4>1. PICK j \in DOMAIN m_lstTasks : m_lstTasks[j] = u
          BY <1>3, ElementsOfList DEF TaskSet
        <4>2. 1 \in DOMAIN m_lstTasks /\ 1 < j
          BY <1>3, <1>4, <3>1, <4>1, LenProperties DEF AtFirst
        <4> QED BY <1>4, <4>1, <4>2 DEF IInv, Order, Increasing, AtFirst
      <3> QED BY <1>1, <3>1 DEF IInv, Order, Queued
    <2> QED BY <1>1, <1>2, <2>1 DEF IInv, RunInOrder
  <1>11. OnePlace'
    BY <1>1, <1>2 DEF IInv, OnePlace, lists, notes
  <1> QED BY <1>5, <1>6, <1>7, <1>8, <1>9, <1>10, <1>11 DEF IInv

LEMMA NotifyKeepsIInv ==
    ASSUME IInv, Notify
    PROVE  IInv'
  <1> USE IdleThreadAssumption
  <1>1. /\ ~DanglingTask
        /\ NotifyThread(pTask) \/ NotifyNobody(pTask) \/ NotifyWindow(pTask)
        /\ wpc' = "erase" /\ wpc = "notify" /\ ~undefined
        /\ UNCHANGED <<lists, locks, it, pTask, calls, fate, stopping, freed, undefined>>
    BY DEF Notify, At
  <1>2. /\ TmpSet' = TmpSet /\ TaskSet' = TaskSet /\ Accepted' = Accepted
        /\ Queued' = Queued
    BY <1>1 DEF TmpSet, TaskSet, Accepted, Queued, lists, fate
  <1>3. /\ it = pTask /\ pTask \in Tasks /\ AtFirst /\ pTask \notin freed
    BY <1>1 DEF IInv, Iterator, Fate, DanglingTask, TypeOK
  <1>4. /\ pTask \in TaskSet /\ pTask \in Queued /\ pTask \notin done
        /\ pTask \notin m_mapRetryCBNotify
    <2>1. m_lstTasks \in Seq(Tasks) /\ 1 \in DOMAIN m_lstTasks
      BY <1>3, LenProperties, EmptySeq DEF AtFirst, IInv, TypeOK
    <2>2. pTask \in TaskSet
      BY <1>3, <2>1, ElementsOfList DEF AtFirst, TaskSet
    <2> QED BY <1>1, <2>2 DEF IInv, OnePlace, Queued, Fate, Erasing
  <1>5. called \in [Tasks -> Nat] /\ finished \in [Tasks -> Nat] /\ finished[pTask] = 0
    BY <1>1, <1>3, <1>4 DEF IInv, TypeOK, Notes, Erasing
  <1>6. /\ m_mapRetryCBNotify' \subseteq m_mapRetryCBNotify \cup {pTask}
        /\ m_mapRetryCBNotify \subseteq m_mapRetryCBNotify'
        /\ pTask \in m_mapRetryCBNotify' => ~bDelete'
        /\ called' \in [Tasks -> Nat] /\ finished' \in [Tasks -> Nat]
        /\ bPostRet' \in BOOLEAN /\ bDelete' \in BOOLEAN
        /\ \A t \in Tasks : t # pTask => called'[t] = called[t] /\ finished'[t] = finished[t]
        /\ finished'[pTask] =< 1
        /\ finished'[pTask] = 1 => called'[pTask] > 0
        /\ pTask \in m_mapRetryCBNotify' => finished'[pTask] = 0
        /\ pTask \in HasCallback => called'[pTask] > 0 \/ pTask \in m_mapRetryCBNotify'
    <2>1. CASE NotifyThread(pTask)
      BY <1>3, <1>4, <1>5, <2>1 DEF NotifyThread, CallBack, Finish, IInv, TypeOK
    <2>2. CASE NotifyNobody(pTask)
      BY <1>3, <1>4, <1>5, <2>2 DEF NotifyNobody, notes, IInv, TypeOK
    <2>3. CASE NotifyWindow(pTask)
      <3>1. m_mapRetryCBNotify \subseteq Tasks /\ bPostRet \in BOOLEAN /\ bDelete \in BOOLEAN
        BY DEF IInv, TypeOK
      <3>2. \/ called' = [called EXCEPT ![pTask] = @ + 1] /\ bPostRet' \in BOOLEAN
            \/ called' = called /\ bPostRet' = FALSE
        BY <2>3, <3>1 DEF NotifyWindow, CallBack
      <3>3. /\ called' \in [Tasks -> Nat]
            /\ \A t \in Tasks : t # pTask => called'[t] = called[t]
            /\ bPostRet' \in BOOLEAN
            /\ bPostRet' => called'[pTask] > 0
        <4>1. CASE called' = [called EXCEPT ![pTask] = @ + 1] /\ bPostRet' \in BOOLEAN
          BY <1>3, <1>5, <4>1
        <4>2. CASE called' = called /\ bPostRet' = FALSE
          BY <1>5, <4>2
        <4> QED BY <3>2, <4>1, <4>2
      <3>4. CASE bPostRet'
        <4>1. /\ finished' = [finished EXCEPT ![pTask] = @ + 1]
              /\ m_mapRetryCBNotify' = m_mapRetryCBNotify /\ bDelete' = bDelete
          BY <2>3, <3>4 DEF NotifyWindow, Finish
        <4> QED BY <1>3, <1>4, <1>5, <3>1, <3>3, <3>4, <4>1
      <3>5. CASE ~bPostRet'
        <4>1. /\ m_mapRetryCBNotify' = m_mapRetryCBNotify \cup {pTask}
              /\ bDelete' = FALSE /\ finished' = finished
          BY <2>3, <3>5 DEF NotifyWindow, Defer
        <4>2. pTask \in m_mapRetryCBNotify'
          BY <4>1
        <4>3. finished'[pTask] = 0 /\ finished' \in [Tasks -> Nat]
          BY <1>5, <4>1
        <4>4. \A t \in Tasks : t # pTask => called'[t] = called[t] /\ finished'[t] = finished[t]
          BY <3>3, <4>1
        <4>5. m_mapRetryCBNotify' \subseteq m_mapRetryCBNotify \cup {pTask}
          BY <4>1
        <4>6. m_mapRetryCBNotify \subseteq m_mapRetryCBNotify'
          BY <4>1
        <4>7. ~bDelete' /\ bDelete' \in BOOLEAN
          BY <4>1
        <4>8. finished'[pTask] =< 1 /\ finished'[pTask] # 1
          BY <4>3
        <4> QED BY <3>3, <4>2, <4>3, <4>4, <4>5, <4>6, <4>7, <4>8
      <3> QED BY <3>4, <3>5
    <2> QED BY <1>1, <2>1, <2>2, <2>3
  <1>7. TypeOK'
    <2>1. LocksHeld'
      BY <1>1 DEF IInv, TypeOK, LocksHeld, Walks, locks, calls
    <2>2. wpc' \in WorkerPC /\ m_mapRetryCBNotify' \subseteq Tasks
      BY <1>1, <1>3, <1>6 DEF WorkerPC, IInv, TypeOK
    <2> QED BY <1>1, <1>6, <2>1, <2>2 DEF IInv, TypeOK, lists, locks, calls, fate
  <1>8. Calls'
    BY <1>1, <1>2 DEF IInv, Calls, calls, fate
  <1>9. Order'
    BY <1>1, <1>2 DEF IInv, Order, Increasing, lists, fate
  <1>10. Iterator'
    BY <1>1, <1>3 DEF IInv, Iterator, AtFirst, TypeOK, lists
  <1>11. Fate'
    BY <1>1, <1>6 DEF IInv, Fate, Erasing, fate
  <1>12. Notes'
    BY <1>1, <1>4, <1>6 DEF IInv, Notes, Erasing, fate
  <1>13. RunInOrder' /\ OnlyKnownFaults'
    BY <1>1, <1>2 DEF IInv, RunInOrder, OnlyKnownFaults, fate
  <1>14. OnePlace'
    BY <1>1, <1>2, <1>3, <1>6 DEF IInv, OnePlace, lists, fate
  <1> QED BY <1>7, <1>8, <1>9, <1>10, <1>11, <1>12, <1>13, <1>14 DEF IInv

LEMMA RetryKeepsIInv ==
    ASSUME IInv, RetryCBNotify
    PROVE  IInv'
  <1> USE IdleThreadAssumption
  <1>1. PICK sent \in SUBSET m_mapRetryCBNotify :
            /\ m_mapRetryCBNotify' = m_mapRetryCBNotify \ sent
            /\ called' = [t \in Tasks |-> called[t] + IF t \in sent THEN 1 ELSE 0]
            /\ finished' = [t \in Tasks |-> finished[t] + IF t \in sent THEN 1 ELSE 0]
            /\ freed' = freed \cup sent
    BY DEF RetryCBNotify
  <1>2. /\ UNCHANGED <<lists, locks, local, calls, fate, stopping, undefined>>
        /\ wpc = "retry" /\ wpc' = "entry" /\ ~undefined
    BY DEF RetryCBNotify, At
  <1>3. /\ TmpSet' = TmpSet /\ TaskSet' = TaskSet /\ Accepted' = Accepted
        /\ Queued' = Queued
    BY <1>2 DEF TmpSet, TaskSet, Accepted, Queued, lists, fate
  <1>4. /\ sent \subseteq done /\ sent \subseteq Tasks /\ sent \cap Queued = {}
        /\ sent \subseteq Accepted
    BY <1>2 DEF IInv, Fate, Erasing, TypeOK, OnePlace, Order
  <1>5. /\ called \in [Tasks -> Nat] /\ finished \in [Tasks -> Nat]
        /\ called' \in [Tasks -> Nat] /\ finished' \in [Tasks -> Nat]
        /\ \A t \in Tasks : t \in sent =>
               called'[t] = called[t] + 1 /\ finished'[t] = 1
        /\ \A t \in Tasks : t \notin sent => called'[t] = called[t] /\ finished'[t] = finished[t]
    <2>1. /\ called \in [Tasks -> Nat] /\ finished \in [Tasks -> Nat]
          /\ \A t \in Tasks : t \in sent => finished[t] = 0
      BY DEF IInv, TypeOK, Notes
    <2>2. /\ \A t \in Tasks : t \in sent =>
                 called'[t] = called[t] + 1 /\ finished'[t] = finished[t] + 1
          /\ \A t \in Tasks : t \notin sent =>
                 called'[t] = called[t] + 0 /\ finished'[t] = finished[t] + 0
      BY <1>1
    <2>3. called' \in [Tasks -> Nat] /\ finished' \in [Tasks -> Nat]
      <3>1. \A t \in Tasks : called[t] + (IF t \in sent THEN 1 ELSE 0) \in Nat
        BY <2>1
      <3>2. \A t \in Tasks : finished[t] + (IF t \in sent THEN 1 ELSE 0) \in Nat
        BY <2>1
      <3> QED BY <1>1, <3>1, <3>2
    <2> QED BY <2>1, <2>2, <2>3
  <1>6. TypeOK'
    <2>1. LocksHeld'
      BY <1>2 DEF IInv, TypeOK, LocksHeld, Walks, locks, calls
    <2>2. wpc' \in WorkerPC /\ m_mapRetryCBNotify' \subseteq Tasks /\ freed' \subseteq Tasks
      BY <1>1, <1>2, <1>4 DEF WorkerPC, IInv, TypeOK
    <2> QED BY <1>2, <1>5, <2>1, <2>2 DEF IInv, TypeOK, lists, locks, local, calls, fate
  <1>7. Calls'
    BY <1>2, <1>3 DEF IInv, Calls, calls, fate
  <1>8. Order'
    BY <1>1, <1>2, <1>3, <1>4 DEF IInv, Order, Increasing, lists, fate
  <1>9. Iterator' /\ Fate'
    BY <1>1, <1>2 DEF IInv, Iterator, Fate, Erasing, local, fate
  <1>10. Notes'
    BY <1>1, <1>2, <1>4, <1>5 DEF IInv, Notes, Erasing, fate, local
  <1>11. RunInOrder' /\ OnlyKnownFaults'
    BY <1>2, <1>3 DEF IInv, RunInOrder, OnlyKnownFaults, fate
  <1>12. OnePlace'
    BY <1>1, <1>2, <1>3, <1>4 DEF IInv, OnePlace, lists, fate
  <1> QED BY <1>6, <1>7, <1>8, <1>9, <1>10, <1>11, <1>12 DEF IInv

(* The destructor, and the step that ends the model.                         *)
LEMMA EndsKeepIInv ==
    ASSUME IInv, Quitting, Stop \/ Destroy \/ GoesWrong \/ UNCHANGED vars
    PROVE  IInv'
  <1> USE IdleThreadAssumption
  <1>1. CASE Stop
    <2>1. /\ UNCHANGED <<lists, locks, wpc, local, calls, notes, fate, freed, undefined>>
          /\ stopping' \in BOOLEAN /\ ~undefined
      BY <1>1 DEF Stop
    <2>2. /\ TmpSet' = TmpSet /\ TaskSet' = TaskSet /\ Accepted' = Accepted
          /\ Order' /\ Iterator' /\ Fate' /\ Notes'
          /\ RunInOrder' /\ OnePlace' /\ OnlyKnownFaults'
      BY <2>1, CallsMoveOnly DEF fate
    <2>3. TypeOK'
      BY <2>1 DEF IInv, TypeOK, LocksHeld, Walks, lists, locks, local, calls, notes, fate
    <2>4. Calls'
      BY <2>1, <2>2 DEF IInv, Calls, calls, fate
    <2> QED BY <2>2, <2>3, <2>4 DEF IInv
  <1>2. CASE Destroy
    <2>1. /\ wpc = "exited" /\ wpc' = "gone" /\ freed' = freed \cup Queued
          /\ m_lstTmpTasks' = <<>> /\ m_lstTasks' = <<>> /\ ~undefined
          /\ UNCHANGED <<locks, local, calls, notes, fate, stopping, undefined>>
      BY <1>2 DEF Destroy, At
    <2>2. /\ m_lstTmpTasks' \in Seq(Tasks) /\ m_lstTasks' \in Seq(Tasks)
          /\ Len(m_lstTasks') = 0
          /\ DOMAIN m_lstTmpTasks' = {} /\ DOMAIN m_lstTasks' = {}
          /\ TmpSet' = {} /\ TaskSet' = {} /\ Queued' = {} /\ Accepted' = Accepted
      BY <2>1, EmptySeq DEF TmpSet, TaskSet, Queued, Accepted, ToSet, fate
    <2>3. Queued \cap m_mapRetryCBNotify = {} /\ Queued \subseteq Tasks /\ Queued \subseteq Accepted
      BY <2>1 DEF IInv, Fate, Erasing, OnePlace, Order, Accepted
    <2>4. TypeOK'
      <3>1. LocksHeld'
        BY <2>1 DEF IInv, TypeOK, LocksHeld, Walks, locks, calls
      <3>2. wpc' \in WorkerPC /\ freed' \subseteq Tasks /\ Len(m_lstTasks') =< MaxRunList
        BY <2>1, <2>2, <2>3 DEF IInv, TypeOK, WorkerPC
      <3> QED BY <2>1, <2>2, <3>1, <3>2 DEF IInv, TypeOK, locks, local, calls, notes, fate
    <2>5. Calls'
      BY <2>1, <2>2 DEF IInv, Calls, calls, fate
    <2>6. Order'
      BY <2>1, <2>2, <2>3 DEF IInv, Order, Increasing, fate
    <2>7. Iterator' /\ Fate' /\ Notes'
      BY <2>1 DEF IInv, Iterator, Fate, Notes, Erasing, local, notes, fate
    <2>8. RunInOrder' /\ OnlyKnownFaults'
      BY <2>1, <2>2 DEF IInv, RunInOrder, OnlyKnownFaults
    <2>9. OnePlace'
      BY <2>1, <2>2, <2>3 DEF IInv, OnePlace, notes
    <2> QED BY <2>4, <2>5, <2>6, <2>7, <2>8, <2>9 DEF IInv
  <1>3. CASE GoesWrong \/ UNCHANGED vars
    <2>1. /\ UNCHANGED <<lists, locks, wpc, local, calls, notes, fate, stopping, freed>>
          /\ undefined' \in BOOLEAN
          /\ undefined' => \/ undefined \/ Race \/ DanglingNode \/ DanglingTask
                            \/ \E th \in Threads : ReadsFreed(th)
      <3>1. CASE GoesWrong
        BY <3>1 DEF GoesWrong
      <3>2. CASE UNCHANGED vars
        BY <3>2 DEF vars, IInv, TypeOK
      <3> QED BY <1>3, <3>1, <3>2
    <2> USE <2>1 DEF IInv, lists, locks, local, calls, notes, fate
    <2>2. /\ TmpSet' = TmpSet /\ TaskSet' = TaskSet /\ Accepted' = Accepted
      BY DEF TmpSet, TaskSet, Accepted
    <2>3. TypeOK' /\ Calls'
      BY <2>2 DEF TypeOK, LocksHeld, Walks, Calls
    <2>4. Order' /\ Iterator' /\ Fate' /\ Notes'
      BY <2>2 DEF Order, Increasing, Queued, Iterator, AtFirst, Fate, Notes, Erasing
    <2>5. RunInOrder' /\ OnePlace'
      BY <2>2 DEF RunInOrder, OnePlace, Queued
    <2>6. OnlyKnownFaults'
      <3>1. m_lstTasks # <<>> => m_lstTasks[1] \in TaskSet
        BY ElementsOfList, LenProperties, EmptySeq, SMTT(40) DEF TypeOK, TaskSet
      <3>2. DanglingNode => it \in cancelled
        BY <3>1 DEF DanglingNode, Iterator, AtFirst
      <3>3. DanglingTask => it \in cancelled
        BY <3>1 DEF DanglingTask, Iterator, AtFirst, OnePlace, Queued
      <3>4. Race' <=> Race
        BY <2>2 DEF Race, Room, Walks
      <3>5. ASSUME NEW th \in Threads, ReadsFreed(th)
            PROVE  cpc[th] = "dump" /\ ctask[th] \in done \cup cancelled
        <4>1. cpc[th] = "dump" /\ ctask[th] \in Accepted /\ ctask[th] \notin Queued
          BY <3>5 DEF ReadsFreed, Calls, OnePlace
        <4>2. wpc # "gone"
          BY <4>1 DEF Quitting, TypeOK, LocksHeld, Threads
        <4> QED BY <4>1, <4>2 DEF OnePlace
      <3> QED BY <3>2, <3>3, <3>4, <3>5 DEF OnlyKnownFaults
    <2> QED BY <2>3, <2>4, <2>5, <2>6
  <1> QED BY <1>1, <1>2, <1>3

LEMMA Inductive == IInv /\ Quitting /\ [Next]_vars => IInv'
  <1> SUFFICES ASSUME IInv, Quitting, [Next]_vars
               PROVE  IInv'
    OBVIOUS
  <1>1. ASSUME NEW th \in Threads, Submit(th) \/ CallStep(th)
        PROVE  IInv'
    BY <1>1, SubmitKeepsIInv, ScansKeepIInv, PushKeepsIInv, CancelTmpKeepsIInv,
       CancelTasksKeepsIInv DEF CallStep
  <1>2. ASSUME WorkerStep
        PROVE  IInv'
    BY <1>2, PassKeepsIInv, MoveKeepsIInv, LockTasksKeepsIInv, NotifyKeepsIInv,
       EraseKeepsIInv, RetryKeepsIInv DEF WorkerStep
  <1> QED BY <1>1, <1>2, EndsKeepIInv DEF Next

(* The destructor waits for the calls of the callers, which make no more.    *)
LEMMA QuittingIsKept == Quitting /\ [Next]_vars => Quitting'
  <1> SUFFICES ASSUME Quitting, [Next]_vars
               PROVE  Quitting'
    OBVIOUS
  <1> USE IdleThreadAssumption DEF Quitting
  <1>1. ASSUME NEW th \in Threads, Submit(th) \/ CallStep(th)
        PROVE  Quitting'
    <2>1. UNCHANGED <<wpc, stopping>>
      BY <1>1 DEF Submit, CallRunTask, CallCancelTask, CallStep, ScanTmp, ScanLock,
                  ScanTasks, PushTmp, DumpTask, CancelTmp, CancelLock, CancelTasks
    <2>2. \E pc \in CallPC : cpc' = [cpc EXCEPT ![th] = pc]
      BY <1>1 DEF Submit, CallRunTask, CallCancelTask, CallStep, ScanTmp, ScanLock,
                  ScanTasks, PushTmp, DumpTask, CancelTmp, CancelLock, CancelTasks,
                  Goto, Return, CallPC
    <2>3. th \in Callers => ~stopping
      BY <1>1 DEF Submit, CallRunTask, CallCancelTask, MayCall, CallStep, ScanTmp,
                  ScanLock, ScanTasks, PushTmp, DumpTask, CancelTmp, CancelLock,
                  CancelTasks, InCall
    <2> QED BY <2>1, <2>2, <2>3 DEF Threads
  <1>2. ASSUME WorkerStep
        PROVE  Quitting'
    BY <1>2 DEF WorkerStep, LockTmpTasks, MoveTask, UnlockTmpTasks, BeginPass, LockTasks,
                HandlerReturns, Notify, EraseTask, EndPass, RetryCBNotify, Quit, At, calls
  <1>3. ASSUME Stop \/ Destroy \/ GoesWrong \/ UNCHANGED vars
        PROVE  Quitting'
    BY <1>3 DEF Stop, Destroy, GoesWrong, At, vars, calls
  <1> QED BY <1>1, <1>2, <1>3 DEF Next

LEMMA Invariance == Spec => [](IInv /\ Quitting)
  <1>1. Init => Quitting
    BY DEF Init, Quitting, CallPC
  <1> QED BY <1>1, InitIInv, Inductive, QuittingIsKept, PTL DEF Spec
-----------------------------------------------------------------------------
(* The variables keep their types, m_lstTasks holds at most MaxRunList       *)
(* tasks, and which thread holds which mutex follows from where it is.       *)
THEOREM IdleThreadIsTyped == Spec => []TypeOK
  BY Invariance, PTL DEF IInv

(* OnExecute runs the tasks in the order in which RunTask accepted them,     *)
(* whatever is cancelled in between (143-238).                               *)
THEOREM TasksRunInOrder == Spec => []RunInOrder
  BY Invariance, PTL DEF IInv

(* An accepted task is in one list once, or was run, or was cancelled, and   *)
(* nothing in a list or in the retry map has been deleted.                   *)
THEOREM TaskHasOnePlace == Spec => []OnePlace
  BY Invariance, PTL DEF IInv

(* A task the worker is through with was called back or waits for a retry,   *)
(* and WM_TASK_FINISH goes out at most once, after the callback (177-229,    *)
(* 275-281).                                                                 *)
THEOREM CallbackIsKept == Spec => []CallbackNotLost
  <1>1. IInv => CallbackNotLost
    BY DEF IInv, Notes, CallbackNotLost, Erasing
  <1> QED BY <1>1, Invariance, PTL

(* The iterator OnExecute keeps while it holds no lock (160-165) is good      *)
(* until a CancelTask deletes its task; besides, only the push_back at 153    *)
(* that meets a walk of m_lstTasks, and RunTask's read at 308 of a task that  *)
(* was run or cancelled since, have no defined effect.                        *)
THEOREM FaultsAreKnown == Spec => []OnlyKnownFaults
  BY Invariance, PTL DEF IInv

LEMMA OtherStepsReturnNoCancel ==
    ASSUME IInv, [Next]_vars, NEW th \in Threads,
           cpc[th] = "cancelTasks", cpc'[th] = "none"
    PROVE  CancelTasks(th)
  <1>1. ASSUME NEW o \in Threads, Submit(o) \/ CallStep(o)
        PROVE  o = th /\ CancelTasks(th)
    BY <1>1 DEF Submit, CallRunTask, CallCancelTask, MayCall, InCall, CallStep, ScanTmp,
                ScanLock, ScanTasks, PushTmp, DumpTask, CancelTmp, CancelLock,
                CancelTasks, Goto, Return, IInv, TypeOK
  <1>2. ASSUME WorkerStep \/ Stop \/ Destroy \/ GoesWrong \/ UNCHANGED vars
        PROVE  cpc' = cpc
    BY <1>2 DEF WorkerStep, LockTmpTasks, MoveTask, UnlockTmpTasks, BeginPass, LockTasks,
                HandlerReturns, Notify, EraseTask, EndPass, RetryCBNotify, Quit, Stop,
                Destroy, GoesWrong, vars, calls
  <1> QED BY <1>1, <1>2 DEF Next

(* A CancelTask that comes to its end leaves none of the tasks it looked for *)
(* that were accepted before it began, although the worker moves tasks from  *)
(* one list to the other between its two loops (361-403).                    *)
THEOREM CancelMissesNone == Spec => CancelIsThorough
  <1>1. ASSUME IInv, [Next]_vars
        PROVE  [\A th \in Threads :
                   cpc[th] = "cancelTasks" /\ cpc'[th] = "none" =>
                       csel[th] \cap known[th] \cap Queued' = {}]_vars
    BY <1>1, OtherStepsReturnNoCancel, CancelTasksKeepsIInv
  <1> QED BY <1>1, Invariance, PTL DEF Spec, CancelIsThorough
=============================================================================
