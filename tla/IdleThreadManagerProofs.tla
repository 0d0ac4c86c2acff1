------------------------ MODULE IdleThreadManagerProofs ------------------------
(***************************************************************************)
(* The safety invariants of IdleThreadManager hold for every set of tasks  *)
(* and callers, every number of threads a pool may have and every other    *)
(* pool.  IInv adds to them what a call has found so far in its search for *)
(* an equal task, and where the indices it uses come from.                 *)
(***************************************************************************)
EXTENDS IdleThreadManager, BasicLemmas

CallState ==
    [pc : CallPC, task : Tasks \cup {None}, index : Threads \cup {-1}, i : 0..4,
     inner : BOOLEAN, best : Threads, load : Nat, known : SUBSET Tasks]

(* The actor holds the mutex of the map in CancelTask without an index.      *)
Mutex(a) ==
    /\ m_mtxTaskThreadMap = a <=>
           call[a].pc \in {"cancelTmp", "cancelTasks"} /\ call[a].index = -1
    /\ call[a].pc = "lockMap" => call[a].index = -1

(* Where RunTask searches: all threads, or the one it has chosen.            *)
Scans == {"scanTmp", "scanTasks"}
Outer(a) == call[a].pc \in Scans /\ ~call[a].inner
Chosen(a) == call[a].pc \in {"enter", "push"} \/ (call[a].pc \in Scans /\ call[a].inner)
Cleared(a) == call[a].pc \in {"load", "choose"} \/ Chosen(a)
Pending(a) == Outer(a) \/ Cleared(a)

(* The argument of a RunTask before its push has not been pushed, and what   *)
(* the call knows of has.                                                    *)
Argument(a) ==
    /\ Pending(a) => call[a].task \in submitted \ accepted
    /\ call[a].known \subseteq accepted

NoEqual(a, S) == \A u \in S \cap call[a].known : <<call[a].task, u>> \notin Same

(* No task the call knew of and found no match with can come before where    *)
(* its search is: the worker moves tasks only forward.                       *)
Searched(a) ==
    (call[a].index = -1 /\ call[a].task \in KeepSingle) =>
        /\ Outer(a) => \A j \in Threads : j < call[a].i => NoEqual(a, Waiting(j))
        /\ (call[a].pc = "scanTasks" /\ Outer(a)) =>
               (call[a].i \in Threads => NoEqual(a, ToSet(m_lstTmpTasks[call[a].i])))
        /\ Cleared(a) => \A j \in Threads : NoEqual(a, Waiting(j))

(* An index is one of the pool's, unless another pool has stored one of more. *)
Stranger == foreign > 0 /\ OtherNums > m_nThreadNums
UsesThread(a) == call[a].pc \in Scans \cup {"load", "push", "cancelTmp", "cancelTasks"}

Index(a) ==
    /\ (Chosen(a) \/ call[a].pc = "file") =>
           (call[a].index # -1 \/ s_nLastThreadIndex # -1)
    /\ UsesThread(a) => (call[a].i \in Threads \/ Stranger)

Ended(a) == (closing /\ a \in Callers) => call[a].pc = "none"

Actor(a) == Mutex(a) /\ Argument(a) /\ Searched(a) /\ Index(a) /\ Ended(a)

(* What the actors share.                                                    *)
Typed ==
    /\ m_lstTmpTasks \in [Threads -> Seq(Tasks)]
    /\ m_lstTasks \in [Threads -> Seq(Tasks)]
    /\ wpc \in [Threads -> WorkerPC]
    /\ inbox \subseteq Tasks
    /\ DOMAIN m_mapTaskThreadMap \subseteq Tasks \cup {NoID}
    /\ \A id \in DOMAIN m_mapTaskThreadMap : m_mapTaskThreadMap[id] \in 0..4
    /\ m_mtxTaskThreadMap \in Actors \cup {None}
    /\ s_nLastThreadIndex \in -1..4
    /\ foreign \in 0..MaxForeign
    /\ closing \in BOOLEAN
    /\ undefined \in BOOLEAN
    /\ accepted \subseteq submitted
    /\ submitted \subseteq Tasks

Indices ==
    /\ s_nLastThreadIndex \in Threads \cup {-1} \/ Stranger
    /\ \A id \in DOMAIN m_mapTaskThreadMap :
           m_mapTaskThreadMap[id] \in Threads \/ Stranger

(* A thread is deleted by the destructor, and runs a handler of a task.      *)
Workers ==
    /\ \A i \in Threads : wpc[i] = "gone" => closing
    /\ \A i \in Threads : Busy(i) => m_lstTasks[i] # <<>>

Shared == Typed /\ Indices /\ Workers

(* No task is the argument of two calls.                                     *)
Apart ==
    \A a, b \in Actors :
        (Pending(a) /\ Pending(b) /\ call[a].task = call[b].task) => a = b

IInv ==
    /\ Shared
    /\ call \in [Actors -> CallState]
    /\ \A a \in Actors : Actor(a)
    /\ Apart
-----------------------------------------------------------------------------
(* Constants and first states.                                               *)
LEMMA ThreadFacts ==
    /\ m_nThreadNums \in Nat
    /\ 0 \in Threads
    /\ Threads \subseteq 0..4
    /\ Threads \subseteq Int
    /\ -1 \notin Threads
    /\ None \notin Actors
    /\ Threads \subseteq Actors
    /\ Callers \subseteq Actors
  BY IdleThreadManagerAssumption DEF Threads, Actors

LEMMA QuietIsTyped == Quiet \in CallState
  BY ThreadFacts DEF Quiet, CallState, CallPC

LEMMA InvGivesTypes == IInv => TypeOK
  <1> SUFFICES ASSUME IInv
               PROVE  TypeOK
    OBVIOUS
  <1>1. DOMAIN call = Actors
    BY DEF IInv
  <1>2. ASSUME NEW a \in Actors
        PROVE  /\ call[a].pc \in CallPC
               /\ call[a].task \in Tasks \cup {None}
               /\ call[a].index \in Threads \cup {-1}
               /\ call[a].i \in 0..4
               /\ call[a].best \in Threads
               /\ call[a].load \in Nat
    <2>1. call[a] \in CallState
      BY DEF IInv
    <2> QED BY <2>1 DEF CallState
  <1>3. \A a \in Actors : Mutex(a)
    BY DEF IInv, Actor
  <1> QED BY <1>1, <1>2, <1>3 DEF IInv, Shared, Typed, TypeOK, Mutex

LEMMA InvGivesSingle == IInv => SingleAmongKnown
  <1> SUFFICES ASSUME IInv,
                      NEW a \in Actors, At(a, "push"), call[a].index = -1,
                      call[a].task \in KeepSingle,
                      NEW i \in Threads, NEW u \in Waiting(i) \cap call[a].known
               PROVE  <<call[a].task, u>> \notin Same
    BY DEF SingleAmongKnown
  <1>1. Cleared(a)
    BY DEF At, Cleared, Chosen
  <1>2. NoEqual(a, Waiting(i))
    BY <1>1 DEF IInv, Actor, Searched
  <1> QED BY <1>2 DEF NoEqual

LEMMA InvGivesStrangers == IInv => OnlyStrangersGoWrong
  <1> SUFFICES ASSUME IInv, NEW a \in Actors, ~Sound(a)
               PROVE  Stranger \/ (closing /\ a \in Threads)
    BY DEF OnlyStrangersGoWrong, Stranger
  <1>1. PICK i \in Reach(a) : i \notin Threads \/ wpc[i] = "gone"
    BY DEF Sound
  <1>2. Index(a) /\ Ended(a)
    BY DEF IInv, Actor
  <1>3. a \in Callers => ~closing \/ call[a].pc = "none"
    BY <1>2 DEF Ended
  <1>4. call[a].pc # "none"
    BY <1>1 DEF Reach
  <1>5. i \in Threads \/ Stranger
    <2>1. call[a] \in CallState /\ Indices
      BY DEF IInv, Shared
    <2>2. call[a].index \in Threads \cup {-1}
      BY <2>1 DEF CallState
    <2>3. CASE call[a].pc = "enter"
      <3>1. i = Target(a)
        BY <1>1, <2>3 DEF Reach
      <3>2. call[a].index # -1 \/ s_nLastThreadIndex # -1
        BY <1>2, <2>3 DEF Index, Chosen
      <3> QED BY <2>1, <2>2, <3>1, <3>2 DEF Target, Indices
    <2>4. CASE call[a].pc # "enter"
      <3>1. i = call[a].i /\ UsesThread(a)
        BY <1>1, <2>4 DEF Reach, UsesThread, Scans
      <3> QED BY <1>2, <3>1 DEF Index
    <2> QED BY <2>3, <2>4
  <1>6. i \in Threads /\ wpc[i] = "gone" => closing
    BY DEF IInv, Shared, Workers
  <1> QED BY <1>1, <1>3, <1>4, <1>5, <1>6 DEF Actors

LEMMA InvAtStart == Init => IInv
  <1> SUFFICES ASSUME Init
               PROVE  IInv
    OBVIOUS
  <1>1. call \in [Actors -> CallState] /\ \A a \in Actors : call[a] = Quiet
    BY QuietIsTyped DEF Init
  <1>2. Typed
    <2>1. <<>> \in Seq(Tasks)
      BY EmptySeq
    <2>2. m_mapTaskThreadMap = <<>> /\ DOMAIN m_mapTaskThreadMap = {}
      BY DEF Init
    <2>3. 0 \in 0..MaxForeign
      BY IdleThreadManagerAssumption
    <2>4. /\ m_lstTmpTasks \in [Threads -> Seq(Tasks)]
          /\ m_lstTasks \in [Threads -> Seq(Tasks)]
          /\ wpc \in [Threads -> WorkerPC]
      BY <2>1 DEF Init, WorkerPC
    <2>5. /\ m_mtxTaskThreadMap = None
          /\ s_nLastThreadIndex = -1
          /\ closing = FALSE
          /\ undefined = FALSE
      BY DEF Init
    <2>6. DOMAIN m_mapTaskThreadMap = {}
      BY <2>2
    <2>7. inbox = {} /\ foreign = 0 /\ accepted = {} /\ submitted = {}
      BY DEF Init
    <2>8. -1 \in -1..4
      OBVIOUS
    <2>9. /\ m_mtxTaskThreadMap \in Actors \cup {None}
          /\ closing \in BOOLEAN
          /\ undefined \in BOOLEAN
      BY <2>5
    <2>10. /\ inbox \subseteq Tasks
           /\ foreign \in 0..MaxForeign
           /\ accepted \subseteq submitted
           /\ submitted \subseteq Tasks
      BY <2>3, <2>7
    <2> QED BY <2>4, <2>5, <2>6, <2>8, <2>9, <2>10 DEF Typed
  <1>3. Indices /\ Workers
    BY DEF Init, Indices, Workers, Busy
  <1>4. ASSUME NEW a \in Actors
        PROVE  Actor(a) /\ ~Pending(a)
    <2>1. call[a].pc = "none" /\ call[a].known = {}
      BY <1>1 DEF Quiet
    <2>2. m_mtxTaskThreadMap # a
      BY ThreadFacts DEF Init
    <2> QED BY <2>1, <2>2
            DEF Actor, Mutex, Argument, Searched, Index, Ended, Pending, Outer, Cleared,
                Chosen, Scans, UsesThread
  <1> QED BY <1>1, <1>2, <1>3, <1>4 DEF IInv, Shared, Apart
-----------------------------------------------------------------------------
(* The actors that do not move.  Kept: what they read changes only to their  *)
(* good.                                                                     *)
ListsKept ==
    \A j \in Threads :
        /\ Waiting(j)' \cap accepted \subseteq Waiting(j)
        /\ ToSet(m_lstTmpTasks[j])' \cap accepted \subseteq ToSet(m_lstTmpTasks[j])

Kept(a) ==
    /\ call'[a] = call[a]
    /\ accepted \subseteq accepted'
    /\ submitted \subseteq submitted'
    /\ Pending(a) => call[a].task \notin accepted'
    /\ m_mtxTaskThreadMap' = a <=> m_mtxTaskThreadMap = a
    /\ s_nLastThreadIndex # -1 => s_nLastThreadIndex' # -1
    /\ Stranger => Stranger'
    /\ (closing' /\ a \in Callers) => closing \/ call[a].pc = "none"

LEMMA SameLists ==
    ASSUME UNCHANGED <<m_lstTmpTasks, m_lstTasks>>
    PROVE  ListsKept
  BY DEF ListsKept, Waiting

LEMMA ActorKept ==
    ASSUME IInv, NEW a \in Actors, Kept(a), ListsKept
    PROVE  Actor(a)' /\ (Pending(a)' <=> Pending(a))
  <1>1. call'[a] = call[a] /\ call[a] \in CallState /\ Actor(a)
    BY DEF Kept, IInv
  <1>2. /\ Pending(a)' <=> Pending(a)
        /\ Outer(a)' <=> Outer(a)
        /\ Cleared(a)' <=> Cleared(a)
        /\ Chosen(a)' <=> Chosen(a)
        /\ UsesThread(a)' <=> UsesThread(a)
    BY <1>1 DEF Pending, Outer, Cleared, Chosen, UsesThread
  <1>3. Mutex(a)'
    BY <1>1 DEF Kept, Actor, Mutex
  <1>4. Argument(a)'
    BY <1>1, <1>2 DEF Kept, Actor, Argument
  <1>5. Searched(a)'
    <2>1. ASSUME NEW S, NEW T, NoEqual(a, S), T \cap accepted \subseteq S
          PROVE  \A u \in T \cap call[a].known : <<call[a].task, u>> \notin Same
      BY <1>1, <2>1 DEF NoEqual, Actor, Argument
    <2> SUFFICES ASSUME call[a].index = -1, call[a].task \in KeepSingle
                 PROVE  /\ Outer(a) => \A j \in Threads : j < call[a].i =>
                                           NoEqual(a, Waiting(j))'
                        /\ (call[a].pc = "scanTasks" /\ Outer(a)) =>
                               (call[a].i \in Threads =>
                                    NoEqual(a, ToSet(m_lstTmpTasks[call[a].i]))')
                        /\ Cleared(a) => \A j \in Threads : NoEqual(a, Waiting(j))'
      BY <1>1, <1>2 DEF Searched
    <2>2. ASSUME NEW j \in Threads, NoEqual(a, Waiting(j))
          PROVE  NoEqual(a, Waiting(j))'
      <3>1. Waiting(j)' \cap accepted \subseteq Waiting(j)
        BY DEF ListsKept
      <3> QED BY <1>1, <2>1, <2>2, <3>1 DEF NoEqual
    <2>3. ASSUME NEW j \in Threads, NoEqual(a, ToSet(m_lstTmpTasks[j]))
          PROVE  NoEqual(a, ToSet(m_lstTmpTasks[j]))'
      <3>1. ToSet(m_lstTmpTasks[j])' \cap accepted \subseteq ToSet(m_lstTmpTasks[j])
        BY DEF ListsKept
      <3> QED BY <1>1, <2>1, <2>3, <3>1 DEF NoEqual
    <2>4. Searched(a)
      BY <1>1 DEF Actor
    <2>5. Outer(a) => \A j \in Threads : j < call[a].i => NoEqual(a, Waiting(j))'
      BY <2>2, <2>4 DEF Searched
    <2>6. ASSUME call[a].pc = "scanTasks", Outer(a), call[a].i \in Threads
          PROVE  NoEqual(a, ToSet(m_lstTmpTasks[call[a].i]))'
      <3>1. NoEqual(a, ToSet(m_lstTmpTasks[call[a].i]))
        BY <2>4, <2>6 DEF Searched
      <3> QED BY <1>1, <2>3, <2>6, <3>1
    <2>7. Cleared(a) => \A j \in Threads : NoEqual(a, Waiting(j))'
      BY <2>2, <2>4 DEF Searched
    <2> QED BY <2>5, <2>6, <2>7
  <1>6. Index(a)'
    BY <1>1, <1>2 DEF Kept, Actor, Index
  <1>7. Ended(a)'
    BY <1>1 DEF Kept, Actor, Ended
  <1> QED BY <1>2, <1>3, <1>4, <1>5, <1>6, <1>7 DEF Actor

(* A step of no call.                                                        *)
LEMMA NoCallMoves ==
    ASSUME IInv, UNCHANGED call, ListsKept, \A a \in Actors : Kept(a), Shared'
    PROVE  IInv'
  <1>1. \A a \in Actors : Actor(a)' /\ (Pending(a)' <=> Pending(a)) /\ call'[a] = call[a]
    BY ActorKept
  <1>2. Apart'
    BY <1>1 DEF IInv, Apart
  <1>3. call' \in [Actors -> CallState]
    BY DEF IInv
  <1> QED BY <1>1, <1>2, <1>3 DEF IInv

(* A step of one call, which goes on with its argument or begins with one    *)
(* that no other call has.                                                   *)
LEMMA OneCallMoves ==
    ASSUME IInv, NEW a \in Actors,
           call' \in [Actors -> CallState],
           ListsKept, \A b \in Actors \ {a} : Kept(b), Shared',
           Actor(a)',
           Pending(a)' => \/ Pending(a) /\ call'[a].task = call[a].task
                          \/ call'[a].task \notin submitted
    PROVE  IInv'
  <1>1. \A b \in Actors \ {a} :
            Actor(b)' /\ (Pending(b)' <=> Pending(b)) /\ call'[b].task = call[b].task
    BY ActorKept DEF Kept
  <1>2. \A b \in Actors : Actor(b)'
    BY <1>1
  <1>3. Apart'
    <2> SUFFICES ASSUME NEW b \in Actors, NEW c \in Actors, b # c,
                        Pending(b)', Pending(c)', call'[b].task = call'[c].task
                 PROVE  FALSE
      BY DEF Apart
    <2>1. \A d \in Actors : Pending(d) => call[d].task \in submitted
      BY DEF IInv, Actor, Argument
    <2>2. Apart
      BY DEF IInv
    <2>3. CASE b # a /\ c # a
      BY <1>1, <2>2, <2>3 DEF Apart
    <2>4. CASE b = a
      BY <1>1, <2>1, <2>2, <2>4 DEF Apart
    <2>5. CASE c = a
      BY <1>1, <2>1, <2>2, <2>5 DEF Apart
    <2> QED BY <2>3, <2>4, <2>5
  <1> QED BY <1>2, <1>3 DEF IInv

(* The invariant of a step that leaves all but the calls alone.              *)
LEMMA SharedKept ==
    ASSUME IInv,
           UNCHANGED <<threads, map, s_nLastThreadIndex, foreign, closing, undefined>>,
           accepted' \subseteq submitted', submitted' \subseteq Tasks
    PROVE  Shared'
  <1>1. Shared
    BY DEF IInv
  <1>2. Typed'
    BY <1>1 DEF Shared, Typed, threads, map
  <1>3. Indices' /\ Workers'
    BY <1>1 DEF Shared, Indices, Stranger, Workers, Busy, threads, map
  <1> QED BY <1>2, <1>3 DEF Shared

(* A call is a function of the actor: what a step makes of it.               *)
LEMMA CallBecomes ==
    ASSUME IInv, NEW a \in Actors, NEW c \in CallState, call' = [call EXCEPT ![a] = c]
    PROVE  /\ call' \in [Actors -> CallState]
           /\ call'[a] = c
           /\ \A b \in Actors \ {a} : call'[b] = call[b]
  BY DEF IInv
-----------------------------------------------------------------------------
(* Calls that move while all else stays.                                     *)
LEMMA GotoChanges ==
    ASSUME IInv, NEW a \in Actors, NEW pc \in CallPC, Goto(a, pc)
    PROVE  /\ call' \in [Actors -> CallState]
           /\ \A b \in Actors \ {a} : call'[b] = call[b]
           /\ call'[a].pc = pc
           /\ call'[a].task = call[a].task
           /\ call'[a].index = call[a].index
           /\ call'[a].i = call[a].i
           /\ call'[a].inner = call[a].inner
           /\ call'[a].known = call[a].known
  <1>1. call[a] \in CallState
    BY DEF IInv
  <1>2. [call[a] EXCEPT !.pc = pc] \in CallState
    BY <1>1 DEF CallState
  <1>3. call' = [call EXCEPT ![a] = [call[a] EXCEPT !.pc = pc]]
    BY DEF Goto
  <1>4. /\ call' \in [Actors -> CallState]
        /\ call'[a] = [call[a] EXCEPT !.pc = pc]
        /\ \A b \in Actors \ {a} : call'[b] = call[b]
    BY <1>2, <1>3, CallBecomes
  <1> QED BY <1>1, <1>4 DEF CallState

LEMMA ReturnChanges ==
    ASSUME IInv, NEW a \in Actors, Return(a)
    PROVE  /\ call' \in [Actors -> CallState]
           /\ \A b \in Actors \ {a} : call'[b] = call[b]
           /\ call'[a] = Quiet
  BY QuietIsTyped, CallBecomes DEF Return

LEMMA QuietIsFine ==
    ASSUME NEW a \in Actors, call'[a] = Quiet, m_mtxTaskThreadMap' # a
    PROVE  Actor(a)' /\ ~Pending(a)'
  <1>1. call'[a].pc = "none" /\ call'[a].known = {}
    BY DEF Quiet
  <1> QED BY <1>1
          DEF Actor, Mutex, Argument, Searched, Index, Ended, Pending, Outer, Cleared,
              Chosen, Scans, UsesThread

LEMMA OthersKept ==
    ASSUME IInv, NEW a \in Actors, \A b \in Actors \ {a} : call'[b] = call[b],
           UNCHANGED <<m_mtxTaskThreadMap, s_nLastThreadIndex, foreign, closing, submitted,
                       accepted>>
    PROVE  \A b \in Actors \ {a} : Kept(b)
  <1>1. \A b \in Actors : Argument(b)
    BY DEF IInv, Actor
  <1> QED BY <1>1 DEF Kept, Argument, Stranger

LEMMA OnlyCallMoves ==
    ASSUME IInv, NEW a \in Actors,
           call' \in [Actors -> CallState], \A b \in Actors \ {a} : call'[b] = call[b],
           UNCHANGED <<threads, map, s_nLastThreadIndex, foreign, closing, undefined,
                       submitted, accepted>>,
           Actor(a)', Pending(a)' => Pending(a) /\ call'[a].task = call[a].task
    PROVE  IInv'
  <1>1. \A b \in Actors \ {a} : Kept(b)
    BY OthersKept DEF map
  <1>2. ListsKept
    BY SameLists DEF threads
  <1>3. Shared'
    BY SharedKept DEF IInv, Shared, Typed
  <1> QED BY <1>1, <1>2, <1>3, OneCallMoves

(* A search that goes on, and one that has found an equal task.              *)
LEMMA SearchGoesOn ==
    ASSUME IInv, NEW a \in Actors, Pending(a),
           call' \in [Actors -> CallState], \A b \in Actors \ {a} : call'[b] = call[b],
           call'[a].task = call[a].task, call'[a].known = call[a].known,
           UNCHANGED <<threads, map, s_nLastThreadIndex, foreign, closing, undefined,
                       submitted, accepted>>,
           Pending(a)', Searched(a)', Index(a)'
    PROVE  IInv'
  <1>1. Actor(a)
    BY DEF IInv
  <1>2. /\ call[a].pc \notin {"lockMap", "cancelTmp", "cancelTasks", "none"}
        /\ call'[a].pc \notin {"lockMap", "cancelTmp", "cancelTasks", "none"}
    BY DEF Pending, Outer, Cleared, Chosen, Scans
  <1>3. Mutex(a)'
    BY <1>1, <1>2 DEF Actor, Mutex, map
  <1>4. Argument(a)'
    BY <1>1 DEF Actor, Argument
  <1>5. Ended(a)'
    BY <1>1, <1>2 DEF Actor, Ended
  <1>6. Actor(a)'
    BY <1>3, <1>4, <1>5 DEF Actor
  <1> QED BY <1>6, OnlyCallMoves

LEMMA SearchEnds ==
    ASSUME IInv, NEW a \in Actors, call[a].pc \in Scans, Found(a),
           UNCHANGED <<threads, map, s_nLastThreadIndex, foreign, closing, undefined,
                       submitted, accepted>>
    PROVE  IInv'
  <1>1. Actor(a)
    BY DEF IInv
  <1>2. m_mtxTaskThreadMap' # a
    BY <1>1 DEF Actor, Mutex, Scans, map
  <1>3. CASE ~call[a].inner
    <2>1. Return(a)
      BY <1>3 DEF Found
    <2> QED BY <1>2, <2>1, ReturnChanges, QuietIsFine, OnlyCallMoves
  <1>4. CASE call[a].inner
    <2>1. Goto(a, "file") /\ "file" \in CallPC
      BY <1>4 DEF Found, CallPC
    <2>2. /\ call' \in [Actors -> CallState]
          /\ \A b \in Actors \ {a} : call'[b] = call[b]
          /\ call'[a].pc = "file"
          /\ call'[a].index = call[a].index
          /\ call'[a].known = call[a].known
      BY <2>1, GotoChanges
    <2>3. ~Pending(a)' /\ ~Cleared(a)' /\ ~Outer(a)'
      BY <2>2 DEF Pending, Outer, Cleared, Chosen, Scans
    <2>4. Mutex(a)' /\ Argument(a)' /\ Searched(a)'
      BY <1>1, <1>2, <2>2, <2>3 DEF Actor, Mutex, Argument, Searched
    <2>5. Index(a)'
      BY <1>1, <1>4, <2>2 DEF Actor, Index, Chosen, UsesThread, Scans
    <2>6. Ended(a)'
      BY <1>1, <2>2 DEF Actor, Ended, Scans
    <2>7. Actor(a)'
      BY <2>4, <2>5, <2>6 DEF Actor
    <2> QED BY <2>2, <2>3, <2>7, OnlyCallMoves
  <1> QED BY <1>3, <1>4

LEMMA NotEqualMeans ==
    ASSUME NEW a \in Actors, NEW list, ~Equal(call[a].task, list)
    PROVE  NoEqual(a, ToSet(list))
  BY DEF Equal, NoEqual, ToSet

LEMMA ScanTmpKeepsInv ==
    ASSUME IInv, NEW a \in Actors, ScanTmp(a)
    PROVE  IInv'
  <1> DEFINE i == call[a].i
  <1>1. /\ call[a].pc = "scanTmp"
        /\ i \in Threads
        /\ UNCHANGED <<threads, map, s_nLastThreadIndex, foreign, closing, undefined,
                       submitted, accepted>>
    BY DEF ScanTmp, Step, At, Sound, Reach
  <1>2. CASE Equal(call[a].task, m_lstTmpTasks[i])
    BY <1>1, <1>2, SearchEnds DEF ScanTmp, Scans
  <1>3. CASE ~Equal(call[a].task, m_lstTmpTasks[i])
    <2>1. Goto(a, "scanTasks") /\ "scanTasks" \in CallPC
      BY <1>3 DEF ScanTmp, CallPC
    <2>2. /\ call' \in [Actors -> CallState]
          /\ \A b \in Actors \ {a} : call'[b] = call[b]
          /\ call'[a].pc = "scanTasks"
          /\ call'[a].task = call[a].task
          /\ call'[a].index = call[a].index
          /\ call'[a].i = call[a].i
          /\ call'[a].inner = call[a].inner
          /\ call'[a].known = call[a].known
      BY <2>1, GotoChanges
    <2>3. /\ Pending(a) /\ Pending(a)'
          /\ Outer(a)' <=> Outer(a)
          /\ Chosen(a)' <=> Chosen(a)
          /\ Cleared(a)' <=> Cleared(a)
          /\ UsesThread(a) /\ UsesThread(a)'
      BY <1>1, <2>2 DEF Pending, Outer, Cleared, Chosen, Scans, UsesThread
    <2>4. Searched(a) /\ Index(a)
      BY DEF IInv, Actor
    <2>5. NoEqual(a, ToSet(m_lstTmpTasks[i]))
      BY <1>3, NotEqualMeans
    <2>6. Searched(a)'
      BY <1>1, <2>2, <2>3, <2>4, <2>5 DEF Searched, NoEqual, Waiting, threads
    <2>7. Index(a)'
      BY <1>1, <2>2, <2>3, <2>4 DEF Index, Stranger
    <2> QED BY <1>1, <2>2, <2>3, <2>6, <2>7, SearchGoesOn
  <1> QED BY <1>2, <1>3

LEMMA NotFoundKeepsInv ==
    ASSUME IInv, NEW a \in Actors, call[a].pc = "scanTasks", call[a].i \in Threads,
           NotFound(a), ~Equal(call[a].task, m_lstTasks[call[a].i]),
           UNCHANGED <<threads, map, s_nLastThreadIndex, foreign, closing, undefined,
                       submitted, accepted>>
    PROVE  IInv'
  <1> DEFINE c == call[a]
             d == IF c.inner THEN [c EXCEPT !.pc = "push"]
                  ELSE IF c.index # -1 THEN [c EXCEPT !.pc = "enter"]
                  ELSE IF ~LastThread(c.i) THEN [c EXCEPT !.pc = "scanTmp", !.i = @ + 1]
                  ELSE [c EXCEPT !.pc = "load", !.i = 0]
  <1>1. c \in CallState /\ Searched(a) /\ Index(a)
    BY DEF IInv, Actor
  <1>2. ~LastThread(c.i) => c.i + 1 \in Threads
    BY ThreadFacts DEF LastThread, Threads
  <1>3. \A j \in Threads : LastThread(c.i) => j =< c.i
    BY ThreadFacts DEF LastThread, Threads
  <1>4. d \in CallState
    <2>1. CASE c.inner
      BY <1>1, <2>1 DEF CallState, CallPC
    <2>2. CASE ~c.inner /\ c.index # -1
      BY <1>1, <2>2 DEF CallState, CallPC
    <2>3. CASE ~c.inner /\ c.index = -1 /\ ~LastThread(c.i)
      <3>1. c.i + 1 \in 0..4
        BY <1>2, <2>3, ThreadFacts
      <3>2. d = [c EXCEPT !.pc = "scanTmp", !.i = c.i + 1]
        BY <2>3
      <3> QED BY <1>1, <3>1, <3>2 DEF CallState, CallPC
    <2>4. CASE ~c.inner /\ c.index = -1 /\ LastThread(c.i)
      <3>1. d = [c EXCEPT !.pc = "load", !.i = 0]
        BY <2>4
      <3>2. [c EXCEPT !.pc = "load"] \in CallState
        BY <1>1 DEF CallState, CallPC
      <3>3. \A e \in CallState, k \in 0..4 : [e EXCEPT !.i = k] \in CallState
        BY DEF CallState
      <3>4. [[c EXCEPT !.pc = "load"] EXCEPT !.i = 0] = d
        BY <3>1
      <3> HIDE DEF d
      <3>5. 0 \in 0..4
        OBVIOUS
      <3> QED BY <3>2, <3>3, <3>4, <3>5
    <2> QED BY <2>1, <2>2, <2>3, <2>4
  <1>5. call' = [call EXCEPT ![a] = d]
    BY DEF NotFound
  <1>6. /\ call' \in [Actors -> CallState]
        /\ \A b \in Actors \ {a} : call'[b] = call[b]
        /\ call'[a] = d
    BY <1>4, <1>5, CallBecomes
  <1>7. /\ d.task = c.task /\ d.known = c.known /\ d.inner = c.inner /\ d.index = c.index
        /\ \/ d.pc = "push" /\ c.inner /\ d.i = c.i
           \/ d.pc = "enter" /\ ~c.inner /\ c.index # -1
           \/ d.pc = "scanTmp" /\ ~c.inner /\ ~LastThread(c.i) /\ d.i = c.i + 1
           \/ d.pc = "load" /\ ~c.inner /\ LastThread(c.i) /\ d.i = 0 /\ c.index = -1
    BY <1>1 DEF CallState
  <1> HIDE DEF d
  <1>8. Pending(a) /\ Pending(a)'
    BY <1>6, <1>7 DEF Pending, Outer, Cleared, Chosen, Scans
  <1>9. Searched(a)'
    <2> SUFFICES ASSUME c.index = -1, c.task \in KeepSingle
                 PROVE  /\ Outer(a)' => \A j \in Threads : j < call'[a].i =>
                                            NoEqual(a, Waiting(j))'
                        /\ d.pc # "scanTasks"
                        /\ Cleared(a)' => \A j \in Threads : NoEqual(a, Waiting(j))'
      BY <1>6, <1>7 DEF Searched
    <2>1. \A S : NoEqual(a, S)' <=> NoEqual(a, S')
      BY <1>6, <1>7 DEF NoEqual
    <2>2. \A j \in Threads : NoEqual(a, Waiting(j)) => NoEqual(a, Waiting(j))'
      BY <1>6, <1>7 DEF NoEqual, Waiting, threads
    <2>3. ASSUME ~c.inner
          PROVE  NoEqual(a, Waiting(c.i))
      <3>1. NoEqual(a, ToSet(m_lstTasks[c.i]))
        BY NotEqualMeans
      <3>2. NoEqual(a, ToSet(m_lstTmpTasks[c.i]))
        BY <1>1, <2>3 DEF Searched, Outer, Scans
      <3> QED BY <3>1, <3>2 DEF NoEqual, Waiting
    <2>4. ASSUME ~c.inner, NEW j \in Threads, j =< c.i
          PROVE  NoEqual(a, Waiting(j))'
      <3>1. CASE j = c.i
        BY <2>2, <2>3, <2>4, <3>1
      <3>2. CASE j # c.i
        <4>1. j < c.i
          BY <2>4, <3>2, ThreadFacts
        <4> QED BY <1>1, <2>2, <2>4, <4>1 DEF Searched, Outer, Scans
      <3> QED BY <3>1, <3>2
    <2>5. CASE d.pc = "push"
      <3>1. Cleared(a) /\ ~Outer(a)'
        BY <1>6, <1>7, <2>5 DEF Cleared, Chosen, Outer, Scans
      <3> QED BY <1>1, <2>2, <2>5, <3>1 DEF Searched
    <2>6. CASE d.pc = "enter"
      BY <1>7, <2>6
    <2>7. CASE d.pc = "scanTmp"
      <3>1. ~Cleared(a)' /\ call'[a].i = c.i + 1 /\ ~c.inner
        BY <1>6, <1>7, <2>7 DEF Cleared, Chosen, Scans
      <3>2. \A x, y \in Int : x < y + 1 => x =< y
        OBVIOUS
      <3>3. \A j \in Threads : j < c.i + 1 => j =< c.i
        BY <3>2, ThreadFacts
      <3> QED BY <2>4, <2>7, <3>1, <3>3
    <2>8. CASE d.pc = "load"
      <3>1. ~Outer(a)' /\ ~c.inner /\ LastThread(c.i)
        BY <1>6, <1>7, <2>8 DEF Outer, Scans
      <3> QED BY <1>3, <2>4, <2>8, <3>1
    <2> QED BY <1>7, <2>5, <2>6, <2>7, <2>8
  <1>10. Index(a)'
    <2>1. UsesThread(a)' => call'[a].i \in Threads
      BY <1>2, <1>6, <1>7, ThreadFacts DEF UsesThread, Scans
    <2>2. (Chosen(a)' \/ call'[a].pc = "file") => Chosen(a) \/ d.index # -1
      BY <1>6, <1>7 DEF Chosen, Scans
    <2> QED BY <1>1, <1>6, <1>7, <2>1, <2>2 DEF Index
  <1> QED BY <1>6, <1>7, <1>8, <1>9, <1>10, SearchGoesOn

LEMMA ScanTasksKeepsInv ==
    ASSUME IInv, NEW a \in Actors, ScanTasks(a)
    PROVE  IInv'
  <1>1. /\ call[a].pc = "scanTasks"
        /\ call[a].i \in Threads
        /\ UNCHANGED <<threads, map, s_nLastThreadIndex, foreign, closing, undefined,
                       submitted, accepted>>
    BY DEF ScanTasks, Step, At, Sound, Reach
  <1>2. CASE Equal(call[a].task, m_lstTasks[call[a].i])
    BY <1>1, <1>2, SearchEnds DEF ScanTasks, Scans
  <1>3. CASE ~Equal(call[a].task, m_lstTasks[call[a].i])
    BY <1>1, <1>3, NotFoundKeepsInv DEF ScanTasks
  <1> QED BY <1>2, <1>3

LEMMA LoadKeepsInv ==
    ASSUME IInv, NEW a \in Actors, Load(a)
    PROVE  IInv'
  <1> DEFINE c == call[a]
             nRemain == GetTaskRemain(c.i)
             taken == c.i = 0 \/ Lighter(c.load, nRemain)
             d == [c EXCEPT !.best = IF taken THEN c.i ELSE @,
                            !.load = IF taken THEN nRemain ELSE @,
                            !.i = IF LastThread(c.i) THEN 0 ELSE @ + 1,
                            !.pc = IF LastThread(c.i) THEN "choose" ELSE @]
  <1>1. /\ c.pc = "load"
        /\ c.i \in Threads
        /\ UNCHANGED <<threads, map, s_nLastThreadIndex, foreign, closing, undefined,
                       submitted, accepted>>
    BY DEF Load, Step, At, Sound, Reach
  <1>2. c \in CallState /\ Searched(a) /\ Index(a)
    BY DEF IInv, Actor
  <1>3. nRemain \in Nat
    <2>1. m_lstTmpTasks[c.i] \in Seq(Tasks) /\ m_lstTasks[c.i] \in Seq(Tasks)
      BY <1>1 DEF IInv, Shared, Typed
    <2>2. Len(m_lstTmpTasks[c.i]) \in Nat /\ Len(m_lstTasks[c.i]) \in Nat
      BY <2>1, LenProperties
    <2>3. \A x, y \in Nat : x + y \in Nat
      OBVIOUS
    <2>4. nRemain = Len(m_lstTmpTasks[c.i]) + Len(m_lstTasks[c.i])
      BY DEF GetTaskRemain
    <2> QED BY <2>2, <2>3, <2>4
  <1>4. ~LastThread(c.i) => c.i + 1 \in Threads
    BY <1>1, ThreadFacts DEF LastThread, Threads
  <1>5. call' = [call EXCEPT ![a] = d]
    BY <1>2 DEF Load, IInv
  <1> HIDE DEF nRemain, taken
  <1>6. d \in CallState
    <2>1. ~LastThread(c.i) => c.i + 1 \in 0..4
      BY <1>4, ThreadFacts
    <2>2. [c EXCEPT !.best = IF taken THEN c.i ELSE @] \in CallState
      BY <1>1, <1>2 DEF CallState
    <2>3. [c EXCEPT !.best = IF taken THEN c.i ELSE @,
                    !.load = IF taken THEN nRemain ELSE @] \in CallState
      BY <1>2, <1>3, <2>2 DEF CallState
    <2>4. [c EXCEPT !.best = IF taken THEN c.i ELSE @,
                    !.load = IF taken THEN nRemain ELSE @,
                    !.i = IF LastThread(c.i) THEN 0 ELSE @ + 1] \in CallState
      <3>1. (IF LastThread(c.i) THEN 0 ELSE c.i + 1) \in 0..4
        BY <2>1
      <3> QED BY <1>2, <2>3, <3>1 DEF CallState
    <2>5. (IF LastThread(c.i) THEN "choose" ELSE c.pc) \in CallPC
      BY <1>1 DEF CallPC
    <2> DEFINE r == [c EXCEPT !.best = IF taken THEN c.i ELSE @,
                              !.load = IF taken THEN nRemain ELSE @,
                              !.i = IF LastThread(c.i) THEN 0 ELSE @ + 1]
               pc == IF LastThread(c.i) THEN "choose" ELSE c.pc
    <2>6. r.pc = c.pc
      BY <1>2 DEF CallState
    <2>7. d = [r EXCEPT !.pc = pc]
      BY <2>6
    <2>8. r \in CallState /\ pc \in CallPC
      BY <2>4, <2>5
    <2> HIDE DEF r, pc, d
    <2> QED BY <2>7, <2>8 DEF CallState
  <1>7. /\ d.task = c.task /\ d.known = c.known /\ d.inner = c.inner /\ d.index = c.index
        /\ \/ d.pc = "choose"
           \/ d.pc = "load" /\ d.i \in Threads
    BY <1>1, <1>2, <1>4 DEF CallState
  <1> HIDE DEF d
  <1>8. /\ call' \in [Actors -> CallState]
        /\ \A b \in Actors \ {a} : call'[b] = call[b]
        /\ call'[a] = d
    BY <1>5, <1>6, CallBecomes
  <1>9. /\ Pending(a) /\ Pending(a)' /\ Cleared(a) /\ ~Outer(a)' /\ ~Chosen(a)'
        /\ d.pc \notin {"scanTasks", "file"}
    BY <1>1, <1>7, <1>8 DEF Pending, Outer, Cleared, Chosen, Scans
  <1>10. Searched(a)'
    BY <1>1, <1>2, <1>7, <1>8, <1>9 DEF Searched, NoEqual, Waiting, threads
  <1>11. Index(a)'
    BY <1>7, <1>8, <1>9 DEF Index, UsesThread, Scans
  <1> QED BY <1>1, <1>7, <1>8, <1>9, <1>10, <1>11, SearchGoesOn

LEMMA EnterKeepsInv ==
    ASSUME IInv, NEW a \in Actors, Enter(a)
    PROVE  IInv'
  <1> DEFINE c == call[a]
             d == [c EXCEPT !.i = Target(a), !.inner = TRUE,
                            !.pc = IF c.task \in KeepSingle THEN "scanTmp" ELSE "push"]
  <1>1. /\ c.pc = "enter"
        /\ Target(a) \in Threads
        /\ UNCHANGED <<threads, map, s_nLastThreadIndex, foreign, closing, undefined,
                       submitted, accepted>>
    BY DEF Enter, Step, At, Sound, Reach
  <1>2. c \in CallState /\ Searched(a) /\ Index(a)
    BY DEF IInv, Actor
  <1>3. call' = [call EXCEPT ![a] = d]
    BY <1>2 DEF Enter, IInv
  <1>4. d \in CallState
    BY <1>1, <1>2, ThreadFacts DEF CallState, CallPC
  <1>5. /\ d.task = c.task /\ d.known = c.known /\ d.inner /\ d.index = c.index
        /\ d.pc \in {"scanTmp", "push"}
        /\ d.i \in Threads
    BY <1>1, <1>2 DEF CallState
  <1> HIDE DEF d
  <1>6. /\ call' \in [Actors -> CallState]
        /\ \A b \in Actors \ {a} : call'[b] = call[b]
        /\ call'[a] = d
    BY <1>3, <1>4, CallBecomes
  <1>7. /\ Pending(a) /\ Pending(a)' /\ Cleared(a) /\ ~Outer(a)' /\ Chosen(a)
        /\ d.pc # "scanTasks"
    BY <1>1, <1>5, <1>6 DEF Pending, Outer, Cleared, Chosen, Scans
  <1>8. Searched(a)'
    BY <1>1, <1>2, <1>5, <1>6, <1>7 DEF Searched, NoEqual, Waiting, threads
  <1>9. Index(a)'
    BY <1>1, <1>2, <1>5, <1>6, <1>7 DEF Index
  <1> QED BY <1>1, <1>5, <1>6, <1>7, <1>8, <1>9, SearchGoesOn

LEMMA ChooseKeepsInv ==
    ASSUME IInv, NEW a \in Actors, Choose(a)
    PROVE  IInv'
  <1>1. /\ call[a].pc = "choose"
        /\ s_nLastThreadIndex' = call[a].best
        /\ Goto(a, "enter") /\ "enter" \in CallPC
        /\ UNCHANGED <<threads, map, foreign, closing, undefined, submitted, accepted>>
    BY DEF Choose, Step, At, CallPC
  <1>2. call[a] \in CallState /\ Actor(a) /\ Shared
    BY DEF IInv
  <1>3. s_nLastThreadIndex' \in Threads /\ s_nLastThreadIndex' # -1
    BY <1>1, <1>2, ThreadFacts DEF CallState
  <1>4. /\ call' \in [Actors -> CallState]
        /\ \A b \in Actors \ {a} : call'[b] = call[b]
        /\ call'[a].pc = "enter"
        /\ call'[a].task = call[a].task
        /\ call'[a].index = call[a].index
        /\ call'[a].known = call[a].known
    BY <1>1, GotoChanges
  <1>5. /\ Pending(a) /\ Pending(a)' /\ Cleared(a) /\ ~Outer(a)' /\ ~UsesThread(a)'
    BY <1>1, <1>4 DEF Pending, Outer, Cleared, Chosen, Scans, UsesThread
  <1>6. Mutex(a)' /\ Argument(a)' /\ Ended(a)'
    BY <1>1, <1>2, <1>4, <1>5 DEF Actor, Mutex, Argument, Ended, map
  <1>7. Searched(a)'
    BY <1>1, <1>2, <1>4, <1>5 DEF Actor, Searched, NoEqual, Waiting, threads
  <1>8. Index(a)'
    BY <1>3, <1>5 DEF Index
  <1>9. \A b \in Actors \ {a} : Kept(b)
    <2>1. \A b \in Actors : Argument(b)
      BY DEF IInv, Actor
    <2> QED BY <1>1, <1>3, <1>4, <2>1 DEF Kept, Argument, Stranger, map
  <1>10. Shared'
    <2>1. s_nLastThreadIndex' \in -1..4
      <3>1. \A x \in 0..4 : x \in -1..4
        OBVIOUS
      <3> QED BY <1>3, <3>1, ThreadFacts
    <2>2. Typed'
      BY <1>1, <1>2, <2>1 DEF Shared, Typed, threads, map
    <2>3. Indices' /\ Workers'
      BY <1>1, <1>2, <1>3 DEF Shared, Indices, Stranger, Workers, Busy, threads, map
    <2> QED BY <2>2, <2>3 DEF Shared
  <1>11. Actor(a)' /\ ListsKept
    BY <1>1, <1>6, <1>7, <1>8, SameLists DEF Actor, threads
  <1> QED BY <1>4, <1>5, <1>9, <1>10, <1>11, OneCallMoves

LEMMA CallRunTaskKeepsInv ==
    ASSUME IInv, NEW a \in Actors, NEW t \in Tasks, NEW n \in Threads \cup {-1},
           CallRunTask(a, t, n)
    PROVE  IInv'
  <1> DEFINE d == [Quiet EXCEPT
                     !.pc = IF t \in KeepSingle THEN "scanTmp"
                            ELSE IF n = -1 THEN "load" ELSE "enter",
                     !.task = t,
                     !.index = n,
                     !.i = IF n = -1 THEN 0 ELSE n,
                     !.known = accepted]
  <1>1. /\ call[a].pc = "none"
        /\ a \in Callers => ~closing
        /\ t \notin submitted
        /\ submitted' = submitted \cup {t}
        /\ call' = [call EXCEPT ![a] = d]
        /\ UNCHANGED <<threads, map, s_nLastThreadIndex, foreign, closing, undefined, accepted>>
    BY DEF CallRunTask, MayCall, At
  <1>2. Actor(a) /\ Shared /\ accepted \subseteq submitted /\ submitted \subseteq Tasks
    BY DEF IInv, Shared, Typed
  <1>3. d.pc \in CallPC /\ d.i \in Threads
    BY ThreadFacts DEF Quiet, CallPC
  <1>4. /\ d.pc \in {"scanTmp", "load", "enter"}
        /\ t \in KeepSingle => d.pc = "scanTmp"
        /\ n = -1 => d.pc # "enter" /\ d.i = 0
        /\ d.task = t /\ d.index = n /\ ~d.inner /\ d.known = accepted
    BY DEF Quiet
  <1>5. d \in CallState
    BY <1>2, <1>3, <1>4, ThreadFacts DEF CallState, Quiet
  <1> HIDE DEF d
  <1>6. /\ call' \in [Actors -> CallState]
        /\ \A b \in Actors \ {a} : call'[b] = call[b]
        /\ call'[a] = d
    BY <1>1, <1>5, CallBecomes
  <1>7. Mutex(a)'
    BY <1>1, <1>2, <1>4, <1>6 DEF Actor, Mutex, map
  <1>8. Argument(a)'
    BY <1>1, <1>2, <1>4, <1>6 DEF Argument
  <1>9. Searched(a)'
    <2>1. ASSUME n = -1, t \in KeepSingle
          PROVE  d.pc = "scanTmp" /\ ~Cleared(a)' /\ \A j \in Threads : ~(j < d.i)
      <3>1. \A j \in Threads : ~(j < 0)
        BY ThreadFacts
      <3> QED BY <1>4, <1>6, <2>1, <3>1 DEF Cleared, Chosen, Scans
    <2> QED BY <1>4, <1>6, <2>1 DEF Searched
  <1>10. Index(a)'
    BY <1>3, <1>4, <1>6 DEF Index, Chosen, Scans
  <1>11. Ended(a)'
    BY <1>1 DEF Ended
  <1>12. Actor(a)'
    BY <1>7, <1>8, <1>9, <1>10, <1>11 DEF Actor
  <1>13. \A b \in Actors \ {a} : Kept(b)
    <2>1. \A b \in Actors : Argument(b)
      BY DEF IInv, Actor
    <2> QED BY <1>1, <1>6, <2>1 DEF Kept, Argument, Stranger, map
  <1>14. Shared' /\ ListsKept
    <2>1. accepted' \subseteq submitted' /\ submitted' \subseteq Tasks
      BY <1>1, <1>2
    <2> QED BY <1>1, <2>1, SharedKept, SameLists DEF threads
  <1>15. call'[a].task \notin submitted
    BY <1>1, <1>4, <1>6
  <1> QED BY <1>6, <1>12, <1>13, <1>14, <1>15, OneCallMoves

LEMMA CallCancelTaskKeepsInv ==
    ASSUME IInv, NEW a \in Actors, NEW n \in Threads \cup {-1}, CallCancelTask(a, n)
    PROVE  IInv'
  <1> DEFINE d == [call[a] EXCEPT !.pc = IF n = -1 THEN "lockMap" ELSE "cancelTmp",
                                  !.index = n,
                                  !.i = IF n = -1 THEN 0 ELSE n]
  <1>1. /\ call[a].pc = "none"
        /\ a \in Callers => ~closing
        /\ UNCHANGED <<threads, map, s_nLastThreadIndex, foreign, closing, undefined,
                       submitted, accepted>>
    BY DEF CallCancelTask, MayCall, At
  <1>2. call[a] \in CallState /\ Actor(a)
    BY DEF IInv
  <1>3. call' = [call EXCEPT ![a] = d]
    BY <1>2 DEF CallCancelTask, IInv
  <1>4. /\ d.index = n /\ d.known = call[a].known
        /\ \/ d.pc = "lockMap" /\ n = -1
           \/ d.pc = "cancelTmp" /\ n # -1 /\ d.i \in Threads
    BY <1>2 DEF CallState
  <1>5. d \in CallState
    BY <1>2, ThreadFacts DEF CallState, CallPC
  <1> HIDE DEF d
  <1>6. /\ call' \in [Actors -> CallState]
        /\ \A b \in Actors \ {a} : call'[b] = call[b]
        /\ call'[a] = d
    BY <1>3, <1>5, CallBecomes
  <1>7. ~Pending(a)' /\ ~Cleared(a)' /\ ~Outer(a)' /\ ~Chosen(a)' /\ d.pc # "file"
    BY <1>4, <1>6 DEF Pending, Outer, Cleared, Chosen, Scans
  <1>8. Mutex(a)'
    BY <1>1, <1>2, <1>4, <1>6 DEF Actor, Mutex, map
  <1>9. Argument(a)' /\ Searched(a)' /\ Ended(a)'
    BY <1>1, <1>2, <1>4, <1>6, <1>7 DEF Actor, Argument, Searched, Ended
  <1>10. Index(a)'
    BY <1>4, <1>6, <1>7 DEF Index, UsesThread, Scans
  <1>11. Actor(a)'
    BY <1>8, <1>9, <1>10 DEF Actor
  <1> QED BY <1>1, <1>6, <1>7, <1>11, OnlyCallMoves
-----------------------------------------------------------------------------
(* Calls that change the lists or the map.                                   *)
LEMMA FewerTasks ==
    ASSUME \A j \in Threads :
               /\ ToSet(m_lstTmpTasks[j])' \subseteq ToSet(m_lstTmpTasks[j])
               /\ ToSet(m_lstTasks[j])' \subseteq ToSet(m_lstTasks[j])
    PROVE  ListsKept
  BY DEF ListsKept, Waiting

LEMMA PushKeepsInv ==
    ASSUME IInv, NEW a \in Actors, Push(a)
    PROVE  IInv'
  <1> DEFINE i == call[a].i
             t == call[a].task
  <1>1. /\ call[a].pc = "push"
        /\ i \in Threads
        /\ m_lstTmpTasks' = [m_lstTmpTasks EXCEPT ![i] = Append(@, t)]
        /\ accepted' = accepted \cup {t}
        /\ Goto(a, "file") /\ "file" \in CallPC
        /\ UNCHANGED <<m_lstTasks, wpc, inbox, map, s_nLastThreadIndex, foreign, closing,
                       undefined, submitted>>
    BY DEF Push, Step, At, Sound, Reach, CallPC
  <1>2. Actor(a) /\ Shared /\ Pending(a)
    BY <1>1 DEF IInv, Pending, Cleared, Chosen
  <1>3. t \in submitted \ accepted /\ t \in Tasks
    BY <1>2 DEF Actor, Argument, Shared, Typed
  <1>4. /\ call' \in [Actors -> CallState]
        /\ \A b \in Actors \ {a} : call'[b] = call[b]
        /\ call'[a].pc = "file"
        /\ call'[a].index = call[a].index
        /\ call'[a].known = call[a].known
    BY <1>1, GotoChanges
  <1>5. /\ m_lstTmpTasks \in [Threads -> Seq(Tasks)]
        /\ m_lstTmpTasks[i] \in Seq(Tasks)
        /\ m_lstTmpTasks'[i] = Append(m_lstTmpTasks[i], t)
        /\ \A j \in Threads \ {i} : m_lstTmpTasks'[j] = m_lstTmpTasks[j]
    BY <1>1, <1>2 DEF Shared, Typed
  <1>6. /\ Append(m_lstTmpTasks[i], t) \in Seq(Tasks)
        /\ ToSet(Append(m_lstTmpTasks[i], t)) = ToSet(m_lstTmpTasks[i]) \cup {t}
    BY <1>3, <1>5, ElementsOfAppend
  <1>7. ListsKept
    <2> SUFFICES ASSUME NEW j \in Threads
                 PROVE  /\ Waiting(j)' \cap accepted \subseteq Waiting(j)
                        /\ ToSet(m_lstTmpTasks[j])' \cap accepted
                               \subseteq ToSet(m_lstTmpTasks[j])
      BY DEF ListsKept
    <2>1. ToSet(m_lstTmpTasks[j])' \subseteq ToSet(m_lstTmpTasks[j]) \cup {t}
      <3>1. CASE j = i
        <4>1. ToSet(m_lstTmpTasks[j])' = ToSet(Append(m_lstTmpTasks[i], t))
          BY <1>5, <3>1 DEF ToSet
        <4> QED BY <1>6, <3>1, <4>1
      <3>2. CASE j # i
        BY <1>5, <3>2 DEF ToSet
      <3> QED BY <3>1, <3>2
    <2>2. ToSet(m_lstTasks[j])' = ToSet(m_lstTasks[j])
      BY <1>1 DEF ToSet
    <2> QED BY <1>3, <2>1, <2>2 DEF Waiting
  <1>8. \A b \in Actors \ {a} : Kept(b)
    <2> SUFFICES ASSUME NEW b \in Actors \ {a}
                 PROVE  Kept(b)
      OBVIOUS
    <2>1. Pending(b) => call[b].task # t
      BY <1>2 DEF IInv, Apart
    <2>2. Argument(b)
      BY DEF IInv, Actor
    <2> QED BY <1>1, <1>4, <2>1, <2>2 DEF Kept, Argument, Stranger, map
  <1>9. Shared'
    <2>1. m_lstTmpTasks' \in [Threads -> Seq(Tasks)]
      BY <1>1, <1>5, <1>6
    <2>2. accepted' \subseteq submitted' /\ submitted' \subseteq Tasks
      BY <1>1, <1>2, <1>3 DEF Shared, Typed
    <2>3. Typed'
      BY <1>1, <1>2, <2>1, <2>2 DEF Shared, Typed, map
    <2>4. Indices' /\ Workers'
      BY <1>1, <1>2 DEF Shared, Indices, Stranger, Workers, Busy, map
    <2> QED BY <2>3, <2>4 DEF Shared
  <1>10. ~Pending(a)' /\ ~Cleared(a)' /\ ~Outer(a)' /\ ~UsesThread(a)'
    BY <1>4 DEF Pending, Outer, Cleared, Chosen, Scans, UsesThread
  <1>11. Mutex(a)' /\ Ended(a)'
    BY <1>1, <1>2, <1>4 DEF Actor, Mutex, Ended, map
  <1>12. Argument(a)' /\ Searched(a)'
    BY <1>1, <1>2, <1>4, <1>10 DEF Actor, Argument, Searched
  <1>13. Index(a)'
    BY <1>1, <1>2, <1>4, <1>10 DEF Actor, Index, Chosen
  <1>14. Actor(a)'
    BY <1>11, <1>12, <1>13 DEF Actor
  <1> QED BY <1>4, <1>7, <1>8, <1>9, <1>10, <1>14, OneCallMoves

LEMMA FileKeepsInv ==
    ASSUME IInv, NEW a \in Actors, File(a)
    PROVE  IInv'
  <1> DEFINE n == Target(a)
             f == m_mapTaskThreadMap
             g == [id \in DOMAIN f \cup {NoID} |-> IF id = NoID THEN n ELSE f[id]]
  <1>1. /\ call[a].pc = "file"
        /\ m_mtxTaskThreadMap = None
        /\ m_mapTaskThreadMap' = g
        /\ Return(a)
        /\ UNCHANGED <<threads, m_mtxTaskThreadMap, s_nLastThreadIndex, foreign, closing,
                       undefined, submitted, accepted>>
    BY DEF File, Step, At, Returned
  <1>2. call[a] \in CallState /\ Actor(a) /\ Shared
    BY DEF IInv
  <1>3. n \in Threads \/ (Stranger /\ n \in 0..4)
    <2>1. call[a].index \in Threads \cup {-1}
      BY <1>2 DEF CallState
    <2>2. call[a].index # -1 \/ s_nLastThreadIndex # -1
      BY <1>1, <1>2 DEF Actor, Index
    <2>3. s_nLastThreadIndex \in Threads \cup {-1} \/ Stranger
      BY <1>2 DEF Shared, Indices
    <2>4. s_nLastThreadIndex # -1 => s_nLastThreadIndex \in 0..4
      <3>1. \A x \in -1..4 : x # -1 => x \in 0..4
        OBVIOUS
      <3> QED BY <1>2, <3>1 DEF Shared, Typed
    <2> QED BY <2>1, <2>2, <2>3, <2>4 DEF Target
  <1>4. /\ DOMAIN g = {NoID} \cup DOMAIN f
        /\ g[NoID] = n
        /\ \A id \in DOMAIN f \ {NoID} : g[id] = f[id]
    OBVIOUS
  <1> HIDE DEF g, n
  <1>5. Typed'
    <2>1. /\ DOMAIN m_mapTaskThreadMap' \subseteq Tasks \cup {NoID}
          /\ \A id \in DOMAIN m_mapTaskThreadMap' : m_mapTaskThreadMap'[id] \in 0..4
      <3>1. n \in 0..4
        BY <1>3, ThreadFacts
      <3>2. /\ DOMAIN f \subseteq Tasks \cup {NoID}
            /\ \A id \in DOMAIN f : f[id] \in 0..4
        BY <1>2 DEF Shared, Typed
      <3> QED BY <1>1, <1>4, <3>1, <3>2
    <2> QED BY <1>1, <1>2, <2>1 DEF Shared, Typed, threads
  <1>6. Indices'
    BY <1>1, <1>2, <1>3, <1>4 DEF Shared, Indices, Stranger
  <1>7. Workers'
    BY <1>1, <1>2 DEF Shared, Workers, Busy, threads
  <1>8. Shared'
    BY <1>5, <1>6, <1>7 DEF Shared
  <1>9. /\ call' \in [Actors -> CallState]
        /\ \A b \in Actors \ {a} : call'[b] = call[b]
        /\ call'[a] = Quiet
    BY <1>1, ReturnChanges
  <1>10. Actor(a)' /\ ~Pending(a)'
    BY <1>1, <1>9, QuietIsFine, ThreadFacts
  <1>11. (\A b \in Actors \ {a} : Kept(b)) /\ ListsKept
    BY <1>1, <1>9, OthersKept, SameLists DEF threads
  <1> QED BY <1>8, <1>9, <1>10, <1>11, OneCallMoves

LEMMA LockMapKeepsInv ==
    ASSUME IInv, NEW a \in Actors, LockMap(a)
    PROVE  IInv'
  <1> DEFINE i == m_mapTaskThreadMap[NoID]
             d == [call[a] EXCEPT !.pc = "cancelTmp", !.i = i]
  <1>1. /\ call[a].pc = "lockMap"
        /\ m_mtxTaskThreadMap = None
        /\ UNCHANGED <<threads, m_mapTaskThreadMap, s_nLastThreadIndex, foreign, closing,
                       undefined, submitted, accepted>>
    BY DEF LockMap, Step, At
  <1>2. call[a] \in CallState /\ Actor(a) /\ Shared
    BY DEF IInv
  <1>3. CASE NoID \notin DOMAIN m_mapTaskThreadMap
    <2>1. Return(a) /\ UNCHANGED map
      BY <1>1, <1>3 DEF LockMap, map
    <2>2. m_mtxTaskThreadMap' # a
      BY <1>1, <2>1, ThreadFacts DEF map
    <2> QED BY <1>1, <2>1, <2>2, ReturnChanges, QuietIsFine, OnlyCallMoves
  <1>4. CASE NoID \in DOMAIN m_mapTaskThreadMap
    <2>1. /\ m_mtxTaskThreadMap' = a
          /\ call' = [call EXCEPT ![a] = d]
      BY <1>2, <1>4 DEF LockMap, IInv
    <2>2. i \in 0..4 /\ (i \in Threads \/ Stranger)
      BY <1>2, <1>4 DEF Shared, Typed, Indices
    <2>3. /\ d.pc = "cancelTmp" /\ d.index = -1 /\ d.i = i /\ d.known = call[a].known
          /\ d \in CallState
      BY <1>1, <1>2, <2>2 DEF CallState, CallPC, Actor, Mutex
    <2> HIDE DEF d, i
    <2>4. /\ call' \in [Actors -> CallState]
          /\ \A b \in Actors \ {a} : call'[b] = call[b]
          /\ call'[a] = d
      BY <2>1, <2>3, CallBecomes
    <2>5. ~Pending(a)' /\ ~Cleared(a)' /\ ~Outer(a)' /\ ~Chosen(a)'
      BY <2>3, <2>4 DEF Pending, Outer, Cleared, Chosen, Scans
    <2>6. Mutex(a)' /\ Argument(a)' /\ Searched(a)' /\ Index(a)' /\ Ended(a)'
      <3>1. Mutex(a)'
        BY <2>1, <2>3, <2>4 DEF Mutex
      <3>2. Argument(a)' /\ Searched(a)'
        BY <1>1, <1>2, <2>3, <2>4, <2>5 DEF Actor, Argument, Searched
      <3>3. Index(a)'
        BY <1>1, <2>2, <2>3, <2>4, <2>5 DEF Index, UsesThread, Scans, Stranger
      <3>4. Ended(a)'
        BY <1>1, <1>2 DEF Actor, Ended
      <3> QED BY <3>1, <3>2, <3>3, <3>4
    <2>7. \A b \in Actors \ {a} : Kept(b)
      <3>1. \A b \in Actors : Argument(b)
        BY DEF IInv, Actor
      <3> QED BY <1>1, <2>1, <2>4, <3>1, ThreadFacts DEF Kept, Argument, Stranger
    <2>8. Shared'
      <3>1. Typed'
        BY <1>1, <1>2, <2>1 DEF Shared, Typed, threads
      <3>2. Indices' /\ Workers'
        BY <1>1, <1>2 DEF Shared, Indices, Stranger, Workers, Busy, threads
      <3> QED BY <3>1, <3>2 DEF Shared
    <2>9. Actor(a)' /\ ListsKept
      BY <1>1, <2>6, SameLists DEF Actor, threads
    <2> QED BY <2>4, <2>5, <2>7, <2>8, <2>9, OneCallMoves
  <1> QED BY <1>3, <1>4

(* CancelTask returns, and gives the mutex of the map back if it has it.     *)
CancelEnds(a) ==
    /\ call[a].pc \in {"cancelTmp", "cancelTasks"}
    /\ ReleaseMap(a)
    /\ Return(a)
    /\ UNCHANGED <<s_nLastThreadIndex, foreign, closing, submitted, accepted>>

LEMMA CancelEndKeepsInv ==
    ASSUME IInv, NEW a \in Actors, CancelEnds(a), ListsKept, Shared'
    PROVE  IInv'
  <1>1. /\ call' \in [Actors -> CallState]
        /\ \A b \in Actors \ {a} : call'[b] = call[b]
        /\ call'[a] = Quiet
    BY ReturnChanges DEF CancelEnds
  <1>2. /\ m_mtxTaskThreadMap' # a
        /\ \A b \in Actors \ {a} : m_mtxTaskThreadMap' = b <=> m_mtxTaskThreadMap = b
    BY ThreadFacts DEF CancelEnds, ReleaseMap
  <1>3. Actor(a)' /\ ~Pending(a)'
    BY <1>1, <1>2, QuietIsFine
  <1>4. \A b \in Actors \ {a} : Kept(b)
    <2>1. \A b \in Actors : Argument(b)
      BY DEF IInv, Actor
    <2> QED BY <1>1, <1>2, <2>1 DEF CancelEnds, Kept, Argument, Stranger
  <1> QED BY <1>1, <1>3, <1>4, OneCallMoves

LEMMA CancelTmpKeepsInv ==
    ASSUME IInv, NEW a \in Actors, CancelTmp(a)
    PROVE  IInv'
  <1> DEFINE i == call[a].i
             rest == Without(m_lstTmpTasks[i], {NoID})
  <1>1. /\ call[a].pc = "cancelTmp"
        /\ i \in Threads
        /\ UNCHANGED <<m_lstTasks, wpc, inbox, m_mapTaskThreadMap, s_nLastThreadIndex,
                       foreign, closing, undefined, submitted, accepted>>
    BY DEF CancelTmp, Step, At, Sound, Reach
  <1>2. call[a] \in CallState /\ Actor(a) /\ Shared
    BY DEF IInv
  <1>3. CASE rest = m_lstTmpTasks[i]
    <2>1. /\ Goto(a, "cancelTasks") /\ "cancelTasks" \in CallPC
          /\ UNCHANGED <<threads, map>>
      BY <1>1, <1>3 DEF CancelTmp, CallPC, threads, map
    <2>2. /\ call' \in [Actors -> CallState]
          /\ \A b \in Actors \ {a} : call'[b] = call[b]
          /\ call'[a].pc = "cancelTasks"
          /\ call'[a].index = call[a].index
          /\ call'[a].i = call[a].i
          /\ call'[a].known = call[a].known
      BY <2>1, GotoChanges
    <2>3. ~Pending(a)' /\ ~Cleared(a)' /\ ~Outer(a)' /\ ~Chosen(a)'
      BY <2>2 DEF Pending, Outer, Cleared, Chosen, Scans
    <2>4. Mutex(a)' /\ Argument(a)' /\ Searched(a)' /\ Ended(a)'
      BY <1>1, <1>2, <2>1, <2>2, <2>3 DEF Actor, Mutex, Argument, Searched, Ended, map
    <2>5. Index(a)'
      BY <1>1, <2>2, <2>3 DEF Index
    <2>6. Actor(a)'
      BY <2>4, <2>5 DEF Actor
    <2> QED BY <1>1, <2>1, <2>2, <2>3, <2>6, OnlyCallMoves
  <1>4. CASE rest # m_lstTmpTasks[i]
    <2>1. /\ m_lstTmpTasks' = [m_lstTmpTasks EXCEPT ![i] = rest]
          /\ ReleaseMap(a)
          /\ Return(a)
      BY <1>4 DEF CancelTmp
    <2>2. /\ m_lstTmpTasks \in [Threads -> Seq(Tasks)]
          /\ m_lstTmpTasks[i] \in Seq(Tasks)
      BY <1>1, <1>2 DEF Shared, Typed
    <2>3. rest \in Seq(Tasks) /\ ToSet(rest) \subseteq ToSet(m_lstTmpTasks[i])
      BY <2>2, WithoutProperties
    <2> HIDE DEF rest
    <2>4. m_lstTmpTasks' \in [Threads -> Seq(Tasks)]
      BY <2>1, <2>2, <2>3
    <2>5. ListsKept
      <3>1. ASSUME NEW j \in Threads
            PROVE  /\ ToSet(m_lstTmpTasks[j])' \subseteq ToSet(m_lstTmpTasks[j])
                   /\ ToSet(m_lstTasks[j])' \subseteq ToSet(m_lstTasks[j])
        <4>1. m_lstTmpTasks'[j] = IF j = i THEN rest ELSE m_lstTmpTasks[j]
          BY <2>1, <2>2
        <4>2. ToSet(m_lstTmpTasks[j])' = ToSet(m_lstTmpTasks'[j])
          BY DEF ToSet
        <4>3. ToSet(m_lstTasks[j])' = ToSet(m_lstTasks[j])
          BY <1>1 DEF ToSet
        <4> QED BY <2>3, <4>1, <4>2, <4>3
      <3> QED BY <3>1, FewerTasks
    <2>6. CancelEnds(a)
      BY <1>1, <2>1 DEF CancelEnds
    <2>7. Shared'
      <3>1. Typed'
        BY <1>1, <1>2, <2>1, <2>4 DEF Shared, Typed, ReleaseMap
      <3>2. Indices' /\ Workers'
        BY <1>1, <1>2 DEF Shared, Indices, Stranger, Workers, Busy
      <3> QED BY <3>1, <3>2 DEF Shared
    <2> QED BY <2>5, <2>6, <2>7, CancelEndKeepsInv
  <1> QED BY <1>3, <1>4

LEMMA CancelTasksKeepsInv ==
    ASSUME IInv, NEW a \in Actors, CancelTasks(a)
    PROVE  IInv'
  <1> DEFINE i == call[a].i
             rest == Without(m_lstTasks[i], {NoID})
  <1>1. /\ call[a].pc = "cancelTasks"
        /\ i \in Threads
        /\ ~Busy(i)
        /\ m_lstTasks' = [m_lstTasks EXCEPT ![i] = rest]
        /\ ReleaseMap(a)
        /\ Return(a)
        /\ UNCHANGED <<m_lstTmpTasks, wpc, inbox, m_mapTaskThreadMap, s_nLastThreadIndex,
                       foreign, closing, undefined, submitted, accepted>>
    BY DEF CancelTasks, Step, At, Sound, Reach
  <1>2. call[a] \in CallState /\ Actor(a) /\ Shared
    BY DEF IInv
  <1>3. /\ m_lstTasks \in [Threads -> Seq(Tasks)]
        /\ m_lstTasks[i] \in Seq(Tasks)
    BY <1>1, <1>2 DEF Shared, Typed
  <1>4. rest \in Seq(Tasks) /\ ToSet(rest) \subseteq ToSet(m_lstTasks[i])
    BY <1>3, WithoutProperties
  <1> HIDE DEF rest
  <1>5. /\ m_lstTasks' \in [Threads -> Seq(Tasks)]
        /\ \A j \in Threads : m_lstTasks'[j] = IF j = i THEN rest ELSE m_lstTasks[j]
    BY <1>1, <1>3, <1>4
  <1>6. ListsKept
    <2>1. ASSUME NEW j \in Threads
          PROVE  /\ ToSet(m_lstTmpTasks[j])' \subseteq ToSet(m_lstTmpTasks[j])
                 /\ ToSet(m_lstTasks[j])' \subseteq ToSet(m_lstTasks[j])
      <3>1. ToSet(m_lstTmpTasks[j])' = ToSet(m_lstTmpTasks[j])
        BY <1>1 DEF ToSet
      <3>2. ToSet(m_lstTasks[j])' = ToSet(m_lstTasks'[j])
        BY DEF ToSet
      <3> QED BY <1>4, <1>5, <3>1, <3>2
    <2> QED BY <2>1, FewerTasks
  <1>7. CancelEnds(a)
    BY <1>1 DEF CancelEnds
  <1>8. Shared'
    <2>1. Typed'
      BY <1>1, <1>2, <1>5 DEF Shared, Typed, ReleaseMap
    <2>2. Indices'
      BY <1>1, <1>2 DEF Shared, Indices, Stranger
    <2>3. Workers'
      BY <1>1, <1>2, <1>5 DEF Shared, Workers, Busy
    <2> QED BY <2>1, <2>2, <2>3 DEF Shared
  <1> QED BY <1>6, <1>7, <1>8, CancelEndKeepsInv
-----------------------------------------------------------------------------
(* The idle threads.                                                         *)
LEMMA AllKept ==
    ASSUME IInv,
           UNCHANGED <<call, m_mtxTaskThreadMap, s_nLastThreadIndex, foreign, closing,
                       submitted, accepted>>
    PROVE  \A a \in Actors : Kept(a)
  <1>1. \A a \in Actors : Argument(a)
    BY DEF IInv, Actor
  <1> QED BY <1>1 DEF Kept, Argument, Stranger

LEMMA BeginPassKeepsInv ==
    ASSUME IInv, NEW i \in Threads, BeginPass(i)
    PROVE  IInv'
  <1> DEFINE s == m_lstTmpTasks[i]
             P(n) == n = MaxRunList \/ (n = Len(s) /\ n < MaxRunList)
             n == CHOOSE m \in 0..Len(s) : P(m)
  <1>1. Shared /\ s \in Seq(Tasks) /\ Len(s) \in Nat
    <2>1. Shared /\ s \in Seq(Tasks)
      BY DEF IInv, Shared, Typed
    <2> QED BY <2>1, LenProperties
  <1>2. n \in 0..Len(s)
    <2> HIDE DEF s
    <2>1. MaxRunList \in Nat
      BY IdleThreadManagerAssumption
    <2>2. \E m \in 0..Len(s) : P(m)
      <3>1. CASE MaxRunList =< Len(s)
        BY <1>1, <2>1, <3>1
      <3>2. CASE ~(MaxRunList =< Len(s))
        BY <1>1, <2>1, <3>2
      <3> QED BY <3>1, <3>2
    <2> HIDE DEF P
    <2> QED BY <2>2
  <1>3. /\ wpc[i] = "idle"
        /\ m_lstTasks' = [m_lstTasks EXCEPT ![i] = SubSeq(s, 1, n)]
        /\ m_lstTmpTasks' = [m_lstTmpTasks EXCEPT ![i] = SubSeq(s, n + 1, Len(s))]
        /\ wpc' = [wpc EXCEPT ![i] = "pass"]
        /\ UNCHANGED <<inbox, map, s_nLastThreadIndex, call, foreign, closing, undefined,
                       submitted, accepted>>
    BY DEF BeginPass
  <1> HIDE DEF n
  <1>4. /\ SubSeq(s, 1, n) \in Seq(Tasks)
        /\ ToSet(SubSeq(s, 1, n)) \subseteq ToSet(s)
        /\ SubSeq(s, n + 1, Len(s)) \in Seq(Tasks)
        /\ ToSet(SubSeq(s, n + 1, Len(s))) \subseteq ToSet(s)
    <2> HIDE DEF s
    <2>1. /\ 1 \in 1..(Len(s) + 1)
          /\ n + 1 \in 1..(Len(s) + 1)
          /\ Len(s) \in 0..Len(s)
      BY <1>1, <1>2
    <2> QED BY <1>1, <1>2, <2>1, ElementsOfSubSeq
  <1>5. /\ m_lstTasks' \in [Threads -> Seq(Tasks)]
        /\ m_lstTmpTasks' \in [Threads -> Seq(Tasks)]
        /\ wpc' \in [Threads -> WorkerPC]
        /\ \A j \in Threads :
            /\ m_lstTasks'[j] = IF j = i THEN SubSeq(s, 1, n) ELSE m_lstTasks[j]
            /\ m_lstTmpTasks'[j] =
                   IF j = i THEN SubSeq(s, n + 1, Len(s)) ELSE m_lstTmpTasks[j]
            /\ wpc'[j] = IF j = i THEN "pass" ELSE wpc[j]
    <2>1. /\ m_lstTasks \in [Threads -> Seq(Tasks)]
          /\ m_lstTmpTasks \in [Threads -> Seq(Tasks)]
          /\ wpc \in [Threads -> WorkerPC]
      BY <1>1 DEF Shared, Typed
    <2>2. "pass" \in WorkerPC
      BY DEF WorkerPC
    <2> HIDE DEF s
    <2> QED BY <1>3, <1>4, <2>1, <2>2
  <1>6. ListsKept
    <2> SUFFICES ASSUME NEW j \in Threads
                 PROVE  /\ Waiting(j)' \subseteq Waiting(j)
                        /\ ToSet(m_lstTmpTasks[j])' \subseteq ToSet(m_lstTmpTasks[j])
      BY DEF ListsKept
    <2>1. /\ ToSet(m_lstTmpTasks[j])' = ToSet(m_lstTmpTasks'[j])
          /\ ToSet(m_lstTasks[j])' = ToSet(m_lstTasks'[j])
          /\ Waiting(j)' = ToSet(m_lstTmpTasks[j])' \cup ToSet(m_lstTasks[j])'
      BY DEF ToSet, Waiting
    <2> QED BY <1>4, <1>5, <2>1 DEF Waiting
  <1>7. Shared'
    <2>1. Typed'
      BY <1>1, <1>3, <1>5 DEF Shared, Typed, map
    <2>2. Indices'
      BY <1>1, <1>3 DEF Shared, Indices, Stranger, map
    <2>3. Workers'
      BY <1>1, <1>3, <1>5 DEF Shared, Workers, Busy
    <2> QED BY <2>1, <2>2, <2>3 DEF Shared
  <1> QED BY <1>3, <1>6, <1>7, AllKept, NoCallMoves DEF map

LEMMA FinishTaskKeepsInv ==
    ASSUME IInv, NEW i \in Threads, FinishTask(i)
    PROVE  IInv'
  <1> DEFINE s == m_lstTasks[i]
  <1>1. /\ Busy(i)
        /\ inbox' = inbox \cup {Head(s)}
        /\ m_lstTasks' = [m_lstTasks EXCEPT ![i] = Tail(s)]
        /\ wpc' = [wpc EXCEPT ![i] = "pass"]
        /\ UNCHANGED <<m_lstTmpTasks, map, s_nLastThreadIndex, call, foreign, closing,
                       undefined, submitted, accepted>>
    BY DEF FinishTask
  <1>2. Shared /\ s \in Seq(Tasks) /\ s # <<>>
    BY <1>1 DEF IInv, Shared, Typed, Workers
  <1>3. /\ Head(s) \in Tasks
        /\ Tail(s) \in Seq(Tasks)
        /\ ToSet(Tail(s)) \subseteq ToSet(s)
    BY <1>2, ElementsOfTail
  <1>4. /\ m_lstTasks' \in [Threads -> Seq(Tasks)]
        /\ wpc' \in [Threads -> WorkerPC]
        /\ \A j \in Threads :
            /\ m_lstTasks'[j] = IF j = i THEN Tail(s) ELSE m_lstTasks[j]
            /\ wpc'[j] = IF j = i THEN "pass" ELSE wpc[j]
    <2>1. /\ m_lstTasks \in [Threads -> Seq(Tasks)]
          /\ wpc \in [Threads -> WorkerPC]
      BY <1>2 DEF Shared, Typed
    <2>2. "pass" \in WorkerPC
      BY DEF WorkerPC
    <2> HIDE DEF s
    <2> QED BY <1>1, <1>3, <2>1, <2>2
  <1>5. ListsKept
    <2>1. ASSUME NEW j \in Threads
          PROVE  /\ ToSet(m_lstTmpTasks[j])' \subseteq ToSet(m_lstTmpTasks[j])
                 /\ ToSet(m_lstTasks[j])' \subseteq ToSet(m_lstTasks[j])
      <3>1. ToSet(m_lstTmpTasks[j])' = ToSet(m_lstTmpTasks[j])
        BY <1>1 DEF ToSet
      <3>2. ToSet(m_lstTasks[j])' = ToSet(m_lstTasks'[j])
        BY DEF ToSet
      <3> QED BY <1>3, <1>4, <3>1, <3>2
    <2> QED BY <2>1, FewerTasks
  <1>6. Shared'
    <2>1. inbox' \subseteq Tasks
      BY <1>1, <1>2, <1>3 DEF Shared, Typed
    <2>2. Typed'
      BY <1>1, <1>2, <1>4, <2>1 DEF Shared, Typed, map
    <2>3. Indices'
      BY <1>1, <1>2 DEF Shared, Indices, Stranger, map
    <2>4. Workers'
      BY <1>1, <1>2, <1>4 DEF Shared, Workers, Busy
    <2> QED BY <2>2, <2>3, <2>4 DEF Shared
  <1> QED BY <1>1, <1>5, <1>6, AllKept, NoCallMoves DEF map

(* RunHandler and EndPass move only the thread.                              *)
LEMMA WorkerMoves ==
    ASSUME IInv, NEW i \in Threads, NEW pc \in {"idle", "run"},
           pc = "run" => m_lstTasks[i] # <<>>,
           wpc' = [wpc EXCEPT ![i] = pc],
           UNCHANGED <<m_lstTmpTasks, m_lstTasks, inbox, map, s_nLastThreadIndex, call,
                       foreign, closing, undefined, submitted, accepted>>
    PROVE  IInv'
  <1>1. Shared /\ wpc \in [Threads -> WorkerPC]
    BY DEF IInv, Shared, Typed
  <1>2. /\ wpc' \in [Threads -> WorkerPC]
        /\ \A j \in Threads : wpc'[j] = IF j = i THEN pc ELSE wpc[j]
    BY <1>1 DEF WorkerPC
  <1>3. Shared'
    <2>1. Typed'
      BY <1>1, <1>2 DEF Shared, Typed, map
    <2>2. Indices'
      BY <1>1 DEF Shared, Indices, Stranger, map
    <2>3. Workers'
      BY <1>1, <1>2 DEF Shared, Workers, Busy
    <2> QED BY <2>1, <2>2, <2>3 DEF Shared
  <1>4. ListsKept
    BY SameLists
  <1> QED BY <1>3, <1>4, AllKept, NoCallMoves DEF map

LEMMA WorkerStepKeepsInv ==
    ASSUME IInv, NEW i \in Threads, WorkerStep(i)
    PROVE  IInv'
  <1>1. CASE BeginPass(i)
    BY <1>1, BeginPassKeepsInv
  <1>2. CASE RunHandler(i)
    BY <1>2, WorkerMoves DEF RunHandler
  <1>3. CASE FinishTask(i)
    BY <1>3, FinishTaskKeepsInv
  <1>4. CASE EndPass(i)
    BY <1>4, WorkerMoves DEF EndPass
  <1> QED BY <1>1, <1>2, <1>3, <1>4 DEF WorkerStep

LEMMA DeleteThreadKeepsInv ==
    ASSUME IInv, NEW i \in Threads, DeleteThread(i)
    PROVE  IInv'
  <1>1. /\ closing
        /\ wpc' = [wpc EXCEPT ![i] = "gone"]
        /\ m_lstTmpTasks' = [m_lstTmpTasks EXCEPT ![i] = <<>>]
        /\ UNCHANGED <<m_lstTasks, inbox, map, s_nLastThreadIndex, call, foreign, undefined,
                       closing, submitted, accepted>>
    BY DEF DeleteThread
  <1>2. /\ Shared
        /\ wpc \in [Threads -> WorkerPC]
        /\ m_lstTmpTasks \in [Threads -> Seq(Tasks)]
        /\ <<>> \in Seq(Tasks)
    BY EmptySeq DEF IInv, Shared, Typed
  <1>3. /\ wpc' \in [Threads -> WorkerPC]
        /\ \A j \in Threads : wpc'[j] = IF j = i THEN "gone" ELSE wpc[j]
    BY <1>1, <1>2 DEF WorkerPC
  <1>4. /\ m_lstTmpTasks' \in [Threads -> Seq(Tasks)]
        /\ \A j \in Threads : m_lstTmpTasks'[j] = IF j = i THEN <<>> ELSE m_lstTmpTasks[j]
    BY <1>1, <1>2
  <1>5. ListsKept
    <2>1. ASSUME NEW j \in Threads
          PROVE  /\ ToSet(m_lstTmpTasks[j])' \subseteq ToSet(m_lstTmpTasks[j])
                 /\ ToSet(m_lstTasks[j])' \subseteq ToSet(m_lstTasks[j])
      <3>1. ToSet(m_lstTasks[j])' = ToSet(m_lstTasks[j])
        BY <1>1 DEF ToSet
      <3>2. ToSet(m_lstTmpTasks[j])' = ToSet(m_lstTmpTasks'[j])
        BY DEF ToSet
      <3>3. ToSet(<<>>) = {}
        BY EmptySeq DEF ToSet
      <3> QED BY <1>4, <3>1, <3>2, <3>3
    <2> QED BY <2>1, FewerTasks
  <1>6. Shared'
    <2>1. Typed'
      BY <1>1, <1>2, <1>3, <1>4 DEF Shared, Typed, map
    <2>2. Indices'
      BY <1>1, <1>2 DEF Shared, Indices, Stranger, map
    <2>3. Workers'
      BY <1>1, <1>2, <1>3 DEF Shared, Workers, Busy
    <2> QED BY <2>1, <2>2, <2>3 DEF Shared
  <1> QED BY <1>1, <1>5, <1>6, AllKept, NoCallMoves DEF map
-----------------------------------------------------------------------------
(* The pool's own thread, its destructor and the rest of the process.        *)
LEMMA HandleMessageKeepsInv ==
    ASSUME IInv, HandleMessage
    PROVE  IInv'
  <1>1. PICK wparam \in inbox :
            /\ inbox' = inbox \ {wparam}
            /\ m_mapTaskThreadMap' =
                 [id \in DOMAIN m_mapTaskThreadMap \ {wparam} |-> m_mapTaskThreadMap[id]]
    BY DEF HandleMessage
  <1>2. UNCHANGED <<m_lstTmpTasks, m_lstTasks, wpc, m_mtxTaskThreadMap, s_nLastThreadIndex,
                    call, foreign, closing, undefined, submitted, accepted>>
    BY DEF HandleMessage
  <1>3. Shared
    BY DEF IInv
  <1>4. Typed'
    BY <1>1, <1>2, <1>3 DEF Shared, Typed
  <1>5. Indices'
    BY <1>1, <1>2, <1>3 DEF Shared, Indices, Stranger
  <1>6. Workers'
    BY <1>2, <1>3 DEF Shared, Workers, Busy
  <1>7. Shared' /\ ListsKept
    BY <1>2, <1>4, <1>5, <1>6, SameLists DEF Shared
  <1> QED BY <1>2, <1>7, AllKept, NoCallMoves

LEMMA BeginDestroyKeepsInv ==
    ASSUME IInv, BeginDestroy
    PROVE  IInv'
  <1>1. /\ \A c \in Callers : call[c].pc = "none"
        /\ closing' = TRUE
        /\ UNCHANGED <<threads, map, s_nLastThreadIndex, call, foreign, undefined,
                       submitted, accepted>>
    BY DEF BeginDestroy
  <1>2. Shared /\ \A a \in Actors : Argument(a)
    BY DEF IInv, Actor
  <1>3. \A a \in Actors : Kept(a)
    BY <1>1, <1>2 DEF Kept, Argument, Stranger, map
  <1>4. Typed'
    BY <1>1, <1>2 DEF Shared, Typed, threads, map
  <1>5. Indices' /\ Workers'
    BY <1>1, <1>2 DEF Shared, Indices, Stranger, Workers, Busy, threads, map
  <1>6. Shared' /\ ListsKept
    BY <1>1, <1>4, <1>5, SameLists DEF Shared, threads
  <1> QED BY <1>1, <1>3, <1>6, NoCallMoves

LEMMA OtherPoolChoosesKeepsInv ==
    ASSUME IInv, OtherPoolChooses
    PROVE  IInv'
  <1>1. /\ foreign < MaxForeign
        /\ foreign' = foreign + 1
        /\ s_nLastThreadIndex' \in 0..(OtherNums - 1)
        /\ UNCHANGED <<threads, map, call, closing, undefined, submitted, accepted>>
    BY DEF OtherPoolChooses
  <1>2. Shared /\ foreign \in 0..MaxForeign /\ \A a \in Actors : Argument(a)
    BY DEF IInv, Shared, Typed, Actor
  <1>3. foreign' \in 0..MaxForeign /\ foreign' > 0
    BY <1>1, <1>2, IdleThreadManagerAssumption
  <1>4. /\ s_nLastThreadIndex' # -1
        /\ s_nLastThreadIndex' \in -1..4
        /\ s_nLastThreadIndex' \in Threads \/ OtherNums > m_nThreadNums
    <2>1. ASSUME NEW x \in 0..(OtherNums - 1)
          PROVE  x # -1 /\ x \in -1..4 /\ (x \in 0..(m_nThreadNums - 1) \/ OtherNums > m_nThreadNums)
      BY IdleThreadManagerAssumption
    <2> QED BY <1>1, <2>1 DEF Threads
  <1>5. Stranger => Stranger'
    BY <1>3 DEF Stranger
  <1>6. \A a \in Actors : Kept(a)
    BY <1>1, <1>2, <1>4, <1>5 DEF Kept, Argument, map
  <1>7. Typed'
    BY <1>1, <1>2, <1>3, <1>4 DEF Shared, Typed, threads, map
  <1>8. Indices'
    <2>1. s_nLastThreadIndex' \in Threads \/ Stranger'
      BY <1>3, <1>4 DEF Stranger
    <2> QED BY <1>1, <1>2, <1>5, <2>1 DEF Shared, Indices, map
  <1>9. Workers'
    BY <1>1, <1>2 DEF Shared, Workers, Busy, threads
  <1>10. Shared' /\ ListsKept
    BY <1>1, <1>7, <1>8, <1>9, SameLists DEF Shared, threads
  <1> QED BY <1>1, <1>6, <1>10, NoCallMoves

LEMMA GoesWrongKeepsInv ==
    ASSUME IInv, GoesWrong
    PROVE  IInv'
  <1>1. /\ undefined' = TRUE
        /\ UNCHANGED <<threads, map, s_nLastThreadIndex, call, foreign, closing, submitted,
                       accepted>>
    BY DEF GoesWrong
  <1>2. Shared
    BY DEF IInv
  <1>3. Typed'
    BY <1>1, <1>2 DEF Shared, Typed, threads, map
  <1>4. Indices' /\ Workers'
    BY <1>1, <1>2 DEF Shared, Indices, Stranger, Workers, Busy, threads, map
  <1>5. Shared' /\ ListsKept
    BY <1>1, <1>3, <1>4, SameLists DEF Shared, threads
  <1> QED BY <1>1, <1>5, AllKept, NoCallMoves DEF map
-----------------------------------------------------------------------------
LEMMA CallStepKeepsInv ==
    ASSUME IInv, NEW a \in Actors, CallStep(a)
    PROVE  IInv'
  BY ScanTmpKeepsInv, ScanTasksKeepsInv, LoadKeepsInv, ChooseKeepsInv, EnterKeepsInv,
     PushKeepsInv, FileKeepsInv, LockMapKeepsInv, CancelTmpKeepsInv, CancelTasksKeepsInv
  DEF CallStep

LEMMA StutterKeepsInv ==
    ASSUME IInv, UNCHANGED vars
    PROVE  IInv'
  <1>1. Shared'
    BY SharedKept DEF IInv, Shared, Typed, vars
  <1>2. ListsKept
    BY SameLists DEF vars, threads
  <1> QED BY <1>1, <1>2, AllKept, NoCallMoves DEF vars, map

LEMMA InvIsInductive == IInv /\ [Next]_vars => IInv'
  <1> SUFFICES ASSUME IInv, [Next]_vars
               PROVE  IInv'
    OBVIOUS
  <1>1. ASSUME NEW a \in Actors, NewCall(a)
        PROVE  IInv'
    BY <1>1, CallRunTaskKeepsInv, CallCancelTaskKeepsInv DEF NewCall
  <1>2. ASSUME NEW a \in Actors, CallStep(a)
        PROVE  IInv'
    BY <1>2, CallStepKeepsInv
  <1>3. ASSUME NEW i \in Threads, WorkerStep(i) \/ DeleteThread(i)
        PROVE  IInv'
    BY <1>3, WorkerStepKeepsInv, DeleteThreadKeepsInv
  <1>4. CASE HandleMessage
    BY <1>4, HandleMessageKeepsInv
  <1>5. CASE BeginDestroy
    BY <1>5, BeginDestroyKeepsInv
  <1>6. CASE OtherPoolChooses
    BY <1>6, OtherPoolChoosesKeepsInv
  <1>7. CASE GoesWrong
    BY <1>7, GoesWrongKeepsInv
  <1>8. CASE UNCHANGED vars
    BY <1>8, StutterKeepsInv
  <1> QED BY <1>1, <1>2, <1>3, <1>4, <1>5, <1>6, <1>7, <1>8 DEF Next

LEMMA InvAlways == Spec => []IInv
  BY InvAtStart, InvIsInductive, PTL DEF Spec

(* The lists, the map, the index and the calls keep to their types, and the  *)
(* mutex of the map is held by a call of CancelTask without an index in its  *)
(* thread's CancelTask, and by no other (607-611).                           *)
THEOREM PoolIsTyped == Spec => []TypeOK
  BY InvAlways, InvGivesTypes, PTL

(* RunTask without an index pushes a task with m_bKeepSingle only when no    *)
(* equal task that was pushed before the call waits or runs in any thread,   *)
(* however the workers move tasks between the lists meanwhile (529-538).     *)
THEOREM SearchMissesNone == Spec => []SingleAmongKnown
  BY InvAlways, InvGivesSingle, PTL

(* The array of threads is left only with the index of a pool that has more, *)
(* and a deleted thread reached only from a handler, while the destructor    *)
(* runs.                                                                     *)
THEOREM StrangersAloneGoWrong == Spec => []OnlyStrangersGoWrong
  BY InvAlways, InvGivesStrangers, PTL
=============================================================================
