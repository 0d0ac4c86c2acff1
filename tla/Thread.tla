-------------------------------- MODULE Thread --------------------------------
(***************************************************************************)
(* CThread (core/thread/thread.{h,cpp}), the POSIX build: a worker thread  *)
(* with a message queue, an owner that constructs, suspends, resumes and   *)
(* stops it, and threads that post to it.  Every call that holds           *)
(* m_mutexMsgs from its first access of m_mapMsgs to its last is one step; *)
(* m_eThreadState, which no lock protects, is read and written in steps of *)
(* its own, and so are the signal and the wait on m_conPause.              *)
(***************************************************************************)
EXTENDS Messages, Sequences, SequencesExt, FiniteSetsExt

CONSTANTS
    Posters,    \* the threads that call PostMessage and PostMessageDelay
    NoDraft,    \* a poster is not inside PostMessageDelay
    MaxPosts,   \* bound: calls that post, the ones of Stop() not counted
    MaxClock    \* bound: ticks of the clock

ASSUME ThreadAssumption ==
    /\ MaxPosts \in Nat
    /\ MaxClock \in Nat
    /\ NoDraft \notin Message

VARIABLES
    m_mapMsgs,      \* thread.h:103, level -> list of messages
    m_eThreadState, \* thread.h:101
    worker,         \* where Execute() is
    msg,            \* the local of Execute() that GetMessage fills
    owner,          \* where the owner's call is
    cancelled,      \* pthread_cancel was called on the worker
    draft,          \* per poster, the message stamped and not pushed yet
    posted,         \* how many messages were pushed
    clock,          \* the clock of Time::CurrentTimeStamp(), in ticks
    taken,          \* history: the messages GetMessage returned
    sinceSuspend    \* history: how many of them since Suspend() was called

vars == <<m_mapMsgs, m_eThreadState, worker, msg, owner, cancelled, draft,
          posted, clock, taken, sinceSuspend>>

ThreadState == {"TS_WORKING", "TS_SUSPENDED"}

(* check: at the test of m_eThreadState (231); wait: about to enter          *)
(* pthread_cond_wait (234); blocked: inside it; get: at GetMessage (242);    *)
(* handle: in HandleMessage (245); execute: in OnExecute (247); sleep: in    *)
(* Sleep (248); exited: Execute returned; dead: the thread was cancelled.    *)
WorkerPC == {"check", "wait", "blocked", "get", "handle", "execute", "sleep",
             "exited", "dead"}

(* created: in CThread(true), before Suspend(); idle: in no call; signal: in *)
(* Resume between the store and pthread_cond_signal; join: in Stop(), in     *)
(* pthread_join; stopped: the subclass destructor's Stop() returned;         *)
(* destroyed: ~CThread returned.                                             *)
OwnerPC == {"created", "idle", "signal", "join", "stopped", "destroyed"}

(* The mailbox a thread implements: what lies in its lists, in any order.    *)
Queued(l) == ToSet(m_mapMsgs[l])
Pending == UNION {Queued(l) : l \in Levels}
MB == INSTANCE Mailbox WITH pending <- Pending

(* Every message lies in the list of its own level.                          *)
TypeOK ==
    /\ m_mapMsgs \in [Levels -> Seq(Message)]
    /\ \A l \in Levels : \A i \in DOMAIN m_mapMsgs[l] : m_mapMsgs[l][i].level = l
    /\ m_eThreadState \in ThreadState
    /\ worker \in WorkerPC
    /\ msg \in Message \cup {NoDraft}
    /\ owner \in OwnerPC
    /\ cancelled \in BOOLEAN
    /\ draft \in [Posters -> Message \cup {NoDraft}]
    /\ posted \in Nat
    /\ clock \in Nat
    /\ taken \in Seq(MB!Delivery)
    /\ sinceSuspend \in Nat
-----------------------------------------------------------------------------
(* The constructor (9-31) up to pthread_create; CThread(true) has Suspend()  *)
(* still to call, on a worker that already runs.                             *)
Init ==
    /\ m_mapMsgs = [l \in Levels |-> <<>>]
    /\ m_eThreadState = "TS_WORKING"
    /\ worker = "check"
    /\ msg = NoDraft
    /\ owner \in {"created", "idle"}
    /\ cancelled = FALSE
    /\ draft = [p \in Posters |-> NoDraft]
    /\ posted = 0
    /\ clock = 0
    /\ taken = <<>>
    /\ sinceSuspend = 0
-----------------------------------------------------------------------------
(* Posting.                                                                  *)

NewMessage(mid, delay, stamp, level, born) ==
    [id |-> 0, message |-> mid, uDelay |-> delay, tTime |-> stamp,
     level |-> level, born |-> born]

(* Faulty variants: push_front, and nLevel ignored.                          *)
PushFront(m) ==
    /\ m_mapMsgs' = [m_mapMsgs EXCEPT ![m.level] =
                        <<[m EXCEPT !.id = posted + 1]>> \o @]
    /\ posted' = posted + 1

PushAtTop(m) ==
    /\ m_mapMsgs' = [m_mapMsgs EXCEPT ![MAXINT] =
                        Append(@, [m EXCEPT !.id = posted + 1])]
    /\ posted' = posted + 1

(* m_mapMsgs[nLevel].push_back(msg), under m_mutexMsgs.                      *)
Push(m) ==
    /\ m_mapMsgs' = [m_mapMsgs EXCEPT ![m.level] =
                        Append(@, [m EXCEPT !.id = posted + 1])]
    /\ posted' = posted + 1

(* PostMessage leaves uDelay and tTime at 0.                                 *)
PostMessage(mid, level) == Push(NewMessage(mid, 0, 0, level, 0))

PosterPosts(p) ==
    /\ owner # "destroyed"
    /\ posted < MaxPosts
    /\ draft[p] = NoDraft
    /\ \E mid \in MsgIds, l \in Levels : PostMessage(mid, l)
    /\ UNCHANGED <<m_eThreadState, worker, msg, owner, cancelled, draft, clock,
                   taken, sinceSuspend>>

(* PostMessageDelay takes the time stamp before it takes m_mutexMsgs ...     *)
PosterStamps(p) ==
    /\ owner # "destroyed"
    /\ posted < MaxPosts
    /\ draft[p] = NoDraft
    /\ \E mid \in MsgIds, d \in Delays, l \in Levels :
           draft' = [draft EXCEPT ![p] =
                        NewMessage(mid, d, CurrentTimeStamp(clock), l, clock)]
    /\ UNCHANGED <<m_mapMsgs, m_eThreadState, worker, msg, owner, cancelled,
                   posted, clock, taken, sinceSuspend>>

(* ... and pushes the message with the stamp it has by then.                 *)
PosterPushes(p) ==
    /\ draft[p] # NoDraft
    /\ Push(draft[p])
    /\ draft' = [draft EXCEPT ![p] = NoDraft]
    /\ UNCHANGED <<m_eThreadState, worker, msg, owner, cancelled, clock, taken,
                   sinceSuspend>>
-----------------------------------------------------------------------------
(* The worker: one round of the loop of Execute().                           *)

(* Faulty variant: the suspended state is not looked at.                     *)
CheckIgnoresState ==
    /\ worker = "check"
    /\ worker' = "get"
    /\ UNCHANGED <<m_mapMsgs, m_eThreadState, msg, owner, cancelled, draft,
                   posted, clock, taken, sinceSuspend>>

(* The test of m_eThreadState, without a lock (231).                         *)
CheckState ==
    /\ worker = "check"
    /\ worker' = IF m_eThreadState = "TS_SUSPENDED" THEN "wait" ELSE "get"
    /\ UNCHANGED <<m_mapMsgs, m_eThreadState, msg, owner, cancelled, draft,
                   posted, clock, taken, sinceSuspend>>

(* m_mtxPause is taken by no other thread: entering the wait needs no one.   *)
CondWait ==
    /\ ~cancelled
    /\ worker = "wait"
    /\ worker' = "blocked"
    /\ UNCHANGED <<m_mapMsgs, m_eThreadState, msg, owner, cancelled, draft,
                   posted, clock, taken, sinceSuspend>>

(* pthread_cond_wait may return without a signal.                            *)
SpuriousWakeup ==
    /\ ~cancelled
    /\ worker = "blocked"
    /\ worker' = "check"
    /\ UNCHANGED <<m_mapMsgs, m_eThreadState, msg, owner, cancelled, draft,
                   posted, clock, taken, sinceSuspend>>

(* The positions of level l that the inner loop (296-301) would stop at.     *)
DueAt(l) ==
    {i \in DOMAIN m_mapMsgs[l] : Due(m_mapMsgs[l][i], CurrentTimeStamp(clock))}

(* Faulty variant: the map is walked from its lowest level.                  *)
LowestLevel ==
    CHOOSE l \in Levels : DueAt(l) # {} /\ \A h \in Levels : h < l => DueAt(h) = {}

(* The level at which the outer loop (286-315) finds a message.              *)
ServedLevel ==
    CHOOSE l \in Levels : DueAt(l) # {} /\ \A h \in Levels : h > l => DueAt(h) = {}

SomethingDue == \E l \in Levels : DueAt(l) # {}

(* msglist.erase(it).                                                        *)
Erase(q, i) == RemoveAt(q, i)

(* GetMessage, all of it under m_mutexMsgs: the first due message of the     *)
(* highest level that has one.  Nodes of m_mapMsgs whose list is empty are   *)
(* erased on the way (289-293), which no operation can tell.                 *)
GetMessage ==
    /\ SomethingDue
    /\ LET q == m_mapMsgs[ServedLevel]
           i == Min(DueAt(ServedLevel))
       IN  /\ m_mapMsgs' = [m_mapMsgs EXCEPT ![ServedLevel] = Erase(q, i)]
           /\ msg' = q[i]
           /\ taken' = Append(taken, MB!Deliver(q[i]))
    /\ sinceSuspend' = sinceSuspend + 1

(* Faulty variant: WM_QUIT is handled like any other message.                *)
TakeQuitAsMessage ==
    /\ worker = "get"
    /\ GetMessage
    /\ worker' = "handle"
    /\ UNCHANGED <<m_eThreadState, owner, cancelled, draft, posted, clock>>

(* WM_QUIT breaks the loop, whoever posted it; every other message is        *)
(* handled.                                                                  *)
TakeMessage ==
    /\ worker = "get"
    /\ GetMessage
    /\ worker' = IF msg'.message = WM_QUIT THEN "exited" ELSE "handle"
    /\ UNCHANGED <<m_eThreadState, owner, cancelled, draft, posted, clock>>

(* GetMessage found nothing due (242).                                       *)
TakeNothing ==
    /\ worker = "get"
    /\ ~SomethingDue
    /\ worker' = "execute"
    /\ UNCHANGED <<m_mapMsgs, m_eThreadState, msg, owner, cancelled, draft,
                   posted, clock, taken, sinceSuspend>>

(* HandleMessage, which may itself post to this thread.                      *)
HandleMessage ==
    /\ worker = "handle"
    /\ worker' = "execute"
    /\ msg' = NoDraft
    /\ \/ UNCHANGED <<m_mapMsgs, posted>>
       \/ /\ posted < MaxPosts
          /\ \E mid \in MsgIds, l \in Levels : PostMessage(mid, l)
    /\ UNCHANGED <<m_eThreadState, owner, cancelled, draft, clock, taken,
                   sinceSuspend>>

OnExecute ==
    /\ worker = "execute"
    /\ worker' = "sleep"
    /\ UNCHANGED <<m_mapMsgs, m_eThreadState, msg, owner, cancelled, draft,
                   posted, clock, taken, sinceSuspend>>

SleepOver ==
    /\ ~cancelled
    /\ worker = "sleep"
    /\ worker' = "check"
    /\ UNCHANGED <<m_mapMsgs, m_eThreadState, msg, owner, cancelled, draft,
                   posted, clock, taken, sinceSuspend>>

(* A cancelled thread ends at a cancellation point: pthread_cond_wait or the *)
(* usleep of Sleep().                                                        *)
Die ==
    /\ cancelled
    /\ worker \in {"wait", "blocked", "sleep"}
    /\ worker' = "dead"
    /\ UNCHANGED <<m_mapMsgs, m_eThreadState, msg, owner, cancelled, draft,
                   posted, clock, taken, sinceSuspend>>
-----------------------------------------------------------------------------
(* The owner.                                                                *)

(* Suspend() from the constructor and from the owner's code: a store, no     *)
(* hand-shake with the worker.                                               *)
Suspend ==
    /\ owner \in {"created", "idle"}
    /\ owner' = "idle"
    /\ m_eThreadState = "TS_WORKING"
    /\ m_eThreadState' = "TS_SUSPENDED"
    /\ sinceSuspend' = 0
    /\ UNCHANGED <<m_mapMsgs, worker, msg, cancelled, draft, posted, clock,
                   taken>>

Resume ==
    /\ owner = "idle"
    /\ m_eThreadState = "TS_SUSPENDED"
    /\ m_eThreadState' = "TS_WORKING"
    /\ owner' = "signal"
    /\ UNCHANGED <<m_mapMsgs, worker, msg, cancelled, draft, posted, clock,
                   taken, sinceSuspend>>

(* pthread_cond_signal: it wakes a worker that waits and is lost otherwise.  *)
Signal ==
    /\ owner = "signal"
    /\ owner' = "idle"
    /\ worker' = IF worker = "blocked" THEN "check" ELSE worker
    /\ UNCHANGED <<m_mapMsgs, m_eThreadState, msg, cancelled, draft, posted,
                   clock, taken, sinceSuspend>>

StopPosts(level) == Push(NewMessage(WM_QUIT, 0, 0, level, 0))

(* Stop() of a working thread posts WM_QUIT and joins ...                    *)
StopWorking ==
    /\ owner = "idle"
    /\ m_eThreadState = "TS_WORKING"
    /\ StopPosts(MAXINT)
    /\ owner' = "join"
    /\ UNCHANGED <<m_eThreadState, worker, msg, cancelled, draft, clock, taken,
                   sinceSuspend>>

Join ==
    /\ owner = "join"
    /\ worker \in {"exited", "dead"}
    /\ owner' = "stopped"
    /\ UNCHANGED <<m_mapMsgs, m_eThreadState, worker, msg, cancelled, draft,
                   posted, clock, taken, sinceSuspend>>

(* ... and of a suspended thread cancels it and does not wait.               *)
StopSuspended ==
    /\ owner = "idle"
    /\ m_eThreadState = "TS_SUSPENDED"
    /\ cancelled' = TRUE
    /\ owner' = "stopped"
    /\ UNCHANGED <<m_mapMsgs, m_eThreadState, worker, msg, draft, posted, clock,
                   taken, sinceSuspend>>

(* ~CThread calls Stop() once more.  The state is what it was: a second      *)
(* WM_QUIT is pushed and the thread joined again, which for a thread already *)
(* joined is undefined (the C library returns ESRCH), or it is cancelled     *)
(* again.                                                                    *)
Destroy ==
    /\ owner = "stopped"
    /\ owner' = "destroyed"
    /\ \/ m_eThreadState = "TS_WORKING" /\ StopPosts(MAXINT)
       \/ m_eThreadState = "TS_SUSPENDED" /\ UNCHANGED <<m_mapMsgs, posted>>
    /\ UNCHANGED <<m_eThreadState, worker, msg, cancelled, draft, clock, taken,
                   sinceSuspend>>
-----------------------------------------------------------------------------
Tick ==
    /\ clock < MaxClock
    /\ clock' = clock + 1
    /\ UNCHANGED <<m_mapMsgs, m_eThreadState, worker, msg, owner, cancelled,
                   draft, posted, taken, sinceSuspend>>

WorkerStep ==
    \/ CheckState
    \/ CondWait
    \/ TakeMessage
    \/ TakeNothing
    \/ HandleMessage
    \/ OnExecute
    \/ SleepOver
    \/ Die

OwnerCall == Suspend \/ Resume \/ StopWorking \/ StopSuspended \/ Destroy

PosterStep(p) == PosterPosts(p) \/ PosterStamps(p) \/ PosterPushes(p)

Next ==
    \/ WorkerStep
    \/ SpuriousWakeup
    \/ OwnerCall
    \/ Signal
    \/ Join
    \/ \E p \in Posters : PosterStep(p)
    \/ Tick

Spec == Init /\ [][Next]_vars

(* The scheduler runs every thread that can run; what the owner does next,   *)
(* when posters post and whether pthread_cond_wait wakes by itself is not    *)
(* promised.                                                                 *)
Fairness ==
    /\ WF_vars(WorkerStep)
    /\ WF_vars(Signal \/ Join)
    /\ \A p \in Posters : WF_vars(PosterPushes(p))
    /\ WF_vars(Tick)

FairSpec == Spec /\ Fairness
-----------------------------------------------------------------------------
(* The lists, filed by level and scanned for due messages, implement the     *)
(* abstract mailbox (PostMessage, PostMessageDelay, GetMessage, Stop).       *)
MailboxSpec == MB!Spec

(* GetMessage never passes over a message that was due and comes first.      *)
ServedInOrder == MB!ServedInOrder

(* GetMessage never returns a delayed message a whole second early.          *)
NeverASecondEarly == MB!NeverASecondEarly

(* A message pushed is in one list or was returned once, also when the       *)
(* thread quits or is cancelled between the two.                             *)
NothingLost == MB!NothingLost

(* Suspend() does not wait for the worker, which may have passed the test of *)
(* the state already; still it takes at most one more message.               *)
SuspendHolds == m_eThreadState = "TS_SUSPENDED" => sinceSuspend =< 1

(* Stop() of a working thread returns, whatever is queued, unless the wake-up *)
(* of an earlier Resume() was lost.                                           *)
StopReturns == owner = "join" ~> owner # "join" \/ worker = "blocked"

(* idle_thread.h:98, a thread created suspended is to be started by Resume(): *)
(* once Resume() has returned the worker leaves the wait on m_conPause,       *)
(* unless the owner suspends or stops it.                                     *)
ResumeWakes ==
    (m_eThreadState = "TS_WORKING" /\ owner = "idle")
        ~> \/ worker # "blocked"
           \/ m_eThreadState = "TS_SUSPENDED"
           \/ owner # "idle"
=============================================================================
