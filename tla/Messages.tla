------------------------------ MODULE Messages ------------------------------
(***************************************************************************)
(* The messages of a CThread (core/thread/thread.h, msg_t) and the order   *)
(* in which CThread::GetMessage serves them.  The constants are shared by  *)
(* the abstract mailbox (Mailbox) and the thread (Thread).                 *)
(***************************************************************************)
EXTENDS Integers

CONSTANTS
    Levels,     \* the nLevel arguments in use, MAXINT among them
    MAXINT,     \* the level Stop() posts WM_QUIT at
    MsgIds,     \* the message ids that are not WM_QUIT
    WM_QUIT,    \* thread.h:32, the id that ends Execute()
    Delays,     \* the uDelay arguments of PostMessageDelay, in seconds
    TicksPerSec \* clock steps in one second of Time::CurrentTimeStamp()

ASSUME MessagesAssumption ==
    /\ Levels \subseteq Int
    /\ MAXINT \in Levels
    /\ \A l \in Levels : l =< MAXINT
    /\ WM_QUIT \notin MsgIds
    /\ Delays \subseteq Nat
    /\ TicksPerSec \in Nat \ {0}

(* msg_t.  id is the position of the message in the order of the            *)
(* push_back calls (all made under m_mutexMsgs) and stands for the          *)
(* parameters that tell it from other messages; level is the key of         *)
(* m_mapMsgs it is filed under; born is the clock when PostMessageDelay took  *)
(* the time stamp, of which tTime holds the whole seconds only (both are 0   *)
(* in a message of PostMessage).                                             *)
Message == [id      : Nat,
            level   : Levels,
            message : MsgIds \cup {WM_QUIT},
            uDelay  : Delays \cup {0},
            tTime   : Nat,
            born    : Nat]

(* The wall clock in whole seconds; the clock itself ticks finer.           *)
CurrentTimeStamp(clock) == clock \div TicksPerSec

(* The test of the scan in GetMessage: the message may be taken now.  uDelay *)
(* (32 bits) widens to the signed 64 bits of time_t on LP64, so the          *)
(* subtraction is the one of the integers.  (Faulty variant first: off by    *)
(* one second.)                                                              *)
DueOneSecondEarly(m, now) == ~(m.uDelay > 0 /\ now - m.tTime < m.uDelay - 1)
Due(m, now) == ~(m.uDelay > 0 /\ now - m.tTime < m.uDelay)

(* m is served before n when both are due: a higher level first, and inside  *)
(* a level the message pushed first.                                         *)
Precedes(m, n) ==
    \/ m.level > n.level
    \/ m.level = n.level /\ m.id < n.id
=============================================================================
