------------------------------- MODULE Mailbox -------------------------------
(***************************************************************************)
(* What a CThread promises to those who post to it, without its lists,     *)
(* locks and states: a set of pending messages, of which the one that      *)
(* precedes every other due message is taken next, until WM_QUIT is taken. *)
(* Thread implements this specification.                                   *)
(***************************************************************************)
EXTENDS Messages, Sequences

VARIABLES
    pending,    \* the messages posted and not taken
    taken,      \* the messages taken, in order, each with the moment it was
    posted,     \* how many messages have been posted
    clock       \* time, in ticks

vars == <<pending, taken, posted, clock>>

Now == CurrentTimeStamp(clock)

(* tick: the clock when the message was taken; mark: how many messages had   *)
(* been posted by then.                                                      *)
Delivery == [msg : Message, tick : Nat, mark : Nat]
Deliver(m) == [msg |-> m, tick |-> clock, mark |-> posted]

TypeOK ==
    /\ pending \subseteq Message
    /\ taken \in Seq(Delivery)
    /\ posted \in Nat
    /\ clock \in Nat

Init ==
    /\ pending = {}
    /\ taken = <<>>
    /\ posted = 0
    /\ clock = 0

Open == \A i \in DOMAIN taken : taken[i].msg.message # WM_QUIT

(* born: when the caller took the time stamp, now or earlier; only a delayed *)
(* message needs one.                                                        *)
Post(mid, level, delay, born, stamp) ==
    /\ delay > 0 => stamp = CurrentTimeStamp(born)
    /\ pending' = pending \cup
           {[id |-> posted + 1, level |-> level, message |-> mid,
             uDelay |-> delay, tTime |-> stamp, born |-> born]}
    /\ posted' = posted + 1
    /\ UNCHANGED <<taken, clock>>

Take(m) ==
    /\ Open
    /\ Due(m, Now)
    /\ \A n \in pending : Due(n, Now) => n = m \/ Precedes(m, n)
    /\ pending' = pending \ {m}
    /\ taken' = Append(taken, Deliver(m))
    /\ UNCHANGED <<posted, clock>>

Tick ==
    /\ clock' = clock + 1
    /\ UNCHANGED <<pending, taken, posted>>

Next ==
    \/ \E mid \in MsgIds \cup {WM_QUIT}, l \in Levels, d \in Delays \cup {0},
          b \in 0..clock : \E s \in {0, CurrentTimeStamp(b)} : Post(mid, l, d, b, s)
    \/ \E m \in pending : Take(m)
    \/ Tick

Spec == Init /\ [][Next]_vars
-----------------------------------------------------------------------------
TakenMsg(i) == taken[i].msg

(* A message whose turn had come is never passed over: when a message was    *)
(* taken, every message already posted and due that was still in the mailbox *)
(* comes after it in the order of Precedes, whether it was taken since or is *)
(* still pending (the scan of CThread::GetMessage).                          *)
ServedInOrder ==
    \A i \in DOMAIN taken :
        LET h == taken[i]
            Overdue(m) == m.id =< h.mark /\ Due(m, CurrentTimeStamp(h.tick))
        IN  /\ \A m \in pending : Overdue(m) => Precedes(h.msg, m)
            /\ \A j \in DOMAIN taken :
                   j > i /\ Overdue(TakenMsg(j)) => Precedes(h.msg, TakenMsg(j))

(* A delayed message never arrives a whole second early: PostMessageDelay    *)
(* compares whole seconds of the wall clock, so a delay of d seconds can     *)
(* lose the fraction of a second the posting fell in and no more.            *)
NeverASecondEarly ==
    \A i \in DOMAIN taken :
        TakenMsg(i).uDelay > 0 =>
            taken[i].tick - TakenMsg(i).born > (TakenMsg(i).uDelay - 1) * TicksPerSec

(* Every message pushed is in exactly one place: pending, or taken once.     *)
NothingLost ==
    /\ {m.id : m \in pending} \cup {TakenMsg(i).id : i \in DOMAIN taken} = 1..posted
    /\ \A m \in pending, i \in DOMAIN taken : m.id # TakenMsg(i).id
    /\ \A m, n \in pending : m.id = n.id => m = n
    /\ \A i, j \in DOMAIN taken : TakenMsg(i).id = TakenMsg(j).id => i = j

(* WM_QUIT is the last message a thread takes; what is behind it stays.      *)
QuitIsLast ==
    \A i \in DOMAIN taken : TakenMsg(i).message = WM_QUIT => i = Len(taken)
=============================================================================
