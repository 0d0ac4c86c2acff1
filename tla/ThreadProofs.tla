----------------------------- MODULE ThreadProofs -----------------------------
(***************************************************************************)
(* A CThread implements the abstract mailbox, for every set of posters,    *)
(* levels, ids and delays: its lists, filed by level in the order of their *)
(* ids, hold the pending messages, and the first due message of the        *)
(* highest level that has one is the one that precedes all others.  What   *)
(* was proved about the mailbox is thus true of the thread.                *)
(***************************************************************************)
EXTENDS Thread, BasicLemmas

(* A list holds messages of its own level, pushed in the order they lie in.  *)
Filed(q, l, last) ==
    /\ \A i \in 1..Len(q) : q[i].level = l /\ q[i].id =< last
    /\ \A i, j \in 1..Len(q) : i < j => q[i].id < q[j].id

Lists ==
    /\ m_mapMsgs \in [Levels -> Seq(Message)]
    /\ posted \in Nat
    /\ \A l \in Levels : Filed(m_mapMsgs[l], l, posted)

(* A message stamped and not yet pushed: its stamp is the second it was      *)
(* stamped in.                                                               *)
Drafts ==
    \A p \in Posters :
        draft[p] # NoDraft =>
            /\ draft[p].tTime = CurrentTimeStamp(draft[p].born)
            /\ draft[p].born =< clock

(* Execute() returns when it has taken WM_QUIT.                              *)
QuitEnds == worker \notin {"exited", "dead"} => MB!Open

(* A suspended worker that has yet to call GetMessage has taken nothing.     *)
Holds ==
    m_eThreadState = "TS_SUSPENDED" =>
        /\ sinceSuspend =< 1
        /\ worker = "get" => sinceSuspend = 0

IInv == TypeOK /\ Lists /\ Drafts /\ QuitEnds /\ Holds

-----------------------------------------------------------------------------
(* The list operations.                                                      *)

LEMMA MessageFields ==
    ASSUME NEW m \in Message
    PROVE  /\ m.id \in Nat /\ m.level \in Levels
           /\ m.message \in MsgIds \cup {WM_QUIT}
           /\ m.uDelay \in Delays \cup {0} /\ m.tTime \in Nat /\ m.born \in Nat
           /\ m = [id |-> m.id, level |-> m.level, message |-> m.message,
                   uDelay |-> m.uDelay, tTime |-> m.tTime, born |-> m.born]
  BY DEF Message

LEMMA ListIds ==
    ASSUME NEW q \in Seq(Message)
    PROVE  \A i \in 1..Len(q) : q[i] \in Message /\ q[i].id \in Nat
  <1>1. \A i \in 1..Len(q) : q[i] \in Message
    OBVIOUS
  <1> QED BY <1>1, MessageFields

(* A message with its place in the order of the pushes.                      *)
LEMMA WithId ==
    ASSUME NEW m \in Message, NEW k \in Nat
    PROVE  /\ [m EXCEPT !.id = k] \in Message
           /\ [m EXCEPT !.id = k] =
                  [id |-> k, level |-> m.level, message |-> m.message,
                   uDelay |-> m.uDelay, tTime |-> m.tTime, born |-> m.born]
  BY DEF Message

LEMMA AppendFiled ==
    ASSUME NEW l \in Levels, NEW last \in Nat, NEW q \in Seq(Message),
           Filed(q, l, last),
           NEW m \in Message, m.level = l, m.id = last + 1
    PROVE  Filed(Append(q, m), l, last + 1)
  <1>1. /\ Len(Append(q, m)) = Len(q) + 1
        /\ Len(q) \in Nat
        /\ \A i \in 1..Len(q) : Append(q, m)[i] = q[i]
        /\ Append(q, m)[Len(q) + 1] = m
    OBVIOUS
  <1>2. \A i \in 1..Len(q) : q[i].id \in Nat
    BY ListIds
  <1> QED BY <1>1, <1>2 DEF Filed

LEMMA RemoveFiled ==
    ASSUME NEW l \in Levels, NEW last \in Nat, NEW q \in Seq(Message),
           Filed(q, l, last), NEW i \in 1..Len(q)
    PROVE  /\ Filed(RemoveAt(q, i), l, last)
           /\ ToSet(RemoveAt(q, i)) = ToSet(q) \ {q[i]}
  <1> DEFINE r == RemoveAt(q, i)
  <1>1. /\ r \in Seq(Message)
        /\ Len(r) = Len(q) - 1
        /\ \A j \in 1..(Len(q) - 1) : r[j] = IF j < i THEN q[j] ELSE q[j + 1]
        /\ Len(q) \in Nat
    BY RemoveAtProperties
  <1> HIDE DEF r
  <1>2. \A j \in 1..Len(q) : q[j].id \in Nat
    BY ListIds
  <1>3. Filed(r, l, last)
    <2>1. ASSUME NEW j \in 1..Len(r)
          PROVE  r[j].level = l /\ r[j].id =< last
      <3>1. /\ j \in 1..Len(q) /\ j + 1 \in 1..Len(q)
            /\ r[j] = q[j] \/ r[j] = q[j + 1]
        BY <1>1
      <3> QED BY <3>1 DEF Filed
    <2>2. ASSUME NEW j \in 1..Len(r), NEW k \in 1..Len(r), j < k
          PROVE  r[j].id < r[k].id
      <3>1. /\ j \in 1..Len(q) /\ j + 1 \in 1..Len(q)
            /\ k \in 1..Len(q) /\ k + 1 \in 1..Len(q)
            /\ j < k + 1 /\ j + 1 < k + 1
        BY <1>1, <2>2
      <3>2. \/ r[j] = q[j] /\ r[k] = q[k]
            \/ r[j] = q[j] /\ r[k] = q[k + 1]
            \/ r[j] = q[j + 1] /\ r[k] = q[k + 1]
        BY <1>1, <2>2
      <3> QED BY <2>2, <3>1, <3>2 DEF Filed
    <2> QED BY <2>1, <2>2 DEF Filed
  <1>4. ASSUME NEW j \in 1..Len(q), j # i
        PROVE  q[j] # q[i]
    BY <1>2, <1>4 DEF Filed
  <1>5. ASSUME NEW j \in 1..Len(r)
        PROVE  r[j] \in ToSet(q) \ {q[i]}
    <2>1. /\ j < i => j \in 1..Len(q) /\ j # i
          /\ ~(j < i) => j + 1 \in 1..Len(q) /\ j + 1 # i
      BY <1>1
    <2> QED BY <1>1, <1>4, <2>1, SMTT(40) DEF ToSet
  <1>6. ASSUME NEW j \in 1..Len(q), j # i
        PROVE  \E k \in 1..Len(r) : r[k] = q[j]
    <2>1. CASE j < i
      <3>1. j \in 1..Len(r)
        BY <1>1, <2>1
      <3> QED BY <1>1, <2>1, <3>1
    <2>2. CASE j > i
      <3>1. /\ j - 1 \in 1..Len(r)
            /\ ~(j - 1 < i)
            /\ (j - 1) + 1 = j
        BY <1>1, <2>2
      <3> QED BY <1>1, <3>1
    <2> QED BY <1>6, <2>1, <2>2
  <1>7. ToSet(r) = ToSet(q) \ {q[i]}
    <2>1. /\ DOMAIN r = 1..Len(r)
          /\ DOMAIN q = 1..Len(q)
      BY <1>1
    <2>2. ToSet(r) \subseteq ToSet(q) \ {q[i]}
      BY <1>5, <2>1 DEF ToSet
    <2>3. ToSet(q) \ {q[i]} \subseteq ToSet(r)
      BY <1>6, <2>1 DEF ToSet
    <2> QED BY <2>2, <2>3
  <1> QED BY <1>3, <1>7 DEF r

LEMMA PushPosts ==
    ASSUME Lists, NEW m \in Message, Push(m)
    PROVE  /\ Lists'
           /\ Pending' = Pending \cup {[m EXCEPT !.id = posted + 1]}
           /\ posted' = posted + 1
  <1> DEFINE n == [m EXCEPT !.id = posted + 1]
             l == m.level
             q == m_mapMsgs[l]
  <1>1. /\ l \in Levels
        /\ n \in Message
        /\ n.level = l
        /\ n.id = posted + 1
        /\ posted \in Nat
    <2>1. posted \in Nat /\ posted + 1 \in Nat
      BY DEF Lists
    <2>2. m.level \in Levels
      BY MessageFields
    <2>3. n \in Message
      BY <2>1, WithId
    <2>4. n.level = m.level /\ n.id = posted + 1
      <3>1. n = [id |-> posted + 1, level |-> m.level, message |-> m.message,
                 uDelay |-> m.uDelay, tTime |-> m.tTime, born |-> m.born]
        BY <2>1, WithId
      <3> QED BY <3>1
    <2> QED BY <2>1, <2>2, <2>3, <2>4
  <1>2. /\ m_mapMsgs' = [m_mapMsgs EXCEPT ![l] = Append(q, n)]
        /\ posted' = posted + 1
    BY <1>1 DEF Push, Lists
  <1>3. /\ m_mapMsgs' \in [Levels -> Seq(Message)]
        /\ m_mapMsgs'[l] = Append(q, n)
        /\ \A k \in Levels : k # l => m_mapMsgs'[k] = m_mapMsgs[k]
        /\ q \in Seq(Message)
    BY <1>1, <1>2 DEF Lists
  <1> HIDE DEF n, q, l
  <1>4. Filed(m_mapMsgs'[l], l, posted')
    <2>1. Filed(q, l, posted)
      BY <1>1 DEF Lists, q
    <2> QED BY <1>1, <1>2, <1>3, <2>1, AppendFiled
  <1>5. ASSUME NEW k \in Levels, k # l
        PROVE  Filed(m_mapMsgs'[k], k, posted')
    <2>1. /\ Filed(m_mapMsgs[k], k, posted)
          /\ m_mapMsgs[k] \in Seq(Message)
      BY DEF Lists
    <2>2. \A i \in 1..Len(m_mapMsgs[k]) : m_mapMsgs[k][i].id \in Nat
      BY <2>1, ListIds
    <2> QED BY <1>1, <1>2, <1>3, <1>5, <2>1, <2>2 DEF Filed
  <1>6. Lists'
    BY <1>1, <1>2, <1>3, <1>4, <1>5 DEF Lists
  <1>7. Pending' = Pending \cup {n}
    <2>1. ToSet(Append(q, n)) = ToSet(q) \cup {n}
      <3>1. /\ DOMAIN Append(q, n) = 1..(Len(q) + 1)
            /\ DOMAIN q = 1..Len(q)
            /\ Len(q) \in Nat
            /\ \A i \in 1..Len(q) : Append(q, n)[i] = q[i]
            /\ Append(q, n)[Len(q) + 1] = n
        BY <1>1, <1>3
      <3> QED BY <3>1 DEF ToSet
    <2>3. \A k \in Levels : k # l => ToSet(m_mapMsgs'[k]) = ToSet(m_mapMsgs[k])
      BY <1>3
    <2>4. ToSet(m_mapMsgs'[l]) = ToSet(m_mapMsgs[l]) \cup {n}
      BY <1>3, <2>1 DEF q
    <2>5. UNION {ToSet(m_mapMsgs'[k]) : k \in Levels}
              = (UNION {ToSet(m_mapMsgs[k]) : k \in Levels}) \cup {n}
      BY <1>1, <2>3, <2>4
    <2> QED BY <2>5 DEF Pending, Queued
  <1> QED BY <1>2, <1>6, <1>7 DEF n
-----------------------------------------------------------------------------
(* GetMessage.                                                               *)

LEMMA ServedLevelIsHighest ==
    ASSUME SomethingDue
    PROVE  /\ ServedLevel \in Levels
           /\ DueAt(ServedLevel) # {}
           /\ \A h \in Levels : h > ServedLevel => DueAt(h) = {}
  <1> DEFINE T == {l \in Levels : DueAt(l) # {}}
  <1>1. /\ T \in SUBSET Int
        /\ T # {}
        /\ \A l \in T : l =< MAXINT
        /\ MAXINT \in Int
    BY MessagesAssumption DEF SomethingDue
  <1>2. PICK l \in T : \A h \in T : h =< l
    BY <1>1, GreatestInt
  <1>3. \A h \in Levels : h > l => DueAt(h) = {}
    <2>1. \A h \in Levels : h \in Int /\ l \in Int
      BY MessagesAssumption
    <2> QED BY <1>2, <2>1
  <1> QED BY <1>2, <1>3 DEF ServedLevel

LEMMA FirstDue ==
    ASSUME Lists, NEW l \in Levels, DueAt(l) # {}
    PROVE  /\ Min(DueAt(l)) \in DueAt(l)
           /\ \A j \in DueAt(l) : Min(DueAt(l)) =< j
  <1>1. DueAt(l) \in SUBSET Nat
    <2>1. m_mapMsgs[l] \in Seq(Message)
      BY DEF Lists
    <2> QED BY <2>1 DEF DueAt
  <1>2. \E i \in DueAt(l) : \A j \in DueAt(l) : i =< j
    BY <1>1, LeastNat
  <1> QED BY <1>2 DEF Min

LEMMA SameClock == MB!Now = CurrentTimeStamp(clock)
  BY DEF MB!Now, MB!CurrentTimeStamp, CurrentTimeStamp

(* GetMessage takes the message that precedes every other due message, and   *)
(* that one alone.                                                           *)
LEMMA GetMessageTakes ==
    ASSUME Lists, GetMessage, posted' = posted
    PROVE  /\ Lists'
           /\ msg' \in Pending
           /\ msg' \in Message
           /\ Pending' = Pending \ {msg'}
           /\ taken' = Append(taken, MB!Deliver(msg'))
           /\ Due(msg', MB!Now)
           /\ \A n \in Pending : Due(n, MB!Now) => n = msg' \/ Precedes(msg', n)
  <1> DEFINE l == ServedLevel
             q == m_mapMsgs[l]
             i == Min(DueAt(l))
             m == q[i]
  <1>1. /\ l \in Levels
        /\ DueAt(l) # {}
        /\ \A h \in Levels : h > l => DueAt(h) = {}
    BY ServedLevelIsHighest DEF GetMessage
  <1>2. /\ i \in DueAt(l)
        /\ \A j \in DueAt(l) : i =< j
    BY <1>1, FirstDue
  <1>3. /\ m_mapMsgs' = [m_mapMsgs EXCEPT ![l] = RemoveAt(q, i)]
        /\ msg' = m
        /\ taken' = Append(taken, MB!Deliver(m))
    BY DEF GetMessage, Erase
  <1>4. /\ q \in Seq(Message)
        /\ Filed(q, l, posted)
        /\ m_mapMsgs \in [Levels -> Seq(Message)]
        /\ posted \in Nat
    BY <1>1 DEF Lists
  <1> HIDE DEF l
  <1>5. /\ i \in 1..Len(q)
        /\ Due(m, CurrentTimeStamp(clock))
        /\ \A j \in 1..Len(q) : Due(q[j], CurrentTimeStamp(clock)) => i =< j
    BY <1>2, <1>4 DEF DueAt
  <1> HIDE DEF q, i, m
  <1>6. /\ RemoveAt(q, i) \in Seq(Message)
        /\ Filed(RemoveAt(q, i), l, posted)
        /\ ToSet(RemoveAt(q, i)) = ToSet(q) \ {m}
    BY <1>1, <1>4, <1>5, RemoveAtProperties, RemoveFiled DEF m
  <1>7. /\ m_mapMsgs' \in [Levels -> Seq(Message)]
        /\ m_mapMsgs'[l] = RemoveAt(q, i)
        /\ \A k \in Levels : k # l => m_mapMsgs'[k] = m_mapMsgs[k]
    BY <1>1, <1>3, <1>4, <1>6
  <1>8. Lists'
    BY <1>4, <1>6, <1>7 DEF Lists
  <1>9. /\ m \in ToSet(q)
        /\ m \in Message
        /\ m.level = l
    BY <1>4, <1>5 DEF m, ToSet, Filed
  <1>10. ASSUME NEW k \in Levels, NEW n \in ToSet(m_mapMsgs[k])
         PROVE  /\ n.level = k
                /\ n \in Message
                /\ \E j \in 1..Len(m_mapMsgs[k]) : n = m_mapMsgs[k][j]
    <2>1. m_mapMsgs[k] \in Seq(Message) /\ Filed(m_mapMsgs[k], k, posted)
      BY DEF Lists
    <2> QED BY <2>1 DEF ToSet, Filed
  <1>11. Pending' = Pending \ {m}
    <2>1. ToSet(m_mapMsgs[l]) = ToSet(q)
      BY DEF q
    <2>2. \A k \in Levels : k # l => m \notin ToSet(m_mapMsgs[k])
      BY <1>9, <1>10
    <2>3. UNION {ToSet(m_mapMsgs'[k]) : k \in Levels}
              = (UNION {ToSet(m_mapMsgs[k]) : k \in Levels}) \ {m}
      BY <1>1, <1>6, <1>7, <2>1, <2>2
    <2> QED BY <2>3 DEF Pending, Queued
  <1>12. m \in Pending
    BY <1>1, <1>9 DEF Pending, Queued, q
  <1>13. ASSUME NEW n \in Pending, Due(n, MB!Now)
         PROVE  n = m \/ Precedes(m, n)
    <2>1. PICK k \in Levels : n \in ToSet(m_mapMsgs[k])
      BY DEF Pending, Queued
    <2>2. PICK j \in 1..Len(m_mapMsgs[k]) : n = m_mapMsgs[k][j]
      BY <1>10, <2>1
    <2>3. n.level = k
      BY <1>10, <2>1
    <2>4. j \in DueAt(k)
      <3>1. m_mapMsgs[k] \in Seq(Message)
        BY DEF Lists
      <3> QED BY <1>13, <2>2, <3>1, SameClock DEF DueAt
    <2>5. k \in Int /\ l \in Int /\ ~(k > l)
      BY <1>1, <2>4, MessagesAssumption
    <2>6. CASE k < l
      BY <1>9, <2>3, <2>5, <2>6 DEF Precedes
    <2>7. CASE k = l
      <3>1. n = q[j] /\ j \in 1..Len(q)
        BY <2>2, <2>7 DEF q
      <3>2. i =< j
        BY <1>5, <1>13, <3>1, SameClock
      <3>3. i = j => n = m
        BY <3>1 DEF m
      <3>4. i < j => m.id < n.id
        BY <1>4, <1>5, <3>1 DEF Filed, m
      <3>5. i \in Int /\ j \in Int
        BY <1>4, <1>5, <3>1
      <3> QED BY <1>9, <2>3, <2>7, <3>2, <3>3, <3>4, <3>5 DEF Precedes
    <2> QED BY <2>5, <2>6, <2>7
  <1>14. Due(m, MB!Now)
    BY <1>5, SameClock
  <1> QED BY <1>3, <1>8, <1>9, <1>11, <1>12, <1>13, <1>14
-----------------------------------------------------------------------------
(* The inductive invariant.                                                  *)

LEMMA InitIInv == Init => IInv
  <1> SUFFICES ASSUME Init PROVE IInv
    OBVIOUS
  <1>1. TypeOK
    <2>1. /\ m_mapMsgs \in [Levels -> Seq(Message)]
          /\ \A l \in Levels : \A i \in DOMAIN m_mapMsgs[l] : m_mapMsgs[l][i].level = l
      BY DEF Init
    <2>2. draft \in [Posters -> Message \cup {NoDraft}]
      BY DEF Init
    <2>3. taken \in Seq(MB!Delivery)
      BY DEF Init
    <2> QED BY <2>1, <2>2, <2>3 DEF Init, TypeOK, ThreadState, WorkerPC, OwnerPC
  <1>2. Lists
    BY DEF Init, Lists, Filed
  <1>3. Drafts /\ QuitEnds /\ Holds
    BY DEF Init, Drafts, QuitEnds, Holds, MB!Open
  <1> QED BY <1>1, <1>2, <1>3 DEF IInv

LEMMA StampIsNat == \A c \in Nat : CurrentTimeStamp(c) \in Nat
  BY DivBounds, MessagesAssumption DEF CurrentTimeStamp

LEMMA NewMessageIsMessage ==
    ASSUME NEW mid \in MsgIds \cup {WM_QUIT}, NEW d \in Delays \cup {0},
           NEW s \in Nat, NEW l \in Levels, NEW b \in Nat
    PROVE  NewMessage(mid, d, s, l, b) \in Message
  BY DEF NewMessage, Message

(* Lists that are filed are typed as TypeOK says.                             *)
LEMMA FiledIsTyped ==
    ASSUME NEW q \in [Levels -> Seq(Message)], NEW last,
           \A l \in Levels : Filed(q[l], l, last)
    PROVE  \A l \in Levels : \A i \in DOMAIN q[l] : q[l][i].level = l
  <1>1. ASSUME NEW l \in Levels, NEW i \in DOMAIN q[l]
        PROVE  q[l][i].level = l
    <2>1. q[l] \in Seq(Message) /\ Filed(q[l], l, last)
      OBVIOUS
    <2> QED BY <2>1 DEF Filed
  <1> QED BY <1>1

(* Pushing a message is the Post of the mailbox.                             *)
LEMMA PushIsPost ==
    ASSUME Lists, NEW m \in Message, Push(m),
           clock \in Nat, m.born =< clock,
           m.tTime \in {0, CurrentTimeStamp(m.born)},
           m.uDelay > 0 => m.tTime = CurrentTimeStamp(m.born),
           taken' = taken, clock' = clock
    PROVE  Lists' /\ MB!Next
  <1>1. /\ Lists'
        /\ Pending' = Pending \cup {[m EXCEPT !.id = posted + 1]}
        /\ posted' = posted + 1
        /\ posted + 1 \in Nat
    BY PushPosts DEF Lists
  <1>2. [m EXCEPT !.id = posted + 1] =
            [id |-> posted + 1, level |-> m.level, message |-> m.message,
             uDelay |-> m.uDelay, tTime |-> m.tTime, born |-> m.born]
    BY <1>1, WithId
  <1>3. /\ m.message \in MsgIds \cup {WM_QUIT}
        /\ m.level \in Levels
        /\ m.uDelay \in Delays \cup {0}
        /\ m.born \in 0..clock
    BY MessageFields
  <1>4. MB!Post(m.message, m.level, m.uDelay, m.born, m.tTime)
    BY <1>1, <1>2 DEF MB!Post, MB!CurrentTimeStamp, CurrentTimeStamp
  <1>5. m.tTime \in {0, MB!CurrentTimeStamp(m.born)}
    BY DEF MB!CurrentTimeStamp, CurrentTimeStamp
  <1> QED BY <1>1, <1>3, <1>4, <1>5 DEF MB!Next

LEMMA PostMessageIsPost ==
    ASSUME Lists, NEW mid \in MsgIds \cup {WM_QUIT}, NEW l \in Levels,
           PostMessage(mid, l), clock \in Nat, taken' = taken, clock' = clock
    PROVE  Lists' /\ MB!Next
  <1> DEFINE m == NewMessage(mid, 0, 0, l, 0)
  <1>1. m \in Message
    BY NewMessageIsMessage
  <1>2. m.born = 0 /\ m.tTime = 0 /\ m.uDelay = 0
    BY DEF NewMessage
  <1>3. Push(m)
    BY DEF PostMessage
  <1> QED BY <1>1, <1>2, <1>3, PushIsPost

(* Stop() posts WM_QUIT.                                                      *)
LEMMA StopPostsIsPost ==
    ASSUME Lists, StopPosts(MAXINT), clock \in Nat, taken' = taken, clock' = clock
    PROVE  Lists' /\ MB!Next
  BY PostMessageIsPost, MessagesAssumption DEF StopPosts, PostMessage

(* A step that leaves the mailbox alone.                                      *)
LEMMA MailboxUntouched ==
    ASSUME UNCHANGED <<m_mapMsgs, posted, taken, clock>>
    PROVE  /\ UNCHANGED MB!vars
           /\ Lists => Lists'
           /\ MB!Open => MB!Open'
  <1>1. Pending' = Pending
    BY DEF Pending, Queued
  <1> QED BY <1>1 DEF MB!vars, Lists, MB!Open

(* The worker between its calls of GetMessage.                                *)
LEMMA WorkerStepIsQuiet ==
    ASSUME IInv,
           \/ CheckState \/ CondWait \/ SpuriousWakeup \/ TakeNothing
           \/ OnExecute \/ SleepOver \/ Die
    PROVE  IInv' /\ UNCHANGED MB!vars
  <1>1. UNCHANGED <<m_mapMsgs, m_eThreadState, msg, owner, cancelled, draft,
                    posted, clock, taken, sinceSuspend>>
    BY DEF CheckState, CondWait, SpuriousWakeup, TakeNothing, OnExecute,
           SleepOver, Die
  <1>2. /\ worker' \in {"get", "wait", "blocked", "check", "execute", "sleep", "dead"}
        /\ worker \in {"check", "wait", "blocked", "get", "execute", "sleep"}
        /\ worker' = "get" => m_eThreadState # "TS_SUSPENDED"
    BY DEF CheckState, CondWait, SpuriousWakeup, TakeNothing, OnExecute,
           SleepOver, Die
  <1>3. Lists' /\ MB!Open' /\ UNCHANGED MB!vars
    BY <1>1, <1>2, MailboxUntouched DEF IInv, QuitEnds
  <1>4. TypeOK'
    BY <1>1, <1>2 DEF IInv, TypeOK, WorkerPC
  <1>5. Drafts' /\ QuitEnds' /\ Holds'
    BY <1>1, <1>2, <1>3 DEF IInv, Drafts, QuitEnds, Holds, CurrentTimeStamp
  <1> QED BY <1>3, <1>4, <1>5 DEF IInv

(* The owner, where it posts nothing.                                         *)
LEMMA OwnerStepIsQuiet ==
    ASSUME IInv,
           Suspend \/ Resume \/ Signal \/ Join \/ StopSuspended
    PROVE  IInv' /\ UNCHANGED MB!vars
  <1>1. UNCHANGED <<m_mapMsgs, msg, draft, posted, clock, taken>>
    BY DEF Suspend, Resume, Signal, Join, StopSuspended
  <1>2. /\ owner' \in OwnerPC
        /\ m_eThreadState' \in ThreadState
        /\ cancelled' \in BOOLEAN
        /\ sinceSuspend' \in Nat
        /\ worker' \in WorkerPC
    <2> USE DEF IInv, TypeOK, ThreadState, OwnerPC, WorkerPC
    <2>1. CASE Suspend
      BY <2>1 DEF Suspend
    <2>2. CASE Resume
      BY <2>2 DEF Resume
    <2>3. CASE Signal
      BY <2>3 DEF Signal
    <2>4. CASE Join
      BY <2>4 DEF Join
    <2>5. CASE StopSuspended
      BY <2>5 DEF StopSuspended
    <2> QED BY <2>1, <2>2, <2>3, <2>4, <2>5
  <1>3. /\ worker' # worker => worker = "blocked" /\ worker' = "check"
        /\ m_eThreadState' = "TS_SUSPENDED" =>
               \/ sinceSuspend' = 0
               \/ m_eThreadState = "TS_SUSPENDED" /\ sinceSuspend' = sinceSuspend
    BY DEF Suspend, Resume, Signal, Join, StopSuspended
  <1>4. Lists' /\ UNCHANGED MB!vars /\ (MB!Open => MB!Open')
    BY <1>1, MailboxUntouched DEF IInv
  <1>5. TypeOK'
    BY <1>1, <1>2 DEF IInv, TypeOK
  <1>6. Drafts'
    BY <1>1 DEF IInv, Drafts, CurrentTimeStamp
  <1>7. QuitEnds'
    BY <1>3, <1>4 DEF IInv, QuitEnds
  <1>8. Holds'
    BY <1>3 DEF IInv, Holds
  <1> QED BY <1>4, <1>5, <1>6, <1>7, <1>8 DEF IInv

LEMMA TakeMessageTakes ==
    ASSUME IInv, TakeMessage
    PROVE  IInv' /\ MB!Next
  <1>1. /\ GetMessage
        /\ worker = "get"
        /\ UNCHANGED <<m_eThreadState, owner, cancelled, draft, posted, clock>>
        /\ worker' = IF msg'.message = WM_QUIT THEN "exited" ELSE "handle"
        /\ sinceSuspend' = sinceSuspend + 1
    BY DEF TakeMessage, GetMessage
  <1>2. /\ Lists'
        /\ msg' \in Pending
        /\ msg' \in Message
        /\ Pending' = Pending \ {msg'}
        /\ taken' = Append(taken, MB!Deliver(msg'))
        /\ Due(msg', MB!Now)
        /\ \A n \in Pending : Due(n, MB!Now) => n = msg' \/ Precedes(msg', n)
    BY <1>1, GetMessageTakes DEF IInv
  <1>3. /\ MB!Open
        /\ taken \in Seq(MB!Delivery)
        /\ clock \in Nat /\ posted \in Nat
    BY <1>1 DEF IInv, QuitEnds, TypeOK
  <1>4. MB!Take(msg')
    BY <1>1, <1>2, <1>3 DEF MB!Take, MB!Due, MB!Precedes, Due, Precedes
  <1>5. MB!Deliver(msg') \in MB!Delivery
    BY <1>2, <1>3 DEF MB!Deliver, MB!Delivery, MB!Message, Message
  <1>6. /\ taken' \in Seq(MB!Delivery)
        /\ msg'.message # WM_QUIT => MB!Open'
    <2>1. /\ taken' \in Seq(MB!Delivery)
          /\ DOMAIN taken' = DOMAIN taken \cup {Len(taken) + 1}
          /\ taken'[Len(taken) + 1] = MB!Deliver(msg')
          /\ \A i \in DOMAIN taken : taken'[i] = taken[i]
      BY <1>2, <1>3, <1>5
    <2>2. MB!Deliver(msg').msg = msg'
      BY DEF MB!Deliver
    <2> QED BY <1>3, <2>1, <2>2 DEF MB!Open
  <1>7. TypeOK'
    <2>1. worker' \in WorkerPC /\ sinceSuspend' \in Nat
      BY <1>1 DEF IInv, TypeOK, WorkerPC
    <2>2. /\ m_mapMsgs' \in [Levels -> Seq(Message)]
          /\ \A l \in Levels : \A i \in DOMAIN m_mapMsgs'[l] : m_mapMsgs'[l][i].level = l
      BY <1>2, FiledIsTyped DEF Lists
    <2> QED BY <1>1, <1>2, <1>6, <2>1, <2>2 DEF IInv, TypeOK
  <1>8. Drafts'
    BY <1>1 DEF IInv, Drafts, CurrentTimeStamp
  <1>9. QuitEnds'
    BY <1>1, <1>6 DEF QuitEnds
  <1>10. Holds'
    BY <1>1 DEF IInv, Holds
  <1> QED BY <1>2, <1>4, <1>7, <1>8, <1>9, <1>10 DEF IInv, MB!Next

(* Steps that may post and change no more than the place of one thread.       *)
LEMMA PostingKeepsRest ==
    ASSUME IInv, Lists',
           UNCHANGED <<m_eThreadState, cancelled, clock, taken, sinceSuspend>>,
           worker' \in {worker, "execute"}, worker' # worker => worker = "handle",
           msg' \in {msg, NoDraft}, owner' \in OwnerPC,
           draft' \in [Posters -> Message \cup {NoDraft}], Drafts'
    PROVE  IInv'
  <1>1. TypeOK'
    <2>1. worker' \in WorkerPC /\ msg' \in Message \cup {NoDraft}
      BY DEF IInv, TypeOK, WorkerPC
    <2>2. /\ m_mapMsgs' \in [Levels -> Seq(Message)]
          /\ \A l \in Levels : \A i \in DOMAIN m_mapMsgs'[l] : m_mapMsgs'[l][i].level = l
          /\ posted' \in Nat
      BY FiledIsTyped DEF Lists
    <2> QED BY <2>1, <2>2 DEF IInv, TypeOK
  <1>2. QuitEnds'
    BY DEF IInv, QuitEnds, MB!Open
  <1>3. Holds'
    BY DEF IInv, Holds
  <1> QED BY <1>1, <1>2, <1>3 DEF IInv

LEMMA PosterPostsIsPost ==
    ASSUME IInv, NEW p \in Posters, PosterPosts(p)
    PROVE  IInv' /\ MB!Next
  <1>1. UNCHANGED <<m_eThreadState, worker, msg, owner, cancelled, draft, clock,
                    taken, sinceSuspend>>
    BY DEF PosterPosts
  <1>2. Lists' /\ MB!Next
    <2>1. PICK mid \in MsgIds, l \in Levels : PostMessage(mid, l)
      BY DEF PosterPosts
    <2> QED BY <1>1, <2>1, PostMessageIsPost DEF IInv, TypeOK
  <1>3. Drafts'
    BY <1>1 DEF IInv, Drafts, CurrentTimeStamp
  <1>4. /\ owner' \in OwnerPC
        /\ draft' \in [Posters -> Message \cup {NoDraft}]
    BY <1>1 DEF IInv, TypeOK
  <1> QED BY <1>1, <1>2, <1>3, <1>4, PostingKeepsRest

LEMMA HandleMessageMayPost ==
    ASSUME IInv, HandleMessage
    PROVE  IInv' /\ (MB!Next \/ UNCHANGED MB!vars)
  <1>1. /\ UNCHANGED <<m_eThreadState, owner, cancelled, draft, clock, taken,
                       sinceSuspend>>
        /\ worker = "handle" /\ worker' = "execute" /\ msg' = NoDraft
    BY DEF HandleMessage
  <1>2. Lists' /\ (MB!Next \/ UNCHANGED MB!vars)
    <2>1. CASE UNCHANGED <<m_mapMsgs, posted>>
      BY <1>1, <2>1, MailboxUntouched DEF IInv
    <2>2. CASE \E mid \in MsgIds, l \in Levels : PostMessage(mid, l)
      BY <1>1, <2>2, PostMessageIsPost DEF IInv, TypeOK
    <2>3. \/ UNCHANGED <<m_mapMsgs, posted>>
          \/ \E mid \in MsgIds, l \in Levels : PostMessage(mid, l)
      BY DEF HandleMessage
    <2> QED BY <2>1, <2>2, <2>3
  <1>3. Drafts'
    BY <1>1 DEF IInv, Drafts, CurrentTimeStamp
  <1>4. /\ owner' \in OwnerPC
        /\ draft' \in [Posters -> Message \cup {NoDraft}]
    BY <1>1 DEF IInv, TypeOK
  <1> QED BY <1>1, <1>2, <1>3, <1>4, PostingKeepsRest

LEMMA StoppingMayPost ==
    ASSUME IInv, StopWorking \/ Destroy
    PROVE  IInv' /\ (MB!Next \/ UNCHANGED MB!vars)
  <1>1. /\ UNCHANGED <<m_eThreadState, worker, msg, cancelled, draft, clock, taken,
                       sinceSuspend>>
        /\ owner' \in OwnerPC
    BY DEF StopWorking, Destroy, OwnerPC
  <1>2. Lists' /\ (MB!Next \/ UNCHANGED MB!vars)
    <2>1. CASE UNCHANGED <<m_mapMsgs, posted>>
      BY <1>1, <2>1, MailboxUntouched DEF IInv
    <2>2. CASE StopPosts(MAXINT)
      BY <1>1, <2>2, StopPostsIsPost DEF IInv, TypeOK
    <2>3. UNCHANGED <<m_mapMsgs, posted>> \/ StopPosts(MAXINT)
      BY DEF StopWorking, Destroy
    <2> QED BY <2>1, <2>2, <2>3
  <1>3. Drafts'
    BY <1>1 DEF IInv, Drafts, CurrentTimeStamp
  <1>4. draft' \in [Posters -> Message \cup {NoDraft}]
    BY <1>1 DEF IInv, TypeOK
  <1> QED BY <1>1, <1>2, <1>3, <1>4, PostingKeepsRest

LEMMA PosterStampsIsQuiet ==
    ASSUME IInv, NEW p \in Posters, PosterStamps(p)
    PROVE  IInv' /\ UNCHANGED MB!vars
  <1>1. UNCHANGED <<m_mapMsgs, m_eThreadState, worker, msg, owner, cancelled,
                    posted, clock, taken, sinceSuspend>>
    BY DEF PosterStamps
  <1>2. PICK mid \in MsgIds, d \in Delays, l \in Levels :
            draft' = [draft EXCEPT ![p] =
                         NewMessage(mid, d, CurrentTimeStamp(clock), l, clock)]
    BY DEF PosterStamps
  <1> DEFINE m == NewMessage(mid, d, CurrentTimeStamp(clock), l, clock)
  <1>3. clock \in Nat /\ owner \in OwnerPC
        /\ draft \in [Posters -> Message \cup {NoDraft}]
    BY DEF IInv, TypeOK
  <1>4. /\ m \in Message
        /\ m.tTime = CurrentTimeStamp(m.born)
        /\ m.born = clock
    <2>1. m \in Message
      BY <1>3, StampIsNat, NewMessageIsMessage
    <2> QED BY <2>1 DEF NewMessage
  <1> HIDE DEF m
  <1>5. draft' \in [Posters -> Message \cup {NoDraft}]
    BY <1>2, <1>3, <1>4 DEF m
  <1>6. Drafts'
    <2>1. \A q \in Posters : draft'[q] = IF q = p THEN m ELSE draft[q]
      BY <1>2, <1>3 DEF m
    <2> QED BY <1>1, <1>3, <1>4, <2>1 DEF IInv, Drafts, CurrentTimeStamp
  <1>7. Lists' /\ UNCHANGED MB!vars
    BY <1>1, MailboxUntouched DEF IInv
  <1> QED BY <1>1, <1>3, <1>5, <1>6, <1>7, PostingKeepsRest

LEMMA PosterPushesIsPost ==
    ASSUME IInv, NEW p \in Posters, PosterPushes(p)
    PROVE  IInv' /\ MB!Next
  <1>1. /\ UNCHANGED <<m_eThreadState, worker, msg, owner, cancelled, clock, taken,
                       sinceSuspend>>
        /\ draft[p] # NoDraft
        /\ Push(draft[p])
        /\ draft' = [draft EXCEPT ![p] = NoDraft]
    BY DEF PosterPushes
  <1>2. /\ draft \in [Posters -> Message \cup {NoDraft}]
        /\ draft[p] \in Message
        /\ clock \in Nat /\ owner \in OwnerPC
    BY <1>1 DEF IInv, TypeOK
  <1>3. /\ draft[p].tTime = CurrentTimeStamp(draft[p].born)
        /\ draft[p].born =< clock
    BY <1>1 DEF IInv, Drafts
  <1>4. Lists' /\ MB!Next
    BY <1>1, <1>2, <1>3, PushIsPost DEF IInv
  <1>5. draft' \in [Posters -> Message \cup {NoDraft}]
    BY <1>1, <1>2
  <1>6. Drafts'
    <2>1. \A q \in Posters : draft'[q] = IF q = p THEN NoDraft ELSE draft[q]
      BY <1>1, <1>2
    <2> QED BY <1>1, <2>1 DEF IInv, Drafts, CurrentTimeStamp
  <1> QED BY <1>1, <1>2, <1>4, <1>5, <1>6, PostingKeepsRest

LEMMA TickIsTick ==
    ASSUME IInv, Tick
    PROVE  IInv' /\ MB!Next
  <1>1. /\ UNCHANGED <<m_mapMsgs, m_eThreadState, worker, msg, owner, cancelled,
                       draft, posted, taken, sinceSuspend>>
        /\ clock' = clock + 1
        /\ clock \in Nat
    BY DEF IInv, TypeOK, Tick
  <1>2. MB!Tick
    <2>1. Pending' = Pending
      BY <1>1 DEF Pending, Queued
    <2> QED BY <1>1, <2>1 DEF MB!Tick
  <1>3. Lists' /\ QuitEnds' /\ Holds'
    BY <1>1 DEF IInv, Lists, QuitEnds, Holds, MB!Open
  <1>4. TypeOK'
    BY <1>1 DEF IInv, TypeOK
  <1>5. Drafts'
    <2>1. ASSUME NEW p \in Posters, draft[p] # NoDraft
          PROVE  /\ draft[p].tTime = CurrentTimeStamp(draft[p].born)
                 /\ draft[p].born =< clock + 1
      <3>1. draft[p] \in Message
        BY <2>1 DEF IInv, TypeOK
      <3>2. draft[p].born \in Nat
        BY <3>1, MessageFields
      <3> QED BY <1>1, <2>1, <3>2 DEF IInv, Drafts
    <2> QED BY <1>1, <2>1 DEF Drafts, CurrentTimeStamp
  <1> QED BY <1>2, <1>3, <1>4, <1>5 DEF IInv, MB!Next

(* Every step of a thread keeps the invariant and is a step of the mailbox,   *)
(* or none.                                                                   *)
LEMMA EveryStep ==
    ASSUME IInv, [Next]_vars
    PROVE  IInv' /\ (MB!Next \/ UNCHANGED MB!vars)
  <1>1. CASE UNCHANGED vars
    <2>1. Lists' /\ UNCHANGED MB!vars /\ (MB!Open => MB!Open')
      BY <1>1, MailboxUntouched DEF IInv, vars
    <2>2. TypeOK' /\ Drafts' /\ QuitEnds' /\ Holds'
      BY <1>1, <2>1 DEF IInv, vars, TypeOK, Drafts, QuitEnds, Holds, CurrentTimeStamp
    <2> QED BY <2>1, <2>2 DEF IInv
  <1>2. CASE WorkerStep \/ SpuriousWakeup
    BY <1>2, WorkerStepIsQuiet, TakeMessageTakes, HandleMessageMayPost DEF WorkerStep
  <1>3. CASE OwnerCall \/ Signal \/ Join
    BY <1>3, OwnerStepIsQuiet, StoppingMayPost DEF OwnerCall
  <1>4. CASE \E p \in Posters : PosterStep(p)
    BY <1>4, PosterPostsIsPost, PosterStampsIsQuiet, PosterPushesIsPost DEF PosterStep
  <1>5. CASE Tick
    BY <1>5, TickIsTick
  <1> QED BY <1>1, <1>2, <1>3, <1>4, <1>5 DEF Next

LEMMA Invariance == Spec => []IInv
  <1>1. IInv /\ [Next]_vars => IInv'
    BY EveryStep
  <1> QED BY <1>1, InitIInv, PTL DEF Spec
-----------------------------------------------------------------------------
(* The variables stay in their types, and every message in its own list.     *)
THEOREM ThreadIsTyped == Spec => []TypeOK
  BY Invariance, PTL DEF IInv

(* A suspended thread takes at most the one message it was about to take.    *)
THEOREM SuspendHoldsAlways == Spec => []SuspendHolds
  <1>1. IInv => SuspendHolds
    BY DEF IInv, Holds, SuspendHolds
  <1> QED BY <1>1, Invariance, PTL

(* The lists of a thread implement the abstract mailbox.                     *)
THEOREM ThreadImplementsMailbox == Spec => MailboxSpec
  <1>1. Init => MB!Init
    <2>1. Init => Pending = {}
      BY DEF Init, Pending, Queued, ToSet
    <2> QED BY <2>1 DEF Init, MB!Init
  <1>2. IInv /\ [Next]_vars => [MB!Next]_(MB!vars)
    BY EveryStep
  <1> QED BY <1>1, <1>2, Invariance, PTL DEF Spec, MailboxSpec, MB!Spec
-----------------------------------------------------------------------------
(* The mailbox.  Its promises support each other: what was taken is told     *)
(* from what is pending by its id, and a message pending was stamped by the  *)
(* clock.                                                                    *)

(* What a pending message carries: the stamp of a delayed one is the second  *)
(* its posting began in.                                                     *)
PendingStamps ==
    \A m \in Pending :
        m.uDelay > 0 => m.tTime = MB!CurrentTimeStamp(m.born)

(* A message was taken after the messages its mark counts were posted.       *)
TakenMarks == \A i \in DOMAIN taken : taken[i].mark =< posted

MailboxInv ==
    /\ MB!TypeOK
    /\ PendingStamps
    /\ TakenMarks
    /\ MB!NothingLost
    /\ MB!QuitIsLast
    /\ MB!ServedInOrder
    /\ MB!NeverASecondEarly

-----------------------------------------------------------------------------
LEMMA MailboxInit == MB!Init => MailboxInv
  BY DEF MB!Init, MailboxInv, MB!TypeOK, PendingStamps, TakenMarks, MB!NothingLost, MB!QuitIsLast,
         MB!ServedInOrder, MB!NeverASecondEarly, MB!Delivery, MB!TakenMsg

(* The message that Post adds.                                               *)
PostedMessage(mid, level, delay, born, stamp) ==
    [id |-> posted + 1, level |-> level, message |-> mid,
     uDelay |-> delay, tTime |-> stamp, born |-> born]

LEMMA MailboxPost ==
    ASSUME MailboxInv,
           NEW mid \in MsgIds \cup {WM_QUIT}, NEW l \in Levels,
           NEW d \in Delays \cup {0}, NEW b \in 0..clock,
           NEW s \in {0, MB!CurrentTimeStamp(b)},
           MB!Post(mid, l, d, b, s)
    PROVE  MailboxInv'
  <1> DEFINE m == PostedMessage(mid, l, d, b, s)
  <1>1. /\ clock \in Nat /\ posted \in Nat /\ b \in Nat
        /\ TicksPerSec \in Nat \ {0}
    BY MessagesAssumption DEF MailboxInv, MB!TypeOK
  <1>2. MB!CurrentTimeStamp(b) \in Nat
    BY <1>1, DivBounds DEF MB!CurrentTimeStamp
  <1>3. /\ m \in MB!Message
        /\ m.id = posted + 1
    BY <1>1, <1>2, MessagesAssumption DEF MB!Message, PostedMessage
  <1>4. /\ Pending' = Pending \cup {m}
        /\ posted' = posted + 1
        /\ taken' = taken
        /\ clock' = clock
        /\ d > 0 => s = MB!CurrentTimeStamp(b)
    BY DEF MB!Post, PostedMessage
  <1> HIDE DEF m
  <1>5. MB!TypeOK'
    BY <1>1, <1>3, <1>4 DEF MailboxInv, MB!TypeOK
  <1>6. PendingStamps'
    <2>1. m.uDelay > 0 => m.tTime = MB!CurrentTimeStamp(m.born)
      BY <1>4 DEF m, PostedMessage
    <2> QED BY <1>4, <2>1 DEF MailboxInv, PendingStamps, MB!CurrentTimeStamp
  <1>7. TakenMarks'
    <2>1. ASSUME NEW i \in DOMAIN taken
          PROVE  taken[i].mark =< posted + 1
      <3>1. taken[i] \in MB!Delivery
        BY DEF MailboxInv, MB!TypeOK
      <3>2. taken[i].mark =< posted
        BY DEF MailboxInv, TakenMarks
      <3> QED BY <1>1, <3>1, <3>2 DEF MB!Delivery
    <2> QED BY <1>4, <2>1 DEF TakenMarks
  <1>8. MB!NothingLost'
    <2>1. \A n \in Pending : n.id \in 1..posted
      BY DEF MailboxInv, MB!NothingLost
    <2>2. \A i \in DOMAIN taken : MB!TakenMsg(i).id \in 1..posted
      BY DEF MailboxInv, MB!NothingLost
    <2>3. \A i \in DOMAIN taken : MB!TakenMsg(i)' = MB!TakenMsg(i)
      BY <1>4 DEF MB!TakenMsg
    <2>4. {n.id : n \in Pending'} = {n.id : n \in Pending} \cup {posted + 1}
      BY <1>3, <1>4
    <2>5. {MB!TakenMsg(i).id : i \in DOMAIN taken}' = {MB!TakenMsg(i).id : i \in DOMAIN taken}
      BY <1>4 DEF MB!TakenMsg
    <2>6. 1..posted' = 1..posted \cup {posted + 1}
      BY <1>1, <1>4
    <2>7. {n.id : n \in Pending} \cup {MB!TakenMsg(i).id : i \in DOMAIN taken} = 1..posted
      BY DEF MailboxInv, MB!NothingLost
    <2>8. ({n.id : n \in Pending} \cup {MB!TakenMsg(i).id : i \in DOMAIN taken})' = 1..posted'
      BY <2>4, <2>5, <2>6, <2>7
    <2>9. \A n \in Pending' : \A i \in DOMAIN taken' : n.id # MB!TakenMsg(i)'.id
      BY <1>1, <1>3, <1>4, <2>2, <2>3 DEF MailboxInv, MB!NothingLost
    <2>10. \A n, k \in Pending' : n.id = k.id => n = k
      BY <1>1, <1>3, <1>4, <2>1 DEF MailboxInv, MB!NothingLost
    <2>11. \A i, j \in DOMAIN taken' : MB!TakenMsg(i)'.id = MB!TakenMsg(j)'.id => i = j
      BY <1>4, <2>3 DEF MailboxInv, MB!NothingLost
    <2> QED BY <2>8, <2>9, <2>10, <2>11 DEF MB!NothingLost
  <1>9. MB!QuitIsLast'
    BY <1>4 DEF MailboxInv, MB!QuitIsLast, MB!TakenMsg
  <1>10. MB!ServedInOrder'
    <2>1. ASSUME NEW i \in DOMAIN taken
          PROVE  ~(m.id =< taken[i].mark)
      <3>1. taken[i] \in MB!Delivery
        BY DEF MailboxInv, MB!TypeOK
      <3>2. taken[i].mark =< posted
        BY DEF MailboxInv, TakenMarks
      <3> QED BY <1>1, <1>3, <3>1, <3>2 DEF MB!Delivery
    <2> QED BY <1>4, <2>1 DEF MailboxInv, MB!ServedInOrder, MB!TakenMsg,
                              MB!CurrentTimeStamp, MB!Due, MB!Precedes
  <1>11. MB!NeverASecondEarly'
    BY <1>4 DEF MailboxInv, MB!NeverASecondEarly, MB!TakenMsg
  <1> QED BY <1>5, <1>6, <1>7, <1>8, <1>9, <1>10, <1>11 DEF MailboxInv

LEMMA MailboxTake ==
    ASSUME MailboxInv,
           NEW m \in Pending,
           MB!Take(m)
    PROVE  MailboxInv'
  <1> DEFINE h == MB!Deliver(m)
             k == Len(taken) + 1
  <1>1. /\ clock \in Nat /\ posted \in Nat /\ m \in MB!Message
        /\ taken \in Seq(MB!Delivery)
        /\ TicksPerSec \in Nat \ {0}
    BY MessagesAssumption DEF MailboxInv, MB!TypeOK
  <1>2. h \in MB!Delivery
    BY <1>1 DEF MB!Deliver, MB!Delivery
  <1>3. /\ Pending' = Pending \ {m}
        /\ taken' = Append(taken, h)
        /\ posted' = posted
        /\ clock' = clock
    BY DEF MB!Take
  <1>4. /\ h.msg = m
        /\ h.tick = clock
        /\ h.mark = posted
    BY DEF MB!Deliver
  <1> HIDE DEF h
  <1>5. /\ taken' \in Seq(MB!Delivery)
        /\ DOMAIN taken = 1..Len(taken) /\ Len(taken) \in Nat
        /\ DOMAIN taken' = DOMAIN taken \cup {k}
        /\ k \notin DOMAIN taken
        /\ taken'[k] = h
        /\ \A i \in DOMAIN taken : taken'[i] = taken[i]
        /\ Len(taken') = k
    BY <1>1, <1>2, <1>3
  <1> HIDE DEF k
  <1>6. /\ taken'[k].msg = m
        /\ \A i \in DOMAIN taken' : MB!TakenMsg(i)' = taken'[i].msg
        /\ \A i \in DOMAIN taken : MB!TakenMsg(i) = taken'[i].msg
    BY <1>4, <1>5 DEF MB!TakenMsg
  <1>7. MB!TypeOK'
    BY <1>1, <1>3, <1>5 DEF MailboxInv, MB!TypeOK
  <1>8. PendingStamps'
    BY <1>3 DEF MailboxInv, PendingStamps, MB!CurrentTimeStamp
  <1>9. TakenMarks'
    BY <1>1, <1>3, <1>4, <1>5 DEF MailboxInv, TakenMarks
  <1>10. MB!NothingLost'
    <2>1. {MB!TakenMsg(i).id : i \in DOMAIN taken}' =
              {MB!TakenMsg(i).id : i \in DOMAIN taken} \cup {m.id}
      BY <1>5, <1>6
    <2>2. {n.id : n \in Pending} = {n.id : n \in Pending'} \cup {m.id}
      BY <1>3
    <2>3. \A n \in Pending' : n.id # m.id
      BY <1>3 DEF MailboxInv, MB!NothingLost
    <2>4. ({n.id : n \in Pending} \cup {MB!TakenMsg(i).id : i \in DOMAIN taken})' = 1..posted'
      BY <1>3, <2>1, <2>2 DEF MailboxInv, MB!NothingLost
    <2>5. \A n \in Pending' : \A i \in DOMAIN taken' : n.id # MB!TakenMsg(i)'.id
      BY <1>3, <1>5, <1>6, <2>3 DEF MailboxInv, MB!NothingLost
    <2>6. \A n, j \in Pending' : n.id = j.id => n = j
      BY <1>3 DEF MailboxInv, MB!NothingLost
    <2>7. \A i, j \in DOMAIN taken' : MB!TakenMsg(i)'.id = MB!TakenMsg(j)'.id => i = j
      BY <1>5, <1>6 DEF MailboxInv, MB!NothingLost
    <2> QED BY <2>4, <2>5, <2>6, <2>7 DEF MB!NothingLost
  <1>11. MB!QuitIsLast'
    <2>1. \A i \in DOMAIN taken : MB!TakenMsg(i).message # WM_QUIT
      BY DEF MB!Take, MB!Open, MB!TakenMsg
    <2> QED BY <1>5, <1>6, <2>1 DEF MB!QuitIsLast
  <1>12. MB!ServedInOrder'
    <2> DEFINE Overdue(i, n) == /\ n.id =< taken'[i].mark
                                /\ MB!Due(n, MB!CurrentTimeStamp(taken'[i].tick))
    <2>1. ASSUME NEW i \in DOMAIN taken
          PROVE  /\ \A n \in Pending : Overdue(i, n) => MB!Precedes(taken'[i].msg, n)
                 /\ \A j \in DOMAIN taken :
                        j > i /\ Overdue(i, MB!TakenMsg(j)) => MB!Precedes(taken'[i].msg, MB!TakenMsg(j))
      BY <1>5 DEF MailboxInv, MB!ServedInOrder
    <2>2. \A n \in Pending' : Overdue(k, n) => MB!Precedes(m, n)
      BY <1>3, <1>4, <1>5 DEF MB!Take, MB!Now
    <2>3. ASSUME NEW i \in DOMAIN taken'
          PROVE  /\ \A n \in Pending' : Overdue(i, n) => MB!Precedes(taken'[i].msg, n)
                 /\ \A j \in DOMAIN taken' :
                        j > i /\ Overdue(i, MB!TakenMsg(j)') => MB!Precedes(taken'[i].msg, MB!TakenMsg(j)')
      <3>1. CASE i \in DOMAIN taken
        BY <1>3, <1>5, <1>6, <2>1, <3>1
      <3>2. CASE i = k
        <4>1. \A j \in DOMAIN taken' : ~(j > k)
          BY <1>5 DEF k
        <4> QED BY <1>4, <1>5, <2>2, <3>2, <4>1
      <3> QED BY <1>5, <3>1, <3>2
    <2> QED BY <2>3 DEF MB!ServedInOrder, MB!CurrentTimeStamp, MB!Due, MB!Precedes
  <1>13. MB!NeverASecondEarly'
    <2>1. ASSUME m.uDelay > 0
          PROVE  clock - m.born > (m.uDelay - 1) * TicksPerSec
      <3>1. /\ m.uDelay \in Nat
            /\ m.born \in Nat
        BY <1>1, MessagesAssumption, 0 \in Nat DEF MB!Message
      <3>2. m.tTime = m.born \div TicksPerSec
        BY <2>1 DEF MailboxInv, PendingStamps, MB!CurrentTimeStamp
      <3>3. /\ clock \div TicksPerSec \in Nat
            /\ m.born \div TicksPerSec \in Nat
        BY <1>1, <3>1, DivBounds
      <3>4. ~(clock \div TicksPerSec - m.tTime < m.uDelay)
        BY <2>1 DEF MB!Take, MB!Now, MB!Due, MB!CurrentTimeStamp
      <3>5. clock \div TicksPerSec - m.born \div TicksPerSec >= m.uDelay
        BY <3>1, <3>2, <3>3, <3>4
      <3> QED BY <1>1, <3>1, <3>5, QuotientsApart
    <2>2. \A i \in DOMAIN taken :
              MB!TakenMsg(i).uDelay > 0 =>
                  taken[i].tick - MB!TakenMsg(i).born > (MB!TakenMsg(i).uDelay - 1) * TicksPerSec
      BY DEF MailboxInv, MB!NeverASecondEarly
    <2>3. \A i \in DOMAIN taken' :
              MB!TakenMsg(i)'.uDelay > 0 =>
                  taken'[i].tick - MB!TakenMsg(i)'.born > (MB!TakenMsg(i)'.uDelay - 1) * TicksPerSec
      BY <1>4, <1>5, <1>6, <2>1, <2>2
    <2> QED BY <2>3 DEF MB!NeverASecondEarly
  <1> QED BY <1>7, <1>8, <1>9, <1>10, <1>11, <1>12, <1>13 DEF MailboxInv

(* The clock, and a step that changes nothing of the mailbox.              *)
LEMMA MailboxOtherSteps ==
    ASSUME MailboxInv, MB!Tick \/ UNCHANGED MB!vars
    PROVE  MailboxInv'
  <1>1. /\ Pending' = Pending /\ taken' = taken /\ posted' = posted
        /\ clock' \in Nat
    BY DEF MailboxInv, MB!TypeOK, MB!Tick, MB!vars
  <1> QED BY <1>1 DEF MailboxInv, MB!TypeOK, PendingStamps, TakenMarks,
                      MB!NothingLost, MB!QuitIsLast, MB!ServedInOrder, MB!NeverASecondEarly, MB!TakenMsg,
                      MB!CurrentTimeStamp, MB!Due, MB!Precedes

LEMMA MailboxInvariance == MB!Spec => []MailboxInv
  <1>1. ASSUME MailboxInv, [MB!Next]_(MB!vars)
        PROVE  MailboxInv'
    <2>1. CASE \E mid \in MsgIds \cup {WM_QUIT}, l \in Levels, d \in Delays \cup {0},
                 b \in 0..clock : \E s \in {0, MB!CurrentTimeStamp(b)} : MB!Post(mid, l, d, b, s)
      BY <1>1, <2>1, MailboxPost
    <2>2. CASE \E m \in Pending : MB!Take(m)
      BY <1>1, <2>2, MailboxTake
    <2>3. CASE MB!Tick \/ UNCHANGED MB!vars
      BY <1>1, <2>3, MailboxOtherSteps
    <2> QED BY <1>1, <2>1, <2>2, <2>3 DEF MB!Next
  <1> QED BY <1>1, MailboxInit, PTL DEF MB!Spec

(* The steps of a thread are steps of its mailbox and keep its promises.     *)
LEMMA MailboxHolds == Spec => []MailboxInv
  BY ThreadImplementsMailbox, MailboxInvariance, PTL DEF MailboxSpec

(* GetMessage never passes over a message that was due and comes first.      *)
THEOREM ThreadServesInOrder == Spec => []ServedInOrder
  BY MailboxHolds, PTL DEF MailboxInv, ServedInOrder

(* GetMessage never returns a delayed message a whole second early.          *)
THEOREM ThreadIsNeverASecondEarly == Spec => []NeverASecondEarly
  BY MailboxHolds, PTL DEF MailboxInv, NeverASecondEarly

(* A message pushed is in one list or was returned, once.                    *)
THEOREM ThreadLosesNothing == Spec => []NothingLost
  BY MailboxHolds, PTL DEF MailboxInv, NothingLost

(* WM_QUIT is the last message a thread takes, whatever is posted after it.  *)
THEOREM ThreadQuitIsLast == Spec => []MB!QuitIsLast
  BY MailboxHolds, PTL DEF MailboxInv
=============================================================================
