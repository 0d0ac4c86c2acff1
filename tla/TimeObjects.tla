------------------------------ MODULE TimeObjects ------------------------------
(***************************************************************************)
(* Objects of class Time (core/time/timer.cpp), one in each thread.  An    *)
(* object is the moment m_time; SetTime and the Add and Decrease of months *)
(* and years take it apart with localtime, change a field and put it       *)
(* together with mktime.  localtime returns a buffer that all threads of   *)
(* the process share, and nothing locks it.                                *)
(***************************************************************************)
EXTENDS Calendar, Sequences, FiniteSets

CONSTANTS
    Threads,
    Nows,       \* moments that ftime may give
    Dates,      \* what sscanf may find in a string: the first of seven numbers
    Settings,   \* a field and a value, for the setters
    Amounts,    \* of days to milliseconds; small enough for an int of seconds
    Spans,      \* of months or years
    MaxCalls,   \* bound
    MaxParsing  \* bound: the threads in FromStr at one time

Fields == <<"year", "month", "day", "hour", "minute", "second", "millisec">>

FieldValues == {Fields[i] : i \in 1..7} \X Int

ASSUME TimeObjectsAssumption ==
    /\ Nows \subseteq [time : Nat, millitm : 0..999]
    /\ \A d \in Dates : d \in Seq(Int) /\ Len(d) <= 7
    /\ Settings \subseteq FieldValues
    /\ \A v \in Amounts : v \in Int /\ -24855 <= v /\ v <= 24855
    /\ Spans \subseteq Int
    /\ MaxCalls \in Nat /\ MaxParsing \in Nat

VARIABLES
    m_time,
    tm,         \* the buffer of localtime
    pc,
    todo,       \* the fields that are still to be set, of FromStr seven
    call,       \* what a thread was asked for
    calls,
    raced       \* history: another has used the buffer between a localtime and its mktime

vars == <<m_time, tm, pc, todo, call, calls, raced>>

(* Of what localtime takes apart, and what is done to it.                    *)
Shifts == {"AddYear", "AddMonth", "DecreaseYear", "DecreaseMonth"}

(* Without localtime: seconds in the unit, or a millisecond.                 *)
Units == [Day |-> 86400, Hour |-> 3600, Minute |-> 60, Second |-> 1]

PC == {"idle", "localtime", "assign", "mktime"}

IsMoment(o) == o.time \in Int /\ o.millitm \in 0..999

TypeOK ==
    /\ m_time \in [Threads -> [time : Int, millitm : Nat]]
    /\ \A t \in Threads : m_time[t].millitm < 65536
    /\ tm \in Tm
    /\ pc \in [Threads -> PC]
    /\ todo \in [Threads -> Seq(FieldValues)]
    /\ calls \in 0..MaxCalls
    /\ raced \in [Threads -> BOOLEAN]

NoCall == [name |-> "none", arg |-> 0, from |-> 0]

Init ==
    /\ m_time \in [Threads -> Nows]
    /\ tm = localtime(0)
    /\ pc = [t \in Threads |-> "idle"]
    /\ todo = [t \in Threads |-> <<>>]
    /\ call = [t \in Threads |-> NoCall]
    /\ calls = 0
    /\ raced = [t \in Threads |-> FALSE]
-----------------------------------------------------------------------------
(* Arithmetic as in C: the quotient goes to zero.                            *)
Quotient(a, b) == IF a < 0 THEN -((-a) \div b) ELSE a \div b
Remainder(a, b) == a - b * Quotient(a, b)
ushort(n) == n % 65536

(* Faulty variant: the limits are left out.                                  *)
Unclamped(x, a, b) == x

CLAMP(x, a, b) == IF x < a THEN a ELSE IF x > b THEN b ELSE x

(* A field of the buffer b is set, or its month or year moved.               *)
SetField(b, f, v) ==
    CASE f = "year" -> [b EXCEPT !.tm_year = CLAMP(v, 1970, 2038) - YearBase]
      [] f = "month" -> [b EXCEPT !.tm_mon = CLAMP(v - 1, 0, 11)]
      [] f = "day" -> [b EXCEPT !.tm_mday = CLAMP(v, 1, 31)]
      [] f = "hour" -> [b EXCEPT !.tm_hour = CLAMP(v, 0, 23)]
      [] f = "minute" -> [b EXCEPT !.tm_min = CLAMP(v, 0, 59)]
      [] f = "second" -> [b EXCEPT !.tm_sec = CLAMP(v, 0, 59)]
      [] f = "millisec" -> b

(* Faulty variant: the year is forgotten when the month is carried.          *)
NotCarried(b, v) ==
    [b EXCEPT !.tm_year = @ + Quotient(v, 12),
              !.tm_mon = IF Remainder(v, 12) + @ >= 12 THEN Remainder(v, 12) + @ - 12
                         ELSE Remainder(v, 12) + @]

AddMonth(b, v) ==
    IF Remainder(v, 12) + b.tm_mon >= 12
    THEN [b EXCEPT !.tm_year = @ + Quotient(v, 12) + 1, !.tm_mon = @ + Remainder(v, 12) - 12]
    ELSE [b EXCEPT !.tm_year = @ + Quotient(v, 12), !.tm_mon = @ + Remainder(v, 12)]

(* When a year has to be borrowed one is given instead.                      *)
Borrows(v, from) == from - Remainder(v, 12) < 0

DecreaseMonth(b, v) ==
    IF Borrows(v, b.tm_mon)
    THEN [b EXCEPT !.tm_year = @ - (Quotient(v, 12) - 1), !.tm_mon = @ + 12 - Remainder(v, 12)]
    ELSE [b EXCEPT !.tm_year = @ - Quotient(v, 12), !.tm_mon = @ - Remainder(v, 12)]

Shift(b, name, v) ==
    CASE name = "AddYear" -> [b EXCEPT !.tm_year = @ + v]
      [] name = "DecreaseYear" -> [b EXCEPT !.tm_year = @ - v]
      [] name = "AddMonth" -> AddMonth(b, v)
      [] name = "DecreaseMonth" -> DecreaseMonth(b, v)

AddMilliSec(o, v) ==
    LET sec == Quotient(v, 1000)
        millisec == Remainder(v, 1000)
    IN IF millisec + o.millitm >= 1000
       THEN [time |-> o.time + sec + 1, millitm |-> ushort(o.millitm + millisec - 1000)]
       ELSE [time |-> o.time + sec, millitm |-> ushort(o.millitm + millisec)]

(* The same with a second.                                                   *)
BorrowsSecond(o, v) == o.millitm - Remainder(v, 1000) < 0

DecreaseMilliSec(o, v) ==
    LET sec == Quotient(v, 1000)
        millisec == Remainder(v, 1000)
    IN IF BorrowsSecond(o, v)
       THEN [time |-> o.time - (sec - 1), millitm |-> ushort(o.millitm + 1000 - millisec)]
       ELSE [time |-> o.time - sec, millitm |-> ushort(o.millitm - millisec)]

Distance(a, b) == IF a > b THEN a - b ELSE b - a

BetweenAllTime(a, b, unit) == Distance(a.time, b.time) \div Units[unit]

BetweenAllMilliSec(a, b) == Distance(a.millitm, b.millitm) + 1000 * Distance(a.time, b.time)
-----------------------------------------------------------------------------
(* What a thread does to its object.                                         *)

Calls(t) ==
    /\ pc[t] = "idle"
    /\ calls < MaxCalls
    /\ calls' = calls + 1

(* A call that needs localtime, with the object it starts from.              *)
Begin(t, name, arg, from) ==
    /\ Calls(t)
    /\ call' = [call EXCEPT ![t] = [name |-> name, arg |-> arg, from |-> from]]
    /\ m_time' = [m_time EXCEPT ![t] = from]
    /\ pc' = [pc EXCEPT ![t] = "localtime"]
    /\ UNCHANGED <<tm, raced>>

(* Faulty variant: the day is set before the month.                          *)
DayFirst(d) ==
    [i \in 1..7 |-> LET j == IF i = 2 THEN 3 ELSE IF i = 3 THEN 2 ELSE i
                    IN <<Fields[j], IF j <= Len(d) THEN d[j] ELSE 0>>]

(* Numbers that sscanf has not found are 0.                                  *)
InTurn(d) == [i \in 1..7 |-> <<Fields[i], IF i <= Len(d) THEN d[i] ELSE 0>>]

(* The fields are set one after the other in an object that is now.          *)
FromStr(t, d, now) ==
    /\ d # <<>>
    /\ Cardinality({u \in Threads : call[u].name = "FromStr"}) < MaxParsing
    /\ Begin(t, "FromStr", d, now)
    /\ todo' = [todo EXCEPT ![t] = InTurn(d)]

(* The constructor, and FromStr of a string in which nothing is found.       *)
Construct(t, now) ==
    /\ Calls(t)
    /\ m_time' = [m_time EXCEPT ![t] = now]
    /\ UNCHANGED <<tm, pc, todo, call, raced>>

SetTimeStamp(t, now) ==
    /\ Calls(t)
    /\ m_time' = [m_time EXCEPT ![t].time = now.time]
    /\ UNCHANGED <<tm, pc, todo, call, raced>>

Set(t, s) ==
    /\ Begin(t, "Set", s, m_time[t])
    /\ todo' = [todo EXCEPT ![t] = <<s>>]

ShiftBegins(t, name, v) ==
    /\ Begin(t, name, v, m_time[t])
    /\ UNCHANGED todo

Add(t, unit, v) ==
    /\ Calls(t)
    /\ m_time' = [m_time EXCEPT ![t] = IF unit = "MilliSec" THEN AddMilliSec(@, v)
                                       ELSE [time |-> @.time + v * Units[unit], millitm |-> @.millitm]]
    /\ UNCHANGED <<tm, pc, todo, call, raced>>

Decrease(t, unit, v) ==
    /\ Calls(t)
    /\ m_time' = [m_time EXCEPT ![t] = IF unit = "MilliSec" THEN DecreaseMilliSec(@, v)
                                       ELSE [time |-> @.time - v * Units[unit], millitm |-> @.millitm]]
    /\ UNCHANGED <<tm, pc, todo, call, raced>>

(* The buffer is written to: whoever else is between its localtime and its   *)
(* mktime loses what it had there.                                           *)
Uses(t) == raced' = [u \in Threads |-> raced[u] \/ (u # t /\ pc[u] \in {"assign", "mktime"})]

(* GetTime and BetweenTime leave the buffer as it is for their own object.   *)
GetTime(t) ==
    /\ pc[t] = "idle"
    /\ tm' = localtime(m_time[t].time)
    /\ Uses(t)
    /\ UNCHANGED <<m_time, pc, todo, call, calls>>

Localtime(t) ==
    /\ pc[t] = "localtime"
    /\ tm' = localtime(m_time[t].time)
    /\ Uses(t)
    /\ pc' = [pc EXCEPT ![t] = "assign"]
    /\ UNCHANGED <<m_time, todo, call, calls>>

Assign(t) ==
    /\ pc[t] = "assign"
    /\ IF call[t].name \in Shifts
       THEN /\ tm' = Shift(tm, call[t].name, call[t].arg)
            /\ UNCHANGED m_time
       ELSE /\ tm' = SetField(tm, todo[t][1][1], todo[t][1][2])
            /\ m_time' = IF todo[t][1][1] = "millisec"
                         THEN [m_time EXCEPT ![t].millitm = CLAMP(todo[t][1][2], 0, 999)]
                         ELSE m_time
    /\ Uses(t)
    /\ pc' = [pc EXCEPT ![t] = "mktime"]
    /\ UNCHANGED <<todo, call, calls>>

(* A moment before 1970 is not taken, by the Add and Decrease not its first  *)
(* second either.                                                            *)
Accepted(name, ltime) == IF name \in Shifts THEN ltime > 0 ELSE ltime >= 0

IsLast(t) == Len(todo[t]) < 2

Mktime(t) ==
    /\ pc[t] = "mktime"
    /\ tm' = localtime(mktime(tm))
    /\ m_time' = IF Accepted(call[t].name, mktime(tm))
                 THEN [m_time EXCEPT ![t].time = mktime(tm)] ELSE m_time
    /\ IF IsLast(t)
       THEN /\ todo' = [todo EXCEPT ![t] = <<>>]
            /\ call' = [call EXCEPT ![t] = NoCall]
            /\ pc' = [pc EXCEPT ![t] = "idle"]
            /\ raced' = [u \in Threads |-> u # t /\ (raced[u] \/ pc[u] \in {"assign", "mktime"})]
       ELSE /\ todo' = [todo EXCEPT ![t] = Tail(@)]
            /\ pc' = [pc EXCEPT ![t] = "localtime"]
            /\ Uses(t)
            /\ UNCHANGED call
    /\ UNCHANGED calls

Next == \E t \in Threads :
    \/ \E d \in Dates, now \in Nows : FromStr(t, d, now)
    \/ \E now \in Nows : Construct(t, now) \/ SetTimeStamp(t, now)
    \/ \E s \in Settings : Set(t, s)
    \/ \E name \in Shifts, v \in Spans : ShiftBegins(t, name, v)
    \/ \E unit \in DOMAIN Units \cup {"MilliSec"}, v \in Amounts : Add(t, unit, v)
    \/ \E unit \in DOMAIN Units \cup {"MilliSec"}, v \in Amounts : Decrease(t, unit, v)
    \/ GetTime(t)
    \/ Localtime(t)
    \/ Assign(t)
    \/ Mktime(t)

Spec == Init /\ [][Next]_vars
-----------------------------------------------------------------------------
(* The moment of a date, and whether it is one.                              *)
MomentOf(d) ==
    [time |-> mktime([tm_year |-> d[1] - YearBase, tm_mon |-> d[2] - 1, tm_mday |-> d[3],
                      tm_hour |-> d[4], tm_min |-> d[5], tm_sec |-> d[6]]),
     millitm |-> d[7]]

(* Neither 1970 nor 2038 are among the years, though timer.h:13 names        *)
(* 1970-01-01 to 2038-01-19 and SetTime lets both in (355).  The fields are  *)
(* set one by one (ParsesBack), so that a moment on the way from now to the  *)
(* date may lie before the first second of 1970, which SetTime does not      *)
(* take, or behind the last of a time_t of 32 bits, which is not modelled.   *)
IsDate(d) ==
    /\ Len(d) = 7
    /\ d[1] \in 1971..2037 /\ d[2] \in 1..12 /\ d[3] \in 1..DaysIn(d[1], d[2] - 1)
    /\ d[4] \in 0..23 /\ d[5] \in 0..59 /\ d[6] \in 0..59 /\ d[7] \in 0..999

(* The day of the month that is left when the year has been set: of 29       *)
(* February it is the first of March in a year that has none.                *)
DayLeft(now, year) ==
    localtime(mktime([localtime(now.time) EXCEPT !.tm_year = year - YearBase])).tm_mday

(* A call comes to its end that no other thread has disturbed.               *)
Ends(t) == pc[t] = "mktime" /\ pc'[t] = "idle" /\ ~raced[t]

(* FromStr gives the date in the string (timer.h:77-82), unless another      *)
(* thread used the buffer meanwhile, and unless today's day does not exist   *)
(* in the month of the date: setting the month then goes on to the next one. *)
(* Of the years that timer.h:13 names, not for the first and the last (see   *)
(* IsDate).                                                                  *)
ParsesBack ==
    [][\A t \in Threads :
        (/\ Ends(t) /\ call[t].name = "FromStr" /\ IsDate(call[t].arg)
         /\ DayLeft(call[t].from, call[t].arg[1])
                <= DaysIn(call[t].arg[1], call[t].arg[2] - 1))
        => m_time'[t] = MomentOf(call[t].arg)]_vars

Months(name, v) ==
    CASE name = "AddYear" -> 12 * v
      [] name = "DecreaseYear" -> -12 * v
      [] name = "AddMonth" -> v
      [] name = "DecreaseMonth" -> -v

Shifted(o, n) == mktime([localtime(o.time) EXCEPT !.tm_mon = @ + n])

MonthsAreExact(t) ==
    LET from == call[t].from
        v == call[t].arg
    IN (/\ Ends(t) /\ call[t].name \in Shifts
        /\ ~(call[t].name = "DecreaseMonth" /\ Borrows(v, localtime(from.time).tm_mon)))
       => LET to == Shifted(from, Months(call[t].name, v))
          IN m_time'[t] = [from EXCEPT !.time = IF to > 0 THEN to ELSE @]

MillisAreExact(o, n, o2) ==
    /\ IsMoment(o2)
    /\ 1000 * (o2.time - o.time) + o2.millitm - o.millitm = n

(* A step of thread t that adds or takes away days to milliseconds.          *)
UnitsAreExact(t, sign, unit, v) ==
    LET o == m_time[t]
        o2 == m_time'[t]
    IN IF unit # "MilliSec"
       THEN /\ o2 = [o EXCEPT !.time = @ + sign * v * Units[unit]]
            /\ BetweenAllTime(o, o2, unit) = Distance(v, 0)
       ELSE (IsMoment(o) /\ v >= 0 /\ ~(sign < 0 /\ BorrowsSecond(o, v))) =>
            /\ MillisAreExact(o, sign * v, o2)
            /\ (sign > 0 /\ o2.millitm < o.millitm) \/ BetweenAllMilliSec(o, o2) = v

(* The Add and Decrease change the time by what they are asked for           *)
(* (timer.h:109-123), months as mktime counts them on, and the BetweenAll    *)
(* count the same back.  Not so: taking away months over the start of a year *)
(* or milliseconds over that of a second, where `-= --` (257, 296) adds what *)
(* was to be borrowed; negative milliseconds; a buffer that another thread   *)
(* has used; and BetweenAllMilliSec when a second was carried, which adds    *)
(* two distances of different signs (447).                                   *)
SpansAreExact ==
    [][\A t \in Threads :
        /\ MonthsAreExact(t)
        /\ \A v \in Amounts : \A unit \in DOMAIN Units \cup {"MilliSec"} :
            /\ Add(t, unit, v) => UnitsAreExact(t, 1, unit, v)
            /\ Decrease(t, unit, v) => UnitsAreExact(t, -1, unit, v)]_vars
=============================================================================
