------------------------------- MODULE Calendar -------------------------------
(***************************************************************************)
(* localtime and mktime of the C library, for a zone without summer time,  *)
(* as core/time/timer.cpp uses them.  Moments are seconds since the start  *)
(* of 1970 in Greenwich, before it negative.                               *)
(***************************************************************************)
EXTENDS Integers

CONSTANT Zone   \* seconds that the local clock is ahead of Greenwich

(* In seconds; and the days of 400 years.                                    *)
Day == 86400
Hour == 3600
Minute == 60
FourCenturies == 146097

ASSUME ZoneAssumption == Zone \in Int /\ -Day <= Zone /\ Zone <= Day

Tm == [tm_year : Int, tm_mon : Int, tm_mday : Int,
       tm_hour : Int, tm_min : Int, tm_sec : Int]

YearBase == 1900
YearOf(tm) == YearBase + tm.tm_year

IsLeap(year) == year % 4 = 0 /\ (year % 100 # 0 \/ year % 400 = 0)

DaysIn(year, mon) ==    \* mon is 0 in January
    CASE mon \in {3, 5, 8, 10} -> 30
      [] mon = 1 -> IF IsLeap(year) THEN 29 ELSE 28
      [] OTHER -> 31

(* Days from the start of 1970 to the start of a year, of a month.           *)
YearStart(year) ==
    LET y == year - 1
    IN 365 * (year - 1970) + (y \div 4 - y \div 100 + y \div 400) - 477

MonthStart(year, mon) ==
    YearStart(year) + <<0, 31, 59, 90, 120, 151, 181, 212, 243, 273, 304, 334>>[mon + 1]
        + IF mon > 1 /\ IsLeap(year) THEN 1 ELSE 0

(* The year of a day, by the measure of four centuries off by one at most.   *)
About(day) == 1970 + (400 * day) \div FourCenturies

localtime(time) ==
    LET day == (time + Zone) \div Day
        sec == (time + Zone) % Day
        year == CHOOSE y \in About(day) - 1..About(day) + 1 :
                    YearStart(y) <= day /\ day < YearStart(y + 1)
        mon == CHOOSE m \in 0..11 :
                    MonthStart(year, m) <= day /\ day < MonthStart(year, m) + DaysIn(year, m)
    IN [tm_year |-> year - YearBase, tm_mon |-> mon, tm_mday |-> day - MonthStart(year, mon) + 1,
        tm_hour |-> sec \div Hour, tm_min |-> (sec % Hour) \div Minute, tm_sec |-> sec % Minute]

(* The fields need not be in their ranges: the month carries into the year   *)
(* and a day that does not exist is one of the next month.                   *)
mktime(tm) ==
    Day * (MonthStart(YearOf(tm) + tm.tm_mon \div 12, tm.tm_mon % 12) + tm.tm_mday - 1)
        + Hour * tm.tm_hour + Minute * tm.tm_min + tm.tm_sec - Zone
=============================================================================
