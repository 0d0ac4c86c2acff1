-------------------------- MODULE TimeAndClientProofs --------------------------
(***************************************************************************)
(* The calls of class Time do what they are asked for, for every zone, all *)
(* moments, dates and amounts, and any number of threads.  First the       *)
(* calendar: localtime and mktime undo each other.                         *)
(*                                                                         *)
(* After them CHttpClient, which takes the time of its calls with Time     *)
(* objects (httpclient.cpp:269, 289).                                      *)
(***************************************************************************)
EXTENDS TimeObjects, HttpClient, BasicLemmas

(* A division of times by a number of seconds or years.                      *)
LEMMA Divided ==
    ASSUME NEW n \in Int
    PROVE  /\ n \div 4 \in Int /\ 4 * (n \div 4) <= n /\ n <= 4 * (n \div 4) + 3
           /\ n \div 100 \in Int /\ 100 * (n \div 100) <= n /\ n <= 100 * (n \div 100) + 99
           /\ n \div 400 \in Int /\ 400 * (n \div 400) <= n /\ n <= 400 * (n \div 400) + 399
  OBVIOUS

(* A year begins within two days of where 400 years of 146097 days put it.   *)
LEMMA YearIsAbout ==
    ASSUME NEW y \in Int
    PROVE  /\ YearStart(y) \in Int
           /\ 400 * YearStart(y) <= 146097 * (y - 1970) + 800
           /\ 400 * YearStart(y) >= 146097 * (y - 1970) - 800
  <1> DEFINE n == y - 1
  <1>1. n \in Int /\ y = n + 1
    OBVIOUS
  <1>2. YearStart(y) = 365 * (y - 1970) + (n \div 4 - n \div 100 + n \div 400) - 477
    BY DEF YearStart
  <1> HIDE DEF n
  <1>3. ASSUME NEW a \in Int, NEW b \in Int, NEW c \in Int,
               4 * a <= n, n <= 4 * a + 3, 100 * b <= n, n <= 100 * b + 99,
               400 * c <= n, n <= 400 * c + 399
        PROVE  /\ 400 * (365 * (n - 1969) + (a - b + c) - 477) <= 146097 * (n - 1969) + 800
               /\ 400 * (365 * (n - 1969) + (a - b + c) - 477) >= 146097 * (n - 1969) - 800
    BY <1>1, <1>3
  <1> QED BY <1>1, <1>2, <1>3, Divided

LEMMA YearStartIsNumber ==
    ASSUME NEW y \in Int
    PROVE  YearStart(y) \in Int /\ YearStart(y + 1) \in Int
  <1>1. y + 1 \in Int
    OBVIOUS
  <1> QED BY <1>1, YearIsAbout

LEMMA LeapYears ==
    ASSUME NEW y \in Int
    PROVE  YearStart(y + 1) = YearStart(y) + (IF IsLeap(y) THEN 366 ELSE 365)
  <1>1. y \div 4 - (y - 1) \div 4 = (IF y % 4 = 0 THEN 1 ELSE 0)
    OBVIOUS
  <1>2. y \div 100 - (y - 1) \div 100 = (IF y % 100 = 0 THEN 1 ELSE 0)
    OBVIOUS
  <1>3. y \div 400 - (y - 1) \div 400 = (IF y % 400 = 0 THEN 1 ELSE 0)
    OBVIOUS
  <1>4. (y % 100 = 0 => y % 4 = 0) /\ (y % 400 = 0 => y % 100 = 0)
    OBVIOUS
  <1>5. /\ (y + 1) - 1 = y
        /\ \A k \in {4, 100, 400} : y \div k \in Int /\ (y - 1) \div k \in Int
    BY Divided
  <1> QED BY <1>1, <1>2, <1>3, <1>4, <1>5 DEF YearStart, IsLeap

LEMMA YearsApart ==
    ASSUME NEW y \in Int, NEW z \in Int, y < z
    PROVE  YearStart(y + 1) <= YearStart(z)
  <1>1. CASE z = y + 1
    BY <1>1, YearIsAbout
  <1>2. CASE z >= y + 2
    BY <1>2, YearIsAbout
  <1> QED BY <1>1, <1>2

(* Every day is in one year, which localtime looks for.                      *)
LEMMA YearOfDay ==
    ASSUME NEW day \in Int
    PROVE  /\ \E y \in About(day) - 1..About(day) + 1 :
                 YearStart(y) <= day /\ day < YearStart(y + 1)
           /\ \A y, z \in Int :
                 /\ YearStart(y) <= day /\ day < YearStart(y + 1)
                 /\ YearStart(z) <= day /\ day < YearStart(z + 1)
                 => y = z
           /\ \A y \in Int : YearStart(y) <= day /\ day < YearStart(y + 1)
                 => y \in About(day) - 1..About(day) + 1
           /\ About(day) \in Int
  <1> DEFINE q == (400 * day) \div FourCenturies
             a == 1970 + q
  <1>1. q \in Int /\ 146097 * q <= 400 * day /\ 400 * day < 146097 * q + 146097
    BY SMT DEF FourCenturies
  <1>2. a \in Int /\ q = a - 1970
    BY <1>1
  <1> HIDE DEF q, a
  <1>3. /\ YearStart(a - 1) \in Int /\ YearStart(a) \in Int
        /\ YearStart(a + 1) \in Int /\ YearStart(a + 2) \in Int
        /\ YearStart(a - 1) <= day
        /\ day < YearStart(a + 2)
    <2>1. /\ YearStart(a - 1) \in Int /\ YearStart(a) \in Int
          /\ YearStart(a + 1) \in Int /\ YearStart(a + 2) \in Int
      BY <1>2, YearIsAbout
    <2>2. 400 * YearStart(a - 1) <= 146097 * ((a - 1) - 1970) + 800
      BY <1>2, YearIsAbout, SMT
    <2>3. 400 * YearStart(a + 2) >= 146097 * ((a + 2) - 1970) - 800
      BY <1>2, YearIsAbout, SMT
    <2> QED BY <1>1, <1>2, <2>1, <2>2, <2>3
  <1>4. \E y \in a - 1..a + 1 : YearStart(y) <= day /\ day < YearStart(y + 1)
    <2>1. /\ a - 1 \in a - 1..a + 1 /\ a \in a - 1..a + 1 /\ a + 1 \in a - 1..a + 1
          /\ (a - 1) + 1 = a /\ (a + 1) + 1 = a + 2
      BY <1>2
    <2>2. CASE day < YearStart(a)
      BY <1>3, <2>1, <2>2
    <2>3. CASE YearStart(a) <= day /\ day < YearStart(a + 1)
      BY <1>3, <2>1, <2>3
    <2>4. CASE YearStart(a + 1) <= day
      BY <1>3, <2>1, <2>4
    <2> QED BY <1>3, <2>2, <2>3, <2>4
  <1>5. ASSUME NEW y \in Int, NEW z \in Int,
               YearStart(y) <= day, day < YearStart(y + 1),
               YearStart(z) <= day, day < YearStart(z + 1)
        PROVE  y = z
    <2>1. /\ YearStart(y) \in Int /\ YearStart(z) \in Int
          /\ YearStart(y + 1) \in Int /\ YearStart(z + 1) \in Int
      BY YearIsAbout
    <2>2. CASE y < z
      BY <1>5, <2>1, <2>2, YearsApart
    <2>3. CASE z < y
      BY <1>5, <2>1, <2>3, YearsApart
    <2> QED BY <2>2, <2>3
  <1>6. \A y \in Int : YearStart(y) <= day /\ day < YearStart(y + 1) => y \in a - 1..a + 1
    <2>1. PICK y \in a - 1..a + 1 : YearStart(y) <= day /\ day < YearStart(y + 1)
      BY <1>4
    <2>2. y \in Int
      BY <1>2, <2>1
    <2> QED BY <1>5, <2>1, <2>2
  <1> QED BY <1>2, <1>4, <1>5, <1>6 DEF a, q, About
-----------------------------------------------------------------------------
(* How many days of a year are over when a month begins.                     *)
LEMMA MonthTable ==
    ASSUME NEW y \in Int
    PROVE  LET leap == IF IsLeap(y) THEN 1 ELSE 0
           IN  /\ MonthStart(y, 0) = YearStart(y)
               /\ MonthStart(y, 1) = YearStart(y) + 31
               /\ MonthStart(y, 2) = YearStart(y) + 59 + leap
               /\ MonthStart(y, 3) = YearStart(y) + 90 + leap
               /\ MonthStart(y, 4) = YearStart(y) + 120 + leap
               /\ MonthStart(y, 5) = YearStart(y) + 151 + leap
               /\ MonthStart(y, 6) = YearStart(y) + 181 + leap
               /\ MonthStart(y, 7) = YearStart(y) + 212 + leap
               /\ MonthStart(y, 8) = YearStart(y) + 243 + leap
               /\ MonthStart(y, 9) = YearStart(y) + 273 + leap
               /\ MonthStart(y, 10) = YearStart(y) + 304 + leap
               /\ MonthStart(y, 11) = YearStart(y) + 334 + leap
               /\ DaysIn(y, 1) = 28 + leap
               /\ \A m \in {3, 5, 8, 10} : DaysIn(y, m) = 30
               /\ \A m \in {0, 2, 4, 6, 7, 9, 11} : DaysIn(y, m) = 31
  <1>1. YearStart(y) \in Int
    BY YearIsAbout
  <1>2. \A m \in 0..11 :
            MonthStart(y, m) =
                YearStart(y) + <<0, 31, 59, 90, 120, 151, 181, 212, 243, 273, 304, 334>>[m + 1]
                    + IF m > 1 /\ IsLeap(y) THEN 1 ELSE 0
    BY DEF MonthStart
  <1>3. /\ MonthStart(y, 0) = YearStart(y)
        /\ MonthStart(y, 1) = YearStart(y) + 31
    BY <1>1, <1>2
  <1>4. /\ DaysIn(y, 1) = IF IsLeap(y) THEN 29 ELSE 28
        /\ \A m \in {3, 5, 8, 10} : DaysIn(y, m) = 30
        /\ \A m \in {0, 2, 4, 6, 7, 9, 11} : DaysIn(y, m) = 31
    BY DEF DaysIn
  <1>5. /\ MonthStart(y, 2) = YearStart(y) + 59 + IF IsLeap(y) THEN 1 ELSE 0
        /\ MonthStart(y, 3) = YearStart(y) + 90 + IF IsLeap(y) THEN 1 ELSE 0
        /\ MonthStart(y, 4) = YearStart(y) + 120 + IF IsLeap(y) THEN 1 ELSE 0
        /\ MonthStart(y, 5) = YearStart(y) + 151 + IF IsLeap(y) THEN 1 ELSE 0
        /\ MonthStart(y, 6) = YearStart(y) + 181 + IF IsLeap(y) THEN 1 ELSE 0
    BY <1>1, <1>2
  <1>6. /\ MonthStart(y, 7) = YearStart(y) + 212 + IF IsLeap(y) THEN 1 ELSE 0
        /\ MonthStart(y, 8) = YearStart(y) + 243 + IF IsLeap(y) THEN 1 ELSE 0
        /\ MonthStart(y, 9) = YearStart(y) + 273 + IF IsLeap(y) THEN 1 ELSE 0
        /\ MonthStart(y, 10) = YearStart(y) + 304 + IF IsLeap(y) THEN 1 ELSE 0
        /\ MonthStart(y, 11) = YearStart(y) + 334 + IF IsLeap(y) THEN 1 ELSE 0
    BY <1>1, <1>2
  <1> QED BY <1>3, <1>4, <1>5, <1>6

(* The months of a year, one behind the other.                               *)
LEMMA MonthsApart ==
    ASSUME NEW y \in Int
    PROVE  /\ \A m \in 0..11 : /\ MonthStart(y, m) \in Int
                               /\ DaysIn(y, m) \in 28..31
                               /\ YearStart(y) <= MonthStart(y, m)
                               /\ MonthStart(y, m) + DaysIn(y, m) <= YearStart(y + 1)
           /\ \A m, n \in 0..11 : m < n => MonthStart(y, m) + DaysIn(y, m) <= MonthStart(y, n)
           /\ \A day \in Int : YearStart(y) <= day /\ day < YearStart(y + 1) =>
                  \E m \in 0..11 : MonthStart(y, m) <= day /\ day < MonthStart(y, m) + DaysIn(y, m)
  <1> DEFINE leap == IF IsLeap(y) THEN 1 ELSE 0
  <1>1. YearStart(y) \in Int /\ leap \in {0, 1} /\ YearStart(y + 1) = YearStart(y) + 365 + leap
    BY YearIsAbout, LeapYears
  <1> HIDE DEF leap
  <1>2. \A m \in 0..11 : m \in {0, 1, 2, 3, 4, 5, 6, 7, 8, 9, 10, 11}
    OBVIOUS
  <1>3. /\ MonthStart(y, 0) = YearStart(y)            /\ DaysIn(y, 0) = 31
        /\ MonthStart(y, 1) = YearStart(y) + 31       /\ DaysIn(y, 1) = 28 + leap
        /\ MonthStart(y, 2) = YearStart(y) + 59 + leap  /\ DaysIn(y, 2) = 31
        /\ MonthStart(y, 3) = YearStart(y) + 90 + leap  /\ DaysIn(y, 3) = 30
        /\ MonthStart(y, 4) = YearStart(y) + 120 + leap /\ DaysIn(y, 4) = 31
        /\ MonthStart(y, 5) = YearStart(y) + 151 + leap /\ DaysIn(y, 5) = 30
    BY MonthTable DEF leap
  <1>4. /\ MonthStart(y, 6) = YearStart(y) + 181 + leap /\ DaysIn(y, 6) = 31
        /\ MonthStart(y, 7) = YearStart(y) + 212 + leap /\ DaysIn(y, 7) = 31
        /\ MonthStart(y, 8) = YearStart(y) + 243 + leap /\ DaysIn(y, 8) = 30
        /\ MonthStart(y, 9) = YearStart(y) + 273 + leap /\ DaysIn(y, 9) = 31
        /\ MonthStart(y, 10) = YearStart(y) + 304 + leap /\ DaysIn(y, 10) = 30
        /\ MonthStart(y, 11) = YearStart(y) + 334 + leap /\ DaysIn(y, 11) = 31
    BY MonthTable DEF leap
  <1>5. ASSUME NEW m \in 0..11
        PROVE  /\ MonthStart(y, m) \in Int
               /\ DaysIn(y, m) \in 28..31
               /\ YearStart(y) <= MonthStart(y, m)
               /\ MonthStart(y, m) + DaysIn(y, m) <= YearStart(y + 1)
               /\ m < 11 => MonthStart(y, m + 1) = MonthStart(y, m) + DaysIn(y, m)
    BY <1>1, <1>2, <1>3, <1>4, SMTT(30)
  <1>6. ASSUME NEW m \in 0..11, NEW n \in 0..11, m < n
        PROVE  MonthStart(y, m) + DaysIn(y, m) <= MonthStart(y, n)
    BY <1>1, <1>2, <1>3, <1>4, <1>6, SMTT(60)
  <1>7. ASSUME NEW day \in Int, YearStart(y) <= day, day < YearStart(y + 1)
        PROVE  \E m \in 0..11 : MonthStart(y, m) <= day /\ day < MonthStart(y, m) + DaysIn(y, m)
    <2>1. CASE day < MonthStart(y, 6)
      BY <1>1, <1>3, <1>4, <1>7, <2>1, SMTT(30)
    <2>2. CASE day >= MonthStart(y, 6)
      BY <1>1, <1>4, <1>7, <2>2, SMTT(30)
    <2> QED BY <1>1, <1>4, <2>1, <2>2
  <1> QED BY <1>5, <1>6, <1>7
LEMMA MonthInYear ==
    ASSUME NEW y \in Int, NEW m \in 0..11
    PROVE  /\ MonthStart(y, m) \in Int /\ DaysIn(y, m) \in 28..31
           /\ YearStart(y) <= MonthStart(y, m)
           /\ MonthStart(y, m) + DaysIn(y, m) <= YearStart(y + 1)
  BY MonthsApart

-----------------------------------------------------------------------------
Hours == 0..23
Sixty == 0..59

(* What localtime gives: fields in their ranges, of a day that exists.       *)
IsTm(L) ==
    /\ L \in Tm
    /\ L.tm_mon \in 0..11
    /\ L.tm_mday \in 1..DaysIn(YearOf(L), L.tm_mon)
    /\ L.tm_hour \in Hours /\ L.tm_min \in Sixty /\ L.tm_sec \in Sixty

(* A number in the units that a divisor makes, and what is left.             *)
LEMMA Division ==
    ASSUME NEW k \in Nat \ {0}, NEW n \in Int, NEW q \in Int, NEW r \in Int,
           n = k * q + r, 0 <= r, r < k
    PROVE  n \div k = q /\ n % k = r
  BY SMT

LEMMA LeftOver ==
    ASSUME NEW k \in Nat \ {0}, NEW n \in Int
    PROVE  \E q, r \in Int : n = k * q + r /\ 0 <= r /\ r < k /\ n \div k = q /\ n % k = r
  <1> DEFINE q == n \div k
             r == n - k * q
  <1>1. q \in Int /\ k * q <= n /\ n < k * q + k
    BY SMT
  <1> HIDE DEF q
  <1>2. r \in Int /\ n = k * q + r /\ 0 <= r /\ r < k
    BY <1>1, SMT
  <1> HIDE DEF r
  <1>3. n \div k = q /\ n % k = r
    BY <1>1, <1>2, Division, SMT
  <1> QED BY <1>1, <1>2, <1>3, Zenon

LEMMA Lengths ==
    Day \in Nat \ {0} /\ Hour \in Nat \ {0} /\ Minute \in Nat \ {0}
  BY SMT DEF Day, Hour, Minute

(* The hour, minute and second of a second of the day.                       *)
LEMMA SecondsOfDay ==
    ASSUME NEW h \in Hours, NEW m \in Sixty, NEW s \in Sixty
    PROVE  LET n == Hour * h + Minute * m + s
           IN  /\ n \in Int /\ 0 <= n /\ n < Day
               /\ n \div Hour = h /\ (n % Hour) \div Minute = m /\ n % Minute = s
  <1> DEFINE n == Hour * h + Minute * m + s
  <1>1. /\ h \in Int /\ 0 <= h /\ h <= 23 /\ m \in Int /\ 0 <= m /\ m <= 59
        /\ s \in Int /\ 0 <= s /\ s <= 59
    BY DEF Hours, Sixty
  <1>2. n \in Int /\ 0 <= n /\ n < Day
    BY <1>1, SMT DEF Day, Hour, Minute
  <1>3. n = Hour * h + Minute * m + s
    OBVIOUS
  <1> HIDE DEF n
  <1> DEFINE k == Minute * m + s
  <1>4. k \in Int /\ 0 <= k /\ k < Hour /\ n = Hour * h + k /\ s < Minute /\ k = Minute * m + s
    BY <1>1, <1>3, SMT DEF Hour, Minute
  <1> HIDE DEF k
  <1>5. n \div Hour = h /\ n % Hour = k
    BY <1>1, <1>2, <1>4, Division, Lengths, Zenon
  <1>6. k \div Minute = m
    BY <1>1, <1>4, Division, Lengths, Zenon
  <1>7. n % Minute = s
    <2>1. 60 * h + m \in Int /\ n = Minute * (60 * h + m) + s
      BY <1>1, <1>3, SMT DEF Hour, Minute
    <2> QED BY <1>1, <1>2, <1>4, <2>1, Division, Lengths, Zenon
  <1> QED BY <1>2, <1>5, <1>6, <1>7, Zenon DEF n

LEMMA TimeOfSeconds ==
    ASSUME NEW n \in Int, 0 <= n, n < Day
    PROVE  \E h \in Hours, m \in Sixty, s \in Sixty : n = Hour * h + Minute * m + s
  <1>1. PICK q \in Int, s \in Int : n = Minute * q + s /\ 0 <= s /\ s < Minute
    BY LeftOver, Lengths, Zenon
  <1>2. PICK h \in Int, m \in Int : q = Minute * h + m /\ 0 <= m /\ m < Minute
    BY LeftOver, Lengths, Zenon
  <1>3. n = Hour * h + Minute * m + s /\ 0 <= h /\ h <= 23
    BY <1>1, <1>2, SMT DEF Day, Hour, Minute
  <1>4. h \in Hours /\ m \in Sixty /\ s \in Sixty
    BY <1>1, <1>2, <1>3, SMT DEF Minute, Hours, Sixty
  <1> QED BY <1>3, <1>4, Zenon

LEMMA FieldsAreNumbers ==
    ASSUME NEW L \in Tm
    PROVE  /\ L.tm_year \in Int /\ L.tm_mon \in Int /\ L.tm_mday \in Int
           /\ L.tm_hour \in Int /\ L.tm_min \in Int /\ L.tm_sec \in Int
           /\ YearOf(L) \in Int
  BY DEF Tm, YearOf, YearBase

LEMMA YearIsNumber ==
    ASSUME NEW L \in Tm
    PROVE  YearOf(L) - YearBase = L.tm_year
  BY DEF Tm, YearOf, YearBase

LEMMA MonthStartIsNumber ==
    ASSUME NEW y \in Int, NEW m \in 0..11
    PROVE  MonthStart(y, m) \in Int
  BY MonthInYear

LEMMA MktimeIs ==
    ASSUME NEW L \in Tm, L.tm_mon \in 0..11
    PROVE  /\ mktime(L) \in Int
           /\ mktime(L) = Day * (MonthStart(YearOf(L), L.tm_mon) + L.tm_mday - 1)
                            + (Hour * L.tm_hour + Minute * L.tm_min + L.tm_sec) - Zone
  <1>1. ASSUME NEW m \in 0..11, NEW y \in Int
        PROVE  m \div 12 = 0 /\ m % 12 = m /\ y + 0 = y
    BY SMT
  <1>2. ASSUME NEW M \in Int, NEW d \in Int, NEW h \in Int, NEW n \in Int, NEW s \in Int, NEW z \in Int
        PROVE  /\ Day * (M + d - 1) + Hour * h + Minute * n + s - z \in Int
               /\ Day * (M + d - 1) + Hour * h + Minute * n + s - z
                    = Day * (M + d - 1) + (Hour * h + Minute * n + s) - z
    BY SMT DEF Day, Hour, Minute
  <1>3. MonthStart(YearOf(L), L.tm_mon) \in Int /\ Zone \in Int
    BY MonthStartIsNumber, FieldsAreNumbers, ZoneAssumption, Zenon
  <1>4. /\ L.tm_mon \div 12 = 0 /\ L.tm_mon % 12 = L.tm_mon /\ YearOf(L) + 0 = YearOf(L)
    BY <1>1, FieldsAreNumbers, Zenon
  <1>5. mktime(L) = Day * (MonthStart(YearOf(L), L.tm_mon) + L.tm_mday - 1)
                      + Hour * L.tm_hour + Minute * L.tm_min + L.tm_sec - Zone
    <2>1. MonthStart(YearOf(L) + L.tm_mon \div 12, L.tm_mon % 12) = MonthStart(YearOf(L), L.tm_mon)
      BY <1>4, Zenon
    <2> QED BY <2>1, SMT DEF mktime
  <1> DEFINE M == MonthStart(YearOf(L), L.tm_mon)
             d == L.tm_mday
             h == L.tm_hour
             n == L.tm_min
             s == L.tm_sec
  <1>6. M \in Int /\ d \in Int /\ h \in Int /\ n \in Int /\ s \in Int /\ Zone \in Int
    BY <1>3, FieldsAreNumbers, Zenon
  <1>7. mktime(L) = Day * (M + d - 1) + Hour * h + Minute * n + s - Zone
    BY <1>5, Zenon
  <1> HIDE DEF M, d, h, n, s
  <1>8. /\ mktime(L) \in Int
        /\ mktime(L) = Day * (M + d - 1) + (Hour * h + Minute * n + s) - Zone
    BY <1>6, <1>7, SMT DEF Day, Hour, Minute
  <1> QED BY <1>8, Zenon DEF M, d, h, n, s

(* The day and the second of a moment.                                       *)
LEMMA DayAndSecond ==
    ASSUME NEW time \in Int, NEW day \in Int, NEW sec \in Int, 0 <= sec, sec < Day,
           time = Day * day + sec - Zone
    PROVE  (time + Zone) \div Day = day /\ (time + Zone) % Day = sec
  <1> DEFINE n == time + Zone
  <1>1. n \in Int /\ n = Day * day + sec
    BY ZoneAssumption, SMT DEF Day
  <1> HIDE DEF n
  <1>2. n \div Day = day /\ n % Day = sec
    BY <1>1, Division, Lengths, Zenon
  <1> QED BY <1>2 DEF n

(* The day that localtime takes for a moment is the one mktime was given.    *)
LEMMA LocaltimeUndoes ==
    ASSUME NEW L, IsTm(L)
    PROVE  localtime(mktime(L)) = L
  <1> DEFINE y == YearOf(L)
             m == L.tm_mon
             day == MonthStart(y, m) + L.tm_mday - 1
             sec == Hour * L.tm_hour + Minute * L.tm_min + L.tm_sec
  <1>1. /\ L \in Tm /\ m \in 0..11 /\ L.tm_mday \in 1..DaysIn(y, m)
        /\ L.tm_hour \in Hours /\ L.tm_min \in Sixty /\ L.tm_sec \in Sixty
        /\ y \in Int /\ L.tm_year \in Int /\ L.tm_mday \in Int
    BY FieldsAreNumbers, Zenon DEF IsTm
  <1>2. sec \in Int
    <2>1. ASSUME NEW h \in Int, NEW n \in Int, NEW s \in Int
          PROVE  Hour * h + Minute * n + s \in Int
      BY SMT DEF Hour, Minute
    <2> QED BY <1>1, <2>1, FieldsAreNumbers, Zenon
  <1>3. /\ 0 <= sec /\ sec < Day
        /\ sec \div Hour = L.tm_hour /\ (sec % Hour) \div Minute = L.tm_min /\ sec % Minute = L.tm_sec
    <2>1. L.tm_hour \in Hours /\ L.tm_min \in Sixty /\ L.tm_sec \in Sixty
      BY <1>1
    <2> QED BY <2>1, SecondsOfDay, SMT
  <1>4. mktime(L) \in Int /\ mktime(L) = Day * day + sec - Zone
    <2>1. L \in Tm /\ L.tm_mon \in 0..11
      BY <1>1
    <2>2. /\ mktime(L) \in Int
          /\ mktime(L) = Day * (MonthStart(YearOf(L), L.tm_mon) + L.tm_mday - 1)
                           + (Hour * L.tm_hour + Minute * L.tm_min + L.tm_sec) - Zone
      BY <2>1, MktimeIs, Zenon
    <2> QED BY <2>2, Zenon
  <1>5. y - YearBase = L.tm_year
    BY <1>1, YearIsNumber, Zenon DEF y
  <1> HIDE DEF y, m, sec
  <1>6. /\ MonthStart(y, m) \in Int /\ DaysIn(y, m) \in 28..31
        /\ YearStart(y) <= MonthStart(y, m)
        /\ MonthStart(y, m) + DaysIn(y, m) <= YearStart(y + 1)
        /\ YearStart(y) \in Int /\ YearStart(y + 1) \in Int
    BY <1>1, MonthInYear, YearStartIsNumber, Zenon
  <1>7. /\ day \in Int
        /\ MonthStart(y, m) <= day /\ day < MonthStart(y, m) + DaysIn(y, m)
        /\ YearStart(y) <= day /\ day < YearStart(y + 1)
        /\ day - MonthStart(y, m) + 1 = L.tm_mday
    BY <1>1, <1>6
  <1> HIDE DEF day
  <1>8. (mktime(L) + Zone) \div Day = day /\ (mktime(L) + Zone) % Day = sec
    BY <1>2, <1>3, <1>4, <1>7, DayAndSecond, Zenon
  <1>9. y = CHOOSE z \in About(day) - 1..About(day) + 1 : YearStart(z) <= day /\ day < YearStart(z + 1)
    <2>1. y \in About(day) - 1..About(day) + 1
      BY <1>1, <1>7, YearOfDay, Zenon
    <2>2. \A z \in Int : YearStart(z) <= day /\ day < YearStart(z + 1) => z = y
      BY <1>1, <1>7, YearOfDay, Zenon
    <2>3. About(day) \in Int
      BY <1>7, YearOfDay, Zenon
    <2>4. \A z \in About(day) - 1..About(day) + 1 : z \in Int
      BY <2>3
    <2> QED BY <1>7, <2>1, <2>2, <2>4, Zenon
  <1>10. m = CHOOSE n \in 0..11 : MonthStart(y, n) <= day /\ day < MonthStart(y, n) + DaysIn(y, n)
    <2>1. ASSUME NEW n \in 0..11, MonthStart(y, n) <= day, day < MonthStart(y, n) + DaysIn(y, n)
          PROVE  n = m
      <3>1. MonthStart(y, n) \in Int /\ DaysIn(y, n) \in 28..31 /\ n \in Int /\ m \in Int
        <4>1. MonthStart(y, n) \in Int /\ DaysIn(y, n) \in 28..31
          BY <1>1, MonthInYear, Zenon
        <4> QED BY <1>1, <4>1
      <3>2. /\ n < m => MonthStart(y, n) + DaysIn(y, n) <= MonthStart(y, m)
            /\ m < n => MonthStart(y, m) + DaysIn(y, m) <= MonthStart(y, n)
        BY <1>1, MonthsApart, Zenon
      <3>3. DaysIn(y, n) \in Int /\ DaysIn(y, m) \in Int
        BY <1>6, <3>1
      <3> QED BY <1>6, <1>7, <2>1, <3>1, <3>2, <3>3
    <2> QED BY <1>1, <1>7, <2>1, Zenon
  <1>11. localtime(mktime(L)) =
            [tm_year |-> y - YearBase, tm_mon |-> m, tm_mday |-> day - MonthStart(y, m) + 1,
             tm_hour |-> sec \div Hour, tm_min |-> (sec % Hour) \div Minute, tm_sec |-> sec % Minute]
    BY <1>8, <1>9, <1>10, Zenon DEF localtime
  <1>12. L = [tm_year |-> L.tm_year, tm_mon |-> L.tm_mon, tm_mday |-> L.tm_mday,
              tm_hour |-> L.tm_hour, tm_min |-> L.tm_min, tm_sec |-> L.tm_sec]
    BY <1>1 DEF Tm
  <1> QED BY <1>3, <1>5, <1>7, <1>11, <1>12, Zenon DEF m

(* Every moment is one of a day that exists.                                 *)
LEMMA TmOfMoment ==
    ASSUME NEW time \in Int
    PROVE  \E L : IsTm(L) /\ mktime(L) = time
  <1> DEFINE day == (time + Zone) \div Day
             sec == (time + Zone) % Day
  <1>1. /\ Zone \in Int /\ day \in Int /\ sec \in Int /\ 0 <= sec /\ sec < Day
        /\ time + Zone = Day * day + sec
    <2>1. Zone \in Int /\ time + Zone \in Int
      BY ZoneAssumption, SMT
    <2> QED BY <2>1, LeftOver, Lengths, Zenon
  <1> HIDE DEF day, sec
  <1>2. PICK y \in Int : YearStart(y) <= day /\ day < YearStart(y + 1)
    <2>1. About(day) \in Int
      BY <1>1, YearOfDay, Zenon
    <2>2. \E y \in About(day) - 1..About(day) + 1 : YearStart(y) <= day /\ day < YearStart(y + 1)
      BY <1>1, YearOfDay, Zenon
    <2>3. \A y \in About(day) - 1..About(day) + 1 : y \in Int
      BY <2>1
    <2> QED BY <2>2, <2>3, Zenon
  <1>3. PICK m \in 0..11 : MonthStart(y, m) <= day /\ day < MonthStart(y, m) + DaysIn(y, m)
    BY <1>1, <1>2, MonthsApart, Zenon
  <1>4. PICK h \in Hours, n \in Sixty, s \in Sixty : sec = Hour * h + Minute * n + s
    BY <1>1, TimeOfSeconds, Zenon
  <1> DEFINE d == day - MonthStart(y, m) + 1
  <1>5. /\ d \in Int /\ d \in 1..DaysIn(y, m) /\ day = MonthStart(y, m) + d - 1
        /\ y - YearBase \in Int
    <2>1. MonthStart(y, m) \in Int /\ DaysIn(y, m) \in 28..31
      BY MonthInYear
    <2> QED BY <1>1, <1>3, <2>1 DEF YearBase
  <1> HIDE DEF d
  <1> DEFINE L == [tm_year |-> y - YearBase, tm_mon |-> m, tm_mday |-> d,
                   tm_hour |-> h, tm_min |-> n, tm_sec |-> s]
  <1>6. /\ L \in Tm /\ L.tm_year = y - YearBase /\ L.tm_mon = m /\ L.tm_mday = d
        /\ L.tm_hour = h /\ L.tm_min = n /\ L.tm_sec = s
    <2>1. h \in Int /\ n \in Int /\ s \in Int
      BY DEF Hours, Sixty
    <2> QED BY <1>5, <2>1 DEF Tm
  <1>7. YearOf(L) = y
    BY <1>5, SMT DEF YearOf, YearBase
  <1> HIDE DEF L
  <1>8. IsTm(L)
    BY <1>5, <1>6, <1>7, Zenon DEF IsTm
  <1>9. mktime(L) = Day * day + sec - Zone
    BY <1>4, <1>5, <1>6, <1>7, MktimeIs, Zenon
  <1>10. mktime(L) = time
    BY <1>1, <1>9, SMT DEF Day
  <1> QED BY <1>8, <1>10

(* localtime gives a day that exists, and mktime the moment back.            *)
LEMMA MktimeUndoes ==
    ASSUME NEW time \in Int
    PROVE  IsTm(localtime(time)) /\ mktime(localtime(time)) = time
  BY TmOfMoment, LocaltimeUndoes
-----------------------------------------------------------------------------
(* The month carries into the year: what mktime gives depends on the months  *)
(* since the year 0 only.                                                    *)
LEMMA Carry ==
    ASSUME NEW y \in Int, NEW m \in Int, NEW z \in Int, NEW n \in Int, 12 * y + m = 12 * z + n
    PROVE  y + m \div 12 = z + n \div 12 /\ m % 12 = n % 12 /\ m \div 12 \in Int /\ m % 12 \in 0..11
  <1>1. PICK q \in Int, r \in Int : m = 12 * q + r /\ 0 <= r /\ r < 12 /\ m \div 12 = q /\ m % 12 = r
    BY LeftOver, SMT
  <1>2. PICK k \in Int, s \in Int : n = 12 * k + s /\ 0 <= s /\ s < 12 /\ n \div 12 = k /\ n % 12 = s
    BY LeftOver, SMT
  <1>3. y + q = z + k /\ r = s
    BY <1>1, <1>2, SMT
  <1> QED BY <1>1, <1>2, <1>3

LEMMA MktimeIsNumber ==
    ASSUME NEW L \in Tm
    PROVE  mktime(L) \in Int
  <1> DEFINE M == MonthStart(YearOf(L) + L.tm_mon \div 12, L.tm_mon % 12)
             d == L.tm_mday
             h == L.tm_hour
             n == L.tm_min
             s == L.tm_sec
  <1>1. mktime(L) = Day * (M + d - 1) + Hour * h + Minute * n + s - Zone
    BY Zenon DEF mktime
  <1>2. M \in Int
    <2>1. ASSUME NEW y \in Int, NEW m \in Int
          PROVE  y + m \div 12 \in Int /\ m % 12 \in 0..11
      BY SMT
    <2> QED BY <2>1, FieldsAreNumbers, MonthStartIsNumber, Zenon
  <1>3. d \in Int /\ h \in Int /\ n \in Int /\ s \in Int /\ Zone \in Int
    BY FieldsAreNumbers, ZoneAssumption, Zenon
  <1> HIDE DEF M, d, h, n, s
  <1> QED BY <1>1, <1>2, <1>3, SMT DEF Day, Hour, Minute

LEMMA MktimeCarries ==
    ASSUME NEW L \in Tm, NEW y \in Int, NEW m \in Int,
           12 * y + m = 12 * L.tm_year + L.tm_mon
    PROVE  mktime([L EXCEPT !.tm_year = y, !.tm_mon = m]) = mktime(L)
  <1> DEFINE K == [L EXCEPT !.tm_year = y, !.tm_mon = m]
  <1>1. /\ K \in Tm /\ K.tm_year = y /\ K.tm_mon = m
        /\ K.tm_mday = L.tm_mday /\ K.tm_hour = L.tm_hour
        /\ K.tm_min = L.tm_min /\ K.tm_sec = L.tm_sec
    BY DEF Tm
  <1> HIDE DEF K
  <1>2. L.tm_year \in Int /\ L.tm_mon \in Int
    BY FieldsAreNumbers
  <1>3. /\ y + m \div 12 = L.tm_year + L.tm_mon \div 12 /\ m % 12 = L.tm_mon % 12
        /\ m \div 12 \in Int /\ L.tm_mon \div 12 \in Int
    <2>1. L.tm_mon \div 12 \in Int
      BY <1>2, SMT
    <2> QED BY <1>2, <2>1, Carry
  <1>4. YearOf(K) + K.tm_mon \div 12 = YearOf(L) + L.tm_mon \div 12
    BY <1>1, <1>2, <1>3, SMT DEF YearOf, YearBase
  <1>5. MonthStart(YearOf(K) + K.tm_mon \div 12, K.tm_mon % 12)
            = MonthStart(YearOf(L) + L.tm_mon \div 12, L.tm_mon % 12)
    BY <1>1, <1>3, <1>4, SMT
  <1>6. mktime(K) = mktime(L)
    BY <1>1, <1>5, SMT DEF mktime
  <1> QED BY <1>6 DEF K

(* From 1971 on a moment is not refused.                                     *)
LEMMA LaterThan1970 ==
    ASSUME NEW L \in Tm, L.tm_mon \in 0..11, L.tm_year >= 71, L.tm_mday >= 1,
           L.tm_hour \in Hours, L.tm_min \in Sixty, L.tm_sec \in Sixty
    PROVE  mktime(L) > 0
  <1> DEFINE y == YearOf(L)
             M == MonthStart(y, L.tm_mon)
             d == L.tm_mday
             n == Hour * L.tm_hour + Minute * L.tm_min + L.tm_sec
  <1>1. mktime(L) = Day * (M + d - 1) + n - Zone
    BY MktimeIs, SMT
  <1>2. n \in Int /\ 0 <= n
    BY SecondsOfDay, SMT
  <1>3. y \in Int /\ y >= 1971 /\ d \in Int /\ d >= 1
    BY FieldsAreNumbers, SMT DEF YearOf, YearBase
  <1>4. M \in Int /\ YearStart(y) \in Int /\ YearStart(y) <= M
    BY FieldsAreNumbers, MonthInYear, YearStartIsNumber, Zenon
  <1>5. 400 * YearStart(y) >= 146097 * (y - 1970) - 800
    BY <1>3, YearIsAbout, SMT
  <1>6. Zone \in Int /\ Zone <= Day
    BY ZoneAssumption
  <1> HIDE DEF y, M, d, n
  <1>7. YearStart(y) >= 300
    BY <1>3, <1>4, <1>5, SMT
  <1> QED BY <1>1, <1>2, <1>3, <1>4, <1>6, <1>7, SMT DEF Day

MonthAndDay(L, m, d) == [L EXCEPT !.tm_mon = m, !.tm_mday = d]

LEMMA MonthAndDaySet ==
    ASSUME NEW L \in Tm, NEW m \in Int, NEW d \in Int
    PROVE  LET K == MonthAndDay(L, m, d)
           IN  /\ K \in Tm /\ K.tm_year = L.tm_year /\ K.tm_mon = m /\ K.tm_mday = d
               /\ K.tm_hour = L.tm_hour /\ K.tm_min = L.tm_min /\ K.tm_sec = L.tm_sec
  BY DEF Tm, MonthAndDay

(* The last of February in a year that has none is the first of March.       *)
LEMMA LeapDay ==
    ASSUME NEW L \in Tm, L.tm_mon = 1, L.tm_mday = DaysIn(YearOf(L), 1) + 1
    PROVE  mktime(L) = mktime(MonthAndDay(L, 2, 1))
  <1> DEFINE K == MonthAndDay(L, 2, 1)
             y == YearOf(L)
  <1>1. /\ K \in Tm /\ K.tm_year = L.tm_year /\ K.tm_mon = 2 /\ K.tm_mday = 1
        /\ K.tm_hour = L.tm_hour /\ K.tm_min = L.tm_min /\ K.tm_sec = L.tm_sec
    <2>1. 1 \in Int /\ 2 \in Int
      OBVIOUS
    <2> QED BY <2>1, MonthAndDaySet, Zenon
  <1>2. YearOf(K) = y
    BY <1>1, Zenon DEF YearOf
  <1>3. y \in Int /\ 1 \in 0..11 /\ 2 \in 0..11
    BY FieldsAreNumbers
  <1> HIDE DEF K, y
  <1>4. MonthStart(y, 2) + 1 - 1 = MonthStart(y, 1) + (DaysIn(y, 1) + 1) - 1
    <2>1. /\ MonthStart(y, 1) = YearStart(y) + 31
          /\ MonthStart(y, 2) = YearStart(y) + 59 + (IF IsLeap(y) THEN 1 ELSE 0)
          /\ DaysIn(y, 1) = 28 + (IF IsLeap(y) THEN 1 ELSE 0)
      BY <1>3, MonthTable, SMT
    <2>2. YearStart(y) \in Int
      BY <1>3, YearStartIsNumber, Zenon
    <2> QED BY <2>1, <2>2, SMT
  <1>5. /\ mktime(L) = Day * (MonthStart(y, 1) + L.tm_mday - 1)
                         + (Hour * L.tm_hour + Minute * L.tm_min + L.tm_sec) - Zone
        /\ mktime(K) = Day * (MonthStart(y, 2) + 1 - 1)
                         + (Hour * L.tm_hour + Minute * L.tm_min + L.tm_sec) - Zone
    BY <1>1, <1>2, <1>3, MktimeIs, SMT DEF y
  <1>6. L.tm_mday = DaysIn(y, 1) + 1
    BY DEF y
  <1> QED BY <1>4, <1>5, <1>6, Zenon DEF K
-----------------------------------------------------------------------------
(* The fields of a date are set one after the other.                         *)
LEMMA Clamped ==
    ASSUME NEW x \in Int, NEW a \in Int, NEW b \in Int, a <= b
    PROVE  /\ CLAMP(x, a, b) \in Int /\ a <= CLAMP(x, a, b) /\ CLAMP(x, a, b) <= b
           /\ a <= x /\ x <= b => CLAMP(x, a, b) = x
  BY DEF CLAMP

LEMMA FieldNames ==
    /\ Fields[1] = "year" /\ Fields[2] = "month" /\ Fields[3] = "day" /\ Fields[4] = "hour"
    /\ Fields[5] = "minute" /\ Fields[6] = "second" /\ Fields[7] = "millisec"
  BY DEF Fields

LEMMA SetFieldIsTm ==
    ASSUME NEW L \in Tm, NEW s \in FieldValues
    PROVE  SetField(L, s[1], s[2]) \in Tm
  <1>1. s[2] \in Int /\ s[1] \in {Fields[i] : i \in 1..7}
    BY DEF FieldValues
  <1>2. s[1] \in {"year", "month", "day", "hour", "minute", "second", "millisec"}
    BY <1>1, FieldNames
  <1>3. ASSUME NEW v \in Int
        PROVE  /\ CLAMP(v, 1970, 2038) - YearBase \in Int /\ CLAMP(v - 1, 0, 11) \in Int
               /\ CLAMP(v, 1, 31) \in Int /\ CLAMP(v, 0, 23) \in Int /\ CLAMP(v, 0, 59) \in Int
    BY SMT DEF CLAMP, YearBase
  <1> QED BY <1>1, <1>2, <1>3, SMT DEF SetField, Tm

LEMMA YearAndMonthSet ==
    ASSUME NEW L \in Tm, NEW y \in Int, NEW m \in Int
    PROVE  /\ [L EXCEPT !.tm_year = y] \in Tm
           /\ [L EXCEPT !.tm_year = y, !.tm_mon = m] \in Tm
  BY DEF Tm

LEMMA ShiftIsTm ==
    ASSUME NEW L \in Tm, NEW name \in Shifts, NEW v \in Int
    PROVE  Shift(L, name, v) \in Tm
  <1> DEFINE y == L.tm_year
             m == L.tm_mon
             q == Quotient(v, 12)
             r == Remainder(v, 12)
  <1>1. q \in Int /\ r \in Int /\ y \in Int /\ m \in Int
    BY FieldsAreNumbers DEF Quotient, Remainder
  <1> HIDE DEF q, r, y, m
  <1>2. /\ y + v \in Int /\ y - v \in Int /\ y + q + 1 \in Int /\ m + r - 12 \in Int
        /\ y + q \in Int /\ m + r \in Int /\ y - (q - 1) \in Int /\ m + 12 - r \in Int
        /\ y - q \in Int /\ m - r \in Int
    BY <1>1
  <1>3. AddMonth(L, v) \in Tm
    BY <1>2, YearAndMonthSet, Zenon DEF AddMonth, q, r, y, m
  <1>4. DecreaseMonth(L, v) \in Tm
    BY <1>2, YearAndMonthSet, Zenon DEF DecreaseMonth, q, r, y, m
  <1>5. [L EXCEPT !.tm_year = @ + v] \in Tm /\ [L EXCEPT !.tm_year = @ - v] \in Tm
    BY <1>2, YearAndMonthSet, Zenon DEF y
  <1> QED BY <1>3, <1>4, <1>5 DEF Shift, Shifts

LEMMA DateFields ==
    ASSUME NEW d, IsDate(d)
    PROVE  /\ Len(d) = 7
           /\ d[1] \in Int /\ 1971 <= d[1] /\ d[1] <= 2037
           /\ d[2] \in Int /\ 1 <= d[2] /\ d[2] <= 12
           /\ d[3] \in Int /\ d[3] \in 1..DaysIn(d[1], d[2] - 1)
           /\ d[4] \in Hours /\ d[5] \in Sixty /\ d[6] \in Sixty
           /\ d[7] \in Int /\ 0 <= d[7] /\ d[7] <= 999
  <1>1. ASSUME NEW x, NEW a \in Int, NEW b \in Int, x \in a..b
        PROVE  x \in Int /\ a <= x /\ x <= b
    BY <1>1
  <1>2. DaysIn(d[1], d[2] - 1) \in Int
    BY DEF DaysIn
  <1> QED BY <1>1, <1>2, SMT DEF IsDate, Hours, Sixty

(* A day that exists from 1971 on is what it was set to.                     *)
LEMMA DayExists ==
    ASSUME NEW K, IsTm(K), K.tm_year >= 71
    PROVE  mktime(K) \in Int /\ mktime(K) > 0 /\ localtime(mktime(K)) = K
  <1>1. /\ K \in Tm /\ K.tm_mon \in 0..11 /\ K.tm_mday \in 1..DaysIn(YearOf(K), K.tm_mon)
        /\ K.tm_hour \in Hours /\ K.tm_min \in Sixty /\ K.tm_sec \in Sixty
    BY DEF IsTm
  <1>2. K.tm_mday >= 1
    <2>1. DaysIn(YearOf(K), K.tm_mon) \in Int
      BY DEF DaysIn
    <2> QED BY <1>1, <2>1
  <1> QED BY <1>1, <1>2, LaterThan1970, MktimeIsNumber, LocaltimeUndoes, SMT

LEMMA YearIsSet ==
    ASSUME NEW L, IsTm(L), NEW y \in Int, y >= 71
    PROVE  LET T == mktime([L EXCEPT !.tm_year = y])
           IN  T \in Int /\ T > 0 /\ localtime(T).tm_year = y
  <1> DEFINE K == [L EXCEPT !.tm_year = y]
  <1>1. /\ L \in Tm /\ L.tm_mon \in 0..11 /\ L.tm_mday \in 1..DaysIn(YearOf(L), L.tm_mon)
        /\ L.tm_hour \in Hours /\ L.tm_min \in Sixty /\ L.tm_sec \in Sixty
    BY DEF IsTm
  <1>2. /\ K \in Tm /\ K.tm_year = y /\ K.tm_mon = L.tm_mon /\ K.tm_mday = L.tm_mday
        /\ K.tm_hour = L.tm_hour /\ K.tm_min = L.tm_min /\ K.tm_sec = L.tm_sec
    BY <1>1 DEF Tm
  <1> HIDE DEF K
  <1>3. /\ YearOf(L) \in Int /\ YearOf(K) \in Int /\ K.tm_mday \in Int
    BY <1>1, <1>2, FieldsAreNumbers
  <1>4. CASE K.tm_mday \in 1..DaysIn(YearOf(K), K.tm_mon)
    <2>1. IsTm(K)
      BY <1>1, <1>2, <1>4 DEF IsTm
    <2> QED BY <1>2, <2>1, DayExists DEF K
  <1>5. CASE K.tm_mday \notin 1..DaysIn(YearOf(K), K.tm_mon)
    <2>1. K.tm_mon = 1 /\ K.tm_mday = DaysIn(YearOf(K), 1) + 1
      BY <1>1, <1>2, <1>3, <1>5, SMT DEF DaysIn
    <2> DEFINE M == MonthAndDay(K, 2, 1)
    <2>2. /\ M \in Tm /\ M.tm_year = K.tm_year /\ M.tm_mon = 2 /\ M.tm_mday = 1
          /\ M.tm_hour = K.tm_hour /\ M.tm_min = K.tm_min /\ M.tm_sec = K.tm_sec
      <3>1. 1 \in Int /\ 2 \in Int
        OBVIOUS
      <3> QED BY <1>2, <3>1, MonthAndDaySet, Zenon
    <2>3. mktime(K) = mktime(M)
      BY <1>2, <2>1, LeapDay, Zenon
    <2> HIDE DEF M
    <2>4. IsTm(M)
      <3>1. 1 \in 1..DaysIn(YearOf(M), 2)
        BY DEF DaysIn
      <3> QED BY <1>1, <1>2, <2>2, <3>1 DEF IsTm
    <2> QED BY <1>2, <2>2, <2>3, <2>4, DayExists DEF K
  <1> QED BY <1>4, <1>5

(* How far FromStr is with the date d, before the field number i: the fields *)
(* before it are set in the moment T.                                        *)
Fits(d, now) == IsDate(d) /\ DayLeft(now, d[1]) <= DaysIn(d[1], d[2] - 1)

IsSetUpTo(L, d, i) ==
    /\ i > 1 => L.tm_year = d[1] - YearBase
    /\ i > 2 => L.tm_mon = d[2] - 1
    /\ i > 3 => L.tm_mday = d[3]
    /\ i > 4 => L.tm_hour = d[4]
    /\ i > 5 => L.tm_min = d[5]
    /\ i > 6 => L.tm_sec = d[6]

Progress(T, d, now, i) ==
    /\ i = 1 => T = now.time
    /\ i = 2 => localtime(T).tm_mday = DayLeft(now, d[1])
    /\ IsSetUpTo(localtime(T), d, i)

LEMMA NextYear ==
    ASSUME NEW T \in Int, NEW d, NEW now, Fits(d, now), Progress(T, d, now, 1)
    PROVE  LET U == mktime(SetField(localtime(T), Fields[1], d[1]))
           IN  U \in Int /\ U > 0 /\ Progress(U, d, now, 2)
  <1> DEFINE L == localtime(T)
             y == d[1] - YearBase
             U == mktime([L EXCEPT !.tm_year = y])
  <1>1. d[1] \in Int /\ 1971 <= d[1] /\ d[1] <= 2037
    BY DateFields DEF Fits
  <1>2. SetField(L, Fields[1], d[1]) = [L EXCEPT !.tm_year = y]
    BY <1>1, FieldNames, SMT DEF SetField, CLAMP
  <1>3. y \in Int /\ y >= 71
    BY <1>1, SMT DEF YearBase
  <1>4. IsTm(L) /\ T = now.time
    BY MktimeUndoes, Zenon DEF Progress
  <1>5. U \in Int /\ U > 0 /\ localtime(U).tm_year = y
    <2> HIDE DEF y, L
    <2> QED BY <1>3, <1>4, YearIsSet, Zenon
  <1>6. localtime(U).tm_mday = DayLeft(now, d[1])
    BY <1>4, Zenon DEF DayLeft
  <1> HIDE DEF L, U
  <1>7. Progress(U, d, now, 2)
    BY <1>5, <1>6 DEF Progress, IsSetUpTo
  <1> QED BY <1>2, <1>5, <1>7 DEF L, U

(* A field after the year is set, and the rest stays as it is.               *)
LEMMA NextOf ==
    ASSUME NEW T \in Int, NEW d, NEW now, NEW i \in 3..7, NEW K, IsTm(K),
           Fits(d, now), IsSetUpTo(K, d, i)
    PROVE  mktime(K) \in Int /\ mktime(K) > 0 /\ Progress(mktime(K), d, now, i)
  <1>1. K.tm_year >= 71
    <2>1. d[1] \in Int /\ 1971 <= d[1]
      BY DateFields DEF Fits
    <2>2. K.tm_year = d[1] - YearBase
      BY DEF IsSetUpTo
    <2> QED BY <2>1, <2>2, SMT DEF YearBase
  <1>2. mktime(K) \in Int /\ mktime(K) > 0 /\ localtime(mktime(K)) = K
    BY <1>1, DayExists
  <1>3. i # 1 /\ i # 2
    OBVIOUS
  <1> QED BY <1>2, <1>3, Zenon DEF Progress

LEMMA NextField ==
    ASSUME NEW T \in Int, NEW d, NEW now, NEW i \in 2..6,
           Fits(d, now), Progress(T, d, now, i)
    PROVE  LET U == mktime(SetField(localtime(T), Fields[i], d[i]))
           IN  U \in Int /\ U > 0 /\ Progress(U, d, now, i + 1)
  <1> DEFINE L == localtime(T)
             K == SetField(L, Fields[i], d[i])
  <1>1. /\ L \in Tm /\ L.tm_mon \in 0..11 /\ L.tm_mday \in 1..DaysIn(YearOf(L), L.tm_mon)
        /\ L.tm_hour \in Hours /\ L.tm_min \in Sixty /\ L.tm_sec \in Sixty
    BY MktimeUndoes, Zenon DEF IsTm
  <1>2. L.tm_year = d[1] - YearBase /\ IsSetUpTo(L, d, i) /\ (i = 2 => L.tm_mday = DayLeft(now, d[1]))
    <2>1. i > 1
      OBVIOUS
    <2> QED BY <2>1, Zenon DEF Progress, IsSetUpTo
  <1>3. YearOf(L) = d[1] /\ L.tm_mday \in Int
    <2>1. d[1] \in Int
      BY DateFields DEF Fits
    <2> QED BY <1>1, <1>2, <2>1, FieldsAreNumbers, SMT DEF YearOf, YearBase
  <1> HIDE DEF L
  <1>4. CASE i = 2
    <2>1. d[2] \in Int /\ 1 <= d[2] /\ d[2] <= 12
      BY DateFields DEF Fits
    <2>2. K = [L EXCEPT !.tm_mon = d[2] - 1]
      BY <1>4, <2>1, FieldNames, SMT DEF SetField, CLAMP
    <2>3. K \in Tm /\ K.tm_mon = d[2] - 1 /\ K.tm_year = L.tm_year /\ K.tm_mday = L.tm_mday
          /\ K.tm_hour = L.tm_hour /\ K.tm_min = L.tm_min /\ K.tm_sec = L.tm_sec
      BY <1>1, <2>1, <2>2 DEF Tm
    <2> HIDE DEF K
    <2>4. K.tm_mday \in 1..DaysIn(YearOf(K), K.tm_mon)
      <3>1. YearOf(K) = d[1]
        BY <1>3, <2>3, Zenon DEF YearOf
      <3>2. L.tm_mday <= DaysIn(d[1], d[2] - 1)
        BY <1>2, <1>4, Zenon DEF Fits
      <3>3. L.tm_mday >= 1 /\ DaysIn(d[1], d[2] - 1) \in Int
        BY <1>1, <1>3 DEF DaysIn
      <3> QED BY <1>3, <2>3, <3>1, <3>2, <3>3
    <2>5. IsTm(K)
      <3>1. K.tm_mon \in 0..11
        BY <2>1, <2>3
      <3> QED BY <1>1, <2>3, <2>4, <3>1, Zenon DEF IsTm
    <2>6. IsSetUpTo(K, d, i + 1) /\ i + 1 \in 3..7
      BY <1>2, <1>4, <2>3 DEF IsSetUpTo
    <2> QED BY <2>5, <2>6, NextOf, Zenon DEF K, L
  <1>5. CASE i = 3
    <2>1. d[3] \in Int /\ d[3] \in 1..DaysIn(d[1], d[2] - 1) /\ DaysIn(d[1], d[2] - 1) \in 28..31
      BY DateFields, SMT DEF Fits, DaysIn
    <2>2. K = [L EXCEPT !.tm_mday = d[3]]
      BY <1>5, <2>1, FieldNames, SMT DEF SetField, CLAMP
    <2>3. K \in Tm /\ K.tm_mon = L.tm_mon /\ K.tm_year = L.tm_year /\ K.tm_mday = d[3]
          /\ K.tm_hour = L.tm_hour /\ K.tm_min = L.tm_min /\ K.tm_sec = L.tm_sec
      BY <1>1, <2>1, <2>2 DEF Tm
    <2> HIDE DEF K
    <2>4. YearOf(K) = d[1] /\ K.tm_mon = d[2] - 1
      BY <1>2, <1>3, <1>5, <2>3 DEF YearOf, IsSetUpTo
    <2>5. IsTm(K)
      BY <1>1, <2>1, <2>3, <2>4, Zenon DEF IsTm
    <2>6. IsSetUpTo(K, d, i + 1) /\ i + 1 \in 3..7
      BY <1>2, <1>5, <2>3 DEF IsSetUpTo
    <2> QED BY <2>5, <2>6, NextOf, Zenon DEF K, L
  <1>6. ASSUME K \in Tm, K.tm_year = L.tm_year, K.tm_mon = L.tm_mon, K.tm_mday = L.tm_mday,
               K.tm_hour \in Hours, K.tm_min \in Sixty, K.tm_sec \in Sixty
        PROVE  IsTm(K)
    <2> HIDE DEF K
    <2>1. YearOf(K) = YearOf(L)
      BY <1>6, Zenon DEF YearOf
    <2> QED BY <1>1, <1>6, <2>1, Zenon DEF IsTm
  <1>7. /\ d[4] \in Hours /\ d[5] \in Sixty /\ d[6] \in Sixty
        /\ d[4] \in Int /\ 0 <= d[4] /\ d[4] <= 23
        /\ d[5] \in Int /\ 0 <= d[5] /\ d[5] <= 59
        /\ d[6] \in Int /\ 0 <= d[6] /\ d[6] <= 59
    <2>1. d[4] \in Hours /\ d[5] \in Sixty /\ d[6] \in Sixty
      BY DateFields DEF Fits
    <2> QED BY <2>1 DEF Hours, Sixty
  <1>8. CASE i = 4
    <2>1. K = [L EXCEPT !.tm_hour = d[4]]
      BY <1>7, <1>8, FieldNames, SMT DEF SetField, CLAMP
    <2>2. /\ K \in Tm /\ K.tm_year = L.tm_year /\ K.tm_mon = L.tm_mon /\ K.tm_mday = L.tm_mday
          /\ K.tm_hour = d[4] /\ K.tm_min = L.tm_min /\ K.tm_sec = L.tm_sec
      BY <1>1, <1>7, <2>1 DEF Tm
    <2>3. IsTm(K)
      <3> HIDE DEF K
      <3> QED BY <1>1, <1>6, <1>7, <2>2, Zenon
    <2> HIDE DEF K
    <2>4. IsSetUpTo(K, d, i + 1) /\ i + 1 \in 3..7
      BY <1>2, <1>8, <2>2 DEF IsSetUpTo
    <2> QED BY <2>3, <2>4, NextOf, Zenon DEF K, L
  <1>9. CASE i = 5
    <2>1. K = [L EXCEPT !.tm_min = d[5]]
      BY <1>7, <1>9, FieldNames, SMT DEF SetField, CLAMP
    <2>2. /\ K \in Tm /\ K.tm_year = L.tm_year /\ K.tm_mon = L.tm_mon /\ K.tm_mday = L.tm_mday
          /\ K.tm_min = d[5] /\ K.tm_hour = L.tm_hour /\ K.tm_sec = L.tm_sec
      BY <1>1, <1>7, <2>1 DEF Tm
    <2>3. IsTm(K)
      <3> HIDE DEF K
      <3> QED BY <1>1, <1>6, <1>7, <2>2, Zenon
    <2> HIDE DEF K
    <2>4. IsSetUpTo(K, d, i + 1) /\ i + 1 \in 3..7
      BY <1>2, <1>9, <2>2 DEF IsSetUpTo
    <2> QED BY <2>3, <2>4, NextOf, Zenon DEF K, L
  <1>10. CASE i = 6
    <2>1. K = [L EXCEPT !.tm_sec = d[6]]
      BY <1>7, <1>10, FieldNames, SMT DEF SetField, CLAMP
    <2>2. /\ K \in Tm /\ K.tm_year = L.tm_year /\ K.tm_mon = L.tm_mon /\ K.tm_mday = L.tm_mday
          /\ K.tm_sec = d[6] /\ K.tm_hour = L.tm_hour /\ K.tm_min = L.tm_min
      BY <1>1, <1>7, <2>1 DEF Tm
    <2>3. IsTm(K)
      <3> HIDE DEF K
      <3> QED BY <1>1, <1>6, <1>7, <2>2, Zenon
    <2> HIDE DEF K
    <2>4. IsSetUpTo(K, d, i + 1) /\ i + 1 \in 3..7
      BY <1>2, <1>10, <2>2 DEF IsSetUpTo
    <2> QED BY <2>3, <2>4, NextOf, Zenon DEF K, L
  <1>11. i = 2 \/ i = 3 \/ i = 4 \/ i = 5 \/ i = 6
    OBVIOUS
  <1> QED BY <1>4, <1>5, <1>8, <1>9, <1>10, <1>11 DEF L

Millis(n) == CLAMP(n, 0, 999)

(* All fields are set: the moment is that of the date.                       *)
LEMMA LastField ==
    ASSUME NEW T \in Int, NEW d, NEW now, Fits(d, now), Progress(T, d, now, 7)
    PROVE  /\ T > 0
           /\ SetField(localtime(T), Fields[7], d[7]) = localtime(T)
           /\ MomentOf(d) = [time |-> T, millitm |-> d[7]]
           /\ Millis(d[7]) = d[7]
  <1> DEFINE L == localtime(T)
  <1>1. IsTm(L) /\ mktime(L) = T /\ L \in Tm
    BY MktimeUndoes, Zenon DEF IsTm
  <1>2. IsSetUpTo(L, d, 7)
    BY Zenon DEF Progress
  <1>3. d[1] \in Int /\ 1971 <= d[1] /\ d[7] \in Int /\ 0 <= d[7] /\ d[7] <= 999
    BY DateFields DEF Fits
  <1>4. Millis(d[7]) = d[7]
    BY <1>3 DEF CLAMP, Millis
  <1>5. SetField(L, Fields[7], d[7]) = L
    BY FieldNames DEF SetField
  <1> HIDE DEF L
  <1>6. /\ L.tm_year = d[1] - YearBase /\ L.tm_mon = d[2] - 1 /\ L.tm_mday = d[3]
        /\ L.tm_hour = d[4] /\ L.tm_min = d[5] /\ L.tm_sec = d[6]
    BY <1>2 DEF IsSetUpTo
  <1>7. L = [tm_year |-> d[1] - YearBase, tm_mon |-> d[2] - 1, tm_mday |-> d[3],
             tm_hour |-> d[4], tm_min |-> d[5], tm_sec |-> d[6]]
    <2>1. L = [tm_year |-> L.tm_year, tm_mon |-> L.tm_mon, tm_mday |-> L.tm_mday,
               tm_hour |-> L.tm_hour, tm_min |-> L.tm_min, tm_sec |-> L.tm_sec]
      BY <1>1 DEF Tm
    <2> QED BY <1>6, <2>1, Zenon
  <1>8. T > 0
    <2>1. L.tm_year >= 71
      BY <1>3, <1>6, SMT DEF YearBase
    <2> QED BY <1>1, <2>1, DayExists
  <1>9. MomentOf(d) = [time |-> T, millitm |-> d[7]]
    BY <1>1, <1>7, Zenon DEF MomentOf
  <1> QED BY <1>4, <1>5, <1>8, <1>9 DEF L
-----------------------------------------------------------------------------
YearAndMonth(L, y, m) == [L EXCEPT !.tm_year = y, !.tm_mon = m]

MonthCount(y, m) == 12 * y + m

LEMMA SameMonths ==
    ASSUME NEW L \in Tm, NEW y \in Int, NEW m \in Int, NEW z \in Int, NEW n \in Int,
           MonthCount(y, m) = MonthCount(z, n)
    PROVE  mktime(YearAndMonth(L, y, m)) = mktime(YearAndMonth(L, z, n))
  <1> DEFINE K == YearAndMonth(L, z, n)
  <1>1. K \in Tm /\ K.tm_year = z /\ K.tm_mon = n
    BY DEF YearAndMonth, Tm
  <1>2. [K EXCEPT !.tm_year = y, !.tm_mon = m] = YearAndMonth(L, y, m)
    BY DEF YearAndMonth, Tm
  <1> HIDE DEF K
  <1>3. mktime([K EXCEPT !.tm_year = y, !.tm_mon = m]) = mktime(K)
    <2>1. 12 * y + m = 12 * K.tm_year + K.tm_mon
      BY <1>1 DEF MonthCount
    <2> QED BY <1>1, <2>1, MktimeCarries, Zenon
  <1> QED BY <1>2, <1>3 DEF K

(* A shift moves the moment by its months.                                   *)
LEMMA ShiftsByMonths ==
    ASSUME NEW L \in Tm, NEW name \in Shifts, NEW v \in Int,
           ~(name = "DecreaseMonth" /\ Borrows(v, L.tm_mon))
    PROVE  mktime(Shift(L, name, v)) = mktime([L EXCEPT !.tm_mon = @ + Months(name, v)])
  <1> DEFINE n == Months(name, v)
             y == L.tm_year
             m == L.tm_mon
             q == Quotient(v, 12)
             r == Remainder(v, 12)
             K == [L EXCEPT !.tm_mon = @ + Months(name, v)]
  <1>1. q \in Int /\ r \in Int /\ v = 12 * q + r
    BY DEF Quotient, Remainder
  <1>2. y \in Int /\ m \in Int
    BY FieldsAreNumbers
  <1>3. n \in Int
    BY DEF Months, Shifts
  <1>4. K = YearAndMonth(L, y, m + n)
    BY DEF YearAndMonth, Tm
  <1> SUFFICES mktime(Shift(L, name, v)) = mktime(K)
    OBVIOUS
  <1> HIDE DEF K
  <1>5. ASSUME NEW z \in Int, NEW k \in Int, 12 * z + k = 12 * y + (m + n),
               Shift(L, name, v) = YearAndMonth(L, z, k)
        PROVE  mktime(Shift(L, name, v)) = mktime(K)
    <2>1. mktime(YearAndMonth(L, z, k)) = mktime(YearAndMonth(L, y, m + n))
      <3> DEFINE w == m + n
      <3> HIDE DEF y, m, n
      <3>1. w \in Int /\ MonthCount(z, k) = MonthCount(y, w)
        BY <1>2, <1>3, <1>5 DEF MonthCount
      <3> HIDE DEF w
      <3>2. mktime(YearAndMonth(L, z, k)) = mktime(YearAndMonth(L, y, w))
        BY <1>2, <3>1, SameMonths, SMT
      <3> QED BY <3>2 DEF w
    <2> QED BY <1>4, <1>5, <2>1, Zenon
  <1>6. CASE name = "AddYear"
    <2>1. Shift(L, name, v) = YearAndMonth(L, y + v, m) /\ n = 12 * v
      BY <1>6 DEF Shift, Months, YearAndMonth, Tm
    <2>2. y + v \in Int /\ 12 * (y + v) + m = 12 * y + (m + n)
      <3> HIDE DEF y, m, n
      <3> QED BY <1>2, <2>1
    <2> HIDE DEF y, m, n
    <2> QED BY <1>2, <1>5, <2>1, <2>2, Zenon
  <1>7. CASE name = "DecreaseYear"
    <2>1. Shift(L, name, v) = YearAndMonth(L, y - v, m) /\ n = -12 * v
      BY <1>7 DEF Shift, Months, YearAndMonth, Tm
    <2>2. y - v \in Int /\ 12 * (y - v) + m = 12 * y + (m + n)
      <3> HIDE DEF y, m, n
      <3> QED BY <1>2, <2>1
    <2> HIDE DEF y, m, n
    <2> QED BY <1>2, <1>5, <2>1, <2>2, Zenon
  <1>8. CASE name = "AddMonth"
    <2>1. Shift(L, name, v) = AddMonth(L, v) /\ n = v
      BY <1>8 DEF Shift, Months
    <2>2. AddMonth(L, v) = IF r + m >= 12 THEN YearAndMonth(L, y + q + 1, m + r - 12)
                                          ELSE YearAndMonth(L, y + q, m + r)
      BY Zenon DEF AddMonth, YearAndMonth
    <2>3. /\ y + q + 1 \in Int /\ m + r - 12 \in Int /\ y + q \in Int /\ m + r \in Int
          /\ 12 * (y + q + 1) + (m + r - 12) = 12 * y + (m + n)
          /\ 12 * (y + q) + (m + r) = 12 * y + (m + n)
      <3> HIDE DEF q, r, y, m, n
      <3> QED BY <1>1, <1>2, <2>1
    <2> HIDE DEF n, y, m, q, r
    <2> QED BY <1>5, <2>1, <2>2, <2>3, Zenon
  <1>9. CASE name = "DecreaseMonth"
    <2>1. Shift(L, name, v) = DecreaseMonth(L, v) /\ n = -v
      BY <1>9 DEF Shift, Months
    <2>2. DecreaseMonth(L, v) = YearAndMonth(L, y - q, m - r)
      BY <1>9, Zenon DEF DecreaseMonth, YearAndMonth
    <2>3. y - q \in Int /\ m - r \in Int /\ 12 * (y - q) + (m - r) = 12 * y + (m + n)
      <3> HIDE DEF q, r, y, m, n
      <3> QED BY <1>1, <1>2, <2>1
    <2> HIDE DEF n, y, m, q, r
    <2> QED BY <1>5, <2>1, <2>2, <2>3, Zenon
  <1> QED BY <1>6, <1>7, <1>8, <1>9 DEF Shifts

(* A step by days to seconds is counted back.                                *)
LEMMA UnitsCountBack ==
    ASSUME NEW k \in Nat \ {0}, NEW a \in Int, NEW v \in Int
    PROVE  /\ Distance(a, a + v * k) \div k = Distance(v, 0)
           /\ Distance(a, a - v * k) \div k = Distance(v, 0)
  <1>1. CASE v >= 0
    <2>1. v * k \in Int /\ v * k >= 0 /\ v * k = k * v + 0
      BY <1>1, SMT
    <2>2. (v * k) \div k = v
      <3> DEFINE n == v * k
      <3>1. n \in Int /\ n = k * v + 0
        BY <2>1
      <3> HIDE DEF n
      <3>2. n \div k = v
        BY <3>1, Division, SMT
      <3> QED BY <3>2 DEF n
    <2>3. Distance(a, a + v * k) = v * k /\ Distance(a, a - v * k) = v * k /\ Distance(v, 0) = v
      <3> DEFINE n == v * k
      <3> HIDE DEF n
      <3>1. Distance(a, a + n) = n /\ Distance(a, a - n) = n /\ Distance(v, 0) = v
        BY <1>1, <2>1, SMT DEF Distance, n
      <3> QED BY <3>1 DEF n
    <2> QED BY <2>2, <2>3
  <1>2. CASE v < 0
    <2> DEFINE w == -v
    <2>1. w \in Int /\ v = -w /\ w > 0
      BY <1>2
    <2> HIDE DEF w
    <2>2. v * k = -(k * w) /\ k * w \in Int /\ k * w >= 0 /\ k * w = k * w + 0
      BY <2>1, SMT
    <2>3. (k * w) \div k = w
      <3> DEFINE n == k * w
      <3>1. n \in Int /\ n = k * w + 0
        BY <2>2
      <3> HIDE DEF n
      <3>2. n \div k = w
        BY <2>1, <3>1, Division, SMT
      <3> QED BY <3>2 DEF n
    <2>4. Distance(a, a + v * k) = k * w /\ Distance(a, a - v * k) = k * w /\ Distance(v, 0) = w
      BY <2>1, <2>2, SMT DEF Distance
    <2> QED BY <2>3, <2>4
  <1> QED BY <1>1, <1>2

LEMMA UnitLengths ==
    ASSUME NEW unit \in DOMAIN Units
    PROVE  Units[unit] \in Nat \ {0} /\ unit # "MilliSec"
  BY SMT DEF Units

(* Milliseconds: what is added or taken away, with seconds carried.          *)
Object == {o \in [time : Int, millitm : Nat] : o.millitm < 65536}

LEMMA UShort ==
    ASSUME NEW n \in Int
    PROVE  /\ ushort(n) \in Nat /\ ushort(n) < 65536
           /\ 0 <= n /\ n < 1000 => ushort(n) = n
  BY SMT DEF ushort

LEMMA MillisAreTyped ==
    ASSUME NEW o \in Object, NEW v \in Int
    PROVE  AddMilliSec(o, v) \in Object /\ DecreaseMilliSec(o, v) \in Object
  <1> DEFINE q == Quotient(v, 1000)
             r == Remainder(v, 1000)
             a == o.time
             b == o.millitm
  <1>1. q \in Int /\ r \in Int /\ a \in Int /\ b \in Int
    BY SMT DEF Quotient, Remainder, Object
  <1>2. ASSUME NEW x \in Int, NEW n \in Int
        PROVE  [time |-> x, millitm |-> ushort(n)] \in Object
    <2>1. ushort(n) \in Nat /\ ushort(n) < 65536
      BY UShort
    <2> DEFINE k == ushort(n)
    <2> HIDE DEF k
    <2>2. k \in Nat /\ k < 65536
      BY <2>1 DEF k
    <2>3. [time |-> x, millitm |-> k] \in Object
      BY <2>2, SMT DEF Object
    <2> QED BY <2>3 DEF k
  <1> HIDE DEF q, r, a, b
  <1>3. /\ a + q + 1 \in Int /\ b + r - 1000 \in Int /\ a + q \in Int /\ b + r \in Int
        /\ a - (q - 1) \in Int /\ b + 1000 - r \in Int /\ a - q \in Int /\ b - r \in Int
    BY <1>1
  <1>4. AddMilliSec(o, v) = IF r + b >= 1000
                            THEN [time |-> a + q + 1, millitm |-> ushort(b + r - 1000)]
                            ELSE [time |-> a + q, millitm |-> ushort(b + r)]
    BY DEF AddMilliSec, q, r, a, b
  <1>5. DecreaseMilliSec(o, v) = IF BorrowsSecond(o, v)
                                 THEN [time |-> a - (q - 1), millitm |-> ushort(b + 1000 - r)]
                                 ELSE [time |-> a - q, millitm |-> ushort(b - r)]
    BY DEF DecreaseMilliSec, q, r, a, b
  <1> QED BY <1>2, <1>3, <1>4, <1>5

LEMMA MomentOfNumbers ==
    ASSUME NEW a \in Int, NEW b \in Int, 0 <= b, b < 1000, NEW o, o.time = a, o.millitm = b
    PROVE  IsMoment(o)
  <1>1. b \in 0..999
    OBVIOUS
  <1> QED BY <1>1, Zenon DEF IsMoment

LEMMA MillisCount ==
    ASSUME NEW o, IsMoment(o), NEW v \in Int, v >= 0
    PROVE  /\ LET o2 == AddMilliSec(o, v)
              IN  /\ MillisAreExact(o, v, o2)
                  /\ o2.millitm < o.millitm \/ BetweenAllMilliSec(o, o2) = v
           /\ ~BorrowsSecond(o, v) =>
                  LET o2 == DecreaseMilliSec(o, v)
                  IN  MillisAreExact(o, -v, o2) /\ BetweenAllMilliSec(o, o2) = v
  <1> DEFINE q == Quotient(v, 1000)
             r == Remainder(v, 1000)
             a == o.time
             b == o.millitm
  <1>1. a \in Int /\ b \in Int /\ 0 <= b /\ b <= 999
    BY SMT DEF IsMoment
  <1>2. q \in Int /\ r \in Int /\ v = 1000 * q + r /\ 0 <= r /\ r < 1000 /\ 0 <= q
    BY SMT DEF Quotient, Remainder
  <1>3. AddMilliSec(o, v) = IF r + b >= 1000
                            THEN [time |-> a + q + 1, millitm |-> ushort(b + r - 1000)]
                            ELSE [time |-> a + q, millitm |-> ushort(b + r)]
    BY DEF AddMilliSec
  <1>4. ~BorrowsSecond(o, v) =>
            DecreaseMilliSec(o, v) = [time |-> a - q, millitm |-> ushort(b - r)] /\ b - r >= 0
    BY <1>1, <1>2 DEF DecreaseMilliSec, BorrowsSecond
  <1>5. \A o2 : BetweenAllMilliSec(o, o2)
                   = Distance(b, o2.millitm) + 1000 * Distance(a, o2.time)
    BY DEF BetweenAllMilliSec
  <1>6. \A o2, n : MillisAreExact(o, n, o2) <=>
                       IsMoment(o2) /\ 1000 * (o2.time - a) + o2.millitm - b = n
    BY DEF MillisAreExact
  <1> HIDE DEF q, r, a, b
  <1>7. ASSUME r + b >= 1000
        PROVE  LET o2 == AddMilliSec(o, v)
               IN  /\ MillisAreExact(o, v, o2)
                   /\ o2.millitm < o.millitm \/ BetweenAllMilliSec(o, o2) = v
    <2> DEFINE o2 == AddMilliSec(o, v)
    <2>1. b + r - 1000 \in Int /\ 0 <= b + r - 1000 /\ b + r - 1000 < 1000
      BY <1>1, <1>2, <1>7
    <2>2. o2.time = a + q + 1 /\ o2.millitm = b + r - 1000
      BY <1>3, <1>7, <2>1, UShort
    <2> HIDE DEF o2
    <2>3. IsMoment(o2)
      <3>1. a + q + 1 \in Int
        BY <1>1, <1>2
      <3> QED BY <2>1, <2>2, <3>1, MomentOfNumbers
    <2>4. 1000 * (o2.time - a) + o2.millitm - b = v /\ o2.millitm < b
      BY <1>1, <1>2, <2>2, SMT
    <2>5. MillisAreExact(o, v, o2) /\ o2.millitm < o.millitm
      BY <1>6, <2>3, <2>4 DEF b
    <2> QED BY <2>5 DEF o2
  <1>8. ASSUME ~(r + b >= 1000)
        PROVE  LET o2 == AddMilliSec(o, v)
               IN  /\ MillisAreExact(o, v, o2)
                   /\ o2.millitm < o.millitm \/ BetweenAllMilliSec(o, o2) = v
    <2> DEFINE o2 == AddMilliSec(o, v)
    <2>1. b + r \in Int /\ 0 <= b + r /\ b + r < 1000
      BY <1>1, <1>2, <1>8
    <2>2. o2.time = a + q /\ o2.millitm = b + r
      BY <1>3, <1>8, <2>1, UShort
    <2> HIDE DEF o2
    <2>3. IsMoment(o2)
      <3>1. a + q \in Int
        BY <1>1, <1>2
      <3> QED BY <2>1, <2>2, <3>1, MomentOfNumbers
    <2>4. 1000 * (o2.time - a) + o2.millitm - b = v
      BY <1>1, <1>2, <2>2, SMT
    <2>5. Distance(b, o2.millitm) = r /\ Distance(a, o2.time) = q
      BY <1>1, <1>2, <2>2, SMT DEF Distance
    <2>6. BetweenAllMilliSec(o, o2) = v
      BY <1>2, <1>5, <2>5, SMT
    <2>7. MillisAreExact(o, v, o2)
      BY <1>6, <2>3, <2>4
    <2> QED BY <2>6, <2>7 DEF o2
  <1>9. ASSUME ~BorrowsSecond(o, v)
        PROVE  LET o2 == DecreaseMilliSec(o, v)
               IN  MillisAreExact(o, -v, o2) /\ BetweenAllMilliSec(o, o2) = v
    <2> DEFINE o2 == DecreaseMilliSec(o, v)
    <2>1. b - r \in Int /\ 0 <= b - r /\ b - r < 1000
      BY <1>1, <1>2, <1>4, <1>9
    <2>2. o2.time = a - q /\ o2.millitm = b - r
      BY <1>4, <1>9, <2>1, UShort
    <2> HIDE DEF o2
    <2>3. IsMoment(o2)
      <3>1. a - q \in Int
        BY <1>1, <1>2
      <3> QED BY <2>1, <2>2, <3>1, MomentOfNumbers
    <2>4. 1000 * (o2.time - a) + o2.millitm - b = -v
      BY <1>1, <1>2, <2>2, SMT
    <2>5. Distance(b, o2.millitm) = r /\ Distance(a, o2.time) = q
      BY <1>1, <1>2, <2>2, SMT DEF Distance
    <2>6. BetweenAllMilliSec(o, o2) = v
      BY <1>2, <1>5, <2>5, SMT
    <2>7. MillisAreExact(o, -v, o2)
      BY <1>6, <2>3, <2>4
    <2> QED BY <2>6, <2>7 DEF o2
  <1> QED BY <1>7, <1>8, <1>9
-----------------------------------------------------------------------------
(* What is known of a thread: its object o, the buffer b, its place p, the   *)
(* fields td that are to be set, its call c, and whether r another has used  *)
(* the buffer.                                                               *)
Shifting(o, td, c) == c.name \in Shifts /\ c.arg \in Int /\ td = <<>> /\ o = c.from

Setting(td, c) == c.name = "Set" /\ Len(td) = 1

Parsing(td, c) ==
    /\ c.name = "FromStr" /\ c.arg \in Dates /\ Len(td) \in 1..7
    /\ \A j \in 1..Len(td) : td[j] = InTurn(c.arg)[7 - Len(td) + j]

Changed(L, td, c) ==
    IF c.name \in Shifts THEN Shift(L, c.name, c.arg) ELSE SetField(L, td[1][1], td[1][2])

Undisturbed(o, b, p, td, c) ==
    /\ p = "assign" => b = localtime(o.time)
    /\ p = "mktime" => b = Changed(localtime(o.time), td, c)
    /\ p # "idle" /\ c.name = "FromStr" /\ Fits(c.arg, c.from)
         => Progress(o.time, c.arg, c.from, 8 - Len(td))

Coherent(o, b, p, td, c, r) ==
    /\ p = "idle" => td = <<>> /\ c = NoCall
    /\ p # "idle" => Shifting(o, td, c) \/ Setting(td, c) \/ Parsing(td, c)
    /\ p = "mktime" /\ td # <<>> /\ td[1][1] = "millisec" => o.millitm = Millis(td[1][2])
    /\ ~r => Undisturbed(o, b, p, td, c)

LEMMA NamesDiffer ==
    /\ "Set" \notin Shifts /\ "FromStr" \notin Shifts /\ "Set" # "FromStr"
    /\ NoCall.name \notin Shifts /\ NoCall.name # "FromStr"
    /\ "localtime" # "idle" /\ "localtime" # "assign" /\ "localtime" # "mktime"
    /\ "assign" # "idle" /\ "assign" # "mktime" /\ "mktime" # "idle"
  BY DEF Shifts, NoCall

LEMMA TurnOfDate ==
    ASSUME NEW d, d \in Seq(Int), Len(d) <= 7
    PROVE  /\ InTurn(d) \in Seq(FieldValues) /\ Len(InTurn(d)) = 7
           /\ Len(d) = 7 => \A i \in 1..7 : InTurn(d)[i] = <<Fields[i], d[i]>>
  <1>1. InTurn(d) = [i \in 1..7 |-> <<Fields[i], IF i <= Len(d) THEN d[i] ELSE 0>>]
    BY DEF InTurn
  <1>2. ASSUME NEW i \in 1..7
        PROVE  /\ <<Fields[i], IF i <= Len(d) THEN d[i] ELSE 0>> \in FieldValues
               /\ Len(d) = 7 => <<Fields[i], IF i <= Len(d) THEN d[i] ELSE 0>> = <<Fields[i], d[i]>>
    <2>1. i <= Len(d) => d[i] \in Int
      <3>1. Len(d) \in Nat
        BY LenProperties, Zenon
      <3>2. i <= Len(d) => i \in 1..Len(d)
        BY <3>1
      <3> QED BY <3>2, ElementOfSeq, Zenon
    <2> QED BY <2>1 DEF FieldValues
  <1>3. InTurn(d) \in [1..7 -> FieldValues]
    BY <1>1, <1>2
  <1>4. InTurn(d) \in Seq(FieldValues)
    <2>1. 7 \in Nat
      OBVIOUS
    <2>2. [1..7 -> FieldValues] \in {[1..n -> FieldValues] : n \in Nat}
      BY <2>1, Zenon
    <2>3. Seq(FieldValues) = UNION {[1..n -> FieldValues] : n \in Nat}
      BY SeqDef, Zenon
    <2> QED BY <1>3, <2>2, <2>3, Zenon
  <1>5. Len(InTurn(d)) = 7
    <2>1. Len(InTurn(d)) \in Nat /\ DOMAIN InTurn(d) = 1..Len(InTurn(d))
      BY <1>4, LenProperties, Zenon
    <2>2. DOMAIN InTurn(d) = 1..7
      BY <1>3, Zenon
    <2> DEFINE n == Len(InTurn(d))
    <2> HIDE DEF n
    <2>3. n \in Nat /\ 1..n = 1..7
      BY <2>1, <2>2, Zenon DEF n
    <2>4. n = 7
      <3>1. 7 \in 1..n /\ 8 \notin 1..n
        <4>1. 7 \in 1..7 /\ 8 \notin 1..7
          OBVIOUS
        <4> QED BY <2>3, <4>1, Zenon
      <3> QED BY <2>3, <3>1
    <2> QED BY <2>4 DEF n
  <1> QED BY <1>1, <1>2, <1>4, <1>5

LEMMA ShiftBeginsWell ==
    ASSUME NEW o, NEW b, NEW r, NEW name \in Shifts, NEW v \in Int
    PROVE  Coherent(o, b, "localtime", <<>>, [name |-> name, arg |-> v, from |-> o], r)
  <1> DEFINE c == [name |-> name, arg |-> v, from |-> o]
  <1>1. c.name = name /\ c.arg = v /\ c.from = o
    OBVIOUS
  <1> HIDE DEF c
  <1>2. Coherent(o, b, "localtime", <<>>, c, r)
    BY <1>1, NamesDiffer, Zenon DEF Coherent, Shifting, Undisturbed
  <1> QED BY <1>2 DEF c

LEMMA SetBeginsWell ==
    ASSUME NEW o, NEW b, NEW r, NEW s
    PROVE  Coherent(o, b, "localtime", <<s>>, [name |-> "Set", arg |-> s, from |-> o], r)
  <1> DEFINE c == [name |-> "Set", arg |-> s, from |-> o]
             td == <<s>>
  <1>1. c.name = "Set" /\ Len(td) = 1
    OBVIOUS
  <1> HIDE DEF c, td
  <1>2. Coherent(o, b, "localtime", td, c, r)
    BY <1>1, NamesDiffer, Zenon DEF Coherent, Setting, Undisturbed
  <1> QED BY <1>2 DEF c, td

LEMMA FromStrBeginsWell ==
    ASSUME NEW d \in Dates, NEW now, NEW b, NEW r
    PROVE  Coherent(now, b, "localtime", InTurn(d), [name |-> "FromStr", arg |-> d, from |-> now], r)
  <1> DEFINE c == [name |-> "FromStr", arg |-> d, from |-> now]
             td == InTurn(d)
  <1>1. c.name = "FromStr" /\ c.arg = d /\ c.from = now
    OBVIOUS
  <1>2. Len(td) = 7
    BY TimeObjectsAssumption, TurnOfDate
  <1> HIDE DEF c
  <1>3. Parsing(td, c)
    BY <1>1, <1>2 DEF Parsing
  <1>4. Progress(now.time, d, now, 1)
    BY DEF Progress, IsSetUpTo
  <1>5. 8 - Len(td) = 1
    BY <1>2
  <1> HIDE DEF td
  <1>6. Coherent(now, b, "localtime", td, c, r)
    BY <1>1, <1>3, <1>4, <1>5, NamesDiffer, Zenon DEF Coherent, Undisturbed
  <1> QED BY <1>6 DEF c, td

LEMMA LocaltimeGoesWell ==
    ASSUME NEW o, NEW b, NEW td, NEW c, NEW r, Coherent(o, b, "localtime", td, c, r)
    PROVE  Coherent(o, localtime(o.time), "assign", td, c, r)
  BY NamesDiffer, Zenon DEF Coherent, Undisturbed

(* Another thread takes the buffer.                                          *)
LEMMA OthersGoWell ==
    ASSUME NEW o, NEW b, NEW p, NEW td, NEW c, NEW r, Coherent(o, b, p, td, c, r),
           NEW b2, NEW r2, r2 <=> r \/ p \in {"assign", "mktime"}
    PROVE  Coherent(o, b2, p, td, c, r2)
  BY NamesDiffer, Zenon DEF Coherent, Undisturbed

LEMMA IdleIsWell ==
    ASSUME NEW o, NEW b, NEW r
    PROVE  Coherent(o, b, "idle", <<>>, NoCall, r)
  BY NamesDiffer, Zenon DEF Coherent, Undisturbed

(* The object after the field is set in the buffer.                          *)
AfterAssign(o, td, c) ==
    IF c.name \notin Shifts /\ td[1][1] = "millisec"
    THEN [o EXCEPT !.millitm = Millis(td[1][2])] ELSE o

AfterMktime(o, b, c) ==
    IF Accepted(c.name, mktime(b)) THEN [o EXCEPT !.time = mktime(b)] ELSE o

LEMMA DatesAreLists == \A d \in Dates : d \in Seq(Int) /\ Len(d) <= 7
  BY TimeObjectsAssumption

LEMMA HasField ==
    ASSUME NEW o, NEW b, NEW p, NEW td \in Seq(FieldValues), NEW c, NEW r,
           Coherent(o, b, p, td, c, r), p # "idle", c.name \notin Shifts
    PROVE  td # <<>> /\ td[1] \in FieldValues
  <1>1. Len(td) \in Nat /\ Len(td) >= 1
    <2>1. Len(td) \in Nat
      BY LenProperties, Zenon
    <2>2. Len(td) = 1 \/ Len(td) \in 1..7
      BY Zenon DEF Coherent, Shifting, Setting, Parsing
    <2> DEFINE n == Len(td)
    <2> HIDE DEF n
    <2>3. n \in Nat /\ (n = 1 \/ n \in 1..7)
      BY <2>1, <2>2, Zenon DEF n
    <2>4. n >= 1
      BY <2>3
    <2> QED BY <2>1, <2>4, Zenon DEF n
  <1>2. td # <<>>
    BY <1>1, EmptySeq
  <1>3. 1 \in 1..Len(td)
    BY <1>1
  <1> QED BY <1>2, <1>3, ElementOfSeq, Zenon

LEMMA AssignGoesWell ==
    ASSUME NEW o \in Object, NEW b, NEW td \in Seq(FieldValues), NEW c, NEW r,
           Coherent(o, b, "assign", td, c, r)
    PROVE  /\ AfterAssign(o, td, c) \in Object
           /\ Coherent(AfterAssign(o, td, c), Changed(b, td, c), "mktime", td, c, r)
  <1> DEFINE o2 == AfterAssign(o, td, c)
             b2 == Changed(b, td, c)
  <1>1. CASE c.name \in Shifts
    <2>1. o2 = o
      BY <1>1, Zenon DEF AfterAssign
    <2>2. Shifting(o, td, c)
      BY <1>1, NamesDiffer, Zenon DEF Coherent, Setting, Parsing
    <2>3. td = <<>> /\ c.name # "FromStr"
      BY <2>2, NamesDiffer, Zenon DEF Shifting
    <2>4. ~r => b = localtime(o.time)
      BY Zenon DEF Coherent, Undisturbed
    <2>5. ~r => b2 = Changed(localtime(o.time), td, c)
      BY <2>4, Zenon
    <2> HIDE DEF b2
    <2>6. Coherent(o, b2, "mktime", td, c, r)
      BY <2>2, <2>3, <2>5, NamesDiffer, Zenon DEF Coherent, Undisturbed
    <2> QED BY <2>1, <2>6, Zenon DEF b2
  <1>2. CASE c.name \notin Shifts
    <2>1. td # <<>> /\ td[1] \in FieldValues
      BY <1>2, HasField, NamesDiffer, Zenon
    <2>2. td[1][2] \in Int
      BY <2>1 DEF FieldValues
    <2>3. /\ o2 \in Object /\ o2.time = o.time
          /\ td[1][1] = "millisec" => o2.millitm = Millis(td[1][2])
      <3> DEFINE n == Millis(td[1][2])
      <3>1. n \in Int /\ 0 <= n /\ n <= 999
        <4> DEFINE k == td[1][2]
        <4> HIDE DEF k
        <4>1. k \in Int
          BY <2>2, Zenon DEF k
        <4>2. Millis(k) \in Int /\ 0 <= Millis(k) /\ Millis(k) <= 999
          BY <4>1 DEF CLAMP, Millis
        <4> QED BY <4>2, Zenon DEF k
      <3> HIDE DEF n
      <3>2. o2 = IF td[1][1] = "millisec" THEN [o EXCEPT !.millitm = n] ELSE o
        BY <1>2, Zenon DEF AfterAssign, n
      <3>3. /\ [o EXCEPT !.millitm = n] \in Object
            /\ [o EXCEPT !.millitm = n].time = o.time /\ [o EXCEPT !.millitm = n].millitm = n
        <4>1. o \in [time : Int, millitm : Nat] /\ n \in Nat /\ n < 65536
          BY <3>1 DEF Object
        <4>2. [o EXCEPT !.millitm = n] = [time |-> o.time, millitm |-> n]
          BY <4>1
        <4> QED BY <4>1, <4>2, SMT DEF Object
      <3>4. o2 \in Object /\ o2.time = o.time /\ (td[1][1] = "millisec" => o2.millitm = n)
        <4> HIDE DEF o2
        <4>1. CASE td[1][1] = "millisec"
          BY <3>2, <3>3, <4>1, Zenon
        <4>2. CASE td[1][1] # "millisec"
          BY <3>2, <4>2, Zenon
        <4> QED BY <4>1, <4>2
      <3> QED BY <3>4 DEF n
    <2>4. Setting(td, c) \/ Parsing(td, c)
      BY <1>2, NamesDiffer, Zenon DEF Coherent, Shifting
    <2>5. ~r => /\ b = localtime(o.time)
                /\ c.name = "FromStr" /\ Fits(c.arg, c.from)
                     => Progress(o.time, c.arg, c.from, 8 - Len(td))
      BY NamesDiffer, Zenon DEF Coherent, Undisturbed
    <2>6. ~r => b2 = Changed(localtime(o.time), td, c)
      BY <2>5, Zenon
    <2> HIDE DEF b2, o2
    <2>7. ~r => Undisturbed(o2, b2, "mktime", td, c)
      BY <2>3, <2>5, <2>6, NamesDiffer, Zenon DEF Undisturbed
    <2>8. Coherent(o2, b2, "mktime", td, c, r)
      BY <2>3, <2>4, <2>7, NamesDiffer, Zenon DEF Coherent
    <2> QED BY <2>3, <2>8 DEF o2, b2
  <1> QED BY <1>1, <1>2

(* What the next field does, number i, when FromStr is not disturbed.        *)
InItsTurn(o, b, td, c, i) ==
    /\ i \in 1..7
    /\ o.time \in Int
    /\ td[1] = <<Fields[i], c.arg[i]>>
    /\ b = SetField(localtime(o.time), Fields[i], c.arg[i])
    /\ Progress(o.time, c.arg, c.from, i)
    /\ i = 7 => o.millitm = Millis(c.arg[7])

LEMMA ParsesOn ==
    ASSUME NEW o \in Object, NEW b, NEW td \in Seq(FieldValues), NEW c, NEW r,
           Coherent(o, b, "mktime", td, c, r), ~r,
           c.name = "FromStr", Fits(c.arg, c.from)
    PROVE  InItsTurn(o, b, td, c, 8 - Len(td))
  <1> DEFINE i == 8 - Len(td)
             d == c.arg
  <1>1. Parsing(td, c)
    BY NamesDiffer, Zenon DEF Coherent, Shifting, Setting
  <1>2. d \in Dates /\ Len(d) = 7 /\ d \in Seq(Int)
    <2>1. d \in Dates
      BY <1>1, Zenon DEF Parsing
    <2>2. d \in Seq(Int)
      BY <2>1, DatesAreLists, Zenon
    <2>3. Len(d) = 7
      BY SMT DEF Fits, IsDate
    <2> QED BY <2>1, <2>2, <2>3
  <1>3. /\ Len(td) \in 1..7 /\ i \in 1..7 /\ 1 \in 1..Len(td) /\ 7 - Len(td) + 1 = i
    <2> DEFINE n == Len(td)
    <2>1. n \in 1..7
      BY <1>1, Zenon DEF Parsing
    <2> HIDE DEF n
    <2>2. 8 - n \in 1..7 /\ 1 \in 1..n /\ 7 - n + 1 = 8 - n
      BY <2>1
    <2> QED BY <2>1, <2>2, Zenon DEF n
  <1>4. td[1] = InTurn(d)[i]
    <2>1. td[1] = InTurn(d)[7 - Len(td) + 1]
      BY <1>1, <1>3, Zenon DEF Parsing
    <2> QED BY <1>3, <2>1, Zenon
  <1>5. td[1] = <<Fields[i], d[i]>>
    <2>1. Len(d) <= 7
      BY <1>2
    <2>2. \A j \in 1..7 : InTurn(d)[j] = <<Fields[j], d[j]>>
      BY <1>2, <2>1, TurnOfDate, Zenon
    <2> HIDE DEF i, d
    <2> QED BY <1>3, <1>4, <2>2, Zenon
  <1>6. td[1][1] = Fields[i] /\ td[1][2] = d[i]
    BY <1>5
  <1>7. Undisturbed(o, b, "mktime", td, c)
    BY Zenon DEF Coherent
  <1>8. b = SetField(localtime(o.time), Fields[i], d[i])
    <2>1. b = Changed(localtime(o.time), td, c)
      BY <1>7, Zenon DEF Undisturbed
    <2> QED BY <1>6, <2>1, NamesDiffer DEF Changed
  <1>9. Progress(o.time, d, c.from, i)
    BY <1>7, NamesDiffer, Zenon DEF Undisturbed
  <1>10. i = 7 => o.millitm = Millis(d[7])
    <2>1. td # <<>>
      BY <1>3, EmptySeq
    <2>2. td[1][1] = "millisec" => o.millitm = Millis(td[1][2])
      BY <2>1, Zenon DEF Coherent
    <2> QED BY <1>6, <2>2, FieldNames
  <1>11. o.time \in Int
    BY DEF Object
  <1> HIDE DEF i
  <1>12. InItsTurn(o, b, td, c, i)
    BY <1>3, <1>5, <1>8, <1>9, <1>10, <1>11, Zenon DEF InItsTurn
  <1> QED BY <1>12 DEF i

LEMMA MktimeIsTyped ==
    ASSUME NEW o \in Object, NEW b \in Tm, NEW c
    PROVE  AfterMktime(o, b, c) \in Object
  <1> DEFINE T == mktime(b)
  <1>1. T \in Int
    BY MktimeIsNumber
  <1> HIDE DEF T
  <1>2. [o EXCEPT !.time = T] \in Object
    BY <1>1, SMT DEF Object
  <1> QED BY <1>2, Zenon DEF AfterMktime, T

(* An Object is known by its two fields.                                     *)
LEMMA ObjectOf ==
    ASSUME NEW o \in Object, NEW T \in Int
    PROVE  /\ [o EXCEPT !.time = T] = [time |-> T, millitm |-> o.millitm]
           /\ [o EXCEPT !.time = T].time = T
           /\ [o EXCEPT !.time = o.time] = o
           /\ o = [time |-> o.time, millitm |-> o.millitm]
  BY SMT DEF Object

LEMMA TailOf ==
    ASSUME NEW td \in Seq(FieldValues), Len(td) >= 2
    PROVE  /\ Tail(td) \in Seq(FieldValues) /\ Len(Tail(td)) = Len(td) - 1
           /\ \A j \in 1..Len(Tail(td)) : Tail(td)[j] = td[j + 1]
  BY SMT

LEMMA MktimeGoesOn ==
    ASSUME NEW o \in Object, NEW b \in Tm, NEW td \in Seq(FieldValues), NEW c, NEW r,
           Coherent(o, b, "mktime", td, c, r), ~(Len(td) < 2), NEW b2
    PROVE  Coherent(AfterMktime(o, b, c), b2, "localtime", Tail(td), c, r)
  <1> DEFINE n == Len(td)
             o2 == AfterMktime(o, b, c)
             td2 == Tail(td)
  <1>1. n \in Nat /\ ~(n < 2) /\ n # 1 /\ td # <<>>
    <2>1. n \in Nat
      BY LenProperties, Zenon
    <2>2. ~(n < 2)
      OBVIOUS
    <2>3. td # <<>>
      BY <2>2, EmptySeq
    <2> HIDE DEF n
    <2> QED BY <2>1, <2>2, <2>3
  <1>2. Parsing(td, c)
    BY <1>1, NamesDiffer, Zenon DEF Coherent, Shifting, Setting
  <1>3. /\ n \in 1..7 /\ c.name = "FromStr" /\ c.arg \in Dates
        /\ \A j \in 1..n : td[j] = InTurn(c.arg)[7 - n + j]
    BY <1>2, Zenon DEF Parsing
  <1>4. /\ Len(td2) = n - 1
        /\ \A j \in 1..Len(td2) : td2[j] = td[j + 1]
    BY <1>1, TailOf
  <1> HIDE DEF n, o2, td2
  <1>5. Parsing(td2, c)
    <2>1. Len(td2) \in 1..7
      BY <1>1, <1>3, <1>4
    <2>2. ASSUME NEW j \in 1..Len(td2)
          PROVE  td2[j] = InTurn(c.arg)[7 - Len(td2) + j]
      <3>1. j + 1 \in 1..n /\ 7 - n + (j + 1) = 7 - Len(td2) + j
        BY <1>1, <1>3, <1>4
      <3>2. td2[j] = td[j + 1] /\ td[j + 1] = InTurn(c.arg)[7 - n + (j + 1)]
        BY <1>3, <1>4, <3>1, Zenon
      <3> QED BY <3>1, <3>2, Zenon
    <2> QED BY <1>3, <2>1, <2>2, Zenon DEF Parsing
  <1>6. ASSUME ~r, Fits(c.arg, c.from)
        PROVE  Progress(o2.time, c.arg, c.from, 8 - Len(td2))
    <2> DEFINE i == 8 - Len(td)
               d == c.arg
               now == c.from
               T == o.time
               U == mktime(b)
    <2>1. /\ i \in 1..7 /\ T \in Int /\ b = SetField(localtime(T), Fields[i], d[i])
          /\ Progress(T, d, now, i)
      <3>1. InItsTurn(o, b, td, c, i)
        BY <1>3, <1>6, ParsesOn
      <3> QED BY <3>1, Zenon DEF InItsTurn
    <2>2. i + 1 = 8 - Len(td2) /\ (i = 1 \/ i \in 2..6)
      <3>1. i = 8 - n
        BY DEF n
      <3> HIDE DEF i
      <3>2. i \in 1..6
        BY <1>1, <1>3, <3>1
      <3>3. i = 1 \/ i \in 2..6
        BY <3>2
      <3>4. i + 1 = 8 - Len(td2)
        BY <1>1, <1>4, <3>1
      <3> QED BY <3>3, <3>4
    <2>3. Fits(d, now)
      BY <1>6
    <2>4. U \in Int /\ U > 0 /\ Progress(U, d, now, i + 1)
      <3> HIDE DEF i, d, now, T
      <3>1. CASE i = 1
        <4>1. 1 + 1 = 2
          OBVIOUS
        <4> QED BY <2>1, <2>3, <3>1, <4>1, NextYear, Zenon
      <3>2. CASE i \in 2..6
        BY <2>1, <2>3, <3>2, NextField, Zenon
      <3> QED BY <2>2, <3>1, <3>2
    <2>5. Accepted("FromStr", U)
      <3> HIDE DEF U
      <3>1. U >= 0
        BY <2>4
      <3> QED BY <3>1, NamesDiffer, Zenon DEF Accepted
    <2>6. o2 = [o EXCEPT !.time = U]
      BY <1>3, <2>5, Zenon DEF o2, AfterMktime
    <2>7. o2.time = U
      <3> HIDE DEF U
      <3> QED BY <2>4, <2>6, ObjectOf, Zenon
    <2> HIDE DEF i, d, now, T, U
    <2>8. Progress(o2.time, d, now, 8 - Len(td2))
      BY <2>2, <2>4, <2>7, Zenon
    <2> QED BY <2>8, Zenon DEF d, now
  <1>7. ~r => Undisturbed(o2, b2, "localtime", td2, c)
    BY <1>6, NamesDiffer, Zenon DEF Undisturbed
  <1>8. Coherent(o2, b2, "localtime", td2, c, r)
    BY <1>5, <1>7, NamesDiffer, Zenon DEF Coherent
  <1> QED BY <1>8 DEF o2, td2

LEMMA FromStrEnds ==
    ASSUME NEW o \in Object, NEW b, NEW td \in Seq(FieldValues), NEW c, NEW r,
           Coherent(o, b, "mktime", td, c, r), ~r, Len(td) < 2,
           c.name = "FromStr", Fits(c.arg, c.from)
    PROVE  AfterMktime(o, b, c) = MomentOf(c.arg)
  <1> DEFINE i == 8 - Len(td)
             d == c.arg
             now == c.from
             T == o.time
  <1>1. /\ i \in 1..7 /\ T \in Int /\ b = SetField(localtime(T), Fields[i], d[i])
        /\ Progress(T, d, now, i) /\ (i = 7 => o.millitm = Millis(d[7]))
    <2>1. InItsTurn(o, b, td, c, i)
      BY ParsesOn
    <2> QED BY <2>1, Zenon DEF InItsTurn
  <1>2. i = 7
    <2> DEFINE n == Len(td)
    <2>1. n \in Nat
      BY LenProperties, Zenon
    <2>2. n < 2 /\ 8 - n \in 1..7
      BY <1>1
    <2> HIDE DEF n
    <2>3. 8 - n = 7
      BY <2>1, <2>2
    <2> QED BY <2>3 DEF n
  <1>3. Fits(d, now)
    OBVIOUS
  <1> HIDE DEF i, d, now, T
  <1>4. /\ T > 0 /\ SetField(localtime(T), Fields[7], d[7]) = localtime(T)
        /\ MomentOf(d) = [time |-> T, millitm |-> d[7]] /\ Millis(d[7]) = d[7]
    BY <1>1, <1>2, <1>3, LastField, Zenon
  <1>5. mktime(b) = T
    <2>1. b = localtime(T)
      BY <1>1, <1>2, <1>4, Zenon
    <2> QED BY <1>1, <2>1, MktimeUndoes, Zenon
  <1>6. Accepted("FromStr", T)
    <2>1. T >= 0
      BY <1>1, <1>4
    <2> QED BY <2>1, NamesDiffer, Zenon DEF Accepted
  <1>7. AfterMktime(o, b, c) = [o EXCEPT !.time = T]
    BY <1>5, <1>6, Zenon DEF AfterMktime
  <1>8. o.millitm = d[7]
    BY <1>1, <1>2, <1>4, Zenon
  <1>9. AfterMktime(o, b, c) = MomentOf(d)
    BY <1>1, <1>4, <1>7, <1>8, ObjectOf, Zenon
  <1> QED BY <1>9 DEF d

LEMMA ShiftEnds ==
    ASSUME NEW o \in Object, NEW b, NEW td, NEW c, NEW r,
           Coherent(o, b, "mktime", td, c, r), ~r, c.name \in Shifts,
           ~(c.name = "DecreaseMonth" /\ Borrows(c.arg, localtime(c.from.time).tm_mon))
    PROVE  LET to == Shifted(c.from, Months(c.name, c.arg))
           IN  AfterMktime(o, b, c) = [c.from EXCEPT !.time = IF to > 0 THEN to ELSE @]
  <1> DEFINE to == Shifted(c.from, Months(c.name, c.arg))
             L == localtime(o.time)
  <1>1. c.arg \in Int /\ o = c.from
    BY NamesDiffer, Zenon DEF Coherent, Shifting, Setting, Parsing
  <1>2. b = Shift(L, c.name, c.arg)
    BY NamesDiffer, Zenon DEF Coherent, Undisturbed, Changed
  <1>3. L \in Tm
    <2>1. o.time \in Int
      BY DEF Object
    <2> QED BY <2>1, MktimeUndoes, Zenon DEF IsTm
  <1>4. mktime(b) = to
    <2>1. ~(c.name = "DecreaseMonth" /\ Borrows(c.arg, L.tm_mon))
      BY <1>1, Zenon
    <2>2. to = mktime([L EXCEPT !.tm_mon = @ + Months(c.name, c.arg)])
      BY <1>1, Zenon DEF Shifted
    <2> HIDE DEF L, to
    <2> QED BY <1>1, <1>2, <1>3, <2>1, <2>2, ShiftsByMonths, Zenon
  <1> HIDE DEF to, L
  <1>5. AfterMktime(o, b, c) = IF to > 0 THEN [o EXCEPT !.time = to] ELSE o
    BY <1>4, Zenon DEF AfterMktime, Accepted
  <1>6. o.time \in Int
    BY DEF Object
  <1>7. AfterMktime(o, b, c) = [o EXCEPT !.time = IF to > 0 THEN to ELSE @]
    <2>1. CASE to > 0
      BY <1>5, <2>1, Zenon
    <2>2. CASE ~(to > 0)
      BY <1>5, <1>6, <2>2, ObjectOf, Zenon
    <2> QED BY <2>1, <2>2
  <1>8. AfterMktime(o, b, c) = [c.from EXCEPT !.time = IF to > 0 THEN to ELSE @]
    BY <1>1, <1>7, Zenon
  <1> QED BY <1>8 DEF to
-----------------------------------------------------------------------------
(* The inductive invariant: what is known of each thread.                    *)
Calling == call = [t \in Threads |-> call[t]]

TimeInv ==
    /\ TypeOK
    /\ Calling
    /\ \A t \in Threads : Coherent(m_time[t], tm, pc[t], todo[t], call[t], raced[t])

LEMMA ThreadIsTyped ==
    ASSUME TypeOK, NEW t \in Threads
    PROVE  m_time[t] \in Object /\ todo[t] \in Seq(FieldValues) /\ pc[t] \in PC /\ raced[t] \in BOOLEAN
  BY DEF TypeOK, Object

LEMMA ObjectsAreTyped ==
    ASSUME m_time \in [Threads -> Object]
    PROVE  m_time \in [Threads -> [time : Int, millitm : Nat]] /\ \A t \in Threads : m_time[t].millitm < 65536
  BY DEF Object

LEMMA ObjectsOfType ==
    ASSUME TypeOK
    PROVE  m_time \in [Threads -> Object]
  BY DEF TypeOK, Object

(* What the parts of a step prove of its type: the variables as they become. *)
TypesOf(m, b, p, td, n, r) ==
    /\ m \in [Threads -> Object] /\ b \in Tm /\ p \in [Threads -> PC]
    /\ td \in [Threads -> Seq(FieldValues)] /\ n \in 0..MaxCalls /\ r \in [Threads -> BOOLEAN]

LEMMA TypesTogether == TypeOK <=> TypesOf(m_time, tm, pc, todo, calls, raced)
  BY ObjectsAreTyped, ObjectsOfType, SMT DEF TypeOK, TypesOf

LEMMA TypesTogetherNext == TypeOK' <=> TypesOf(m_time', tm', pc', todo', calls', raced')
  <1>1. ASSUME m_time' \in [Threads -> Object]
        PROVE  m_time' \in [Threads -> [time : Int, millitm : Nat]] /\ \A t \in Threads : m_time'[t].millitm < 65536
    BY <1>1 DEF Object
  <1>2. ASSUME m_time' \in [Threads -> [time : Int, millitm : Nat]],
               \A t \in Threads : m_time'[t].millitm < 65536
        PROVE  m_time' \in [Threads -> Object]
    BY <1>2 DEF Object
  <1> QED BY <1>1, <1>2, SMT DEF TypeOK, TypesOf

LEMMA LocaltimeIsTyped ==
    ASSUME NEW T \in Int
    PROVE  localtime(T) \in Tm
  BY MktimeUndoes, Zenon DEF IsTm

LEMMA NowsAreObjects == Nows \subseteq Object
  <1> DEFINE few == 0..999
  <1>1. \A x \in few : x \in Nat /\ x < 65536
    OBVIOUS
  <1>2. Nows \subseteq [time : Nat, millitm : few]
    BY TimeObjectsAssumption
  <1> HIDE DEF few
  <1>3. ASSUME NEW o \in Nows
        PROVE  o \in Object
    <2>1. o \in [time : Nat, millitm : few]
      BY <1>2, Zenon
    <2>2. o \in [time : Int, millitm : Nat] /\ o.millitm \in few
      BY <1>1, <2>1
    <2>3. o.millitm < 65536
      BY <1>1, <2>2, SMT
    <2> QED BY <2>2, <2>3, SMT DEF Object
  <1> QED BY <1>3

LEMMA InitTimeInv == Init => TimeInv
  <1> SUFFICES ASSUME Init PROVE TimeInv
    OBVIOUS
  <1>1. m_time \in [Threads -> Object]
    <2>3. Nows \subseteq Object
      BY NowsAreObjects
    <2>4. m_time \in [Threads -> Nows]
      BY DEF Init
    <2> QED BY <2>3, <2>4
  <1>2. tm \in Tm
    BY LocaltimeIsTyped DEF Init
  <1>3. /\ pc \in [Threads -> PC] /\ todo \in [Threads -> Seq(FieldValues)]
        /\ calls \in 0..MaxCalls /\ raced \in [Threads -> BOOLEAN]
    <2>1. <<>> \in Seq(FieldValues)
      BY EmptySeq
    <2>2. MaxCalls \in Nat
      BY TimeObjectsAssumption
    <2> QED BY <2>1, <2>2 DEF Init, PC
  <1>4. TypeOK
    BY <1>1, <1>2, <1>3, TypesTogether, Zenon DEF TypesOf
  <1>5. Calling
    BY Zenon DEF Init, Calling
  <1>6. ASSUME NEW t \in Threads
        PROVE  Coherent(m_time[t], tm, pc[t], todo[t], call[t], raced[t])
    <2>1. pc[t] = "idle" /\ todo[t] = <<>> /\ call[t] = NoCall
      BY DEF Init
    <2> QED BY <2>1, IdleIsWell, Zenon
  <1> QED BY <1>4, <1>5, <1>6, Zenon DEF TimeInv

(* A step of thread t: the others keep what is theirs, and they have lost    *)
(* the buffer when it has changed.                                           *)
Apart(t) ==
    \A u \in Threads \ {t} :
        /\ m_time'[u] = m_time[u] /\ pc'[u] = pc[u] /\ todo'[u] = todo[u] /\ call'[u] = call[u]
        /\ \/ tm' = tm /\ raced'[u] = raced[u]
           \/ raced'[u] <=> raced[u] \/ pc[u] \in {"assign", "mktime"}

LEMMA OthersKept ==
    ASSUME TimeInv, NEW t \in Threads, TypeOK', Calling', Apart(t),
           Coherent(m_time'[t], tm', pc'[t], todo'[t], call'[t], raced'[t])
    PROVE  TimeInv'
  <1>1. ASSUME NEW u \in Threads
        PROVE  Coherent(m_time'[u], tm', pc'[u], todo'[u], call'[u], raced'[u])
    <2>1. CASE u = t
      BY <2>1, Zenon
    <2>2. CASE u # t
      <3>1. Coherent(m_time[u], tm, pc[u], todo[u], call[u], raced[u])
        BY Zenon DEF TimeInv
      <3>2. /\ m_time'[u] = m_time[u] /\ pc'[u] = pc[u] /\ todo'[u] = todo[u] /\ call'[u] = call[u]
            /\ \/ tm' = tm /\ raced'[u] = raced[u]
               \/ raced'[u] <=> raced[u] \/ pc[u] \in {"assign", "mktime"}
        BY <2>2, Zenon DEF Apart
      <3>3. CASE tm' = tm /\ raced'[u] = raced[u]
        BY <3>1, <3>2, <3>3, Zenon
      <3>4. CASE raced'[u] <=> raced[u] \/ pc[u] \in {"assign", "mktime"}
        <4> DEFINE r2 == raced'[u]
        <4> HIDE DEF r2
        <4>1. Coherent(m_time[u], tm', pc[u], todo[u], call[u], r2)
          BY <3>1, <3>4, OthersGoWell, Zenon DEF r2
        <4> QED BY <3>2, <4>1, Zenon DEF r2
      <3> QED BY <3>2, <3>3, <3>4, Zenon
    <2> QED BY <2>1, <2>2
  <1> QED BY <1>1, Zenon DEF TimeInv

LEMMA Updated ==
    ASSUME NEW S, NEW R, NEW f \in [S -> R], NEW s \in S, NEW x \in R
    PROVE  /\ [f EXCEPT ![s] = x] \in [S -> R]
           /\ [f EXCEPT ![s] = x][s] = x
           /\ \A u \in S \ {s} : [f EXCEPT ![s] = x][u] = f[u]
  OBVIOUS

LEMMA CallUpdated ==
    ASSUME Calling, NEW t \in Threads, NEW c, call' = [call EXCEPT ![t] = c]
    PROVE  Calling' /\ call'[t] = c /\ \A u \in Threads \ {t} : call'[u] = call[u]
  BY DEF Calling

(* Another call is counted.                                                  *)
LEMMA Counted ==
    ASSUME TypeOK, NEW t \in Threads, Calls(t)
    PROVE  calls' \in 0..MaxCalls /\ pc[t] = "idle"
  BY TimeObjectsAssumption DEF TypeOK, Calls

LEMMA Idle ==
    ASSUME TimeInv, NEW t \in Threads, pc[t] = "idle"
    PROVE  todo[t] = <<>> /\ call[t] = NoCall
  BY Zenon DEF TimeInv, Coherent

(* A call that works on its own object only.                                 *)
LEMMA OnlyItsObject ==
    ASSUME TimeInv, NEW t \in Threads, Calls(t), UNCHANGED <<tm, pc, todo, call, raced>>,
           NEW o \in Object, m_time' = [m_time EXCEPT ![t] = o]
    PROVE  TimeInv'
  <1>1. /\ TypesOf(m_time, tm, pc, todo, calls, raced) /\ TypeOK /\ Calling
        /\ calls' \in 0..MaxCalls /\ pc[t] = "idle" /\ todo[t] = <<>> /\ call[t] = NoCall
    BY TypesTogether, Counted, Idle, Zenon DEF TimeInv
  <1>2. /\ m_time' \in [Threads -> Object] /\ m_time'[t] = o
        /\ \A u \in Threads \ {t} : m_time'[u] = m_time[u]
    BY <1>1, Updated, Zenon DEF TypesOf
  <1>3. TypeOK'
    BY <1>1, <1>2, TypesTogetherNext, Zenon DEF TypesOf
  <1>4. Calling'
    BY <1>1, Zenon DEF Calling
  <1>5. Apart(t)
    BY <1>2, Zenon DEF Apart
  <1>6. Coherent(m_time'[t], tm', pc'[t], todo'[t], call'[t], raced'[t])
    <2>1. pc'[t] = "idle" /\ todo'[t] = <<>> /\ call'[t] = NoCall
      BY <1>1, Zenon
    <2> QED BY <2>1, IdleIsWell, Zenon
  <1> QED BY <1>3, <1>4, <1>5, <1>6, OthersKept, Zenon

(* A call that needs localtime begins.                                       *)
LEMMA Begins ==
    ASSUME TimeInv, NEW t \in Threads, NEW name, NEW arg, NEW from \in Object,
           Begin(t, name, arg, from),
           NEW td \in Seq(FieldValues), todo' = [todo EXCEPT ![t] = td],
           Coherent(from, tm, "localtime", td, [name |-> name, arg |-> arg, from |-> from], raced[t])
    PROVE  TimeInv'
  <1> DEFINE c == [name |-> name, arg |-> arg, from |-> from]
  <1>1. /\ Calls(t) /\ call' = [call EXCEPT ![t] = c]
        /\ m_time' = [m_time EXCEPT ![t] = from] /\ pc' = [pc EXCEPT ![t] = "localtime"]
        /\ tm' = tm /\ raced' = raced
    BY Zenon DEF Begin
  <1>2. Coherent(from, tm, "localtime", td, c, raced[t])
    OBVIOUS
  <1> HIDE DEF c
  <1>3. /\ TypesOf(m_time, tm, pc, todo, calls, raced) /\ Calling
        /\ calls' \in 0..MaxCalls
    BY <1>1, TypesTogether, Counted, Zenon DEF TimeInv
  <1>4. /\ m_time' \in [Threads -> Object] /\ m_time'[t] = from
        /\ \A u \in Threads \ {t} : m_time'[u] = m_time[u]
    BY <1>1, <1>3, Updated, Zenon DEF TypesOf
  <1>5. /\ pc' \in [Threads -> PC] /\ pc'[t] = "localtime"
        /\ \A u \in Threads \ {t} : pc'[u] = pc[u]
    <2>1. "localtime" \in PC
      BY DEF PC
    <2> QED BY <1>1, <1>3, <2>1, Updated, Zenon DEF TypesOf
  <1>6. /\ todo' \in [Threads -> Seq(FieldValues)] /\ todo'[t] = td
        /\ \A u \in Threads \ {t} : todo'[u] = todo[u]
    BY <1>3, Updated, Zenon DEF TypesOf
  <1>7. Calling' /\ call'[t] = c /\ \A u \in Threads \ {t} : call'[u] = call[u]
    BY <1>1, <1>3, CallUpdated, Zenon
  <1>8. TypeOK'
    BY <1>1, <1>3, <1>4, <1>5, <1>6, TypesTogetherNext, Zenon DEF TypesOf
  <1>9. Apart(t)
    BY <1>1, <1>4, <1>5, <1>6, <1>7, Zenon DEF Apart
  <1>10. Coherent(m_time'[t], tm', pc'[t], todo'[t], call'[t], raced'[t])
    BY <1>1, <1>2, <1>4, <1>5, <1>6, <1>7, Zenon
  <1> QED BY <1>7, <1>8, <1>9, <1>10, OthersKept, Zenon

(* The buffer is used by t: who else had something there knows it.           *)
LEMMA UsesKept ==
    ASSUME TypeOK, NEW t \in Threads, Uses(t)
    PROVE  /\ raced' \in [Threads -> BOOLEAN] /\ raced'[t] = raced[t]
           /\ \A u \in Threads \ {t} : raced'[u] <=> raced[u] \/ pc[u] \in {"assign", "mktime"}
  <1>1. raced \in [Threads -> BOOLEAN]
    BY DEF TypeOK
  <1>2. raced' = [u \in Threads |-> raced[u] \/ (u # t /\ pc[u] \in {"assign", "mktime"})]
    BY Zenon DEF Uses
  <1>3. raced' \in [Threads -> BOOLEAN]
    BY <1>2, Zenon
  <1>4. raced'[t] = raced[t]
    <2>1. raced'[t] = (raced[t] \/ (t # t /\ pc[t] \in {"assign", "mktime"}))
      BY <1>2, Zenon
    <2>2. raced[t] \in BOOLEAN
      BY <1>1, Zenon
    <2> QED BY <2>1, <2>2, Zenon
  <1>5. ASSUME NEW u \in Threads \ {t}
        PROVE  raced'[u] <=> raced[u] \/ pc[u] \in {"assign", "mktime"}
    <2>1. raced'[u] = (raced[u] \/ (u # t /\ pc[u] \in {"assign", "mktime"}))
      BY <1>2, Zenon
    <2> QED BY <2>1, Zenon
  <1> QED BY <1>3, <1>4, <1>5, Zenon

LEMMA GetTimeKept ==
    ASSUME TimeInv, NEW t \in Threads, GetTime(t)
    PROVE  TimeInv'
  <1>1. /\ pc[t] = "idle" /\ tm' = localtime(m_time[t].time) /\ Uses(t)
        /\ UNCHANGED <<m_time, pc, todo, call, calls>>
    BY Zenon DEF GetTime
  <1>2. /\ TypesOf(m_time, tm, pc, todo, calls, raced) /\ Calling /\ TypeOK
        /\ todo[t] = <<>> /\ call[t] = NoCall
    BY <1>1, TypesTogether, Idle, Zenon DEF TimeInv
  <1>3. /\ raced' \in [Threads -> BOOLEAN] /\ raced'[t] = raced[t]
        /\ \A u \in Threads \ {t} : raced'[u] <=> raced[u] \/ pc[u] \in {"assign", "mktime"}
    BY <1>1, <1>2, UsesKept, Zenon
  <1>4. tm' \in Tm
    <2>1. m_time[t].time \in Int
      BY <1>2 DEF TypesOf, Object
    <2> QED BY <1>1, <2>1, LocaltimeIsTyped, Zenon
  <1>5. TypeOK'
    BY <1>1, <1>2, <1>3, <1>4, TypesTogetherNext, Zenon DEF TypesOf
  <1>6. Calling'
    BY <1>1, <1>2, Zenon DEF Calling
  <1>7. Apart(t)
    BY <1>1, <1>3, Zenon DEF Apart
  <1>8. Coherent(m_time'[t], tm', pc'[t], todo'[t], call'[t], raced'[t])
    BY <1>1, <1>2, IdleIsWell, Zenon
  <1> QED BY <1>5, <1>6, <1>7, <1>8, OthersKept, Zenon

LEMMA LocaltimeKept ==
    ASSUME TimeInv, NEW t \in Threads, Localtime(t)
    PROVE  TimeInv'
  <1>1. /\ pc[t] = "localtime" /\ tm' = localtime(m_time[t].time) /\ Uses(t)
        /\ pc' = [pc EXCEPT ![t] = "assign"] /\ UNCHANGED <<m_time, todo, call, calls>>
    BY Zenon DEF Localtime
  <1>2. /\ TypesOf(m_time, tm, pc, todo, calls, raced) /\ Calling /\ TypeOK
        /\ Coherent(m_time[t], tm, "localtime", todo[t], call[t], raced[t])
    BY <1>1, TypesTogether, Zenon DEF TimeInv
  <1>3. /\ raced' \in [Threads -> BOOLEAN] /\ raced'[t] = raced[t]
        /\ \A u \in Threads \ {t} : raced'[u] <=> raced[u] \/ pc[u] \in {"assign", "mktime"}
    BY <1>1, <1>2, UsesKept, Zenon
  <1>4. tm' \in Tm
    <2>1. m_time[t].time \in Int
      BY <1>2 DEF TypesOf, Object
    <2> QED BY <1>1, <2>1, LocaltimeIsTyped, Zenon
  <1>5. /\ pc' \in [Threads -> PC] /\ pc'[t] = "assign"
        /\ \A u \in Threads \ {t} : pc'[u] = pc[u]
    <2>1. "assign" \in PC
      BY DEF PC
    <2> QED BY <1>1, <1>2, <2>1, Updated, Zenon DEF TypesOf
  <1>6. TypeOK'
    BY <1>1, <1>2, <1>3, <1>4, <1>5, TypesTogetherNext, Zenon DEF TypesOf
  <1>7. Calling'
    BY <1>1, <1>2, Zenon DEF Calling
  <1>8. Apart(t)
    BY <1>1, <1>3, <1>5, Zenon DEF Apart
  <1>9. Coherent(m_time'[t], tm', pc'[t], todo'[t], call'[t], raced'[t])
    BY <1>1, <1>2, <1>3, <1>5, LocaltimeGoesWell, Zenon
  <1> QED BY <1>6, <1>7, <1>8, <1>9, OthersKept, Zenon

(* What t does to the buffer and to its object between localtime and mktime. *)
LEMMA AssignDoes ==
    ASSUME TimeInv, NEW t \in Threads, Assign(t)
    PROVE  /\ tm' = Changed(tm, todo[t], call[t])
           /\ m_time' = [m_time EXCEPT ![t] = AfterAssign(m_time[t], todo[t], call[t])]
  <1>1. m_time \in [Threads -> Object]
    BY TypesTogether, Zenon DEF TimeInv, TypesOf
  <1>2. CASE call[t].name \in Shifts
    <2>1. tm' = Shift(tm, call[t].name, call[t].arg) /\ m_time' = m_time
      BY <1>2, Zenon DEF Assign
    <2>2. Changed(tm, todo[t], call[t]) = Shift(tm, call[t].name, call[t].arg)
      BY <1>2, Zenon DEF Changed
    <2>3. AfterAssign(m_time[t], todo[t], call[t]) = m_time[t]
      BY <1>2, Zenon DEF AfterAssign
    <2>4. [m_time EXCEPT ![t] = m_time[t]] = m_time
      BY <1>1
    <2> QED BY <2>1, <2>2, <2>3, <2>4, Zenon
  <1>3. CASE call[t].name \notin Shifts
    <2> DEFINE f == todo[t][1][1]
               v == todo[t][1][2]
    <2>1. /\ tm' = SetField(tm, f, v)
          /\ m_time' = IF f = "millisec" THEN [m_time EXCEPT ![t].millitm = Millis(v)] ELSE m_time
      BY <1>3, SMT DEF Assign, Millis
    <2>2. Changed(tm, todo[t], call[t]) = SetField(tm, f, v)
      BY <1>3, Zenon DEF Changed
    <2>3. AfterAssign(m_time[t], todo[t], call[t])
              = IF f = "millisec" THEN [m_time[t] EXCEPT !.millitm = Millis(v)] ELSE m_time[t]
      BY <1>3, Zenon DEF AfterAssign
    <2> HIDE DEF f, v
    <2>4. [m_time EXCEPT ![t] = m_time[t]] = m_time
      BY <1>1
    <2>5. [m_time EXCEPT ![t].millitm = Millis(v)]
              = [m_time EXCEPT ![t] = [m_time[t] EXCEPT !.millitm = Millis(v)]]
      BY <1>1, Zenon
    <2>6. m_time' = [m_time EXCEPT ![t] = AfterAssign(m_time[t], todo[t], call[t])]
      <3>1. CASE f = "millisec"
        BY <2>1, <2>3, <2>5, <3>1, Zenon
      <3>2. CASE f # "millisec"
        BY <2>1, <2>3, <2>4, <3>2, Zenon
      <3> QED BY <3>1, <3>2
    <2> QED BY <2>1, <2>2, <2>6, Zenon
  <1> QED BY <1>2, <1>3

LEMMA ChangedIsTyped ==
    ASSUME NEW o, NEW b \in Tm, NEW td \in Seq(FieldValues), NEW c, NEW r,
           Coherent(o, b, "assign", td, c, r)
    PROVE  Changed(b, td, c) \in Tm
  <1>1. CASE c.name \in Shifts
    <2>1. c.arg \in Int
      BY <1>1, NamesDiffer, Zenon DEF Coherent, Shifting, Setting, Parsing
    <2> QED BY <1>1, <2>1, ShiftIsTm, Zenon DEF Changed
  <1>2. CASE c.name \notin Shifts
    <2>1. td[1] \in FieldValues
      BY <1>2, HasField, NamesDiffer, Zenon
    <2> QED BY <1>2, <2>1, SetFieldIsTm, Zenon DEF Changed
  <1> QED BY <1>1, <1>2

LEMMA AssignKept ==
    ASSUME TimeInv, NEW t \in Threads, Assign(t)
    PROVE  TimeInv'
  <1> DEFINE o2 == AfterAssign(m_time[t], todo[t], call[t])
  <1>1. /\ pc[t] = "assign" /\ Uses(t) /\ pc' = [pc EXCEPT ![t] = "mktime"]
        /\ todo' = todo /\ call' = call /\ calls' = calls
    BY Zenon DEF Assign
  <1>2. tm' = Changed(tm, todo[t], call[t]) /\ m_time' = [m_time EXCEPT ![t] = o2]
    BY AssignDoes, Zenon
  <1>3. /\ TypesOf(m_time, tm, pc, todo, calls, raced) /\ Calling /\ TypeOK
        /\ Coherent(m_time[t], tm, "assign", todo[t], call[t], raced[t])
    BY <1>1, TypesTogether, Zenon DEF TimeInv
  <1>4. m_time[t] \in Object /\ todo[t] \in Seq(FieldValues) /\ tm \in Tm
    BY <1>3, Zenon DEF TypesOf
  <1>5. o2 \in Object /\ Coherent(o2, tm', "mktime", todo[t], call[t], raced[t])
    BY <1>2, <1>3, <1>4, AssignGoesWell, Zenon
  <1>6. tm' \in Tm
    BY <1>2, <1>3, <1>4, ChangedIsTyped, Zenon
  <1> HIDE DEF o2
  <1>7. /\ raced' \in [Threads -> BOOLEAN] /\ raced'[t] = raced[t]
        /\ \A u \in Threads \ {t} : raced'[u] <=> raced[u] \/ pc[u] \in {"assign", "mktime"}
    BY <1>1, <1>3, UsesKept, Zenon
  <1>8. /\ pc' \in [Threads -> PC] /\ pc'[t] = "mktime"
        /\ \A u \in Threads \ {t} : pc'[u] = pc[u]
    <2>1. "mktime" \in PC
      BY DEF PC
    <2> QED BY <1>1, <1>3, <2>1, Updated, Zenon DEF TypesOf
  <1>9. /\ m_time' \in [Threads -> Object] /\ m_time'[t] = o2
        /\ \A u \in Threads \ {t} : m_time'[u] = m_time[u]
    BY <1>2, <1>3, <1>5, Updated, Zenon DEF TypesOf
  <1>10. TypeOK'
    BY <1>1, <1>3, <1>6, <1>7, <1>8, <1>9, TypesTogetherNext, Zenon DEF TypesOf
  <1>11. Calling'
    BY <1>1, <1>3, Zenon DEF Calling
  <1>12. Apart(t)
    BY <1>1, <1>7, <1>8, <1>9, Zenon DEF Apart
  <1>13. Coherent(m_time'[t], tm', pc'[t], todo'[t], call'[t], raced'[t])
    BY <1>1, <1>5, <1>7, <1>8, <1>9, Zenon
  <1> QED BY <1>10, <1>11, <1>12, <1>13, OthersKept, Zenon

LEMMA MktimeDoes ==
    ASSUME TimeInv, NEW t \in Threads, Mktime(t)
    PROVE  m_time' = [m_time EXCEPT ![t] = AfterMktime(m_time[t], tm, call[t])]
  <1> DEFINE T == mktime(tm)
  <1>1. m_time \in [Threads -> Object]
    BY TypesTogether, Zenon DEF TimeInv, TypesOf
  <1>2. m_time' = IF Accepted(call[t].name, T) THEN [m_time EXCEPT ![t].time = T] ELSE m_time
    BY Zenon DEF Mktime
  <1>3. AfterMktime(m_time[t], tm, call[t])
            = IF Accepted(call[t].name, T) THEN [m_time[t] EXCEPT !.time = T] ELSE m_time[t]
    BY Zenon DEF AfterMktime
  <1> HIDE DEF T
  <1>4. [m_time EXCEPT ![t] = m_time[t]] = m_time
    BY <1>1
  <1>5. [m_time EXCEPT ![t].time = T] = [m_time EXCEPT ![t] = [m_time[t] EXCEPT !.time = T]]
    BY <1>1, Zenon
  <1>6. CASE Accepted(call[t].name, T)
    BY <1>2, <1>3, <1>5, <1>6, Zenon
  <1>7. CASE ~Accepted(call[t].name, T)
    BY <1>2, <1>3, <1>4, <1>7, Zenon
  <1> QED BY <1>6, <1>7

LEMMA MktimeKept ==
    ASSUME TimeInv, NEW t \in Threads, Mktime(t)
    PROVE  TimeInv'
  <1> DEFINE o2 == AfterMktime(m_time[t], tm, call[t])
  <1>1. pc[t] = "mktime" /\ tm' = localtime(mktime(tm)) /\ calls' = calls
    BY Zenon DEF Mktime
  <1>2. m_time' = [m_time EXCEPT ![t] = o2]
    BY MktimeDoes, Zenon
  <1>3. /\ TypesOf(m_time, tm, pc, todo, calls, raced) /\ Calling /\ TypeOK
        /\ Coherent(m_time[t], tm, "mktime", todo[t], call[t], raced[t])
    BY <1>1, TypesTogether, Zenon DEF TimeInv
  <1>4. m_time[t] \in Object /\ todo[t] \in Seq(FieldValues) /\ tm \in Tm
    BY <1>3, Zenon DEF TypesOf
  <1>5. o2 \in Object
    BY <1>4, MktimeIsTyped, Zenon
  <1>6. tm' \in Tm
    <2>1. mktime(tm) \in Int
      BY <1>4, MktimeIsNumber, Zenon
    <2> QED BY <1>1, <2>1, LocaltimeIsTyped, Zenon
  <1>7. ~IsLast(t) => Coherent(o2, tm', "localtime", Tail(todo[t]), call[t], raced[t])
    BY <1>3, <1>4, MktimeGoesOn, Zenon DEF IsLast
  <1> HIDE DEF o2
  <1>8. /\ m_time' \in [Threads -> Object] /\ m_time'[t] = o2
        /\ \A u \in Threads \ {t} : m_time'[u] = m_time[u]
    BY <1>2, <1>3, <1>5, Updated, Zenon DEF TypesOf
  <1>9. ASSUME NEW p \in PC, NEW td \in Seq(FieldValues), NEW c,
               pc' = [pc EXCEPT ![t] = p], todo' = [todo EXCEPT ![t] = td],
               Calling', call'[t] = c, \A u \in Threads \ {t} : call'[u] = call[u],
               raced' \in [Threads -> BOOLEAN], Coherent(o2, tm', p, td, c, raced'[t]),
               \A u \in Threads \ {t} : raced'[u] <=> raced[u] \/ pc[u] \in {"assign", "mktime"}
        PROVE  TimeInv'
    <2>1. /\ pc' \in [Threads -> PC] /\ pc'[t] = p
          /\ \A u \in Threads \ {t} : pc'[u] = pc[u]
      BY <1>3, <1>9, Updated, Zenon DEF TypesOf
    <2>2. /\ todo' \in [Threads -> Seq(FieldValues)] /\ todo'[t] = td
          /\ \A u \in Threads \ {t} : todo'[u] = todo[u]
      BY <1>3, <1>9, Updated, Zenon DEF TypesOf
    <2>3. TypeOK'
      BY <1>1, <1>3, <1>6, <1>8, <1>9, <2>1, <2>2, TypesTogetherNext, Zenon DEF TypesOf
    <2>4. Apart(t)
      BY <1>8, <1>9, <2>1, <2>2, Zenon DEF Apart
    <2>5. Coherent(m_time'[t], tm', pc'[t], todo'[t], call'[t], raced'[t])
      BY <1>8, <1>9, <2>1, <2>2, Zenon
    <2> QED BY <1>9, <2>3, <2>4, <2>5, OthersKept, Zenon
  <1>10. CASE IsLast(t)
    <2>1. /\ todo' = [todo EXCEPT ![t] = <<>>] /\ call' = [call EXCEPT ![t] = NoCall]
          /\ pc' = [pc EXCEPT ![t] = "idle"]
          /\ raced' = [u \in Threads |-> u # t /\ (raced[u] \/ pc[u] \in {"assign", "mktime"})]
      BY <1>10, Zenon DEF Mktime
    <2>2. Calling' /\ call'[t] = NoCall /\ \A u \in Threads \ {t} : call'[u] = call[u]
      BY <1>3, <2>1, CallUpdated, Zenon
    <2>3. "idle" \in PC /\ <<>> \in Seq(FieldValues)
      BY EmptySeq DEF PC
    <2>4. /\ raced' \in [Threads -> BOOLEAN]
          /\ \A u \in Threads \ {t} : raced'[u] <=> raced[u] \/ pc[u] \in {"assign", "mktime"}
      BY <2>1, Zenon
    <2>5. Coherent(o2, tm', "idle", <<>>, NoCall, raced'[t])
      BY IdleIsWell, Zenon
    <2> QED BY <1>9, <2>1, <2>2, <2>3, <2>4, <2>5, Zenon
  <1>11. CASE ~IsLast(t)
    <2>1. /\ todo' = [todo EXCEPT ![t] = Tail(todo[t])] /\ call' = call
          /\ pc' = [pc EXCEPT ![t] = "localtime"] /\ Uses(t)
      BY <1>11, Zenon DEF Mktime
    <2>2. Calling' /\ call'[t] = call[t] /\ \A u \in Threads \ {t} : call'[u] = call[u]
      BY <1>3, <2>1, Zenon DEF Calling
    <2>3. Tail(todo[t]) \in Seq(FieldValues)
      <3>1. Len(todo[t]) \in Nat /\ ~(Len(todo[t]) < 2)
        BY <1>4, <1>11, LenProperties, Zenon DEF IsLast
      <3>2. Len(todo[t]) >= 2
        BY <3>1
      <3> QED BY <1>4, <3>2, TailOf, Zenon
    <2>4. "localtime" \in PC
      BY DEF PC
    <2>5. /\ raced' \in [Threads -> BOOLEAN] /\ raced'[t] = raced[t]
          /\ \A u \in Threads \ {t} : raced'[u] <=> raced[u] \/ pc[u] \in {"assign", "mktime"}
      BY <1>3, <2>1, UsesKept, Zenon
    <2>6. Coherent(o2, tm', "localtime", Tail(todo[t]), call[t], raced'[t])
      BY <1>7, <1>11, <2>5, Zenon
    <2> QED BY <1>9, <2>1, <2>2, <2>3, <2>4, <2>5, <2>6, Zenon
  <1> QED BY <1>10, <1>11

LEMMA FromStrKept ==
    ASSUME TimeInv, NEW t \in Threads, NEW d \in Dates, NEW now \in Nows, FromStr(t, d, now)
    PROVE  TimeInv'
  <1> DEFINE td == InTurn(d)
  <1>1. Begin(t, "FromStr", d, now) /\ todo' = [todo EXCEPT ![t] = td]
    BY Zenon DEF FromStr
  <1>2. td \in Seq(FieldValues) /\ now \in Object
    BY DatesAreLists, TurnOfDate, NowsAreObjects
  <1>3. Coherent(now, tm, "localtime", td, [name |-> "FromStr", arg |-> d, from |-> now], raced[t])
    BY FromStrBeginsWell, Zenon
  <1> HIDE DEF td
  <1> QED BY <1>1, <1>2, <1>3, Begins, Zenon

LEMMA SetKept ==
    ASSUME TimeInv, NEW t \in Threads, NEW s \in Settings, Set(t, s)
    PROVE  TimeInv'
  <1> DEFINE td == <<s>>
             o == m_time[t]
  <1>1. Begin(t, "Set", s, o) /\ todo' = [todo EXCEPT ![t] = td]
    BY Zenon DEF Set
  <1>2. td \in Seq(FieldValues)
    <2>1. s \in FieldValues
      BY TimeObjectsAssumption
    <2> HIDE DEF td
    <2>2. td = <<s>>
      BY DEF td
    <2> QED BY <2>1, <2>2
  <1>3. o \in Object
    BY ThreadIsTyped, Zenon DEF TimeInv
  <1>4. Coherent(o, tm, "localtime", td, [name |-> "Set", arg |-> s, from |-> o], raced[t])
    BY SetBeginsWell, Zenon
  <1> HIDE DEF td, o
  <1> QED BY <1>1, <1>2, <1>3, <1>4, Begins, Zenon

LEMMA ShiftKept ==
    ASSUME TimeInv, NEW t \in Threads, NEW name \in Shifts, NEW v \in Spans,
           ShiftBegins(t, name, v)
    PROVE  TimeInv'
  <1> DEFINE o == m_time[t]
             td == <<>>
  <1>1. Begin(t, name, v, o) /\ todo' = todo /\ pc[t] = "idle"
    BY Zenon DEF ShiftBegins, Begin, Calls
  <1>2. todo[t] = td /\ todo \in [Threads -> Seq(FieldValues)]
    BY <1>1, Idle, TypesTogether, Zenon DEF TimeInv, TypesOf
  <1>3. todo' = [todo EXCEPT ![t] = td]
    BY <1>1, <1>2
  <1>4. o \in Object
    BY ThreadIsTyped, Zenon DEF TimeInv
  <1>5. v \in Int
    BY TimeObjectsAssumption
  <1>6. Coherent(o, tm, "localtime", td, [name |-> name, arg |-> v, from |-> o], raced[t])
    BY <1>5, ShiftBeginsWell, Zenon
  <1>7. td \in Seq(FieldValues)
    BY <1>2, Zenon
  <1> HIDE DEF td, o
  <1> QED BY <1>1, <1>3, <1>4, <1>6, <1>7, Begins, Zenon

LEMMA ConstructKept ==
    ASSUME TimeInv, NEW t \in Threads, NEW now \in Nows, Construct(t, now)
    PROVE  TimeInv'
  <1>1. /\ Calls(t) /\ UNCHANGED <<tm, pc, todo, call, raced>>
        /\ m_time' = [m_time EXCEPT ![t] = now]
    BY Zenon DEF Construct
  <1>2. now \in Object
    BY NowsAreObjects
  <1> QED BY <1>1, <1>2, OnlyItsObject, Zenon

LEMMA SetTimeStampKept ==
    ASSUME TimeInv, NEW t \in Threads, NEW now \in Nows, SetTimeStamp(t, now)
    PROVE  TimeInv'
  <1> DEFINE o == [m_time[t] EXCEPT !.time = now.time]
  <1>1. /\ Calls(t) /\ UNCHANGED <<tm, pc, todo, call, raced>>
        /\ m_time' = [m_time EXCEPT ![t].time = now.time]
    BY Zenon DEF SetTimeStamp
  <1>2. m_time' = [m_time EXCEPT ![t] = o]
    BY <1>1, Zenon
  <1>3. o \in Object
    <2>1. m_time[t] \in Object
      BY ThreadIsTyped, Zenon DEF TimeInv
    <2>2. now.time \in Int
      BY NowsAreObjects DEF Object
    <2> QED BY <2>1, <2>2, SMT DEF Object
  <1> HIDE DEF o
  <1> QED BY <1>1, <1>2, <1>3, OnlyItsObject, Zenon

(* What a step by days to milliseconds makes of the object.                  *)
Added(o, sign, unit, v) ==
    IF unit = "MilliSec" THEN IF sign > 0 THEN AddMilliSec(o, v) ELSE DecreaseMilliSec(o, v)
    ELSE [o EXCEPT !.time = @ + sign * v * Units[unit]]

LEMMA AddedInUnits ==
    ASSUME NEW o \in Object, NEW unit \in DOMAIN Units, NEW v \in Int
    PROVE  /\ Added(o, 1, unit, v) = [o EXCEPT !.time = @ + v * Units[unit]]
           /\ Added(o, -1, unit, v) = [o EXCEPT !.time = @ - v * Units[unit]]
           /\ Added(o, 1, unit, v) \in Object /\ Added(o, -1, unit, v) \in Object
           /\ BetweenAllTime(o, Added(o, 1, unit, v), unit) = Distance(v, 0)
           /\ BetweenAllTime(o, Added(o, -1, unit, v), unit) = Distance(v, 0)
  <1> DEFINE k == Units[unit]
             a == o.time
             w == v * k
  <1>1. k \in Nat \ {0} /\ unit # "MilliSec"
    BY UnitLengths, Zenon
  <1>2. a \in Int
    BY DEF Object
  <1>3. /\ Added(o, 1, unit, v) = [o EXCEPT !.time = a + 1 * v * k]
        /\ Added(o, -1, unit, v) = [o EXCEPT !.time = a + (-1) * v * k]
    BY <1>1, Zenon DEF Added
  <1>4. /\ Distance(a, a + w) \div k = Distance(v, 0)
        /\ Distance(a, a - w) \div k = Distance(v, 0)
    <2> HIDE DEF k, a
    <2> QED BY <1>1, <1>2, UnitsCountBack, Zenon DEF w
  <1>5. \A o2 : BetweenAllTime(o, o2, unit) = Distance(a, o2.time) \div k
    BY Zenon DEF BetweenAllTime
  <1> HIDE DEF k, a
  <1>6. w \in Int /\ 1 * v * k = w /\ (-1) * v * k = -w
    BY <1>1, SMT DEF w
  <1>7. [o EXCEPT !.time = @ + v * Units[unit]] = [o EXCEPT !.time = a + w]
    BY Zenon DEF w, a, k
  <1>8. [o EXCEPT !.time = @ - v * Units[unit]] = [o EXCEPT !.time = a - w]
    BY Zenon DEF w, a, k
  <1> HIDE DEF w
  <1>9. a + w \in Int /\ a - w \in Int /\ a + (-w) = a - w
    BY <1>2, <1>6
  <1>10. /\ Added(o, 1, unit, v) = [o EXCEPT !.time = a + w]
         /\ Added(o, -1, unit, v) = [o EXCEPT !.time = a - w]
    BY <1>3, <1>6, <1>9, Zenon
  <1>11. ASSUME NEW x \in Int
         PROVE  [o EXCEPT !.time = x] \in Object /\ [o EXCEPT !.time = x].time = x
    BY SMT DEF Object
  <1>12. /\ Added(o, 1, unit, v) \in Object /\ Added(o, 1, unit, v).time = a + w
         /\ Added(o, -1, unit, v) \in Object /\ Added(o, -1, unit, v).time = a - w
    BY <1>9, <1>10, <1>11, Zenon
  <1> QED BY <1>4, <1>5, <1>7, <1>8, <1>10, <1>12, Zenon

LEMMA AddDoes ==
    ASSUME TimeInv, NEW t \in Threads, NEW v \in Amounts,
           NEW unit \in DOMAIN Units \cup {"MilliSec"}
    PROVE  /\ v \in Int
           /\ Added(m_time[t], 1, unit, v) \in Object /\ Added(m_time[t], -1, unit, v) \in Object
           /\ Add(t, unit, v) => m_time' = [m_time EXCEPT ![t] = Added(m_time[t], 1, unit, v)]
           /\ Decrease(t, unit, v) => m_time' = [m_time EXCEPT ![t] = Added(m_time[t], -1, unit, v)]
  <1>1. v \in Int
    BY TimeObjectsAssumption
  <1>2. m_time[t] \in Object
    BY ThreadIsTyped, Zenon DEF TimeInv
  <1>3. CASE unit = "MilliSec"
    <2>1. /\ Added(m_time[t], 1, unit, v) = AddMilliSec(m_time[t], v)
          /\ Added(m_time[t], -1, unit, v) = DecreaseMilliSec(m_time[t], v)
      <3>1. 1 > 0 /\ ~(-1 > 0)
        OBVIOUS
      <3> QED BY <1>3, <3>1, Zenon DEF Added
    <2>2. AddMilliSec(m_time[t], v) \in Object /\ DecreaseMilliSec(m_time[t], v) \in Object
      BY <1>1, <1>2, MillisAreTyped, Zenon
    <2>3. /\ Add(t, unit, v) => m_time' = [m_time EXCEPT ![t] = AddMilliSec(m_time[t], v)]
          /\ Decrease(t, unit, v) => m_time' = [m_time EXCEPT ![t] = DecreaseMilliSec(m_time[t], v)]
      BY <1>3, Zenon DEF Add, Decrease
    <2> QED BY <1>1, <2>1, <2>2, <2>3, Zenon
  <1>4. CASE unit # "MilliSec"
    <2>1. unit \in DOMAIN Units
      BY <1>4, Zenon
    <2> DEFINE k == Units[unit]
    <2>2. /\ Added(m_time[t], 1, unit, v) = [m_time[t] EXCEPT !.time = @ + v * k]
          /\ Added(m_time[t], -1, unit, v) = [m_time[t] EXCEPT !.time = @ - v * k]
          /\ Added(m_time[t], 1, unit, v) \in Object /\ Added(m_time[t], -1, unit, v) \in Object
      BY <1>1, <1>2, <2>1, AddedInUnits, Zenon
    <2>3. /\ Add(t, unit, v) => m_time' = [m_time EXCEPT ![t] = [m_time[t] EXCEPT !.time = @ + v * k]]
          /\ Decrease(t, unit, v) => m_time' = [m_time EXCEPT ![t] = [m_time[t] EXCEPT !.time = @ - v * k]]
      <3> DEFINE o == m_time[t]
      <3>1. Add(t, unit, v) =>
                m_time' = [m_time EXCEPT ![t] = [time |-> o.time + v * k, millitm |-> o.millitm]]
        BY <1>4, Zenon DEF Add
      <3>2. Decrease(t, unit, v) =>
                m_time' = [m_time EXCEPT ![t] = [time |-> o.time - v * k, millitm |-> o.millitm]]
        BY <1>4, Zenon DEF Decrease
      <3>3. o.time + v * k \in Int /\ o.time - v * k \in Int
        <4>1. o.time \in Int
          BY <1>2 DEF Object
        <4>2. k \in Int
          BY <2>1, UnitLengths
        <4> HIDE DEF o, k
        <4> QED BY <1>1, <4>1, <4>2, SMT
      <3>4. /\ [o EXCEPT !.time = @ + v * k] = [time |-> o.time + v * k, millitm |-> o.millitm]
            /\ [o EXCEPT !.time = @ - v * k] = [time |-> o.time - v * k, millitm |-> o.millitm]
        BY <1>2, <3>3, ObjectOf, Zenon
      <3> QED BY <3>1, <3>2, <3>4, Zenon
    <2> HIDE DEF k
    <2> QED BY <1>1, <2>2, <2>3, Zenon
  <1> QED BY <1>3, <1>4

LEMMA AddKept ==
    ASSUME TimeInv, NEW t \in Threads, NEW v \in Amounts,
           NEW unit \in DOMAIN Units \cup {"MilliSec"}, Add(t, unit, v) \/ Decrease(t, unit, v)
    PROVE  TimeInv'
  <1>1. Calls(t) /\ UNCHANGED <<tm, pc, todo, call, raced>>
    BY Zenon DEF Add, Decrease
  <1>2. PICK o \in Object : m_time' = [m_time EXCEPT ![t] = o]
    BY AddDoes, Zenon
  <1> QED BY <1>1, <1>2, OnlyItsObject, Zenon

LEMMA TimeInvKept == TimeInv /\ [Next]_vars => TimeInv'
  <1> SUFFICES ASSUME TimeInv, [Next]_vars PROVE TimeInv'
    OBVIOUS
  <1>1. CASE UNCHANGED vars
    <2>1. /\ m_time' = m_time /\ tm' = tm /\ pc' = pc /\ todo' = todo /\ call' = call
          /\ calls' = calls /\ raced' = raced
      BY <1>1, Zenon DEF vars
    <2>2. TypeOK' /\ Calling'
      BY <2>1, TypesTogether, TypesTogetherNext, Zenon DEF TimeInv, Calling
    <2> QED BY <2>1, <2>2, Zenon DEF TimeInv
  <1>2. CASE Next
    <2>1. PICK t \in Threads :
            \/ \E d \in Dates, now \in Nows : FromStr(t, d, now)
            \/ \E now \in Nows : Construct(t, now) \/ SetTimeStamp(t, now)
            \/ \E s \in Settings : Set(t, s)
            \/ \E name \in Shifts, v \in Spans : ShiftBegins(t, name, v)
            \/ \E unit \in DOMAIN Units \cup {"MilliSec"}, v \in Amounts :
                   Add(t, unit, v) \/ Decrease(t, unit, v)
            \/ GetTime(t) \/ Localtime(t) \/ Assign(t) \/ Mktime(t)
      BY <1>2, Zenon DEF Next
    <2>2. ASSUME NEW d \in Dates, NEW now \in Nows, FromStr(t, d, now) PROVE TimeInv'
      BY <2>2, FromStrKept
    <2>3. ASSUME NEW now \in Nows, Construct(t, now) \/ SetTimeStamp(t, now) PROVE TimeInv'
      BY <2>3, ConstructKept, SetTimeStampKept
    <2>4. ASSUME NEW s \in Settings, Set(t, s) PROVE TimeInv'
      BY <2>4, SetKept
    <2>5. ASSUME NEW name \in Shifts, NEW v \in Spans, ShiftBegins(t, name, v) PROVE TimeInv'
      BY <2>5, ShiftKept
    <2>6. ASSUME NEW unit \in DOMAIN Units \cup {"MilliSec"}, NEW v \in Amounts,
                 Add(t, unit, v) \/ Decrease(t, unit, v)
          PROVE  TimeInv'
      BY <2>6, AddKept
    <2>7. GetTime(t) => TimeInv'
      BY GetTimeKept
    <2>8. Localtime(t) => TimeInv'
      BY LocaltimeKept
    <2>9. Assign(t) => TimeInv'
      BY AssignKept
    <2>10. Mktime(t) => TimeInv'
      BY MktimeKept
    <2> QED BY <2>1, <2>2, <2>3, <2>4, <2>5, <2>6, <2>7, <2>8, <2>9, <2>10, Zenon
  <1> QED BY <1>1, <1>2

LEMMA TimeInvariance == Spec => []TimeInv
  BY InitTimeInv, TimeInvKept, PTL DEF Spec

(* The types: every moment fits its fields, the buffer holds a broken-down   *)
(* time and the fields that FromStr has still to set are values of fields.   *)
THEOREM TimeIsTyped == Spec => []TypeOK
  <1>1. TimeInv => TypeOK
    BY Zenon DEF TimeInv
  <1> QED BY <1>1, TimeInvariance, PTL

(* Only its mktime ends a call that had the buffer, the last one.            *)
LEMMA EndsByMktime ==
    ASSUME TimeInv, Next, NEW t \in Threads, Ends(t)
    PROVE  Mktime(t) /\ IsLast(t)
  <1>1. pc \in [Threads -> PC] /\ pc[t] = "mktime" /\ pc'[t] = "idle"
    BY TypesTogether, Zenon DEF TimeInv, TypesOf, Ends
  <1>2. ASSUME NEW u \in Threads, NEW p, p # "idle", pc' = [pc EXCEPT ![u] = p]
        PROVE  FALSE
    BY <1>1, <1>2, NamesDiffer
  <1>3. ASSUME pc' = pc
        PROVE  FALSE
    BY <1>1, <1>3, NamesDiffer, Zenon
  <1>4. PICK u \in Threads :
          \/ \E d \in Dates, now \in Nows : FromStr(u, d, now)
          \/ \E now \in Nows : Construct(u, now) \/ SetTimeStamp(u, now)
          \/ \E s \in Settings : Set(u, s)
          \/ \E name \in Shifts, v \in Spans : ShiftBegins(u, name, v)
          \/ \E unit \in DOMAIN Units \cup {"MilliSec"}, v \in Amounts :
                 Add(u, unit, v) \/ Decrease(u, unit, v)
          \/ GetTime(u) \/ Localtime(u) \/ Assign(u) \/ Mktime(u)
    BY Zenon DEF Next
  <1>5. ASSUME NEW name, NEW arg, NEW from, Begin(u, name, arg, from)
        PROVE  FALSE
    <2>1. pc' = [pc EXCEPT ![u] = "localtime"]
      BY <1>5, Zenon DEF Begin
    <2> QED BY <1>2, <2>1, NamesDiffer, Zenon
  <1>6. ~\E d \in Dates, now \in Nows : FromStr(u, d, now)
    BY <1>5, Zenon DEF FromStr
  <1>7. ~\E s \in Settings : Set(u, s)
    BY <1>5, Zenon DEF Set
  <1>8. ~\E name \in Shifts, v \in Spans : ShiftBegins(u, name, v)
    BY <1>5, Zenon DEF ShiftBegins
  <1>9. ~\E now \in Nows : Construct(u, now) \/ SetTimeStamp(u, now)
    BY <1>3, Zenon DEF Construct, SetTimeStamp
  <1>10. ~\E unit \in DOMAIN Units \cup {"MilliSec"}, v \in Amounts :
              Add(u, unit, v) \/ Decrease(u, unit, v)
    BY <1>3, Zenon DEF Add, Decrease
  <1>11. ~GetTime(u)
    BY <1>3, Zenon DEF GetTime
  <1>12. ~Localtime(u) /\ ~Assign(u)
    BY <1>2, NamesDiffer, Zenon DEF Localtime, Assign
  <1>13. Mktime(u)
    BY <1>4, <1>6, <1>7, <1>8, <1>9, <1>10, <1>11, <1>12, Zenon
  <1>14. IsLast(u) /\ pc' = [pc EXCEPT ![u] = "idle"]
    <2>1. CASE IsLast(u)
      BY <1>13, <2>1, Zenon DEF Mktime
    <2>2. CASE ~IsLast(u)
      <3>1. pc' = [pc EXCEPT ![u] = "localtime"]
        BY <1>13, <2>2, Zenon DEF Mktime
      <3> QED BY <1>2, <3>1, NamesDiffer, Zenon
    <2> QED BY <2>1, <2>2
  <1>15. u = t
    BY <1>1, <1>14, NamesDiffer
  <1> QED BY <1>13, <1>14, <1>15, Zenon

(* What is known when a call ends that was not disturbed.                    *)
LEMMA EndsWell ==
    ASSUME TimeInv, Next, NEW t \in Threads, Ends(t)
    PROVE  /\ m_time'[t] = AfterMktime(m_time[t], tm, call[t])
           /\ Coherent(m_time[t], tm, "mktime", todo[t], call[t], raced[t]) /\ ~raced[t]
           /\ Len(todo[t]) < 2
           /\ m_time[t] \in Object /\ todo[t] \in Seq(FieldValues)
  <1>1. Mktime(t) /\ IsLast(t)
    BY EndsByMktime, Zenon
  <1>2. m_time' = [m_time EXCEPT ![t] = AfterMktime(m_time[t], tm, call[t])]
    BY <1>1, MktimeDoes, Zenon
  <1>3. m_time \in [Threads -> Object] /\ todo[t] \in Seq(FieldValues)
    BY TypesTogether, Zenon DEF TimeInv, TypesOf
  <1>4. Coherent(m_time[t], tm, "mktime", todo[t], call[t], raced[t]) /\ ~raced[t]
    BY Zenon DEF TimeInv, Ends
  <1> QED BY <1>1, <1>2, <1>3, <1>4, Zenon DEF IsLast

(* FromStr gives the date in the string, whatever the moment it starts from  *)
(* and the zone, unless another thread had the buffer meanwhile or today's   *)
(* day does not exist in the month of the date.                              *)
THEOREM DatesParseBack == Spec => ParsesBack
  <1>1. ASSUME TimeInv, Next, NEW t \in Threads, Ends(t), call[t].name = "FromStr",
               IsDate(call[t].arg),
               DayLeft(call[t].from, call[t].arg[1]) <= DaysIn(call[t].arg[1], call[t].arg[2] - 1)
        PROVE  m_time'[t] = MomentOf(call[t].arg)
    <2>1. Fits(call[t].arg, call[t].from)
      BY <1>1, Zenon DEF Fits
    <2>2. /\ m_time'[t] = AfterMktime(m_time[t], tm, call[t])
          /\ Coherent(m_time[t], tm, "mktime", todo[t], call[t], raced[t]) /\ ~raced[t]
          /\ Len(todo[t]) < 2
          /\ m_time[t] \in Object /\ todo[t] \in Seq(FieldValues)
      BY <1>1, EndsWell, Zenon
    <2>3. AfterMktime(m_time[t], tm, call[t]) = MomentOf(call[t].arg)
      <3> DEFINE o == m_time[t]
                 td == todo[t]
                 c == call[t]
                 r == raced[t]
      <3>1. /\ o \in Object /\ td \in Seq(FieldValues) /\ Coherent(o, tm, "mktime", td, c, r)
            /\ ~r /\ Len(td) < 2 /\ c.name = "FromStr" /\ Fits(c.arg, c.from)
        BY <1>1, <2>1, <2>2
      <3> HIDE DEF o, td, c, r
      <3>2. AfterMktime(o, tm, c) = MomentOf(c.arg)
        BY <3>1, FromStrEnds
      <3> QED BY <3>2 DEF o, c
    <2> QED BY <2>2, <2>3, Zenon
  <1>2. TimeInv /\ [Next]_vars =>
            [\A t \in Threads :
                (/\ Ends(t) /\ call[t].name = "FromStr" /\ IsDate(call[t].arg)
                 /\ DayLeft(call[t].from, call[t].arg[1])
                        <= DaysIn(call[t].arg[1], call[t].arg[2] - 1))
                => m_time'[t] = MomentOf(call[t].arg)]_vars
    BY <1>1, Zenon
  <1> QED BY <1>2, TimeInvariance, PTL DEF Spec, ParsesBack

(* The Add and Decrease change the time by what they are asked for and the   *)
(* BetweenAll count the same back, but for what SpansAreExact leaves out.    *)
THEOREM SpansAreKept == Spec => SpansAreExact
  <1>1. ASSUME TimeInv, Next, NEW t \in Threads
        PROVE  MonthsAreExact(t)
    <2>1. SUFFICES ASSUME Ends(t), call[t].name \in Shifts,
                          ~(call[t].name = "DecreaseMonth"
                              /\ Borrows(call[t].arg, localtime(call[t].from.time).tm_mon))
                   PROVE  LET to == Shifted(call[t].from, Months(call[t].name, call[t].arg))
                          IN  m_time'[t] = [call[t].from EXCEPT !.time = IF to > 0 THEN to ELSE @]
      BY Zenon DEF MonthsAreExact
    <2> DEFINE to == Shifted(call[t].from, Months(call[t].name, call[t].arg))
    <2>2. /\ m_time'[t] = AfterMktime(m_time[t], tm, call[t])
          /\ Coherent(m_time[t], tm, "mktime", todo[t], call[t], raced[t]) /\ ~raced[t]
          /\ m_time[t] \in Object
      BY <1>1, <2>1, EndsWell, Zenon
    <2>3. AfterMktime(m_time[t], tm, call[t])
              = [call[t].from EXCEPT !.time = IF to > 0 THEN to ELSE @]
      <3> DEFINE o == m_time[t]
                 td == todo[t]
                 c == call[t]
                 r == raced[t]
      <3>1. /\ o \in Object /\ Coherent(o, tm, "mktime", td, c, r) /\ ~r /\ c.name \in Shifts
            /\ ~(c.name = "DecreaseMonth" /\ Borrows(c.arg, localtime(c.from.time).tm_mon))
        BY <2>1, <2>2
      <3> HIDE DEF o, td, c, r
      <3>2. LET next == Shifted(c.from, Months(c.name, c.arg))
            IN  AfterMktime(o, tm, c) = [c.from EXCEPT !.time = IF next > 0 THEN next ELSE @]
        BY <3>1, ShiftEnds
      <3> QED BY <3>2 DEF o, c
    <2> QED BY <2>2, <2>3, Zenon
  <1>2. ASSUME TimeInv, NEW t \in Threads, NEW v \in Amounts,
               NEW unit \in DOMAIN Units \cup {"MilliSec"}, NEW sign \in {1, -1},
               m_time' = [m_time EXCEPT ![t] = Added(m_time[t], sign, unit, v)]
        PROVE  UnitsAreExact(t, sign, unit, v)
    <2> DEFINE o == m_time[t]
               o2 == Added(o, sign, unit, v)
    <2>1. v \in Int /\ o \in Object /\ m_time \in [Threads -> Object]
      BY <1>2, AddDoes, TypesTogether, Zenon DEF TimeInv, TypesOf
    <2>2. m_time'[t] = o2
      BY <1>2, <2>1, Zenon
    <2>3. ASSUME unit # "MilliSec"
          PROVE  /\ o2 = [o EXCEPT !.time = @ + sign * v * Units[unit]]
                 /\ BetweenAllTime(o, o2, unit) = Distance(v, 0)
      <3>1. unit \in DOMAIN Units
        BY <1>2, <2>3, Zenon
      <3>2. BetweenAllTime(o, Added(o, 1, unit, v), unit) = Distance(v, 0)
        BY <2>1, <3>1, AddedInUnits, Zenon
      <3>3. BetweenAllTime(o, Added(o, -1, unit, v), unit) = Distance(v, 0)
        BY <2>1, <3>1, AddedInUnits, Zenon
      <3>4. o2 = [o EXCEPT !.time = @ + sign * v * Units[unit]]
        BY <2>3, Zenon DEF Added
      <3>5. sign = 1 \/ sign = -1
        BY <1>2
      <3> QED BY <3>2, <3>3, <3>4, <3>5, Zenon
    <2>4. ASSUME unit = "MilliSec", IsMoment(o), v >= 0, ~(sign < 0 /\ BorrowsSecond(o, v))
          PROVE  /\ MillisAreExact(o, sign * v, o2)
                 /\ (sign > 0 /\ o2.millitm < o.millitm) \/ BetweenAllMilliSec(o, o2) = v
      <3> HIDE DEF o
      <3>1. CASE sign = 1
        <4>1. sign > 0 /\ sign * v = v
          BY <2>1, <3>1
        <4>2. o2 = AddMilliSec(o, v)
          BY <2>4, <4>1, Zenon DEF Added
        <4> HIDE DEF o2
        <4>3. /\ MillisAreExact(o, v, o2)
              /\ o2.millitm < o.millitm \/ BetweenAllMilliSec(o, o2) = v
          BY <2>1, <2>4, <4>2, MillisCount, Zenon
        <4> QED BY <4>1, <4>3, Zenon
      <3>2. CASE sign = -1
        <4>1. ~(sign > 0) /\ sign < 0 /\ sign * v = -v
          BY <2>1, <3>2
        <4>2. o2 = DecreaseMilliSec(o, v)
          BY <2>4, <4>1, Zenon DEF Added
        <4> HIDE DEF o2
        <4>3. MillisAreExact(o, -v, o2) /\ BetweenAllMilliSec(o, o2) = v
          BY <2>1, <2>4, <4>1, <4>2, MillisCount, Zenon
        <4> QED BY <4>1, <4>3, Zenon
      <3>3. sign = 1 \/ sign = -1
        BY <1>2
      <3> QED BY <3>1, <3>2, <3>3
    <2> HIDE DEF o2
    <2> QED BY <2>2, <2>3, <2>4, Zenon DEF UnitsAreExact
  <1>3. TimeInv /\ [Next]_vars =>
            [\A t \in Threads :
                /\ MonthsAreExact(t)
                /\ \A v \in Amounts : \A unit \in DOMAIN Units \cup {"MilliSec"} :
                    /\ Add(t, unit, v) => UnitsAreExact(t, 1, unit, v)
                    /\ Decrease(t, unit, v) => UnitsAreExact(t, -1, unit, v)]_vars
    <2> SUFFICES ASSUME TimeInv, Next, NEW t \in Threads
                 PROVE  /\ MonthsAreExact(t)
                        /\ \A v \in Amounts : \A unit \in DOMAIN Units \cup {"MilliSec"} :
                            /\ Add(t, unit, v) => UnitsAreExact(t, 1, unit, v)
                            /\ Decrease(t, unit, v) => UnitsAreExact(t, -1, unit, v)
      BY Zenon
    <2>1. MonthsAreExact(t)
      BY <1>1
    <2>2. ASSUME NEW v \in Amounts, NEW unit \in DOMAIN Units \cup {"MilliSec"}
          PROVE  /\ Add(t, unit, v) => UnitsAreExact(t, 1, unit, v)
                 /\ Decrease(t, unit, v) => UnitsAreExact(t, -1, unit, v)
      <3>1. /\ Add(t, unit, v) => m_time' = [m_time EXCEPT ![t] = Added(m_time[t], 1, unit, v)]
            /\ Decrease(t, unit, v) => m_time' = [m_time EXCEPT ![t] = Added(m_time[t], -1, unit, v)]
        BY AddDoes, Zenon
      <3>2. 1 \in {1, -1} /\ -1 \in {1, -1}
        OBVIOUS
      <3> QED BY <1>2, <3>1, <3>2, Zenon
    <2> QED BY <2>1, <2>2, Zenon
  <1> QED BY <1>3, TimeInvariance, PTL DEF Spec, SpansAreExact

-----------------------------------------------------------------------------
(* The safety invariants of HttpClient hold for every resource, every number *)
(* of attempts and calls.  ClientInv adds to them that what is received and  *)
(* what is still to come make up the resource, or the page.                  *)
InDownload == place \in {"head", "open", "try", "receive"}
InPerform == place \in {"perform", "respond"}

(* What a call has set when it comes to a place, and has left when it ends.  *)
ClientLocals ==
    /\ InDownload => method = "HTTP_DOWNLOAD"
    /\ InPerform => method # "HTTP_DOWNLOAD" /\ attempt < nTry
    /\ place = "head" => bBreakPointSupport
    /\ place \in {"head", "open"} => attempt = 0
    /\ place \notin {"try", "receive", "undefined"} => nSize = 0
    /\ place \in {"idle", "head", "perform", "respond"} => infoHeader = 0
    /\ place \in {"open", "try", "receive"} /\ ~bBreakPointSupport => infoHeader = 0

(* The size that HEAD told is still that of the resource.                    *)
Told ==
    place \in {"open", "try", "receive"} /\ Unflawed /\ ~misled =>
        infoHeader \in {0, Len(Resource)}

RestOfResource ==
    place = "receive" =>
        /\ answer = NoAnswer \/ answer.code \in {200, 206, 404, 416}
        /\ Success(answer.code) /\ Unflawed => file \o answer.body = Resource

RestOfPage ==
    place = "respond" =>
        \/ answer = NoAnswer /\ vctRespBuf = <<>>
        \/ answer.code \in {200, 304, 404} /\ vctRespBuf \o answer.body = Blocks(attempt, BodySize)

ClientInv ==
    /\ ClientTypeOK
    /\ ClientLocals
    /\ Told
    /\ RestOfResource
    /\ RestOfPage
    /\ FileIsPrefix
    /\ SuccessIsWhole
    /\ DataIsOfLastTry
-----------------------------------------------------------------------------
LEMMA BlocksAreListed ==
    ASSUME NEW n \in Nat, NEW size \in Nat
    PROVE  Blocks(n, size) \in Seq(Block) /\ Len(Blocks(n, size)) = size
  BY DEF Blocks, Block

LEMMA ResourceIsListed ==
    ASSUME ClientTypeOK
    PROVE  /\ Resource \in Seq(Block)
           /\ Len(Resource) = Sizes[version]
           /\ Sizes[version] \in Nat
           /\ Blocks(attempt, BodySize) \in Seq(Block)
  <1>1. version \in Nat /\ Sizes[version] \in Nat /\ attempt \in Nat /\ BodySize \in Nat
    BY HttpClientAssumption DEF ClientTypeOK
  <1> QED BY <1>1, BlocksAreListed DEF Resource

LEMMA NothingYet ==
    /\ NoAnswer \in Answer
    /\ Page \in Seq(Block)
    /\ ~Success(NoAnswer.code) /\ NoAnswer.body = <<>>
  BY DEF Answer, NoAnswer, Codes, Page, Block, Success, CURLE_ERROR, CURLE_OK

LEMMA InitClientInv == ClientInit => ClientInv
  <1> SUFFICES ASSUME ClientInit PROVE ClientInv
    OBVIOUS
  <1> USE HttpClientAssumption DEF ClientInit
  <1>1. ClientTypeOK
    <2>1. 1 \in 1..Len(Sizes)
      BY EmptySeq, LenProperties
    <2>2. <<>> \in Seq(Block) /\ Len(<<>>) = 0
      BY EmptySeq
    <2>3. /\ file \in Seq(Block) /\ nSize \in 0..Len(file)
          /\ vctRespBuf \in Seq(Block)
          /\ answer \in Answer
      BY <2>2, NothingYet
    <2>4. /\ version \in 1..Len(Sizes) /\ infoHeader \in Nat /\ attempt \in Nat
          /\ begun \in 0..MaxBegun
      BY <2>1
    <2>5. /\ ranges \in BOOLEAN /\ method \in Methods /\ bBreakPointSupport \in BOOLEAN
          /\ nTryCount \in TryCounts \cup {-1} /\ place \in Places \ {"try", "receive"}
          /\ nCode \in Codes
          /\ restarted \in BOOLEAN /\ changed \in BOOLEAN /\ short \in BOOLEAN
          /\ misled \in BOOLEAN
      BY DEF Places, Methods, Codes
    <2> QED BY <2>3, <2>4, <2>5 DEF ClientTypeOK
  <1>2. FileIsPrefix
    BY <1>1, ResourceIsListed, EmptyIsPrefix DEF FileIsPrefix
  <1>3. ClientLocals /\ Told /\ RestOfResource /\ RestOfPage /\ SuccessIsWhole /\ DataIsOfLastTry
    BY DEF ClientLocals, Told, RestOfResource, RestOfPage, SuccessIsWhole, DataIsOfLastTry,
       InDownload, InPerform
  <1> QED BY <1>1, <1>2, <1>3 DEF ClientInv

LEMMA AnswersTyped ==
    ASSUME ClientTypeOK
    PROVE  Answers(FromPoint) \cup {NoAnswer} \subseteq Answer
  <1>1. SubSeq(Resource, FromPoint + 1, Len(Resource)) \in Seq(Block)
    <2>1. /\ FromPoint \in Nat /\ Resource \in Seq(Block)
          /\ Len(Resource) \in Nat
      BY ResourceIsListed, LenProperties DEF ClientTypeOK, FromPoint
    <2>2. \A k \in (FromPoint + 1)..Len(Resource) : Resource[k] \in Block
      BY <2>1, ElementOfSeq
    <2> QED BY <2>1, <2>2, SubSeqProperties
  <1> QED BY <1>1, NothingYet, ResourceIsListed DEF Answer, Answers, RangeAnswer, Codes

LEMMA ClientTypesKept == ClientInv /\ [ClientNext]_clientVars => ClientTypeOK'
  <1> SUFFICES ASSUME ClientInv, [ClientNext]_clientVars PROVE ClientTypeOK'
    OBVIOUS
  <1> USE HttpClientAssumption DEF ClientTypeOK, Places, Methods, server, flaws, param
  <1>0. /\ ClientTypeOK /\ ClientLocals
        /\ <<>> \in Seq(Block) /\ Len(<<>>) = 0
        /\ Len(file) \in Nat
        /\ {CURLE_OK, CURLE_ERROR} \subseteq Codes
    BY EmptySeq, LenProperties DEF ClientInv, Codes
  <1> USE DEF Return
  <1>1. ASSUME NEW resume \in BOOLEAN, DownloadFile(resume) PROVE ClientTypeOK'
    <2>0. vctRespBuf' \in Seq(Block)
      BY <1>0, <1>1 DEF DownloadFile
    <2>1. /\ attempt' = 0 /\ begun' = begun + 1 /\ begun < MaxBegun
          /\ nTryCount' = -1 /\ place' \in {"head", "open"}
          /\ bBreakPointSupport' = resume /\ misled' = FALSE
          /\ method' = "HTTP_DOWNLOAD"
      BY <1>1 DEF DownloadFile
    <2>2. UNCHANGED <<file, server, infoHeader, answer, nSize, nCode, restarted, changed,
                      short>>
      BY <1>1 DEF DownloadFile
    <2>3. /\ begun' \in 0..MaxBegun /\ nTryCount' \in TryCounts \cup {-1}
          /\ method' \in Methods /\ place' \in Places /\ attempt' \in Nat /\ nCode' \in Codes
          /\ place' \notin {"try", "receive"}
      BY <1>0, <2>1, <2>2
    <2>4. /\ answer' \in Answer /\ nSize' \in 0..Len(file') /\ file' \in Seq(Block)
          /\ infoHeader' \in Nat /\ version' \in 1..Len(Sizes) /\ ranges' \in BOOLEAN
          /\ restarted' \in BOOLEAN /\ changed' \in BOOLEAN /\ short' \in BOOLEAN
      BY <1>0, <2>2
    <2>5. misled' \in BOOLEAN /\ bBreakPointSupport' \in BOOLEAN
      BY <1>0, <2>1, <2>2
    <2> QED BY <2>0, <2>3, <2>4, <2>5
  <1>2. ASSUME NEW n \in TryCounts, HttpGet(n) \/ HttpPost(n) \/ UploadFile(n) PROVE ClientTypeOK'
    <2>0. vctRespBuf' \in Seq(Block)
      BY <1>0, <1>2 DEF HttpGet, HttpPost, UploadFile, Request
    <2>1. /\ attempt' = 0 /\ begun' = begun + 1 /\ begun < MaxBegun
          /\ nTryCount' = n /\ bBreakPointSupport' = FALSE
          /\ place' \in {"perform", "idle"}
          /\ method' \in {"HTTP_GET", "HTTP_POST", "HTTP_UPLOAD"}
          /\ nCode' \in {nCode, CURLE_ERROR}
      BY <1>2 DEF HttpGet, HttpPost, UploadFile, Request
    <2>2. UNCHANGED <<file, server, infoHeader, answer, nSize, flaws>>
      BY <1>2 DEF HttpGet, HttpPost, UploadFile, Request
    <2>3. /\ begun' \in 0..MaxBegun /\ nTryCount' \in TryCounts \cup {-1}
          /\ method' \in Methods /\ place' \in Places /\ attempt' \in Nat /\ nCode' \in Codes
          /\ place' \notin {"try", "receive"}
      BY <1>0, <2>1, <2>2
    <2>4. /\ answer' \in Answer /\ nSize' \in 0..Len(file') /\ file' \in Seq(Block)
          /\ infoHeader' \in Nat /\ version' \in 1..Len(Sizes) /\ ranges' \in BOOLEAN
          /\ restarted' \in BOOLEAN /\ changed' \in BOOLEAN /\ short' \in BOOLEAN
      BY <1>0, <2>2
    <2>5. misled' \in BOOLEAN /\ bBreakPointSupport' \in BOOLEAN
      BY <1>0, <2>1, <2>2
    <2> QED BY <2>0, <2>3, <2>4, <2>5
  <1>3. CASE AskSize
    <2>1. Len(Resource) \in Nat /\ Len(Page) \in Nat
      BY <1>0, ResourceIsListed, NothingYet, LenProperties
    <2> QED BY <1>0, <1>3, <2>1 DEF AskSize
  <1>4. CASE OpenFile
    <2>1. /\ nSize = 0 /\ nSize' = nSize /\ attempt = 0 /\ attempt' = attempt /\ place' = "try"
          /\ restarted' \in BOOLEAN /\ changed' \in BOOLEAN /\ short' \in BOOLEAN
      BY <1>0, <1>4 DEF OpenFile, ClientLocals
    <2>2. UNCHANGED <<server, param, infoHeader, answer, vctRespBuf, nCode, misled>>
      BY <1>4 DEF OpenFile
    <2>3. CASE UNCHANGED file
      BY <1>0, <2>1, <2>2, <2>3
    <2>4. CASE file' = <<>>
      <3>1. file' \in Seq(Block) /\ Len(file') = 0
        BY <1>0, <2>4
      <3> QED BY <1>0, <2>1, <2>2, <3>1
    <2> QED BY <1>4, <2>3, <2>4 DEF OpenFile
  <1>5. CASE OpenFails \/ AlreadyFinished
    BY <1>0, <1>5, NothingYet, SMTT(40) DEF OpenFails, AlreadyFinished
  <1>6. CASE Send
    <2>1. answer' \in Answer
      BY <1>0, <1>6, AnswersTyped DEF Send
    <2> QED BY <1>0, <1>6, <2>1 DEF Send, FromPoint
  <1>7. CASE OnWriteFileData
    <2>1. /\ Append(file, Head(answer.body)) \in Seq(Block)
          /\ Len(Append(file, Head(answer.body))) = Len(file) + 1
          /\ Tail(answer.body) \in Seq(Block)
      BY <1>0, <1>7, HeadTailProperties, AppendProperties DEF OnWriteFileData, Answer
    <2>2. answer' \in Answer
      BY <1>0, <1>7, <2>1 DEF OnWriteFileData, Answer
    <2>3. /\ file' \in Seq(Block) /\ Len(file') \in {Len(file), Len(file) + 1}
          /\ short' \in BOOLEAN
          /\ UNCHANGED <<server, param, place, infoHeader, attempt, nSize, vctRespBuf, nCode, restarted,
                         changed, misled>>
      BY <1>0, <1>7, <2>1 DEF OnWriteFileData
    <2> QED BY <1>0, <2>2, <2>3
  <1>8. CASE Downloaded
    BY <1>0, <1>8, NothingYet DEF Downloaded, Answer
  <1>9. CASE DownloadBreaks
    BY <1>0, <1>9, NothingYet, SMTT(40) DEF DownloadBreaks, TriesLeft, NextTry
  <1>10. CASE SendRequest
    <2>1. answer' \in Answer
      <3>1. {200, 304, 404} \subseteq Codes /\ Blocks(attempt, BodySize) \in Seq(Block)
        BY <1>0, ResourceIsListed DEF Codes
      <3>2. \A c \in Codes : [code |-> c, body |-> Blocks(attempt, BodySize)] \in Answer
        BY <3>1 DEF Answer
      <3> QED BY <1>10, <3>1, <3>2, NothingYet DEF SendRequest
    <2> QED BY <1>0, <1>10, <2>1 DEF SendRequest, ClearBuffer
  <1>11. CASE OnWriteData
    <2>1. /\ Append(vctRespBuf, Head(answer.body)) \in Seq(Block)
          /\ Tail(answer.body) \in Seq(Block)
      BY <1>0, <1>11, HeadMoved DEF OnWriteData, Answer
    <2>2. answer' \in Answer
      BY <1>0, <1>11, <2>1 DEF OnWriteData, Answer
    <2> QED BY <1>0, <1>11, <2>1, <2>2 DEF OnWriteData
  <1>12. CASE Responded
    <2>1. answer.code \in Codes /\ place' # "try" /\ place' # "receive"
      BY <1>0, <1>12 DEF Responded, Answer
    <2>2. CASE UNCHANGED <<infoHeader, answer, nSize>>
      BY <1>0, <1>12, <2>1, <2>2 DEF Responded
    <2>3. CASE Return(answer.code)
      BY <1>0, <1>12, <2>1, <2>3, NothingYet DEF Responded
    <2> QED BY <1>12, <2>2, <2>3 DEF Responded
  <1>13. CASE RequestBreaks
    BY <1>0, <1>13, NothingYet, SMTT(40) DEF RequestBreaks, NextTry
  <1>14. CASE Update
    BY <1>0, <1>14 DEF Update
  <1>15. CASE Crash
    <2>1. PICK k \in nSize..Len(file) : file' = SubSeq(file, 1, k)
      BY <1>15 DEF Crash
    <2>2. k \in Nat /\ k =< Len(file)
      BY <1>0, <2>1
    <2>3. file' \in Seq(Block) /\ Len(file') \in Nat
      <3>1. \A j \in 1..k : file[j] \in Block
        BY <1>0, <2>2, ElementOfSeq
      <3> QED BY <2>1, <2>2, <3>1, SubSeqProperties, LenProperties
    <2> QED BY <1>0, <1>15, <2>3, NothingYet DEF Crash
  <1>16. CASE UNCHANGED clientVars
    BY <1>0, <1>16 DEF clientVars
  <1> QED BY <1>1, <1>2, <1>3, <1>4, <1>5, <1>6, <1>7, <1>8, <1>9, <1>10, <1>11, <1>12,
             <1>13, <1>14, <1>15, <1>16 DEF ClientNext, Step

LEMMA ClientLocalsKept == ClientInv /\ [ClientNext]_clientVars => ClientLocals'
  <1> SUFFICES ASSUME ClientInv, [ClientNext]_clientVars PROVE ClientLocals'
    OBVIOUS
  <1> USE DEF ClientLocals, InDownload, InPerform, param, Return
  <1>0. /\ ClientLocals /\ nTryCount \in Int /\ attempt \in Nat
        /\ \A n \in TryCounts : n \in Int
    BY HttpClientAssumption DEF ClientInv, ClientTypeOK
  <1>1. ASSUME NEW resume \in BOOLEAN, DownloadFile(resume) PROVE ClientLocals'
    BY <1>0, <1>1 DEF DownloadFile
  <1>2. ASSUME NEW n \in TryCounts, HttpGet(n) \/ HttpPost(n) \/ UploadFile(n) PROVE ClientLocals'
    <2>1. /\ place = "idle" /\ place' \in {"perform", "idle"} /\ method' # "HTTP_DOWNLOAD"
          /\ attempt' = 0 /\ UNCHANGED <<infoHeader, nSize>>
      BY <1>2 DEF HttpGet, HttpPost, UploadFile, Request
    <2>2. attempt' < nTry'
      BY <1>0, <1>2, <2>1 DEF nTry, HttpGet, HttpPost, UploadFile, Request
    <2> QED BY <1>0, <2>1, <2>2
  <1>3. CASE AskSize \/ OpenFile \/ OpenFails \/ AlreadyFinished
    BY <1>0, <1>3 DEF AskSize, OpenFile, OpenFails, AlreadyFinished
  <1>4. CASE Send \/ OnWriteFileData \/ Downloaded
    BY <1>0, <1>4 DEF Send, OnWriteFileData, Downloaded
  <1>5. CASE DownloadBreaks
    BY <1>0, <1>5 DEF DownloadBreaks
  <1>6. CASE SendRequest \/ OnWriteData \/ Responded
    BY <1>0, <1>6 DEF SendRequest, OnWriteData, Responded, nTry
  <1>7. CASE RequestBreaks
    BY <1>0, <1>7 DEF RequestBreaks, nTry, TriesLeft, NextTry
  <1>8. CASE Update \/ UNCHANGED clientVars
    BY <1>0, <1>8 DEF Update, clientVars, nTry
  <1>9. CASE Crash
    BY <1>0, <1>9 DEF Crash
  <1> QED BY <1>1, <1>2, <1>3, <1>4, <1>5, <1>6, <1>7, <1>8, <1>9 DEF ClientNext, Step
-----------------------------------------------------------------------------
(* The file of a download.                                                   *)
FileOK == Told /\ RestOfResource /\ FileIsPrefix /\ SuccessIsWhole

LEMMA FileUntouched ==
    ASSUME ClientInv, UNCHANGED <<file, server, restarted, changed, short>>,
           UNCHANGED misled \/ place' # "idle",
           place' \in {"open", "try"} => \/ infoHeader' = 0
                                         \/ place \in {"open", "try", "receive"}
                                              /\ UNCHANGED <<infoHeader, misled>>,
           place' # "receive",
           place' = "idle" => \/ method' # "HTTP_DOWNLOAD"
                              \/ nCode' = CURLE_ERROR
    PROVE  FileOK'
  <1>1. UNCHANGED Resource
    BY DEF Resource, server
  <1>2. Told'
    BY <1>1 DEF ClientInv, Told, Unflawed
  <1>3. RestOfResource'
    BY DEF RestOfResource
  <1>4. FileIsPrefix'
    BY <1>1 DEF ClientInv, FileIsPrefix, Unflawed
  <1>5. SuccessIsWhole'
    BY DEF SuccessIsWhole, CURLE_ERROR, CURLE_OK, Success
  <1> QED BY <1>2, <1>3, <1>4, <1>5 DEF FileOK

LEMMA DownloadKeepsFile ==
    ASSUME ClientInv, \/ AskSize \/ OpenFile \/ OpenFails \/ AlreadyFinished \/ Send
                      \/ OnWriteFileData \/ Downloaded \/ DownloadBreaks
    PROVE  FileOK'
  <1>0. /\ ClientTypeOK /\ ClientLocals /\ Told /\ RestOfResource /\ FileIsPrefix
        /\ Resource \in Seq(Block) /\ file \in Seq(Block)
        /\ Len(Resource) \in Nat /\ Len(file) \in Nat
    BY ResourceIsListed DEF ClientInv, ClientTypeOK
  <1>1. UNCHANGED Resource /\ UNCHANGED Len(Resource)
    BY DEF Resource, server, AskSize, OpenFile, OpenFails, AlreadyFinished, Send,
       OnWriteFileData, Downloaded, DownloadBreaks
  <1>2. CASE AskSize
    <2>1. /\ UNCHANGED <<file, restarted, changed, short>>
          /\ infoHeader' \in {0, Len(Resource), Len(Page)}
          /\ misled' = (infoHeader' \notin {0, Len(Resource)})
          /\ place' = "open"
      BY <1>2 DEF AskSize
    <2>2. Told' /\ RestOfResource' /\ SuccessIsWhole'
      BY <1>1, <2>1 DEF Told, RestOfResource, SuccessIsWhole
    <2>3. FileIsPrefix'
      BY <1>0, <1>1, <2>1 DEF FileIsPrefix, Unflawed
    <2> QED BY <2>2, <2>3 DEF FileOK
  <1>3. CASE OpenFile
    <2>1. /\ place = "open" /\ place' = "try" /\ UNCHANGED <<infoHeader, bBreakPointSupport, misled>>
      BY <1>3 DEF OpenFile, param
    <2>2. CASE bBreakPointSupport
      <3>1. UNCHANGED <<file, restarted, changed, short>>
        BY <1>3, <2>2 DEF OpenFile
      <3> QED BY <1>0, <1>1, <2>1, <3>1
              DEF FileOK, Told, RestOfResource, SuccessIsWhole, FileIsPrefix, Unflawed
    <2>3. CASE ~bBreakPointSupport
      <3>1. file' = <<>> /\ infoHeader' = 0
        BY <1>0, <1>3, <2>1, <2>3 DEF OpenFile, ClientLocals
      <3>2. IsPrefix(file', Resource)
        BY <1>0, <3>1, EmptyIsPrefix
      <3> QED BY <1>1, <2>1, <3>1, <3>2
              DEF FileOK, Told, RestOfResource, SuccessIsWhole, FileIsPrefix
    <2> QED BY <2>2, <2>3
  <1>4. CASE OpenFails
    BY <1>4, FileUntouched DEF OpenFails, Return, flaws
  <1>5. CASE AlreadyFinished
    <2>1. /\ place = "try" /\ place' = "idle" /\ infoHeader > 0 /\ Len(file) >= infoHeader
          /\ UNCHANGED <<file, flaws>>
      BY <1>5 DEF AlreadyFinished, Return
    <2>2. Unflawed /\ ~misled => infoHeader = Len(Resource) /\ IsPrefix(file, Resource)
      BY <1>0, <2>1 DEF Told, FileIsPrefix
    <2>3. Unflawed /\ ~misled => file = Resource
      BY <1>0, <2>1, <2>2, FullPrefix
    <2>4. UNCHANGED Unflawed
      BY <2>1 DEF Unflawed, flaws
    <2> QED BY <1>0, <1>1, <2>1, <2>3, <2>4
            DEF FileOK, Told, RestOfResource, SuccessIsWhole, FileIsPrefix, flaws
  <1>6. CASE Send
    <2>1. /\ place = "try" /\ place' = "receive" /\ UNCHANGED <<file, infoHeader, changed, short, misled>>
      BY <1>6 DEF Send
    <2>2. PICK a \in Answers(FromPoint) \cup {NoAnswer} :
              /\ answer' = a
              /\ restarted' = (restarted \/ (a.code = 200 /\ file # <<>>))
      BY <1>6 DEF Send
    <2>3. Unflawed' => Unflawed
      BY <2>1, <2>2 DEF Unflawed
    <2>4. Told' /\ FileIsPrefix' /\ SuccessIsWhole'
      BY <1>0, <1>1, <2>1, <2>3 DEF Told, FileIsPrefix, SuccessIsWhole
    <2>5. RestOfResource'
      <3>1. a = NoAnswer \/ a.code \in {200, 206, 404, 416}
        BY <2>2 DEF Answers, RangeAnswer
      <3>2. ASSUME Success(a.code), Unflawed'
            PROVE  file \o a.body = Resource
        <4>1. IsPrefix(file, Resource)
          BY <1>0, <2>3, <3>2 DEF FileIsPrefix
        <4>2. CASE a.code = 206
          <5>1. a.body = SubSeq(Resource, Len(file) + 1, Len(Resource))
            BY <2>2, <3>2, <4>2 DEF Answers, RangeAnswer, FromPoint, NoAnswer, CURLE_ERROR
          <5> QED BY <1>0, <4>1, <5>1, PrefixCompleted
        <4>3. CASE a.code = 200
          <5>1. a.body = Resource
            BY <2>2, <4>3 DEF Answers, RangeAnswer, NoAnswer, CURLE_ERROR
          <5>2. file = <<>>
            BY <2>2, <3>2, <4>3 DEF Unflawed
          <5> QED BY <1>0, <5>1, <5>2, ConcatEmptySeq
        <4>4. a # NoAnswer
          BY <3>2, NothingYet
        <4>5. a.code \notin {404, 416}
          BY <3>2 DEF Success
        <4> QED BY <3>1, <4>2, <4>3, <4>4, <4>5
      <3> QED BY <1>1, <2>1, <2>2, <3>1, <3>2 DEF RestOfResource
    <2> QED BY <2>4, <2>5 DEF FileOK
  <1>7. CASE OnWriteFileData
    <2>1. /\ place = "receive" /\ place' = place /\ answer.body # <<>> /\ answer.body \in Seq(Block)
          /\ UNCHANGED <<infoHeader, restarted, changed, misled>>
          /\ answer' = [answer EXCEPT !.body = Tail(answer.body)]
      BY <1>0, <1>7 DEF OnWriteFileData, ClientTypeOK, Answer
    <2>2. answer'.code = answer.code /\ answer'.body = Tail(answer.body)
          /\ answer # NoAnswer
      BY <1>0, <2>1, NothingYet DEF ClientTypeOK, Answer
    <2>3. CASE UNCHANGED file /\ ((UNCHANGED short /\ ~Success(answer.code)) \/ short')
      <3>1. Unflawed' => Unflawed /\ ~Success(answer.code)
        BY <2>1, <2>3 DEF Unflawed
      <3> QED BY <1>0, <1>1, <2>1, <2>2, <2>3, <3>1
              DEF FileOK, Told, RestOfResource, SuccessIsWhole, FileIsPrefix
    <2>4. CASE Success(answer.code) /\ file' = Append(file, Head(answer.body)) /\ UNCHANGED short
      <3>1. UNCHANGED Unflawed
        BY <2>1, <2>4 DEF Unflawed
      <3>2. /\ file' \in Seq(Block) /\ answer'.body \in Seq(Block)
            /\ file' \o answer'.body = file \o answer.body
        <4>1. /\ Append(file, Head(answer.body)) \in Seq(Block)
              /\ Tail(answer.body) \in Seq(Block)
              /\ Append(file, Head(answer.body)) \o Tail(answer.body) = file \o answer.body
          <5> DEFINE rest == answer.body
          <5>1. rest \in Seq(Block) /\ rest # <<>>
            BY <2>1
          <5> HIDE DEF rest
          <5>2. /\ Append(file, Head(rest)) \in Seq(Block)
                /\ Tail(rest) \in Seq(Block)
                /\ Append(file, Head(rest)) \o Tail(rest) = file \o rest
            BY <1>0, <5>1, HeadMoved, Zenon
          <5> QED BY <5>2 DEF rest
        <4> QED BY <2>2, <2>4, <4>1
      <3>3. Unflawed => file' \o answer'.body = Resource
        BY <1>0, <2>1, <2>4, <3>2 DEF RestOfResource
      <3>4. Unflawed => IsPrefix(file', Resource)
        BY <3>2, <3>3, PrefixOfConcat
      <3> QED BY <1>0, <1>1, <2>1, <2>2, <3>1, <3>3, <3>4
              DEF FileOK, Told, RestOfResource, SuccessIsWhole, FileIsPrefix
    <2> QED BY <1>7, <2>3, <2>4 DEF OnWriteFileData, Writes
  <1>8. CASE Downloaded
    <2>1. /\ place = "receive" /\ place' = "idle" /\ answer.body = <<>> /\ answer # NoAnswer
          /\ nCode' = answer.code /\ UNCHANGED <<file, flaws>>
      BY <1>8 DEF Downloaded, Return
    <2>2. answer.code \in {200, 206, 404, 416}
      BY <1>0, <2>1 DEF RestOfResource
    <2>3. Success(answer.code) /\ Unflawed => file = Resource
      BY <1>0, <2>1, ConcatEmptySeq DEF RestOfResource
    <2>4. UNCHANGED Unflawed
      BY <2>1 DEF Unflawed, flaws
    <2> QED BY <1>0, <1>1, <2>1, <2>2, <2>3, <2>4
            DEF FileOK, Told, RestOfResource, SuccessIsWhole, FileIsPrefix, CURLE_OK
  <1>9. CASE DownloadBreaks
    BY <1>9, FileUntouched DEF DownloadBreaks, Return, flaws
  <1> QED BY <1>2, <1>3, <1>4, <1>5, <1>6, <1>7, <1>8, <1>9

LEMMA FileKept == ClientInv /\ [ClientNext]_clientVars => FileOK'
  <1> SUFFICES ASSUME ClientInv, [ClientNext]_clientVars PROVE FileOK'
    OBVIOUS
  <1> USE DEF flaws
  <1>0. /\ ClientTypeOK /\ ClientLocals /\ FileOK
        /\ Resource \in Seq(Block) /\ file \in Seq(Block)
    BY ResourceIsListed DEF ClientInv, ClientTypeOK, FileOK
  <1>1. ASSUME NEW resume \in BOOLEAN, DownloadFile(resume) PROVE FileOK'
    BY <1>0, <1>1, FileUntouched DEF DownloadFile, ClientLocals
  <1>2. ASSUME NEW n \in TryCounts, HttpGet(n) \/ HttpPost(n) \/ UploadFile(n) PROVE FileOK'
    BY <1>2, FileUntouched DEF HttpGet, HttpPost, UploadFile, Request
  <1>3. CASE SendRequest \/ OnWriteData \/ Responded \/ RequestBreaks
    <2>1. /\ UNCHANGED <<file, server, flaws, method>>
          /\ place' \in {"perform", "respond", "undefined", "idle"}
          /\ place \in {"perform", "respond"}
      BY <1>3 DEF SendRequest, OnWriteData, Responded, RequestBreaks, param, Return
    <2> QED BY <1>0, <2>1, FileUntouched DEF ClientLocals, InPerform
  <1>4. CASE Update
    <2>1. /\ UNCHANGED <<file, place, infoHeader, answer, nCode, restarted, short, misled, param>>
          /\ changed' = (changed \/ file # <<>> \/ file = Resource \/ place # "idle")
      BY <1>4 DEF Update
    <2>2. ASSUME Unflawed'
          PROVE  Unflawed /\ place = "idle" /\ file = <<>> /\ file # Resource
      BY <2>1, <2>2 DEF Unflawed
    <2>3. Told'
      BY <2>1, <2>2 DEF Told
    <2>4. RestOfResource'
      BY <1>0, <2>1, <2>2 DEF FileOK, RestOfResource
    <2>5. FileIsPrefix'
      <3>1. Resource' \in Seq(Block)
        <4>1. version' \in Nat /\ Sizes[version'] \in Nat
          BY ClientTypesKept, HttpClientAssumption DEF ClientTypeOK
        <4> QED BY <4>1, BlocksAreListed DEF Resource
      <3> QED BY <2>1, <2>2, <3>1, EmptyIsPrefix DEF FileIsPrefix
    <2>6. SuccessIsWhole'
      BY <1>0, <2>1, <2>2 DEF FileOK, SuccessIsWhole, param
    <2> QED BY <2>3, <2>4, <2>5, <2>6 DEF FileOK
  <1>5. CASE Crash
    <2>1. /\ UNCHANGED <<server, flaws>> /\ place' = "idle" /\ nCode' = CURLE_ERROR
      BY <1>5 DEF Crash, Return
    <2>2. PICK k \in nSize..Len(file) : file' = SubSeq(file, 1, k)
      BY <1>5 DEF Crash
    <2>3. k \in 0..Len(file)
      BY <1>0, <2>2, LenProperties DEF ClientTypeOK
    <2>4. UNCHANGED Resource /\ UNCHANGED Unflawed
      BY <2>1 DEF Resource, server, Unflawed
    <2>5. FileIsPrefix'
      BY <1>0, <2>2, <2>3, <2>4, PrefixOfPrefix DEF FileIsPrefix, FileOK
    <2> QED BY <2>1, <2>5
            DEF FileOK, Told, RestOfResource, SuccessIsWhole, CURLE_ERROR, CURLE_OK, Success
  <1>6. CASE UNCHANGED clientVars
    <2>1. UNCHANGED Resource /\ UNCHANGED Unflawed
      BY <1>6 DEF Resource, server, Unflawed, clientVars
    <2> QED BY <1>0, <1>6, <2>1
            DEF FileOK, Told, RestOfResource, SuccessIsWhole, FileIsPrefix, clientVars, param
  <1> QED BY <1>1, <1>2, <1>3, <1>4, <1>5, <1>6, DownloadKeepsFile DEF ClientNext, Step
-----------------------------------------------------------------------------
(* The buffer of Perform.                                                    *)
LEMMA PageKept == ClientInv /\ [ClientNext]_clientVars => RestOfPage' /\ DataIsOfLastTry'
  <1> SUFFICES ASSUME ClientInv, [ClientNext]_clientVars PROVE RestOfPage' /\ DataIsOfLastTry'
    OBVIOUS
  <1> DEFINE page == Blocks(attempt, BodySize)
  <1>0. /\ ClientTypeOK /\ ClientLocals /\ RestOfPage /\ DataIsOfLastTry /\ page \in Seq(Block)
        /\ vctRespBuf \in Seq(Block) /\ answer.body \in Seq(Block)
        /\ nTryCount \in Int /\ attempt \in Nat
        /\ \A n \in TryCounts : n \in Int
    BY ResourceIsListed, HttpClientAssumption DEF ClientInv, ClientTypeOK, Answer
  <1>1. ASSUME place' \notin {"idle", "respond"} \/ (place' = "idle" /\ method' = "HTTP_DOWNLOAD")
        PROVE  RestOfPage' /\ DataIsOfLastTry'
    BY <1>1 DEF RestOfPage, DataIsOfLastTry
  <1>2. CASE \E resume \in BOOLEAN : DownloadFile(resume)
    BY <1>1, <1>2 DEF DownloadFile
  <1>3. ASSUME NEW n \in TryCounts, HttpGet(n) \/ HttpPost(n) \/ UploadFile(n)
        PROVE  RestOfPage' /\ DataIsOfLastTry'
    <2>1. CASE place' # "idle"
      BY <1>1, <1>3, <2>1 DEF HttpGet, HttpPost, UploadFile, Request
    <2>2. CASE place' = "idle"
      <3>1. vctRespBuf' = <<>> /\ attempt' = 0 /\ nCode' = CURLE_ERROR /\ nTryCount' = n
        BY <1>3, <2>2 DEF HttpGet, HttpPost, UploadFile, Request
      <3>2. 0 < nTry'
        BY <1>0, <3>1 DEF nTry
      <3>3. IsPrefix(vctRespBuf', Blocks(attempt', BodySize))
        BY <3>1, BlocksAreListed, EmptyIsPrefix, HttpClientAssumption
      <3> QED BY <2>2, <3>1, <3>2, <3>3 DEF RestOfPage, DataIsOfLastTry
    <2> QED BY <2>1, <2>2
  <1>4. CASE \/ AskSize \/ OpenFile \/ OpenFails \/ AlreadyFinished \/ Send
             \/ OnWriteFileData \/ Downloaded \/ DownloadBreaks
    <2>1. place' # "respond" /\ method' = "HTTP_DOWNLOAD"
      BY <1>0, <1>4 DEF AskSize, OpenFile, OpenFails, AlreadyFinished, Send, OnWriteFileData,
         Downloaded, DownloadBreaks, Return, param, ClientLocals, InDownload
    <2> QED BY <1>1, <2>1
  <1>5. CASE SendRequest
    <2>1. /\ place' = "respond" /\ vctRespBuf' = <<>> /\ attempt' = attempt
          /\ \/ answer' = NoAnswer
             \/ \E c \in {200, 304, 404} : answer' = [code |-> c, body |-> page]
      BY <1>5 DEF SendRequest, ClearBuffer
    <2>2. <<>> \o page = page
      BY <1>0, ConcatEmptySeq
    <2> HIDE DEF page
    <2>3. \/ answer' = NoAnswer
          \/ answer'.code \in {200, 304, 404} /\ answer'.body = page
      BY <2>1
    <2> QED BY <2>1, <2>2, <2>3 DEF RestOfPage, DataIsOfLastTry, page
  <1>6. CASE OnWriteData
    <2>1. /\ place = "respond" /\ place' = "respond" /\ attempt' = attempt /\ answer.body # <<>>
          /\ vctRespBuf' = Append(vctRespBuf, Head(answer.body))
          /\ answer' = [answer EXCEPT !.body = Tail(answer.body)]
      BY <1>6 DEF OnWriteData
    <2>2. answer'.code = answer.code /\ answer'.body = Tail(answer.body) /\ answer # NoAnswer
      BY <1>0, <2>1, NothingYet DEF ClientTypeOK, Answer
    <2>3. vctRespBuf' \o answer'.body = vctRespBuf \o answer.body
      <3> DEFINE rest == answer.body
      <3>1. rest \in Seq(Block) /\ rest # <<>>
        BY <1>0, <2>1
      <3> HIDE DEF rest
      <3>2. Append(vctRespBuf, Head(rest)) \o Tail(rest) = vctRespBuf \o rest
        BY <1>0, <3>1, HeadMoved, Zenon
      <3> QED BY <2>1, <2>2, <3>2 DEF rest
    <2> QED BY <1>0, <2>1, <2>2, <2>3 DEF RestOfPage, DataIsOfLastTry
  <1>7. ASSUME place = "respond" PROVE IsPrefix(vctRespBuf, page)
    <2>1. CASE vctRespBuf = <<>>
      BY <1>0, <2>1, EmptyIsPrefix
    <2>2. CASE vctRespBuf \o answer.body = page
      BY <1>0, <2>2, PrefixOfConcat
    <2> QED BY <1>0, <1>7, <2>1, <2>2 DEF RestOfPage
  <1>8. CASE Responded
    <2>1. /\ place = "respond" /\ answer.body = <<>> /\ answer # NoAnswer
          /\ UNCHANGED <<attempt, vctRespBuf, nTryCount>>
          /\ place' \in {"idle", "undefined"}
      BY <1>8 DEF Responded, Return, param
    <2>2. vctRespBuf = page
      BY <1>0, <2>1, ConcatEmptySeq DEF RestOfPage
    <2>3. attempt' < nTry'
      BY <1>0, <2>1 DEF ClientLocals, InPerform, nTry
    <2> QED BY <1>7, <2>1, <2>2, <2>3 DEF RestOfPage, DataIsOfLastTry
  <1>9. CASE RequestBreaks
    <2>1. /\ place = "respond"
          /\ \/ place' = "perform"
             \/ /\ place' = "idle" /\ UNCHANGED <<attempt, vctRespBuf, nTryCount>>
                /\ nCode' = CURLE_ERROR
      BY <1>9 DEF RequestBreaks, Return, param
    <2>2. place' = "idle" => attempt' < nTry'
      BY <1>0, <2>1 DEF ClientLocals, InPerform, nTry
    <2> QED BY <1>7, <2>1, <2>2 DEF RestOfPage, DataIsOfLastTry
  <1>10. CASE Update \/ UNCHANGED clientVars
    <2>1. UNCHANGED <<place, attempt, answer, vctRespBuf, nCode, begun, method, nTryCount>>
      BY <1>10 DEF Update, clientVars, param
    <2> QED BY <1>0, <2>1 DEF RestOfPage, DataIsOfLastTry, nTry
  <1>11. CASE Crash
    <2>1. /\ place \notin {"idle", "undefined"} /\ place' = "idle" /\ nCode' = CURLE_ERROR
          /\ vctRespBuf' = <<>> /\ UNCHANGED <<attempt, nTryCount, method>>
      BY <1>11 DEF Crash, Return, param
    <2>2. method # "HTTP_DOWNLOAD" => attempt' < nTry'
      BY <1>0, <2>1 DEF ClientLocals, InPerform, InDownload, nTry, ClientTypeOK, Places
    <2>3. IsPrefix(<<>>, page)
      BY <1>0, EmptyIsPrefix
    <2> QED BY <2>1, <2>2, <2>3 DEF RestOfPage, DataIsOfLastTry
  <1> QED BY <1>2, <1>3, <1>4, <1>5, <1>6, <1>8, <1>9, <1>10, <1>11 DEF ClientNext, Step
-----------------------------------------------------------------------------
LEMMA ClientInvKept == ClientInv /\ [ClientNext]_clientVars => ClientInv'
  BY ClientTypesKept, ClientLocalsKept, FileKept, PageKept DEF ClientInv, FileOK

LEMMA ClientInvariance == ClientSpec => []ClientInv
  BY InitClientInv, ClientInvKept, PTL DEF ClientSpec

(* Every parameter, local and result of the client keeps its type, and no    *)
(* download makes more than TRYCOUNT_DOWNLOAD attempts.                      *)
THEOREM ClientIsTyped == ClientSpec => []ClientTypeOK
  <1>1. ClientInv => ClientTypeOK
    BY DEF ClientInv
  <1> QED BY <1>1, ClientInvariance, PTL

(* Whatever DownloadFile resumes, retries or loses in a crash, the file it   *)
(* writes is a prefix of the resource, unless a flaw it cannot see happened. *)
THEOREM DownloadIsPrefix == ClientSpec => []FileIsPrefix
  <1>1. ClientInv => FileIsPrefix
    BY DEF ClientInv
  <1> QED BY <1>1, ClientInvariance, PTL

(* A download that reports success has left the whole resource in the file.  *)
THEOREM DownloadIsWhole == ClientSpec => []SuccessIsWhole
  <1>1. ClientInv => SuccessIsWhole
    BY DEF ClientInv
  <1> QED BY <1>1, ClientInvariance, PTL

(* Perform returns the data of its last attempt only, all of it when it      *)
(* returns an answer, after at most nTryCount attempts.                      *)
THEOREM ResponseIsOfLastTry == ClientSpec => []DataIsOfLastTry
  <1>1. ClientInv => DataIsOfLastTry
    BY DEF ClientInv
  <1> QED BY <1>1, ClientInvariance, PTL
===============================================================================
