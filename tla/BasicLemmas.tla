---------------------------- MODULE BasicLemmas -----------------------------
(***************************************************************************)
(* Facts about numbers and lists that the proofs about the components use. *)
(* Induction over the natural numbers is had from the least element of a   *)
(* set, which no prover needs an operator parameter for.                   *)
(***************************************************************************)
EXTENDS Integers, Sequences, SequencesExt, Lists, SequenceTheorems,
        WellFoundedInduction, TLAPS

LEMMA MinimalIsLeast ==
    ASSUME NEW R, \A x, y \in Nat : x < y => <<x, y>> \in R,
           NEW T \in SUBSET Nat, \E x \in T : \A y \in T : <<y, x>> \notin R
    PROVE  \E x \in T : \A y \in T : x =< y
  <1>1. PICK x \in T : \A y \in T : <<y, x>> \notin R
    OBVIOUS
  <1>2. \A y \in T : ~(y < x)
    BY <1>1
  <1> QED BY <1>2

(* Every set of natural numbers has a least element.                       *)
LEMMA LeastNat ==
    ASSUME NEW T \in SUBSET Nat, T # {}
    PROVE  \E x \in T : \A y \in T : x =< y
  <1> DEFINE R == OpToRel(<, Nat)
  <1>1. IsWellFoundedOn(R, Nat)
    BY NatLessThanWellFounded
  <1>2. \A x, y \in Nat : x < y => <<x, y>> \in R
    BY DEF OpToRel
  <1> HIDE DEF R
  <1>3. \E x \in T : \A y \in T : <<y, x>> \notin R
    BY <1>1, WFMin
  <1> QED BY <1>2, <1>3, MinimalIsLeast, Zenon

(* Every set of integers with an upper bound has a greatest element.       *)
LEMMA GreatestInt ==
    ASSUME NEW b \in Int, NEW T \in SUBSET Int, T # {}, \A x \in T : x =< b
    PROVE  \E x \in T : \A y \in T : y =< x
  <1> DEFINE U == {b - x : x \in T}
  <1>1. U \in SUBSET Nat /\ U # {}
    <2>1. ASSUME NEW x \in T
          PROVE  b - x \in Nat
      <3>1. x \in Int /\ x =< b
        OBVIOUS
      <3> QED BY <3>1
    <2> QED BY <2>1
  <1>2. PICK u \in U : \A v \in U : u =< v
    BY <1>1, LeastNat
  <1>3. PICK x \in T : u = b - x
    OBVIOUS
  <1>4. ASSUME NEW y \in T
        PROVE  y =< x
    <2>1. b - x =< b - y
      BY <1>2, <1>3
    <2> QED BY <2>1
  <1> QED BY <1>4
-----------------------------------------------------------------------------
(* Integer division, as multiplication sees it.                            *)
LEMMA DivBounds ==
    ASSUME NEW a \in Nat, NEW t \in Nat \ {0}
    PROVE  /\ a \div t \in Nat
           /\ t * (a \div t) =< a
           /\ a < t * (a \div t) + t
  OBVIOUS

(* Two quotients that are d apart: the dividends are more than d - 1       *)
(* divisors apart.                                                         *)
LEMMA QuotientsApart ==
    ASSUME NEW a \in Nat, NEW b \in Nat, NEW d \in Nat, NEW t \in Nat \ {0},
           a \div t - b \div t >= d
    PROVE  a - b > (d - 1) * t
  <1>1. /\ a \div t \in Nat
        /\ t * (a \div t) =< a
    BY DivBounds
  <1>2. /\ b \div t \in Nat
        /\ b < t * (b \div t) + t
    BY DivBounds
  <1>3. ASSUME NEW x \in Nat, NEW y \in Nat, t * x =< a, b < t * y + t, x - y >= d
        PROVE  a - b > (d - 1) * t
    BY <1>3
  <1> QED BY <1>1, <1>2, <1>3
-----------------------------------------------------------------------------
(* RemoveAt takes one element out and keeps the others in their order.     *)
LEMMA RemoveAtProperties ==
    ASSUME NEW S, NEW s \in Seq(S), NEW i \in 1..Len(s)
    PROVE  /\ RemoveAt(s, i) \in Seq(S)
           /\ Len(RemoveAt(s, i)) = Len(s) - 1
           /\ \A j \in 1..(Len(s) - 1) :
                  RemoveAt(s, i)[j] = IF j < i THEN s[j] ELSE s[j + 1]
  <1> DEFINE a == SubSeq(s, 1, i - 1)
             b == SubSeq(s, i + 1, Len(s))
  <1>1. /\ a \in Seq(S)
        /\ Len(a) = i - 1
        /\ \A j \in 1..(i - 1) : a[j] = s[j]
    BY SubSeqProperties
  <1>2. /\ b \in Seq(S)
        /\ Len(b) = Len(s) - i
        /\ \A j \in 1..(Len(s) - i) : b[j] = s[i + j]
    <2>1. /\ b \in Seq(S)
          /\ Len(b) = IF i + 1 =< Len(s) THEN Len(s) - (i + 1) + 1 ELSE 0
          /\ \A j \in 1..(Len(s) - (i + 1) + 1) : b[j] = s[(i + 1) + j - 1]
      BY SubSeqProperties
    <2> QED BY <2>1
  <1> HIDE DEF a, b
  <1>3. /\ a \o b \in Seq(S)
        /\ Len(a \o b) = Len(a) + Len(b)
        /\ \A j \in 1..(Len(a) + Len(b)) :
               (a \o b)[j] = IF j =< Len(a) THEN a[j] ELSE b[j - Len(a)]
    BY <1>1, <1>2, ConcatProperties
  <1>4. RemoveAt(s, i) = a \o b
    BY DEF RemoveAt, a, b
  <1>5. /\ Len(s) \in Nat
        /\ Len(a) = i - 1
        /\ Len(b) = Len(s) - i
        /\ Len(a) + Len(b) = Len(s) - 1
    BY <1>1, <1>2
  <1>6. ASSUME NEW n \in Nat, NEW k \in 1..n, NEW j \in 1..(n - 1), ~(j < k)
        PROVE  /\ j - (k - 1) \in 1..(n - k)
               /\ k + (j - (k - 1)) = j + 1
               /\ j \in 1..((k - 1) + (n - k))
               /\ ~(j =< k - 1)
    BY <1>6
  <1>7. ASSUME NEW j \in 1..(Len(s) - 1)
        PROVE  RemoveAt(s, i)[j] = IF j < i THEN s[j] ELSE s[j + 1]
    <2>1. CASE j < i
      BY <1>1, <1>3, <1>4, <1>5, <2>1
    <2>2. CASE ~(j < i)
      <3>1. /\ j - (i - 1) \in 1..(Len(s) - i)
            /\ i + (j - (i - 1)) = j + 1
            /\ j \in 1..(Len(a) + Len(b))
            /\ ~(j =< Len(a))
            /\ j - Len(a) = j - (i - 1)
        BY <1>5, <1>6, <2>2
      <3>2. RemoveAt(s, i)[j] = b[j - (i - 1)]
        BY <1>3, <1>4, <3>1
      <3> QED BY <1>2, <2>2, <3>1, <3>2
    <2> QED BY <2>1, <2>2
  <1> QED BY <1>3, <1>4, <1>5, <1>7

LEMMA RemovedAtFront ==
    ASSUME NEW S, NEW s \in Seq(S), 1 \in 1..Len(s)
    PROVE  /\ Len(RemoveAt(s, 1)) = Len(s) - 1
           /\ \A j \in 1..(Len(s) - 1) : RemoveAt(s, 1)[j] = s[j + 1]
  <1>1. Len(RemoveAt(s, 1)) = Len(s) - 1
    BY RemoveAtProperties
  <1>2. ASSUME NEW j \in 1..(Len(s) - 1)
        PROVE  RemoveAt(s, 1)[j] = s[j + 1]
    <2>1. ~(j < 1)
      BY LenProperties
    <2> QED BY <2>1, RemoveAtProperties
  <1> QED BY <1>1, <1>2
-----------------------------------------------------------------------------
(* The elements of a list, and lists in which those of a set are found once. *)
OnlyOnce(s, T) == \A i, j \in DOMAIN s : s[i] = s[j] /\ s[i] \in T => i = j

LEMMA ElementsOfList ==
    ASSUME NEW S, NEW s \in Seq(S)
    PROVE  /\ ToSet(s) \subseteq S
           /\ \A i \in DOMAIN s : s[i] \in ToSet(s)
           /\ \A x \in ToSet(s) : \E i \in DOMAIN s : s[i] = x
  BY DEF ToSet

LEMMA ElementsOfAppend ==
    ASSUME NEW S, NEW s \in Seq(S), NEW x \in S
    PROVE  /\ Append(s, x) \in Seq(S)
           /\ ToSet(Append(s, x)) = ToSet(s) \cup {x}
           /\ \A T : OnlyOnce(s, T) /\ (x \notin ToSet(s) \/ x \notin T)
                      => OnlyOnce(Append(s, x), T)
  <1>1. /\ Append(s, x) \in Seq(S)
        /\ Len(Append(s, x)) = Len(s) + 1
        /\ \A i \in 1..Len(s) : Append(s, x)[i] = s[i]
        /\ Append(s, x)[Len(s) + 1] = x
        /\ Len(s) \in Nat
        /\ DOMAIN s = 1..Len(s)
        /\ DOMAIN Append(s, x) = 1..(Len(s) + 1)
    BY AppendProperties, LenProperties
  <1>2. ToSet(Append(s, x)) = ToSet(s) \cup {x}
    BY <1>1, SMTT(20) DEF ToSet
  <1>3. ASSUME NEW T, OnlyOnce(s, T), x \notin ToSet(s) \/ x \notin T
        PROVE  OnlyOnce(Append(s, x), T)
    BY <1>1, <1>3 DEF OnlyOnce, ToSet
  <1> QED BY <1>1, <1>2, <1>3

LEMMA ElementsOfTail ==
    ASSUME NEW S, NEW s \in Seq(S), s # <<>>
    PROVE  /\ Head(s) \in S
           /\ Tail(s) \in Seq(S)
           /\ ToSet(s) = {Head(s)} \cup ToSet(Tail(s))
           /\ \A T : OnlyOnce(s, T) =>
                  /\ OnlyOnce(Tail(s), T)
                  /\ Head(s) \in T => Head(s) \notin ToSet(Tail(s))
  <1>1. /\ Head(s) \in S
        /\ Tail(s) \in Seq(S)
        /\ Len(Tail(s)) = Len(s) - 1
        /\ \A i \in 1..Len(Tail(s)) : Tail(s)[i] = s[i + 1]
        /\ Len(s) \in Nat \ {0}
        /\ DOMAIN s = 1..Len(s)
        /\ DOMAIN Tail(s) = 1..(Len(s) - 1)
        /\ Head(s) = s[1]
    BY HeadTailProperties, LenProperties, EmptySeq
  <1>2. \A i \in DOMAIN s : i = 1 \/ (i - 1 \in DOMAIN Tail(s) /\ Tail(s)[i - 1] = s[i])
    BY <1>1
  <1>3. \A i \in DOMAIN Tail(s) : i + 1 \in DOMAIN s /\ Tail(s)[i] = s[i + 1] /\ i + 1 # 1
    BY <1>1
  <1>4. ToSet(s) = {Head(s)} \cup ToSet(Tail(s))
    <2>1. ASSUME NEW x \in ToSet(s)
          PROVE  x \in {Head(s)} \cup ToSet(Tail(s))
      <3>1. PICK i \in DOMAIN s : s[i] = x
        BY DEF ToSet
      <3>2. CASE i = 1
        BY <1>1, <3>1, <3>2
      <3>3. CASE i # 1
        <4>1. i - 1 \in DOMAIN Tail(s) /\ Tail(s)[i - 1] = x
          BY <1>2, <3>1, <3>3
        <4> QED BY <4>1 DEF ToSet
      <3> QED BY <3>2, <3>3
    <2>2. ASSUME NEW x \in {Head(s)} \cup ToSet(Tail(s))
          PROVE  x \in ToSet(s)
      BY <1>1, <1>3 DEF ToSet
    <2> QED BY <2>1, <2>2
  <1>5. ASSUME NEW T, OnlyOnce(s, T)
        PROVE  /\ OnlyOnce(Tail(s), T)
               /\ Head(s) \in T => Head(s) \notin ToSet(Tail(s))
    BY <1>1, <1>3, <1>5 DEF OnlyOnce, ToSet
  <1> QED BY <1>1, <1>4, <1>5

LEMMA ElementsOfRemoveAt ==
    ASSUME NEW S, NEW s \in Seq(S), NEW k \in DOMAIN s
    PROVE  /\ RemoveAt(s, k) \in Seq(S)
           /\ ToSet(s) = {s[k]} \cup ToSet(RemoveAt(s, k))
           /\ \A T : OnlyOnce(s, T) =>
                  /\ OnlyOnce(RemoveAt(s, k), T)
                  /\ s[k] \in T => s[k] \notin ToSet(RemoveAt(s, k))
  <1> DEFINE r == RemoveAt(s, k)
  <1>1. /\ r \in Seq(S)
        /\ Len(r) = Len(s) - 1
        /\ \A j \in 1..(Len(s) - 1) : r[j] = IF j < k THEN s[j] ELSE s[j + 1]
        /\ Len(s) \in Nat \ {0}
        /\ DOMAIN s = 1..Len(s)
        /\ DOMAIN r = 1..(Len(s) - 1)
        /\ k \in 1..Len(s)
    <2>1. k \in 1..Len(s) /\ Len(s) \in Nat /\ DOMAIN s = 1..Len(s)
      BY LenProperties
    <2>2. /\ r \in Seq(S)
          /\ Len(r) = Len(s) - 1
          /\ \A j \in 1..(Len(s) - 1) : r[j] = IF j < k THEN s[j] ELSE s[j + 1]
      BY <2>1, RemoveAtProperties
    <2>3. DOMAIN r = 1..Len(r)
      BY <2>2, LenProperties
    <2>4. Len(s) # 0
      BY <2>1
    <2> QED BY <2>1, <2>2, <2>3, <2>4
  <1> HIDE DEF r
  <1>2. \A i \in DOMAIN s :
            i = k \/ \E j \in DOMAIN r : r[j] = s[i]
    <2> SUFFICES ASSUME NEW i \in DOMAIN s, i # k
                 PROVE  \E j \in DOMAIN r : r[j] = s[i]
      OBVIOUS
    <2>1. CASE i < k
      BY <1>1, <2>1
    <2>2. CASE i > k
      <3>1. i - 1 \in DOMAIN r /\ ~(i - 1 < k) /\ (i - 1) + 1 = i
        BY <1>1, <2>2
      <3> QED BY <1>1, <3>1
    <2> QED BY <1>1, <2>1, <2>2
  <1>3. \A j \in DOMAIN r : \E i \in DOMAIN s : i # k /\ r[j] = s[i]
    BY <1>1, SMTT(40)
  <1>4. ToSet(s) = {s[k]} \cup ToSet(r)
    <2>1. ASSUME NEW x \in ToSet(s)
          PROVE  x \in {s[k]} \cup ToSet(r)
      BY <1>2 DEF ToSet
    <2>2. ASSUME NEW x \in {s[k]} \cup ToSet(r)
          PROVE  x \in ToSet(s)
      BY <1>3 DEF ToSet
    <2> QED BY <2>1, <2>2
  <1>5. ASSUME NEW T, OnlyOnce(s, T)
        PROVE  /\ OnlyOnce(r, T)
               /\ s[k] \in T => s[k] \notin ToSet(r)
    <2>1. s[k] \in T => s[k] \notin ToSet(r)
      BY <1>3, <1>5 DEF OnlyOnce, ToSet
    <2>2. ASSUME NEW i \in DOMAIN r, NEW j \in DOMAIN r, r[i] = r[j], r[i] \in T
          PROVE  i = j
      <3> DEFINE at(m) == IF m < k THEN m ELSE m + 1
      <3>1. i \in Nat /\ j \in Nat /\ k \in Nat
        BY <1>1
      <3>2. /\ at(i) \in DOMAIN s /\ r[i] = s[at(i)]
            /\ at(j) \in DOMAIN s /\ r[j] = s[at(j)]
        BY <1>1
      <3>3. at(i) = at(j)
        BY <1>5, <2>2, <3>2 DEF OnlyOnce
      <3> QED BY <3>1, <3>3
    <2> QED BY <2>1, <2>2 DEF OnlyOnce
  <1> QED BY <1>1, <1>4, <1>5 DEF r

LEMMA ElementsOfSubSeq ==
    ASSUME NEW S, NEW s \in Seq(S), NEW m \in 1..(Len(s) + 1), NEW n \in 0..Len(s)
    PROVE  /\ SubSeq(s, m, n) \in Seq(S)
           /\ ToSet(SubSeq(s, m, n)) \subseteq ToSet(s)
  <1> DEFINE r == SubSeq(s, m, n)
  <1>1. Len(s) \in Nat /\ DOMAIN s = 1..Len(s)
    BY LenProperties
  <1>2. /\ r \in Seq(S)
        /\ Len(r) = IF m =< n THEN n - m + 1 ELSE 0
        /\ \A i \in 1..(n - m + 1) : r[i] = s[m + i - 1]
    BY <1>1, SubSeqProperties, SMTT(40)
  <1> HIDE DEF r
  <1>3. DOMAIN r = 1..Len(r)
    BY <1>2, LenProperties
  <1>4. ASSUME NEW i \in DOMAIN r
        PROVE  r[i] \in ToSet(s)
    <2>1. i \in 1..(n - m + 1) /\ m + i - 1 \in 1..Len(s)
      BY <1>1, <1>2, <1>3
    <2> QED BY <1>1, <1>2, <2>1 DEF ToSet
  <1> QED BY <1>2, <1>4 DEF ToSet, r
-----------------------------------------------------------------------------
(* Prefixes, and lists taken apart and put together again.                   *)
LEMMA PrefixMeans ==
    ASSUME NEW S, NEW s \in Seq(S), NEW r \in Seq(S)
    PROVE  IsPrefix(s, r) <=>
               Len(s) =< Len(r) /\ \A k \in 1..Len(s) : s[k] = r[k]
  <1>1. Len(s) \in Nat /\ Len(r) \in Nat
    BY LenProperties
  <1>2. SubSeq(s, 1, Len(s)) = s
    BY SubSeqFull
  <1>3. ASSUME Len(s) =< Len(r)
        PROVE  /\ SubSeq(r, 1, Len(s)) \in Seq(S)
               /\ Len(SubSeq(r, 1, Len(s))) = Len(s)
               /\ \A k \in 1..Len(s) : SubSeq(r, 1, Len(s))[k] = r[k]
    <2>1. /\ SubSeq(r, 1, Len(s)) \in Seq(S)
          /\ Len(SubSeq(r, 1, Len(s))) = IF 1 =< Len(s) THEN Len(s) - 1 + 1 ELSE 0
          /\ \A k \in 1..(Len(s) - 1 + 1) : SubSeq(r, 1, Len(s))[k] = r[1 + k - 1]
      BY <1>1, <1>3, SubSeqProperties
    <2>2. \A k \in 1..Len(s) : 1 + k - 1 = k
      BY <1>1
    <2> QED BY <1>1, <2>1, <2>2
  <1>4. ASSUME Len(s) =< Len(r), \A k \in 1..Len(s) : s[k] = r[k]
        PROVE  s = SubSeq(r, 1, Len(s))
    BY <1>3, <1>4, SeqEqual
  <1> QED BY <1>1, <1>2, <1>3, <1>4 DEF IsPrefix

LEMMA PrefixOfConcat ==
    ASSUME NEW S, NEW s \in Seq(S), NEW t \in Seq(S)
    PROVE  IsPrefix(s, s \o t)
  <1>1. /\ s \o t \in Seq(S)
        /\ Len(s \o t) = Len(s) + Len(t)
        /\ \A k \in 1..(Len(s) + Len(t)) :
               (s \o t)[k] = IF k =< Len(s) THEN s[k] ELSE t[k - Len(s)]
        /\ Len(s) \in Nat /\ Len(t) \in Nat
    BY ConcatProperties, LenProperties
  <1>2. Len(s) =< Len(s \o t) /\ \A k \in 1..Len(s) : s[k] = (s \o t)[k]
    BY <1>1
  <1> QED BY <1>1, <1>2, PrefixMeans

LEMMA EmptyIsPrefix ==
    ASSUME NEW S, NEW r \in Seq(S)
    PROVE  IsPrefix(<<>>, r)
  <1>1. <<>> \in Seq(S) /\ <<>> \o r = r
    BY EmptySeq, ConcatEmptySeq
  <1> QED BY <1>1, PrefixOfConcat

LEMMA PrefixOfPrefix ==
    ASSUME NEW S, NEW s \in Seq(S), NEW r \in Seq(S), IsPrefix(s, r), NEW n \in 0..Len(s)
    PROVE  SubSeq(s, 1, n) \in Seq(S) /\ IsPrefix(SubSeq(s, 1, n), r)
  <1>1. Len(s) \in Nat /\ Len(r) \in Nat
    BY LenProperties
  <1>2. /\ SubSeq(s, 1, n) \in Seq(S)
        /\ Len(SubSeq(s, 1, n)) = IF 1 =< n THEN n - 1 + 1 ELSE 0
        /\ \A k \in 1..(n - 1 + 1) : SubSeq(s, 1, n)[k] = s[1 + k - 1]
    BY <1>1, SubSeqProperties
  <1>3. /\ Len(SubSeq(s, 1, n)) = n
        /\ \A k \in 1..n : SubSeq(s, 1, n)[k] = s[k]
    BY <1>1, <1>2
  <1>4. Len(s) =< Len(r) /\ \A k \in 1..Len(s) : s[k] = r[k]
    BY PrefixMeans
  <1>5. n =< Len(r) /\ \A k \in 1..n : SubSeq(s, 1, n)[k] = r[k]
    BY <1>1, <1>3, <1>4
  <1> QED BY <1>2, <1>3, <1>5, PrefixMeans

LEMMA FullPrefix ==
    ASSUME NEW S, NEW s \in Seq(S), NEW r \in Seq(S), IsPrefix(s, r), Len(s) >= Len(r)
    PROVE  s = r
  <1>1. /\ Len(s) =< Len(r) /\ \A k \in 1..Len(s) : s[k] = r[k]
        /\ Len(s) \in Nat /\ Len(r) \in Nat
    BY PrefixMeans, LenProperties
  <1> QED BY <1>1, SeqEqual

LEMMA PrefixCompleted ==
    ASSUME NEW S, NEW s \in Seq(S), NEW r \in Seq(S), IsPrefix(s, r)
    PROVE  /\ SubSeq(r, Len(s) + 1, Len(r)) \in Seq(S)
           /\ s \o SubSeq(r, Len(s) + 1, Len(r)) = r
  <1>1. Len(s) \in Nat /\ Len(r) \in Nat /\ Len(s) =< Len(r)
    BY PrefixMeans, LenProperties
  <1>2. s = SubSeq(r, 1, Len(s))
    BY SubSeqFull DEF IsPrefix
  <1>3. SubSeq(r, 1, Len(s)) \o SubSeq(r, Len(s) + 1, Len(r)) = SubSeq(r, 1, Len(r))
    <2>1. /\ 1 \in 1..(Len(r) + 1)
          /\ Len(s) \in (1 - 1)..Len(r)
          /\ Len(r) \in Len(s)..Len(r)
      BY <1>1
    <2> QED BY <2>1, ConcatAdjacentSubSeq
  <1>4. SubSeq(r, Len(s) + 1, Len(r)) \in Seq(S)
    BY <1>1, SubSeqProperties
  <1> QED BY <1>2, <1>3, <1>4, SubSeqFull

LEMMA HeadMoved ==
    ASSUME NEW S, NEW s \in Seq(S), NEW t \in Seq(S), t # <<>>
    PROVE  /\ Append(s, Head(t)) \in Seq(S)
           /\ Tail(t) \in Seq(S)
           /\ Append(s, Head(t)) \o Tail(t) = s \o t
  <1>1. Head(t) \in S /\ Tail(t) \in Seq(S)
    BY HeadTailProperties
  <1>2. Append(s, Head(t)) \in Seq(S) /\ Append(s, Head(t)) = s \o <<Head(t)>>
    BY <1>1, AppendProperties, AppendIsConcat
  <1>3. <<Head(t)>> \in Seq(S)
    BY <1>1
  <1>4. (s \o <<Head(t)>>) \o Tail(t) = s \o (<<Head(t)>> \o Tail(t))
    BY <1>1, <1>3, ConcatAssociative
  <1>5. <<Head(t)>> \o Tail(t) = t
    <2>1. /\ Len(t) \in Nat \ {0}
          /\ Len(Tail(t)) = Len(t) - 1
          /\ \A k \in 1..Len(Tail(t)) : Tail(t)[k] = t[k + 1]
          /\ Head(t) = t[1]
      BY EmptySeq, HeadTailProperties
    <2>2. /\ <<Head(t)>> \o Tail(t) \in Seq(S)
          /\ Len(<<Head(t)>> \o Tail(t)) = 1 + Len(Tail(t))
          /\ \A k \in 1..(1 + Len(Tail(t))) :
                 (<<Head(t)>> \o Tail(t))[k] =
                     IF k =< 1 THEN <<Head(t)>>[k] ELSE Tail(t)[k - 1]
      <3>1. Len(<<Head(t)>>) = 1
        OBVIOUS
      <3> QED BY <1>1, <1>3, <3>1, ConcatProperties
    <2>3. ASSUME NEW k \in 1..Len(t)
          PROVE  (<<Head(t)>> \o Tail(t))[k] = t[k]
      <3>1. CASE k = 1
        BY <2>1, <2>2, <3>1
      <3>2. CASE k # 1
        <4>1. k - 1 \in 1..Len(Tail(t)) /\ (k - 1) + 1 = k /\ ~(k =< 1)
          BY <2>1, <3>2
        <4> QED BY <2>1, <2>2, <4>1
      <3> QED BY <3>1, <3>2
    <2> QED BY <2>1, <2>2, <2>3, SeqEqual
  <1> QED BY <1>1, <1>2, <1>4, <1>5
-----------------------------------------------------------------------------
(* The list Without leaves: the other elements, in their order.              *)
LEMMA WithoutIsRecursive ==
    ASSUME NEW T, NEW q \in Seq(T), NEW S
    PROVE  \E kept :
               /\ kept = [n \in 0..Len(q) |->
                              IF n = 0 THEN <<>>
                              ELSE IF q[n] \in S THEN kept[n - 1]
                              ELSE Append(kept[n - 1], q[n])]
               /\ Without(q, S) = kept[Len(q)]
  <1> DEFINE Kept(kept, m) ==
                 kept = [n \in 0..m |-> IF n = 0 THEN <<>>
                                        ELSE IF q[n] \in S THEN kept[n - 1]
                                        ELSE Append(kept[n - 1], q[n])]
             Bad == {m \in Nat : ~\E kept : Kept(kept, m)}
  <1>1. Kept([n \in 0..0 |-> <<>>], 0)
    OBVIOUS
  <1>2. ASSUME NEW m \in Nat, NEW kept, Kept(kept, m)
        PROVE  \E more : Kept(more, m + 1)
    <2> DEFINE last == IF q[m + 1] \in S THEN kept[m] ELSE Append(kept[m], q[m + 1])
               more == [n \in 0..(m + 1) |-> IF n = m + 1 THEN last ELSE kept[n]]
    <2>1. ASSUME NEW n \in 0..(m + 1)
          PROVE  more[n] = IF n = 0 THEN <<>>
                           ELSE IF q[n] \in S THEN more[n - 1]
                           ELSE Append(more[n - 1], q[n])
      <3>1. CASE n = 0
        BY <1>2, <3>1
      <3>2. CASE n = m + 1
        <4>1. n # 0 /\ n - 1 = m /\ m \in 0..(m + 1) /\ m # m + 1
          BY <3>2
        <4> QED BY <3>2, <4>1
      <3>3. CASE n # 0 /\ n # m + 1
        <4>1. n \in 0..m /\ n - 1 \in 0..(m + 1) /\ n - 1 # m + 1
          BY <3>3
        <4>2. kept[n] = IF q[n] \in S THEN kept[n - 1] ELSE Append(kept[n - 1], q[n])
          BY <1>2, <3>3, <4>1
        <4> QED BY <3>3, <4>1, <4>2
      <3> QED BY <3>1, <3>2, <3>3
    <2>2. Kept(more, m + 1)
      BY <2>1
    <2> QED BY <2>2
  <1>3. Bad = {}
    <2>1. SUFFICES ASSUME Bad # {}
                   PROVE  FALSE
      OBVIOUS
    <2>2. PICK m \in Bad : \A k \in Bad : m =< k
      BY <2>1, LeastNat
    <2> HIDE DEF Kept
    <2>3. m # 0
      BY <1>1
    <2>4. m - 1 \in Nat /\ m - 1 \notin Bad /\ (m - 1) + 1 = m
      BY <2>2, <2>3
    <2> QED BY <1>2, <2>4
  <1>4. \E kept : Kept(kept, Len(q))
    BY <1>3, LenProperties
  <1> QED BY <1>4 DEF Without

LEMMA WithoutProperties ==
    ASSUME NEW T, NEW q \in Seq(T), NEW S
    PROVE  /\ Without(q, S) \in Seq(T)
           /\ Len(Without(q, S)) =< Len(q)
           /\ ToSet(Without(q, S)) = ToSet(q) \ S
           /\ \A i, j \in DOMAIN Without(q, S) : i < j =>
                  \E a, b \in DOMAIN q :
                      /\ a < b
                      /\ Without(q, S)[i] = q[a]
                      /\ Without(q, S)[j] = q[b]
           /\ q # <<>> /\ q[1] \notin S =>
                  Without(q, S) # <<>> /\ Without(q, S)[1] = q[1]
  <1>1. PICK kept :
            /\ kept = [n \in 0..Len(q) |->
                           IF n = 0 THEN <<>>
                           ELSE IF q[n] \in S THEN kept[n - 1]
                           ELSE Append(kept[n - 1], q[n])]
            /\ Without(q, S) = kept[Len(q)]
    BY WithoutIsRecursive
  <1>2. Len(q) \in Nat /\ DOMAIN q = 1..Len(q)
    BY LenProperties
  <1> DEFINE From(n) == \A i \in 1..Len(kept[n]) :
                            kept[n][i] \notin S /\ \E a \in 1..n : kept[n][i] = q[a]
             All(n) == \A a \in 1..n : q[a] \notin S =>
                           \E i \in 1..Len(kept[n]) : kept[n][i] = q[a]
             InOrder(n) == \A i, j \in 1..Len(kept[n]) : i < j =>
                               \E a, b \in 1..n :
                                   a < b /\ kept[n][i] = q[a] /\ kept[n][j] = q[b]
             First(n) == n > 0 /\ q[1] \notin S => Len(kept[n]) > 0 /\ kept[n][1] = q[1]
             Good(n) == /\ kept[n] \in Seq(T)
                        /\ Len(kept[n]) =< n
                        /\ From(n) /\ All(n) /\ InOrder(n) /\ First(n)
             Bad == {n \in 0..Len(q) : ~Good(n)}
  <1>3. Good(0)
    <2>1. kept[0] = <<>>
      BY <1>1, <1>2
    <2>2. kept[0] \in Seq(T) /\ Len(kept[0]) = 0
      BY <2>1, EmptySeq
    <2> QED BY <2>2
  <1>4. ASSUME NEW n \in 1..Len(q), Good(n - 1)
        PROVE  Good(n)
    <2>1. n - 1 \in Nat /\ n \in Nat /\ n \in 0..Len(q) /\ n # 0 /\ n - 1 < n /\ q[n] \in T
      BY <1>2
    <2>2. CASE q[n] \in S
      <3>1. kept[n] = kept[n - 1]
        BY <1>1, <2>1, <2>2
      <3>2. kept[n] \in Seq(T) /\ Len(kept[n]) =< n
        BY <1>4, <2>1, <3>1, LenProperties
      <3>3. \A a \in 1..(n - 1) : a \in 1..n
        BY <2>1
      <3>4. \A a \in 1..n : a = n \/ a \in 1..(n - 1)
        BY <2>1
      <3>5. From(n)
        BY <1>4, <3>1, <3>3
      <3>6. All(n)
        BY <1>4, <2>2, <3>1, <3>4
      <3>7. InOrder(n)
        <4>1. ASSUME NEW i \in 1..Len(kept[n]), NEW j \in 1..Len(kept[n]), i < j
              PROVE  \E a, b \in 1..n : a < b /\ kept[n][i] = q[a] /\ kept[n][j] = q[b]
          <5>1. PICK a \in 1..(n - 1), b \in 1..(n - 1) :
                    a < b /\ kept[n - 1][i] = q[a] /\ kept[n - 1][j] = q[b]
            BY <1>4, <3>1, <4>1
          <5> QED BY <3>1, <3>3, <5>1
        <4> QED BY <4>1
      <3>8. First(n)
        BY <1>4, <2>1, <2>2, <3>1
      <3> QED BY <3>2, <3>5, <3>6, <3>7, <3>8
    <2>3. CASE q[n] \notin S
      <3> DEFINE k == kept[n - 1]
                 m == Len(k)
      <3>1. kept[n] = Append(k, q[n])
        BY <1>1, <2>1, <2>3
      <3>2. k \in Seq(T) /\ m \in Nat /\ m =< n - 1
        BY <1>4, LenProperties
      <3> HIDE DEF k
      <3>3. /\ kept[n] \in Seq(T)
            /\ Len(kept[n]) = m + 1
            /\ \A i \in 1..m : kept[n][i] = k[i]
            /\ kept[n][m + 1] = q[n]
        BY <2>1, <3>1, <3>2, AppendProperties
      <3>4. \A i \in 1..(m + 1) : i = m + 1 \/ i \in 1..m
        BY <3>2
      <3>5. \A a \in 1..n : a = n \/ a \in 1..(n - 1)
        BY <2>1
      <3>6. (\A a \in 1..(n - 1) : a \in 1..n) /\ n \in 1..n /\ m + 1 \in 1..(m + 1)
        BY <2>1, <3>2
      <3>7. \A i \in 1..m : k[i] \notin S /\ \E a \in 1..(n - 1) : k[i] = q[a]
        BY <1>4 DEF k
      <3>8. From(n)
        <4>1. ASSUME NEW i \in 1..(m + 1)
              PROVE  kept[n][i] \notin S /\ \E a \in 1..n : kept[n][i] = q[a]
          <5>1. CASE i = m + 1
            BY <2>3, <3>3, <3>6, <5>1
          <5>2. CASE i \in 1..m
            BY <3>3, <3>6, <3>7, <5>2
          <5> QED BY <3>4, <5>1, <5>2
        <4> QED BY <3>3, <4>1
      <3>9. All(n)
        <4>1. ASSUME NEW a \in 1..n, q[a] \notin S
              PROVE  \E i \in 1..(m + 1) : kept[n][i] = q[a]
          <5>1. CASE a = n
            BY <3>3, <3>6, <5>1
          <5>2. CASE a \in 1..(n - 1)
            <6>1. PICK i \in 1..m : k[i] = q[a]
              BY <1>4, <4>1, <5>2 DEF k
            <6>2. i \in 1..(m + 1)
              BY <3>2
            <6> QED BY <3>3, <6>1, <6>2
          <5> QED BY <3>5, <5>1, <5>2
        <4> QED BY <3>3, <4>1
      <3>10. InOrder(n)
        <4>1. ASSUME NEW i \in 1..(m + 1), NEW j \in 1..(m + 1), i < j
              PROVE  \E a, b \in 1..n : a < b /\ kept[n][i] = q[a] /\ kept[n][j] = q[b]
          <5>1. i \in 1..m
            BY <3>2, <4>1
          <5>2. CASE j = m + 1
            <6>1. PICK a \in 1..(n - 1) : k[i] = q[a]
              BY <3>7, <5>1
            <6>2. a < n /\ a \in 1..n
              BY <2>1
            <6> QED BY <3>3, <3>6, <5>1, <5>2, <6>1, <6>2
          <5>3. CASE j \in 1..m
            <6>1. PICK a \in 1..(n - 1), b \in 1..(n - 1) :
                      a < b /\ k[i] = q[a] /\ k[j] = q[b]
              BY <1>4, <4>1, <5>1, <5>3 DEF k
            <6> QED BY <3>3, <3>6, <5>1, <5>3, <6>1
          <5> QED BY <3>4, <5>2, <5>3
        <4> QED BY <3>3, <4>1
      <3>11. First(n)
        <4>1. CASE n = 1
          <5>1. m = 0
            BY <3>2, <4>1
          <5> QED BY <3>3, <4>1, <5>1
        <4>2. CASE n # 1
          <5>1. ASSUME q[1] \notin S
                PROVE  m > 0 /\ k[1] = q[1]
            <6>1. n - 1 > 0
              BY <2>1, <4>2
            <6> QED BY <1>4, <5>1, <6>1 DEF k
          <5>2. m > 0 => 1 \in 1..m
            BY <3>2
          <5> QED BY <3>2, <3>3, <5>1, <5>2
        <4> QED BY <4>1, <4>2
      <3>12. Len(kept[n]) =< n
        BY <2>1, <3>2, <3>3
      <3> QED BY <3>3, <3>8, <3>9, <3>10, <3>11, <3>12
    <2> QED BY <2>2, <2>3
  <1> HIDE DEF Good
  <1>5. Good(Len(q))
    <2>1. SUFFICES ASSUME Bad # {}
                   PROVE  FALSE
      BY <1>2
    <2>2. PICK n \in Bad : \A k \in Bad : n =< k
      <3>1. Bad \in SUBSET Nat
        BY <1>2
      <3> QED BY <2>1, <3>1, LeastNat
    <2>3. n # 0
      BY <1>3
    <2>4. n \in 1..Len(q) /\ n - 1 \in 0..Len(q) /\ n - 1 \notin Bad
      BY <1>2, <2>2, <2>3
    <2> QED BY <1>4, <2>4
  <1> DEFINE w == Without(q, S)
  <1>6. /\ w \in Seq(T)
        /\ Len(w) =< Len(q)
        /\ \A i \in 1..Len(w) : w[i] \notin S /\ \E a \in 1..Len(q) : w[i] = q[a]
        /\ \A a \in 1..Len(q) : q[a] \notin S => \E i \in 1..Len(w) : w[i] = q[a]
        /\ \A i, j \in 1..Len(w) : i < j =>
               \E a, b \in 1..Len(q) : a < b /\ w[i] = q[a] /\ w[j] = q[b]
        /\ Len(q) > 0 /\ q[1] \notin S => Len(w) > 0 /\ w[1] = q[1]
    <2>1. /\ kept[Len(q)] \in Seq(T)
          /\ Len(kept[Len(q)]) =< Len(q)
          /\ From(Len(q)) /\ All(Len(q)) /\ InOrder(Len(q)) /\ First(Len(q))
      BY <1>5 DEF Good
    <2>2. w = kept[Len(q)]
      BY <1>1
    <2> HIDE DEF w
    <2>3. w \in Seq(T) /\ Len(w) =< Len(q)
      BY <2>1, <2>2
    <2>4. \A i \in 1..Len(w) : w[i] \notin S /\ \E a \in 1..Len(q) : w[i] = q[a]
      BY <2>1, <2>2
    <2>5. \A a \in 1..Len(q) : q[a] \notin S => \E i \in 1..Len(w) : w[i] = q[a]
      BY <2>1, <2>2
    <2>6. \A i, j \in 1..Len(w) : i < j =>
              \E a, b \in 1..Len(q) : a < b /\ w[i] = q[a] /\ w[j] = q[b]
      BY <2>1, <2>2
    <2>7. Len(q) > 0 /\ q[1] \notin S => Len(w) > 0 /\ w[1] = q[1]
      BY <2>1, <2>2
    <2> QED BY <2>3, <2>4, <2>5, <2>6, <2>7
  <1> HIDE DEF w
  <1>7. DOMAIN w = 1..Len(w)
    BY <1>6, LenProperties
  <1>8. ToSet(w) = ToSet(q) \ S
    <2>1. ASSUME NEW x \in ToSet(w)
          PROVE  x \in ToSet(q) \ S
      <3>1. PICK i \in 1..Len(w) : w[i] = x
        BY <1>7 DEF ToSet
      <3>2. x \notin S /\ \E a \in 1..Len(q) : x = q[a]
        BY <1>6, <3>1
      <3> QED BY <1>2, <3>2 DEF ToSet
    <2>2. ASSUME NEW x \in ToSet(q) \ S
          PROVE  x \in ToSet(w)
      <3>1. PICK a \in 1..Len(q) : q[a] = x
        BY <1>2 DEF ToSet
      <3>2. PICK i \in 1..Len(w) : w[i] = x
        BY <1>6, <3>1
      <3> QED BY <1>7, <3>2 DEF ToSet
    <2> QED BY <2>1, <2>2
  <1>9. (q # <<>> => Len(q) > 0) /\ (Len(w) > 0 => w # <<>>)
    BY <1>2, <1>6, EmptySeq
  <1>10. /\ \A i, j \in DOMAIN w : i < j =>
                \E a, b \in DOMAIN q : a < b /\ w[i] = q[a] /\ w[j] = q[b]
         /\ q # <<>> /\ q[1] \notin S => w # <<>> /\ w[1] = q[1]
    <2>1. \A i, j \in DOMAIN w : i < j =>
              \E a, b \in DOMAIN q : a < b /\ w[i] = q[a] /\ w[j] = q[b]
      <3> SUFFICES ASSUME NEW i \in DOMAIN w, NEW j \in DOMAIN w, i < j
                   PROVE  \E a, b \in DOMAIN q : a < b /\ w[i] = q[a] /\ w[j] = q[b]
        OBVIOUS
      <3>1. i \in 1..Len(w) /\ j \in 1..Len(w)
        BY <1>7
      <3>2. PICK a \in 1..Len(q), b \in 1..Len(q) : a < b /\ w[i] = q[a] /\ w[j] = q[b]
        BY <1>6, <3>1
      <3> QED BY <1>2, <3>2
    <2>2. q # <<>> /\ q[1] \notin S => w # <<>> /\ w[1] = q[1]
      BY <1>6, <1>9
    <2> QED BY <2>1, <2>2
  <1> QED BY <1>6, <1>8, <1>10 DEF w
=============================================================================
