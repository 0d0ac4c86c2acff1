---------------------------- MODULE LogRollingProofs ----------------------------
(***************************************************************************)
(* The invariants of LogRolling hold for every set of configurations and   *)
(* every number of entries and runs.  IInv adds to them how the writer's   *)
(* count follows the size of the file, and which numbers the files have    *)
(* in each phase of a roll, as long as no crash has torn one.              *)
(***************************************************************************)
EXTENDS LogRolling, BasicLemmas, FiniteSetTheorems

Numbers == DOMAIN file

(* What the writer is through with, holds and knows at each place of         *)
(* OnExecute.                                                                *)
Places ==
    /\ pc = "down" => m_lstLogEntitysTmp = <<>> /\ m_lstLogEntitys = <<>> /\ ~fp
    /\ pc = "idle" => m_lstLogEntitys = <<>>
    /\ pc \in Rolling => m_lstLogEntitys # <<>> /\ ~fp
    /\ pc = "put" => m_lstLogEntitys # <<>> /\ fp
    /\ pc # "down" => \E c \in Configs : nMaxFileSize = FileSize(c)
    /\ (pc # "down" \/ rolled) => nMaxFileCounts # 0
    /\ pc = "rm" => i >= nMaxFileCounts - 1
    /\ pc = "rename" => i \in -1..nLogFileIndex /\ (i = -1 => 0 \notin Numbers)

(* The size counted is that of the file and the buffer, and there is room    *)
(* for an entry where one is written.                                        *)
Counted ==
    /\ pc \notin {"down", "rm", "rename"} => nWritedSize = SizeOnDisk + Len(buffer)
    /\ pc \in {"open", "put"} => (nWritedSize = 0 \/ nWritedSize < nMaxFileSize)

SizeBounded(n) == n <= 1 \/ \E c \in Configs : n <= FileSize(c)

Sizes ==
    /\ SizeBounded(SizeOnDisk + Len(buffer))
    /\ \A k \in Numbers : SizeBounded(Len(file[k]))

(* The files have the numbers 0 to some m, but for what the roll under way   *)
(* has removed (up to i) or renamed (from i on).                             *)
Indexed == \A j \in Numbers : j =< nLogFileIndex \/ (nMaxFileCounts = 1 /\ j = 1)

Few == \A j \in Numbers : j =< nMaxFileCounts - 1 \/ j =< 1

Removing ==
    \A j \in Numbers :
        /\ j = 0 \/ j < nMaxFileCounts - 1 \/ j >= i
        /\ \A k \in 0..j : (k = 0 \/ k < nMaxFileCounts - 1) => k \in Numbers

Renaming ==
    \A j \in Numbers :
        /\ j =< i => (j = 0 \/ j < nMaxFileCounts - 1) /\ 0..j \subseteq Numbers
        /\ j > i =>
            /\ j =< nLogFileIndex + 1
            /\ j =< nMaxFileCounts - 1 \/ j = 1
            /\ 0..i \subseteq Numbers
            /\ (i + 2)..j \subseteq Numbers
        /\ j = i + 1 => nMaxFileCounts = 1

Shape ==
    /\ pc \notin {"rm", "rename"} =>
           (\A j \in Numbers : 1..j \subseteq Numbers) /\ (rolled => Few)
    /\ pc \notin Rolling => (Numbers # {} => 0 \in Numbers)
    /\ pc \notin {"down", "rename"} => Indexed
    /\ pc = "rm" => Removing
    /\ pc = "rename" => Renaming

(* The entries and where they are, and the rest of the state.                *)
DataTyped ==
    /\ Numbers \subseteq Nat
    /\ \A k \in Numbers : file[k] \in Seq(Entries)
    /\ buffer \in Seq(Entries)
    /\ m_lstLogEntitysTmp \in Seq(Entries)
    /\ m_lstLogEntitys \in Seq(Entries) /\ Len(m_lstLogEntitys) <= MaxMove
    /\ logged \in 0..MaxEntries
    /\ filtered \cup queueLost \cup bufferLost \cup removed \subseteq Entries

StateTyped ==
    /\ fp \in BOOLEAN /\ (fp => 0 \in Numbers)
    /\ buffer # <<>> => fp
    /\ nWritedSize \in Nat
    /\ nLogFileIndex \in Nat
    /\ nMaxFileSize \in Nat
    /\ nMaxFileCounts \in Nat
    /\ pc \in PC
    /\ i \in Int
    /\ runs \in 0..MaxRuns
    /\ early \in BOOLEAN /\ rolled \in BOOLEAN /\ torn \in BOOLEAN

Data == DataTyped /\ IsFiniteSet(Numbers) /\ Sizes /\ EntriesInOrder /\ NothingElseLost

Control == StateTyped /\ Places /\ Counted /\ KeptUnlessTorn /\ (~torn => Shape)

IInv == Data /\ Control
-----------------------------------------------------------------------------
(* Lists of entries.                                                         *)
LEMMA AscendingConcat ==
    ASSUME NEW S \in SUBSET Int, NEW s \in Seq(S), NEW t \in Seq(S)
    PROVE  /\ s \o t \in Seq(S)
           /\ Len(s \o t) = Len(s) + Len(t)
           /\ ToSet(s \o t) = ToSet(s) \cup ToSet(t)
           /\ (Ascending(s) /\ Ascending(t) /\ Precede(ToSet(s), ToSet(t)))
                  => Ascending(s \o t)
  <1> DEFINE r == s \o t
  <1>1. /\ r \in Seq(S)
        /\ Len(r) = Len(s) + Len(t)
        /\ \A k \in 1..(Len(s) + Len(t)) : r[k] = IF k =< Len(s) THEN s[k] ELSE t[k - Len(s)]
        /\ Len(s) \in Nat /\ Len(t) \in Nat
        /\ DOMAIN s = 1..Len(s) /\ DOMAIN t = 1..Len(t)
    BY ConcatProperties, LenProperties
  <1> HIDE DEF r
  <1>2. DOMAIN r = 1..(Len(s) + Len(t))
    BY <1>1, LenProperties
  <1>3. \A k \in DOMAIN r :
            \/ k \in DOMAIN s /\ k =< Len(s) /\ r[k] = s[k]
            \/ k - Len(s) \in DOMAIN t /\ k > Len(s) /\ r[k] = t[k - Len(s)]
    BY <1>1, <1>2
  <1>4. /\ \A k \in DOMAIN s : k \in DOMAIN r /\ r[k] = s[k]
        /\ \A k \in DOMAIN t : k + Len(s) \in DOMAIN r /\ r[k + Len(s)] = t[k]
    BY <1>1, <1>2
  <1>5. ToSet(r) = ToSet(s) \cup ToSet(t)
    <2>1. ASSUME NEW x \in ToSet(r)
          PROVE  x \in ToSet(s) \cup ToSet(t)
      BY <1>3 DEF ToSet
    <2>2. ASSUME NEW x \in ToSet(s) \cup ToSet(t)
          PROVE  x \in ToSet(r)
      BY <1>4 DEF ToSet
    <2> QED BY <2>1, <2>2
  <1>6. ASSUME Ascending(s), Ascending(t), Precede(ToSet(s), ToSet(t)),
               NEW a \in DOMAIN r, NEW b \in DOMAIN r, a < b
        PROVE  r[a] < r[b]
    <2>0. a \in Int /\ b \in Int /\ Len(s) \in Int
      BY <1>1, <1>2
    <2>1. CASE b =< Len(s)
      <3>1. a \in DOMAIN s /\ r[a] = s[a] /\ b \in DOMAIN s /\ r[b] = s[b]
        BY <1>3, <1>6, <2>0, <2>1
      <3> QED BY <1>6, <3>1 DEF Ascending
    <2>2. CASE a > Len(s)
      <3>1. /\ a - Len(s) \in DOMAIN t /\ r[a] = t[a - Len(s)]
            /\ b - Len(s) \in DOMAIN t /\ r[b] = t[b - Len(s)]
            /\ a - Len(s) < b - Len(s)
        BY <1>3, <1>6, <2>0, <2>2
      <3> QED BY <1>6, <3>1 DEF Ascending
    <2>3. CASE a =< Len(s) /\ b > Len(s)
      <3>1. /\ a \in DOMAIN s /\ r[a] = s[a]
            /\ b - Len(s) \in DOMAIN t /\ r[b] = t[b - Len(s)]
        BY <1>3, <2>0, <2>3
      <3> QED BY <1>6, <3>1 DEF Precede, ToSet
    <2> QED BY <2>0, <2>1, <2>2, <2>3
  <1>7. (Ascending(s) /\ Ascending(t) /\ Precede(ToSet(s), ToSet(t))) => Ascending(r)
    BY <1>6 DEF Ascending
  <1> QED BY <1>1, <1>5, <1>7 DEF r

LEMMA AscendingAppend ==
    ASSUME NEW S \in SUBSET Int, NEW s \in Seq(S), NEW x \in S
    PROVE  /\ Append(s, x) \in Seq(S)
           /\ Len(Append(s, x)) = Len(s) + 1
           /\ ToSet(Append(s, x)) = ToSet(s) \cup {x}
           /\ (Ascending(s) /\ Precede(ToSet(s), {x})) => Ascending(Append(s, x))
  <1> DEFINE r == Append(s, x)
  <1>1. /\ r \in Seq(S)
        /\ Len(r) = Len(s) + 1
        /\ \A k \in 1..Len(s) : r[k] = s[k]
        /\ r[Len(s) + 1] = x
        /\ Len(s) \in Nat
        /\ DOMAIN s = 1..Len(s)
    BY AppendProperties, LenProperties
  <1>2. ToSet(r) = ToSet(s) \cup {x}
    BY ElementsOfAppend
  <1> HIDE DEF r
  <1>3. DOMAIN r = 1..(Len(s) + 1)
    BY <1>1, LenProperties
  <1>4. ASSUME Ascending(s), Precede(ToSet(s), {x}), NEW a \in DOMAIN r, NEW b \in DOMAIN r, a < b
        PROVE  r[a] < r[b]
    <2>1. a \in DOMAIN s /\ r[a] = s[a]
      BY <1>1, <1>3, <1>4
    <2>2. CASE b = Len(s) + 1
      BY <1>1, <1>4, <2>1, <2>2 DEF Precede, ToSet
    <2>3. CASE b # Len(s) + 1
      <3>1. b \in DOMAIN s /\ r[b] = s[b]
        BY <1>1, <1>3, <2>3
      <3> QED BY <1>4, <2>1, <3>1 DEF Ascending
    <2> QED BY <2>2, <2>3
  <1>5. (Ascending(s) /\ Precede(ToSet(s), {x})) => Ascending(r)
    BY <1>4 DEF Ascending
  <1> QED BY <1>1, <1>2, <1>5 DEF r

LEMMA AscendingCut ==
    ASSUME NEW S \in SUBSET Int, NEW s \in Seq(S), NEW n \in 0..Len(s)
    PROVE  /\ SubSeq(s, 1, n) \in Seq(S)
           /\ Len(SubSeq(s, 1, n)) = n
           /\ SubSeq(s, n + 1, Len(s)) \in Seq(S)
           /\ ToSet(SubSeq(s, 1, n)) \cup ToSet(SubSeq(s, n + 1, Len(s))) = ToSet(s)
           /\ Ascending(s) =>
                  /\ Ascending(SubSeq(s, 1, n))
                  /\ Ascending(SubSeq(s, n + 1, Len(s)))
                  /\ Precede(ToSet(SubSeq(s, 1, n)), ToSet(SubSeq(s, n + 1, Len(s))))
  <1> DEFINE a == SubSeq(s, 1, n)
             b == SubSeq(s, n + 1, Len(s))
  <1>1. Len(s) \in Nat /\ DOMAIN s = 1..Len(s) /\ n \in Nat /\ n =< Len(s)
    BY LenProperties
  <1>2. a \in Seq(S) /\ Len(a) = n /\ DOMAIN a = 1..n /\ \A k \in 1..n : a[k] = s[k]
    <2>1. /\ a \in Seq(S)
          /\ Len(a) = IF 1 =< n THEN n - 1 + 1 ELSE 0
          /\ \A k \in 1..(n - 1 + 1) : a[k] = s[1 + k - 1]
      BY <1>1, SubSeqProperties
    <2> HIDE DEF a
    <2>2. Len(a) = n /\ \A k \in 1..n : a[k] = s[k]
      BY <1>1, <2>1
    <2> QED BY <2>1, <2>2, LenProperties
  <1>3. /\ b \in Seq(S) /\ DOMAIN b = 1..(Len(s) - n)
        /\ \A k \in 1..(Len(s) - n) : b[k] = s[n + k]
    <2>1. /\ b \in Seq(S)
          /\ Len(b) = IF n + 1 =< Len(s) THEN Len(s) - (n + 1) + 1 ELSE 0
          /\ \A k \in 1..(Len(s) - (n + 1) + 1) : b[k] = s[(n + 1) + k - 1]
      BY <1>1, SubSeqProperties
    <2> HIDE DEF b
    <2>2. /\ Len(s) - (n + 1) + 1 = Len(s) - n
          /\ ~(n + 1 =< Len(s)) => Len(s) - n = 0
          /\ \A k \in 1..(Len(s) - n) : (n + 1) + k - 1 = n + k
      <3>1. \A l, m \in Nat : m =< l =>
                /\ l - (m + 1) + 1 = l - m
                /\ ~(m + 1 =< l) => l - m = 0
                /\ \A k \in 1..(l - m) : (m + 1) + k - 1 = m + k
        OBVIOUS
      <3> QED BY <1>1, <3>1, Zenon
    <2>3. Len(b) = Len(s) - n
      BY <2>1, <2>2
    <2>4. \A k \in 1..(Len(s) - n) : b[k] = s[n + k]
      BY <2>1, <2>2
    <2> QED BY <2>1, <2>3, <2>4, LenProperties
  <1> HIDE DEF a, b
  <1>4. /\ \A k \in DOMAIN a : k \in DOMAIN s /\ k =< n /\ a[k] = s[k]
        /\ \A k \in DOMAIN b : n + k \in DOMAIN s /\ n + k > n /\ b[k] = s[n + k]
        /\ \A k \in DOMAIN s : k \in DOMAIN a \/ (k - n \in DOMAIN b /\ n + (k - n) = k)
    BY <1>1, <1>2, <1>3
  <1>5. ToSet(a) \cup ToSet(b) = ToSet(s)
    <2>1. ASSUME NEW x \in ToSet(a) \cup ToSet(b)
          PROVE  x \in ToSet(s)
      BY <1>4 DEF ToSet
    <2>2. ASSUME NEW x \in ToSet(s)
          PROVE  x \in ToSet(a) \cup ToSet(b)
      <3>1. PICK k \in DOMAIN s : s[k] = x
        BY DEF ToSet
      <3>2. CASE k \in DOMAIN a
        BY <1>4, <3>1, <3>2 DEF ToSet
      <3>3. CASE k - n \in DOMAIN b /\ n + (k - n) = k
        BY <1>4, <3>1, <3>3 DEF ToSet
      <3> QED BY <1>4, <3>2, <3>3
    <2> QED BY <2>1, <2>2
  <1>6. ASSUME Ascending(s)
        PROVE  Ascending(a) /\ Ascending(b) /\ Precede(ToSet(a), ToSet(b))
    <2>1. Ascending(a)
      BY <1>4, <1>6 DEF Ascending
    <2>2. Ascending(b)
      <3> SUFFICES ASSUME NEW j \in DOMAIN b, NEW k \in DOMAIN b, j < k
                   PROVE  b[j] < b[k]
        BY DEF Ascending
      <3>1. n + j < n + k
        BY <1>1, <1>3
      <3> QED BY <1>4, <1>6, <3>1 DEF Ascending
    <2>3. Precede(ToSet(a), ToSet(b))
      <3> SUFFICES ASSUME NEW j \in DOMAIN a, NEW k \in DOMAIN b
                   PROVE  a[j] < b[k]
        BY DEF Precede, ToSet
      <3>1. j < n + k
        BY <1>1, <1>2, <1>3
      <3> QED BY <1>4, <1>6, <3>1 DEF Ascending
    <2> QED BY <2>1, <2>2, <2>3
  <1> QED BY <1>2, <1>3, <1>5, <1>6 DEF a, b

LEMMA AscendingTail ==
    ASSUME NEW S \in SUBSET Int, NEW s \in Seq(S), s # <<>>
    PROVE  /\ Head(s) \in S
           /\ Tail(s) \in Seq(S)
           /\ Len(Tail(s)) =< Len(s)
           /\ ToSet(s) = {Head(s)} \cup ToSet(Tail(s))
           /\ Ascending(s) => Ascending(Tail(s)) /\ Precede({Head(s)}, ToSet(Tail(s)))
  <1>1. /\ Head(s) = s[1]
        /\ Tail(s) \in Seq(S)
        /\ Len(Tail(s)) = Len(s) - 1
        /\ \A k \in 1..Len(Tail(s)) : Tail(s)[k] = s[k + 1]
        /\ Len(s) \in Nat \ {0}
        /\ DOMAIN s = 1..Len(s)
    BY HeadTailProperties, LenProperties, EmptySeq
  <1>2. DOMAIN Tail(s) = 1..(Len(s) - 1)
    BY <1>1, LenProperties
  <1>3. /\ 1 \in DOMAIN s
        /\ \A k \in DOMAIN Tail(s) : k + 1 \in DOMAIN s /\ 1 < k + 1 /\ Tail(s)[k] = s[k + 1]
        /\ \A j, k \in DOMAIN Tail(s) : j < k => j + 1 < k + 1
    BY <1>1, <1>2
  <1>4. ASSUME Ascending(s)
        PROVE  Ascending(Tail(s)) /\ Precede({Head(s)}, ToSet(Tail(s)))
    <2>1. Ascending(Tail(s))
      BY <1>3, <1>4 DEF Ascending
    <2>2. Precede({Head(s)}, ToSet(Tail(s)))
      BY <1>1, <1>3, <1>4 DEF Ascending, Precede, ToSet
    <2> QED BY <2>1, <2>2
  <1>5. Len(Tail(s)) =< Len(s)
    BY <1>1
  <1> QED BY <1>1, <1>4, <1>5, ElementsOfTail

LEMMA AscendingEmpty ==
    ASSUME NEW S
    PROVE  <<>> \in Seq(S) /\ Len(<<>>) = 0 /\ ToSet(<<>>) = {} /\ Ascending(<<>>)
  BY EmptySeq DEF ToSet, Ascending
-----------------------------------------------------------------------------
(* The entries: that each is in one place.                                   *)
Partition(a, b, c, d, e, X) ==
    /\ a \cup b \cup c \cup d \cup e = X
    /\ a \cap b = {} /\ a \cap c = {} /\ a \cap d = {} /\ a \cap e = {}
    /\ b \cap c = {} /\ b \cap d = {} /\ b \cap e = {}
    /\ c \cap d = {} /\ c \cap e = {}
    /\ d \cap e = {}

LEMMA PartitionMeans ==
    ASSUME NEW a, NEW b, NEW c, NEW d, NEW e, NEW X
    PROVE  (LET places == <<a, b, c, d, e>>
            IN  /\ UNION {places[x] : x \in 1..5} = X
                /\ \A x, y \in 1..5 : x # y => places[x] \cap places[y] = {})
           <=> Partition(a, b, c, d, e, X)
  <1> DEFINE places == <<a, b, c, d, e>>
  <1>1. /\ places[1] = a /\ places[2] = b /\ places[3] = c
        /\ places[4] = d /\ places[5] = e
    OBVIOUS
  <1>2. 1..5 = {1, 2, 3, 4, 5}
    OBVIOUS
  <1> HIDE DEF places
  <1>3. UNION {places[x] : x \in 1..5} = a \cup b \cup c \cup d \cup e
    BY <1>1, <1>2
  <1>4. (\A x, y \in 1..5 : x # y => places[x] \cap places[y] = {})
        <=> /\ a \cap b = {} /\ a \cap c = {} /\ a \cap d = {} /\ a \cap e = {}
            /\ b \cap c = {} /\ b \cap d = {} /\ b \cap e = {}
            /\ c \cap d = {} /\ c \cap e = {}
            /\ d \cap e = {}
    <2>1. ASSUME \A x, y \in 1..5 : x # y => places[x] \cap places[y] = {}
          PROVE  /\ a \cap b = {} /\ a \cap c = {} /\ a \cap d = {} /\ a \cap e = {}
                 /\ b \cap c = {} /\ b \cap d = {} /\ b \cap e = {}
                 /\ c \cap d = {} /\ c \cap e = {}
                 /\ d \cap e = {}
      BY <1>1, <2>1
    <2>2. ASSUME /\ a \cap b = {} /\ a \cap c = {} /\ a \cap d = {} /\ a \cap e = {}
                 /\ b \cap c = {} /\ b \cap d = {} /\ b \cap e = {}
                 /\ c \cap d = {} /\ c \cap e = {}
                 /\ d \cap e = {},
                 NEW x \in 1..5, NEW y \in 1..5, x # y
          PROVE  places[x] \cap places[y] = {}
      <3>1. CASE x = 1
        BY <1>1, <1>2, <2>2, <3>1
      <3>2. CASE x = 2
        BY <1>1, <1>2, <2>2, <3>2
      <3>3. CASE x = 3
        BY <1>1, <1>2, <2>2, <3>3
      <3>4. CASE x = 4
        BY <1>1, <1>2, <2>2, <3>4
      <3>5. CASE x = 5
        BY <1>1, <1>2, <2>2, <3>5
      <3> QED BY <1>2, <3>1, <3>2, <3>3, <3>4, <3>5
    <2> QED BY <2>1, <2>2
  <1> QED BY <1>3, <1>4 DEF Partition, places

Lost == Partition(filtered, queueLost, bufferLost, removed, Pipeline, Entries)

LEMMA LostMeans ==
    NothingElseLost <=> Lost
  BY PartitionMeans DEF NothingElseLost, Lost

LEMMA LostMeansNext ==
    NothingElseLost' <=> Lost'
  BY PartitionMeans DEF NothingElseLost, Lost
-----------------------------------------------------------------------------
(* What the entries are, from Data.                                          *)
LEMMA DataFacts ==
    ASSUME Data
    PROVE  /\ Entries \in SUBSET Int
           /\ logged \in Nat
           /\ DataTyped /\ Sizes /\ EntriesInOrder /\ Lost
           /\ IsFiniteSet(Numbers) /\ Numbers \subseteq Nat
           /\ Filed \subseteq Entries /\ ToSet(buffer) \subseteq Entries
           /\ ToSet(m_lstLogEntitys) \subseteq Entries
           /\ ToSet(m_lstLogEntitysTmp) \subseteq Entries
  <1>1. DataTyped /\ Sizes /\ EntriesInOrder /\ Lost /\ IsFiniteSet(Numbers)
    BY LostMeans DEF Data
  <1>2. logged \in Nat /\ Numbers \subseteq Nat
    <2>1. \A x \in 0..MaxEntries : x \in Nat
      OBVIOUS
    <2> QED BY <1>1, <2>1 DEF DataTyped
  <1>3. /\ ToSet(buffer) \subseteq Entries
        /\ ToSet(m_lstLogEntitys) \subseteq Entries
        /\ ToSet(m_lstLogEntitysTmp) \subseteq Entries
        /\ \A k \in Numbers : ToSet(file[k]) \subseteq Entries
    BY <1>1, ElementsOfList DEF DataTyped
  <1>4. Filed \subseteq Entries
    BY <1>3 DEF Filed, Numbers
  <1> QED BY <1>1, <1>2, <1>3, <1>4 DEF Entries

LEMMA DataKept ==
    ASSUME Data, UNCHANGED <<file, buffer, queues, logged, fates, removed>>
    PROVE  Data'
  <1>1. DataTyped'
    BY DEF Data, DataTyped, Numbers, Entries, queues, fates
  <1>2. IsFiniteSet(Numbers)' /\ Sizes'
    BY DEF Data, Sizes, SizeBounded, SizeOnDisk, Numbers
  <1>3. EntriesInOrder'
    BY DEF Data, EntriesInOrder, Filed, queues
  <1>4. Lost'
    <2>1. Pipeline' = Pipeline /\ Entries' = Entries
      BY DEF Pipeline, Filed, Entries, queues
    <2> QED BY <2>1, DataFacts DEF Lost, fates
  <1> QED BY <1>1, <1>2, <1>3, <1>4, LostMeansNext DEF Data

(* Log: the new entry is greater than all others.                            *)
LEMMA DataOfLog ==
    ASSUME Data, Log
    PROVE  Data'
  <1> DEFINE t == m_lstLogEntitysTmp
             x == logged + 1
  <1>1. /\ logged < MaxEntries
        /\ logged' = x
        /\ m_lstLogEntitysTmp' = Append(t, x)
        /\ UNCHANGED <<file, buffer, m_lstLogEntitys, fates, removed>>
    BY DEF Log, rolls
  <1>2. /\ logged \in Nat /\ x \in Int /\ Entries' = 1..x /\ Entries' \in SUBSET Int
        /\ Entries \subseteq Entries' /\ x \in Entries' /\ x \notin Entries
        /\ Entries' = Entries \cup {x}
        /\ \A e \in Entries : e < x
        /\ Data /\ DataTyped /\ Sizes /\ EntriesInOrder /\ Lost
        /\ x \in 0..MaxEntries
    <2>1. logged \in Nat /\ Data /\ DataTyped /\ Sizes /\ EntriesInOrder /\ Lost
      BY DataFacts
    <2>2. Entries = 1..logged /\ Entries' = 1..x
      BY <1>1 DEF Entries
    <2>3. MaxEntries \in Nat
      BY LogRollingAssumption
    <2>4. x \in 0..MaxEntries /\ x \in Int
      BY <1>1, <2>1, <2>3
    <2>5. /\ 1..x \in SUBSET Int /\ 1..logged \subseteq 1..x
          /\ x \in 1..x /\ x \notin 1..logged
          /\ 1..x = (1..logged) \cup {x}
          /\ \A e \in 1..logged : e < x
      BY <2>1
    <2> QED BY <2>1, <2>2, <2>4, <2>5
  <1> HIDE DEF x
  <1>3. /\ \A s \in Seq(Entries) : s \in Seq(Entries')
        /\ t \in Seq(Entries')
    <2>1. \A s \in Seq(Entries) : s \in Seq(Entries')
      BY <1>2
    <2> QED BY <1>2, <2>1 DEF DataTyped
  <1>4. /\ Append(t, x) \in Seq(Entries')
        /\ ToSet(Append(t, x)) = ToSet(t) \cup {x}
        /\ Ascending(t) /\ Precede(ToSet(t), {x}) => Ascending(Append(t, x))
    <2>1. Entries' \in SUBSET Int /\ t \in Seq(Entries') /\ x \in Entries'
      BY <1>2, <1>3
    <2> QED BY <2>1, AscendingAppend
  <1>5. DataTyped'
    <2>1. /\ \A k \in Numbers' : file'[k] \in Seq(Entries')
          /\ buffer' \in Seq(Entries')
          /\ m_lstLogEntitysTmp' \in Seq(Entries')
          /\ m_lstLogEntitys' \in Seq(Entries')
      BY <1>1, <1>2, <1>3, <1>4 DEF DataTyped, Numbers
    <2>2. /\ Numbers' \subseteq Nat
          /\ Len(m_lstLogEntitys') <= MaxMove
          /\ logged' \in 0..MaxEntries
          /\ (filtered \cup queueLost \cup bufferLost \cup removed)' \subseteq Entries'
      BY <1>1, <1>2 DEF DataTyped, Numbers, fates
    <2> QED BY <2>1, <2>2 DEF DataTyped
  <1>6. IsFiniteSet(Numbers)' /\ Sizes'
    BY <1>1, <1>2 DEF Data, Sizes, SizeBounded, SizeOnDisk, Numbers
  <1>7. ToSet(m_lstLogEntitysTmp)' = ToSet(t) \cup {x}
    BY <1>1, <1>4 DEF ToSet
  <1>8. EntriesInOrder'
    <2>1. \A S \in SUBSET Entries : Precede(S, {x})
      BY <1>2 DEF Precede
    <2>2. Filed' = Filed /\ ToSet(buffer)' = ToSet(buffer)
          /\ ToSet(m_lstLogEntitys)' = ToSet(m_lstLogEntitys)
      BY <1>1 DEF Filed, ToSet
    <2>3. /\ Precede(Filed, {x}) /\ Precede(ToSet(buffer), {x})
          /\ Precede(ToSet(m_lstLogEntitys), {x}) /\ Precede(ToSet(t), {x})
      BY <2>1, DataFacts
    <2>4. \A k \in DOMAIN file' :
            /\ Ascending(file'[k])
            /\ \A j \in DOMAIN file' : k < j => Precede(ToSet(file'[j]), ToSet(file'[k]))
      BY <1>1, <1>2 DEF EntriesInOrder
    <2>5. Ascending(buffer') /\ Ascending(m_lstLogEntitys') /\ Ascending(m_lstLogEntitysTmp')
      BY <1>1, <1>2, <1>4, <2>3 DEF EntriesInOrder
    <2>6. /\ Precede(Filed', ToSet(buffer)' \cup ToSet(m_lstLogEntitys)'
                                 \cup ToSet(m_lstLogEntitysTmp)')
          /\ Precede(ToSet(buffer)', ToSet(m_lstLogEntitys)' \cup ToSet(m_lstLogEntitysTmp)')
          /\ Precede(ToSet(m_lstLogEntitys)', ToSet(m_lstLogEntitysTmp)')
      BY <1>2, <1>7, <2>2, <2>3 DEF EntriesInOrder, Precede
    <2> QED BY <2>4, <2>5, <2>6 DEF EntriesInOrder
  <1>9. Lost'
    <2>1. Pipeline' = Pipeline \cup {x}
      BY <1>1, <1>7 DEF Pipeline, Filed, ToSet
    <2>2. /\ x \notin filtered /\ x \notin queueLost /\ x \notin bufferLost /\ x \notin removed
      BY <1>2 DEF DataTyped
    <2> QED BY <1>1, <1>2, <2>1, <2>2 DEF Lost, Partition, fates
  <1> QED BY <1>5, <1>6, <1>8, <1>9, LostMeansNext DEF Data

(* BeginPass: the first entries of the one queue become the other.           *)
LEMMA DataOfBeginPass ==
    ASSUME Data, m_lstLogEntitys = <<>>, BeginPass
    PROVE  Data' /\ (m_lstLogEntitysTmp # <<>> => m_lstLogEntitys' # <<>>)
  <1> DEFINE t == m_lstLogEntitysTmp
             n == Taken
  <1>1. /\ m_lstLogEntitys' = SubSeq(t, 1, n)
        /\ m_lstLogEntitysTmp' = SubSeq(t, n + 1, Len(t))
        /\ UNCHANGED <<file, buffer, logged, fates, removed>>
    BY DEF BeginPass, LeftBehind, rolls
  <1>2. /\ Entries \in SUBSET Int
        /\ DataTyped /\ Sizes /\ EntriesInOrder /\ Lost
        /\ t \in Seq(Entries) /\ Len(t) \in Nat
    BY DataFacts, LenProperties DEF DataTyped
  <1>3. n \in 0..Len(t) /\ n <= MaxMove /\ (Len(t) > 0 => n > 0)
    <2>1. MaxMove \in Nat /\ MaxMove # 0
      BY LogRollingAssumption
    <2>2. CASE Len(t) < MaxMove
      BY <1>2, <2>1, <2>2 DEF Taken
    <2>3. CASE ~(Len(t) < MaxMove)
      BY <1>2, <2>1, <2>3 DEF Taken
    <2> QED BY <2>2, <2>3
  <1> HIDE DEF n
  <1>4. /\ SubSeq(t, 1, n) \in Seq(Entries)
        /\ Len(SubSeq(t, 1, n)) = n
        /\ SubSeq(t, n + 1, Len(t)) \in Seq(Entries)
        /\ ToSet(SubSeq(t, 1, n)) \cup ToSet(SubSeq(t, n + 1, Len(t))) = ToSet(t)
        /\ Ascending(t) =>
               /\ Ascending(SubSeq(t, 1, n))
               /\ Ascending(SubSeq(t, n + 1, Len(t)))
               /\ Precede(ToSet(SubSeq(t, 1, n)), ToSet(SubSeq(t, n + 1, Len(t))))
    BY <1>2, <1>3, AscendingCut
  <1>5. DataTyped'
    <2>1. m_lstLogEntitys' \in Seq(Entries)' /\ m_lstLogEntitysTmp' \in Seq(Entries)'
          /\ Len(m_lstLogEntitys') <= MaxMove
      BY <1>1, <1>3, <1>4 DEF Entries
    <2> QED BY <1>1, <1>2, <2>1 DEF DataTyped, Numbers, Entries, fates
  <1>6. IsFiniteSet(Numbers)' /\ Sizes'
    BY <1>1 DEF Data, Sizes, SizeBounded, SizeOnDisk, Numbers
  <1>7. /\ ToSet(m_lstLogEntitys)' \cup ToSet(m_lstLogEntitysTmp)' = ToSet(t)
        /\ ToSet(m_lstLogEntitys) = {}
        /\ Filed' = Filed /\ ToSet(buffer)' = ToSet(buffer)
        /\ Precede(ToSet(m_lstLogEntitys)', ToSet(m_lstLogEntitysTmp)')
    <2>1. Ascending(t)
      BY <1>2 DEF EntriesInOrder
    <2>2. /\ ToSet(m_lstLogEntitys)' = ToSet(SubSeq(t, 1, n))
          /\ ToSet(m_lstLogEntitysTmp)' = ToSet(SubSeq(t, n + 1, Len(t)))
      BY <1>1 DEF ToSet
    <2>3. ToSet(m_lstLogEntitys) = {}
      BY AscendingEmpty
    <2>4. Filed' = Filed /\ ToSet(buffer)' = ToSet(buffer)
      BY <1>1 DEF Filed, ToSet
    <2> QED BY <1>4, <2>1, <2>2, <2>3, <2>4
  <1>8. EntriesInOrder'
    <2>1. \A k \in DOMAIN file' :
            /\ Ascending(file'[k])
            /\ \A j \in DOMAIN file' : k < j => Precede(ToSet(file'[j]), ToSet(file'[k]))
      BY <1>1, <1>2 DEF EntriesInOrder
    <2>2. Ascending(buffer') /\ Ascending(m_lstLogEntitys') /\ Ascending(m_lstLogEntitysTmp')
      BY <1>1, <1>2, <1>4 DEF EntriesInOrder
    <2>3. /\ Precede(Filed', ToSet(buffer)' \cup ToSet(m_lstLogEntitys)'
                                 \cup ToSet(m_lstLogEntitysTmp)')
          /\ Precede(ToSet(buffer)', ToSet(m_lstLogEntitys)' \cup ToSet(m_lstLogEntitysTmp)')
      BY <1>2, <1>7 DEF EntriesInOrder, Precede
    <2> QED BY <1>7, <2>1, <2>2, <2>3 DEF EntriesInOrder
  <1>9. Lost'
    <2>1. Pipeline' = Pipeline /\ Entries' = Entries
      BY <1>1, <1>7 DEF Pipeline, Entries
    <2> QED BY <1>1, <1>2, <2>1 DEF Lost, fates
  <1>10. t # <<>> => m_lstLogEntitys' # <<>>
    <2>1. t # <<>> => Len(t) > 0
      BY <1>2, EmptySeq
    <2>2. Len(t) > 0 => Len(m_lstLogEntitys') # 0
      BY <1>1, <1>3, <1>4
    <2> QED BY <2>1, <2>2, AscendingEmpty
  <1> QED BY <1>5, <1>6, <1>8, <1>9, <1>10, LostMeansNext DEF Data
-----------------------------------------------------------------------------
(* Put: the first entry of the queue goes to the buffer or is filtered.      *)
LEMMA PrecedeMeans ==
    ASSUME NEW S \in SUBSET Int, NEW T \in SUBSET Int, Precede(S, T)
    PROVE  S \cap T = {}
  <1>1. \A x \in Int : ~(x < x)
    OBVIOUS
  <1> QED BY <1>1 DEF Precede

LEMMA SizesAreNat ==
    /\ \A c \in Configs : FileSize(c) \in Nat
    /\ MaxMove \in Nat \ {0}
  <1>1. ASSUME NEW c \in Configs
        PROVE  FileSize(c) \in Nat
    <2>1. c.size \in Nat /\ MB \in Nat
      BY LogRollingAssumption
    <2>2. c.size \div 100 \in Nat
      BY <2>1, DivBounds
    <2>3. \A x, y \in Nat : x * y \in Nat
      OBVIOUS
    <2> QED BY <2>1, <2>2, <2>3 DEF FileSize
  <1> QED BY <1>1, LogRollingAssumption

LEMMA SmallerIsBounded ==
    ASSUME NEW m \in Int, NEW n \in Int, m =< n, SizeBounded(n)
    PROVE  SizeBounded(m)
  BY SizesAreNat DEF SizeBounded

LEMMA SizeOnDiskIsNat ==
    ASSUME Data
    PROVE  SizeOnDisk \in Nat /\ Len(buffer) \in Nat
  <1>1. buffer \in Seq(Entries) /\ \A k \in Numbers : file[k] \in Seq(Entries)
    BY DataFacts DEF DataTyped
  <1>2. Len(buffer) \in Nat /\ (0 \in Numbers => Len(file[0]) \in Nat)
    BY <1>1, LenProperties
  <1> QED BY <1>2 DEF SizeOnDisk, Numbers

LEMMA DataOfPut ==
    ASSUME Data, StateTyped, Places, Counted, Put
    PROVE  Data'
  <1> DEFINE h == Head(m_lstLogEntitys)
             t == Tail(m_lstLogEntitys)
  <1>1. /\ pc = "put"
        /\ \/ /\ buffer' = Append(buffer, h)
              /\ UNCHANGED filtered
           \/ /\ filtered' = filtered \cup {h}
              /\ UNCHANGED buffer
        /\ m_lstLogEntitys' = t
        /\ UNCHANGED <<file, m_lstLogEntitysTmp, logged, queueLost, bufferLost, removed>>
    BY DEF Put, Rest, rolls
  <1>2. /\ Entries \in SUBSET Int
        /\ DataTyped /\ Sizes /\ EntriesInOrder /\ Lost /\ IsFiniteSet(Numbers)
        /\ Filed \subseteq Entries /\ ToSet(buffer) \subseteq Entries
        /\ ToSet(m_lstLogEntitysTmp) \subseteq Entries
        /\ m_lstLogEntitys \in Seq(Entries) /\ m_lstLogEntitys # <<>>
        /\ buffer \in Seq(Entries)
    BY <1>1, DataFacts DEF DataTyped, Places
  <1>3. /\ h \in Entries
        /\ t \in Seq(Entries)
        /\ Len(t) =< Len(m_lstLogEntitys)
        /\ ToSet(m_lstLogEntitys) = {h} \cup ToSet(t)
        /\ Ascending(t) /\ Precede({h}, ToSet(t))
    BY <1>2, AscendingTail DEF EntriesInOrder
  <1>4. Len(t) <= MaxMove
    <2>1. Len(t) \in Nat /\ Len(m_lstLogEntitys) \in Nat /\ Len(m_lstLogEntitys) <= MaxMove
      BY <1>2, <1>3, LenProperties DEF DataTyped
    <2> QED BY <1>3, <2>1, SizesAreNat
  <1>5. Entries' = Entries /\ Filed' = Filed /\ Numbers' = Numbers
    BY <1>1 DEF Entries, Filed, Numbers
  <1>6. ToSet(m_lstLogEntitys)' = ToSet(t) /\ ToSet(m_lstLogEntitysTmp)' = ToSet(m_lstLogEntitysTmp)
    BY <1>1 DEF ToSet
  <1> HIDE DEF h, t
  <1>7. \A k \in DOMAIN file' :
            /\ Ascending(file'[k])
            /\ \A j \in DOMAIN file' : k < j => Precede(ToSet(file'[j]), ToSet(file'[k]))
    BY <1>1, <1>2 DEF EntriesInOrder
  <1>8. /\ Precede(Filed, ToSet(buffer) \cup {h} \cup ToSet(t) \cup ToSet(m_lstLogEntitysTmp))
        /\ Precede(ToSet(buffer), {h} \cup ToSet(t) \cup ToSet(m_lstLogEntitysTmp))
        /\ Precede({h} \cup ToSet(t), ToSet(m_lstLogEntitysTmp))
        /\ Ascending(m_lstLogEntitysTmp) /\ Ascending(buffer)
    BY <1>2, <1>3 DEF EntriesInOrder, Precede
  <1>9. ToSet(t) \subseteq Entries /\ {h} \in SUBSET Int
    <2>1. ToSet(t) \subseteq Entries
      BY <1>3, ElementsOfList
    <2>2. h \in Int
      BY <1>2, <1>3
    <2> QED BY <2>1, <2>2
  <1>a. CASE buffer' = Append(buffer, h) /\ UNCHANGED filtered
    <2>1. /\ Append(buffer, h) \in Seq(Entries)
          /\ Len(Append(buffer, h)) = Len(buffer) + 1
          /\ ToSet(Append(buffer, h)) = ToSet(buffer) \cup {h}
          /\ (Ascending(buffer) /\ Precede(ToSet(buffer), {h})) => Ascending(Append(buffer, h))
      BY <1>2, <1>3, AscendingAppend
    <2>2. Precede(ToSet(buffer), {h})
      BY <1>8 DEF Precede
    <2>3. ToSet(buffer)' = ToSet(buffer) \cup {h}
      BY <1>a, <2>1 DEF ToSet
    <2>4. DataTyped'
      BY <1>1, <1>2, <1>3, <1>4, <1>5, <1>a, <2>1 DEF DataTyped
    <2>5. EntriesInOrder'
      <3>1. Precede(Filed', ToSet(buffer)' \cup ToSet(m_lstLogEntitys)'
                                \cup ToSet(m_lstLogEntitysTmp)')
        BY <1>5, <1>6, <1>8, <2>3 DEF Precede
      <3>2. Precede(ToSet(buffer)', ToSet(m_lstLogEntitys)' \cup ToSet(m_lstLogEntitysTmp)')
        BY <1>3, <1>6, <1>8, <2>3 DEF Precede
      <3>3. Precede(ToSet(m_lstLogEntitys)', ToSet(m_lstLogEntitysTmp)')
        BY <1>6, <1>8 DEF Precede
      <3>4. Ascending(buffer') /\ Ascending(m_lstLogEntitys') /\ Ascending(m_lstLogEntitysTmp')
        BY <1>1, <1>3, <1>8, <1>a, <2>1, <2>2
      <3> QED BY <1>7, <3>1, <3>2, <3>3, <3>4 DEF EntriesInOrder
    <2>6. Lost'
      <3>1. Pipeline' = Pipeline
        BY <1>3, <1>5, <1>6, <2>3 DEF Pipeline
      <3> QED BY <1>1, <1>2, <1>5, <1>a, <3>1 DEF Lost
    <2>7. Sizes'
      <3>1. SizeOnDisk \in Nat /\ Len(buffer) \in Nat
        BY SizeOnDiskIsNat
      <3>2. nWritedSize = SizeOnDisk + Len(buffer)
        BY <1>1 DEF Counted
      <3>3. nWritedSize = 0 \/ \E c \in Configs : nWritedSize < FileSize(c)
        BY <1>1 DEF Counted, Places
      <3>4. SizeBounded(SizeOnDisk + Len(buffer) + 1)
        BY <3>1, <3>2, <3>3, SizesAreNat DEF SizeBounded
      <3>5. SizeOnDisk' = SizeOnDisk /\ Len(buffer') = Len(buffer) + 1
        BY <1>1, <1>a, <2>1 DEF SizeOnDisk
      <3>6. SizeOnDisk' + Len(buffer') = SizeOnDisk + Len(buffer) + 1
        BY <3>1, <3>5
      <3> QED BY <1>1, <1>2, <1>5, <3>4, <3>6 DEF Sizes, SizeBounded
    <2> QED BY <1>2, <1>5, <2>4, <2>5, <2>6, <2>7, LostMeansNext DEF Data
  <1>b. CASE filtered' = filtered \cup {h} /\ UNCHANGED buffer
    <2>1. ToSet(buffer)' = ToSet(buffer)
      BY <1>b DEF ToSet
    <2>2. DataTyped'
      BY <1>1, <1>2, <1>3, <1>4, <1>5, <1>b DEF DataTyped
    <2>3. EntriesInOrder'
      <3>1. /\ Precede(Filed', ToSet(buffer)' \cup ToSet(m_lstLogEntitys)'
                                 \cup ToSet(m_lstLogEntitysTmp)')
            /\ Precede(ToSet(buffer)', ToSet(m_lstLogEntitys)' \cup ToSet(m_lstLogEntitysTmp)')
            /\ Precede(ToSet(m_lstLogEntitys)', ToSet(m_lstLogEntitysTmp)')
        BY <1>5, <1>6, <1>8, <2>1 DEF Precede
      <3>2. Ascending(buffer') /\ Ascending(m_lstLogEntitys') /\ Ascending(m_lstLogEntitysTmp')
        BY <1>1, <1>3, <1>8, <1>b
      <3> QED BY <1>7, <3>1, <3>2 DEF EntriesInOrder
    <2>4. Lost'
      <3>1. Pipeline = Pipeline' \cup {h}
        BY <1>3, <1>5, <1>6, <2>1 DEF Pipeline
      <3>2. h \notin ToSet(t)
        BY <1>2, <1>3, <1>9, PrecedeMeans
      <3>3. h \notin Filed /\ h \notin ToSet(buffer)
        <4>1. Precede(Filed, {h}) /\ Precede(ToSet(buffer), {h})
          BY <1>8 DEF Precede
        <4> QED BY <1>2, <1>9, <4>1, PrecedeMeans
      <3>4. h \notin ToSet(m_lstLogEntitysTmp)
        <4>1. Precede({h}, ToSet(m_lstLogEntitysTmp))
          BY <1>8 DEF Precede
        <4> QED BY <1>2, <1>9, <4>1, PrecedeMeans
      <3>5. h \notin Pipeline'
        BY <1>5, <1>6, <2>1, <3>2, <3>3, <3>4 DEF Pipeline
      <3> QED BY <1>1, <1>2, <1>5, <1>b, <3>1, <3>5 DEF Lost, Partition
    <2>5. Sizes'
      BY <1>1, <1>2, <1>b DEF Sizes, SizeBounded, SizeOnDisk, Numbers
    <2> QED BY <1>2, <1>5, <2>2, <2>3, <2>4, <2>5, LostMeansNext DEF Data
  <1> QED BY <1>1, <1>a, <1>b
-----------------------------------------------------------------------------
(* The current file gets k entries of the buffer: at the begin of a roll, or *)
(* when the program ends.                                                    *)
Flushes(k) == file' = IF fp THEN [file EXCEPT ![0] = @ \o SubSeq(buffer, 1, k)] ELSE file
Flushed(k) == ToSet(SubSeq(buffer, 1, k))
Unflushed(k) == ToSet(SubSeq(buffer, k + 1, Len(buffer)))

LEMMA FlushedProperties ==
    ASSUME Data, NEW k \in 0..Len(buffer)
    PROVE  /\ SubSeq(buffer, 1, k) \in Seq(Entries)
           /\ Len(SubSeq(buffer, 1, k)) = k
           /\ Ascending(SubSeq(buffer, 1, k))
           /\ Flushed(k) \cup Unflushed(k) = ToSet(buffer)
           /\ Precede(Flushed(k), Unflushed(k))
           /\ Flushed(k) \subseteq Entries /\ Unflushed(k) \subseteq Entries
           /\ k = Len(buffer) => Flushed(k) = ToSet(buffer)
  <1>1. /\ Entries \in SUBSET Int /\ buffer \in Seq(Entries) /\ Ascending(buffer)
        /\ ToSet(buffer) \subseteq Entries
    BY DataFacts DEF DataTyped, EntriesInOrder
  <1>2. /\ SubSeq(buffer, 1, k) \in Seq(Entries)
        /\ Len(SubSeq(buffer, 1, k)) = k
        /\ Flushed(k) \cup Unflushed(k) = ToSet(buffer)
        /\ Ascending(SubSeq(buffer, 1, k))
        /\ Precede(Flushed(k), Unflushed(k))
    BY <1>1, AscendingCut DEF Flushed, Unflushed
  <1>3. k = Len(buffer) => Flushed(k) = ToSet(buffer)
    <2> SUFFICES ASSUME k = Len(buffer)
                 PROVE  Unflushed(k) = {}
      BY <1>2
    <2>1. Len(buffer) \in Nat
      BY <1>1, LenProperties
    <2>2. Len(SubSeq(buffer, k + 1, Len(buffer))) = 0
      BY <1>1, <2>1, SubSeqProperties
    <2>3. SubSeq(buffer, k + 1, Len(buffer)) \in Seq(Entries)
      BY <1>1, AscendingCut
    <2>4. SubSeq(buffer, k + 1, Len(buffer)) = <<>>
      BY <2>2, <2>3, EmptySeq
    <2> QED BY <2>4, AscendingEmpty DEF Unflushed
  <1> QED BY <1>1, <1>2, <1>3

(* The files afterwards.                                                     *)
LEMMA FilesAfterFlush ==
    ASSUME Data, StateTyped, NEW k \in 0..Len(buffer), Flushes(k)
    PROVE  /\ Numbers' = Numbers
           /\ \A j \in Numbers : j # 0 => file'[j] = file[j]
           /\ 0 \in Numbers =>
                  /\ file'[0] \in Seq(Entries)
                  /\ Len(file'[0]) = Len(file[0]) + k
                  /\ ToSet(file'[0]) = ToSet(file[0]) \cup Flushed(k)
                  /\ Ascending(file'[0])
           /\ 0 \notin Numbers => k = 0 /\ Flushed(k) = {}
  <1> DEFINE s == SubSeq(buffer, 1, k)
  <1>1. /\ Entries \in SUBSET Int /\ s \in Seq(Entries) /\ Len(s) = k /\ Ascending(s)
        /\ Flushed(k) = ToSet(s) /\ Flushed(k) \subseteq ToSet(buffer)
    BY DataFacts, FlushedProperties DEF Flushed
  <1>2. ~fp => k = 0 /\ Flushed(k) = {}
    <2>1. ~fp => buffer = <<>>
      BY DEF StateTyped
    <2>2. ~fp => Len(buffer) = 0 /\ ToSet(buffer) = {}
      BY <2>1, AscendingEmpty
    <2>3. k \in Nat /\ (Len(buffer) = 0 => k = 0)
      OBVIOUS
    <2> QED BY <1>1, <2>2, <2>3
  <1>3. fp => 0 \in Numbers
    BY DEF StateTyped
  <1>4. 0 \in Numbers =>
            /\ file[0] \in Seq(Entries) /\ Ascending(file[0]) /\ Len(file[0]) \in Nat
            /\ Precede(ToSet(file[0]), ToSet(s))
    <2>1. SUFFICES ASSUME 0 \in Numbers
                   PROVE  /\ file[0] \in Seq(Entries) /\ Ascending(file[0]) /\ Len(file[0]) \in Nat
                          /\ Precede(ToSet(file[0]), ToSet(s))
      OBVIOUS
    <2>2. file[0] \in Seq(Entries) /\ Ascending(file[0])
      BY <2>1, DataFacts DEF DataTyped, EntriesInOrder, Numbers
    <2>3. Precede(ToSet(file[0]), ToSet(buffer))
      BY <2>1, DataFacts DEF EntriesInOrder, Filed, Precede, Numbers
    <2>4. Precede(ToSet(file[0]), ToSet(s))
      BY <1>1, <2>3 DEF Precede
    <2> QED BY <2>2, <2>4, LenProperties
  <1> HIDE DEF s
  <1>5. CASE fp
    <2>1. /\ file[0] \o s \in Seq(Entries)
          /\ Len(file[0] \o s) = Len(file[0]) + Len(s)
          /\ ToSet(file[0] \o s) = ToSet(file[0]) \cup ToSet(s)
          /\ Ascending(file[0] \o s)
      BY <1>1, <1>3, <1>4, <1>5, AscendingConcat
    <2>2. file' = [file EXCEPT ![0] = file[0] \o s]
      BY <1>5 DEF Flushes, s
    <2>3. /\ Numbers' = Numbers /\ file'[0] = file[0] \o s
          /\ \A j \in Numbers : j # 0 => file'[j] = file[j]
      BY <1>3, <1>5, <2>2 DEF Numbers
    <2> QED BY <1>1, <1>3, <1>5, <2>1, <2>3
  <1>6. CASE ~fp
    <2>1. file' = file /\ Numbers' = Numbers
      BY <1>6 DEF Flushes, Numbers
    <2>2. k = 0 /\ Flushed(k) = {}
      BY <1>2, <1>6
    <2> QED BY <1>4, <2>1, <2>2
  <1> QED BY <1>5, <1>6

LEMMA FlushKeeps ==
    ASSUME Data, StateTyped, NEW k \in 0..Len(buffer), Flushes(k)
    PROVE  /\ Filed' = Filed \cup Flushed(k)
           /\ IsFiniteSet(Numbers)' /\ (Numbers \subseteq Nat)'
           /\ \A j \in Numbers' :
                  file'[j] \in Seq(Entries) /\ SizeBounded(Len(file'[j])) /\ Ascending(file'[j])
           /\ \A j, l \in Numbers' : j < l => Precede(ToSet(file'[l]), ToSet(file'[j]))
           /\ SizeOnDisk' = SizeOnDisk + k /\ SizeBounded(SizeOnDisk')
           /\ Precede(Filed', ToSet(m_lstLogEntitys) \cup ToSet(m_lstLogEntitysTmp))
           /\ Precede(Filed', Unflushed(k))
  <1> USE FilesAfterFlush
  <1>1. /\ DataTyped /\ Sizes /\ EntriesInOrder /\ IsFiniteSet(Numbers) /\ Numbers \subseteq Nat
        /\ Flushed(k) \subseteq ToSet(buffer) /\ Unflushed(k) \subseteq ToSet(buffer)
        /\ Precede(Flushed(k), Unflushed(k))
    BY DataFacts, FlushedProperties
  <1>2. Numbers' = Numbers
    OBVIOUS
  <1>3. Filed' = Filed \cup Flushed(k)
    <2>1. ASSUME NEW x \in Filed'
          PROVE  x \in Filed \cup Flushed(k)
      <3>1. PICK j \in Numbers : x \in ToSet(file'[j])
        BY <1>2 DEF Filed, Numbers
      <3>2. CASE j = 0
        BY <3>1, <3>2 DEF Filed, Numbers
      <3>3. CASE j # 0
        BY <3>1, <3>3 DEF Filed, Numbers
      <3> QED BY <3>2, <3>3
    <2>2. ASSUME NEW x \in Filed
          PROVE  x \in Filed'
      <3>1. PICK j \in Numbers : x \in ToSet(file[j])
        BY DEF Filed, Numbers
      <3>2. x \in ToSet(file'[j])
        BY <3>1
      <3> QED BY <1>2, <3>2 DEF Filed, Numbers
    <2>3. ASSUME NEW x \in Flushed(k)
          PROVE  x \in Filed'
      <3>1. 0 \in Numbers /\ x \in ToSet(file'[0])
        BY <2>3
      <3> QED BY <1>2, <3>1 DEF Filed, Numbers
    <2> QED BY <2>1, <2>2, <2>3
  <1>4. SizeOnDisk' = SizeOnDisk + k /\ SizeBounded(SizeOnDisk')
    <2>1. SizeOnDisk' = IF 0 \in Numbers THEN Len(file'[0]) ELSE 0
      BY <1>2 DEF SizeOnDisk, Numbers
    <2>2. SizeOnDisk = IF 0 \in Numbers THEN Len(file[0]) ELSE 0
      BY DEF SizeOnDisk, Numbers
    <2>3. SizeOnDisk \in Nat /\ Len(buffer) \in Nat
      BY SizeOnDiskIsNat
    <2>4. SizeOnDisk' = SizeOnDisk + k
      BY <2>1, <2>2, <2>3
    <2>5. /\ SizeOnDisk + k \in Int /\ SizeOnDisk + Len(buffer) \in Int
          /\ SizeOnDisk + k =< SizeOnDisk + Len(buffer)
      BY <2>3
    <2>6. SizeBounded(SizeOnDisk + k)
      BY <1>1, <2>5, SmallerIsBounded DEF Sizes
    <2> QED BY <2>4, <2>6
  <1>5. ASSUME NEW j \in Numbers'
        PROVE  file'[j] \in Seq(Entries) /\ SizeBounded(Len(file'[j])) /\ Ascending(file'[j])
    <2>1. CASE j = 0
      <3>1. Len(file'[0]) = SizeOnDisk'
        BY <1>2, <2>1 DEF SizeOnDisk, Numbers
      <3> QED BY <1>2, <1>4, <2>1, <3>1
    <2>2. CASE j # 0
      <3>1. file'[j] = file[j] /\ j \in Numbers
        BY <1>2, <2>2
      <3> QED BY <1>1, <3>1 DEF DataTyped, Sizes, EntriesInOrder, Numbers
    <2> QED BY <2>1, <2>2
  <1>6. ASSUME NEW j \in Numbers', NEW l \in Numbers', j < l
        PROVE  Precede(ToSet(file'[l]), ToSet(file'[j]))
    <2>1. j \in Numbers /\ l \in Numbers /\ j \in Nat /\ l \in Nat /\ l # 0
      BY <1>1, <1>2, <1>6
    <2>2. file'[l] = file[l] /\ Precede(ToSet(file[l]), ToSet(file[j]))
      BY <1>1, <1>6, <2>1 DEF EntriesInOrder, Numbers
    <2>3. CASE j # 0
      BY <2>1, <2>2, <2>3
    <2>4. CASE j = 0
      <3>1. ToSet(file'[0]) = ToSet(file[0]) \cup Flushed(k)
        BY <2>1, <2>4
      <3>2. Precede(ToSet(file[l]), ToSet(buffer))
        BY <1>1, <2>1 DEF EntriesInOrder, Filed, Precede, Numbers
      <3> QED BY <1>1, <2>2, <2>4, <3>1, <3>2 DEF Precede
    <2> QED BY <2>3, <2>4
  <1>7. /\ Precede(Filed', ToSet(m_lstLogEntitys) \cup ToSet(m_lstLogEntitysTmp))
        /\ Precede(Filed', Unflushed(k))
    BY <1>1, <1>3 DEF EntriesInOrder, Precede
  <1> QED BY <1>1, <1>2, <1>3, <1>4, <1>5, <1>6, <1>7

LEMMA DataOfBeginRoll ==
    ASSUME Data, StateTyped, BeginRoll
    PROVE  Data'
  <1> DEFINE k == Len(buffer)
  <1>1. /\ k \in 0..Len(buffer) /\ k \in Nat
        /\ buffer \in Seq(Entries)
        /\ SubSeq(buffer, 1, k) = buffer
    <2>1. buffer \in Seq(Entries) /\ k \in Nat
      BY DataFacts, LenProperties DEF DataTyped
    <2>2. SubSeq(buffer, 1, Len(buffer)) = buffer
      BY <2>1, SubSeqProperties, LenProperties
    <2> QED BY <2>1, <2>2
  <1>2. /\ Flushes(k)
        /\ buffer' = <<>>
        /\ UNCHANGED <<m_lstLogEntitys, m_lstLogEntitysTmp, logged, filtered, queueLost,
                       bufferLost, removed>>
    BY <1>1 DEF BeginRoll, Flushes, queues, fates, rolls
  <1>3. /\ Filed' = Filed \cup Flushed(k) /\ Flushed(k) = ToSet(buffer)
        /\ IsFiniteSet(Numbers)' /\ (Numbers \subseteq Nat)'
        /\ \A j \in Numbers' :
               file'[j] \in Seq(Entries) /\ SizeBounded(Len(file'[j])) /\ Ascending(file'[j])
        /\ \A j, l \in Numbers' : j < l => Precede(ToSet(file'[l]), ToSet(file'[j]))
        /\ SizeOnDisk' = SizeOnDisk + k /\ SizeBounded(SizeOnDisk')
        /\ Precede(Filed', ToSet(m_lstLogEntitys) \cup ToSet(m_lstLogEntitysTmp))
    BY <1>1, <1>2, FlushKeeps, FlushedProperties
  <1>4. SizeOnDisk \in Nat /\ DataTyped /\ EntriesInOrder /\ Lost
    BY DataFacts, SizeOnDiskIsNat
  <1>5. /\ <<>> \in Seq(Entries) /\ Len(<<>>) = 0 /\ ToSet(<<>>) = {} /\ Ascending(<<>>)
    BY AscendingEmpty
  <1> HIDE DEF k
  <1>6. Entries' = Entries /\ buffer' = <<>> /\ ToSet(buffer)' = {}
        /\ ToSet(m_lstLogEntitys)' = ToSet(m_lstLogEntitys)
        /\ ToSet(m_lstLogEntitysTmp)' = ToSet(m_lstLogEntitysTmp)
    BY <1>2, <1>5 DEF Entries, ToSet
  <1>7. DataTyped'
    BY <1>2, <1>3, <1>4, <1>5, <1>6 DEF DataTyped
  <1>8. Sizes'
    <2>1. SizeOnDisk' + Len(buffer') = SizeOnDisk'
      BY <1>1, <1>3, <1>4, <1>5, <1>6
    <2> QED BY <1>3, <2>1 DEF Sizes, SizeBounded
  <1>9. EntriesInOrder'
    <2>1. \A j \in DOMAIN file' :
            /\ Ascending(file'[j])
            /\ \A l \in DOMAIN file' : j < l => Precede(ToSet(file'[l]), ToSet(file'[j]))
      BY <1>3 DEF Numbers
    <2>2. Ascending(buffer') /\ Ascending(m_lstLogEntitys') /\ Ascending(m_lstLogEntitysTmp')
      BY <1>2, <1>4, <1>5, <1>6 DEF EntriesInOrder
    <2>3. /\ Precede(Filed', ToSet(buffer)' \cup ToSet(m_lstLogEntitys)'
                                 \cup ToSet(m_lstLogEntitysTmp)')
          /\ Precede(ToSet(buffer)', ToSet(m_lstLogEntitys)' \cup ToSet(m_lstLogEntitysTmp)')
          /\ Precede(ToSet(m_lstLogEntitys)', ToSet(m_lstLogEntitysTmp)')
      BY <1>3, <1>4, <1>6 DEF EntriesInOrder, Precede
    <2> QED BY <2>1, <2>2, <2>3 DEF EntriesInOrder
  <1>a. Lost'
    <2>1. Pipeline' = Pipeline
      BY <1>3, <1>6 DEF Pipeline
    <2> QED BY <1>2, <1>4, <1>6, <2>1 DEF Lost
  <1> QED BY <1>3, <1>7, <1>8, <1>9, <1>a, LostMeansNext DEF Data

(* Exit and Crash: the rest of the buffer and the queues are lost.           *)
LEMMA DataOfEnd ==
    ASSUME Data, StateTyped, NEW k \in 0..Len(buffer), Ends(k)
    PROVE  Data'
  <1>1. /\ Flushes(k)
        /\ bufferLost' = bufferLost \cup Unflushed(k)
        /\ queueLost' = queueLost \cup ToSet(m_lstLogEntitysTmp) \cup ToSet(m_lstLogEntitys)
        /\ buffer' = <<>> /\ m_lstLogEntitysTmp' = <<>> /\ m_lstLogEntitys' = <<>>
        /\ UNCHANGED <<logged, filtered, removed>>
    BY DEF Ends, Flushes, Unflushed
  <1>2. /\ Filed' = Filed \cup Flushed(k)
        /\ IsFiniteSet(Numbers)' /\ (Numbers \subseteq Nat)'
        /\ \A j \in Numbers' :
               file'[j] \in Seq(Entries) /\ SizeBounded(Len(file'[j])) /\ Ascending(file'[j])
        /\ \A j, l \in Numbers' : j < l => Precede(ToSet(file'[l]), ToSet(file'[j]))
        /\ SizeOnDisk' = SizeOnDisk + k /\ SizeBounded(SizeOnDisk')
        /\ Precede(Filed', ToSet(m_lstLogEntitys) \cup ToSet(m_lstLogEntitysTmp))
        /\ Precede(Filed', Unflushed(k))
    BY <1>1, FlushKeeps
  <1>3. /\ Flushed(k) \cup Unflushed(k) = ToSet(buffer)
        /\ Flushed(k) \subseteq Entries /\ Unflushed(k) \subseteq Entries
        /\ Entries \in SUBSET Int /\ Filed \subseteq Entries
        /\ ToSet(m_lstLogEntitys) \subseteq Entries /\ ToSet(m_lstLogEntitysTmp) \subseteq Entries
        /\ SizeOnDisk \in Nat /\ Len(buffer) \in Nat /\ DataTyped /\ EntriesInOrder /\ Lost
    BY DataFacts, SizeOnDiskIsNat, FlushedProperties
  <1>4. /\ <<>> \in Seq(Entries) /\ Len(<<>>) = 0 /\ ToSet(<<>>) = {} /\ Ascending(<<>>)
    BY AscendingEmpty
  <1>5. /\ Entries' = Entries /\ ToSet(buffer)' = {}
        /\ ToSet(m_lstLogEntitys)' = {} /\ ToSet(m_lstLogEntitysTmp)' = {}
    BY <1>1, <1>4 DEF Entries, ToSet
  <1>6. DataTyped'
    <2>1. Len(m_lstLogEntitys') <= MaxMove
      BY <1>1, <1>4, SizesAreNat
    <2>2. (filtered \cup queueLost \cup bufferLost \cup removed)' \subseteq Entries
      BY <1>1, <1>3 DEF DataTyped
    <2> QED BY <1>1, <1>2, <1>3, <1>4, <1>5, <2>1, <2>2 DEF DataTyped
  <1>7. Sizes'
    <2>1. SizeOnDisk' \in Nat
      BY <1>2, <1>3
    <2>2. SizeOnDisk' + Len(buffer') = SizeOnDisk'
      <3>1. Len(buffer') = 0
        BY <1>1, <1>4
      <3>2. \A x \in Nat : x + 0 = x
        OBVIOUS
      <3> QED BY <2>1, <3>1, <3>2, Zenon
    <2> QED BY <1>2, <2>2 DEF Sizes, SizeBounded
  <1>8. EntriesInOrder'
    <2>1. \A j \in DOMAIN file' :
            /\ Ascending(file'[j])
            /\ \A l \in DOMAIN file' : j < l => Precede(ToSet(file'[l]), ToSet(file'[j]))
      BY <1>2 DEF Numbers
    <2>2. Ascending(buffer') /\ Ascending(m_lstLogEntitys') /\ Ascending(m_lstLogEntitysTmp')
      BY <1>1, <1>4
    <2>3. /\ Precede(Filed', ToSet(buffer)' \cup ToSet(m_lstLogEntitys)'
                                 \cup ToSet(m_lstLogEntitysTmp)')
          /\ Precede(ToSet(buffer)', ToSet(m_lstLogEntitys)' \cup ToSet(m_lstLogEntitysTmp)')
          /\ Precede(ToSet(m_lstLogEntitys)', ToSet(m_lstLogEntitysTmp)')
      BY <1>5 DEF Precede
    <2> QED BY <2>1, <2>2, <2>3 DEF EntriesInOrder
  <1>9. Lost'
    <2> DEFINE queued == ToSet(m_lstLogEntitysTmp) \cup ToSet(m_lstLogEntitys)
    <2>1. Pipeline' = Filed'
      BY <1>5 DEF Pipeline
    <2>2. Pipeline = Filed' \cup Unflushed(k) \cup queued
      BY <1>2, <1>3 DEF Pipeline
    <2>3. Filed' \subseteq Int /\ queued \subseteq Int /\ Unflushed(k) \subseteq Int
      BY <1>2, <1>3
    <2>4. Precede(Filed', queued) /\ Precede(Filed', Unflushed(k)) /\ Precede(Unflushed(k), queued)
      BY <1>2, <1>3 DEF EntriesInOrder, Precede
    <2> HIDE DEF queued
    <2>5. Filed' \cap queued = {}
      BY <2>3, <2>4, PrecedeMeans
    <2>6. Filed' \cap Unflushed(k) = {} /\ Unflushed(k) \cap queued = {}
      BY <2>3, <2>4, PrecedeMeans
    <2>7. queueLost' = queueLost \cup queued
      BY <1>1 DEF queued
    <2> QED BY <1>1, <1>3, <1>5, <2>1, <2>2, <2>5, <2>6, <2>7 DEF Lost, Partition
  <1> QED BY <1>2, <1>6, <1>7, <1>8, <1>9, LostMeansNext DEF Data
-----------------------------------------------------------------------------
(* A step of a roll takes every file from another number, or leaves it, or   *)
(* begins an empty one; the file of the number gone goes.                    *)
LEMMA FilesMove ==
    ASSUME Data, NEW src \in [Int -> Int], NEW gone \in Int,
           UNCHANGED <<buffer, queues, logged, fates>>,
           (Numbers \subseteq Nat)', IsFiniteSet(Numbers)',
           \A j \in Numbers' :
               file'[j] = <<>> \/ (src[j] \in Numbers \ {gone} /\ file'[j] = file[src[j]]),
           \A j, l \in Numbers' : j < l => src[j] < src[l],
           \A j \in Numbers \ {gone} : \E l \in Numbers' : file'[l] = file[j],
           SizeOnDisk' \in {0, SizeOnDisk},
           removed' = removed \cup (IF gone \in Numbers THEN ToSet(file[gone]) ELSE {})
    PROVE  Data'
  <1> DEFINE old == IF gone \in Numbers THEN ToSet(file[gone]) ELSE {}
  <1>1. /\ Entries \in SUBSET Int /\ DataTyped /\ Sizes /\ EntriesInOrder /\ Lost
        /\ Filed \subseteq Entries /\ ToSet(buffer) \subseteq Entries
        /\ ToSet(m_lstLogEntitys) \subseteq Entries /\ ToSet(m_lstLogEntitysTmp) \subseteq Entries
        /\ SizeOnDisk \in Nat /\ Len(buffer) \in Nat /\ Numbers \subseteq Nat
    BY DataFacts, SizeOnDiskIsNat
  <1>2. /\ <<>> \in Seq(Entries) /\ Len(<<>>) = 0 /\ ToSet(<<>>) = {} /\ Ascending(<<>>)
    BY AscendingEmpty
  <1>3. /\ Entries' = Entries /\ ToSet(buffer)' = ToSet(buffer)
        /\ ToSet(m_lstLogEntitys)' = ToSet(m_lstLogEntitys)
        /\ ToSet(m_lstLogEntitysTmp)' = ToSet(m_lstLogEntitysTmp)
        /\ UNCHANGED <<buffer, m_lstLogEntitys, m_lstLogEntitysTmp, filtered, queueLost,
                       bufferLost>>
    BY DEF Entries, ToSet, queues, fates
  <1>4. old \subseteq Entries
    BY <1>1 DEF Filed, Numbers
  <1>5. removed' = removed \cup old
    OBVIOUS
  <1>6. Filed = Filed' \cup old
    <2>1. ASSUME NEW x \in Filed
          PROVE  x \in Filed' \cup old
      <3>1. PICK j \in Numbers : x \in ToSet(file[j])
        BY DEF Filed, Numbers
      <3>2. CASE j = gone
        BY <3>1, <3>2
      <3>3. CASE j # gone
        <4>1. PICK l \in Numbers' : file'[l] = file[j]
          BY <3>3
        <4> QED BY <3>1, <4>1 DEF Filed, Numbers
      <3> QED BY <3>2, <3>3
    <2>2. ASSUME NEW x \in Filed'
          PROVE  x \in Filed
      <3>1. PICK j \in Numbers' : x \in ToSet(file'[j])
        BY DEF Filed, Numbers
      <3>2. file'[j] # <<>>
        BY <1>2, <3>1
      <3>3. src[j] \in Numbers /\ file'[j] = file[src[j]]
        BY <3>2
      <3> QED BY <3>1, <3>3 DEF Filed, Numbers
    <2>3. old \subseteq Filed
      BY DEF Filed, Numbers
    <2> QED BY <2>1, <2>2, <2>3
  <1>7. Filed' \cap old = {}
    <2> SUFFICES ASSUME NEW x \in Filed', x \in old
                 PROVE  FALSE
      OBVIOUS
    <2>1. PICK j \in Numbers' : x \in ToSet(file'[j])
      BY DEF Filed, Numbers
    <2>2. file'[j] # <<>>
      BY <1>2, <2>1
    <2>3. src[j] \in Numbers /\ src[j] # gone /\ file'[j] = file[src[j]]
      BY <2>2
    <2>4. gone \in Numbers /\ x \in ToSet(file[gone]) /\ x \in ToSet(file[src[j]])
      BY <2>1, <2>3
    <2>5. \/ Precede(ToSet(file[gone]), ToSet(file[src[j]]))
          \/ Precede(ToSet(file[src[j]]), ToSet(file[gone]))
      <3>1. src[j] < gone \/ gone < src[j]
        BY <1>1, <2>3
      <3> QED BY <1>1, <2>3, <2>4, <3>1 DEF EntriesInOrder, Numbers
    <2>6. x < x /\ x \in Int
      BY <1>1, <1>4, <2>4, <2>5 DEF Precede
    <2> QED BY <2>6
  <1> HIDE DEF old
  <1>8. ASSUME NEW j \in Numbers'
        PROVE  file'[j] \in Seq(Entries) /\ SizeBounded(Len(file'[j])) /\ Ascending(file'[j])
    <2>1. CASE file'[j] = <<>>
      BY <1>2, <2>1 DEF SizeBounded
    <2>2. CASE src[j] \in Numbers /\ file'[j] = file[src[j]]
      BY <1>1, <2>2 DEF DataTyped, Sizes, EntriesInOrder, Numbers
    <2> QED BY <2>1, <2>2
  <1>9. ASSUME NEW j \in Numbers', NEW l \in Numbers', j < l
        PROVE  Precede(ToSet(file'[l]), ToSet(file'[j]))
    <2>1. CASE file'[j] = <<>> \/ file'[l] = <<>>
      BY <1>2, <2>1 DEF Precede
    <2>2. CASE file'[j] # <<>> /\ file'[l] # <<>>
      <3>1. /\ src[j] \in Numbers /\ file'[j] = file[src[j]]
            /\ src[l] \in Numbers /\ file'[l] = file[src[l]]
            /\ src[j] < src[l]
        BY <1>9, <2>2
      <3> QED BY <1>1, <3>1 DEF EntriesInOrder, Numbers
    <2> QED BY <2>1, <2>2
  <1>a. DataTyped'
    <2>1. (filtered \cup queueLost \cup bufferLost \cup removed)' \subseteq Entries
      BY <1>1, <1>3, <1>4, <1>5 DEF DataTyped
    <2> QED BY <1>1, <1>3, <1>8, <2>1 DEF DataTyped
  <1>b. Sizes'
    <2>1. /\ SizeOnDisk' + Len(buffer') \in Int
          /\ SizeOnDisk + Len(buffer) \in Int
          /\ SizeOnDisk' + Len(buffer') =< SizeOnDisk + Len(buffer)
      <3>1. Len(buffer') = Len(buffer) /\ (SizeOnDisk' = 0 \/ SizeOnDisk' = SizeOnDisk)
        BY <1>3
      <3>2. SizeOnDisk \in Nat /\ Len(buffer) \in Nat
        BY <1>1
      <3>3. \A d, e, b \in Nat : (e = 0 \/ e = d) => e + b \in Int /\ d + b \in Int /\ e + b =< d + b
        OBVIOUS
      <3>4. SizeOnDisk' \in Nat
        BY <3>1, <3>2
      <3> QED BY <3>1, <3>2, <3>3, <3>4
    <2>2. SizeBounded(SizeOnDisk' + Len(buffer'))
      BY <1>1, <2>1, SmallerIsBounded DEF Sizes
    <2> QED BY <1>8, <2>2 DEF Sizes, SizeBounded
  <1>c. EntriesInOrder'
    <2>1. \A j \in DOMAIN file' :
            /\ Ascending(file'[j])
            /\ \A l \in DOMAIN file' : j < l => Precede(ToSet(file'[l]), ToSet(file'[j]))
      BY <1>8, <1>9 DEF Numbers
    <2>2. Ascending(buffer') /\ Ascending(m_lstLogEntitys') /\ Ascending(m_lstLogEntitysTmp')
      BY <1>1, <1>3 DEF EntriesInOrder
    <2>3. /\ Precede(Filed', ToSet(buffer)' \cup ToSet(m_lstLogEntitys)'
                                 \cup ToSet(m_lstLogEntitysTmp)')
          /\ Precede(ToSet(buffer)', ToSet(m_lstLogEntitys)' \cup ToSet(m_lstLogEntitysTmp)')
          /\ Precede(ToSet(m_lstLogEntitys)', ToSet(m_lstLogEntitysTmp)')
      BY <1>1, <1>3, <1>6 DEF EntriesInOrder, Precede
    <2> QED BY <2>1, <2>2, <2>3 DEF EntriesInOrder
  <1>d. Lost'
    <2>1. Pipeline = Pipeline' \cup old
      BY <1>3, <1>6 DEF Pipeline
    <2>2. \A x \in Int : ~(x < x)
      OBVIOUS
    <2>3. /\ old \cap ToSet(buffer) = {} /\ old \cap ToSet(m_lstLogEntitys) = {}
          /\ old \cap ToSet(m_lstLogEntitysTmp) = {}
      BY <1>1, <1>6, <2>2 DEF EntriesInOrder, Precede
    <2>4. Pipeline' \cap old = {}
      BY <1>3, <1>7, <2>3 DEF Pipeline
    <2> QED BY <1>1, <1>3, <1>5, <2>1, <2>4 DEF Lost, Partition
  <1> QED BY <1>a, <1>b, <1>c, <1>d, LostMeansNext DEF Data

LEMMA DataOfRemoveOld ==
    ASSUME Data, StateTyped, RemoveOld
    PROVE  Data'
  <1>1. UNCHANGED <<buffer, queues, logged, fates>>
    BY DEF RemoveOld
  <1>2. CASE i <= nLogFileIndex /\ i # 0
    <2> DEFINE src == [j \in Int |-> j]
    <2>1. /\ file' = Restrict(file, DOMAIN file \ {i})
          /\ removed' = removed \cup (IF i \in Numbers THEN ToSet(file[i]) ELSE {})
      <3>1. file' = Restrict(file, DOMAIN file \ {i}) /\ Removes(i)
        BY <1>2 DEF RemoveOld
      <3>2. ToSet(<<>>) = {}
        BY AscendingEmpty
      <3> QED BY <3>1, <3>2 DEF Removes, Numbers
    <2>2. Numbers' = Numbers \ {i} /\ \A j \in Numbers' : file'[j] = file[j]
      BY <2>1 DEF Numbers, Restrict
    <2>3. /\ Numbers \subseteq Nat /\ IsFiniteSet(Numbers) /\ i \in Int
      BY DataFacts DEF StateTyped
    <2>4. (Numbers \subseteq Nat)' /\ IsFiniteSet(Numbers)'
      BY <2>2, <2>3, FS_RemoveElement
    <2>5. /\ \A j \in Numbers' :
                 file'[j] = <<>> \/ (src[j] \in Numbers \ {i} /\ file'[j] = file[src[j]])
          /\ \A j, l \in Numbers' : j < l => src[j] < src[l]
          /\ \A j \in Numbers \ {i} : \E l \in Numbers' : file'[l] = file[j]
      BY <2>2, <2>3
    <2>6. SizeOnDisk' \in {0, SizeOnDisk}
      BY <2>2 DEF SizeOnDisk, Numbers
    <2>7. src \in [Int -> Int]
      OBVIOUS
    <2> HIDE DEF src
    <2> QED BY <1>1, <2>1, <2>3, <2>4, <2>5, <2>6, <2>7, FilesMove
  <1>3. CASE ~(i <= nLogFileIndex /\ i # 0)
    BY <1>1, <1>3, DataKept DEF RemoveOld, rolls
  <1> QED BY <1>2, <1>3

(* What is left of a renaming: no file i, but a file i + 1.                  *)
LEMMA FilesAfterRename ==
    ASSUME Data, StateTyped, Rename, i \in Numbers
    PROVE  /\ i \in Nat /\ i # i + 1
           /\ Numbers' = (Numbers \ {i}) \cup {i + 1}
           /\ file'[i + 1] = file[i]
           /\ \A j \in Numbers' : j # i + 1 => j \in Numbers /\ j # i /\ file'[j] = file[j]
           /\ removed' = removed \cup (IF i + 1 \in Numbers THEN ToSet(file[i + 1]) ELSE {})
  <1>1. i \in Nat
    BY DataFacts
  <1>2. i # i + 1
    BY <1>1
  <1>3. /\ file' = [j \in (DOMAIN file \ {i}) \cup {i + 1} |->
                        IF j = i + 1 THEN file[i] ELSE file[j]]
        /\ Removes(i + 1)
    BY DEF Rename, Downwards, Numbers
  <1>4. ToSet(<<>>) = {}
    BY AscendingEmpty
  <1> QED BY <1>1, <1>2, <1>3, <1>4 DEF Removes, Numbers

LEMMA DataOfRename ==
    ASSUME Data, StateTyped, Rename
    PROVE  Data'
  <1>1. UNCHANGED <<buffer, queues, logged, fates>>
    BY DEF Rename
  <1>2. CASE i \in Numbers
    <2> DEFINE n == i + 1
               src == [j \in Int |-> IF j = n THEN i ELSE j]
    <2>1. /\ i \in Nat /\ i # n
          /\ Numbers' = (Numbers \ {i}) \cup {n}
          /\ file'[n] = file[i]
          /\ \A j \in Numbers' : j # n => j \in Numbers /\ j # i /\ file'[j] = file[j]
          /\ removed' = removed \cup (IF n \in Numbers THEN ToSet(file[n]) ELSE {})
      BY <1>2, FilesAfterRename
    <2>2. /\ Numbers \subseteq Nat /\ IsFiniteSet(Numbers) /\ n \in Nat /\ n \in Int
          /\ \A j \in Int : (j < n /\ j # i => j < i) /\ (n < j => i < j)
      BY <2>1, DataFacts
    <2>3. (Numbers \subseteq Nat)' /\ IsFiniteSet(Numbers)'
      <3>1. IsFiniteSet(Numbers \ {i})
        BY <2>2, FS_RemoveElement
      <3>2. IsFiniteSet((Numbers \ {i}) \cup {n})
        BY <3>1, FS_AddElement
      <3> QED BY <2>1, <2>2, <3>2
    <2>4. \A j \in Numbers' :
              file'[j] = <<>> \/ (src[j] \in Numbers \ {n} /\ file'[j] = file[src[j]])
      <3> SUFFICES ASSUME NEW j \in Numbers'
                   PROVE  src[j] \in Numbers \ {n} /\ file'[j] = file[src[j]]
        OBVIOUS
      <3>1. j \in Int
        BY <2>3
      <3>2. CASE j = n
        BY <1>2, <2>1, <2>2, <3>1, <3>2
      <3>3. CASE j # n
        BY <2>1, <2>2, <3>1, <3>3
      <3> QED BY <3>2, <3>3
    <2>5. \A j, l \in Numbers' : j < l => src[j] < src[l]
      <3> SUFFICES ASSUME NEW j \in Numbers', NEW l \in Numbers', j < l
                   PROVE  src[j] < src[l]
        OBVIOUS
      <3>1. j \in Int /\ l \in Int /\ (j # n => j # i) /\ (l # n => l # i)
        BY <2>1, <2>3
      <3> HIDE DEF n
      <3>2. CASE j = n
        BY <2>1, <2>2, <3>1, <3>2
      <3>3. CASE j # n /\ l = n
        BY <2>1, <2>2, <3>1, <3>3
      <3>4. CASE j # n /\ l # n
        BY <3>1, <3>4
      <3> QED BY <3>2, <3>3, <3>4
    <2>6. \A j \in Numbers \ {n} : \E l \in Numbers' : file'[l] = file[j]
      <3> SUFFICES ASSUME NEW j \in Numbers, j # n
                   PROVE  \E l \in Numbers' : file'[l] = file[j]
        OBVIOUS
      <3>1. CASE j = i
        BY <2>1, <3>1
      <3>2. CASE j # i
        BY <2>1, <3>2
      <3> QED BY <3>1, <3>2
    <2>7. SizeOnDisk' \in {0, SizeOnDisk}
      <3>1. n # 0
        BY <2>1
      <3> HIDE DEF n
      <3>2. 0 \in Numbers' => 0 \in Numbers /\ file'[0] = file[0]
        BY <2>1, <3>1
      <3> QED BY <3>2 DEF SizeOnDisk, Numbers
    <2>8. src \in [Int -> Int]
      BY <2>1
    <2> HIDE DEF src, n
    <2> QED BY <1>1, <2>1, <2>2, <2>3, <2>4, <2>5, <2>6, <2>7, <2>8, FilesMove
  <1>3. CASE i \notin Numbers
    BY <1>1, <1>3, DataKept DEF Rename, Downwards, Numbers, rolls
  <1> QED BY <1>2, <1>3

LEMMA FilesAfterOpen ==
    ASSUME Open
    PROVE  /\ Numbers' = Numbers \cup {0}
           /\ \A j \in Numbers' :
                  (file'[j] = <<>> /\ j \notin Numbers) \/ (j \in Numbers /\ file'[j] = file[j])
           /\ SizeOnDisk' = SizeOnDisk
  <1>1. file' = [j \in Numbers \cup {0} |-> IF j \in Numbers THEN file[j] ELSE <<>>]
    BY DEF Open, Numbers
  <1>2. /\ Numbers' = Numbers \cup {0}
        /\ \A j \in Numbers' :
               (file'[j] = <<>> /\ j \notin Numbers) \/ (j \in Numbers /\ file'[j] = file[j])
    BY <1>1 DEF Numbers
  <1>3. SizeOnDisk' = SizeOnDisk
    BY <1>2, AscendingEmpty DEF SizeOnDisk, Numbers
  <1> QED BY <1>2, <1>3

LEMMA DataOfOpen ==
    ASSUME Data, Open
    PROVE  Data'
  <1> DEFINE src == [j \in Int |-> j]
  <1>1. UNCHANGED <<buffer, queues, logged, fates, removed>>
    BY DEF Open, rolls
  <1>2. Numbers \subseteq Nat /\ IsFiniteSet(Numbers) /\ -1 \in Int /\ -1 \notin Numbers
    BY DataFacts
  <1>3. (Numbers \subseteq Nat)' /\ IsFiniteSet(Numbers)'
    <2>1. IsFiniteSet(Numbers \cup {0}) /\ Numbers \cup {0} \subseteq Nat
      BY <1>2, FS_AddElement
    <2> QED BY <2>1, FilesAfterOpen
  <1>4. /\ \A j \in Numbers' :
               file'[j] = <<>> \/ (src[j] \in Numbers \ {-1} /\ file'[j] = file[src[j]])
        /\ \A j, l \in Numbers' : j < l => src[j] < src[l]
        /\ \A j \in Numbers \ {-1} : \E l \in Numbers' : file'[l] = file[j]
    BY <1>2, <1>3, FilesAfterOpen
  <1>5. SizeOnDisk' \in {0, SizeOnDisk}
    BY FilesAfterOpen
  <1>6. removed' = removed \cup (IF -1 \in Numbers THEN ToSet(file[-1]) ELSE {})
    BY <1>1, <1>2
  <1>7. src \in [Int -> Int]
    OBVIOUS
  <1> HIDE DEF src
  <1> QED BY <1>1, <1>2, <1>3, <1>4, <1>5, <1>6, <1>7, FilesMove

LEMMA DataStep ==
    ASSUME IInv, [Next]_vars
    PROVE  Data'
  <1>0. Data /\ StateTyped /\ Places /\ Counted
    BY DEF IInv, Control
  <1>1. ASSUME NEW c \in Configs, Start(c) PROVE Data'
    BY <1>0, <1>1, DataKept DEF Start, rolls
  <1>2. CASE Log
    BY <1>0, <1>2, DataOfLog
  <1>3. CASE BeginPass
    BY <1>0, <1>3, DataOfBeginPass DEF BeginPass, Places
  <1>4. CASE BeginRoll
    BY <1>0, <1>4, DataOfBeginRoll
  <1>5. CASE NoRoll \/ EndRoll \/ EndPass
    BY <1>0, <1>5, DataKept DEF NoRoll, EndRoll, EndPass, rolls
  <1>6. CASE RemoveOld
    BY <1>0, <1>6, DataOfRemoveOld
  <1>7. CASE Rename
    BY <1>0, <1>7, DataOfRename
  <1>8. CASE Open
    BY <1>0, <1>8, DataOfOpen
  <1>9. CASE Put
    BY <1>0, <1>9, DataOfPut
  <1>10. CASE Exit
    <2>1. Len(buffer) \in 0..Len(buffer) /\ Ends(Len(buffer))
      BY <1>0, <1>10, SizeOnDiskIsNat DEF Exit
    <2> QED BY <1>0, <2>1, DataOfEnd
  <1>11. CASE Crash
    BY <1>0, <1>11, DataOfEnd DEF Crash
  <1>12. CASE UNCHANGED vars
    BY <1>0, <1>12, DataKept DEF vars, rolls
  <1> QED BY <1>1, <1>2, <1>3, <1>4, <1>5, <1>6, <1>7, <1>8, <1>9, <1>10, <1>11, <1>12 DEF Next
-----------------------------------------------------------------------------
(* The writer, step by step.                                                 *)
LEMMA ShapeKept ==
    ASSUME Shape, Numbers' = Numbers, UNCHANGED <<nLogFileIndex, nMaxFileCounts, rolled>>,
           pc \notin {"rm", "rename", "down"}, pc' \notin {"rm", "rename"},
           pc \in Rolling => pc' \in Rolling
    PROVE  Shape'
  <1>1. /\ (\A j \in Numbers : 1..j \subseteq Numbers)' /\ (rolled' => Few')
        /\ pc' \notin Rolling => (Numbers' # {} => 0 \in Numbers')
        /\ Indexed'
    BY DEF Shape, Few, Indexed
  <1> QED BY <1>1 DEF Shape

LEMMA ControlKept ==
    ASSUME Control, Numbers' = Numbers, SizeOnDisk' + Len(buffer') = SizeOnDisk + Len(buffer),
           buffer' = <<>> <=> buffer = <<>>, pc # "down",
           m_lstLogEntitys' = m_lstLogEntitys,
           UNCHANGED <<fp, nWritedSize, nLogFileIndex, appender, pc, i, runs, rolls>>
    PROVE  Control'
  <1> USE DEF Control, appender, rolls
  <1>1. StateTyped'
    BY DEF StateTyped
  <1>2. Places'
    BY DEF Places
  <1>3. Counted'
    BY DEF Counted
  <1>4. KeptUnlessTorn'
    BY DEF KeptUnlessTorn
  <1>5. ~torn' => Shape'
    <2>1. ~torn => Shape
      OBVIOUS
    <2>2. Indexed' = Indexed /\ Few' = Few /\ Removing' = Removing /\ Renaming' = Renaming
      BY DEF Indexed, Few, Removing, Renaming
    <2> QED BY <2>1, <2>2 DEF Shape
  <1> QED BY <1>1, <1>2, <1>3, <1>4, <1>5

(* Parse counts the files: without a torn roll they are those below the      *)
(* count.                                                                    *)
LEMMA ControlOfStart ==
    ASSUME IInv, NEW c \in Configs, Start(c)
    PROVE  Control'
  <1>1. /\ pc = "down" /\ runs < MaxRuns /\ runs' = runs + 1
        /\ nMaxFileSize' = FileSize(c) /\ nMaxFileCounts' = c.max_file_counts
        /\ nWritedSize' = SizeOnDisk
        /\ nLogFileIndex' = IF Numbers = {} THEN 0 ELSE Cardinality(Numbers) - 1
        /\ pc' = "idle" /\ rolled' = FALSE
        /\ UNCHANGED <<file, buffer, m_lstLogEntitys, fp, i, early, torn>>
    BY DEF Start, queues, Numbers
  <1>2. /\ Data /\ StateTyped /\ Places /\ (~torn => Shape)
        /\ Numbers \subseteq Nat /\ IsFiniteSet(Numbers) /\ SizeOnDisk \in Nat
    BY DataFacts, SizeOnDiskIsNat DEF IInv, Control
  <1>3. FileSize(c) \in Nat /\ c.max_file_counts \in Nat /\ c.max_file_counts # 0
    BY SizesAreNat, LogRollingAssumption
  <1>4. Numbers' = Numbers /\ SizeOnDisk' = SizeOnDisk /\ buffer = <<>> /\ ~fp
    BY <1>1, <1>2 DEF Numbers, SizeOnDisk, StateTyped, Places
  <1>5. Cardinality(Numbers) \in Nat /\ (Numbers # {} => Cardinality(Numbers) # 0)
    BY <1>2, FS_CardinalityType, FS_EmptySet
  <1>6. StateTyped'
    <2>1. nLogFileIndex' \in Nat
      BY <1>1, <1>5
    <2>2. runs' \in 0..MaxRuns
      <3>1. MaxRuns \in Nat /\ runs \in 0..MaxRuns
        BY <1>2, LogRollingAssumption DEF StateTyped
      <3> QED BY <1>1, <3>1
    <2> QED BY <1>1, <1>2, <1>3, <1>4, <2>1, <2>2 DEF StateTyped, PC
  <1>7. Places'
    BY <1>1, <1>2, <1>3 DEF Places, Rolling, FileSize
  <1>8. Counted'
    <2>1. Len(buffer) = 0
      BY <1>4, AscendingEmpty
    <2>2. SizeOnDisk = SizeOnDisk + Len(buffer)
      BY <1>2, <2>1
    <2> QED BY <1>1, <1>4, <2>2 DEF Counted
  <1>9. KeptUnlessTorn'
    BY <1>1 DEF IInv, Control, KeptUnlessTorn
  <1>10. ASSUME ~torn'
         PROVE  Shape'
    <2>1. /\ \A j \in Numbers : 1..j \subseteq Numbers
          /\ Numbers # {} => 0 \in Numbers
      BY <1>1, <1>2, <1>10 DEF Shape, Rolling
    <2>2. ASSUME NEW j \in Numbers
          PROVE  j =< nLogFileIndex'
      <3>1. j \in Nat
        BY <1>2
      <3>2. 0..j \subseteq Numbers
        BY <2>1, <3>1
      <3>3. Cardinality(0..j) = j + 1
        BY <3>1, FS_Interval
      <3>4. Cardinality(0..j) <= Cardinality(Numbers)
        BY <1>2, <3>2, FS_Subset
      <3> QED BY <1>1, <1>5, <3>1, <3>3, <3>4
    <2> QED BY <1>1, <1>4, <2>1, <2>2 DEF Shape, Indexed, Rolling
  <1> QED BY <1>6, <1>7, <1>8, <1>9, <1>10 DEF Control

LEMMA ControlOfLog ==
    ASSUME IInv, Log
    PROVE  Control'
  <1>1. /\ pc # "down"
        /\ UNCHANGED <<file, buffer, m_lstLogEntitys, fp, nWritedSize, nLogFileIndex, appender,
                       pc, i, runs, rolls>>
    BY DEF Log
  <1>2. Numbers' = Numbers /\ SizeOnDisk' = SizeOnDisk
    BY <1>1 DEF Numbers, SizeOnDisk
  <1> QED BY <1>1, <1>2, ControlKept DEF IInv

LEMMA ControlOfPass ==
    ASSUME IInv, BeginPass \/ NoRoll \/ EndPass
    PROVE  Control'
  <1>1. /\ UNCHANGED <<file, buffer, fp, nWritedSize, nLogFileIndex, appender, i, runs, rolls>>
        /\ \/ pc = "idle" /\ pc' = "entry"
           \/ /\ pc = "entry" /\ pc' = (IF fp THEN "put" ELSE "open")
              /\ m_lstLogEntitys # <<>> /\ nWritedSize < nMaxFileSize
              /\ UNCHANGED m_lstLogEntitys
           \/ /\ pc = "entry" /\ pc' = "idle"
              /\ m_lstLogEntitys = <<>> /\ UNCHANGED m_lstLogEntitys
    BY DEF BeginPass, NoRoll, EndPass, queues
  <1>2. Numbers' = Numbers /\ SizeOnDisk' = SizeOnDisk
    BY <1>1 DEF Numbers, SizeOnDisk
  <1>3. StateTyped /\ Places /\ Counted /\ KeptUnlessTorn /\ (~torn => Shape)
    BY DEF IInv, Control
  <1> USE DEF appender, rolls
  <1>4. StateTyped'
    BY <1>1, <1>2, <1>3 DEF StateTyped, PC
  <1>5. Places'
    BY <1>1, <1>2, <1>3 DEF Places, Rolling, StateTyped
  <1>6. Counted'
    BY <1>1, <1>2, <1>3 DEF Counted
  <1>7. KeptUnlessTorn'
    BY <1>1, <1>3 DEF KeptUnlessTorn
  <1>8. ~torn' => Shape'
    BY <1>1, <1>2, <1>3, ShapeKept DEF Rolling
  <1> QED BY <1>4, <1>5, <1>6, <1>7, <1>8 DEF Control

LEMMA ControlOfBeginRoll ==
    ASSUME IInv, BeginRoll
    PROVE  Control'
  <1> DEFINE k == Len(buffer)
  <1>1. /\ pc = "entry" /\ m_lstLogEntitys # <<>>
        /\ buffer' = <<>> /\ fp' = FALSE /\ i' = nMaxFileCounts - 1 /\ pc' = "rm"
        /\ UNCHANGED <<m_lstLogEntitys, nWritedSize, nLogFileIndex, nMaxFileSize,
                       nMaxFileCounts, runs, early, rolled, torn>>
    BY DEF BeginRoll, FirstRemoved, queues, appender, rolls
  <1>2. Data /\ StateTyped /\ Places /\ Counted /\ KeptUnlessTorn /\ (~torn => Shape)
    BY DEF IInv, Control
  <1>3. Numbers' = Numbers /\ Numbers \subseteq Nat
    BY <1>2, DataFacts DEF BeginRoll, Numbers, StateTyped
  <1>4. nMaxFileCounts \in Nat /\ i' \in Int
    BY <1>1, <1>2 DEF StateTyped
  <1>5. StateTyped'
    BY <1>1, <1>2, <1>3, <1>4 DEF StateTyped, PC
  <1>6. Places'
    BY <1>1, <1>2, <1>4 DEF Places, Rolling
  <1>7. Counted'
    BY <1>1 DEF Counted
  <1>8. KeptUnlessTorn'
    BY <1>1, <1>2 DEF KeptUnlessTorn
  <1>9. ASSUME ~torn'
        PROVE  Shape'
    <2>1. Shape
      BY <1>1, <1>2, <1>9
    <2>2. /\ \A j \in Numbers : 1..j \subseteq Numbers
          /\ Numbers # {} => 0 \in Numbers
          /\ Indexed
      BY <1>1, <2>1 DEF Shape, Rolling
    <2>3. Removing'
      <3> SUFFICES ASSUME NEW j \in Numbers
                   PROVE  /\ j = 0 \/ j < nMaxFileCounts - 1 \/ j >= nMaxFileCounts - 1
                          /\ 0..j \subseteq Numbers
        BY <1>1, <1>3 DEF Removing
      <3>1. j \in Nat
        BY <1>3
      <3> QED BY <1>4, <2>2, <3>1
    <2>4. Indexed'
      BY <1>1, <1>3, <2>2 DEF Indexed
    <2> QED BY <1>1, <2>3, <2>4 DEF Shape, Rolling
  <1> QED BY <1>5, <1>6, <1>7, <1>8, <1>9 DEF Control

(* A file that is removed has nMaxFileCounts - 1 newer ones.                 *)
LEMMA NewerAreKept ==
    ASSUME IsFiniteSet(Numbers), Numbers \subseteq Nat, nMaxFileCounts \in Nat \ {0},
           early \in BOOLEAN, NEW k \in Int,
           k \in Numbers => k >= nMaxFileCounts - 1 /\ 0..(nMaxFileCounts - 2) \subseteq Numbers,
           Removes(k)
    PROVE  early' = early
  <1>1. CASE k \notin Numbers
    BY <1>1 DEF Removes, Numbers
  <1>2. CASE k \in Numbers
    <2>1. 0..(nMaxFileCounts - 2) \subseteq Newer(k)
      BY <1>2 DEF Newer, Numbers
    <2>2. IsFiniteSet(Newer(k))
      <3>1. Newer(k) \subseteq Numbers
        BY DEF Newer, Numbers
      <3> QED BY <3>1, FS_Subset
    <2>3. Cardinality(0..(nMaxFileCounts - 2)) = nMaxFileCounts - 1
      <3>1. nMaxFileCounts - 2 \in Int
        OBVIOUS
      <3>2. Cardinality(0..(nMaxFileCounts - 2))
              = IF 0 > nMaxFileCounts - 2 THEN 0 ELSE nMaxFileCounts - 2 - 0 + 1
        BY <3>1, FS_Interval
      <3> QED BY <3>2
    <2>4. Cardinality(0..(nMaxFileCounts - 2)) <= Cardinality(Newer(k))
      BY <2>1, <2>2, FS_Subset
    <2>5. Cardinality(Newer(k)) \in Nat
      BY <2>2, FS_CardinalityType
    <2>6. ~(Cardinality(Newer(k)) < nMaxFileCounts - 1)
      BY <2>3, <2>4, <2>5
    <2>7. early' = (early \/ (file[k] # <<>> /\ Cardinality(Newer(k)) < nMaxFileCounts - 1))
      BY <1>2 DEF Removes, Numbers
    <2> QED BY <2>6, <2>7
  <1> QED BY <1>1, <1>2

LEMMA ControlOfRemoveOld ==
    ASSUME IInv, RemoveOld
    PROVE  Control'
  <1>1. /\ pc = "rm"
        /\ UNCHANGED <<buffer, m_lstLogEntitys, fp, nWritedSize, nLogFileIndex, nMaxFileSize,
                       nMaxFileCounts, runs>>
    BY DEF RemoveOld, queues, appender
  <1>2. /\ Data /\ StateTyped /\ Places /\ KeptUnlessTorn /\ (~torn => Shape)
        /\ Numbers \subseteq Nat /\ IsFiniteSet(Numbers)
    BY DataFacts DEF IInv, Control
  <1>3. /\ nMaxFileCounts \in Nat \ {0} /\ nLogFileIndex \in Nat /\ i \in Int
        /\ i >= nMaxFileCounts - 1 /\ ~fp /\ m_lstLogEntitys # <<>> /\ buffer = <<>>
    BY <1>1, <1>2 DEF StateTyped, Places, Rolling
  <1>4. ~torn => Removing /\ Indexed
    BY <1>1, <1>2 DEF Shape
  <1>a. CASE i <= nLogFileIndex
    <2>1. /\ i' = i + 1 /\ pc' = "rm"
          /\ \/ i = 0 /\ UNCHANGED <<file, removed, early, rolled, torn>>
             \/ i # 0 /\ file' = Restrict(file, DOMAIN file \ {i}) /\ Removes(i)
      BY <1>1, <1>a DEF RemoveOld, rolls
    <2>2. /\ UNCHANGED <<rolled, torn>> /\ early' \in BOOLEAN
          /\ i # 0 => (early' = early \/ early' = TRUE)
      BY <1>2, <2>1 DEF Removes, StateTyped
    <2>3. \/ i = 0 /\ Numbers' = Numbers
          \/ i # 0 /\ Numbers' = Numbers \ {i}
      BY <2>1 DEF Numbers, Restrict
    <2>4. Numbers' \subseteq Numbers
      BY <2>3
    <2>5. StateTyped'
      BY <1>1, <1>2, <1>3, <2>1, <2>2 DEF StateTyped
    <2>6. Places'
      <3>1. i + 1 >= nMaxFileCounts - 1
        BY <1>3
      <3> QED BY <1>1, <1>2, <2>1, <3>1 DEF Places, Rolling
    <2>7. Counted'
      BY <2>1 DEF Counted
    <2>8. ASSUME ~torn
          PROVE  early' = early
      <3>1. CASE i = 0
        BY <2>1, <3>1
      <3>2. CASE i # 0
        <4>1. ASSUME i \in Numbers
              PROVE  0..(nMaxFileCounts - 2) \subseteq Numbers
          BY <1>3, <1>4, <2>8, <4>1 DEF Removing
        <4>2. early \in BOOLEAN
          BY <1>2 DEF StateTyped
        <4> QED BY <1>2, <1>3, <2>1, <3>2, <4>1, <4>2, NewerAreKept
      <3> QED BY <3>1, <3>2
    <2>9. KeptUnlessTorn'
      BY <1>2, <2>2, <2>8 DEF KeptUnlessTorn
    <2>10. ASSUME ~torn
           PROVE  Shape'
      <3>1. Removing'
        <4> SUFFICES ASSUME NEW j \in Numbers'
                     PROVE  /\ j = 0 \/ j < nMaxFileCounts - 1 \/ j >= i + 1
                            /\ \A k \in 0..j : (k = 0 \/ k < nMaxFileCounts - 1) => k \in Numbers'
          BY <1>1, <2>1 DEF Removing
        <4>1. /\ j \in Nat /\ j \in Numbers
              /\ j = 0 \/ j < nMaxFileCounts - 1 \/ j >= i
              /\ \A k \in 0..j : (k = 0 \/ k < nMaxFileCounts - 1) => k \in Numbers
          BY <1>2, <1>4, <2>4, <2>10 DEF Removing
        <4>2. CASE i = 0
          BY <1>3, <2>3, <4>1, <4>2
        <4>3. CASE i # 0
          <5>1. j # i /\ Numbers' = Numbers \ {i}
            BY <2>3, <4>3
          <5>2. \A k \in 0..j : (k = 0 \/ k < nMaxFileCounts - 1) => k # i
            BY <1>3, <4>3
          <5> QED BY <1>3, <4>1, <5>1, <5>2
        <4> QED BY <4>2, <4>3
      <3>2. Indexed'
        BY <1>1, <1>4, <2>4, <2>10 DEF Indexed
      <3> QED BY <2>1, <3>1, <3>2 DEF Shape, Rolling
    <2> QED BY <2>2, <2>5, <2>6, <2>7, <2>9, <2>10 DEF Control
  <1>b. CASE ~(i <= nLogFileIndex)
    <2>1. i' = nLogFileIndex /\ pc' = "rename" /\ UNCHANGED <<file, removed, early, rolled, torn>>
      BY <1>1, <1>b DEF RemoveOld, rolls
    <2>2. Numbers' = Numbers
      BY <2>1 DEF Numbers
    <2>3. StateTyped'
      BY <1>1, <1>2, <1>3, <2>1, <2>2 DEF StateTyped, PC
    <2>4. Places'
      <3>1. nLogFileIndex \in -1..nLogFileIndex /\ nLogFileIndex # -1
        BY <1>3
      <3> QED BY <1>1, <1>2, <2>1, <3>1 DEF Places, Rolling
    <2>5. Counted'
      BY <2>1 DEF Counted
    <2>6. KeptUnlessTorn'
      BY <1>2, <2>1 DEF KeptUnlessTorn
    <2>7. ASSUME ~torn
          PROVE  Shape'
      <3> DEFINE n == nLogFileIndex
      <3>1. ASSUME NEW j \in Numbers
            PROVE  /\ j =< n => (j = 0 \/ j < nMaxFileCounts - 1) /\ 0..j \subseteq Numbers
                   /\ j > n =>
                        /\ j =< n + 1
                        /\ j =< nMaxFileCounts - 1 \/ j = 1
                        /\ 0..n \subseteq Numbers
                        /\ (n + 2)..j \subseteq Numbers
                   /\ j = n + 1 => nMaxFileCounts = 1
        <4>1. /\ j \in Nat /\ n \in Nat /\ i > n
              /\ j = 0 \/ j < nMaxFileCounts - 1 \/ j >= i
              /\ \A k \in 0..j : (k = 0 \/ k < nMaxFileCounts - 1) => k \in Numbers
              /\ j =< n \/ (nMaxFileCounts = 1 /\ j = 1)
          BY <1>2, <1>3, <1>4, <1>b, <2>7 DEF Removing, Indexed
        <4> HIDE DEF n
        <4>2. CASE j =< n
          BY <1>3, <4>1, <4>2
        <4>3. CASE j > n
          <5>1. nMaxFileCounts = 1 /\ j = 1 /\ n = 0
            BY <4>1, <4>3
          <5>2. 0 \in Numbers
            BY <4>1
          <5> QED BY <5>1, <5>2
        <4> QED BY <4>1, <4>2, <4>3
      <3>2. Renaming'
        BY <1>1, <2>1, <2>2, <3>1 DEF Renaming
      <3> QED BY <2>1, <3>2 DEF Shape, Rolling
    <2> QED BY <2>1, <2>3, <2>4, <2>5, <2>6, <2>7 DEF Control
  <1> QED BY <1>a, <1>b

LEMMA ControlOfRename ==
    ASSUME IInv, Rename
    PROVE  Control'
  <1> DEFINE n == nLogFileIndex
             C == nMaxFileCounts
  <1>1. /\ pc = "rename" /\ i >= 0 /\ i' = i - 1
        /\ UNCHANGED <<buffer, m_lstLogEntitys, fp, nWritedSize, nLogFileIndex, nMaxFileSize,
                       nMaxFileCounts, pc, runs>>
    BY DEF Rename, queues, appender
  <1>2. /\ Data /\ StateTyped /\ Places /\ KeptUnlessTorn /\ (~torn => Shape)
        /\ Numbers \subseteq Nat /\ IsFiniteSet(Numbers)
    BY DataFacts DEF IInv, Control
  <1>3. /\ C \in Nat \ {0} /\ n \in Nat /\ i \in Nat /\ i =< n /\ i - 1 \in -1..n
        /\ ~fp /\ m_lstLogEntitys # <<>> /\ buffer = <<>> /\ early \in BOOLEAN
    <2>1. C \in Nat \ {0} /\ n \in Nat /\ i \in -1..n
          /\ ~fp /\ m_lstLogEntitys # <<>> /\ buffer = <<>> /\ early \in BOOLEAN
      BY <1>1, <1>2 DEF StateTyped, Places, Rolling
    <2> QED BY <1>1, <2>1
  <1>4. ~torn => \A j \in Numbers :
            /\ j =< i => (j = 0 \/ j < C - 1) /\ 0..j \subseteq Numbers
            /\ j > i =>
                /\ j =< n + 1
                /\ j =< C - 1 \/ j = 1
                /\ 0..i \subseteq Numbers
                /\ (i + 2)..j \subseteq Numbers
            /\ j = i + 1 => C = 1
    BY <1>1, <1>2 DEF Shape, Renaming
  <1>5. UNCHANGED <<rolled, torn>>
    BY DEF Rename, Removes, rolls
  <1> HIDE DEF n, C
  <1>6. /\ i = 0 => 0 \notin Numbers'
        /\ ~torn => \A j \in Numbers' :
              /\ j =< i - 1 => (j = 0 \/ j < C - 1) /\ 0..j \subseteq Numbers'
              /\ j > i - 1 =>
                  /\ j =< n + 1
                  /\ j =< C - 1 \/ j = 1
                  /\ 0..(i - 1) \subseteq Numbers'
                  /\ (i + 1)..j \subseteq Numbers'
              /\ j # i
        /\ ~torn => early' = early
        /\ early' \in BOOLEAN
        /\ Numbers' \subseteq Nat
    <2>1. CASE i \in Numbers
      <3>1. /\ Numbers' = (Numbers \ {i}) \cup {i + 1} /\ i # i + 1 /\ 0 # i + 1
        BY <1>2, <1>3, <2>1, FilesAfterRename
      <3>2. early' \in BOOLEAN
        BY <1>3, <2>1 DEF Rename, Removes, Downwards, Numbers
      <3>3. ASSUME ~torn
            PROVE  early' = early
        <4>1. Removes(i + 1) /\ i + 1 \in Int
          BY <1>3, <2>1 DEF Rename, Downwards, Numbers
        <4>2. ASSUME i + 1 \in Numbers
              PROVE  i + 1 >= C - 1 /\ 0..(C - 2) \subseteq Numbers
          <5>1. C = 1
            BY <1>3, <1>4, <3>3, <4>2
          <5> QED BY <1>3, <5>1
        <4> QED BY <1>2, <1>3, <4>1, <4>2, NewerAreKept DEF C
      <3>4. ASSUME ~torn, NEW j \in Numbers'
            PROVE  /\ j =< i - 1 => (j = 0 \/ j < C - 1) /\ 0..j \subseteq Numbers'
                   /\ j > i - 1 =>
                       /\ j =< n + 1
                       /\ j =< C - 1 \/ j = 1
                       /\ 0..(i - 1) \subseteq Numbers'
                       /\ (i + 1)..j \subseteq Numbers'
                   /\ j # i
        <4>1. (i = 0 \/ i < C - 1) /\ 0..i \subseteq Numbers
          BY <1>3, <1>4, <2>1, <3>4
        <4>2. 0..(i - 1) \subseteq Numbers'
          BY <1>3, <3>1, <4>1
        <4>3. CASE j = i + 1
          BY <1>3, <3>1, <4>1, <4>2, <4>3
        <4>4. CASE j # i + 1
          <5>1. j \in Numbers /\ j \in Nat /\ j # i
            BY <1>2, <3>1, <4>4
          <5>2. CASE j < i
            <6>1. (j = 0 \/ j < C - 1) /\ 0..j \subseteq Numbers
              BY <1>3, <1>4, <3>4, <5>1, <5>2
            <6> QED BY <1>3, <3>1, <5>1, <5>2, <6>1
          <5>3. CASE j > i
            <6>1. j =< n + 1 /\ (j =< C - 1 \/ j = 1) /\ (i + 2)..j \subseteq Numbers
              BY <1>3, <1>4, <3>4, <5>1, <5>3
            <6>2. (i + 1)..j \subseteq Numbers'
              BY <1>3, <3>1, <5>1, <6>1
            <6> QED BY <1>3, <4>2, <5>1, <5>3, <6>1, <6>2
          <5> QED BY <1>3, <5>1, <5>2, <5>3
        <4> QED BY <4>3, <4>4
      <3>5. Numbers' \subseteq Nat
        BY <1>2, <1>3, <3>1
      <3> QED BY <3>1, <3>2, <3>3, <3>4, <3>5
    <2>2. CASE i \notin Numbers
      <3>1. Numbers' = Numbers /\ early' = early
        BY <2>2 DEF Rename, Downwards, Numbers, rolls
      <3>2. ASSUME ~torn, NEW j \in Numbers
            PROVE  j < i /\ (j = 0 \/ j < C - 1) /\ 0..j \subseteq Numbers
        <4>1. j \in Nat /\ j # i /\ i \in 0..i
          BY <1>2, <1>3, <2>2
        <4>2. ~(j > i)
          BY <1>4, <2>2, <3>2, <4>1
        <4> QED BY <1>3, <1>4, <3>2, <4>1, <4>2
      <3>3. \A j \in Numbers : j \in Nat /\ (j < i => j =< i - 1 /\ ~(j > i - 1) /\ j # i)
        BY <1>2, <1>3
      <3> QED BY <1>2, <1>3, <2>2, <3>1, <3>2, <3>3
    <2> QED BY <2>1, <2>2
  <1>7. StateTyped'
    BY <1>1, <1>2, <1>3, <1>5, <1>6 DEF StateTyped
  <1>8. Places'
    <2>1. i' \in -1..nLogFileIndex' /\ (i' = -1 => 0 \notin Numbers')
      BY <1>1, <1>3, <1>6 DEF n
    <2> QED BY <1>1, <1>2, <2>1 DEF Places, Rolling
  <1>9. Counted'
    BY <1>1 DEF Counted
  <1>10. KeptUnlessTorn'
    BY <1>2, <1>5, <1>6 DEF KeptUnlessTorn
  <1>11. ASSUME ~torn
         PROVE  Shape'
    <2>1. i - 1 + 1 = i /\ i - 1 + 2 = i + 1
      BY <1>3
    <2>2. Renaming'
      BY <1>1, <1>6, <1>11, <2>1 DEF Renaming, n, C
    <2> QED BY <1>1, <2>2 DEF Shape, Rolling
  <1> QED BY <1>5, <1>7, <1>8, <1>9, <1>10, <1>11 DEF Control

LEMMA ControlOfEndRoll ==
    ASSUME IInv, EndRoll
    PROVE  Control'
  <1>1. /\ pc = "rename" /\ i < 0 /\ nLogFileIndex' = NextIndex /\ nWritedSize' = 0
        /\ rolled' = TRUE /\ pc' = "open"
        /\ UNCHANGED <<file, buffer, m_lstLogEntitys, fp, nMaxFileSize, nMaxFileCounts, i, runs,
                       early, torn>>
    BY DEF EndRoll, queues, appender
  <1>2. /\ Data /\ StateTyped /\ Places /\ KeptUnlessTorn /\ (~torn => Shape)
        /\ Numbers \subseteq Nat
    BY DataFacts DEF IInv, Control
  <1>3. /\ nMaxFileCounts \in Nat \ {0} /\ nLogFileIndex \in Nat /\ i = -1 /\ 0 \notin Numbers
        /\ ~fp /\ m_lstLogEntitys # <<>> /\ buffer = <<>>
    <2>1. nMaxFileCounts \in Nat \ {0} /\ nLogFileIndex \in Nat /\ i \in -1..nLogFileIndex
          /\ (i = -1 => 0 \notin Numbers) /\ ~fp /\ m_lstLogEntitys # <<>> /\ buffer = <<>>
      BY <1>1, <1>2 DEF StateTyped, Places, Rolling
    <2> QED BY <1>1, <2>1
  <1>4. Numbers' = Numbers
    BY <1>1 DEF Numbers
  <1>5. NextIndex \in Nat
    BY <1>3 DEF NextIndex
  <1>6. StateTyped'
    BY <1>1, <1>2, <1>3, <1>4, <1>5 DEF StateTyped, PC
  <1>7. Places'
    BY <1>1, <1>2 DEF Places, Rolling
  <1>8. Counted'
    <2>1. SizeOnDisk' = 0
      BY <1>1, <1>3 DEF SizeOnDisk, Numbers
    <2>2. Len(buffer') = 0
      BY <1>1, <1>3, AscendingEmpty
    <2> QED BY <1>1, <2>1, <2>2 DEF Counted
  <1>9. KeptUnlessTorn'
    BY <1>1, <1>2 DEF KeptUnlessTorn
  <1>10. ASSUME ~torn
         PROVE  Shape'
    <2>1. ASSUME NEW j \in Numbers
          PROVE  /\ j \in Nat /\ j # 0
                 /\ j =< nLogFileIndex + 1
                 /\ j =< nMaxFileCounts - 1 \/ j = 1
                 /\ 1..j \subseteq Numbers
      <3>1. j \in Nat /\ j # 0 /\ j > i /\ i + 2 = 1
        BY <1>2, <1>3
      <3> QED BY <1>1, <1>2, <1>10, <3>1 DEF Shape, Renaming
    <2>2. \A j \in Numbers : 1..j \subseteq Numbers
      BY <2>1
    <2>3. Few'
      BY <1>1, <1>4, <2>1 DEF Few
    <2>4. Indexed'
      <3> SUFFICES ASSUME NEW j \in Numbers
                   PROVE  j =< NextIndex \/ (nMaxFileCounts = 1 /\ j = 1)
        BY <1>1, <1>4 DEF Indexed
      <3> QED BY <1>3, <2>1 DEF NextIndex
    <2> QED BY <1>1, <1>4, <2>2, <2>3, <2>4 DEF Shape, Rolling
  <1> QED BY <1>1, <1>6, <1>7, <1>8, <1>9, <1>10 DEF Control

LEMMA ControlOfOpen ==
    ASSUME IInv, Open
    PROVE  Control'
  <1>1. /\ pc = "open" /\ fp' = TRUE /\ pc' = "put"
        /\ UNCHANGED <<buffer, m_lstLogEntitys, nWritedSize, nLogFileIndex, nMaxFileSize,
                       nMaxFileCounts, i, runs, early, rolled, torn>>
    BY DEF Open, queues, appender, rolls
  <1>2. /\ Data /\ StateTyped /\ Places /\ Counted /\ KeptUnlessTorn /\ (~torn => Shape)
        /\ Numbers \subseteq Nat
    BY DataFacts DEF IInv, Control
  <1>3. Numbers' = Numbers \cup {0} /\ SizeOnDisk' = SizeOnDisk
    BY FilesAfterOpen
  <1>4. StateTyped'
    BY <1>1, <1>2, <1>3 DEF StateTyped, PC
  <1>5. Places'
    BY <1>1, <1>2 DEF Places, Rolling
  <1>6. Counted'
    BY <1>1, <1>2, <1>3 DEF Counted
  <1>7. KeptUnlessTorn'
    BY <1>1, <1>2 DEF KeptUnlessTorn
  <1>8. ASSUME ~torn
        PROVE  Shape'
    <2>1. (\A j \in Numbers : 1..j \subseteq Numbers) /\ (rolled => Few) /\ Indexed
      BY <1>1, <1>2, <1>8 DEF Shape
    <2>2. \A j \in Numbers' : 1..j \subseteq Numbers'
      BY <1>3, <2>1
    <2>3. rolled' => Few'
      BY <1>1, <1>3, <2>1 DEF Few
    <2>4. Indexed'
      <3>1. 0 =< nLogFileIndex
        BY <1>2 DEF StateTyped
      <3> QED BY <1>1, <1>3, <2>1, <3>1 DEF Indexed
    <2> QED BY <1>1, <1>3, <2>2, <2>3, <2>4 DEF Shape, Rolling
  <1> QED BY <1>1, <1>4, <1>5, <1>6, <1>7, <1>8 DEF Control

LEMMA ControlOfPut ==
    ASSUME IInv, Put
    PROVE  Control'
  <1> DEFINE h == Head(m_lstLogEntitys)
  <1>1. /\ pc = "put" /\ pc' = "entry"
        /\ \/ buffer' = Append(buffer, h) /\ nWritedSize' = nWritedSize + 1
           \/ UNCHANGED <<buffer, nWritedSize>>
        /\ UNCHANGED <<file, fp, nLogFileIndex, nMaxFileSize, nMaxFileCounts, i, runs, early,
                       rolled, torn>>
    BY DEF Put, appender, rolls
  <1>2. /\ Data /\ StateTyped /\ Places /\ Counted /\ KeptUnlessTorn /\ (~torn => Shape)
        /\ fp /\ m_lstLogEntitys \in Seq(Entries) /\ m_lstLogEntitys # <<>>
        /\ buffer \in Seq(Entries) /\ Entries \in SUBSET Int
    BY <1>1, DataFacts DEF IInv, Control, Places, DataTyped
  <1>3. Numbers' = Numbers /\ SizeOnDisk' = SizeOnDisk
    BY <1>1 DEF Numbers, SizeOnDisk
  <1>4. nWritedSize' \in Nat /\ nWritedSize' = SizeOnDisk' + Len(buffer')
    <2>1. nWritedSize = SizeOnDisk + Len(buffer) /\ nWritedSize \in Nat
      BY <1>1, <1>2 DEF Counted, StateTyped
    <2>2. SizeOnDisk \in Nat /\ Len(buffer) \in Nat
      BY <1>2, SizeOnDiskIsNat
    <2>3. Len(Append(buffer, h)) = Len(buffer) + 1
      <3>1. h \in Entries
        BY <1>2, AscendingTail
      <3> QED BY <1>2, <3>1, AscendingAppend
    <2> HIDE DEF h
    <2>4. CASE buffer' = Append(buffer, h) /\ nWritedSize' = nWritedSize + 1
      <3>1. Len(buffer') = Len(buffer) + 1
        BY <2>3, <2>4
      <3> QED BY <1>3, <2>1, <2>2, <2>4, <3>1
    <2>5. CASE UNCHANGED <<buffer, nWritedSize>>
      BY <1>3, <2>1, <2>5
    <2> QED BY <1>1, <2>4, <2>5
  <1>5. StateTyped'
    BY <1>1, <1>2, <1>3, <1>4 DEF StateTyped, PC
  <1>6. Places'
    BY <1>1, <1>2 DEF Places, Rolling
  <1>7. Counted'
    BY <1>1, <1>4 DEF Counted
  <1>8. KeptUnlessTorn'
    BY <1>1, <1>2 DEF KeptUnlessTorn
  <1>9. ~torn => Shape'
    BY <1>1, <1>2, <1>3, ShapeKept DEF Rolling
  <1> QED BY <1>1, <1>5, <1>6, <1>7, <1>8, <1>9 DEF Control

LEMMA ControlOfEnd ==
    ASSUME IInv, Exit \/ Crash
    PROVE  Control'
  <1>1. PICK k \in 0..Len(buffer) : Ends(k)
    <2>1. Len(buffer) \in 0..Len(buffer)
      BY SizeOnDiskIsNat DEF IInv
    <2> QED BY <2>1 DEF Exit, Crash
  <1>2. /\ buffer' = <<>> /\ m_lstLogEntitysTmp' = <<>> /\ m_lstLogEntitys' = <<>>
        /\ fp' = FALSE /\ pc' = "down" /\ pc # "down"
        /\ UNCHANGED <<nWritedSize, nLogFileIndex, nMaxFileSize, nMaxFileCounts, i, runs,
                       early, rolled>>
        /\ torn' \in BOOLEAN
        /\ (torn => torn') /\ (~torn' => pc \notin Rolling)
    <2>1. pc # "down" /\ torn' \in BOOLEAN /\ (torn => torn') /\ (~torn' => pc \notin Rolling)
      <3>1. CASE Exit
        BY <3>1 DEF Exit, IInv, Control, StateTyped, Rolling
      <3>2. CASE Crash
        BY <3>2 DEF Crash
      <3> QED BY <3>1, <3>2
    <2> QED BY <1>1, <2>1 DEF Ends, appender
  <1>3. /\ Data /\ StateTyped /\ Places /\ KeptUnlessTorn /\ (~torn => Shape)
    BY DEF IInv, Control
  <1>4. Numbers' = Numbers
    BY <1>1, <1>3, FilesAfterFlush DEF Ends, Flushes
  <1>5. StateTyped'
    BY <1>2, <1>3, <1>4 DEF StateTyped, PC
  <1>6. Places'
    BY <1>2, <1>3 DEF Places, Rolling
  <1>7. Counted'
    BY <1>2 DEF Counted
  <1>8. KeptUnlessTorn'
    BY <1>2, <1>3 DEF KeptUnlessTorn
  <1>9. ASSUME ~torn'
        PROVE  Shape'
    <2>1. Shape /\ pc \notin Rolling
      BY <1>2, <1>3, <1>9
    <2>2. /\ \A j \in Numbers : 1..j \subseteq Numbers
          /\ rolled => Few
          /\ Numbers # {} => 0 \in Numbers
      BY <2>1 DEF Shape, Rolling
    <2> QED BY <1>2, <1>4, <2>2 DEF Shape, Few, Rolling
  <1> QED BY <1>5, <1>6, <1>7, <1>8, <1>9 DEF Control

LEMMA ControlStep ==
    ASSUME IInv, [Next]_vars
    PROVE  Control'
  <1>1. ASSUME NEW c \in Configs, Start(c) PROVE Control'
    BY <1>1, ControlOfStart
  <1>2. CASE Log
    BY <1>2, ControlOfLog
  <1>3. CASE BeginPass \/ NoRoll \/ EndPass
    BY <1>3, ControlOfPass
  <1>4. CASE BeginRoll
    BY <1>4, ControlOfBeginRoll
  <1>5. CASE RemoveOld
    BY <1>5, ControlOfRemoveOld
  <1>6. CASE Rename
    BY <1>6, ControlOfRename
  <1>7. CASE EndRoll
    BY <1>7, ControlOfEndRoll
  <1>8. CASE Open
    BY <1>8, ControlOfOpen
  <1>9. CASE Put
    BY <1>9, ControlOfPut
  <1>10. CASE Exit \/ Crash
    BY <1>10, ControlOfEnd
  <1>11. CASE UNCHANGED vars
    <2> USE <1>11 DEF vars, queues, appender, fates, rolls, IInv, Control
    <2>1. Numbers' = Numbers /\ SizeOnDisk' = SizeOnDisk
      BY DEF Numbers, SizeOnDisk
    <2>2. StateTyped' /\ Places' /\ Counted' /\ KeptUnlessTorn'
      BY <2>1 DEF StateTyped, Places, Counted, KeptUnlessTorn
    <2>3. Shape' = Shape
      BY <2>1 DEF Shape, Few, Indexed, Removing, Renaming
    <2> QED BY <2>2, <2>3
  <1> QED BY <1>1, <1>2, <1>3, <1>4, <1>5, <1>6, <1>7, <1>8, <1>9, <1>10, <1>11 DEF Next
-----------------------------------------------------------------------------
LEMMA InitHoldsIInv == Init => IInv
  <1> SUFFICES ASSUME Init PROVE IInv
    OBVIOUS
  <1> USE DEF Init
  <1>0. MaxMove \in Nat /\ 0 \in 0..MaxEntries /\ 0 \in 0..MaxRuns
    <2>1. MaxMove \in Nat /\ MaxEntries \in Nat /\ MaxRuns \in Nat
      BY LogRollingAssumption
    <2> QED BY <2>1
  <1>1. Numbers = {} /\ Filed = {} /\ Entries = {}
    <2>1. Numbers = {}
      <3>1. DOMAIN <<>> = {}
        OBVIOUS
      <3> QED BY <3>1 DEF Numbers
    <2>2. Entries = {}
      BY DEF Entries
    <2> QED BY <2>1, <2>2 DEF Filed, Numbers
  <1>2. <<>> \in Seq(Entries) /\ Len(<<>>) = 0 /\ ToSet(<<>>) = {} /\ Ascending(<<>>)
    BY AscendingEmpty
  <1>3. DataTyped
    BY <1>0, <1>1, <1>2 DEF DataTyped
  <1>4. IsFiniteSet(Numbers)
    BY <1>1, FS_EmptySet
  <1>5. Sizes
    <2>1. SizeOnDisk = 0 /\ Len(buffer) = 0
      BY <1>1, <1>2 DEF SizeOnDisk, Numbers
    <2> QED BY <1>1, <2>1 DEF Sizes, SizeBounded
  <1>6. EntriesInOrder
    BY <1>1, <1>2 DEF EntriesInOrder, Precede, Numbers
  <1>7. Lost
    BY <1>1, <1>2 DEF Lost, Partition, Pipeline
  <1>8. StateTyped /\ Places /\ Counted /\ KeptUnlessTorn
    <2>1. StateTyped
      <3>1. fp \in BOOLEAN /\ ~fp /\ buffer = <<>>
            /\ early \in BOOLEAN /\ rolled \in BOOLEAN /\ torn \in BOOLEAN
        OBVIOUS
      <3>2. /\ nWritedSize \in Nat /\ nLogFileIndex \in Nat /\ nMaxFileSize \in Nat
            /\ nMaxFileCounts \in Nat /\ i \in Int
        OBVIOUS
      <3>3. pc \in PC /\ runs \in 0..MaxRuns
        BY <1>0 DEF PC
      <3> HIDE DEF Init
      <3> QED BY <3>1, <3>2, <3>3, Zenon DEF StateTyped
    <2>2. Places
      BY DEF Places, Rolling
    <2>3. Counted
      BY DEF Counted
    <2>4. KeptUnlessTorn
      BY DEF KeptUnlessTorn
    <2> QED BY <2>1, <2>2, <2>3, <2>4
  <1>9. Shape
    BY <1>1 DEF Shape, Rolling
  <1> QED BY <1>3, <1>4, <1>5, <1>6, <1>7, <1>8, <1>9, LostMeans DEF IInv, Data, Control

LEMMA IInvAlways == Spec => []IInv
  <1>1. IInv /\ [Next]_vars => IInv'
    BY DataStep, ControlStep DEF IInv
  <1> QED BY InitHoldsIInv, <1>1, PTL DEF Spec

(* Every variable keeps its type, and the writer never takes more entries in *)
(* a pass than OnExecute's limit.                                            *)
THEOREM LogIsTyped == Spec => []TypeOK
  <1>1. IInv => TypeOK
    BY DEF IInv, Data, Control, DataTyped, StateTyped, TypeOK, Numbers
  <1> QED BY <1>1, IInvAlways, PTL

(* Over rolls, restarts and crashes, no file holds an entry older than one   *)
(* of a file with a higher number, and within a file, the buffer and the     *)
(* queues the entries ascend: renaming downwards never swaps two files, and  *)
(* what the buffer passes on a crash is a prefix of it.                      *)
THEOREM LogKeepsTheOrder == Spec => []EntriesInOrder
  <1>1. IInv => EntriesInOrder
    BY DEF IInv, Data
  <1> QED BY <1>1, IInvAlways, PTL

(* Every entry logged is in exactly one of the places where it may be: in    *)
(* the pipeline, filtered, in a file that a roll removed, or lost with the   *)
(* queues or the buffer when the program ended.                              *)
THEOREM LogAccountsForAll == Spec => []NothingElseLost
  <1>1. IInv => NothingElseLost
    BY DEF IInv, Data
  <1> QED BY <1>1, IInvAlways, PTL

(* A full file gets no further entry, and a roll that no crash tore leaves   *)
(* no more files than configured (one backup at least), however many the     *)
(* runs before kept.                                                         *)
THEOREM LogFilesBounded == Spec => []FilesBounded
  <1>1. ASSUME IInv
        PROVE  FilesBounded
    <2>1. /\ Data /\ StateTyped /\ Places /\ Sizes /\ (~torn => Shape)
          /\ Numbers \subseteq Nat /\ IsFiniteSet(Numbers)
      BY <1>1, DataFacts DEF IInv, Control
    <2>2. ASSUME NEW k \in Numbers
          PROVE  SizeBounded(IF k = 0 THEN Len(file[0]) + Len(buffer) ELSE Len(file[k]))
      BY <2>1 DEF Sizes, SizeOnDisk, Numbers
    <2>3. ASSUME rolled, pc \notin Rolling, ~torn
          PROVE  Cardinality(Numbers \ {0})
                   <= (IF nMaxFileCounts = 1 THEN 1 ELSE nMaxFileCounts - 1)
      <3> DEFINE m == IF nMaxFileCounts = 1 THEN 1 ELSE nMaxFileCounts - 1
      <3>1. Few
        BY <2>1, <2>3 DEF Shape, Rolling
      <3>2. nMaxFileCounts \in Nat /\ nMaxFileCounts # 0
        BY <2>1, <2>3 DEF Places, StateTyped
      <3>3. m \in Nat /\ Numbers \ {0} \subseteq 1..m
        BY <2>1, <3>1, <3>2 DEF Few
      <3> HIDE DEF m
      <3>4. IsFiniteSet(1..m) /\ Cardinality(1..m) = m
        BY <3>3, FS_Interval
      <3>5. Cardinality(Numbers \ {0}) <= m
        BY <3>3, <3>4, FS_Subset
      <3> QED BY <3>5 DEF m
    <2> QED BY <2>2, <2>3 DEF FilesBounded, SizeBounded, Numbers
  <1> QED BY <1>1, IInvAlways, PTL

(* While no crash has torn a roll, a file is removed only when as many newer *)
(* ones are there as are to be kept.                                         *)
THEOREM LogKeepsTheNewest == Spec => []KeptUnlessTorn
  <1>1. IInv => KeptUnlessTorn
    BY DEF IInv, Control
  <1> QED BY <1>1, IInvAlways, PTL
=============================================================================
