----------------------------- MODULE CfgFileProofs -----------------------------
(***************************************************************************)
(* The properties of CfgFile hold for every set of processes, of settings  *)
(* and of values, whatever their lengths.  A write leaves, between the new *)
(* content and the old end of the file, what it did not cover of the old   *)
(* content; IInv says why nothing is ever read from there: modules and     *)
(* items are found where they are first, and these places are whole.       *)
(***************************************************************************)
EXTENDS CfgFile, BasicLemmas, FiniteSetTheorems

Buffers == Seq(Blocks)
Modules == {s[1] : s \in Settings}
IsBegin(b) == b.flag = "module begin"
IsItem(b) == b.flag = "item begin"

(* What a value may hold that is not taken for an item or a module.          *)
InnerFlags == {"data", "item end", "module end"}

(* A module goes on to an end before another begins.                         *)
Closed(buf) ==
    \A i \in DOMAIN buf : IsBegin(buf[i]) =>
        /\ \E m \in Modules : buf[i] = MODULE_BEGIN(m)
        /\ \E e \in (i + 1)..Len(buf) :
              buf[e] = MODULE_END /\ \A j \in (i + 1)..e : ~IsBegin(buf[j])

(* The first module of a name has an end, and none begins before it.         *)
Ended(buf) ==
    \A m \in Modules : pModuleStart(buf, m) > 0 =>
        /\ pModuleEnd(buf, m) > 0
        /\ \A j \in InModule(buf, m) : ~IsBegin(buf[j])

(* The item at i is as long as it says, and ends before e.                   *)
Whole(buf, i, e) ==
    /\ buf[i].len \in Nat
    /\ i + buf[i].len + 1 < e
    /\ buf[i + buf[i].len + 1] = ITEM_END
    /\ \A j \in (i + 1)..(i + buf[i].len) : buf[j].flag \in InnerFlags

Items(buf) ==
    \A m \in Modules : pModuleStart(buf, m) > 0 =>
        \A i \in InModule(buf, m) :
            IsItem(buf[i]) => Whole(buf, i, pModuleEnd(buf, m))

(* An item of a later module of the same name is in the first as well.       *)
OpenAt(buf, b, i) ==
    /\ b < i
    /\ IsBegin(buf[b])
    /\ \A j \in b..i : buf[j] # MODULE_END

Keys(buf) ==
    \A b, i \in DOMAIN buf :
        OpenAt(buf, b, i) /\ IsItem(buf[i]) => pKeyStart(buf, buf[b].name, buf[i].name) > 0

(* No value of the first modules holds FLAG_MODULE_END.                      *)
Plain(buf) ==
    \A m \in Modules : pModuleStart(buf, m) > 0 =>
        \A i \in InModule(buf, m) : buf[i] # MODULE_END

Good(buf) == Closed(buf) /\ Ended(buf) /\ Items(buf) /\ Keys(buf)

Spoilt == flaws \cap {"raced", "torn", "shorter", "begun", "framed"} # {}

Disk ==
    /\ file # <<>> => Len(file) >= 2 /\ Last(file) = Padding
    /\ cut = 1
    /\ ~exists => file = <<>>

(* What a process that nobody overtook is about to write.                    *)
Unraced(p) ==
    base[p] = writes =>
        /\ pc[p] = "create" => ~exists
        /\ pc[p] = "write" =>
             pNewBuffer[p] = Encrypted(NewBuffer(pBuffer, place[p][1], place[p][2], value[p]))

Reads == \A s \in Places : GetCfg(pBuffer, s[1], s[2]) = settings[s]

Arguments ==
    \A p \in Procs :
        /\ pc[p] # "idle" => \E s \in Settings : place[p] = <<s[1], s[2]>> /\ value[p] = s[3]
        /\ pc[p] \in {"open", "write"} => exists

(* Each call of SetCfg changes the file twice at most.                       *)
Calling == {p \in Procs : pc[p] \in {"open", "create", "write"}}
Opening == {p \in Procs : pc[p] \in {"open", "create"}}

Budget ==
    /\ IsFiniteSet(Calling)
    /\ writes + Cardinality(Calling) + Cardinality(Opening) <= 2 * sets

Counted == TypeOK /\ Arguments /\ Budget

Content ==
    /\ ~Spoilt => Disk /\ (\A p \in Procs : Unraced(p)) /\ Good(pBuffer) /\ Reads
    /\ flaws = {} => Plain(pBuffer)

IInv == Counted /\ Content
-----------------------------------------------------------------------------
(* First: the least of a set of positions, 0 of none.                        *)
LEMMA FirstFound ==
    ASSUME NEW S \in SUBSET (Nat \ {0})
    PROVE  /\ First(S) \in Nat
           /\ First(S) > 0 => First(S) \in S /\ \A j \in S : First(S) <= j
           /\ First(S) = 0 => S = {}
  <1>1. CASE S = {}
    BY <1>1 DEF First
  <1>2. CASE S # {}
    <2>1. \E i \in S : \A j \in S : i <= j
      BY <1>2, LeastNat
    <2> QED BY <1>2, <2>1 DEF First
  <1> QED BY <1>1, <1>2

LEMMA FirstIs ==
    ASSUME NEW S \in SUBSET (Nat \ {0}), NEW i \in S, \A j \in S : i <= j
    PROVE  First(S) = i
  <1>1. First(S) # 0
    BY FirstFound
  <1>2. First(S) \in Nat /\ First(S) \in S /\ First(S) <= i
    <2>1. First(S) \in Nat /\ First(S) > 0
      BY <1>1, FirstFound
    <2> QED BY <2>1, FirstFound
  <1>3. i \in Nat /\ i <= First(S)
    BY <1>2
  <1> QED BY <1>2, <1>3

(* What the searches find, position by position.                             *)
IsStart(buf, m, s) ==
    /\ s \in DOMAIN buf
    /\ buf[s] = MODULE_BEGIN(m)
    /\ \A i \in 1..(s - 1) : buf[i] # MODULE_BEGIN(m)

IsEnd(buf, s, e) ==
    /\ e \in (s + 2)..Len(buf)
    /\ buf[e] = MODULE_END
    /\ buf[e - 1] = ITEM_END
    /\ \A i \in (s + 2)..(e - 1) : ~(buf[i] = MODULE_END /\ buf[i - 1] = ITEM_END)

IsKey(buf, k, i) == buf[i].flag = "item begin" /\ buf[i].name = k

IsKeyStart(buf, s, e, k, i) ==
    /\ i \in (s + 1)..(e - 1)
    /\ IsKey(buf, k, i)
    /\ \A j \in (s + 1)..(i - 1) : ~IsKey(buf, k, j)

LEMMA Starts ==
    ASSUME NEW buf \in Buffers, NEW m
    PROVE  /\ pModuleStart(buf, m) \in Nat
           /\ pModuleStart(buf, m) > 0 => IsStart(buf, m, pModuleStart(buf, m))
           /\ pModuleStart(buf, m) = 0 => \A i \in DOMAIN buf : buf[i] # MODULE_BEGIN(m)
           /\ \A s : IsStart(buf, m, s) => pModuleStart(buf, m) = s
  <1> DEFINE S == {i \in DOMAIN buf : buf[i] = MODULE_BEGIN(m)}
  <1>1. DOMAIN buf = 1..Len(buf) /\ Len(buf) \in Nat
    BY LenProperties DEF Buffers
  <1>2. S \in SUBSET (Nat \ {0}) /\ pModuleStart(buf, m) = First(S)
    BY <1>1 DEF pModuleStart
  <1>3. ASSUME NEW s, IsStart(buf, m, s)
        PROVE  First(S) = s
    <2>1. s \in S /\ \A j \in S : s <= j
      BY <1>1, <1>3 DEF IsStart
    <2> QED BY <1>2, <2>1, FirstIs
  <1>4. /\ First(S) \in Nat
        /\ First(S) > 0 => First(S) \in S /\ \A j \in S : First(S) <= j
        /\ First(S) = 0 => S = {}
    BY <1>2, FirstFound
  <1>5. ASSUME First(S) > 0
        PROVE  IsStart(buf, m, First(S))
    <2> DEFINE f == First(S)
    <2>1. f \in Nat /\ f \in S /\ \A j \in S : f <= j
      BY <1>4, <1>5
    <2> HIDE DEF f
    <2>2. \A i \in 1..(f - 1) : i \notin S
      BY <1>1, <2>1
    <2>3. IsStart(buf, m, f)
      BY <1>1, <2>1, <2>2 DEF IsStart
    <2> QED BY <2>3 DEF f
  <1> QED BY <1>2, <1>3, <1>4, <1>5

LEMMA Ends ==
    ASSUME NEW buf \in Buffers, NEW m
    PROVE  LET s == pModuleStart(buf, m)
           IN  /\ pModuleEnd(buf, m) \in Nat
               /\ pModuleEnd(buf, m) > 0 => IsEnd(buf, s, pModuleEnd(buf, m))
               /\ \A e : IsEnd(buf, s, e) => pModuleEnd(buf, m) = e
  <1> DEFINE s == pModuleStart(buf, m)
             S == {i \in (s + 2)..Len(buf) : buf[i] = MODULE_END /\ buf[i - 1] = ITEM_END}
  <1>1. DOMAIN buf = 1..Len(buf) /\ Len(buf) \in Nat /\ s \in Nat
    BY LenProperties, Starts DEF Buffers
  <1>2. S \in SUBSET (Nat \ {0}) /\ pModuleEnd(buf, m) = First(S)
    BY <1>1 DEF pModuleEnd
  <1> HIDE DEF s
  <1>3. ASSUME NEW e, IsEnd(buf, s, e)
        PROVE  First(S) = e
    <2>1. e \in S /\ \A j \in S : e <= j
      BY <1>1, <1>3 DEF IsEnd
    <2> QED BY <1>2, <2>1, FirstIs
  <1>4. /\ First(S) \in Nat
        /\ First(S) > 0 => First(S) \in S /\ \A j \in S : First(S) <= j
        /\ First(S) = 0 => S = {}
    BY <1>2, FirstFound
  <1>5. ASSUME First(S) > 0
        PROVE  IsEnd(buf, s, First(S))
    <2> DEFINE f == First(S)
    <2>1. f \in Nat /\ f \in S /\ \A j \in S : f <= j
      BY <1>4, <1>5
    <2> HIDE DEF f
    <2>2. \A i \in (s + 2)..(f - 1) : i \notin S
      BY <1>1, <2>1
    <2>3. IsEnd(buf, s, f)
      BY <1>1, <2>1, <2>2 DEF IsEnd
    <2> QED BY <2>3 DEF f
  <1> QED BY <1>2, <1>3, <1>4, <1>5 DEF s

LEMMA KeyStarts ==
    ASSUME NEW buf \in Buffers, NEW m, NEW k
    PROVE  LET s == pModuleStart(buf, m)
               e == pModuleEnd(buf, m)
               ks == pKeyStart(buf, m, k)
           IN  /\ ks \in Nat
               /\ ks > 0 => IsKeyStart(buf, s, e, k, ks)
               /\ ks = 0 => \A i \in (s + 1)..(e - 1) : ~IsKey(buf, k, i)
               /\ \A i : IsKeyStart(buf, s, e, k, i) => ks = i
  <1> DEFINE s == pModuleStart(buf, m)
             e == pModuleEnd(buf, m)
             S == {i \in InModule(buf, m) : buf[i].flag = "item begin" /\ buf[i].name = k}
  <1>1. DOMAIN buf = 1..Len(buf) /\ Len(buf) \in Nat /\ s \in Nat /\ e \in Nat
    BY LenProperties, Starts, Ends DEF Buffers
  <1>2. /\ S = {i \in (s + 1)..(e - 1) : IsKey(buf, k, i)}
        /\ pKeyStart(buf, m, k) = First(S)
    BY DEF pKeyStart, InModule, IsKey
  <1> HIDE DEF s, e, S
  <1>3. S \in SUBSET (Nat \ {0})
    BY <1>1, <1>2
  <1>4. ASSUME NEW i, IsKeyStart(buf, s, e, k, i)
        PROVE  First(S) = i
    <2>1. i \in S /\ \A j \in S : i <= j
      BY <1>1, <1>2, <1>4 DEF IsKeyStart
    <2> QED BY <1>3, <2>1, FirstIs
  <1>5. /\ First(S) \in Nat
        /\ First(S) > 0 => First(S) \in S /\ \A j \in S : First(S) <= j
        /\ First(S) = 0 => S = {}
    BY <1>3, FirstFound
  <1>6. ASSUME First(S) > 0
        PROVE  IsKeyStart(buf, s, e, k, First(S))
    <2> DEFINE f == First(S)
    <2>1. f \in Nat /\ f \in S /\ \A j \in S : f <= j
      BY <1>5, <1>6
    <2> HIDE DEF f
    <2>2. \A i \in (s + 1)..(f - 1) : i \notin S
      BY <1>1, <2>1
    <2>3. IsKeyStart(buf, s, e, k, f)
      BY <1>1, <1>2, <2>1, <2>2 DEF IsKeyStart
    <2> QED BY <2>3 DEF f
  <1>7. First(S) = 0 => \A i \in (s + 1)..(e - 1) : ~IsKey(buf, k, i)
    BY <1>2, <1>5
  <1> QED BY <1>2, <1>4, <1>5, <1>6, <1>7 DEF s, e

LEMMA BlockFlags ==
    ASSUME NEW m, NEW k, NEW n
    PROVE  /\ IsBegin(MODULE_BEGIN(m)) /\ ~IsItem(MODULE_BEGIN(m))
           /\ MODULE_BEGIN(m).name = m /\ MODULE_BEGIN(m) # MODULE_END
           /\ ~IsBegin(ITEM_BEGIN(k, n)) /\ IsItem(ITEM_BEGIN(k, n))
           /\ ITEM_BEGIN(k, n).name = k /\ ITEM_BEGIN(k, n).len = n
           /\ ITEM_BEGIN(k, n) # ITEM_END /\ ITEM_BEGIN(k, n) # MODULE_END
           /\ ~IsBegin(ITEM_END) /\ ~IsItem(ITEM_END) /\ ITEM_END # MODULE_END
           /\ ~IsBegin(MODULE_END) /\ ~IsItem(MODULE_END)
           /\ ~IsBegin(Padding) /\ ~IsItem(Padding) /\ Padding # MODULE_END
           /\ ~IsBegin(Garbage(n)) /\ ~IsItem(Garbage(n)) /\ Garbage(n) # MODULE_END
  BY DEF Block, MODULE_BEGIN, ITEM_BEGIN, ITEM_END, MODULE_END, Padding, Garbage, IsBegin, IsItem

LEMMA BlocksTyped ==
    /\ \A m \in Names : MODULE_BEGIN(m) \in Blocks
    /\ \A k \in Names, n \in Int : ITEM_BEGIN(k, n) \in Blocks
    /\ \A n \in Int : Garbage(n) \in Blocks
    /\ ITEM_END \in Blocks /\ MODULE_END \in Blocks /\ Padding \in Blocks
  <1>1. \A f \in Flags, m \in Names, n \in Int : Block(f, m, n) \in Blocks
    BY DEF Block, Blocks
  <1>2. {"module begin", "item begin", "garbage", "item end", "module end", "padding"} \subseteq Flags
    BY DEF Flags, ValueFlags
  <1>3. "" \in Names /\ 0 \in Int
    BY DEF Names
  <1>4. ITEM_END \in Blocks /\ MODULE_END \in Blocks /\ Padding \in Blocks
    BY <1>1, <1>2, <1>3 DEF ITEM_END, MODULE_END, Padding
  <1>5. \A n \in Int : Garbage(n) \in Blocks
    BY <1>1, <1>2, <1>3 DEF Garbage
  <1>6. \A m \in Names : MODULE_BEGIN(m) \in Blocks
    BY <1>1, <1>2, <1>3 DEF MODULE_BEGIN
  <1>7. \A k \in Names, n \in Int : ITEM_BEGIN(k, n) \in Blocks
    BY <1>1, <1>2 DEF ITEM_BEGIN
  <1> QED BY <1>4, <1>5, <1>6, <1>7

LEMMA Positions ==
    ASSUME NEW buf \in Buffers
    PROVE  /\ Len(buf) \in Nat
           /\ DOMAIN buf = 1..Len(buf)
           /\ \A i \in 1..Len(buf) : buf[i] \in Blocks
  BY LenProperties, ElementOfSeq DEF Buffers

LEMMA WholeIs ==
    ASSUME NEW buf, NEW i, NEW e
    PROVE  Whole(buf, i, e) <=>
              \E n \in Nat : /\ buf[i].len = n
                             /\ i + n + 1 < e
                             /\ buf[i + n + 1] = ITEM_END
                             /\ \A j \in (i + 1)..(i + n) : buf[j].flag \in InnerFlags
  BY DEF Whole

(* A first module of a good buffer.                                          *)
IsModule(buf, m, s, e) ==
    /\ s = pModuleStart(buf, m)
    /\ e = pModuleEnd(buf, m)
    /\ s \in Nat /\ e \in Nat
    /\ IsStart(buf, m, s)
    /\ IsEnd(buf, s, e)
    /\ \A j \in (s + 1)..(e - 1) : ~IsBegin(buf[j])
    /\ \A i \in (s + 1)..(e - 1) : IsItem(buf[i]) => Whole(buf, i, e)

LEMMA ModuleIs ==
    ASSUME NEW buf \in Buffers, Ended(buf), Items(buf),
           NEW m \in Modules, pModuleStart(buf, m) > 0
    PROVE  IsModule(buf, m, pModuleStart(buf, m), pModuleEnd(buf, m))
  BY Starts, Ends DEF Ended, Items, InModule, IsModule

LEMMA Regions ==
    ASSUME NEW buf \in Buffers, NEW m, NEW n, m # n,
           NEW s, NEW e, IsModule(buf, m, s, e),
           NEW t, NEW f, IsModule(buf, n, t, f)
    PROVE  (t < s /\ f < s) \/ t > e
  <1>1. /\ buf[s] = MODULE_BEGIN(m) /\ buf[t] = MODULE_BEGIN(n)
        /\ buf[e] = MODULE_END /\ buf[f] = MODULE_END
        /\ s \in Nat /\ e \in Nat /\ t \in Nat /\ f \in Nat
        /\ s < e /\ t < f
        /\ t \notin (s + 1)..(e - 1)
        /\ s \notin (t + 1)..(f - 1)
    <2>1. /\ IsStart(buf, m, s) /\ IsStart(buf, n, t)
          /\ IsEnd(buf, s, e) /\ IsEnd(buf, t, f)
          /\ s \in Nat /\ e \in Nat /\ t \in Nat /\ f \in Nat
          /\ \A j \in (s + 1)..(e - 1) : ~IsBegin(buf[j])
          /\ \A j \in (t + 1)..(f - 1) : ~IsBegin(buf[j])
      BY DEF IsModule
    <2>2. /\ buf[s] = MODULE_BEGIN(m) /\ buf[t] = MODULE_BEGIN(n)
          /\ buf[e] = MODULE_END /\ buf[f] = MODULE_END
          /\ s < e /\ t < f
      BY <2>1, SMTT(40) DEF IsStart, IsEnd
    <2>3. IsBegin(buf[s]) /\ IsBegin(buf[t])
      BY <2>2, BlockFlags
    <2> QED BY <2>1, <2>2, <2>3
  <1>2. s # t /\ s # f /\ t # e
    BY <1>1, BlockFlags
  <1> QED BY <1>1, <1>2

LEMMA Segment ==
    ASSUME NEW buf \in Buffers, NEW i \in Nat, NEW n \in Nat, i + n <= Len(buf)
    PROVE  /\ SubSeq(buf, i + 1, i + n) \in Buffers
           /\ Len(SubSeq(buf, i + 1, i + n)) = n
           /\ \A t \in 1..n : SubSeq(buf, i + 1, i + n)[t] = buf[i + t]
  <1> DEFINE v == SubSeq(buf, i + 1, i + n)
  <1>1. \A t \in (i + 1)..(i + n) : buf[t] \in Blocks
    BY Positions
  <1>2. /\ v \in Seq(Blocks)
        /\ Len(v) = IF i + 1 <= i + n THEN i + n - (i + 1) + 1 ELSE 0
        /\ \A t \in 1..(i + n - (i + 1) + 1) : v[t] = buf[i + 1 + t - 1]
    BY <1>1, SubSeqProperties
  <1> HIDE DEF v
  <1>3. /\ i + n - (i + 1) + 1 = n
        /\ \A t \in 1..n : i + 1 + t - 1 = i + t
    OBVIOUS
  <1>4. Len(v) = n
    BY <1>2, <1>3
  <1> QED BY <1>2, <1>3, <1>4 DEF v, Buffers

LEMMA SameValue ==
    ASSUME NEW buf \in Buffers, NEW i \in Nat, NEW new \in Buffers, NEW j \in Nat,
           buf[i].len = new[j].len, buf[i].len \in Nat,
           i + buf[i].len <= Len(buf), j + buf[i].len <= Len(new),
           \A t \in 1..buf[i].len : new[j + t] = buf[i + t]
    PROVE  ValueAt(new, j) = ValueAt(buf, i)
  <1> DEFINE n == buf[i].len
             v == SubSeq(buf, i + 1, i + n)
             w == SubSeq(new, j + 1, j + n)
  <1>1. v \in Buffers /\ Len(v) = n /\ \A t \in 1..n : v[t] = buf[i + t]
    BY Segment, ZenonT(60)
  <1>2. w \in Buffers /\ Len(w) = n /\ \A t \in 1..n : w[t] = new[j + t]
    BY Segment, ZenonT(60)
  <1>3. \A t \in 1..n : new[j + t] = buf[i + t]
    OBVIOUS
  <1>4. ValueAt(buf, i) = v /\ ValueAt(new, j) = w
    BY DEF ValueAt
  <1> HIDE DEF n, v, w
  <1>5. v = w
    BY <1>1, <1>2, <1>3, SeqEqual, ZenonT(60) DEF Buffers
  <1> QED BY <1>4, <1>5

LEMMA GetCfgIs ==
    ASSUME NEW buf, NEW m, NEW k
    PROVE  /\ pModuleStart(buf, m) = 0 => GetCfg(buf, m, k) = None
           /\ pModuleEnd(buf, m) = 0 => GetCfg(buf, m, k) = None
           /\ pKeyStart(buf, m, k) = 0 => GetCfg(buf, m, k) = None
           /\ (pModuleStart(buf, m) # 0 /\ pModuleEnd(buf, m) # 0 /\ pKeyStart(buf, m, k) # 0)
                 => GetCfg(buf, m, k) = ValueAt(buf, pKeyStart(buf, m, k))
  BY DEF GetCfg, GetPointer

(* A module that is in another buffer too, d blocks further on.              *)
IsCopied(buf, new, s, e, d) == \A i \in s..e : new[i + d] = buf[i]

LEMMA Shifted ==
    ASSUME NEW buf \in Buffers, NEW new \in Buffers, NEW m,
           NEW s \in Nat, NEW e \in Nat, IsModule(buf, m, s, e),
           NEW d \in Int, NEW t \in Nat, NEW f \in Nat, t = s + d, f = e + d,
           f <= Len(new), IsCopied(buf, new, s, e, d),
           pModuleStart(new, m) = t, t > 0
    PROVE  /\ IsModule(new, m, t, f)
           /\ \A k : pKeyStart(buf, m, k) = 0 => pKeyStart(new, m, k) = 0
           /\ \A k : pKeyStart(buf, m, k) > 0 => pKeyStart(new, m, k) = pKeyStart(buf, m, k) + d
           /\ \A k : GetCfg(new, m, k) = GetCfg(buf, m, k)
  <1>0. /\ IsStart(buf, m, s) /\ IsEnd(buf, s, e)
        /\ s \in Nat /\ e \in Nat
        /\ s = pModuleStart(buf, m) /\ e = pModuleEnd(buf, m)
    BY DEF IsModule
  <1>1. /\ s \in Nat /\ e \in Nat /\ s \in 1..Len(buf) /\ e \in (s + 2)..Len(buf)
        /\ s = pModuleStart(buf, m) /\ e = pModuleEnd(buf, m)
        /\ Len(buf) \in Nat /\ Len(new) \in Nat
        /\ DOMAIN buf = 1..Len(buf) /\ DOMAIN new = 1..Len(new)
    BY <1>0, Positions DEF IsStart, IsEnd
  <1>2. /\ t >= 1 /\ f >= t + 2 /\ s >= 1 /\ e >= s + 2 /\ e <= Len(buf)
        /\ Len(new) \in Nat /\ Len(buf) \in Nat
    BY <1>1, SMTT(40)
  <1>2a. ASSUME NEW i \in t..f
         PROVE  i - d \in s..e /\ new[i] = buf[i - d]
    <2>1. i - d \in s..e /\ (i - d) + d = i
      BY <1>2
    <2> QED BY <2>1 DEF IsCopied
  <1>3. pModuleStart(new, m) = t
    OBVIOUS
  <1>4. IsEnd(new, t, f)
    <2>1. new[f] = MODULE_END /\ new[f - 1] = ITEM_END
      <3>1. f - 1 \in t..f /\ (f - 1) - d = e - 1 /\ f \in t..f /\ f - d = e
        BY <1>2
      <3>2. new[f] = buf[e] /\ new[f - 1] = buf[e - 1]
        BY <1>2a, <3>1
      <3> QED BY <1>0, <3>2 DEF IsEnd
    <2>2. ASSUME NEW i \in (t + 2)..(f - 1)
          PROVE  ~(new[i] = MODULE_END /\ new[i - 1] = ITEM_END)
      <3>1. /\ i \in t..f /\ i - 1 \in t..f /\ (i - 1) - d = (i - d) - 1
            /\ i - d \in (s + 2)..(e - 1)
        BY <1>2
      <3>2. new[i] = buf[i - d] /\ new[i - 1] = buf[(i - d) - 1]
        BY <1>2a, <3>1
      <3> QED BY <1>0, <3>1, <3>2 DEF IsEnd
    <2> QED BY <1>1, <1>2, <2>1, <2>2 DEF IsEnd
  <1>5. pModuleEnd(new, m) = f
    BY <1>3, <1>4, Ends
  <1>6. \A i \in (t + 1)..(f - 1) : IsItem(new[i]) => Whole(new, i, f)
    <2> SUFFICES ASSUME NEW i \in (t + 1)..(f - 1), IsItem(new[i])
                 PROVE  Whole(new, i, f)
      OBVIOUS
    <2>1. new[i] = buf[i - d] /\ i - d \in (s + 1)..(e - 1)
      <3>1. i \in t..f /\ i - d \in (s + 1)..(e - 1)
        BY <1>2
      <3> QED BY <1>2a, <3>1
    <2>2. Whole(buf, i - d, e)
      BY <2>1 DEF IsModule
    <2>3. PICK n \in Nat : /\ buf[i - d].len = n
                           /\ i - d + n + 1 < e
                           /\ buf[i - d + n + 1] = ITEM_END
                           /\ \A j \in (i - d + 1)..(i - d + n) : buf[j].flag \in InnerFlags
      BY <2>2, WholeIs
    <2>4. /\ i + n + 1 \in t..f /\ (i + n + 1) - d = i - d + n + 1 /\ i + n + 1 < f
          /\ \A j \in (i + 1)..(i + n) : j \in t..f /\ j - d \in (i - d + 1)..(i - d + n)
      BY <1>2, <2>1, <2>3
    <2>5. /\ new[i].len = n
          /\ new[i + n + 1] = ITEM_END
          /\ \A j \in (i + 1)..(i + n) : new[j].flag \in InnerFlags
      BY <1>2a, <2>1, <2>3, <2>4
    <2> QED BY <2>3, <2>4, <2>5, WholeIs
  <1>7. \A j \in (t + 1)..(f - 1) : ~IsBegin(new[j])
    <2>0. \A j \in (t + 1)..(f - 1) : j \in t..f /\ j - d \in (s + 1)..(e - 1)
      BY <1>2
    <2>1. \A j \in (t + 1)..(f - 1) : new[j] = buf[j - d] /\ j - d \in (s + 1)..(e - 1)
      BY <1>2a, <2>0
    <2> QED BY <2>1 DEF IsModule
  <1>8. IsStart(new, m, t)
    BY <1>2, <1>3, Starts
  <1>9. IsModule(new, m, t, f)
    BY <1>2, <1>3, <1>4, <1>5, <1>6, <1>7, <1>8 DEF IsModule
  <1>10. ASSUME NEW k
         PROVE  /\ pKeyStart(buf, m, k) = 0 => pKeyStart(new, m, k) = 0
                /\ pKeyStart(buf, m, k) > 0 => pKeyStart(new, m, k) = pKeyStart(buf, m, k) + d
                /\ GetCfg(new, m, k) = GetCfg(buf, m, k)
    <2> DEFINE ks == pKeyStart(buf, m, k)
    <2>1. /\ ks \in Nat
          /\ ks > 0 => IsKeyStart(buf, s, e, k, ks)
          /\ ks = 0 => \A i \in (s + 1)..(e - 1) : ~IsKey(buf, k, i)
      BY <1>1, KeyStarts
    <2>0. \A j \in t..f : IsKey(new, k, j) = IsKey(buf, k, j - d)
      BY <1>2a DEF IsKey
    <2>2. CASE ks > 0
      <3>0. /\ IsKeyStart(buf, s, e, k, ks)
            /\ ks \in (s + 1)..(e - 1) /\ IsKey(buf, k, ks)
            /\ \A j \in (s + 1)..(ks - 1) : ~IsKey(buf, k, j)
        BY <2>1, <2>2 DEF IsKeyStart
      <3>1. IsKeyStart(new, t, f, k, ks + d)
        <4> HIDE DEF ks
        <4>1. /\ ks + d \in (t + 1)..(f - 1) /\ (ks + d) - d = ks
              /\ \A j \in (t + 1)..(ks + d - 1) : j \in t..f /\ j - d \in (s + 1)..(ks - 1)
          BY <1>2, <3>0
        <4> QED BY <1>2, <2>0, <3>0, <4>1 DEF IsKeyStart
      <3>2. pKeyStart(new, m, k) = ks + d
        BY <1>3, <1>5, <3>1, KeyStarts
      <3>3. Whole(buf, ks, e) /\ new[ks + d] = buf[ks] /\ ks < e
        <4>1. new[ks + d] = buf[ks] /\ ks < e
          <5> HIDE DEF ks
          <5>1. ks \in s..e /\ ks < e
            BY <1>2, <3>0
          <5> QED BY <5>1 DEF IsCopied
        <4>2. IsItem(buf[ks])
          BY <3>0 DEF IsKey, IsItem
        <4>3. Whole(buf, ks, e)
          BY <3>0, <4>2 DEF IsModule
        <4> QED BY <4>1, <4>3
      <3>4. ValueAt(new, ks + d) = ValueAt(buf, ks)
        <4>1. PICK n \in Nat : buf[ks].len = n /\ ks + n + 1 < e
          BY <3>3, WholeIs
        <4> HIDE DEF ks
        <4>2. ks + n <= Len(buf) /\ (ks + d) + n <= Len(new) /\ ks + d \in Nat
          BY <1>2, <2>1, <3>0, <4>1
        <4>3. \A x \in 1..n : ks + x \in s..e /\ (ks + x) + d = (ks + d) + x
          BY <1>2, <2>1, <3>0, <4>1
        <4>4. \A x \in 1..n : new[(ks + d) + x] = buf[ks + x]
          BY <4>3 DEF IsCopied
        <4> QED BY <2>1, <3>3, <4>1, <4>2, <4>4, SameValue, ZenonT(60)
      <3>5. ks + d > 0
        BY <1>2, <3>0
      <3>6. s # 0 /\ e # 0 /\ t # 0 /\ f # 0 /\ ks # 0 /\ ks + d # 0
        BY <1>2, <2>2, <3>5
      <3>7. s = pModuleStart(buf, m) /\ e = pModuleEnd(buf, m)
        BY <1>1
      <3>8. GetCfg(buf, m, k) = ValueAt(buf, ks) /\ GetCfg(new, m, k) = ValueAt(new, ks + d)
        BY <1>3, <1>5, <3>2, <3>6, <3>7, GetCfgIs
      <3> QED BY <2>2, <3>2, <3>4, <3>8
    <2>3. CASE ks = 0
      <3>1. \A i \in (t + 1)..(f - 1) : ~IsKey(new, k, i)
        <4>1. \A i \in (t + 1)..(f - 1) : i \in t..f /\ i - d \in (s + 1)..(e - 1)
          BY <1>2
        <4> QED BY <2>0, <2>1, <2>3, <4>1
      <3>2. pKeyStart(new, m, k) = 0
        <4>1. /\ pKeyStart(new, m, k) \in Nat
              /\ pKeyStart(new, m, k) > 0 => IsKeyStart(new, t, f, k, pKeyStart(new, m, k))
          BY <1>3, <1>5, KeyStarts
        <4> QED BY <3>1, <4>1 DEF IsKeyStart
      <3> QED BY <2>3, <3>2, GetCfgIs
    <2> QED BY <2>1, <2>2, <2>3
  <1> QED BY <1>9, <1>10

(* Two buffers that are the same up to the end of a module.                  *)
LEMMA Agree ==
    ASSUME NEW buf \in Buffers, NEW new \in Buffers, NEW m,
           NEW s \in Nat, NEW e \in Nat, IsModule(buf, m, s, e),
           e <= Len(new), \A i \in 1..e : new[i] = buf[i]
    PROVE  /\ pModuleStart(new, m) = s
           /\ IsModule(new, m, s, e)
           /\ \A k : pKeyStart(new, m, k) = pKeyStart(buf, m, k)
           /\ \A k : GetCfg(new, m, k) = GetCfg(buf, m, k)
  <1>1. /\ IsStart(buf, m, s) /\ IsEnd(buf, s, e) /\ s \in Nat /\ e \in Nat /\ s < e /\ s > 0
        /\ s = pModuleStart(buf, m)
        /\ DOMAIN buf = 1..Len(buf) /\ DOMAIN new = 1..Len(new)
        /\ Len(buf) \in Nat /\ Len(new) \in Nat
    BY Positions DEF IsModule, IsStart, IsEnd
  <1>2. IsStart(new, m, s)
    BY <1>1 DEF IsStart
  <1>3. pModuleStart(new, m) = s /\ s + 0 = s /\ e + 0 = e
    BY <1>1, <1>2, Starts
  <1>4. IsCopied(buf, new, s, e, 0)
    BY <1>1 DEF IsCopied
  <1>5. /\ IsModule(new, m, s, e)
        /\ \A k : pKeyStart(buf, m, k) = 0 => pKeyStart(new, m, k) = 0
        /\ \A k : pKeyStart(buf, m, k) > 0 => pKeyStart(new, m, k) = pKeyStart(buf, m, k) + 0
        /\ \A k : GetCfg(new, m, k) = GetCfg(buf, m, k)
    BY <1>1, <1>3, <1>4, Shifted
  <1>6. \A k : pKeyStart(buf, m, k) \in Nat
    BY KeyStarts
  <1> QED BY <1>3, <1>5, <1>6

(* An item is put into the first module of a buffer in place of the blocks   *)
(* from a to b - 1, which are the item of that key or none; d is by how much *)
(* the rest moves.                                                           *)
IsSpliced(buf, new, m, k, v, s, e, a, b, d) ==
    /\ IsModule(buf, m, s, e)
    /\ a \in (s + 1)..e /\ b \in (s + 1)..(e - 1) /\ a <= b + 1
    /\ d = a + Len(v) + 1 - b
    /\ Len(new) = Len(buf) + d
    /\ buf[b] = ITEM_END
    /\ new[a] = ITEM_BEGIN(k, Len(v))
    /\ \A i \in 1..(a - 1) : new[i] = buf[i]
    /\ \A i \in 1..Len(v) : new[a + i] = v[i]
    /\ \A i \in b..Len(buf) : new[i + d] = buf[i]
    /\ \A i \in (s + 1)..(a - 1) :
          IsItem(buf[i]) => buf[i].name # k /\ Whole(buf, i, a)
    /\ \A i \in a..(b - 1) : IsItem(buf[i]) => i = a /\ buf[i].name = k

IsValue(v) ==
    /\ v \in Buffers
    /\ \A i \in DOMAIN v : v[i].flag \in InnerFlags
    /\ ~\E i \in 2..Len(v) : v[i - 1] = ITEM_END /\ v[i] = MODULE_END

LEMMA FlagsOfValues ==
    ASSUME NEW x, x.flag \in InnerFlags
    PROVE  ~IsBegin(x) /\ ~IsItem(x)
  BY DEF InnerFlags, IsBegin, IsItem

Parts(buf, new, m, k, v, s, e, a, b, d) ==
    /\ \A i \in 1..(a - 1) : new[i] = buf[i]
    /\ new[a] = ITEM_BEGIN(k, Len(v))
    /\ \A i \in (a + 1)..(a + Len(v)) : new[i] = v[i - a] /\ new[i].flag \in InnerFlags
    /\ \A i \in (b + d)..Len(new) : new[i] = buf[i - d]
    /\ buf[b] = ITEM_END /\ new[b + d] = ITEM_END
    /\ buf[s] = MODULE_BEGIN(m) /\ buf[e] = MODULE_END /\ buf[e - 1] = ITEM_END

(* Where a position of the new buffer comes from.                            *)
LEMMA SplicedFrom ==
    ASSUME NEW buf \in Buffers, NEW new \in Buffers, NEW m, NEW k, NEW v,
           NEW s, NEW e, NEW a, NEW b, NEW d,
           IsSpliced(buf, new, m, k, v, s, e, a, b, d), IsValue(v)
    PROVE  /\ s \in Nat /\ e \in Nat /\ a \in Nat /\ b \in Nat /\ d \in Int /\ Len(v) \in Nat
           /\ Len(buf) \in Nat /\ Len(new) \in Nat
           /\ s >= 1 /\ s < a /\ a <= e /\ s < b /\ b < e /\ a <= b + 1 /\ e <= Len(buf)
           /\ e >= s + 2
           /\ b + d = a + Len(v) + 1 /\ Len(new) = Len(buf) + d
           /\ Parts(buf, new, m, k, v, s, e, a, b, d)
  <1>1. /\ s \in Nat /\ e \in Nat /\ s >= 1 /\ e <= Len(buf) /\ e >= s + 2
        /\ Len(buf) \in Nat /\ Len(new) \in Nat /\ Len(v) \in Nat
        /\ buf[s] = MODULE_BEGIN(m) /\ buf[e] = MODULE_END /\ buf[e - 1] = ITEM_END
    <2>1. /\ s \in Nat /\ e \in Nat /\ IsStart(buf, m, s) /\ IsEnd(buf, s, e)
      BY DEF IsSpliced, IsModule
    <2>2. Len(buf) \in Nat /\ Len(new) \in Nat /\ Len(v) \in Nat /\ DOMAIN buf = 1..Len(buf)
      BY Positions DEF IsValue
    <2> QED BY <2>1, <2>2 DEF IsStart, IsEnd
  <1>2. /\ a \in (s + 1)..e /\ b \in (s + 1)..(e - 1) /\ a <= b + 1
        /\ d = a + Len(v) + 1 - b /\ Len(new) = Len(buf) + d
        /\ buf[b] = ITEM_END
        /\ new[a] = ITEM_BEGIN(k, Len(v))
        /\ \A i \in 1..(a - 1) : new[i] = buf[i]
    BY DEF IsSpliced
  <1>3. /\ a \in Nat /\ b \in Nat /\ d \in Int
        /\ s < a /\ a <= e /\ s < b /\ b < e /\ a <= b + 1
        /\ b + d = a + Len(v) + 1 /\ Len(new) = Len(buf) + d
    BY <1>1, <1>2
  <1>4. ASSUME NEW i \in (a + 1)..(a + Len(v))
        PROVE  new[i] = v[i - a] /\ new[i].flag \in InnerFlags
    <2>1. i - a \in 1..Len(v) /\ a + (i - a) = i
      BY <1>1, <1>3
    <2>2. new[a + (i - a)] = v[i - a]
      BY <2>1 DEF IsSpliced
    <2>3. v[i - a].flag \in InnerFlags
      BY <2>1, Positions DEF IsValue
    <2> QED BY <2>1, <2>2, <2>3
  <1>5. ASSUME NEW i \in (b + d)..Len(new)
        PROVE  new[i] = buf[i - d]
    <2>1. i - d \in b..Len(buf) /\ (i - d) + d = i
      BY <1>1, <1>3
    <2>2. new[(i - d) + d] = buf[i - d]
      BY <2>1 DEF IsSpliced
    <2> QED BY <2>1, <2>2
  <1>6. new[b + d] = ITEM_END
    <2>1. b + d \in (b + d)..Len(new) /\ (b + d) - d = b
      BY <1>1, <1>3
    <2> QED BY <1>2, <1>5, <2>1
  <1> QED BY <1>1, <1>2, <1>3, <1>4, <1>5, <1>6 DEF Parts

(* The module of the item.                                                   *)
LEMMA SplicedEnd ==
    ASSUME NEW buf \in Buffers, NEW new \in Buffers, NEW m, NEW k, NEW v,
           NEW s, NEW e, NEW a, NEW b, NEW d,
           IsSpliced(buf, new, m, k, v, s, e, a, b, d), IsValue(v),
           NEW f, f = e + d
    PROVE  /\ pModuleStart(new, m) = s
           /\ pModuleEnd(new, m) = f
           /\ \A j \in (s + 1)..(f - 1) : ~IsBegin(new[j])
  <1> DEFINE L == Len(v)
  <1>1. /\ s \in Nat /\ e \in Nat /\ a \in Nat /\ b \in Nat /\ d \in Int /\ L \in Nat
        /\ Len(buf) \in Nat /\ Len(new) \in Nat
        /\ s >= 1 /\ s < a /\ a <= e /\ s < b /\ b < e /\ a <= b + 1 /\ e <= Len(buf)
        /\ b + d = a + L + 1 /\ Len(new) = Len(buf) + d
    BY SplicedFrom
  <1>2. /\ \A i \in 1..(a - 1) : new[i] = buf[i]
        /\ new[a] = ITEM_BEGIN(k, Len(v))
        /\ \A i \in (a + 1)..(a + Len(v)) : new[i] = v[i - a] /\ new[i].flag \in InnerFlags
        /\ \A i \in (b + d)..Len(new) : new[i] = buf[i - d]
        /\ buf[b] = ITEM_END /\ new[b + d] = ITEM_END
        /\ buf[s] = MODULE_BEGIN(m) /\ buf[e] = MODULE_END /\ buf[e - 1] = ITEM_END
    <2>1. Parts(buf, new, m, k, v, s, e, a, b, d)
      BY SplicedFrom
    <2> QED BY <2>1 DEF Parts
  <1>2a. /\ new[a] = ITEM_BEGIN(k, L)
         /\ \A i \in (a + 1)..(a + L) : new[i] = v[i - a] /\ new[i].flag \in InnerFlags
    BY <1>2
  <1> HIDE DEF L
  <1>3. /\ IsStart(buf, m, s) /\ IsEnd(buf, s, e)
        /\ \A j \in (s + 1)..(e - 1) : ~IsBegin(buf[j])
    BY DEF IsSpliced, IsModule
  <1>4. IsStart(new, m, s)
    <2>1. /\ \A i \in 1..s : i \in 1..(a - 1)
          /\ s \in 1..Len(new) /\ s \in 1..s
          /\ \A i \in 1..(s - 1) : i \in 1..s
      BY <1>1
    <2>2. \A i \in 1..s : new[i] = buf[i]
      BY <1>2, <1>2a, <2>1
    <2> QED BY <1>3, <2>1, <2>2, Positions DEF IsStart
  <1>5. IsEnd(new, s, f)
    <2>1. new[f] = MODULE_END /\ new[f - 1] = ITEM_END
      <3>1. /\ f \in (b + d)..Len(new) /\ f - d = e
            /\ f - 1 \in (b + d)..Len(new) /\ (f - 1) - d = e - 1
        BY <1>1
      <3> QED BY <1>2, <1>2a, <3>1
    <2>2. ASSUME NEW i \in (s + 2)..(f - 1), new[i] = MODULE_END, new[i - 1] = ITEM_END
          PROVE  FALSE
      <3>1. CASE i < a
        <4>1. i \in 1..(a - 1) /\ i - 1 \in 1..(a - 1) /\ i \in (s + 2)..(e - 1)
          BY <1>1, <3>1
        <4>2. buf[i] = MODULE_END /\ buf[i - 1] = ITEM_END
          BY <1>2, <1>2a, <2>2, <4>1
        <4> QED BY <1>3, <4>1, <4>2 DEF IsEnd
      <3>2. CASE i = a
        BY <1>2, <1>2a, <2>2, <3>2, BlockFlags
      <3>3. CASE i = a + 1 /\ i <= a + L
        <4>1. i - 1 = a
          BY <1>1, <3>3
        <4> QED BY <1>2, <1>2a, <2>2, <4>1, BlockFlags
      <3>4. CASE i > a + 1 /\ i <= a + L
        <4>1. /\ i \in (a + 1)..(a + L) /\ i - 1 \in (a + 1)..(a + L)
              /\ i - a \in 2..L /\ (i - 1) - a = (i - a) - 1
          BY <1>1, <3>4
        <4>2. v[i - a] = MODULE_END /\ v[(i - a) - 1] = ITEM_END
          BY <1>2, <1>2a, <2>2, <4>1
        <4> QED BY <4>1, <4>2 DEF IsValue, L
      <3>5. CASE i = b + d
        BY <1>2, <1>2a, <2>2, <3>5, BlockFlags
      <3>6. CASE i > b + d
        <4>1. /\ i \in (b + d)..Len(new) /\ i - 1 \in (b + d)..Len(new)
              /\ i - d \in (s + 2)..(e - 1) /\ (i - 1) - d = (i - d) - 1
          BY <1>1, <3>6
        <4>2. buf[i - d] = MODULE_END /\ buf[(i - d) - 1] = ITEM_END
          BY <1>2, <1>2a, <2>2, <4>1
        <4> QED BY <1>3, <4>1, <4>2 DEF IsEnd
      <3> QED BY <1>1, <3>1, <3>2, <3>3, <3>4, <3>5, <3>6
    <2>3. f \in (s + 2)..Len(new)
      BY <1>1
    <2> QED BY <2>1, <2>2, <2>3 DEF IsEnd
  <1>6. ASSUME NEW j \in (s + 1)..(f - 1)
        PROVE  ~IsBegin(new[j])
    <2>1. CASE j < a
      <3>1. j \in 1..(a - 1) /\ j \in (s + 1)..(e - 1)
        BY <1>1, <2>1
      <3> QED BY <1>2, <1>2a, <1>3, <3>1
    <2>2. CASE j = a
      BY <1>2, <1>2a, <2>2, BlockFlags
    <2>3. CASE j > a /\ j <= a + L
      <3>1. j \in (a + 1)..(a + L)
        BY <1>1, <2>3
      <3> QED BY <1>2, <1>2a, <3>1, FlagsOfValues
    <2>4. CASE j >= b + d
      <3>1. j \in (b + d)..Len(new) /\ j - d \in (s + 1)..(e - 1)
        BY <1>1, <2>4
      <3> QED BY <1>2, <1>2a, <1>3, <3>1
    <2> QED BY <1>1, <2>1, <2>2, <2>3, <2>4
  <1>7. pModuleStart(new, m) = s
    BY <1>4, Starts
  <1>8. pModuleEnd(new, m) = f
    BY <1>5, <1>7, Ends
  <1> QED BY <1>6, <1>7, <1>8

LEMMA WholeAgain ==
    ASSUME NEW buf, NEW new, NEW i \in Nat, NEW e \in Nat, NEW j \in Nat, NEW f \in Nat,
           Whole(buf, i, e), f - j >= e - i,
           \A x \in 0..(e - i - 1) : new[j + x] = buf[i + x]
    PROVE  Whole(new, j, f)
  <1>1. PICK n \in Nat : /\ buf[i].len = n
                         /\ i + n + 1 < e
                         /\ buf[i + n + 1] = ITEM_END
                         /\ \A z \in (i + 1)..(i + n) : buf[z].flag \in InnerFlags
    BY WholeIs
  <1>2. /\ 0 \in 0..(e - i - 1) /\ i + 0 = i /\ j + 0 = j
        /\ n + 1 \in 0..(e - i - 1) /\ i + (n + 1) = i + n + 1 /\ j + (n + 1) = j + n + 1
        /\ j + n + 1 < f
    BY <1>1
  <1>3. new[j].len = n /\ new[j + n + 1] = ITEM_END
    BY <1>1, <1>2
  <1>4. ASSUME NEW z \in (j + 1)..(j + n)
        PROVE  new[z].flag \in InnerFlags
    <2>1. z - j \in 0..(e - i - 1) /\ i + (z - j) \in (i + 1)..(i + n) /\ j + (z - j) = z
      BY <1>1
    <2> QED BY <1>1, <2>1
  <1> QED BY <1>2, <1>3, <1>4, WholeIs

LEMMA ValueAgain ==
    ASSUME NEW buf \in Buffers, NEW new \in Buffers,
           NEW i \in Nat, NEW e \in Nat, NEW j \in Nat, NEW d \in Int, j = i + d,
           Whole(buf, i, e), e <= Len(buf) + 1, e + d <= Len(new) + 1,
           IsCopied(buf, new, i, e - 1, d)
    PROVE  ValueAt(new, j) = ValueAt(buf, i)
  <1>0. Len(buf) \in Nat /\ Len(new) \in Nat
    BY Positions
  <1>1. PICK n \in Nat : buf[i].len = n /\ i + n + 1 < e
    BY WholeIs
  <1>2. i + n + 1 < e
    BY <1>1
  <1>3. /\ i \in i..(e - 1)
        /\ i + n <= Len(buf) /\ j + n <= Len(new)
    BY <1>0, <1>2
  <1>4. ASSUME NEW x \in 1..n
        PROVE  new[j + x] = buf[i + x]
    <2>1. i + x \in i..(e - 1) /\ (i + x) + d = j + x
      BY <1>2
    <2> QED BY <2>1 DEF IsCopied
  <1>5. new[j].len = n
    BY <1>1, <1>3 DEF IsCopied
  <1>6. /\ buf[i].len = new[j].len /\ buf[i].len \in Nat
        /\ i + buf[i].len <= Len(buf) /\ j + buf[i].len <= Len(new)
        /\ \A x \in 1..buf[i].len : new[j + x] = buf[i + x]
    BY <1>1, <1>3, <1>4, <1>5
  <1> QED BY <1>6, SameValue

LEMMA SplicedItems ==
    ASSUME NEW buf \in Buffers, NEW new \in Buffers, NEW m, NEW k, NEW v,
           NEW s, NEW e, NEW a, NEW b, NEW d,
           IsSpliced(buf, new, m, k, v, s, e, a, b, d), IsValue(v),
           NEW f, f = e + d
    PROVE  IsModule(new, m, s, f)
  <1> DEFINE L == Len(v)
  <1>1. /\ s \in Nat /\ e \in Nat /\ a \in Nat /\ b \in Nat /\ d \in Int /\ L \in Nat
        /\ Len(buf) \in Nat /\ Len(new) \in Nat
        /\ s >= 1 /\ s < a /\ a <= e /\ s < b /\ b < e /\ a <= b + 1 /\ e <= Len(buf)
        /\ b + d = a + L + 1 /\ Len(new) = Len(buf) + d
    BY SplicedFrom
  <1>2. /\ \A i \in 1..(a - 1) : new[i] = buf[i]
        /\ new[a] = ITEM_BEGIN(k, L)
        /\ \A i \in (a + 1)..(a + L) : new[i].flag \in InnerFlags
        /\ \A i \in (b + d)..Len(new) : new[i] = buf[i - d]
        /\ new[b + d] = ITEM_END
    <2>1. Parts(buf, new, m, k, v, s, e, a, b, d)
      BY SplicedFrom
    <2> QED BY <2>1 DEF Parts
  <1> HIDE DEF L
  <1>3. ASSUME NEW i \in (s + 1)..(f - 1), IsItem(new[i])
        PROVE  Whole(new, i, f)
    <2>1. CASE i < a
      <3>1. i \in 1..(a - 1) /\ i \in (s + 1)..(a - 1) /\ i \in Nat /\ f \in Nat /\ f - i >= a - i
        BY <1>1, <2>1
      <3>2. Whole(buf, i, a)
        BY <1>2, <1>3, <3>1 DEF IsSpliced
      <3>3. \A x \in 0..(a - i - 1) : i + x \in 1..(a - 1)
        BY <1>1, <3>1
      <3>4. \A x \in 0..(a - i - 1) : new[i + x] = buf[i + x]
        BY <1>2, <3>3
      <3> QED BY <1>1, <3>1, <3>2, <3>4, WholeAgain
    <2>2. CASE i = a
      <3>1. new[a].len = L
        BY <1>2, BlockFlags
      <3>2. a + L + 1 = b + d /\ a + L + 1 < f
        BY <1>1
      <3> QED BY <1>1, <1>2, <2>2, <3>1, <3>2, WholeIs
    <2>3. CASE i > a /\ i <= a + L
      <3>1. i \in (a + 1)..(a + L)
        BY <1>1, <2>3
      <3> QED BY <1>2, <1>3, <3>1, FlagsOfValues
    <2>4. CASE i >= b + d
      <3>1. /\ i \in (b + d)..Len(new) /\ i - d \in (s + 1)..(e - 1) /\ i \in Nat /\ f \in Nat
            /\ i - d \in Nat /\ f - i >= e - (i - d)
        BY <1>1, <2>4
      <3>2. new[i] = buf[i - d]
        BY <1>2, <3>1
      <3>3. Whole(buf, i - d, e)
        BY <1>3, <3>1, <3>2 DEF IsSpliced, IsModule
      <3>4. \A x \in 0..(e - (i - d) - 1) : i + x \in (b + d)..Len(new) /\ (i + x) - d = (i - d) + x
        BY <1>1, <3>1
      <3>5. \A x \in 0..(e - (i - d) - 1) : new[i + x] = buf[(i - d) + x]
        BY <1>2, <3>4
      <3> QED BY <1>1, <3>1, <3>3, <3>5, WholeAgain
    <2> QED BY <1>1, <2>1, <2>2, <2>3, <2>4
  <1>4. /\ pModuleStart(new, m) = s
        /\ pModuleEnd(new, m) = f
        /\ \A j \in (s + 1)..(f - 1) : ~IsBegin(new[j])
    BY SplicedEnd
  <1>5. s > 0 /\ f \in Nat /\ f > 0
    BY <1>1
  <1>6. IsStart(new, m, s) /\ IsEnd(new, s, f)
    BY <1>4, <1>5, Starts, Ends
  <1> QED BY <1>1, <1>3, <1>4, <1>5, <1>6 DEF IsModule

LEMMA SplicedKey ==
    ASSUME NEW buf \in Buffers, NEW new \in Buffers, NEW m, NEW k, NEW v,
           NEW s, NEW e, NEW a, NEW b, NEW d,
           IsSpliced(buf, new, m, k, v, s, e, a, b, d), IsValue(v)
    PROVE  pKeyStart(new, m, k) = a /\ GetCfg(new, m, k) = v
  <1> DEFINE L == Len(v)
             f == e + d
  <1>1. /\ s \in Nat /\ e \in Nat /\ a \in Nat /\ b \in Nat /\ d \in Int /\ L \in Nat
        /\ Len(buf) \in Nat /\ Len(new) \in Nat
        /\ s >= 1 /\ s < a /\ a <= e /\ s < b /\ b < e /\ a <= b + 1 /\ e <= Len(buf)
        /\ b + d = a + L + 1 /\ Len(new) = Len(buf) + d
    BY SplicedFrom
  <1>2. f \in Nat /\ f > 0 /\ a \in (s + 1)..(f - 1) /\ a + L <= Len(new)
    BY <1>1
  <1>3. IsModule(new, m, s, f)
    BY SplicedItems
  <1>4. /\ \A i \in 1..(a - 1) : new[i] = buf[i]
        /\ new[a] = ITEM_BEGIN(k, L)
        /\ \A i \in 1..L : new[a + i] = v[i]
    BY DEF IsSpliced
  <1> HIDE DEF L, f
  <1>5. IsKeyStart(new, s, f, k, a)
    <2>1. IsKey(new, k, a)
      <3>1. ITEM_BEGIN(k, L).flag = "item begin" /\ ITEM_BEGIN(k, L).name = k
        BY DEF ITEM_BEGIN, Block
      <3> QED BY <1>4, <3>1 DEF IsKey
    <2>2. ASSUME NEW i \in (s + 1)..(a - 1), IsKey(new, k, i)
          PROVE  FALSE
      <3>1. i \in 1..(a - 1)
        BY <1>1
      <3>2. IsItem(buf[i]) /\ buf[i].name = k
        BY <1>4, <2>2, <3>1 DEF IsKey, IsItem
      <3> QED BY <3>2 DEF IsSpliced
    <2> QED BY <1>2, <2>1, <2>2 DEF IsKeyStart
  <1>6. pModuleStart(new, m) = s /\ pModuleEnd(new, m) = f
    BY <1>3 DEF IsModule
  <1>7. pKeyStart(new, m, k) = a
    BY <1>5, <1>6, KeyStarts
  <1>8. ValueAt(new, a) = v
    <2>1. new[a].len = L
      BY <1>4, BlockFlags
    <2>2. /\ SubSeq(new, a + 1, a + L) \in Buffers
          /\ Len(SubSeq(new, a + 1, a + L)) = L
          /\ \A t \in 1..L : SubSeq(new, a + 1, a + L)[t] = new[a + t]
      BY <1>1, <1>2, Segment, ZenonT(60)
    <2>3. v \in Buffers
      BY DEF IsValue
    <2>4. SubSeq(new, a + 1, a + L) = v
      BY <1>4, <2>2, <2>3, SeqEqual DEF Buffers, L
    <2> QED BY <2>1, <2>4 DEF ValueAt
  <1>9. s # 0 /\ f # 0 /\ a # 0
    BY <1>1, <1>2
  <1> QED BY <1>6, <1>7, <1>8, <1>9, GetCfgIs

LEMMA SplicedOtherKey ==
    ASSUME NEW buf \in Buffers, NEW new \in Buffers, NEW m, NEW k, NEW v,
           NEW s, NEW e, NEW a, NEW b, NEW d,
           IsSpliced(buf, new, m, k, v, s, e, a, b, d), IsValue(v),
           NEW l, l # k
    PROVE  /\ pKeyStart(buf, m, l) > 0 => pKeyStart(new, m, l) > 0
           /\ GetCfg(new, m, l) = GetCfg(buf, m, l)
  <1> DEFINE L == Len(v)
             f == e + d
             ks == pKeyStart(buf, m, l)
  <1>1. /\ s \in Nat /\ e \in Nat /\ a \in Nat /\ b \in Nat /\ d \in Int /\ L \in Nat
        /\ Len(buf) \in Nat /\ Len(new) \in Nat
        /\ s >= 1 /\ s < a /\ a <= e /\ s < b /\ b < e /\ a <= b + 1 /\ e <= Len(buf)
        /\ b + d = a + L + 1 /\ Len(new) = Len(buf) + d
    BY SplicedFrom
  <1>2. f \in Nat /\ f > 0 /\ s # 0 /\ e # 0 /\ f # 0 /\ f = e + d
    BY <1>1
  <1>3. /\ \A i \in 1..(a - 1) : new[i] = buf[i]
        /\ new[a] = ITEM_BEGIN(k, L)
        /\ \A i \in (a + 1)..(a + L) : new[i].flag \in InnerFlags
        /\ \A i \in (b + d)..Len(new) : new[i] = buf[i - d]
        /\ buf[b] = ITEM_END
    <2>1. Parts(buf, new, m, k, v, s, e, a, b, d)
      BY SplicedFrom
    <2> QED BY <2>1 DEF Parts
  <1>4. IsModule(new, m, s, f) /\ IsModule(buf, m, s, e)
    <2>1. IsModule(new, m, s, f)
      BY SplicedItems
    <2> QED BY <2>1 DEF IsSpliced
  <1>5. /\ pModuleStart(new, m) = s /\ pModuleEnd(new, m) = f
        /\ pModuleStart(buf, m) = s /\ pModuleEnd(buf, m) = e
    BY <1>4 DEF IsModule
  <1>6. /\ ks \in Nat
        /\ ks > 0 => IsKeyStart(buf, s, e, l, ks)
        /\ ks = 0 => \A i \in (s + 1)..(e - 1) : ~IsKey(buf, l, i)
    BY <1>5, KeyStarts
  <1> HIDE DEF L, f, ks
  <1>7. ~IsKey(new, l, a) /\ \A i \in (a + 1)..(a + L) : ~IsKey(new, l, i)
    <2>1. ~IsKey(new, l, a)
      <3>1. ITEM_BEGIN(k, L).name = k
        BY DEF ITEM_BEGIN, Block
      <3> QED BY <1>3, <3>1 DEF IsKey
    <2>2. ASSUME NEW i \in (a + 1)..(a + L)
          PROVE  ~IsKey(new, l, i)
      <3>1. ~IsItem(new[i])
        BY <1>3, FlagsOfValues
      <3> QED BY <3>1 DEF IsKey, IsItem
    <2> QED BY <2>1, <2>2
  <1>8. ASSUME NEW i \in (s + 1)..(f - 1), IsKey(new, l, i)
        PROVE  \/ i \in 1..(a - 1) /\ i \in (s + 1)..(e - 1) /\ IsKey(buf, l, i)
               \/ i \in (b + d)..Len(new) /\ i - d \in b..(e - 1) /\ i - d \in (s + 1)..(e - 1) /\ IsKey(buf, l, i - d)
    <2>1. CASE i < a
      <3>1. i \in 1..(a - 1) /\ i \in (s + 1)..(e - 1)
        BY <1>1, <2>1
      <3> QED BY <1>3, <1>8, <3>1 DEF IsKey
    <2>2. CASE i >= b + d
      <3>1. i \in (b + d)..Len(new) /\ i - d \in b..(e - 1) /\ i - d \in (s + 1)..(e - 1)
        BY <1>1, <1>2, <2>2
      <3> QED BY <1>3, <1>8, <3>1 DEF IsKey
    <2>3. CASE i = a
      BY <1>7, <1>8, <2>3
    <2>4. CASE i > a /\ i <= a + L
      <3>1. i \in (a + 1)..(a + L)
        BY <1>1, <2>4
      <3> QED BY <1>7, <1>8, <3>1
    <2> QED BY <1>1, <1>2, <2>1, <2>2, <2>3, <2>4
  <1>9. CASE ks = 0
    <2>1. \A i \in (s + 1)..(f - 1) : ~IsKey(new, l, i)
      BY <1>6, <1>8, <1>9
    <2>2. pKeyStart(new, m, l) = 0
      <3>1. /\ pKeyStart(new, m, l) \in Nat
            /\ pKeyStart(new, m, l) > 0 => IsKeyStart(new, s, f, l, pKeyStart(new, m, l))
        BY <1>5, KeyStarts
      <3> QED BY <2>1, <3>1 DEF IsKeyStart
    <2> QED BY <1>9, <2>2, GetCfgIs DEF ks
  <1>10. CASE ks > 0
    <2>1. /\ ks \in (s + 1)..(e - 1) /\ IsKey(buf, l, ks)
          /\ \A j \in (s + 1)..(ks - 1) : ~IsKey(buf, l, j)
      BY <1>6, <1>10 DEF IsKeyStart
    <2>2. IsItem(buf[ks]) /\ buf[ks].name = l /\ ks # 0
      <3>1. IsItem(buf[ks]) /\ buf[ks].name = l
        BY <2>1 DEF IsKey, IsItem
      <3> QED BY <1>10, <3>1
    <2>3. GetCfg(buf, m, l) = ValueAt(buf, ks)
      BY <1>2, <1>5, <2>2, GetCfgIs DEF ks
    <2>4. ks < a \/ ks >= b
      <3>1. ks \notin a..(b - 1)
        BY <2>2 DEF IsSpliced
      <3> QED BY <1>1, <2>1, <3>1
    <2>5. CASE ks < a
      <3>1. /\ ks \in 1..(a - 1) /\ ks \in (s + 1)..(f - 1) /\ ks \in (s + 1)..(a - 1)
            /\ \A j \in (s + 1)..(ks - 1) : j \in 1..(a - 1)
            /\ \A x \in ks..(a - 1) : x \in 1..(a - 1) /\ x + 0 = x
            /\ a <= Len(buf) + 1 /\ a + 0 <= Len(new) + 1 /\ ks \in Nat /\ ks = ks + 0 /\ a \in Nat
        BY <1>1, <1>2, <2>1, <2>5
      <3>2. IsKeyStart(new, s, f, l, ks)
        BY <1>3, <2>1, <3>1 DEF IsKeyStart, IsKey
      <3>3. pKeyStart(new, m, l) = ks
        BY <1>5, <3>2, KeyStarts
      <3>4. Whole(buf, ks, a)
        BY <2>2, <3>1 DEF IsSpliced
      <3>5. IsCopied(buf, new, ks, a - 1, 0)
        BY <1>3, <3>1 DEF IsCopied
      <3>6. ValueAt(new, ks) = ValueAt(buf, ks)
        BY <3>1, <3>4, <3>5, ValueAgain
      <3>7. GetCfg(new, m, l) = ValueAt(new, ks)
        BY <1>2, <1>5, <2>2, <3>3, GetCfgIs
      <3> QED BY <1>10, <2>3, <3>3, <3>6, <3>7
    <2>6. CASE ks >= b
      <3>1. /\ ks + d \in (b + d)..Len(new) /\ ks + d \in (s + 1)..(f - 1) /\ (ks + d) - d = ks
            /\ ks + d # 0 /\ ks + d > 0 /\ ks + d \in Nat /\ ks \in Nat
            /\ \A x \in ks..(e - 1) : x + d \in (b + d)..Len(new) /\ (x + d) - d = x
            /\ e <= Len(buf) + 1 /\ e + d <= Len(new) + 1
        BY <1>1, <1>2, <2>1, <2>6
      <3>2. IsKey(new, l, ks + d)
        BY <1>3, <2>1, <3>1 DEF IsKey
      <3>3. ASSUME NEW j \in (s + 1)..((ks + d) - 1), IsKey(new, l, j)
            PROVE  FALSE
        <4>1. j \in (s + 1)..(f - 1)
          BY <1>1, <1>2, <3>1
        <4>2. CASE j \in 1..(a - 1) /\ IsKey(buf, l, j)
          <5>0. ks # b
            BY <1>3, <2>2, BlockFlags
          <5>1. j \in (s + 1)..(ks - 1)
            BY <1>1, <2>6, <3>1, <4>2, <5>0
          <5> QED BY <2>1, <4>2, <5>1
        <4>3. CASE j - d \in b..(e - 1) /\ IsKey(buf, l, j - d)
          <5>1. j - d \in (s + 1)..(ks - 1)
            BY <1>1, <2>1, <4>3
          <5> QED BY <2>1, <4>3, <5>1
        <4> QED BY <1>8, <3>3, <4>1, <4>2, <4>3
      <3>4. pKeyStart(new, m, l) = ks + d
        <4>1. IsKeyStart(new, s, f, l, ks + d)
          <5>1. ks + d \in (s + 1)..(f - 1)
            BY <3>1
          <5>2. \A j \in (s + 1)..((ks + d) - 1) : ~IsKey(new, l, j)
            BY <3>3
          <5> QED BY <3>2, <5>1, <5>2 DEF IsKeyStart
        <4> QED BY <1>5, <4>1, KeyStarts
      <3>5. Whole(buf, ks, e)
        BY <1>4, <2>1, <2>2 DEF IsModule
      <3>6. IsCopied(buf, new, ks, e - 1, d)
        BY <1>3, <3>1 DEF IsCopied
      <3>7. ValueAt(new, ks + d) = ValueAt(buf, ks)
        BY <1>1, <3>1, <3>5, <3>6, ValueAgain
      <3>8. GetCfg(new, m, l) = ValueAt(new, ks + d)
        BY <1>2, <1>5, <3>1, <3>4, GetCfgIs
      <3> QED BY <1>10, <2>3, <3>1, <3>4, <3>7, <3>8
    <2> QED BY <2>4, <2>5, <2>6
  <1> QED BY <1>6, <1>9, <1>10 DEF ks

(* The other modules: they stay, or move by d.                               *)
LEMMA SplicedBegins ==
    ASSUME NEW buf \in Buffers, NEW new \in Buffers, NEW m, NEW k, NEW v,
           NEW s, NEW e, NEW a, NEW b, NEW d,
           IsSpliced(buf, new, m, k, v, s, e, a, b, d), IsValue(v),
           NEW i \in 1..Len(new), IsBegin(new[i]) \/ new[i] = MODULE_END
    PROVE  \/ i \in 1..(a - 1) /\ new[i] = buf[i]
           \/ i \in ((b + d) + 1)..Len(new) /\ i - d \in (b + 1)..Len(buf) /\ new[i] = buf[i - d]
           \/ i \in (a + 1)..(a + Len(v)) /\ new[i] = MODULE_END /\ v[i - a] = MODULE_END
  <1>1. /\ s \in Nat /\ e \in Nat /\ a \in Nat /\ b \in Nat /\ d \in Int /\ Len(v) \in Nat
        /\ Len(buf) \in Nat /\ Len(new) \in Nat
        /\ s >= 1 /\ s < a /\ a <= e /\ s < b /\ b < e /\ a <= b + 1 /\ e <= Len(buf)
        /\ b + d = a + Len(v) + 1 /\ Len(new) = Len(buf) + d
    BY SplicedFrom
  <1>2. Parts(buf, new, m, k, v, s, e, a, b, d)
    BY SplicedFrom
  <1>3. CASE i < a
    <2>1. i \in 1..(a - 1)
      BY <1>1, <1>3
    <2> QED BY <1>2, <2>1 DEF Parts
  <1>4. CASE i = a \/ i = b + d
    BY <1>2, <1>4, BlockFlags DEF Parts
  <1>5. CASE i > a /\ i < b + d
    <2>1. i \in (a + 1)..(a + Len(v))
      BY <1>1, <1>5
    <2>2. new[i] = v[i - a] /\ ~IsBegin(new[i])
      BY <1>2, <2>1, FlagsOfValues DEF Parts
    <2> QED BY <2>1, <2>2
  <1>6. CASE i > b + d
    <2>1. i \in ((b + d) + 1)..Len(new) /\ i - d \in (b + 1)..Len(buf) /\ i \in (b + d)..Len(new)
      BY <1>1, <1>6
    <2> QED BY <1>2, <2>1 DEF Parts
  <1> QED BY <1>1, <1>3, <1>4, <1>5, <1>6

(* What is before the item stays, what is behind it moves.                   *)
LEMMA SplicedCopies ==
    ASSUME NEW buf \in Buffers, NEW new \in Buffers, NEW m, NEW k, NEW v,
           NEW s, NEW e, NEW a, NEW b, NEW d,
           IsSpliced(buf, new, m, k, v, s, e, a, b, d), IsValue(v)
    PROVE  /\ \A i \in 1..(a - 1) : i \in 1..Len(new) /\ i \in 1..Len(buf) /\ new[i] = buf[i]
           /\ \A i \in b..Len(buf) : i + d \in 1..Len(new) /\ i \in 1..Len(buf) /\ new[i + d] = buf[i]
  <1>1. /\ s \in Nat /\ e \in Nat /\ a \in Nat /\ b \in Nat /\ d \in Int /\ Len(v) \in Nat
        /\ Len(buf) \in Nat /\ Len(new) \in Nat
        /\ s >= 1 /\ s < a /\ a <= e /\ s < b /\ b < e /\ a <= b + 1 /\ e <= Len(buf)
        /\ b + d = a + Len(v) + 1 /\ Len(new) = Len(buf) + d
    BY SplicedFrom
  <1>2. /\ \A i \in 1..(a - 1) : new[i] = buf[i]
        /\ \A i \in b..Len(buf) : new[i + d] = buf[i]
    BY DEF IsSpliced
  <1>3. ASSUME NEW i \in 1..(a - 1)
        PROVE  i \in 1..Len(new) /\ i \in 1..Len(buf)
    BY <1>1
  <1>4. ASSUME NEW i \in b..Len(buf)
        PROVE  i + d \in 1..Len(new) /\ i \in 1..Len(buf)
    BY <1>1
  <1> QED BY <1>2, <1>3, <1>4

LEMMA SplicedNone ==
    ASSUME NEW buf \in Buffers, NEW new \in Buffers, NEW m, NEW k, NEW v,
           NEW s, NEW e, NEW a, NEW b, NEW d,
           IsSpliced(buf, new, m, k, v, s, e, a, b, d), IsValue(v),
           NEW n
    PROVE  pModuleStart(buf, n) > 0 <=> pModuleStart(new, n) > 0
  <1>1. ASSUME NEW i \in 1..Len(new), new[i] = MODULE_BEGIN(n)
        PROVE  \E j \in 1..Len(buf) : buf[j] = MODULE_BEGIN(n)
    <2>1. IsBegin(new[i]) /\ new[i] # MODULE_END
      BY <1>1, BlockFlags
    <2>2. \/ i \in 1..(a - 1) /\ new[i] = buf[i]
          \/ i \in ((b + d) + 1)..Len(new) /\ i - d \in (b + 1)..Len(buf) /\ new[i] = buf[i - d]
      BY <2>1, SplicedBegins
    <2>3. i \in 1..(a - 1) => i \in 1..Len(buf)
      BY SplicedCopies
    <2>4. i - d \in (b + 1)..Len(buf) => i - d \in 1..Len(buf)
      <3>1. b \in Nat /\ Len(buf) \in Nat
        BY SplicedFrom
      <3> QED BY <3>1
    <2> QED BY <1>1, <2>2, <2>3, <2>4
  <1>2. ASSUME NEW j \in 1..Len(buf), buf[j] = MODULE_BEGIN(n)
        PROVE  \E i \in 1..Len(new) : new[i] = MODULE_BEGIN(n)
    <2>1. IsBegin(buf[j])
      BY <1>2, BlockFlags
    <2>2. /\ s \in Nat /\ e \in Nat /\ a \in Nat /\ b \in Nat /\ Len(buf) \in Nat
          /\ s >= 1 /\ s < a /\ s < b /\ a <= e
      BY SplicedFrom
    <2>3. CASE j <= s
      <3>1. j \in 1..(a - 1)
        BY <2>2, <2>3
      <3> QED BY <1>2, <3>1, SplicedCopies
    <2>4. CASE j >= b
      <3>1. j \in b..Len(buf)
        BY <2>2, <2>4
      <3> QED BY <1>2, <3>1, SplicedCopies
    <2>5. CASE j > s /\ j < b
      <3>1. j \in (s + 1)..(e - 1)
        <4>1. b < e
          BY SplicedFrom
        <4> QED BY <2>2, <2>5, <4>1
      <3> QED BY <2>1, <3>1 DEF IsSpliced, IsModule
    <2> QED BY <2>2, <2>3, <2>4, <2>5
  <1>3. /\ DOMAIN buf = 1..Len(buf) /\ DOMAIN new = 1..Len(new)
        /\ pModuleStart(buf, n) \in Nat /\ pModuleStart(new, n) \in Nat
        /\ pModuleStart(buf, n) = 0 => \A i \in DOMAIN buf : buf[i] # MODULE_BEGIN(n)
        /\ pModuleStart(new, n) = 0 => \A i \in DOMAIN new : new[i] # MODULE_BEGIN(n)
    BY Positions, Starts
  <1>4. pModuleStart(buf, n) > 0 => \E j \in 1..Len(buf) : buf[j] = MODULE_BEGIN(n)
    BY <1>3, Starts DEF IsStart
  <1>5. pModuleStart(new, n) > 0 => \E j \in 1..Len(new) : new[j] = MODULE_BEGIN(n)
    BY <1>3, Starts DEF IsStart
  <1> QED BY <1>1, <1>2, <1>3, <1>4, <1>5

IsSame(buf, new, n) ==
    /\ \A l : pKeyStart(buf, n, l) > 0 => pKeyStart(new, n, l) > 0
    /\ \A l : GetCfg(new, n, l) = GetCfg(buf, n, l)

LEMMA SplicedOther ==
    ASSUME NEW buf \in Buffers, NEW new \in Buffers, NEW m, NEW k, NEW v,
           NEW s, NEW e, NEW a, NEW b, NEW d,
           IsSpliced(buf, new, m, k, v, s, e, a, b, d), IsValue(v),
           NEW n, n # m, NEW t, NEW g, IsModule(buf, n, t, g)
    PROVE  /\ \/ IsModule(new, n, t, g) /\ g \in 1..(a - 1)
              \/ IsModule(new, n, t + d, g + d) /\ t \in (b + 1)..Len(buf)
           /\ IsSame(buf, new, n)
  <1>1. /\ s \in Nat /\ e \in Nat /\ a \in Nat /\ b \in Nat /\ d \in Int /\ Len(v) \in Nat
        /\ Len(buf) \in Nat /\ Len(new) \in Nat
        /\ s >= 1 /\ s < a /\ a <= e /\ s < b /\ b < e /\ a <= b + 1 /\ e <= Len(buf)
        /\ b + d = a + Len(v) + 1 /\ Len(new) = Len(buf) + d
    BY SplicedFrom
  <1>2. t \in Nat /\ g \in Nat /\ t >= 1 /\ g >= t + 2 /\ g <= Len(buf)
    <2>1. t \in Nat /\ g \in Nat /\ IsStart(buf, n, t) /\ IsEnd(buf, t, g)
      BY DEF IsModule
    <2>2. t \in 1..Len(buf) /\ g \in (t + 2)..Len(buf)
      BY <2>1, Positions DEF IsStart, IsEnd
    <2> QED BY <1>1, <2>1, <2>2
  <1>3. (t < s /\ g < s) \/ t > e
    <2>1. IsModule(buf, m, s, e)
      BY DEF IsSpliced
    <2> QED BY <2>1, Regions
  <1>4. CASE t < s /\ g < s
    <2>1. g <= Len(new) /\ g \in 1..(a - 1) /\ \A i \in 1..g : i \in 1..(a - 1)
      BY <1>1, <1>2, <1>4
    <2>2. \A i \in 1..g : new[i] = buf[i]
      BY <2>1, SplicedCopies
    <2>3. /\ IsModule(new, n, t, g)
          /\ \A l : pKeyStart(new, n, l) = pKeyStart(buf, n, l)
          /\ \A l : GetCfg(new, n, l) = GetCfg(buf, n, l)
      <3>1. g <= Len(new)
        BY <2>1
      <3> QED BY <1>2, <2>2, <3>1, Agree, ZenonT(60)
    <2> QED BY <2>1, <2>3 DEF IsSame
  <1>5. CASE t > e
    <2> DEFINE t1 == t + d
               g1 == g + d
    <2>1. /\ t \in b..Len(buf) /\ t \in (b + 1)..Len(buf) /\ \A i \in t..g : i \in b..Len(buf)
          /\ t1 \in Nat /\ g1 \in Nat /\ t1 > 0 /\ g1 <= Len(new) /\ t1 >= 1 /\ t1 \in 1..Len(new)
          /\ t1 > b + d
      BY <1>1, <1>2, <1>5
    <2>2. IsCopied(buf, new, t, g, d)
      BY <2>1, SplicedCopies DEF IsCopied
    <2>3. IsStart(new, n, t1)
      <3>1. new[t1] = MODULE_BEGIN(n)
        <4>1. buf[t] = MODULE_BEGIN(n)
          BY DEF IsModule, IsStart
        <4> QED BY <2>1, <4>1, SplicedCopies
      <3>2. ASSUME NEW i \in 1..(t1 - 1), new[i] = MODULE_BEGIN(n)
            PROVE  FALSE
        <4>1. i \in 1..Len(new)
          BY <2>1, <1>1
        <4>2. \/ i \in 1..(a - 1) /\ new[i] = buf[i]
              \/ i - d \in (b + 1)..Len(buf) /\ new[i] = buf[i - d]
          BY <3>2, <4>1, BlockFlags, SplicedBegins
        <4>3. i \in 1..(a - 1) => i \in 1..(t - 1)
          BY <1>1, <1>2, <1>5
        <4>4. i - d \in (b + 1)..Len(buf) => i - d \in 1..(t - 1)
          BY <1>1, <1>2
        <4>5. \A j \in 1..(t - 1) : buf[j] # MODULE_BEGIN(n)
          BY DEF IsModule, IsStart
        <4> QED BY <3>2, <4>2, <4>3, <4>4, <4>5
      <3>3. DOMAIN new = 1..Len(new)
        BY Positions
      <3> QED BY <2>1, <3>1, <3>2, <3>3 DEF IsStart
    <2>4. pModuleStart(new, n) = t1
      BY <2>3, Starts
    <2>5. /\ IsModule(new, n, t1, g1)
          /\ \A l : pKeyStart(buf, n, l) > 0 => pKeyStart(new, n, l) = pKeyStart(buf, n, l) + d
          /\ \A l : GetCfg(new, n, l) = GetCfg(buf, n, l)
      <3> HIDE DEF t1, g1
      <3>1. t1 = t + d /\ g1 = g + d
        BY DEF t1, g1
      <3> QED BY <1>1, <1>2, <2>1, <2>2, <2>4, <3>1, Shifted, SMTT(40)
    <2>6. ASSUME NEW l, pKeyStart(buf, n, l) > 0
          PROVE  pKeyStart(new, n, l) > 0
      <3> DEFINE ks == pKeyStart(buf, n, l)
      <3>1. ks \in (t + 1)..(g - 1)
        <4>1. t = pModuleStart(buf, n) /\ g = pModuleEnd(buf, n)
          BY DEF IsModule
        <4> QED BY <2>6, <4>1, KeyStarts DEF IsKeyStart
      <3> HIDE DEF ks
      <3>2. ks + d > 0
        BY <1>1, <1>2, <2>1, <3>1
      <3> QED BY <2>5, <2>6, <3>2 DEF ks
    <2> QED BY <2>1, <2>5, <2>6 DEF IsSame
  <1> QED BY <1>3, <1>4, <1>5

LEMMA Modular ==
    ASSUME NEW buf \in Buffers,
           \A n \in Modules : pModuleStart(buf, n) > 0 => \E t, g : IsModule(buf, n, t, g)
    PROVE  Ended(buf) /\ Items(buf)
  <1>1. ASSUME NEW n \in Modules, pModuleStart(buf, n) > 0
        PROVE  /\ pModuleEnd(buf, n) > 0
               /\ \A j \in InModule(buf, n) : ~IsBegin(buf[j])
               /\ \A i \in InModule(buf, n) :
                     IsItem(buf[i]) => Whole(buf, i, pModuleEnd(buf, n))
    <2>1. PICK t, g : IsModule(buf, n, t, g)
      BY <1>1
    <2>2. /\ t = pModuleStart(buf, n) /\ g = pModuleEnd(buf, n) /\ t \in Nat /\ g \in Nat
          /\ IsEnd(buf, t, g)
          /\ \A j \in (t + 1)..(g - 1) : ~IsBegin(buf[j])
          /\ \A i \in (t + 1)..(g - 1) : IsItem(buf[i]) => Whole(buf, i, g)
      BY <2>1 DEF IsModule
    <2>3. g > 0
      <3>1. g \in (t + 2)..Len(buf) /\ Len(buf) \in Nat
        BY <2>2, Positions DEF IsEnd
      <3> QED BY <2>2, <3>1
    <2> QED BY <2>2, <2>3 DEF InModule
  <1> QED BY <1>1 DEF Ended, Items

(* No module begins in an open one.                                          *)
LEMMA OpenIsAlone ==
    ASSUME NEW buf \in Buffers, Closed(buf),
           NEW c \in DOMAIN buf, NEW i \in DOMAIN buf, OpenAt(buf, c, i)
    PROVE  /\ \A j \in (c + 1)..i : ~IsBegin(buf[j])
           /\ \E n \in Modules : buf[c] = MODULE_BEGIN(n)
  <1>1. c \in Nat /\ i \in Nat /\ Len(buf) \in Nat /\ DOMAIN buf = 1..Len(buf) /\ c < i
    BY Positions DEF OpenAt
  <1>2. \E n \in Modules : buf[c] = MODULE_BEGIN(n)
    BY DEF Closed, OpenAt
  <1>3. PICK e \in (c + 1)..Len(buf) :
            buf[e] = MODULE_END /\ \A j \in (c + 1)..e : ~IsBegin(buf[j])
    BY DEF Closed, OpenAt
  <1>4. e \notin c..i
    BY <1>3 DEF OpenAt
  <1>5. \A j \in (c + 1)..i : j \in (c + 1)..e
    BY <1>1, <1>4
  <1> QED BY <1>2, <1>3, <1>5

(* What is in a buffer is in the other too.                                  *)
Keeps(buf, new) ==
    \A n \in Modules : pModuleStart(buf, n) > 0 =>
        /\ pModuleStart(new, n) > 0
        /\ \A l : pKeyStart(buf, n, l) > 0 => pKeyStart(new, n, l) > 0

(* The key that an open module's item needs.                                 *)
LEMMA KeyThere ==
    ASSUME NEW buf \in Buffers, NEW new \in Buffers, Closed(buf), Keys(buf), Keeps(buf, new),
           NEW c \in DOMAIN buf, NEW i \in DOMAIN buf, OpenAt(buf, c, i), IsItem(buf[i])
    PROVE  pKeyStart(new, buf[c].name, buf[i].name) > 0
  <1>1. PICK n \in Modules : buf[c] = MODULE_BEGIN(n)
    BY OpenIsAlone
  <1>2. buf[c].name = n
    BY <1>1, BlockFlags
  <1>3. pKeyStart(buf, n, buf[i].name) > 0
    BY <1>2 DEF Keys
  <1>4. pModuleStart(buf, n) > 0
    <2>1. /\ pModuleStart(buf, n) \in Nat
          /\ pModuleStart(buf, n) = 0 => \A j \in DOMAIN buf : buf[j] # MODULE_BEGIN(n)
      BY Starts
    <2> QED BY <1>1, <2>1
  <1> QED BY <1>2, <1>3, <1>4 DEF Keeps

(* An item of a first module is found.                                       *)
LEMMA KeyFound ==
    ASSUME NEW buf \in Buffers, NEW n, NEW t, NEW g, IsModule(buf, n, t, g),
           NEW i \in (t + 1)..(g - 1), IsItem(buf[i])
    PROVE  pKeyStart(buf, n, buf[i].name) > 0
  <1>1. IsKey(buf, buf[i].name, i)
    BY DEF IsKey, IsItem
  <1>2. t = pModuleStart(buf, n) /\ g = pModuleEnd(buf, n)
    BY DEF IsModule
  <1>3. /\ pKeyStart(buf, n, buf[i].name) \in Nat
        /\ pKeyStart(buf, n, buf[i].name) = 0 => \A j \in (t + 1)..(g - 1) : ~IsKey(buf, buf[i].name, j)
    BY <1>2, KeyStarts
  <1> QED BY <1>1, <1>3

LEMMA SplicedKeeps ==
    ASSUME NEW buf \in Buffers, NEW new \in Buffers, NEW m \in Modules, NEW k, NEW v,
           NEW s, NEW e, NEW a, NEW b, NEW d,
           IsSpliced(buf, new, m, k, v, s, e, a, b, d), IsValue(v),
           Ended(buf), Items(buf)
    PROVE  /\ Keeps(buf, new) /\ Ended(new) /\ Items(new)
           /\ GetCfg(new, m, k) = v
           /\ \A n \in Modules : \A l : n # m \/ l # k => GetCfg(new, n, l) = GetCfg(buf, n, l)
  <1>1. ASSUME NEW n \in Modules, pModuleStart(buf, n) > 0
        PROVE  IsModule(buf, n, pModuleStart(buf, n), pModuleEnd(buf, n))
    BY <1>1, ModuleIs
  <1>2. a > 0
    <2>1. s \in Nat /\ a \in Nat /\ s < a
      BY SplicedFrom
    <2> QED BY <2>1
  <1>3. Keeps(buf, new)
    <2> SUFFICES ASSUME NEW n \in Modules, pModuleStart(buf, n) > 0
                 PROVE  /\ pModuleStart(new, n) > 0
                        /\ \A l : pKeyStart(buf, n, l) > 0 => pKeyStart(new, n, l) > 0
      BY DEF Keeps
    <2>1. pModuleStart(new, n) > 0
      BY SplicedNone
    <2>2. ASSUME NEW l, pKeyStart(buf, n, l) > 0
          PROVE  pKeyStart(new, n, l) > 0
      <3>1. CASE n # m
        BY <1>1, <2>2, <3>1, SplicedOther DEF IsSame
      <3>2. CASE n = m /\ l = k
        BY <1>2, <3>2, SplicedKey
      <3>3. CASE n = m /\ l # k
        BY <2>2, <3>3, SplicedOtherKey
      <3> QED BY <3>1, <3>2, <3>3
    <2> QED BY <2>1, <2>2
  <1>4. ASSUME NEW n \in Modules, pModuleStart(new, n) > 0
        PROVE  \E t, g : IsModule(new, n, t, g)
    <2>1. pModuleStart(buf, n) > 0
      BY <1>4, SplicedNone
    <2>2. CASE n = m
      BY <2>2, SplicedItems
    <2>3. CASE n # m
      <3>1. PICK t, g : IsModule(buf, n, t, g)
        BY <1>1, <2>1
      <3>2. IsModule(new, n, t, g) \/ IsModule(new, n, t + d, g + d)
        BY <2>3, <3>1, SplicedOther
      <3> QED BY <3>2
    <2> QED BY <2>2, <2>3
  <1>5. Ended(new) /\ Items(new)
    BY <1>4, Modular
  <1>6. GetCfg(new, m, k) = v
    BY SplicedKey
  <1>7. ASSUME NEW n \in Modules, NEW l, n # m \/ l # k
        PROVE  GetCfg(new, n, l) = GetCfg(buf, n, l)
    <2>1. CASE n = m
      BY <1>7, <2>1, SplicedOtherKey
    <2>2. CASE n # m /\ pModuleStart(buf, n) > 0
      <3>1. PICK t, g : IsModule(buf, n, t, g)
        BY <1>1, <2>2
      <3>2. n # m
        BY <2>2
      <3>3. IsSame(buf, new, n)
        BY <3>1, <3>2, SplicedOther
      <3> QED BY <3>3 DEF IsSame
    <2>3. CASE n # m /\ pModuleStart(buf, n) = 0
      <3>1. pModuleStart(new, n) = 0
        BY <2>3, SplicedNone, Starts
      <3> QED BY <2>3, <3>1, GetCfgIs
    <2> QED BY <2>1, <2>2, <2>3, Starts
  <1> QED BY <1>3, <1>5, <1>6, <1>7

LEMMA SplicedClosed ==
    ASSUME NEW buf \in Buffers, NEW new \in Buffers, NEW m \in Modules, NEW k, NEW v,
           NEW s, NEW e, NEW a, NEW b, NEW d,
           IsSpliced(buf, new, m, k, v, s, e, a, b, d), IsValue(v),
           Closed(buf)
    PROVE  Closed(new)
  <1>1. /\ s \in Nat /\ e \in Nat /\ a \in Nat /\ b \in Nat /\ d \in Int /\ Len(v) \in Nat
        /\ Len(buf) \in Nat /\ Len(new) \in Nat
        /\ s >= 1 /\ s < a /\ a <= e /\ s < b /\ b < e /\ a <= b + 1 /\ e <= Len(buf)
        /\ b + d = a + Len(v) + 1 /\ Len(new) = Len(buf) + d
    BY SplicedFrom
  <1>2. /\ \A i \in 1..(a - 1) : i \in 1..Len(new) /\ i \in 1..Len(buf) /\ new[i] = buf[i]
        /\ \A i \in b..Len(buf) : i + d \in 1..Len(new) /\ i \in 1..Len(buf) /\ new[i + d] = buf[i]
    BY SplicedCopies
  <1>3. DOMAIN buf = 1..Len(buf) /\ DOMAIN new = 1..Len(new)
    BY Positions
  <1>4. /\ buf[s] = MODULE_BEGIN(m) /\ buf[e] = MODULE_END
        /\ \A j \in (s + 1)..(e - 1) : ~IsBegin(buf[j])
    <2>1. Parts(buf, new, m, k, v, s, e, a, b, d)
      BY SplicedFrom
    <2> QED BY <2>1 DEF Parts, IsSpliced, IsModule
  <1> SUFFICES ASSUME NEW i \in 1..Len(new), IsBegin(new[i])
               PROVE  /\ \E n \in Modules : new[i] = MODULE_BEGIN(n)
                      /\ \E g \in (i + 1)..Len(new) :
                            new[g] = MODULE_END /\ \A j \in (i + 1)..g : ~IsBegin(new[j])
    BY <1>3 DEF Closed
  <1>5. CASE i \in 1..(a - 1) /\ new[i] = buf[i]
    <2>1. i \in 1..Len(buf) /\ IsBegin(buf[i]) /\ i < a /\ i \in Nat
      BY <1>2, <1>5, <1>1
    <2>2. \E n \in Modules : new[i] = MODULE_BEGIN(n)
      BY <1>3, <1>5, <2>1 DEF Closed
    <2>3. PICK g \in (i + 1)..Len(buf) :
             buf[g] = MODULE_END /\ \A j \in (i + 1)..g : ~IsBegin(buf[j])
      BY <1>3, <2>1 DEF Closed
    <2>4. CASE g < a
      <3>1. g \in (i + 1)..Len(new) /\ \A j \in (i + 1)..g : j \in 1..(a - 1)
        BY <1>1, <2>1, <2>3, <2>4
      <3>2. g \in 1..(a - 1)
        BY <1>1, <2>1, <2>3, <2>4
      <3>3. new[g] = MODULE_END /\ \A j \in (i + 1)..g : ~IsBegin(new[j])
        BY <1>2, <2>3, <3>1, <3>2
      <3> QED BY <2>2, <3>1, <3>3
    <2>5. CASE g >= a
      <3>1. i = s
        <4>1. s \notin (i + 1)..g
          BY <1>4, <2>3, BlockFlags
        <4>2. i \notin (s + 1)..(e - 1)
          BY <1>4, <2>1
        <4> QED BY <1>1, <2>1, <2>3, <2>5, <4>1, <4>2
      <3>2. \A j \in (s + 1)..((e + d) - 1) : ~IsBegin(new[j])
        BY SplicedEnd
      <3>3. e + d \in (s + 1)..Len(new) /\ e \in b..Len(buf)
        BY <1>1
      <3>4. new[e + d] = MODULE_END
        BY <1>2, <1>4, <3>3
      <3>5. ASSUME NEW j \in (s + 1)..(e + d)
            PROVE  ~IsBegin(new[j])
        <4>1. j \in (s + 1)..((e + d) - 1) \/ j = e + d
          BY <1>1
        <4> QED BY <3>2, <3>4, <4>1, BlockFlags
      <3> QED BY <2>2, <3>1, <3>3, <3>4, <3>5
    <2> QED BY <1>1, <2>3, <2>4, <2>5
  <1>6. CASE i - d \in (b + 1)..Len(buf) /\ new[i] = buf[i - d]
    <2>1. i - d \in 1..Len(buf) /\ IsBegin(buf[i - d]) /\ i \in Nat
      BY <1>1, <1>6
    <2>2. \E n \in Modules : new[i] = MODULE_BEGIN(n)
      BY <1>3, <1>6, <2>1 DEF Closed
    <2>3. PICK g \in ((i - d) + 1)..Len(buf) :
             buf[g] = MODULE_END /\ \A j \in ((i - d) + 1)..g : ~IsBegin(buf[j])
      BY <1>3, <2>1 DEF Closed
    <2>4. g + d \in (i + 1)..Len(new) /\ g \in b..Len(buf)
      BY <1>1, <1>6, <2>3
    <2>5. ASSUME NEW j \in (i + 1)..(g + d)
          PROVE  ~IsBegin(new[j])
      <3>1. j - d \in b..Len(buf) /\ j - d \in ((i - d) + 1)..g /\ (j - d) + d = j
        BY <1>1, <1>6, <2>4, <2>3
      <3> QED BY <1>2, <2>3, <3>1
    <2>6. new[g + d] = MODULE_END
      BY <1>2, <2>3, <2>4
    <2> QED BY <2>2, <2>4, <2>5, <2>6
  <1>7. \/ i \in 1..(a - 1) /\ new[i] = buf[i]
        \/ i - d \in (b + 1)..Len(buf) /\ new[i] = buf[i - d]
        \/ new[i] = MODULE_END
    BY SplicedBegins
  <1> QED BY <1>5, <1>6, <1>7, BlockFlags

LEMMA SplicedKeys ==
    ASSUME NEW buf \in Buffers, NEW new \in Buffers, NEW m \in Modules, NEW k, NEW v,
           NEW s, NEW e, NEW a, NEW b, NEW d,
           IsSpliced(buf, new, m, k, v, s, e, a, b, d), IsValue(v),
           Good(buf)
    PROVE  Keys(new)
  <1>1. /\ s \in Nat /\ e \in Nat /\ a \in Nat /\ b \in Nat /\ d \in Int /\ Len(v) \in Nat
        /\ Len(buf) \in Nat /\ Len(new) \in Nat
        /\ s >= 1 /\ s < a /\ a <= e /\ s < b /\ b < e /\ a <= b + 1 /\ e <= Len(buf)
        /\ b + d = a + Len(v) + 1 /\ Len(new) = Len(buf) + d
    BY SplicedFrom
  <1>2. /\ \A i \in 1..(a - 1) : i \in 1..Len(new) /\ i \in 1..Len(buf) /\ new[i] = buf[i]
        /\ \A i \in b..Len(buf) : i + d \in 1..Len(new) /\ i \in 1..Len(buf) /\ new[i + d] = buf[i]
    BY SplicedCopies
  <1>3. DOMAIN buf = 1..Len(buf) /\ DOMAIN new = 1..Len(new)
    BY Positions
  <1>4. /\ buf[s] = MODULE_BEGIN(m) /\ buf[e] = MODULE_END
        /\ \A j \in (s + 1)..(e - 1) : ~IsBegin(buf[j])
    <2>1. Parts(buf, new, m, k, v, s, e, a, b, d)
      BY SplicedFrom
    <2> QED BY <2>1 DEF Parts, IsSpliced, IsModule
  <1>5. Closed(new) /\ Keeps(buf, new)
    BY SplicedClosed, SplicedKeeps DEF Good
  <1> SUFFICES ASSUME NEW c \in 1..Len(new), NEW i \in 1..Len(new),
                      OpenAt(new, c, i), IsItem(new[i])
               PROVE  pKeyStart(new, new[c].name, new[i].name) > 0
    BY <1>3 DEF Keys
  <1>6. c < i /\ IsBegin(new[c]) /\ \A j \in c..i : new[j] # MODULE_END
    BY DEF OpenAt
  <1>7. \A j \in (c + 1)..i : ~IsBegin(new[j])
    BY <1>3, <1>5, OpenIsAlone
  <1>8. CASE c \in 1..(a - 1) /\ new[c] = buf[c]
    <2>1. c \notin (s + 1)..(e - 1)
      BY <1>4, <1>6, <1>8
    <2>2. CASE c < s
      <3>1. new[s] = buf[s] /\ IsBegin(new[s])
        <4>1. s \in 1..(a - 1)
          BY <1>1
        <4> QED BY <1>2, <1>4, <4>1, BlockFlags
      <3>2. i < s
        BY <1>1, <1>7, <2>2, <3>1
      <3>3. \A j \in c..i : j \in 1..(a - 1)
        BY <1>1, <2>2, <3>2
      <3>4. c \in c..i /\ i \in c..i
        BY <1>6
      <3>5. OpenAt(buf, c, i) /\ new[i] = buf[i]
        BY <1>2, <1>6, <3>3, <3>4 DEF OpenAt
      <3>6. c \in DOMAIN buf /\ i \in DOMAIN buf
        BY <1>2, <1>3, <3>3, <3>4
      <3> QED BY <1>5, <1>8, <3>5, <3>6, KeyThere DEF Good
    <2>3. CASE c = s
      <3>1. e + d \notin c..i
        <4>1. e \in b..Len(buf)
          BY <1>1
        <4>2. new[e + d] = MODULE_END
          BY <1>2, <1>4, <4>1
        <4> QED BY <1>6, <4>2
      <3>2. i \in (s + 1)..((e + d) - 1)
        BY <1>1, <1>6, <2>3, <3>1
      <3>3. new[c].name = m
        BY <1>4, <1>8, <2>3, BlockFlags
      <3>4. IsModule(new, m, s, e + d)
        BY SplicedItems
      <3> QED BY <3>2, <3>3, <3>4, KeyFound
    <2> QED BY <1>1, <1>8, <2>1, <2>2, <2>3
  <1>9. CASE c \in ((b + d) + 1)..Len(new) /\ c - d \in (b + 1)..Len(buf) /\ new[c] = buf[c - d]
    <2>1. /\ \A j \in (c - d)..(i - d) : j \in b..Len(buf) /\ j + d \in c..i
          /\ c - d < i - d /\ i - d \in b..Len(buf) /\ (i - d) + d = i
          /\ c - d \in b..Len(buf)
      BY <1>1, <1>6, <1>9
    <2>2. new[i] = buf[i - d]
      BY <1>2, <2>1
    <2>3. OpenAt(buf, c - d, i - d)
      BY <1>2, <1>6, <1>9, <2>1 DEF OpenAt
    <2>4. c - d \in DOMAIN buf /\ i - d \in DOMAIN buf
      BY <1>2, <1>3, <2>1
    <2> QED BY <1>5, <1>9, <2>2, <2>3, <2>4, KeyThere DEF Good
  <1> QED BY <1>6, <1>8, <1>9, SplicedBegins, BlockFlags

LEMMA SplicedPlain ==
    ASSUME NEW buf \in Buffers, NEW new \in Buffers, NEW m \in Modules, NEW k, NEW v,
           NEW s, NEW e, NEW a, NEW b, NEW d,
           IsSpliced(buf, new, m, k, v, s, e, a, b, d), IsValue(v),
           Ended(buf), Items(buf), Plain(buf), \A i \in DOMAIN v : v[i] # MODULE_END
    PROVE  Plain(new)
  <1>1. /\ s \in Nat /\ e \in Nat /\ a \in Nat /\ b \in Nat /\ d \in Int /\ Len(v) \in Nat
        /\ Len(buf) \in Nat /\ Len(new) \in Nat
        /\ s >= 1 /\ s < a /\ a <= e /\ s < b /\ b < e /\ a <= b + 1 /\ e <= Len(buf)
        /\ b + d = a + Len(v) + 1 /\ Len(new) = Len(buf) + d
    BY SplicedFrom
  <1>2. ASSUME NEW i \in 1..Len(new), new[i] = MODULE_END
        PROVE  \/ i \in 1..(a - 1) /\ buf[i] = MODULE_END
               \/ i \in ((b + d) + 1)..Len(new) /\ buf[i - d] = MODULE_END
    <2>1. ASSUME i \in (a + 1)..(a + Len(v)), v[i - a] = MODULE_END
          PROVE  FALSE
      <3>1. i - a \in 1..Len(v)
        BY <1>1, <2>1
      <3>2. DOMAIN v = 1..Len(v)
        BY Positions DEF IsValue
      <3> QED BY <2>1, <3>1, <3>2
    <2> QED BY <1>2, <2>1, SplicedBegins
  <1>3. ASSUME NEW n \in Modules, pModuleStart(buf, n) > 0,
               NEW t, NEW g, IsModule(buf, n, t, g)
        PROVE  t \in Nat /\ g \in Nat /\ g <= Len(buf) /\ t > 0 /\ \A i \in (t + 1)..(g - 1) : buf[i] # MODULE_END
    <2>1. t = pModuleStart(buf, n) /\ g = pModuleEnd(buf, n) /\ t \in Nat /\ g \in Nat /\ g <= Len(buf)
      BY <1>1, <1>3 DEF IsModule, IsEnd
    <2> QED BY <1>3, <2>1 DEF Plain, InModule
  <1> SUFFICES ASSUME NEW n \in Modules, pModuleStart(new, n) > 0,
                      NEW i \in (pModuleStart(new, n) + 1)..(pModuleEnd(new, n) - 1),
                      new[i] = MODULE_END
               PROVE  FALSE
    BY DEF Plain, InModule
  <1>4. pModuleStart(buf, n) > 0
    BY SplicedNone
  <1>5. CASE n = m
    <2>1. IsModule(new, m, s, e + d) /\ IsModule(buf, m, s, e)
      <3>1. IsModule(new, m, s, e + d)
        BY SplicedItems
      <3> QED BY <3>1 DEF IsSpliced
    <2>2. i \in (s + 1)..((e + d) - 1)
      BY <1>5, <2>1 DEF IsModule
    <2>3. i \in 1..Len(new)
      BY <1>1, <2>2, SMTT(40)
    <2>4. i \in 1..(a - 1) => i \in (s + 1)..(e - 1)
      BY <1>1, <2>2
    <2>5. i \in ((b + d) + 1)..Len(new) => i - d \in (s + 1)..(e - 1)
      BY <1>1, <2>2
    <2>6. \A j \in (s + 1)..(e - 1) : buf[j] # MODULE_END
      BY <1>3, <1>4, <1>5, <2>1
    <2> QED BY <1>2, <2>3, <2>4, <2>5, <2>6
  <1>6. CASE n # m
    <2>1. PICK t, g : IsModule(buf, n, t, g)
      BY <1>4, ModuleIs
    <2>2. /\ t \in Nat /\ g \in Nat /\ g <= Len(buf) /\ t > 0
          /\ \A j \in (t + 1)..(g - 1) : buf[j] # MODULE_END
      BY <1>3, <1>4, <2>1
    <2>3. CASE IsModule(new, n, t, g) /\ g \in 1..(a - 1)
      <3>1. i \in (t + 1)..(g - 1)
        BY <2>3 DEF IsModule
      <3>2. i \in 1..Len(new) /\ i \notin ((b + d) + 1)..Len(new)
        BY <1>1, <2>2, <2>3, <3>1
      <3> QED BY <1>2, <2>2, <3>1, <3>2
    <2>4. CASE IsModule(new, n, t + d, g + d) /\ t \in (b + 1)..Len(buf)
      <3>1. i \in ((t + d) + 1)..((g + d) - 1)
        BY <2>4 DEF IsModule
      <3>2. i \in 1..Len(new) /\ i \notin 1..(a - 1) /\ i - d \in (t + 1)..(g - 1)
        BY <1>1, <2>2, <2>4, <3>1, SMTT(40)
      <3> QED BY <1>2, <2>2, <3>2
    <2>5. \/ IsModule(new, n, t, g) /\ g \in 1..(a - 1)
          \/ IsModule(new, n, t + d, g + d) /\ t \in (b + 1)..Len(buf)
      BY <1>6, <2>1, SplicedOther
    <2> QED BY <2>3, <2>4, <2>5
  <1> QED BY <1>5, <1>6

(* The item is in, and nothing else is lost.                                 *)
LEMMA Spliced ==
    ASSUME NEW buf \in Buffers, NEW new \in Buffers, NEW m \in Modules, NEW k, NEW v,
           NEW s, NEW e, NEW a, NEW b, NEW d,
           IsSpliced(buf, new, m, k, v, s, e, a, b, d), IsValue(v), Good(buf)
    PROVE  /\ Good(new) /\ Keeps(buf, new)
           /\ GetCfg(new, m, k) = v
           /\ \A n \in Modules : \A l : n # m \/ l # k => GetCfg(new, n, l) = GetCfg(buf, n, l)
           /\ Plain(buf) /\ (\A i \in DOMAIN v : v[i] # MODULE_END) => Plain(new)
  <1>1. Closed(new)
    BY SplicedClosed DEF Good
  <1>2. Keys(new)
    BY SplicedKeys
  <1>3. /\ Keeps(buf, new) /\ Ended(new) /\ Items(new)
        /\ GetCfg(new, m, k) = v
        /\ \A n \in Modules : \A l : n # m \/ l # k => GetCfg(new, n, l) = GetCfg(buf, n, l)
    BY SplicedKeeps DEF Good
  <1>4. Plain(buf) /\ (\A i \in DOMAIN v : v[i] # MODULE_END) => Plain(new)
    BY SplicedPlain DEF Good
  <1> QED BY <1>1, <1>2, <1>3, <1>4 DEF Good
-----------------------------------------------------------------------------
(* What SetCfg writes.                                                       *)
IsJoined(new, x, y, z) ==
    /\ new \in Buffers
    /\ Len(new) = Len(x) + Len(y) + Len(z)
    /\ \A i \in 1..Len(x) : new[i] = x[i]
    /\ \A i \in 1..Len(y) : new[Len(x) + i] = y[i]
    /\ \A i \in 1..Len(z) : new[(Len(x) + Len(y)) + i] = z[i]

LEMMA Joined ==
    ASSUME NEW x \in Buffers, NEW y \in Buffers, NEW z \in Buffers
    PROVE  IsJoined(x \o y \o z, x, y, z)
  <1> DEFINE new == x \o y \o z
             w == x \o y
  <1>1. /\ w \in Buffers /\ Len(w) = Len(x) + Len(y)
        /\ \A i \in 1..(Len(x) + Len(y)) : w[i] = IF i <= Len(x) THEN x[i] ELSE y[i - Len(x)]
    BY ConcatProperties DEF Buffers
  <1>2. new = w \o z
    OBVIOUS
  <1> HIDE DEF w, new
  <1>3. /\ new \in Buffers /\ Len(new) = Len(w) + Len(z)
        /\ \A i \in 1..(Len(w) + Len(z)) : new[i] = IF i <= Len(w) THEN w[i] ELSE z[i - Len(w)]
    <2>1. /\ w \o z \in Buffers /\ Len(w \o z) = Len(w) + Len(z)
          /\ \A i \in 1..(Len(w) + Len(z)) : (w \o z)[i] = IF i <= Len(w) THEN w[i] ELSE z[i - Len(w)]
      <3>1. w \in Seq(Blocks) /\ z \in Seq(Blocks)
        BY <1>1 DEF Buffers
      <3> QED BY <3>1, ConcatProperties DEF Buffers
    <2> QED BY <1>2, <2>1
  <1>4. Len(x) \in Nat /\ Len(y) \in Nat /\ Len(z) \in Nat
    BY Positions
  <1>5. ASSUME NEW i \in 1..Len(x)
        PROVE  new[i] = x[i]
    <2>1. i \in 1..(Len(x) + Len(y)) /\ i \in 1..(Len(w) + Len(z)) /\ i <= Len(w) /\ i <= Len(x)
      BY <1>1, <1>4
    <2> QED BY <1>1, <1>3, <2>1
  <1>6. ASSUME NEW i \in 1..Len(y)
        PROVE  new[Len(x) + i] = y[i]
    <2>1. /\ Len(x) + i \in 1..(Len(x) + Len(y)) /\ Len(x) + i \in 1..(Len(w) + Len(z))
          /\ Len(x) + i <= Len(w) /\ ~(Len(x) + i <= Len(x)) /\ (Len(x) + i) - Len(x) = i
      BY <1>1, <1>4
    <2> QED BY <1>1, <1>3, <2>1
  <1>7. ASSUME NEW i \in 1..Len(z)
        PROVE  new[(Len(x) + Len(y)) + i] = z[i]
    <2>1. /\ (Len(x) + Len(y)) + i \in 1..(Len(w) + Len(z))
          /\ ~((Len(x) + Len(y)) + i <= Len(w)) /\ ((Len(x) + Len(y)) + i) - Len(w) = i
      BY <1>1, <1>4
    <2> QED BY <1>3, <2>1
  <1>8. Len(new) = Len(x) + Len(y) + Len(z)
    BY <1>1, <1>3
  <1>9. IsJoined(new, x, y, z)
    BY <1>3, <1>5, <1>6, <1>7, <1>8 DEF IsJoined
  <1> QED BY <1>9 DEF new

LEMMA ItemIs ==
    ASSUME NEW k \in Names, NEW v \in Buffers
    PROVE  /\ Item(k, v) \in Buffers
           /\ Len(Item(k, v)) = Len(v) + 1
           /\ Item(k, v)[1] = ITEM_BEGIN(k, Len(v))
           /\ \A i \in 1..Len(v) : Item(k, v)[1 + i] = v[i]
  <1> DEFINE x == <<ITEM_BEGIN(k, Len(v))>>
  <1>1. Len(v) \in Nat
    BY Positions
  <1>2. ITEM_BEGIN(k, Len(v)) \in Blocks
    BY <1>1, BlocksTyped
  <1>3. x \in Buffers /\ Len(x) = 1 /\ x[1] = ITEM_BEGIN(k, Len(v))
    BY <1>2 DEF Buffers
  <1>4. Item(k, v) = x \o v
    BY DEF Item
  <1> HIDE DEF x
  <1>5. /\ x \o v \in Buffers /\ Len(x \o v) = Len(x) + Len(v)
        /\ \A i \in 1..(Len(x) + Len(v)) : (x \o v)[i] = IF i <= Len(x) THEN x[i] ELSE v[i - Len(x)]
    BY <1>3, ConcatProperties DEF Buffers
  <1>6. ASSUME NEW i \in 1..Len(v)
        PROVE  (x \o v)[1 + i] = v[i]
    <2>1. 1 + i \in 1..(Len(x) + Len(v)) /\ ~(1 + i <= Len(x)) /\ (1 + i) - Len(x) = i
      BY <1>1, <1>3
    <2> QED BY <1>5, <2>1
  <1>7. (x \o v)[1] = x[1]
    <2>1. 1 \in 1..(Len(x) + Len(v)) /\ 1 <= Len(x)
      BY <1>1, <1>3
    <2> QED BY <1>5, <2>1
  <1> QED BY <1>1, <1>3, <1>4, <1>5, <1>6, <1>7

LEMMA FrontAndRest ==
    ASSUME NEW buf \in Buffers, NEW a \in 1..(Len(buf) + 1)
    PROVE  /\ SubSeq(buf, 1, a - 1) \in Buffers
           /\ Len(SubSeq(buf, 1, a - 1)) = a - 1
           /\ \A i \in 1..(a - 1) : SubSeq(buf, 1, a - 1)[i] = buf[i]
           /\ SubSeq(buf, a, Len(buf)) \in Buffers
           /\ Len(SubSeq(buf, a, Len(buf))) = (Len(buf) - a) + 1
           /\ \A i \in 1..((Len(buf) - a) + 1) : SubSeq(buf, a, Len(buf))[i] = buf[(a - 1) + i]
  <1>1. Len(buf) \in Nat /\ a \in Nat
    BY Positions
  <1>2. /\ 0 \in Nat /\ a - 1 \in Nat /\ 0 + (a - 1) <= Len(buf) /\ 0 + 1 = 1 /\ 0 + (a - 1) = a - 1
        /\ \A i \in 1..(a - 1) : 0 + i = i
    BY <1>1
  <1>3. /\ SubSeq(buf, 1, a - 1) \in Buffers
        /\ Len(SubSeq(buf, 1, a - 1)) = a - 1
        /\ \A i \in 1..(a - 1) : SubSeq(buf, 1, a - 1)[i] = buf[i]
    <2>1. /\ SubSeq(buf, 0 + 1, 0 + (a - 1)) \in Buffers
          /\ Len(SubSeq(buf, 0 + 1, 0 + (a - 1))) = a - 1
          /\ \A i \in 1..(a - 1) : SubSeq(buf, 0 + 1, 0 + (a - 1))[i] = buf[0 + i]
      BY <1>2, Segment
    <2> QED BY <1>2, <2>1
  <1> DEFINE n == (Len(buf) - a) + 1
  <1>4. n \in Nat /\ (a - 1) + n <= Len(buf) /\ (a - 1) + 1 = a /\ (a - 1) + n = Len(buf)
    BY <1>1
  <1>5. /\ SubSeq(buf, (a - 1) + 1, (a - 1) + n) \in Buffers
        /\ Len(SubSeq(buf, (a - 1) + 1, (a - 1) + n)) = n
        /\ \A i \in 1..n : SubSeq(buf, (a - 1) + 1, (a - 1) + n)[i] = buf[(a - 1) + i]
    <2> HIDE DEF n
    <2> QED BY <1>2, <1>4, Segment, ZenonT(60)
  <1>6. /\ SubSeq(buf, a, Len(buf)) \in Buffers
        /\ Len(SubSeq(buf, a, Len(buf))) = n
        /\ \A i \in 1..n : SubSeq(buf, a, Len(buf))[i] = buf[(a - 1) + i]
    <2> HIDE DEF n
    <2> QED BY <1>4, <1>5
  <1> QED BY <1>3, <1>6

(* Where the key of a module ends: not later than its item does.             *)
LEMMA KeyEndIs ==
    ASSUME NEW buf \in Buffers, NEW m, NEW k, NEW s, NEW e, IsModule(buf, m, s, e),
           NEW ks \in Nat, ks = pKeyStart(buf, m, k), ks > 0
    PROVE  /\ pKeyEnd(buf, m, k) \in (ks + 1)..(e - 1)
           /\ buf[pKeyEnd(buf, m, k)] = ITEM_END
           /\ \A j \in (ks + 1)..(pKeyEnd(buf, m, k) - 1) : buf[j].flag \in InnerFlags
  <1> DEFINE S == {i \in (ks + 1)..(e - 1) : buf[i] = ITEM_END}
  <1>1. s = pModuleStart(buf, m) /\ e = pModuleEnd(buf, m) /\ s \in Nat /\ e \in Nat
    BY DEF IsModule
  <1>2. pKeyEnd(buf, m, k) = First(S) /\ S \in SUBSET (Nat \ {0})
    BY <1>1 DEF pKeyEnd
  <1>3. ks \in (s + 1)..(e - 1) /\ IsItem(buf[ks])
    <2>1. IsKeyStart(buf, s, e, k, ks)
      BY <1>1, KeyStarts
    <2> QED BY <2>1 DEF IsKeyStart, IsKey, IsItem
  <1>4. Whole(buf, ks, e)
    BY <1>3 DEF IsModule
  <1>5. PICK n \in Nat : /\ ks + n + 1 < e
                         /\ buf[ks + n + 1] = ITEM_END
                         /\ \A j \in (ks + 1)..(ks + n) : buf[j].flag \in InnerFlags
    BY <1>4, WholeIs
  <1>6. ks + n + 1 \in S
    <2>1. ks + n + 1 \in (ks + 1)..(e - 1)
      BY <1>1, <1>5
    <2> QED BY <1>5, <2>1
  <1>7. First(S) \in S /\ First(S) <= ks + n + 1
    BY <1>2, <1>6, FirstFound
  <1>8. \A j \in (ks + 1)..(First(S) - 1) : j \in (ks + 1)..(ks + n)
    <2> DEFINE f == First(S)
    <2>1. f \in Nat /\ f <= ks + n + 1
      BY <1>2, <1>7
    <2> HIDE DEF f
    <2>2. \A j \in (ks + 1)..(f - 1) : j \in (ks + 1)..(ks + n)
      BY <2>1
    <2> QED BY <2>2 DEF f
  <1> QED BY <1>2, <1>5, <1>7, <1>8

(* GetPointer found the key: the item takes its place.                       *)
LEMMA Replaced ==
    ASSUME NEW buf \in Buffers, NEW m, NEW k \in Names, NEW v, IsValue(v),
           NEW s, NEW e, IsModule(buf, m, s, e), pKeyStart(buf, m, k) > 0,
           NEW new, new = SubSeq(buf, 1, pKeyStart(buf, m, k) - 1) \o Item(k, v)
                            \o SubSeq(buf, pKeyEnd(buf, m, k), Len(buf))
    PROVE  new \in Buffers /\ \E a, b, d : IsSpliced(buf, new, m, k, v, s, e, a, b, d)
  <1> DEFINE a == pKeyStart(buf, m, k)
             b == pKeyEnd(buf, m, k)
             d == a + Len(v) + 1 - b
  <1>1. /\ s = pModuleStart(buf, m) /\ e = pModuleEnd(buf, m) /\ s \in Nat /\ e \in Nat
        /\ s >= 1 /\ e <= Len(buf) /\ Len(buf) \in Nat /\ v \in Buffers /\ Len(v) \in Nat
    <2>1. /\ s = pModuleStart(buf, m) /\ e = pModuleEnd(buf, m) /\ s \in Nat /\ e \in Nat
          /\ s \in 1..Len(buf) /\ e \in (s + 2)..Len(buf)
      BY Positions DEF IsModule, IsStart, IsEnd
    <2>2. v \in Buffers /\ Len(v) \in Nat /\ Len(buf) \in Nat
      BY Positions DEF IsValue
    <2> QED BY <2>1, <2>2
  <1>2. a \in Nat /\ IsKeyStart(buf, s, e, k, a) /\ a \in (s + 1)..(e - 1)
    BY <1>1, KeyStarts DEF IsKeyStart
  <1>3. /\ b \in (a + 1)..(e - 1) /\ buf[b] = ITEM_END
        /\ \A j \in (a + 1)..(b - 1) : buf[j].flag \in InnerFlags
    BY <1>2, KeyEndIs
  <1>4. new = SubSeq(buf, 1, a - 1) \o Item(k, v) \o SubSeq(buf, b, Len(buf))
    OBVIOUS
  <1> HIDE DEF a, b
  <1>5. /\ a \in 1..(Len(buf) + 1) /\ b \in 1..(Len(buf) + 1) /\ a \in (s + 1)..e /\ b \in (s + 1)..(e - 1)
        /\ a <= b + 1 /\ b \in Nat /\ d \in Int
    BY <1>1, <1>2, <1>3, SMTT(40)
  <1>5a. /\ a \in Nat /\ b \in Nat /\ Len(v) \in Nat /\ Len(buf) \in Nat
         /\ d = a + Len(v) + 1 - b
    BY <1>1, <1>2, <1>5
  <1> DEFINE x == SubSeq(buf, 1, a - 1)
             y == Item(k, v)
             z == SubSeq(buf, b, Len(buf))
  <1>6. x \in Buffers /\ Len(x) = a - 1 /\ \A i \in 1..(a - 1) : x[i] = buf[i]
    BY <1>5, FrontAndRest
  <1>7. /\ y \in Buffers /\ Len(y) = Len(v) + 1 /\ y[1] = ITEM_BEGIN(k, Len(v))
        /\ \A i \in 1..Len(v) : y[1 + i] = v[i]
    BY <1>1, ItemIs
  <1>8. /\ z \in Buffers /\ Len(z) = (Len(buf) - b) + 1
        /\ \A i \in 1..((Len(buf) - b) + 1) : z[i] = buf[(b - 1) + i]
    BY <1>5, FrontAndRest
  <1>9. new = x \o y \o z
    BY <1>4
  <1> HIDE DEF x, y, z
  <1>10. /\ new \in Buffers
         /\ Len(new) = Len(x) + Len(y) + Len(z)
         /\ \A i \in 1..Len(x) : new[i] = x[i]
         /\ \A i \in 1..Len(y) : new[Len(x) + i] = y[i]
         /\ \A i \in 1..Len(z) : new[(Len(x) + Len(y)) + i] = z[i]
    <2>1. IsJoined(x \o y \o z, x, y, z)
      BY <1>6, <1>7, <1>8, Joined
    <2>2. IsJoined(new, x, y, z)
      BY <1>9, <2>1
    <2> QED BY <2>2 DEF IsJoined
  <1>10a. /\ Len(x) = a - 1 /\ Len(y) = Len(v) + 1 /\ Len(z) = (Len(buf) - b) + 1
          /\ Len(new) = Len(x) + Len(y) + Len(z)
    BY <1>6, <1>7, <1>8, <1>10
  <1>11. Len(new) = Len(buf) + d
    <2>1. Len(new) = (a - 1) + (Len(v) + 1) + ((Len(buf) - b) + 1)
      BY <1>10a
    <2>2. (a - 1) + (Len(v) + 1) + ((Len(buf) - b) + 1) = Len(buf) + d
      BY <1>5a
    <2> QED BY <2>1, <2>2
  <1>12. \A i \in 1..(a - 1) : new[i] = buf[i]
    BY <1>6, <1>10
  <1>13. new[a] = ITEM_BEGIN(k, Len(v))
    <2>1. 1 \in 1..Len(y) /\ Len(x) + 1 = a
      BY <1>1, <1>5, <1>6, <1>7
    <2> QED BY <1>7, <1>10, <2>1
  <1>14. ASSUME NEW i \in 1..Len(v)
         PROVE  new[a + i] = v[i]
    <2>1. 1 + i \in 1..Len(y) /\ Len(x) + (1 + i) = a + i
      BY <1>1, <1>5, <1>6, <1>7
    <2> QED BY <1>7, <1>10, <2>1
  <1>15. ASSUME NEW i \in b..Len(buf)
         PROVE  new[i + d] = buf[i]
    <2>1. /\ (i - b) + 1 \in 1..((Len(buf) - b) + 1) /\ (b - 1) + ((i - b) + 1) = i
          /\ (Len(x) + Len(y)) + ((i - b) + 1) = i + d
          /\ (i - b) + 1 \in 1..Len(z)
      BY <1>1, <1>5, <1>10a
    <2>2. new[(Len(x) + Len(y)) + ((i - b) + 1)] = z[(i - b) + 1]
      BY <1>10, <2>1
    <2>3. z[(i - b) + 1] = buf[(b - 1) + ((i - b) + 1)]
      BY <1>8, <2>1
    <2> QED BY <2>1, <2>2, <2>3
  <1>16. ASSUME NEW i \in (s + 1)..(a - 1), IsItem(buf[i])
         PROVE  buf[i].name # k /\ Whole(buf, i, a)
    <2>1. buf[i].name # k
      BY <1>2, <1>16 DEF IsKeyStart, IsKey, IsItem
    <2>2. Whole(buf, i, e)
      <3>1. i \in (s + 1)..(e - 1)
        BY <1>1, <1>2
      <3> QED BY <1>16, <3>1 DEF IsModule
    <2>3. PICK n \in Nat : /\ buf[i].len = n
                           /\ i + n + 1 < e
                           /\ buf[i + n + 1] = ITEM_END
                           /\ \A j \in (i + 1)..(i + n) : buf[j].flag \in InnerFlags
      BY <2>2, WholeIs
    <2>4. IsItem(buf[a])
      BY <1>2 DEF IsKeyStart, IsKey, IsItem
    <2>5. a \notin (i + 1)..(i + n) /\ a # i + n + 1
      BY <2>3, <2>4, FlagsOfValues, BlockFlags
    <2>6. i + n + 1 < a
      BY <1>1, <1>2, <2>5
    <2> QED BY <2>1, <2>3, <2>6, WholeIs
  <1>17. ASSUME NEW i \in a..(b - 1), IsItem(buf[i])
         PROVE  i = a /\ buf[i].name = k
    <2>1. i \notin (a + 1)..(b - 1)
      BY <1>3, <1>17, FlagsOfValues
    <2>2. i = a
      BY <1>2, <1>5, <2>1
    <2> QED BY <1>2, <2>2 DEF IsKeyStart, IsKey
  <1>18. IsSpliced(buf, new, m, k, v, s, e, a, b, d)
    BY <1>3, <1>5, <1>11, <1>12, <1>13, <1>14, <1>15, <1>16, <1>17 DEF IsSpliced
  <1> QED BY <1>10, <1>18

LEMMA JoinedTwo ==
    ASSUME NEW x \in Buffers, NEW y \in Buffers
    PROVE  /\ x \o y \in Buffers
           /\ Len(x \o y) = Len(x) + Len(y)
           /\ \A i \in 1..Len(x) : (x \o y)[i] = x[i]
           /\ \A i \in 1..Len(y) : (x \o y)[Len(x) + i] = y[i]
  <1> DEFINE w == x \o y
  <1>1. /\ w \in Buffers /\ Len(w) = Len(x) + Len(y)
        /\ \A i \in 1..(Len(x) + Len(y)) : w[i] = IF i <= Len(x) THEN x[i] ELSE y[i - Len(x)]
    BY ConcatProperties DEF Buffers
  <1>2. Len(x) \in Nat /\ Len(y) \in Nat
    BY Positions
  <1> HIDE DEF w
  <1>3. ASSUME NEW i \in 1..Len(x)
        PROVE  w[i] = x[i]
    <2>1. i \in 1..(Len(x) + Len(y)) /\ i <= Len(x)
      BY <1>2
    <2> QED BY <1>1, <2>1
  <1>4. ASSUME NEW i \in 1..Len(y)
        PROVE  w[Len(x) + i] = y[i]
    <2>1. /\ Len(x) + i \in 1..(Len(x) + Len(y)) /\ ~(Len(x) + i <= Len(x))
          /\ (Len(x) + i) - Len(x) = i
      BY <1>2
    <2> QED BY <1>1, <2>1
  <1>5. w \in Buffers /\ Len(w) = Len(x) + Len(y)
    BY <1>1
  <1> QED BY <1>3, <1>4, <1>5 DEF w

(* GetPointer found the module only: the item goes to its end.               *)
LEMMA Appended ==
    ASSUME NEW buf \in Buffers, NEW m, NEW k \in Names, NEW v, IsValue(v),
           NEW s, NEW e, IsModule(buf, m, s, e), pKeyStart(buf, m, k) = 0,
           NEW new, new = SubSeq(buf, 1, e - 1) \o Item(k, v) \o <<ITEM_END>>
                            \o SubSeq(buf, e, Len(buf))
    PROVE  new \in Buffers /\ \E a, b, d : IsSpliced(buf, new, m, k, v, s, e, a, b, d)
  <1> DEFINE L == Len(v)
             x == SubSeq(buf, 1, e - 1)
             y == Item(k, v)
             z == <<ITEM_END>>
             r == SubSeq(buf, e, Len(buf))
             w == x \o y
  <1>1. /\ s = pModuleStart(buf, m) /\ e = pModuleEnd(buf, m) /\ v \in Buffers
        /\ buf[e - 1] = ITEM_END
    BY DEF IsModule, IsEnd, IsValue
  <1>2. /\ s \in Nat /\ e \in Nat /\ s >= 1 /\ e >= s + 2 /\ e <= Len(buf)
        /\ Len(buf) \in Nat /\ L \in Nat
    <2>1. s \in Nat /\ e \in Nat /\ s \in 1..Len(buf) /\ e \in (s + 2)..Len(buf)
      BY Positions DEF IsModule, IsStart, IsEnd
    <2>2. L \in Nat /\ Len(buf) \in Nat
      BY <1>1, Positions
    <2> QED BY <2>1, <2>2
  <1>3. e \in 1..(Len(buf) + 1)
    BY <1>2
  <1>4. x \in Buffers /\ Len(x) = e - 1 /\ \A i \in 1..(e - 1) : x[i] = buf[i]
    BY <1>3, FrontAndRest
  <1>5. /\ y \in Buffers /\ Len(y) = L + 1 /\ y[1] = ITEM_BEGIN(k, L)
        /\ \A i \in 1..L : y[1 + i] = v[i]
    BY <1>1, ItemIs
  <1>6. z \in Buffers /\ Len(z) = 1 /\ z[1] = ITEM_END
    BY BlocksTyped DEF Buffers
  <1>7. /\ r \in Buffers /\ Len(r) = (Len(buf) - e) + 1
        /\ \A i \in 1..((Len(buf) - e) + 1) : r[i] = buf[(e - 1) + i]
    BY <1>3, FrontAndRest
  <1>8. new = w \o z \o r
    OBVIOUS
  <1> HIDE DEF x, y, z, r
  <1>9. /\ w \in Buffers /\ Len(w) = Len(x) + Len(y)
        /\ \A i \in 1..Len(x) : w[i] = x[i]
        /\ \A i \in 1..Len(y) : w[Len(x) + i] = y[i]
    BY <1>4, <1>5, JoinedTwo
  <1> HIDE DEF w, L
  <1>10. /\ new \in Buffers
         /\ Len(new) = Len(w) + Len(z) + Len(r)
         /\ \A i \in 1..Len(w) : new[i] = w[i]
         /\ \A i \in 1..Len(z) : new[Len(w) + i] = z[i]
         /\ \A i \in 1..Len(r) : new[(Len(w) + Len(z)) + i] = r[i]
    <2>1. IsJoined(w \o z \o r, w, z, r)
      BY <1>6, <1>7, <1>9, Joined
    <2>2. IsJoined(new, w, z, r)
      BY <1>8, <2>1
    <2> QED BY <2>2 DEF IsJoined
  <1> DEFINE b == e - 1
             d == L + 2
  <1>11. /\ Len(x) = e - 1 /\ Len(y) = L + 1 /\ Len(z) = 1 /\ Len(r) = (Len(buf) - e) + 1
         /\ Len(w) = Len(x) + Len(y) /\ Len(new) = Len(w) + Len(z) + Len(r)
    BY <1>4, <1>5, <1>6, <1>7, <1>9, <1>10
  <1>12. Len(new) = Len(buf) + d /\ Len(w) = e + L
    <2>1. Len(w) = (e - 1) + (L + 1) /\ Len(new) = ((e - 1) + (L + 1)) + 1 + ((Len(buf) - e) + 1)
      BY <1>11
    <2>2. (e - 1) + (L + 1) = e + L /\ ((e - 1) + (L + 1)) + 1 + ((Len(buf) - e) + 1) = Len(buf) + d
      BY <1>2
    <2> QED BY <2>1, <2>2
  <1>13. ASSUME NEW i \in 1..(e - 1)
         PROVE  new[i] = buf[i]
    <2>1. i \in 1..Len(w) /\ i \in 1..Len(x)
      BY <1>2, <1>11, <1>12
    <2> QED BY <1>4, <1>9, <1>10, <2>1
  <1>14. ASSUME NEW i \in 0..L
         PROVE  new[e + i] = y[1 + i]
    <2>1. e + i \in 1..Len(w) /\ 1 + i \in 1..Len(y) /\ Len(x) + (1 + i) = e + i
      BY <1>2, <1>11, <1>12
    <2>2. new[e + i] = w[e + i]
      BY <1>10, <2>1
    <2>3. w[Len(x) + (1 + i)] = y[1 + i]
      BY <1>9, <2>1
    <2> QED BY <2>1, <2>2, <2>3
  <1>15. new[e] = ITEM_BEGIN(k, L) /\ \A i \in 1..L : new[e + i] = v[i]
    <2>1. 0 \in 0..L /\ e + 0 = e /\ 1 + 0 = 1 /\ \A i \in 1..L : i \in 0..L
      BY <1>2
    <2> QED BY <1>5, <1>14, <2>1
  <1>16. ASSUME NEW i \in b..Len(buf)
         PROVE  new[i + d] = buf[i]
    <2>1. CASE i = e - 1
      <3>1. 1 \in 1..Len(z) /\ Len(w) + 1 = i + d
        BY <1>2, <1>11, <1>12, <2>1
      <3>2. new[Len(w) + 1] = z[1]
        BY <1>10, <3>1
      <3> QED BY <1>1, <1>6, <2>1, <3>1, <3>2
    <2>2. CASE i >= e
      <3>1. /\ (i - e) + 1 \in 1..Len(r) /\ (i - e) + 1 \in 1..((Len(buf) - e) + 1)
            /\ (e - 1) + ((i - e) + 1) = i
            /\ (Len(w) + Len(z)) + ((i - e) + 1) = i + d
        BY <1>2, <1>11, <1>12, <2>2
      <3>2. new[(Len(w) + Len(z)) + ((i - e) + 1)] = r[(i - e) + 1]
        BY <1>10, <3>1
      <3>3. r[(i - e) + 1] = buf[(e - 1) + ((i - e) + 1)]
        BY <1>7, <3>1
      <3> QED BY <3>1, <3>2, <3>3
    <2>3. i = e - 1 \/ i >= e
      BY <1>2
    <2> QED BY <2>1, <2>2, <2>3
  <1>17. ASSUME NEW i \in (s + 1)..(e - 1), IsItem(buf[i])
         PROVE  buf[i].name # k /\ Whole(buf, i, e)
    <2>1. ~IsKey(buf, k, i)
      BY <1>1, KeyStarts
    <2>2. Whole(buf, i, e)
      BY <1>17 DEF IsModule
    <2> QED BY <1>17, <2>1, <2>2 DEF IsKey, IsItem
  <1>18. /\ e \in (s + 1)..e /\ b \in (s + 1)..(e - 1) /\ e <= b + 1
         /\ d = e + L + 1 - b
         /\ \A i \in e..(b - 1) : FALSE
    BY <1>2
  <1>19. IsSpliced(buf, new, m, k, v, s, e, e, b, d)
    BY <1>1, <1>12, <1>13, <1>15, <1>16, <1>17, <1>18 DEF IsSpliced, L
  <1> QED BY <1>10, <1>19

(* GetPointer found nothing.  First an empty module, at the end.             *)
EmptyModule(m) == <<MODULE_BEGIN(m), ITEM_END, MODULE_END>>

LEMMA EmptyModuleAdded ==
    ASSUME NEW buf \in Buffers, Good(buf), NEW m \in Modules, m \in Names,
           pModuleStart(buf, m) = 0,
           NEW new, new = buf \o EmptyModule(m)
    PROVE  /\ new \in Buffers /\ Good(new) /\ Keeps(buf, new)
           /\ Len(new) = Len(buf) + 3
           /\ \A i \in 1..Len(buf) : new[i] = buf[i]
           /\ new[Len(buf) + 1] = MODULE_BEGIN(m)
           /\ new[Len(buf) + 2] = ITEM_END
           /\ new[Len(buf) + 3] = MODULE_END
           /\ IsModule(new, m, Len(buf) + 1, Len(buf) + 3)
           /\ \A n \in Modules : \A l : GetCfg(new, n, l) = GetCfg(buf, n, l)
           /\ Plain(buf) => Plain(new)
  <1> DEFINE N == Len(buf)
             M == EmptyModule(m)
             s == N + 1
             e == N + 3
  <1>1. /\ M \in Buffers /\ Len(M) = 3
        /\ M[1] = MODULE_BEGIN(m) /\ M[2] = ITEM_END /\ M[3] = MODULE_END
    BY BlocksTyped DEF EmptyModule, Buffers
  <1>2. N \in Nat /\ DOMAIN buf = 1..N
    BY Positions
  <1> HIDE DEF M
  <1>3. /\ new \in Buffers /\ Len(new) = N + 3
        /\ \A i \in 1..N : new[i] = buf[i]
        /\ \A i \in 1..3 : new[N + i] = M[i]
    <2>1. /\ buf \o M \in Buffers
          /\ Len(buf \o M) = Len(buf) + Len(M)
          /\ \A i \in 1..Len(buf) : (buf \o M)[i] = buf[i]
          /\ \A i \in 1..Len(M) : (buf \o M)[Len(buf) + i] = M[i]
      BY <1>1, JoinedTwo
    <2>2. new = buf \o M
      BY DEF M
    <2> QED BY <1>1, <2>1, <2>2
  <1> HIDE DEF N
  <1>4. new[s] = MODULE_BEGIN(m) /\ new[N + 2] = ITEM_END /\ new[e] = MODULE_END
    <2>1. 1 \in 1..3 /\ 2 \in 1..3 /\ 3 \in 1..3
      OBVIOUS
    <2>2. new[N + 1] = M[1] /\ new[N + 2] = M[2] /\ new[N + 3] = M[3]
      BY <1>3, <2>1
    <2> QED BY <1>1, <2>2
  <1>5. DOMAIN new = 1..(N + 3)
    BY <1>3, Positions
  <1>6. /\ s \in Nat /\ e \in Nat /\ s \in 1..(N + 3) /\ e \in (s + 2)..(N + 3)
        /\ e - 1 = N + 2
        /\ \A i \in 1..(s - 1) : i \in 1..N
        /\ \A i \in (s + 2)..(e - 1) : FALSE
        /\ \A i \in (s + 1)..(e - 1) : i = N + 2
    BY <1>2
  <1>7. \A i \in 1..N : buf[i] # MODULE_BEGIN(m)
    BY <1>2, Starts
  <1>8. IsStart(new, m, s) /\ IsEnd(new, s, e)
    <2>1. IsStart(new, m, s)
      BY <1>3, <1>4, <1>5, <1>6, <1>7 DEF IsStart
    <2>2. new[e - 1] = ITEM_END
      BY <1>4, <1>6
    <2>3. IsEnd(new, s, e)
      BY <1>3, <1>4, <1>6, <2>2 DEF IsEnd
    <2> QED BY <2>1, <2>3
  <1>9. pModuleStart(new, m) = s /\ pModuleEnd(new, m) = e
    BY <1>3, <1>8, Starts, Ends
  <1>10. \A i \in (s + 1)..(e - 1) : ~IsBegin(new[i]) /\ ~IsItem(new[i]) /\ new[i] # MODULE_END
    BY <1>4, <1>6, BlockFlags
  <1>11. IsModule(new, m, s, e)
    BY <1>6, <1>8, <1>9, <1>10 DEF IsModule
  <1>12. ASSUME NEW n \in Modules, pModuleStart(buf, n) > 0
         PROVE  /\ pModuleStart(new, n) = pModuleStart(buf, n)
                /\ IsModule(new, n, pModuleStart(buf, n), pModuleEnd(buf, n))
                /\ IsSame(buf, new, n)
                /\ pModuleEnd(buf, n) <= N
    <2> DEFINE t == pModuleStart(buf, n)
               g == pModuleEnd(buf, n)
    <2>1. IsModule(buf, n, t, g) /\ t \in Nat /\ g \in Nat
      BY <1>12, ModuleIs DEF Good, IsModule
    <2>2. g <= N
      BY <2>1 DEF IsModule, IsEnd, N
    <2> HIDE DEF t, g
    <2>3. g <= Len(new) /\ \A i \in 1..g : i \in 1..N
      BY <1>2, <1>3, <2>1, <2>2
    <2>4. \A i \in 1..g : new[i] = buf[i]
      BY <1>3, <2>3
    <2>5. /\ pModuleStart(new, n) = t
          /\ IsModule(new, n, t, g)
          /\ \A l : pKeyStart(new, n, l) = pKeyStart(buf, n, l)
          /\ \A l : GetCfg(new, n, l) = GetCfg(buf, n, l)
      <3>1. g <= Len(new)
        BY <2>3
      <3> QED BY <1>3, <2>1, <2>4, <3>1, Agree, ZenonT(60)
    <2> QED BY <2>2, <2>5 DEF t, g, IsSame
  <1>13. ASSUME NEW n \in Modules, n # m, pModuleStart(buf, n) = 0
         PROVE  pModuleStart(new, n) = 0
    <2>1. \A i \in 1..N : buf[i] # MODULE_BEGIN(n)
      BY <1>2, <1>13, Starts
    <2>2. ASSUME NEW i \in DOMAIN new
          PROVE  new[i] # MODULE_BEGIN(n)
      <3>1. CASE i \in 1..N
        BY <1>3, <2>1, <3>1
      <3>2. CASE i = s
        <4>1. MODULE_BEGIN(m) # MODULE_BEGIN(n)
          BY <1>13, BlockFlags
        <4> QED BY <1>4, <3>2, <4>1
      <3>3. CASE i = N + 2 \/ i = e
        BY <1>4, <3>3, BlockFlags, SMTT(40)
      <3>4. i \in 1..N \/ i = s \/ i = N + 2 \/ i = e
        BY <1>2, <1>5
      <3> QED BY <3>1, <3>2, <3>3, <3>4
    <2>3. /\ pModuleStart(new, n) \in Nat
          /\ pModuleStart(new, n) > 0 => IsStart(new, n, pModuleStart(new, n))
      BY <1>3, Starts
    <2> QED BY <2>2, <2>3 DEF IsStart
  <1>14. pModuleStart(buf, m) = 0 /\ s > 0 /\ pModuleStart(new, m) = s
    BY <1>6, <1>9
  <1>15. Keeps(buf, new)
    <2>1. \A n \in Modules : pModuleStart(buf, n) > 0 =>
             pModuleStart(new, n) > 0 /\ IsSame(buf, new, n)
      BY <1>12
    <2> QED BY <2>1 DEF Keeps, IsSame
  <1>16. ASSUME NEW n \in Modules, pModuleStart(new, n) > 0
         PROVE  \E t, g : IsModule(new, n, t, g)
    <2>1. CASE n = m
      BY <1>11, <2>1
    <2>2. CASE n # m
      BY <1>12, <1>13, <1>16, <2>2, Starts
    <2> QED BY <2>1, <2>2
  <1>17. Ended(new) /\ Items(new)
    BY <1>3, <1>16, Modular
  <1>18. Closed(new)
    <2> SUFFICES ASSUME NEW i \in DOMAIN new, IsBegin(new[i])
                 PROVE  /\ \E n \in Modules : new[i] = MODULE_BEGIN(n)
                        /\ \E g \in (i + 1)..Len(new) :
                              new[g] = MODULE_END /\ \A j \in (i + 1)..g : ~IsBegin(new[j])
      BY DEF Closed
    <2>1. CASE i \in 1..N
      <3>1. new[i] = buf[i] /\ i \in DOMAIN buf
        BY <1>2, <1>3, <2>1
      <3>2. \E n \in Modules : new[i] = MODULE_BEGIN(n)
        BY <3>1 DEF Good, Closed
      <3>3. PICK g \in (i + 1)..N : buf[g] = MODULE_END /\ \A j \in (i + 1)..g : ~IsBegin(buf[j])
        BY <3>1 DEF Good, Closed, N
      <3>4. g \in (i + 1)..Len(new) /\ \A j \in (i + 1)..g : j \in 1..N
        BY <1>2, <1>3, <2>1
      <3>5. g \in 1..N
        BY <1>2, <2>1
      <3> QED BY <1>3, <3>2, <3>3, <3>4, <3>5
    <2>2. CASE i = s
      <3>1. e \in (s + 1)..Len(new)
        BY <1>2, <1>3
      <3>2. \A j \in (s + 1)..e : j \in (s + 1)..(e - 1) \/ j = e
        BY <1>2
      <3>3. \A j \in (s + 1)..e : ~IsBegin(new[j])
        BY <1>4, <1>10, <3>2, BlockFlags
      <3> QED BY <1>4, <2>2, <3>1, <3>3
    <2>3. CASE i = N + 2 \/ i = e
      BY <1>4, <2>3, BlockFlags
    <2>4. i \in 1..N \/ i = s \/ i = N + 2 \/ i = e
      BY <1>2, <1>5
    <2> QED BY <2>1, <2>2, <2>3, <2>4
  <1>19. Keys(new)
    <2> SUFFICES ASSUME NEW c \in DOMAIN new, NEW i \in DOMAIN new, OpenAt(new, c, i), IsItem(new[i])
                 PROVE  pKeyStart(new, new[c].name, new[i].name) > 0
      BY DEF Keys
    <2>1. i # s /\ i # N + 2 /\ i # e
      <3>1. ~IsItem(new[s]) /\ ~IsItem(new[N + 2]) /\ ~IsItem(new[e])
        <4>1. ~IsItem(MODULE_BEGIN(m)) /\ ~IsItem(ITEM_END) /\ ~IsItem(MODULE_END)
          BY BlockFlags
        <4> QED BY <1>4, <4>1
      <3> QED BY <3>1
    <2>2. i \in 1..N /\ c < i /\ c \in 1..N
      <3>1. c < i
        BY DEF OpenAt
      <3> QED BY <1>2, <1>5, <2>1, <3>1
    <2>3. \A j \in c..i : j \in 1..N
      BY <1>2, <2>2
    <2>4. OpenAt(buf, c, i) /\ IsItem(buf[i]) /\ buf[c] = new[c] /\ buf[i] = new[i]
      <3>1. buf[c] = new[c] /\ buf[i] = new[i]
        BY <1>3, <2>2
      <3>2. \A j \in c..i : buf[j] # MODULE_END
        BY <1>3, <2>3 DEF OpenAt
      <3> QED BY <2>2, <3>1, <3>2 DEF OpenAt
    <2> QED BY <1>2, <1>3, <1>15, <2>2, <2>4, KeyThere DEF Good
  <1>20. ASSUME NEW n \in Modules, NEW l
         PROVE  GetCfg(new, n, l) = GetCfg(buf, n, l)
    <2>1. CASE pModuleStart(buf, n) > 0
      <3>1. IsSame(buf, new, n)
        BY <1>12, <2>1
      <3> QED BY <3>1 DEF IsSame
    <2>2. CASE pModuleStart(buf, n) = 0 /\ n # m
      BY <1>13, <2>2, GetCfgIs
    <2>3. CASE n = m
      <3>1. /\ pKeyStart(new, m, l) \in Nat
            /\ pKeyStart(new, m, l) > 0 => IsKeyStart(new, s, e, l, pKeyStart(new, m, l))
        BY <1>3, <1>9, KeyStarts
      <3>2. pKeyStart(new, m, l) = 0
        <4>1. \A i \in (s + 1)..(e - 1) : ~IsKey(new, l, i)
          BY <1>10 DEF IsKey, IsItem
        <4> QED BY <3>1, <4>1 DEF IsKeyStart
      <3> QED BY <1>14, <2>3, <3>2, GetCfgIs
    <2> QED BY <2>1, <2>2, <2>3, Starts
  <1>21. ASSUME Plain(buf), NEW n \in Modules, pModuleStart(new, n) > 0,
                NEW i \in InModule(new, n)
         PROVE  new[i] # MODULE_END
    <2>1. CASE n = m
      BY <1>9, <1>10, <1>21, <2>1 DEF InModule
    <2>2. CASE n # m
      <3>1. pModuleStart(buf, n) > 0
        BY <1>13, <1>21, <2>2, Starts
      <3> DEFINE t == pModuleStart(buf, n)
                 g == pModuleEnd(buf, n)
      <3>2. /\ IsModule(new, n, t, g) /\ g <= N /\ t \in Nat /\ g \in Nat
            /\ \A j \in (t + 1)..(g - 1) : buf[j] # MODULE_END
        <4>1. IsModule(new, n, t, g) /\ g <= N
          BY <1>12, <3>1
        <4>2. t \in Nat /\ g \in Nat
          BY <4>1 DEF IsModule
        <4> QED BY <1>21, <3>1, <4>1, <4>2 DEF Plain, InModule
      <3> HIDE DEF t, g
      <3>3. i \in (t + 1)..(g - 1)
        BY <1>21, <3>2 DEF IsModule, InModule
      <3>4. i \in 1..N
        BY <1>2, <3>2, <3>3
      <3> QED BY <1>3, <3>2, <3>3, <3>4
    <2> QED BY <2>1, <2>2
  <1>22. Plain(buf) => Plain(new)
    BY <1>21 DEF Plain
  <1>23. Good(new)
    BY <1>17, <1>18, <1>19 DEF Good
  <1> QED BY <1>3, <1>4, <1>11, <1>15, <1>20, <1>22, <1>23 DEF N

(* Then the item, into the empty module.                                     *)
LEMMA ModuleAdded ==
    ASSUME NEW buf \in Buffers, NEW mid \in Buffers, NEW m, NEW k \in Names, NEW v, IsValue(v),
           m \in Names,
           Len(mid) = Len(buf) + 3,
           \A i \in 1..Len(buf) : mid[i] = buf[i],
           mid[Len(buf) + 1] = MODULE_BEGIN(m),
           mid[Len(buf) + 2] = ITEM_END,
           IsModule(mid, m, Len(buf) + 1, Len(buf) + 3),
           NEW new, new = buf \o <<MODULE_BEGIN(m)>> \o Item(k, v) \o <<ITEM_END, MODULE_END>>
    PROVE  /\ new \in Buffers
           /\ \E a, b, d : IsSpliced(mid, new, m, k, v, Len(buf) + 1, Len(buf) + 3, a, b, d)
  <1> DEFINE N == Len(buf)
             L == Len(v)
             x == <<MODULE_BEGIN(m)>>
             y == Item(k, v)
             z == <<ITEM_END, MODULE_END>>
             w == buf \o x
             a == N + 2
             d == L + 1
  <1>1. N \in Nat /\ L \in Nat /\ v \in Buffers
    BY Positions DEF IsValue
  <1>2. x \in Buffers /\ Len(x) = 1 /\ x[1] = MODULE_BEGIN(m)
    BY BlocksTyped DEF Buffers
  <1>3. /\ y \in Buffers /\ Len(y) = L + 1 /\ y[1] = ITEM_BEGIN(k, L)
        /\ \A i \in 1..L : y[1 + i] = v[i]
    BY <1>1, ItemIs
  <1>4. z \in Buffers /\ Len(z) = 2 /\ z[1] = ITEM_END /\ z[2] = MODULE_END
    BY BlocksTyped DEF Buffers
  <1>5. new = w \o y \o z
    OBVIOUS
  <1>6. mid[N + 3] = MODULE_END
    BY DEF IsModule, IsEnd
  <1>6a. /\ Len(mid) = N + 3 /\ \A i \in 1..N : mid[i] = buf[i]
         /\ mid[N + 1] = MODULE_BEGIN(m) /\ mid[a] = ITEM_END
         /\ IsModule(mid, m, N + 1, N + 3)
    OBVIOUS
  <1> HIDE DEF x, y, z, N, L
  <1>7. /\ w \in Buffers /\ Len(w) = N + Len(x)
        /\ \A i \in 1..N : w[i] = buf[i]
        /\ \A i \in 1..Len(x) : w[N + i] = x[i]
    BY <1>2, JoinedTwo DEF N
  <1> HIDE DEF w
  <1>8. /\ new \in Buffers
        /\ Len(new) = Len(w) + Len(y) + Len(z)
        /\ \A i \in 1..Len(w) : new[i] = w[i]
        /\ \A i \in 1..Len(y) : new[Len(w) + i] = y[i]
        /\ \A i \in 1..Len(z) : new[(Len(w) + Len(y)) + i] = z[i]
    <2>1. IsJoined(w \o y \o z, w, y, z)
      BY <1>3, <1>4, <1>7, Joined
    <2>2. IsJoined(new, w, y, z)
      BY <1>5, <2>1
    <2> QED BY <2>2 DEF IsJoined
  <1>9. Len(w) = N + 1 /\ Len(y) = L + 1 /\ Len(z) = 2 /\ Len(new) = Len(mid) + d /\ Len(x) = 1
    <2>1. Len(w) = N + 1 /\ Len(y) = L + 1 /\ Len(z) = 2 /\ Len(x) = 1
      BY <1>2, <1>3, <1>4, <1>7
    <2>2. Len(new) = (N + 1) + (L + 1) + 2
      BY <1>8, <2>1
    <2>3. (N + 1) + (L + 1) + 2 = (N + 3) + d
      BY <1>1
    <2> QED BY <1>6a, <2>1, <2>2, <2>3
  <1>10. ASSUME NEW i \in 1..(a - 1)
         PROVE  new[i] = mid[i]
    <2>1. i \in 1..Len(w)
      BY <1>1, <1>9
    <2>2. new[i] = w[i]
      BY <1>8, <2>1
    <2>3. CASE i <= N
      <3>1. i \in 1..N
        BY <1>1, <2>3
      <3> QED BY <1>6a, <1>7, <2>2, <3>1
    <2>4. CASE i = N + 1
      <3>1. 1 \in 1..Len(x)
        BY <1>9
      <3>2. w[N + 1] = x[1]
        BY <1>7, <3>1
      <3> QED BY <1>2, <1>6a, <2>2, <2>4, <3>2
    <2>5. i <= N \/ i = N + 1
      BY <1>1
    <2> QED BY <2>3, <2>4, <2>5
  <1>11. new[a] = ITEM_BEGIN(k, L)
    <2>1. 1 \in 1..Len(y) /\ Len(w) + 1 = a
      BY <1>1, <1>9
    <2>2. new[Len(w) + 1] = y[1]
      BY <1>8, <2>1
    <2> QED BY <1>3, <2>1, <2>2
  <1>12. ASSUME NEW i \in 1..L
         PROVE  new[a + i] = v[i]
    <2>1. 1 + i \in 1..Len(y) /\ Len(w) + (1 + i) = a + i
      BY <1>1, <1>9
    <2>2. new[Len(w) + (1 + i)] = y[1 + i]
      BY <1>8, <2>1
    <2> QED BY <1>3, <2>1, <2>2
  <1>13. new[a + d] = ITEM_END /\ new[(N + 3) + d] = MODULE_END
    <2>1. 1 \in 1..Len(z) /\ 2 \in 1..Len(z) /\ (Len(w) + Len(y)) + 1 = a + d /\ (Len(w) + Len(y)) + 2 = (N + 3) + d
      BY <1>1, <1>9
    <2>2. new[(Len(w) + Len(y)) + 1] = z[1] /\ new[(Len(w) + Len(y)) + 2] = z[2]
      BY <1>8, <2>1
    <2> QED BY <1>4, <2>1, <2>2
  <1>14. \A i \in a..Len(mid) : i = a \/ i = N + 3
    BY <1>1, <1>6a
  <1>15. \A i \in a..Len(mid) : new[i + d] = mid[i]
    BY <1>6, <1>6a, <1>13, <1>14
  <1>16. /\ a \in ((N + 1) + 1)..(N + 3) /\ a \in ((N + 1) + 1)..((N + 3) - 1) /\ a <= a + 1
         /\ d = a + L + 1 - a
         /\ \A i \in ((N + 1) + 1)..(a - 1) : FALSE
         /\ \A i \in a..(a - 1) : FALSE
    BY <1>1
  <1>17. IsSpliced(mid, new, m, k, v, N + 1, N + 3, a, a, d)
    BY <1>6a, <1>9, <1>10, <1>11, <1>12, <1>15, <1>16 DEF IsSpliced, L
  <1> QED BY <1>8, <1>17 DEF N

(* NewBuffer, whatever the search found.                                     *)
LEMMA NewBufferIs ==
    ASSUME NEW buf \in Buffers, Good(buf), NEW m \in Modules, m \in Names, NEW k \in Names,
           NEW v, IsValue(v),
           NEW new, new = NewBuffer(buf, m, k, v)
    PROVE  /\ new \in Buffers /\ new # <<>>
           /\ Good(new) /\ Keeps(buf, new)
           /\ GetCfg(new, m, k) = v
           /\ \A n \in Modules : \A l : n # m \/ l # k => GetCfg(new, n, l) = GetCfg(buf, n, l)
           /\ Plain(buf) /\ (\A i \in DOMAIN v : v[i] # MODULE_END) => Plain(new)
  <1> DEFINE s == pModuleStart(buf, m)
             e == pModuleEnd(buf, m)
  <1>1. s \in Nat /\ pKeyStart(buf, m, k) \in Nat
    BY Starts, KeyStarts
  <1>2. s > 0 => e > 0 /\ IsModule(buf, m, s, e)
    <2>1. s > 0 => IsModule(buf, m, s, e)
      BY ModuleIs DEF Good
    <2> QED BY <2>1 DEF Good, Ended
  <1>3. CASE s = 0
    <2> DEFINE mid == buf \o EmptyModule(m)
    <2>1. /\ mid \in Buffers /\ Good(mid) /\ Keeps(buf, mid)
          /\ Len(mid) = Len(buf) + 3
          /\ \A i \in 1..Len(buf) : mid[i] = buf[i]
          /\ mid[Len(buf) + 1] = MODULE_BEGIN(m)
          /\ mid[Len(buf) + 2] = ITEM_END
          /\ mid[Len(buf) + 3] = MODULE_END
          /\ IsModule(mid, m, Len(buf) + 1, Len(buf) + 3)
          /\ \A n \in Modules : \A l : GetCfg(mid, n, l) = GetCfg(buf, n, l)
          /\ Plain(buf) => Plain(mid)
      BY <1>3, EmptyModuleAdded
    <2> HIDE DEF mid
    <2>2. new = buf \o <<MODULE_BEGIN(m)>> \o Item(k, v) \o <<ITEM_END, MODULE_END>>
      BY <1>3 DEF NewBuffer, GetPointer
    <2>3. new \in Buffers
      BY <2>1, <2>2, ModuleAdded, ZenonT(60)
    <2>4. PICK a, b, d : IsSpliced(mid, new, m, k, v, Len(buf) + 1, Len(buf) + 3, a, b, d)
      BY <2>1, <2>2, ModuleAdded, ZenonT(60)
    <2>5. /\ Good(new) /\ Keeps(mid, new)
          /\ GetCfg(new, m, k) = v
          /\ \A n \in Modules : \A l : n # m \/ l # k => GetCfg(new, n, l) = GetCfg(mid, n, l)
          /\ Plain(mid) /\ (\A i \in DOMAIN v : v[i] # MODULE_END) => Plain(new)
      BY <2>1, <2>3, <2>4, Spliced
    <2>6. Keeps(buf, new)
      BY <2>1, <2>5 DEF Keeps
    <2>7. new # <<>>
      <3>1. Len(mid) \in Nat /\ Len(buf) \in Nat
        BY <2>1, Positions
      <3>2. b \in Nat /\ d \in Int /\ Len(new) = Len(mid) + d /\ b < Len(buf) + 3 /\ b + d > 0
        <4>1. /\ b \in Nat /\ d \in Int /\ Len(new) = Len(mid) + d /\ b < Len(buf) + 3
              /\ a \in Nat /\ Len(v) \in Nat /\ b + d = a + Len(v) + 1
          BY <2>1, <2>3, <2>4, SplicedFrom
        <4> QED BY <4>1
      <3>3. Len(new) > 0
        BY <2>1, <3>1, <3>2
      <3> QED BY <3>3
    <2> QED BY <2>1, <2>3, <2>5, <2>6, <2>7
  <1>4. CASE s > 0
    <2>1. new \in Buffers /\ \E a, b, d : IsSpliced(buf, new, m, k, v, s, e, a, b, d)
      <3>1. CASE pKeyStart(buf, m, k) = 0
        <4>1. new = SubSeq(buf, 1, e - 1) \o Item(k, v) \o <<ITEM_END>> \o SubSeq(buf, e, Len(buf))
          <5>1. s # 0 /\ e # 0
            <6> HIDE DEF s, e
            <6> QED BY <1>2, <1>4
          <5>2. GetPointer(buf, m, k) = "KEY_NOT_EXIST"
            BY <3>1, <5>1 DEF GetPointer
          <5>3. new = NewBuffer(buf, m, k, v)
            OBVIOUS
          <5> QED BY <5>2, <5>3 DEF NewBuffer
        <4> HIDE DEF s, e
        <4> QED BY <1>2, <1>4, <3>1, <4>1, Appended
      <3>2. CASE pKeyStart(buf, m, k) > 0
        <4>1. new = SubSeq(buf, 1, pKeyStart(buf, m, k) - 1) \o Item(k, v)
                      \o SubSeq(buf, pKeyEnd(buf, m, k), Len(buf))
          <5>1. s # 0 /\ e # 0 /\ pKeyStart(buf, m, k) # 0
            <6> HIDE DEF s, e
            <6> QED BY <1>2, <1>4, <3>2
          <5>2. GetPointer(buf, m, k) = "OK"
            BY <5>1 DEF GetPointer
          <5>3. new = NewBuffer(buf, m, k, v)
            OBVIOUS
          <5> QED BY <5>2, <5>3 DEF NewBuffer
        <4> HIDE DEF s, e
        <4> QED BY <1>2, <1>4, <3>2, <4>1, Replaced
      <3> QED BY <1>1, <3>1, <3>2
    <2>2. PICK a, b, d : IsSpliced(buf, new, m, k, v, s, e, a, b, d)
      BY <2>1
    <2>3. /\ Good(new) /\ Keeps(buf, new)
          /\ GetCfg(new, m, k) = v
          /\ \A n \in Modules : \A l : n # m \/ l # k => GetCfg(new, n, l) = GetCfg(buf, n, l)
          /\ Plain(buf) /\ (\A i \in DOMAIN v : v[i] # MODULE_END) => Plain(new)
      BY <2>1, <2>2, Spliced
    <2>4. new # <<>>
      <3>1. /\ e \in Nat /\ b \in Nat /\ d \in Int /\ Len(new) = Len(buf) + d /\ b < e /\ e <= Len(buf)
            /\ Len(buf) \in Nat /\ a \in Nat /\ Len(v) \in Nat /\ b + d = a + Len(v) + 1
        BY <2>1, <2>2, SplicedFrom
      <3> HIDE DEF e
      <3>2. Len(new) > 0
        BY <3>1
      <3> QED BY <3>2
    <2> QED BY <2>1, <2>3, <2>4
  <1> QED BY <1>1, <1>3, <1>4
-----------------------------------------------------------------------------
(* The new content over the old, of which the rest stays behind f.           *)
IsOver(buf, old, new, f) ==
    /\ f \in (Len(buf) + 1)..Len(old)
    /\ Len(new) = Len(old)
    /\ \A i \in 1..Len(buf) : new[i] = buf[i]
    /\ \A i \in (Len(buf) + 1)..f : ~IsBegin(new[i]) /\ ~IsItem(new[i])
    /\ \A i \in (f + 1)..Len(old) : new[i] = old[i]

LEMMA OverModules ==
    ASSUME NEW buf \in Buffers, NEW old \in Buffers, NEW new \in Buffers, NEW f,
           IsOver(buf, old, new, f), Ended(buf), Items(buf), Keeps(old, buf),
           NEW n \in Modules
    PROVE  /\ pModuleStart(buf, n) > 0 =>
                 /\ pModuleStart(new, n) = pModuleStart(buf, n)
                 /\ IsModule(new, n, pModuleStart(buf, n), pModuleEnd(buf, n))
                 /\ \A l : pKeyStart(new, n, l) = pKeyStart(buf, n, l)
           /\ pModuleStart(buf, n) = 0 => pModuleStart(new, n) = 0
           /\ \A l : GetCfg(new, n, l) = GetCfg(buf, n, l)
  <1>1. /\ Len(buf) \in Nat /\ Len(old) \in Nat /\ f \in Nat
        /\ f >= Len(buf) + 1 /\ f <= Len(old) /\ Len(new) = Len(old)
        /\ DOMAIN buf = 1..Len(buf) /\ DOMAIN old = 1..Len(old) /\ DOMAIN new = 1..Len(old)
    <2>1. f \in (Len(buf) + 1)..Len(old) /\ Len(new) = Len(old)
      BY DEF IsOver
    <2> QED BY <2>1, Positions
  <1>2. CASE pModuleStart(buf, n) > 0
    <2> DEFINE t == pModuleStart(buf, n)
               g == pModuleEnd(buf, n)
    <2>1. IsModule(buf, n, t, g)
      BY <1>2, ModuleIs
    <2>2. t \in Nat /\ g \in Nat /\ g \in (t + 2)..Len(buf)
      BY <2>1 DEF IsModule, IsEnd
    <2> HIDE DEF t, g
    <2>3. g <= Len(new) /\ \A i \in 1..g : i \in 1..Len(buf)
      BY <1>1, <2>2
    <2>4. g <= Len(new) /\ \A i \in 1..g : new[i] = buf[i]
      BY <2>3 DEF IsOver
    <2>5. /\ pModuleStart(new, n) = t
          /\ IsModule(new, n, t, g)
          /\ \A l : pKeyStart(new, n, l) = pKeyStart(buf, n, l)
          /\ \A l : GetCfg(new, n, l) = GetCfg(buf, n, l)
      BY <2>1, <2>2, <2>4, Agree
    <2> QED BY <1>2, <2>5 DEF t, g
  <1>3. CASE pModuleStart(buf, n) = 0
    <2>1. pModuleStart(old, n) = 0
      BY <1>3, Starts DEF Keeps
    <2>2. /\ \A i \in 1..Len(buf) : buf[i] # MODULE_BEGIN(n)
          /\ \A i \in 1..Len(old) : old[i] # MODULE_BEGIN(n)
      BY <1>1, <1>3, <2>1, Starts
    <2>3. ASSUME NEW i \in 1..Len(old)
          PROVE  new[i] # MODULE_BEGIN(n)
      <3>1. i \in 1..Len(buf) \/ i \in (Len(buf) + 1)..f \/ i \in (f + 1)..Len(old)
        BY <1>1
      <3>2. CASE i \in 1..Len(buf)
        BY <2>2, <3>2 DEF IsOver
      <3>3. CASE i \in (Len(buf) + 1)..f
        BY <3>3, BlockFlags DEF IsOver
      <3>4. CASE i \in (f + 1)..Len(old)
        BY <2>2, <3>4 DEF IsOver
      <3> QED BY <3>1, <3>2, <3>3, <3>4
    <2>4. /\ pModuleStart(new, n) \in Nat
          /\ pModuleStart(new, n) > 0 => IsStart(new, n, pModuleStart(new, n))
      BY Starts
    <2>5. pModuleStart(new, n) = 0
      BY <1>1, <2>3, <2>4 DEF IsStart
    <2> QED BY <1>3, <2>5, GetCfgIs
  <1>4. pModuleStart(buf, n) \in Nat
    BY Starts
  <1> QED BY <1>2, <1>3, <1>4

LEMMA OverGood ==
    ASSUME NEW buf \in Buffers, NEW old \in Buffers, NEW new \in Buffers, NEW f,
           IsOver(buf, old, new, f), Good(buf), Good(old), Keeps(old, buf)
    PROVE  /\ Good(new)
           /\ \A n \in Modules : \A l : GetCfg(new, n, l) = GetCfg(buf, n, l)
           /\ Plain(buf) => Plain(new)
  <1>1. /\ Len(buf) \in Nat /\ Len(old) \in Nat /\ f \in Nat
        /\ f >= Len(buf) + 1 /\ f <= Len(old) /\ Len(new) = Len(old)
        /\ DOMAIN buf = 1..Len(buf) /\ DOMAIN old = 1..Len(old) /\ DOMAIN new = 1..Len(old)
    <2>1. f \in (Len(buf) + 1)..Len(old) /\ Len(new) = Len(old)
      BY DEF IsOver
    <2> QED BY <2>1, Positions
  <1>2. /\ \A i \in 1..Len(buf) : new[i] = buf[i]
        /\ \A i \in (Len(buf) + 1)..f : ~IsBegin(new[i]) /\ ~IsItem(new[i])
        /\ \A i \in (f + 1)..Len(old) : new[i] = old[i]
    BY DEF IsOver
  <1>3. ASSUME NEW i \in 1..Len(old)
        PROVE  i \in 1..Len(buf) \/ i \in (Len(buf) + 1)..f \/ i \in (f + 1)..Len(old)
    BY <1>1
  <1>4. ASSUME NEW n \in Modules
        PROVE  /\ pModuleStart(buf, n) > 0 =>
                     /\ pModuleStart(new, n) = pModuleStart(buf, n)
                     /\ IsModule(new, n, pModuleStart(buf, n), pModuleEnd(buf, n))
                     /\ \A l : pKeyStart(new, n, l) = pKeyStart(buf, n, l)
               /\ pModuleStart(buf, n) = 0 => pModuleStart(new, n) = 0
               /\ \A l : GetCfg(new, n, l) = GetCfg(buf, n, l)
               /\ pModuleStart(buf, n) \in Nat
    BY OverModules, Starts DEF Good
  <1>5. Keeps(buf, new)
    BY <1>4 DEF Keeps
  <1>6. Keeps(old, new)
    BY <1>5 DEF Keeps
  <1>7. Ended(new) /\ Items(new)
    <2>1. ASSUME NEW n \in Modules, pModuleStart(new, n) > 0
          PROVE  \E t, g : IsModule(new, n, t, g)
      <3>1. pModuleStart(buf, n) > 0
        BY <1>4, <2>1
      <3> QED BY <1>4, <3>1
    <2> QED BY <2>1, Modular
  <1>8. Closed(new)
    <2> SUFFICES ASSUME NEW i \in 1..Len(old), IsBegin(new[i])
                 PROVE  /\ \E n \in Modules : new[i] = MODULE_BEGIN(n)
                        /\ \E g \in (i + 1)..Len(old) :
                              new[g] = MODULE_END /\ \A j \in (i + 1)..g : ~IsBegin(new[j])
      BY <1>1 DEF Closed
    <2>1. CASE i \in 1..Len(buf)
      <3>1. new[i] = buf[i] /\ i \in DOMAIN buf
        BY <1>1, <1>2, <2>1
      <3>2. \E n \in Modules : new[i] = MODULE_BEGIN(n)
        BY <3>1 DEF Good, Closed
      <3>3. PICK g \in (i + 1)..Len(buf) : buf[g] = MODULE_END /\ \A j \in (i + 1)..g : ~IsBegin(buf[j])
        BY <3>1 DEF Good, Closed
      <3>4. g \in (i + 1)..Len(old) /\ g \in 1..Len(buf) /\ \A j \in (i + 1)..g : j \in 1..Len(buf)
        BY <1>1, <2>1
      <3> QED BY <1>2, <3>2, <3>3, <3>4
    <2>2. CASE i \in (f + 1)..Len(old)
      <3>1. new[i] = old[i] /\ i \in DOMAIN old
        BY <1>1, <1>2, <2>2
      <3>2. \E n \in Modules : new[i] = MODULE_BEGIN(n)
        BY <3>1 DEF Good, Closed
      <3>3. PICK g \in (i + 1)..Len(old) : old[g] = MODULE_END /\ \A j \in (i + 1)..g : ~IsBegin(old[j])
        BY <3>1 DEF Good, Closed
      <3>4. g \in (f + 1)..Len(old) /\ \A j \in (i + 1)..g : j \in (f + 1)..Len(old)
        BY <1>1, <2>2
      <3> QED BY <1>2, <3>2, <3>3, <3>4
    <2> QED BY <1>2, <1>3, <2>1, <2>2
  <1>9. Keys(new)
    <2> SUFFICES ASSUME NEW c \in 1..Len(old), NEW i \in 1..Len(old), OpenAt(new, c, i), IsItem(new[i])
                 PROVE  pKeyStart(new, new[c].name, new[i].name) > 0
      BY <1>1 DEF Keys
    <2>1. c < i /\ IsBegin(new[c]) /\ \A j \in c..i : new[j] # MODULE_END
      BY DEF OpenAt
    <2>2. CASE c \in 1..Len(buf)
      <3>1. new[c] = buf[c] /\ c \in DOMAIN buf
        BY <1>1, <1>2, <2>2
      <3>2. PICK g \in (c + 1)..Len(buf) : buf[g] = MODULE_END
        BY <2>1, <3>1 DEF Good, Closed
      <3>3. g \in 1..Len(buf) /\ new[g] = MODULE_END
        <4>1. g \in 1..Len(buf)
          BY <1>1, <2>2
        <4> QED BY <1>2, <3>2, <4>1
      <3>4. i < g
        BY <1>1, <2>1, <3>3
      <3>5. i \in 1..Len(buf) /\ \A j \in c..i : j \in 1..Len(buf)
        BY <1>1, <2>2, <3>4
      <3>6. new[i] = buf[i] /\ i \in DOMAIN buf
        BY <1>1, <1>2, <3>5
      <3>7. OpenAt(buf, c, i)
        BY <1>2, <2>1, <3>1, <3>5 DEF OpenAt
      <3> QED BY <1>5, <3>1, <3>6, <3>7, KeyThere DEF Good
    <2>3. CASE c \in (f + 1)..Len(old)
      <3>1. i \in (f + 1)..Len(old) /\ \A j \in c..i : j \in (f + 1)..Len(old)
        BY <1>1, <2>1, <2>3
      <3>2. new[c] = old[c] /\ new[i] = old[i] /\ c \in DOMAIN old /\ i \in DOMAIN old
        BY <1>1, <1>2, <2>3, <3>1
      <3>3. OpenAt(old, c, i)
        BY <1>2, <2>1, <3>1, <3>2 DEF OpenAt
      <3> QED BY <1>6, <3>2, <3>3, KeyThere DEF Good
    <2> QED BY <1>2, <1>3, <2>1, <2>2, <2>3
  <1>10. ASSUME Plain(buf)
         PROVE  Plain(new)
    <2> SUFFICES ASSUME NEW n \in Modules, pModuleStart(new, n) > 0, NEW i \in InModule(new, n)
                 PROVE  new[i] # MODULE_END
      BY DEF Plain
    <2>1. pModuleStart(buf, n) > 0
      BY <1>4
    <2> DEFINE t == pModuleStart(buf, n)
               g == pModuleEnd(buf, n)
    <2>2. IsModule(new, n, t, g) /\ IsModule(buf, n, t, g)
      <3>1. IsModule(buf, n, t, g)
        BY <2>1, ModuleIs DEF Good
      <3> QED BY <1>4, <2>1, <3>1
    <2>3. \A j \in (t + 1)..(g - 1) : buf[j] # MODULE_END
      BY <1>10, <2>1 DEF Plain, InModule
    <2>4. t \in Nat /\ g \in (t + 2)..Len(buf)
      BY <2>2 DEF IsModule, IsEnd
    <2> HIDE DEF t, g
    <2>5. i \in (t + 1)..(g - 1)
      BY <2>2 DEF IsModule, InModule
    <2>6. i \in 1..Len(buf)
      BY <1>1, <2>4, <2>5
    <2> QED BY <1>2, <2>3, <2>5, <2>6
  <1> QED BY <1>4, <1>7, <1>8, <1>9, <1>10 DEF Good
-----------------------------------------------------------------------------
(* LoadCfg finds what GetCfg finds.                                          *)
LEMMA EveryModuleCounts ==
    ASSUME NEW buf \in Buffers, Closed(buf), NEW i \in DOMAIN buf
    PROVE  /\ ModuleAt(buf, i) \in Nat
           /\ ModuleAt(buf, i) > 0 => ModuleAt(buf, i) \in DOMAIN buf /\ OpenAt(buf, ModuleAt(buf, i), i)
           /\ \A b \in DOMAIN buf : OpenAt(buf, b, i) => ModuleAt(buf, i) = b
  <1> DEFINE S == {b \in 1..(i - 1) : /\ Counts(buf, b, "module begin", MODULE_END)
                                      /\ \A j \in b..i : buf[j] # MODULE_END}
  <1>1. DOMAIN buf = 1..Len(buf) /\ Len(buf) \in Nat /\ i \in 1..Len(buf)
    BY Positions
  <1>2. S \in SUBSET (Nat \ {0}) /\ ModuleAt(buf, i) = First(S)
    <2>1. ModuleAt(buf, i) = First(S)
      BY DEF ModuleAt
    <2>2. \A b \in 1..(i - 1) : b \in Nat \ {0} /\ b < i
      BY <1>1
    <2> QED BY <2>1, <2>2
  <1>3. ASSUME NEW b \in S
        PROVE  b \in DOMAIN buf /\ OpenAt(buf, b, i)
    <2>1. b \in 1..Len(buf) /\ b < i
      <3>1. b \in 1..(i - 1)
        BY <1>3
      <3> HIDE DEF S
      <3> QED BY <1>1, <3>1
    <2> QED BY <1>1, <1>3, <2>1 DEF OpenAt, Counts, IsBegin
  <1>4. ASSUME NEW b \in DOMAIN buf, OpenAt(buf, b, i)
        PROVE  b \in S
    <2>1. b < i /\ IsBegin(buf[b]) /\ \A j \in b..i : buf[j] # MODULE_END
      BY <1>4 DEF OpenAt
    <2>2. \E j \in (b + 1)..Len(buf) : buf[j] = MODULE_END
      BY <2>1 DEF Closed
    <2>3. ASSUME NEW j \in 1..(b - 1), buf[j].flag = "module begin"
          PROVE  \E e \in (j + 1)..(b - 1) : buf[e] = MODULE_END
      <3>1. j \in DOMAIN buf /\ IsBegin(buf[j])
        <4>1. j \in 1..Len(buf)
          BY <1>1, <1>4
        <4> QED BY <1>1, <2>3, <4>1 DEF IsBegin
      <3>2. PICK e \in (j + 1)..Len(buf) :
               buf[e] = MODULE_END /\ \A x \in (j + 1)..e : ~IsBegin(buf[x])
        BY <3>1 DEF Closed
      <3>3. b \notin (j + 1)..e
        BY <2>1, <3>2
      <3>4. e \in (j + 1)..(b - 1)
        BY <1>1, <2>1, <3>3
      <3> QED BY <3>2, <3>4
    <2>4. Counts(buf, b, "module begin", MODULE_END)
      BY <2>1, <2>2, <2>3 DEF Counts, IsBegin
    <2>5. b \in 1..(i - 1)
      BY <1>1, <2>1
    <2> QED BY <2>1, <2>4, <2>5
  <1> HIDE DEF S
  <1>5. First(S) \in Nat /\ (First(S) > 0 => First(S) \in S) /\ (First(S) = 0 => S = {})
    BY <1>2, FirstFound
  <1>6. ASSUME NEW b \in DOMAIN buf, OpenAt(buf, b, i)
        PROVE  First(S) = b
    <2>1. \A c \in S : c = b
      <3> SUFFICES ASSUME NEW c \in S, c # b
                   PROVE  FALSE
        OBVIOUS
      <3>1. c \in DOMAIN buf /\ OpenAt(buf, c, i)
        BY <1>3
      <3>2. /\ \A j \in (b + 1)..i : ~IsBegin(buf[j])
            /\ \A j \in (c + 1)..i : ~IsBegin(buf[j])
        BY <1>6, <3>1, OpenIsAlone
      <3>3. b < i /\ c < i /\ IsBegin(buf[b]) /\ IsBegin(buf[c])
        BY <1>6, <3>1 DEF OpenAt
      <3>4. b \in (c + 1)..i \/ c \in (b + 1)..i
        BY <1>1, <3>1, <3>3
      <3> QED BY <3>2, <3>3, <3>4
    <2>2. b \in S
      BY <1>4, <1>6
    <2> QED BY <1>5, <2>1, <2>2
  <1> QED BY <1>2, <1>3, <1>5, <1>6

LEMMA FoundIsListed ==
    ASSUME NEW buf \in Buffers, Good(buf), Plain(buf), NEW m \in Modules, NEW k,
           pModuleStart(buf, m) > 0, pKeyStart(buf, m, k) > 0
    PROVE  /\ pKeyStart(buf, m, k) \in Listed(buf)
           /\ ModuleAt(buf, pKeyStart(buf, m, k)) = pModuleStart(buf, m)
           /\ buf[pModuleStart(buf, m)].name = m
           /\ buf[pKeyStart(buf, m, k)].name = k
  <1> DEFINE s == pModuleStart(buf, m)
             e == pModuleEnd(buf, m)
             ks == pKeyStart(buf, m, k)
  <1>1. IsModule(buf, m, s, e) /\ IsKeyStart(buf, s, e, k, ks)
    BY ModuleIs, KeyStarts DEF Good
  <1>2. \A j \in (s + 1)..(e - 1) : buf[j] # MODULE_END
    BY DEF Plain, InModule
  <1> HIDE DEF s, e, ks
  <1>3. /\ s \in Nat /\ e \in Nat /\ s \in 1..Len(buf) /\ e \in (s + 2)..Len(buf)
        /\ Len(buf) \in Nat /\ DOMAIN buf = 1..Len(buf)
        /\ buf[s] = MODULE_BEGIN(m) /\ buf[e] = MODULE_END
    BY <1>1, Positions DEF IsModule, IsStart, IsEnd
  <1>4. ks \in (s + 1)..(e - 1) /\ IsItem(buf[ks]) /\ buf[ks].name = k
    BY <1>1 DEF IsKeyStart, IsKey, IsItem
  <1>5. /\ s < ks /\ ks < e /\ ks \in Nat /\ ks \in 1..Len(buf)
        /\ \A j \in s..ks : j = s \/ j \in (s + 1)..(e - 1)
    BY <1>3, <1>4
  <1>6. OpenAt(buf, s, ks)
    <2>1. IsBegin(buf[s]) /\ buf[s] # MODULE_END
      BY <1>3, BlockFlags
    <2> QED BY <1>2, <1>5, <2>1 DEF OpenAt
  <1>7. ModuleAt(buf, ks) = s
    BY <1>3, <1>5, <1>6, EveryModuleCounts DEF Good
  <1>8. First({x \in ks..Len(buf) : buf[x] = MODULE_END}) = e
    <2> DEFINE S == {x \in ks..Len(buf) : buf[x] = MODULE_END}
    <2>1. S \in SUBSET (Nat \ {0})
      BY <1>3, <1>5
    <2>2. e \in S
      BY <1>3, <1>5
    <2>3. ASSUME NEW x \in S
          PROVE  e <= x
      <3>1. x \notin (s + 1)..(e - 1)
        BY <1>2, <2>3
      <3> QED BY <1>3, <1>5, <3>1
    <2> HIDE DEF S
    <2>4. First(S) = e
      BY <2>1, <2>2, <2>3, FirstIs
    <2> QED BY <2>4 DEF S
  <1> DEFINE rest == SubSeq(buf, s + 1, e - 1)
             n == (e - 1) - s
  <1>9. /\ Len(rest) = n /\ \A t \in 1..n : rest[t] = buf[s + t]
    <2>1. n \in Nat /\ s + n <= Len(buf) /\ s + n = e - 1
      BY <1>3
    <2> HIDE DEF n
    <2>2. /\ Len(SubSeq(buf, s + 1, s + n)) = n
          /\ \A t \in 1..n : SubSeq(buf, s + 1, s + n)[t] = buf[s + t]
      BY <1>3, <2>1, Segment
    <2> QED BY <2>1, <2>2
  <1> HIDE DEF rest
  <1>10. Counts(rest, ks - s, "item begin", ITEM_END)
    <2>1. rest[ks - s].flag = "item begin"
      <3>1. ks - s \in 1..n /\ s + (ks - s) = ks
        BY <1>3, <1>5
      <3> QED BY <1>4, <1>9, <3>1 DEF IsItem
    <2>2. \E j \in ((ks - s) + 1)..Len(rest) : rest[j] = ITEM_END
      <3>1. Whole(buf, ks, e)
        BY <1>1, <1>4 DEF IsModule
      <3>2. PICK l \in Nat : ks + l + 1 < e /\ buf[ks + l + 1] = ITEM_END
        BY <3>1, WholeIs
      <3>3. /\ (ks - s) + l + 1 \in ((ks - s) + 1)..n /\ (ks - s) + l + 1 \in 1..n
            /\ s + ((ks - s) + l + 1) = ks + l + 1
        BY <1>3, <1>5, <3>2
      <3> QED BY <1>9, <3>2, <3>3
    <2>3. ASSUME NEW j \in 1..((ks - s) - 1), rest[j].flag = "item begin"
          PROVE  \E z \in (j + 1)..((ks - s) - 1) : rest[z] = ITEM_END
      <3>1. j \in 1..n /\ s + j \in (s + 1)..(e - 1)
        BY <1>3, <1>5
      <3>2. IsItem(buf[s + j])
        BY <1>9, <2>3, <3>1 DEF IsItem
      <3>3. Whole(buf, s + j, e)
        BY <1>1, <3>1, <3>2 DEF IsModule
      <3>4. PICK l \in Nat : /\ (s + j) + l + 1 < e
                             /\ buf[(s + j) + l + 1] = ITEM_END
                             /\ \A x \in ((s + j) + 1)..((s + j) + l) : buf[x].flag \in InnerFlags
        BY <3>3, WholeIs
      <3>5. ks \notin ((s + j) + 1)..((s + j) + l) /\ ks # (s + j) + l + 1
        BY <1>4, <3>4, FlagsOfValues, BlockFlags
      <3>6. /\ j + l + 1 \in (j + 1)..((ks - s) - 1) /\ j + l + 1 \in 1..n
            /\ s + (j + l + 1) = (s + j) + l + 1
        BY <1>3, <1>5, <3>5
      <3> QED BY <1>9, <3>4, <3>6
    <2> QED BY <2>1, <2>2, <2>3 DEF Counts
  <1>11. ks \in Listed(buf)
    <2>1. s > 0
      BY <1>3
    <2> QED BY <1>3, <1>4, <1>5, <1>7, <1>8, <1>10, <2>1 DEF Listed, IsItem, rest
  <1>12. buf[s].name = m
    BY <1>3, BlockFlags
  <1> QED BY <1>4, <1>7, <1>11, <1>12 DEF s, ks

LEMMA LoadIsGet ==
    ASSUME NEW buf \in Buffers, Good(buf), Plain(buf), NEW m \in Modules, NEW k
    PROVE  LoadCfg(buf, m, k) = GetCfg(buf, m, k)
  <1> DEFINE S == {i \in Listed(buf) : buf[ModuleAt(buf, i)].name = m /\ buf[i].name = k}
             s == pModuleStart(buf, m)
             e == pModuleEnd(buf, m)
             ks == pKeyStart(buf, m, k)
  <1>1. LoadCfg(buf, m, k) = IF First(S) = 0 THEN None ELSE ValueAt(buf, First(S))
    BY DEF LoadCfg
  <1>2. DOMAIN buf = 1..Len(buf) /\ Len(buf) \in Nat /\ s \in Nat /\ ks \in Nat
    BY Positions, Starts, KeyStarts
  <1>3. ASSUME NEW i \in S
        PROVE  \E b \in DOMAIN buf :
                  /\ i \in DOMAIN buf /\ OpenAt(buf, b, i) /\ buf[b] = MODULE_BEGIN(m)
                  /\ IsItem(buf[i]) /\ buf[i].name = k
    <2> DEFINE b == ModuleAt(buf, i)
    <2>1. i \in DOMAIN buf /\ IsItem(buf[i]) /\ b > 0 /\ buf[b].name = m /\ buf[i].name = k
      BY <1>3 DEF Listed, IsItem
    <2>2. b \in DOMAIN buf /\ OpenAt(buf, b, i)
      BY <2>1, EveryModuleCounts DEF Good
    <2> HIDE DEF b
    <2>3. PICK j \in Modules : buf[b] = MODULE_BEGIN(j)
      BY <2>1, <2>2, OpenIsAlone DEF Good
    <2>4. j = m
      BY <2>1, <2>3, BlockFlags
    <2> QED BY <2>1, <2>2, <2>3, <2>4
  <1>4. S \in SUBSET (Nat \ {0})
    BY <1>2, <1>3
  <1> HIDE DEF S
  <1>5. CASE s = 0 \/ ks = 0
    <2>1. S = {}
      <3> SUFFICES ASSUME NEW i \in S
                   PROVE  FALSE
        OBVIOUS
      <3>1. PICK b \in DOMAIN buf :
               /\ i \in DOMAIN buf /\ OpenAt(buf, b, i) /\ buf[b] = MODULE_BEGIN(m)
               /\ IsItem(buf[i]) /\ buf[i].name = k
        BY <1>3
      <3>2. s # 0
        BY <3>1, Starts
      <3>3. buf[b].name = m
        BY <3>1, BlockFlags
      <3>4. ks > 0
        BY <3>1, <3>3 DEF Good, Keys
      <3> QED BY <1>5, <3>2, <3>4
    <2>2. First(S) = 0
      BY <2>1 DEF First
    <2> QED BY <1>1, <1>5, <2>2, GetCfgIs
  <1>6. CASE s > 0 /\ ks > 0
    <2>1. IsModule(buf, m, s, e) /\ IsKeyStart(buf, s, e, k, ks)
      BY <1>6, ModuleIs, KeyStarts DEF Good
    <2>2. /\ ks \in Listed(buf) /\ ModuleAt(buf, ks) = s /\ buf[s].name = m /\ buf[ks].name = k
      BY <1>6, FoundIsListed
    <2> HIDE DEF s, e, ks
    <2>3. ks \in S
      BY <2>2 DEF S
    <2>4. /\ s \in Nat /\ e \in Nat /\ ks \in (s + 1)..(e - 1)
          /\ \A j \in 1..(s - 1) : buf[j] # MODULE_BEGIN(m)
          /\ \A j \in (s + 1)..(e - 1) : ~IsBegin(buf[j])
          /\ \A j \in (s + 1)..(ks - 1) : ~IsKey(buf, k, j)
      BY <2>1 DEF IsModule, IsStart, IsKeyStart
    <2>5. ASSUME NEW i \in S
          PROVE  ks <= i
      <3>1. PICK b \in DOMAIN buf :
               /\ i \in DOMAIN buf /\ OpenAt(buf, b, i) /\ buf[b] = MODULE_BEGIN(m)
               /\ IsItem(buf[i]) /\ buf[i].name = k
        BY <1>3
      <3>2. b < i /\ b \in Nat /\ i \in Nat /\ b >= 1
        BY <1>2, <3>1 DEF OpenAt
      <3>3. b \notin 1..(s - 1) /\ b \notin (s + 1)..(e - 1)
        BY <2>4, <3>1, BlockFlags
      <3>4. i \notin (s + 1)..(ks - 1)
        BY <2>4, <3>1 DEF IsKey, IsItem
      <3> QED BY <2>4, <3>2, <3>3, <3>4
    <2>6. First(S) = ks
      BY <1>4, <2>3, <2>5, FirstIs
    <2>7. ks # 0 /\ s # 0 /\ e # 0
      <3>1. s \in Nat /\ s > 0 /\ e \in Nat /\ ks \in (s + 1)..(e - 1)
        BY <1>6, <2>4
      <3> QED BY <3>1
    <2>8. GetCfg(buf, m, k) = ValueAt(buf, ks)
      BY <2>7, GetCfgIs DEF ks, s, e
    <2> QED BY <1>1, <2>6, <2>7, <2>8
  <1> QED BY <1>2, <1>5, <1>6
-----------------------------------------------------------------------------
(* The file.                                                                 *)
BufferFrom(blocks, n) ==
    IF n = Len(blocks) THEN [i \in 1..Len(blocks) |-> Garbage(-i)]
    ELSE SubSeq(blocks, 1, Len(blocks) - n)

LEMMA BufferTyped ==
    ASSUME NEW f \in Buffers, NEW n \in Nat, f = <<>> \/ n <= Len(f)
    PROVE  BufferFrom(f, n) \in Buffers
  <1>1. Len(f) \in Nat /\ DOMAIN f = 1..Len(f)
    BY Positions
  <1>2. CASE n = Len(f)
    <2>1. \A i \in 1..Len(f) : -i \in Int
      BY <1>1
    <2>2. \A i \in 1..Len(f) : Garbage(-i) \in Blocks
      BY <2>1, BlocksTyped
    <2>3. [i \in 1..Len(f) |-> Garbage(-i)] \in Seq(Blocks)
      BY <1>1, <2>2
    <2> QED BY <1>2, <2>3 DEF BufferFrom, Buffers
  <1>3. CASE n # Len(f) /\ n <= Len(f)
    <2>0. Len(f) \in Nat /\ n <= Len(f)
      BY <1>1, <1>3
    <2>1. (Len(f) - n) + 1 \in 1..(Len(f) + 1) /\ ((Len(f) - n) + 1) - 1 = Len(f) - n
      <3> DEFINE l == Len(f)
      <3> HIDE DEF l
      <3>1. l \in Nat /\ n <= l
        BY <2>0 DEF l
      <3>2. (l - n) + 1 \in 1..(l + 1) /\ ((l - n) + 1) - 1 = l - n
        BY <3>1
      <3> QED BY <3>2 DEF l
    <2>2. SubSeq(f, 1, ((Len(f) - n) + 1) - 1) \in Buffers
      BY <2>1, FrontAndRest
    <2> QED BY <1>3, <2>1, <2>2 DEF BufferFrom
  <1>4. CASE n # Len(f) /\ f = <<>>
    <2>1. Len(f) = 0 /\ 0 - n < 1
      BY <1>4
    <2>2. SubSeq(f, 1, 0 - n) \in Seq(Blocks)
      <3>1. f \in Seq(Blocks) /\ 1 \in Int /\ 0 - n \in Int /\ \A i \in 1..(0 - n) : f[i] \in Blocks
        BY <2>1 DEF Buffers
      <3> QED BY <3>1, SubSeqProperties
    <2> QED BY <1>4, <2>1, <2>2 DEF BufferFrom, Buffers
  <1> QED BY <1>2, <1>3, <1>4

LEMMA BufferIs ==
    ASSUME NEW f \in Buffers, f # <<>> => Len(f) >= 2
    PROVE  /\ BufferFrom(f, 1) \in Buffers
           /\ f = <<>> => BufferFrom(f, 1) = <<>>
           /\ f # <<>> => /\ Len(BufferFrom(f, 1)) = Len(f) - 1
                          /\ \A i \in 1..(Len(f) - 1) : BufferFrom(f, 1)[i] = f[i]
  <1>1. Len(f) \in Nat
    BY Positions
  <1>2. CASE f = <<>>
    <2>1. Len(f) = 0 /\ 1 # 0 /\ 0 - 1 < 1
      BY <1>2
    <2>2. BufferFrom(f, 1) = SubSeq(f, 1, 0 - 1)
      BY <2>1 DEF BufferFrom
    <2>3. BufferFrom(f, 1) \in Buffers
      BY <1>2, BufferTyped
    <2>4. Len(SubSeq(f, 1, 0 - 1)) = 0
      <3>1. f \in Seq(Blocks) /\ 1 \in Int /\ 0 - 1 \in Int /\ \A i \in 1..(0 - 1) : f[i] \in Blocks
        BY <2>1 DEF Buffers
      <3>2. Len(SubSeq(f, 1, 0 - 1)) = IF 1 <= 0 - 1 THEN (0 - 1) - 1 + 1 ELSE 0
        BY <3>1, SubSeqProperties
      <3> QED BY <3>2
    <2>5. BufferFrom(f, 1) = <<>>
      BY <2>2, <2>3, <2>4, EmptySeq DEF Buffers
    <2> QED BY <1>2, <2>3, <2>5
  <1>3. CASE f # <<>>
    <2>0. Len(f) >= 2
      BY <1>3
    <2>1. Len(f) \in 1..(Len(f) + 1) /\ 1 # Len(f)
      BY <1>1, <2>0, SMTT(40)
    <2>2. BufferFrom(f, 1) = SubSeq(f, 1, Len(f) - 1)
      BY <2>1 DEF BufferFrom
    <2>3. /\ SubSeq(f, 1, Len(f) - 1) \in Buffers
          /\ Len(SubSeq(f, 1, Len(f) - 1)) = Len(f) - 1
          /\ \A i \in 1..(Len(f) - 1) : SubSeq(f, 1, Len(f) - 1)[i] = f[i]
      BY <2>1, FrontAndRest
    <2> QED BY <1>3, <2>2, <2>3
  <1> QED BY <1>2, <1>3

LEMMA LastIs ==
    ASSUME NEW f \in Buffers, f # <<>>
    PROVE  Last(f) = f[Len(f)] /\ Len(f) \in 1..Len(f)
  <1>1. Len(f) # 0
    BY EmptySeq DEF Buffers
  <1>2. Len(f) \in Nat
    BY Positions
  <1> QED BY <1>1, <1>2 DEF Last

LEMMA EncryptedIs ==
    ASSUME NEW buf \in Buffers
    PROVE  /\ Encrypted(buf) \in Buffers
           /\ buf # <<>> => /\ Encrypted(buf) # <<>>
                            /\ Len(Encrypted(buf)) = Len(buf) + 1
                            /\ \A i \in 1..Len(buf) : Encrypted(buf)[i] = buf[i]
                            /\ Encrypted(buf)[Len(buf) + 1] = Padding
  <1>1. buf \in Seq(Blocks) /\ Padding \in Blocks
    BY BlocksTyped DEF Buffers
  <1>2. <<>> \in Buffers
    BY DEF Buffers
  <1> DEFINE w == Append(buf, Padding)
  <1>3. /\ w \in Seq(Blocks) /\ Len(w) = Len(buf) + 1
        /\ \A i \in 1..Len(buf) : w[i] = buf[i]
        /\ w[Len(buf) + 1] = Padding
    BY <1>1, AppendProperties
  <1> HIDE DEF w
  <1>4. w # <<>>
    <2>1. Len(buf) \in Nat
      BY Positions
    <2>2. Len(w) # 0
      BY <1>3, <2>1
    <2> QED BY <2>2
  <1>5. Encrypted(buf) = IF buf = <<>> THEN <<>> ELSE w
    BY DEF Encrypted, w
  <1> QED BY <1>2, <1>3, <1>4, <1>5 DEF Buffers

(* What overwriting does to a file.                                          *)
LEMMA OverwrittenIs ==
    ASSUME file \in Buffers, writes \in Nat, NEW blocks \in Buffers,
           NEW new, new = Overwritten(blocks)
    PROVE  /\ new \in Buffers
           /\ Len(blocks) >= Len(file) => Len(new) = Len(blocks)
           /\ Len(blocks) < Len(file) => Len(new) = Len(file)
           /\ \A i \in 1..Len(blocks) : new[i] = blocks[i]
           /\ \A i \in (Len(blocks) + 2)..Len(file) : new[i] = file[i]
           /\ Len(blocks) < Len(file) =>
                 \/ new[Len(blocks) + 1] = file[Len(blocks) + 1]
                 \/ new[Len(blocks) + 1] = Garbage(writes)
           /\ Len(blocks) < Len(file) /\ (\A i \in 1..Len(blocks) : blocks[i] = file[i])
                 => new[Len(blocks) + 1] = file[Len(blocks) + 1]
  <1> DEFINE n == Len(blocks)
             l == Len(file)
  <1>1. n \in Nat /\ l \in Nat
    BY Positions
  <1>2. Garbage(writes) \in Blocks
    BY BlocksTyped
  <1>3. new = IF n >= l \/ blocks = SubSeq(file, 1, n)
              THEN blocks \o SubSeq(file, n + 1, l)
              ELSE Append(blocks, Garbage(writes)) \o SubSeq(file, n + 2, l)
    BY DEF Overwritten
  <1>4. CASE n >= l
    <2> DEFINE r == SubSeq(file, n + 1, l)
    <2>1. r = <<>>
      <3>1. /\ file \in Seq(Blocks) /\ n + 1 \in Int /\ l \in Int
            /\ \A i \in (n + 1)..l : FALSE /\ ~(n + 1 <= l)
        BY <1>1, <1>4 DEF Buffers
      <3> HIDE DEF n, l
      <3>2. r \in Seq(Blocks) /\ Len(r) = IF n + 1 <= l THEN l - (n + 1) + 1 ELSE 0
        BY <3>1, SubSeqProperties
      <3>3. ~(n + 1 <= l)
        BY <1>1, <1>4
      <3> HIDE DEF r
      <3> QED BY <3>2, <3>3, EmptySeq
    <2> HIDE DEF r
    <2>2. new = blocks \o r
      BY <1>3, <1>4 DEF r
    <2>3. new = blocks
      BY <2>1, <2>2, ConcatEmptySeq DEF Buffers
    <2>4. \A i \in (n + 2)..l : FALSE
      BY <1>1, <1>4
    <2>5. ~(n < l)
      BY <1>1, <1>4
    <2> QED BY <2>3, <2>4, <2>5
  <1>5. CASE n < l /\ blocks = SubSeq(file, 1, n)
    <2> DEFINE r == SubSeq(file, n + 1, l)
    <2>1. new = blocks \o r
      BY <1>3, <1>5
    <2>2. n + 1 \in 1..(l + 1) /\ (l - (n + 1)) + 1 = l - n /\ (n + 1) - 1 = n /\ ~(n >= l)
      BY <1>1, <1>5
    <2> HIDE DEF n
    <2>3. r \in Buffers /\ Len(r) = l - n /\ \A i \in 1..(l - n) : r[i] = file[n + i]
      <3>1. r \in Buffers /\ Len(r) = (l - (n + 1)) + 1 /\ \A i \in 1..((l - (n + 1)) + 1) : r[i] = file[((n + 1) - 1) + i]
        BY <2>2, FrontAndRest
      <3> QED BY <2>2, <3>1
    <2> HIDE DEF r
    <2>4. /\ blocks \o r \in Buffers
          /\ Len(blocks \o r) = n + Len(r)
          /\ \A i \in 1..n : (blocks \o r)[i] = blocks[i]
          /\ \A i \in 1..Len(r) : (blocks \o r)[n + i] = r[i]
      BY <2>3, JoinedTwo DEF n
    <2>5. n + Len(r) = l
      BY <1>1, <2>3
    <2>6. ASSUME NEW i \in (n + 1)..l
          PROVE  new[i] = file[i]
      <3>1. i - n \in 1..(l - n) /\ n + (i - n) = i
        BY <1>1
      <3> QED BY <2>1, <2>3, <2>4, <3>1
    <2>7. n + 1 \in (n + 1)..l /\ \A i \in (n + 2)..l : i \in (n + 1)..l
      BY <1>1, <1>5
    <2>8. new[n + 1] = file[n + 1] /\ \A i \in (n + 2)..l : new[i] = file[i]
      BY <2>6, <2>7
    <2> QED BY <2>1, <2>2, <2>4, <2>5, <2>8 DEF n
  <1>6. CASE n < l /\ blocks # SubSeq(file, 1, n)
    <2> DEFINE w == Append(blocks, Garbage(writes))
               r == SubSeq(file, n + 2, l)
    <2>1. ~(n >= l)
      BY <1>1, <1>6
    <2>2. new = w \o r
      BY <1>3, <1>6, <2>1
    <2>3. /\ w \in Buffers /\ Len(w) = n + 1 /\ w[n + 1] = Garbage(writes)
          /\ \A i \in 1..n : w[i] = blocks[i]
      BY <1>2, AppendProperties DEF Buffers
    <2> HIDE DEF w
    <2>4. n + 2 \in 1..(l + 1) /\ (l - (n + 2)) + 1 = l - (n + 1) /\ (n + 2) - 1 = n + 1
      BY <1>1, <1>6
    <2>5. r \in Buffers /\ Len(r) = l - (n + 1) /\ \A i \in 1..(l - (n + 1)) : r[i] = file[(n + 1) + i]
      <3> HIDE DEF n
      <3>1. r \in Buffers /\ Len(r) = (l - (n + 2)) + 1 /\ \A i \in 1..((l - (n + 2)) + 1) : r[i] = file[((n + 2) - 1) + i]
        BY <2>4, FrontAndRest
      <3> QED BY <2>4, <3>1
    <2> HIDE DEF r
    <2>6. /\ w \o r \in Buffers
          /\ Len(w \o r) = (n + 1) + Len(r)
          /\ \A i \in 1..(n + 1) : (w \o r)[i] = w[i]
          /\ \A i \in 1..Len(r) : (w \o r)[(n + 1) + i] = r[i]
      <3> HIDE DEF n, l
      <3>1. /\ w \o r \in Buffers
            /\ Len(w \o r) = Len(w) + Len(r)
            /\ \A i \in 1..Len(w) : (w \o r)[i] = w[i]
            /\ \A i \in 1..Len(r) : (w \o r)[Len(w) + i] = r[i]
        BY <2>3, <2>5, JoinedTwo
      <3>2. Len(w) = n + 1
        BY <2>3
      <3> QED BY <3>1, <3>2
    <2>7. (n + 1) + Len(r) = l /\ n + 1 \in 1..(n + 1) /\ \A i \in 1..n : i \in 1..(n + 1)
      BY <1>1, <1>6, <2>5
    <2>8. ASSUME NEW i \in (n + 2)..l
          PROVE  new[i] = file[i]
      <3>1. i - (n + 1) \in 1..(l - (n + 1)) /\ (n + 1) + (i - (n + 1)) = i
        BY <1>1
      <3> QED BY <2>2, <2>5, <2>6, <3>1, ZenonT(60)
    <2>9. /\ new[n + 1] = Garbage(writes)
          /\ \A i \in 1..n : new[i] = blocks[i]
      BY <2>2, <2>3, <2>6, <2>7
    <2>10. ~\A i \in 1..n : blocks[i] = file[i]
      <3> SUFFICES ASSUME \A i \in 1..n : blocks[i] = file[i]
                   PROVE  FALSE
        OBVIOUS
      <3>1. /\ n + 1 \in 1..(l + 1) /\ (n + 1) - 1 = n
        BY <1>1, <1>6
      <3> DEFINE q == SubSeq(file, 1, n)
      <3>2. q \in Buffers /\ Len(q) = n /\ \A i \in 1..n : q[i] = file[i]
        <4> HIDE DEF n
        <4>1. /\ SubSeq(file, 1, (n + 1) - 1) \in Buffers
              /\ Len(SubSeq(file, 1, (n + 1) - 1)) = (n + 1) - 1
              /\ \A i \in 1..((n + 1) - 1) : SubSeq(file, 1, (n + 1) - 1)[i] = file[i]
          BY <3>1, FrontAndRest
        <4> QED BY <3>1, <4>1
      <3>3. q = blocks
        <4> HIDE DEF q
        <4> QED BY <3>2, SeqEqual DEF Buffers
      <3> QED BY <1>6, <3>3
    <2> HIDE DEF n, l
    <2>11. new \in Buffers /\ Len(new) = l
      BY <2>2, <2>6, <2>7
    <2> QED BY <2>1, <2>8, <2>9, <2>10, <2>11 DEF n, l
  <1> QED BY <1>1, <1>4, <1>5, <1>6

(* What is joined to a buffer leaves its blocks where they are.              *)
IsFront(x, z) == z \in Buffers /\ Len(x) <= Len(z) /\ \A i \in 1..Len(x) : z[i] = x[i]

LEMMA FrontJoined ==
    ASSUME NEW x \in Buffers, NEW y \in Buffers
    PROVE  /\ IsFront(x, x)
           /\ \A z : IsFront(x, z) => IsFront(x, z \o y)
  <1>1. IsFront(x, x)
    <2>1. Len(x) \in Nat
      BY Positions
    <2> QED BY <2>1 DEF IsFront
  <1>2. ASSUME NEW z, IsFront(x, z)
        PROVE  IsFront(x, z \o y)
    <2>1. z \in Buffers /\ Len(x) \in Nat /\ Len(y) \in Nat /\ Len(z) \in Nat
      BY <1>2, Positions DEF IsFront
    <2> DEFINE w == z \o y
    <2>2. w \in Buffers /\ Len(w) = Len(z) + Len(y) /\ \A i \in 1..Len(z) : w[i] = z[i]
      BY <2>1, JoinedTwo
    <2> HIDE DEF w
    <2>3. Len(x) <= Len(z) /\ \A i \in 1..Len(x) : z[i] = x[i]
      BY <1>2 DEF IsFront
    <2>4. Len(x) <= Len(w) /\ \A i \in 1..Len(x) : i \in 1..Len(z)
      BY <2>1, <2>2, <2>3
    <2>5. IsFront(x, w)
      BY <2>2, <2>3, <2>4 DEF IsFront
    <2> QED BY <2>5 DEF w
  <1> QED BY <1>1, <1>2

(* What SetCfg makes of any content, one that is spoilt too.                 *)
LEMMA NewBufferTyped ==
    ASSUME NEW buf \in Buffers, NEW m \in Names, NEW k \in Names, NEW v \in Buffers
    PROVE  LET new == NewBuffer(buf, m, k, v)
           IN  /\ new \in Buffers
               /\ new # <<>> =>
                    \E x \in Buffers :
                       /\ IsFront(x, new) /\ Len(x) <= Len(buf)
                       /\ \A i \in 1..Len(x) : x[i] = buf[i]
                       /\ pModuleStart(buf, m) = 0 \/ pModuleStart(buf, m) <= Len(x)
                       /\ pModuleStart(buf, m) = 0 => x = buf
  <1> DEFINE s == pModuleStart(buf, m)
             e == pModuleEnd(buf, m)
             ks == pKeyStart(buf, m, k)
             l == Len(buf)
  <1>1. s \in Nat /\ e \in Nat /\ ks \in Nat /\ l \in Nat
    BY Starts, Ends, KeyStarts, Positions
  <1>2. Item(k, v) \in Buffers /\ <<MODULE_BEGIN(m)>> \in Buffers /\ <<ITEM_END>> \in Buffers
          /\ <<ITEM_END, MODULE_END>> \in Buffers
    BY ItemIs, BlocksTyped DEF Buffers
  <1>3. e # 0 => e \in (s + 2)..l /\ buf[e - 1] = ITEM_END
    <2>1. e # 0 => IsEnd(buf, s, e)
      <3>1. e # 0 => e > 0
        <4> HIDE DEF e, s
        <4> QED BY <1>1
      <3> QED BY <3>1, Ends
    <2> QED BY <2>1 DEF IsEnd
  <1>4. CASE GetPointer(buf, m, k) = "OK"
    <2>1. s # 0 /\ e # 0 /\ ks # 0
      BY <1>4 DEF GetPointer
    <2> DEFINE S == {i \in (ks + 1)..(e - 1) : buf[i] = ITEM_END}
               b == pKeyEnd(buf, m, k)
    <2>2. b = First(S)
      BY DEF pKeyEnd
    <2>3. ks \in (s + 1)..(e - 1) /\ IsItem(buf[ks])
      <3>1. ks > 0
        <4> HIDE DEF ks
        <4> QED BY <1>1, <2>1
      <3>2. IsKeyStart(buf, s, e, k, ks)
        BY <3>1, KeyStarts
      <3> QED BY <3>2 DEF IsKeyStart, IsKey, IsItem
    <2> HIDE DEF s, e, ks, b
    <2>4. ks # e - 1
      BY <1>3, <2>1, <2>3, BlockFlags
    <2>5. e - 1 \in S /\ S \in SUBSET (Nat \ {0})
      BY <1>1, <1>3, <2>1, <2>3, <2>4
    <2>6. b \in S
      BY <2>2, <2>5, FirstFound
    <2>7. ks \in 1..(l + 1) /\ b \in 1..(l + 1)
      <3>1. e \in Nat /\ e <= l /\ ks <= e - 1 /\ b <= e - 1 /\ ks \in Nat /\ ks >= 1 /\ b \in Nat /\ b >= 1
        BY <1>1, <1>3, <2>1, <2>3, <2>6
      <3> HIDE DEF l
      <3> QED BY <1>1, <3>1
    <2>8. SubSeq(buf, 1, ks - 1) \in Buffers /\ SubSeq(buf, b, l) \in Buffers
      BY <2>7, FrontAndRest
    <2>9. NewBuffer(buf, m, k, v) = SubSeq(buf, 1, ks - 1) \o Item(k, v) \o SubSeq(buf, b, l)
      BY <1>4 DEF NewBuffer, ks, b
    <2>10. IsFront(SubSeq(buf, 1, ks - 1), NewBuffer(buf, m, k, v))
      <3> HIDE DEF l
      <3> QED BY <1>2, <2>8, <2>9, FrontJoined
    <2>11. /\ Len(SubSeq(buf, 1, ks - 1)) = ks - 1 /\ ks - 1 <= l /\ s <= ks - 1
           /\ \A i \in 1..(ks - 1) : SubSeq(buf, 1, ks - 1)[i] = buf[i]
      <3>1. ks - 1 <= l /\ s <= ks - 1
        BY <1>1, <2>3, <2>7
      <3> QED BY <2>7, <3>1, FrontAndRest
    <2> QED BY <2>1, <2>8, <2>10, <2>11 DEF IsFront, s
  <1>5. CASE GetPointer(buf, m, k) = "MODULE_NOT_EXIST"
    <2>1. NewBuffer(buf, m, k, v)
            = buf \o <<MODULE_BEGIN(m)>> \o Item(k, v) \o <<ITEM_END, MODULE_END>>
      BY <1>5 DEF NewBuffer
    <2>2. IsFront(buf, NewBuffer(buf, m, k, v))
      BY <1>2, <2>1, FrontJoined
    <2>3. s = 0
      BY <1>5 DEF GetPointer
    <2>4. Len(buf) <= Len(buf) /\ \A i \in 1..Len(buf) : buf[i] = buf[i]
      BY <1>1
    <2> QED BY <2>2, <2>3, <2>4 DEF IsFront
  <1>6. CASE GetPointer(buf, m, k) = "KEY_NOT_EXIST"
    <2>1. NewBuffer(buf, m, k, v)
            = SubSeq(buf, 1, e - 1) \o Item(k, v) \o <<ITEM_END>> \o SubSeq(buf, e, l)
      BY <1>6 DEF NewBuffer
    <2>2. e # 0
      BY <1>6 DEF GetPointer
    <2> HIDE DEF e, s
    <2>3. e \in 1..(l + 1)
      BY <1>1, <1>3, <2>2
    <2>4. SubSeq(buf, 1, e - 1) \in Buffers /\ SubSeq(buf, e, l) \in Buffers
      BY <2>3, FrontAndRest
    <2>5. IsFront(SubSeq(buf, 1, e - 1), NewBuffer(buf, m, k, v))
      <3> HIDE DEF l
      <3> QED BY <1>2, <2>1, <2>4, FrontJoined
    <2>6. /\ Len(SubSeq(buf, 1, e - 1)) = e - 1 /\ e - 1 <= l /\ s <= e - 1
          /\ \A i \in 1..(e - 1) : SubSeq(buf, 1, e - 1)[i] = buf[i]
      <3>1. e - 1 <= l /\ s <= e - 1
        BY <1>1, <1>3, <2>2
      <3> QED BY <2>3, <3>1, FrontAndRest
    <2>7. s # 0
      BY <1>6 DEF GetPointer, s
    <2> QED BY <2>4, <2>5, <2>6, <2>7 DEF IsFront, s
  <1>7. CASE GetPointer(buf, m, k) \notin {"OK", "MODULE_NOT_EXIST", "KEY_NOT_EXIST"}
    <2>1. NewBuffer(buf, m, k, v) = <<>>
      BY <1>7 DEF NewBuffer
    <2> QED BY <2>1 DEF Buffers
  <1> QED BY <1>4, <1>5, <1>6, <1>7

(* The settings.                                                             *)
LEMMA SettingIs ==
    ASSUME NEW s \in Settings
    PROVE  /\ s[1] \in Modules /\ s[1] \in Names /\ s[2] \in Names
           /\ <<s[1], s[2]>> \in Places
           /\ s[3] \in Values /\ s[3] \in Buffers /\ s[3] # None
           /\ FlagsIn(s[3]) \cap {"begun", "framed"} = {} => IsValue(s[3])
           /\ "ended" \notin FlagsIn(s[3]) => \A i \in DOMAIN s[3] : s[3][i] # MODULE_END
  <1>1. s[1] \in Modules /\ <<s[1], s[2]>> \in Places /\ s[3] \in Values /\ s[3] # None
    BY CfgFileAssumption DEF Modules, Places, Values
  <1>2. s[1] \in Names /\ s[2] \in Names
    <2> DEFINE D == {s[1], s[2]} \cup {s[3][i].name : i \in DOMAIN s[3]}
               E == {{t[1], t[2]} \cup {t[3][i].name : i \in DOMAIN t[3]} : t \in Settings}
    <2>1. s[1] \in D /\ s[2] \in D /\ D \in E
      OBVIOUS
    <2>2. Names = {""} \cup UNION E
      BY DEF Names
    <2> HIDE DEF D, E
    <2> QED BY <2>1, <2>2
  <1> DEFINE B == {b \in Blocks : b.flag \in ValueFlags}
             v == s[3]
  <1>3. v \in Seq(B)
    BY CfgFileAssumption
  <1> HIDE DEF v, B
  <1>4. /\ v \in Buffers /\ DOMAIN v = 1..Len(v)
        /\ \A i \in DOMAIN v : v[i].flag \in ValueFlags
    <2>1. \A i \in 1..Len(v) : v[i] \in B
      BY <1>3, ElementOfSeq
    <2>2. DOMAIN v = 1..Len(v) /\ Len(v) \in Nat
      BY <1>3, LenProperties
    <2>3. \A i \in 1..Len(v) : v[i] \in Blocks /\ v[i].flag \in ValueFlags
      BY <2>1 DEF B
    <2>4. v = [i \in 1..Len(v) |-> v[i]]
      BY <1>3, <2>2
    <2>5. v \in Seq(Blocks)
      BY <1>3, <2>2, <2>3, <2>4
    <2> QED BY <2>2, <2>3, <2>5 DEF Buffers
  <1>5. ASSUME FlagsIn(v) \cap {"begun", "framed"} = {}
        PROVE  IsValue(v)
    <2>1. ~\E i \in 2..Len(v) : v[i - 1] = ITEM_END /\ v[i] = MODULE_END
      BY <1>5 DEF FlagsIn
    <2>2. ~\E i \in DOMAIN v : v[i].flag \in {"module begin", "item begin"}
      BY <1>5 DEF FlagsIn
    <2>3. \A i \in DOMAIN v : v[i].flag \in InnerFlags
      BY <1>4, <2>2 DEF ValueFlags, InnerFlags
    <2> QED BY <1>4, <2>1, <2>3 DEF IsValue
  <1>6. ASSUME "ended" \notin FlagsIn(v)
        PROVE  \A i \in DOMAIN v : v[i] # MODULE_END
    BY <1>6 DEF FlagsIn
  <1> QED BY <1>1, <1>2, <1>4, <1>5, <1>6 DEF v

LEMMA PlaceIs ==
    /\ Places \subseteq Modules \X Names
    /\ Values \subseteq Buffers
    /\ Modules \subseteq Names
  BY SettingIs DEF Places, Values, Modules

LEMMA FirstBlocks ==
    ASSUME NEW w \in Buffers, NEW n \in Nat, n <= Len(w)
    PROVE  /\ SubSeq(w, 1, n) \in Buffers
           /\ Len(SubSeq(w, 1, n)) = n
           /\ \A i \in 1..n : SubSeq(w, 1, n)[i] = w[i]
  <1>1. n + 1 \in 1..(Len(w) + 1) /\ (n + 1) - 1 = n
    <2>1. Len(w) \in Nat
      BY Positions
    <2> QED BY <2>1
  <1>2. /\ SubSeq(w, 1, (n + 1) - 1) \in Buffers
        /\ Len(SubSeq(w, 1, (n + 1) - 1)) = (n + 1) - 1
        /\ \A i \in 1..((n + 1) - 1) : SubSeq(w, 1, (n + 1) - 1)[i] = w[i]
    BY <1>1, FrontAndRest
  <1> QED BY <1>1, <1>2

(* A write that is complete, to a file that is not one block longer.         *)
LEMMA WrittenIs ==
    ASSUME file \in Buffers, writes \in Nat,
           file # <<>> => Len(file) >= 2 /\ Last(file) = Padding,
           NEW old \in Buffers, old = BufferFrom(file, 1), Good(old),
           NEW buf \in Buffers, buf # <<>>, Good(buf), Keeps(old, buf),
           Len(file) # Len(Encrypted(buf)) + 1,
           NEW f, f = Overwritten(Encrypted(buf))
    PROVE  /\ f \in Buffers /\ Len(f) >= 2 /\ Last(f) = Padding
           /\ BufferFrom(f, 1) \in Buffers /\ Good(BufferFrom(f, 1))
           /\ \A n \in Modules : \A l : GetCfg(BufferFrom(f, 1), n, l) = GetCfg(buf, n, l)
           /\ Plain(buf) => Plain(BufferFrom(f, 1))
  <1> DEFINE w == Encrypted(buf)
             n == Len(w)
             l == Len(file)
             new == BufferFrom(f, 1)
  <1>1. /\ w \in Buffers /\ n = Len(buf) + 1
        /\ \A i \in 1..Len(buf) : w[i] = buf[i]
        /\ w[Len(buf) + 1] = Padding
    BY EncryptedIs
  <1>2. Len(buf) \in Nat /\ l \in Nat /\ Len(buf) # 0
    BY Positions, EmptySeq DEF Buffers
  <1> HIDE DEF w
  <1>3. n \in Nat /\ n >= 2 /\ Len(buf) = n - 1 /\ w[n] = Padding
    <2> HIDE DEF n
    <2>1. n = Len(buf) + 1
      BY <1>1
    <2> QED BY <1>1, <1>2, <2>1
  <1>4. /\ f \in Buffers
        /\ n >= l => Len(f) = n
        /\ n < l => Len(f) = l
        /\ \A i \in 1..n : f[i] = w[i]
        /\ \A i \in (n + 2)..l : f[i] = file[i]
        /\ n < l => f[n + 1] = file[n + 1] \/ f[n + 1] = Garbage(writes)
    BY <1>1, OverwrittenIs DEF w
  <1>5. l # n + 1
    BY DEF w
  <1> HIDE DEF n, l
  <1>6. Len(f) >= 2 /\ f # <<>>
    <2>1. Len(f) >= 2
      BY <1>2, <1>3, <1>4
    <2>2. f # <<>>
      <3>1. Len(<<>>) = 0
        OBVIOUS
      <3> QED BY <2>1, <3>1
    <2> QED BY <2>1, <2>2
  <1>7. /\ new \in Buffers /\ Len(new) = Len(f) - 1
        /\ \A i \in 1..(Len(f) - 1) : new[i] = f[i]
    BY <1>4, <1>6, BufferIs
  <1> HIDE DEF new
  <1>8. CASE n >= l
    <2>1. Len(f) = n
      BY <1>4, <1>8
    <2>2. Last(f) = Padding
      <3>1. n \in 1..n
        BY <1>3
      <3> QED BY <1>3, <1>4, <2>1, <3>1 DEF Last
    <2>3. Len(new) = Len(buf)
      BY <1>3, <1>7, <2>1
    <2>4. ASSUME NEW i \in 1..Len(buf)
          PROVE  new[i] = buf[i]
      <3>1. i \in 1..n /\ i \in 1..(n - 1)
        BY <1>3
      <3> QED BY <1>1, <1>4, <1>7, <2>1, <3>1
    <2>5. new = buf
      BY <1>7, <2>3, <2>4, SeqEqual DEF Buffers
    <2> QED BY <1>4, <1>6, <2>2, <2>5 DEF new
  <1>9. CASE n < l
    <2>1. l >= n + 2 /\ Len(f) = l /\ file # <<>>
      <3>1. l >= n + 2 /\ l # 0
        BY <1>2, <1>3, <1>5, <1>9
      <3>2. file # <<>>
        BY <3>1 DEF l
      <3> QED BY <1>4, <1>9, <3>1, <3>2
    <2>2. Last(f) = Padding
      <3>1. l \in (n + 2)..l
        BY <1>2, <1>3, <2>1
      <3>2. f[l] = file[l]
        BY <1>4, <3>1
      <3>3. file[l] = Padding
        BY <2>1, LastIs DEF l
      <3> QED BY <2>1, <3>2, <3>3 DEF Last
    <2>3. Len(old) = l - 1 /\ \A i \in 1..(l - 1) : old[i] = file[i]
      BY <2>1, BufferIs DEF l
    <2>4. Len(new) = Len(old)
      BY <1>7, <2>1, <2>3
    <2>5. \A i \in 1..Len(buf) : new[i] = buf[i]
      <3>1. \A i \in 1..Len(buf) : i \in 1..n /\ i \in 1..(l - 1)
        BY <1>2, <1>3, <1>9
      <3> QED BY <1>1, <1>4, <1>7, <2>1, <3>1
    <2>6. new[n] = Padding
      <3>1. n \in 1..n /\ n \in 1..(l - 1)
        BY <1>2, <1>3, <2>1
      <3> QED BY <1>3, <1>4, <1>7, <2>1, <3>1
    <2>7. \A i \in (n + 2)..Len(old) : new[i] = old[i]
      <3>1. \A i \in (n + 2)..(l - 1) : i \in (n + 2)..l /\ i \in 1..(l - 1)
        BY <1>2, <1>3
      <3> QED BY <1>4, <1>7, <2>1, <2>3, <3>1
    <2>8. new[n + 1] = f[n + 1] /\ old[n + 1] = file[n + 1]
      <3>1. n + 1 \in 1..(l - 1)
        BY <1>2, <1>3, <2>1
      <3> QED BY <1>7, <2>1, <2>3, <3>1
    <2>9. \E g : IsOver(buf, old, new, g)
      <3>1. CASE f[n + 1] = file[n + 1]
        <4>1. n \in (Len(buf) + 1)..Len(old)
          BY <1>2, <1>3, <2>1, <2>3
        <4>2. \A i \in (Len(buf) + 1)..n : ~IsBegin(new[i]) /\ ~IsItem(new[i])
          <5>1. \A i \in (Len(buf) + 1)..n : i = n
            BY <1>2, <1>3
          <5> QED BY <2>6, <5>1, BlockFlags
        <4>3. \A i \in (n + 1)..Len(old) : new[i] = old[i]
          <5>1. \A i \in (n + 1)..Len(old) : i = n + 1 \/ i \in (n + 2)..Len(old)
            BY <1>2, <1>3, <2>1, <2>3
          <5> QED BY <2>7, <2>8, <3>1, <5>1
        <4>4. IsOver(buf, old, new, n)
          BY <2>4, <2>5, <4>1, <4>2, <4>3 DEF IsOver
        <4> QED BY <4>4
      <3>2. CASE f[n + 1] = Garbage(writes)
        <4>1. n + 1 \in (Len(buf) + 1)..Len(old)
          BY <1>2, <1>3, <2>1, <2>3
        <4>2. \A i \in (Len(buf) + 1)..(n + 1) : ~IsBegin(new[i]) /\ ~IsItem(new[i])
          <5>1. \A i \in (Len(buf) + 1)..(n + 1) : i = n \/ i = n + 1
            BY <1>2, <1>3
          <5> QED BY <2>6, <2>8, <3>2, <5>1, BlockFlags
        <4>3. (n + 1) + 1 = n + 2
          BY <1>3
        <4>4. IsOver(buf, old, new, n + 1)
          BY <2>4, <2>5, <2>7, <4>1, <4>2, <4>3 DEF IsOver
        <4> QED BY <4>4
      <3> QED BY <1>4, <1>9, <3>1, <3>2
    <2>10. /\ Good(new) /\ \A m \in Modules : \A k : GetCfg(new, m, k) = GetCfg(buf, m, k)
           /\ Plain(buf) => Plain(new)
      BY <1>7, <2>9, OverGood
    <2> QED BY <1>4, <1>6, <1>7, <2>2, <2>10 DEF new
  <1> QED BY <1>2, <1>3, <1>8, <1>9

(* A write that is torn: the blocks that it was not to change stay.          *)
Spares(buf, g) == \A i \in 1..g : i <= Len(buf) => buf[i] = file[i]

LEMMA TornIs ==
    ASSUME file \in Buffers, writes \in Nat,
           NEW buf \in Buffers, buf # <<>>,
           NEW g \in Nat, g < Len(file), Spares(buf, g),
           NEW n \in Nat, n < Len(Encrypted(buf)),
           NEW f, f = Overwritten(SubSeq(Encrypted(buf), 1, n))
    PROVE  /\ f \in Buffers /\ Len(f) >= Len(file)
           /\ \A i \in 1..g : f[i] = file[i]
  <1> DEFINE w == Encrypted(buf)
             b == SubSeq(w, 1, n)
             l == Len(file)
  <1>1. /\ w \in Buffers /\ Len(w) = Len(buf) + 1
        /\ \A i \in 1..Len(buf) : w[i] = buf[i]
    BY EncryptedIs
  <1>2. Len(buf) \in Nat /\ l \in Nat /\ n <= Len(buf)
    <2>1. Len(buf) \in Nat /\ l \in Nat
      BY Positions
    <2>2. Len(w) = Len(buf) + 1 /\ n < Len(w)
      BY <1>1
    <2> HIDE DEF w
    <2> QED BY <2>1, <2>2
  <1> HIDE DEF w
  <1>3. b \in Buffers /\ Len(b) = n /\ \A i \in 1..n : b[i] = w[i]
    <2>1. n <= Len(w)
      BY <1>1, <1>2
    <2> QED BY <1>1, <2>1, FirstBlocks
  <1>4. f = Overwritten(b)
    BY DEF w
  <1> HIDE DEF b
  <1>5. /\ f \in Buffers
        /\ Len(b) >= l => Len(f) = Len(b)
        /\ Len(b) < l => Len(f) = l
        /\ \A i \in 1..Len(b) : f[i] = b[i]
        /\ \A i \in (Len(b) + 2)..l : f[i] = file[i]
        /\ Len(b) < l /\ (\A i \in 1..Len(b) : b[i] = file[i]) => f[Len(b) + 1] = file[Len(b) + 1]
    BY <1>3, <1>4, OverwrittenIs, ZenonT(60)
  <1>6. Len(b) = n /\ g < l
    BY <1>3
  <1> HIDE DEF l
  <1>7. Len(f) >= l
    BY <1>2, <1>5, <1>6
  <1>8. ASSUME NEW i \in 1..n, i <= g
        PROVE  b[i] = file[i]
    <2>1. i \in 1..Len(buf) /\ i <= Len(buf) /\ i \in 1..g
      BY <1>2, <1>8
    <2> QED BY <1>1, <1>3, <2>1 DEF Spares
  <1>9. ASSUME NEW i \in 1..g
        PROVE  f[i] = file[i]
    <2>1. CASE i <= n
      <3>1. i \in 1..n /\ i <= g
        BY <2>1
      <3> QED BY <1>5, <1>6, <1>8, <3>1
    <2>2. CASE i >= n + 2
      <3>1. i \in (n + 2)..l
        BY <1>2, <1>6, <2>2
      <3> QED BY <1>5, <1>6, <3>1
    <2>3. CASE i = n + 1
      <3>1. n < l /\ \A j \in 1..n : j <= g
        BY <1>2, <1>6, <2>3
      <3> QED BY <1>5, <1>6, <1>8, <2>3, <3>1
    <2> QED BY <2>1, <2>2, <2>3
  <1> QED BY <1>5, <1>7, <1>9 DEF l
-----------------------------------------------------------------------------
(* The types, the arguments of the calls and how often the file is written.  *)
LEMMA Recount ==
    ASSUME NEW S, IsFiniteSet(S), NEW T, NEW p, T \ {p} = S \ {p}
    PROVE  /\ IsFiniteSet(T) /\ Cardinality(S) \in Nat /\ Cardinality(T) \in Nat
           /\ Cardinality(T) + (IF p \in S THEN 1 ELSE 0)
                = Cardinality(S) + (IF p \in T THEN 1 ELSE 0)
  <1> DEFINE R == S \ {p}
  <1>1. /\ IsFiniteSet(R) /\ Cardinality(S) \in Nat
        /\ Cardinality(R) = IF p \in S THEN Cardinality(S) - 1 ELSE Cardinality(S)
    BY FS_RemoveElement, FS_CardinalityType
  <1>2. Cardinality(R) \in Nat
    BY <1>1, FS_CardinalityType
  <1>3. CASE p \in T
    <2>1. T = R \cup {p} /\ p \notin R
      BY <1>3
    <2> HIDE DEF R
    <2>2. IsFiniteSet(T) /\ Cardinality(T) = Cardinality(R) + 1
      BY <1>1, <2>1, FS_AddElement
    <2> QED BY <1>1, <1>2, <1>3, <2>2
  <1>4. CASE p \notin T
    <2>1. T = R
      BY <1>4
    <2> HIDE DEF R
    <2> QED BY <1>1, <1>2, <1>4, <2>1
  <1> QED BY <1>3, <1>4

WritesLeft(x) == CASE x \in {"open", "create"} -> 2 [] x = "write" -> 1 [] OTHER -> 0

LEMMA BudgetStep ==
    ASSUME TypeOK, Budget, NEW p \in Procs, NEW x, pc' = [pc EXCEPT ![p] = x],
           writes' \in Nat, sets' \in Nat,
           writes' + WritesLeft(x) + 2 * sets <= writes + WritesLeft(pc[p]) + 2 * sets'
    PROVE  Budget'
  <1> DEFINE C == Calling
             O == Opening
             D == Calling'
             P == Opening'
  <1>1. /\ pc \in [Procs -> PC] /\ sets \in Nat /\ writes \in Nat
    BY CfgFileAssumption DEF TypeOK
  <1>2. /\ D \ {p} = C \ {p} /\ P \ {p} = O \ {p}
        /\ p \in C <=> pc[p] \in {"open", "create", "write"}
        /\ p \in O <=> pc[p] \in {"open", "create"}
        /\ p \in D <=> x \in {"open", "create", "write"}
        /\ p \in P <=> x \in {"open", "create"}
        /\ O \subseteq C
    BY <1>1 DEF Calling, Opening
  <1>3. IsFiniteSet(C) /\ writes + Cardinality(C) + Cardinality(O) <= 2 * sets
    BY DEF Budget
  <1> HIDE DEF C, D, O, P
  <1>4. IsFiniteSet(O)
    BY <1>2, <1>3, FS_Subset
  <1>5. /\ IsFiniteSet(D) /\ Cardinality(C) \in Nat /\ Cardinality(D) \in Nat
        /\ Cardinality(D) + (IF p \in C THEN 1 ELSE 0) = Cardinality(C) + (IF p \in D THEN 1 ELSE 0)
    BY <1>2, <1>3, Recount
  <1>6. /\ Cardinality(O) \in Nat /\ Cardinality(P) \in Nat
        /\ Cardinality(P) + (IF p \in O THEN 1 ELSE 0) = Cardinality(O) + (IF p \in P THEN 1 ELSE 0)
    BY <1>2, <1>4, Recount
  <1>7. /\ WritesLeft(pc[p]) = (IF p \in C THEN 1 ELSE 0) + (IF p \in O THEN 1 ELSE 0)
        /\ WritesLeft(x) = (IF p \in D THEN 1 ELSE 0) + (IF p \in P THEN 1 ELSE 0)
    BY <1>2 DEF WritesLeft
  <1> DEFINE c == IF p \in C THEN 1 ELSE 0
             o == IF p \in O THEN 1 ELSE 0
             d == IF p \in D THEN 1 ELSE 0
             q == IF p \in P THEN 1 ELSE 0
  <1>8. c \in Nat /\ o \in Nat /\ d \in Nat /\ q \in Nat
    OBVIOUS
  <1>9. /\ Cardinality(D) + c = Cardinality(C) + d
        /\ Cardinality(P) + o = Cardinality(O) + q
        /\ writes' + (d + q) + 2 * sets <= writes + (c + o) + 2 * sets'
    BY <1>5, <1>6, <1>7
  <1> HIDE DEF c, o, d, q
  <1>10. writes' + Cardinality(D) + Cardinality(P) <= 2 * sets'
    <2> DEFINE nC == Cardinality(C)
               nO == Cardinality(O)
               nD == Cardinality(D)
               nP == Cardinality(P)
               w == writes'
               t == sets'
    <2>1. /\ nC \in Nat /\ nO \in Nat /\ nD \in Nat /\ nP \in Nat /\ w \in Nat /\ t \in Nat
          /\ nD + c = nC + d /\ nP + o = nO + q
          /\ writes + nC + nO <= 2 * sets
          /\ w + (d + q) + 2 * sets <= writes + (c + o) + 2 * t
      BY <1>3, <1>5, <1>6, <1>9
    <2> HIDE DEF nC, nO, nD, nP, w, t
    <2>2. w + nD + nP <= 2 * t
      BY <1>1, <1>8, <2>1
    <2> QED BY <2>2 DEF nD, nP, w, t
  <1> QED BY <1>5, <1>10 DEF Budget, D, P

LEMMA BufferOK ==
    ASSUME TypeOK, ~Throws
    PROVE  pBuffer = BufferFrom(file, cut) /\ pBuffer \in Buffers
  <1>1. file \in Buffers /\ cut \in Nat
    BY CfgFileAssumption DEF TypeOK, Buffers
  <1>2. file = <<>> \/ cut <= Len(file)
    <2>1. Len(file) \in Nat
      BY <1>1, Positions
    <2> QED BY <1>1, <2>1 DEF Throws
  <1>3. pBuffer = BufferFrom(file, cut)
    BY DEF pBuffer, BufferFrom
  <1> QED BY <1>1, <1>2, <1>3, BufferTyped

LEMMA ArgumentIs ==
    ASSUME TypeOK, Arguments, NEW p \in Procs, pc[p] # "idle"
    PROVE  \E s \in Settings : place[p] = <<s[1], s[2]>> /\ value[p] = s[3]
  BY DEF Arguments

(* What a call has returned from, and what its step leaves as it is.         *)
LEMMA ReturnTyped ==
    ASSUME Counted, NEW p \in Procs, Return(p)
    PROVE  /\ pc' \in [Procs -> PC] /\ pNewBuffer' \in [Procs -> Buffers]
           /\ place' \in [Procs -> Places \cup {None}] /\ value' \in [Procs -> Values \cup {None}]
           /\ exists' = exists /\ sets' = sets
           /\ \A w \in Nat : w >= writes => base' \in [Procs -> 0..w]
           /\ Arguments'
           /\ writes' \in Nat /\ writes' <= writes + WritesLeft(pc[p]) => Budget'
  <1>1. TypeOK /\ sets \in Nat /\ writes \in Nat
    BY CfgFileAssumption DEF Counted, TypeOK
  <1>2. /\ pc' \in [Procs -> PC]
        /\ place' \in [Procs -> Places \cup {None}] /\ value' \in [Procs -> Values \cup {None}]
        /\ exists' = exists /\ sets' = sets
    BY <1>1 DEF TypeOK, Return, PC
  <1>3. pNewBuffer' \in [Procs -> Buffers]
    <2>1. <<>> \in Buffers /\ pNewBuffer \in [Procs -> Buffers]
      BY <1>1 DEF TypeOK, Buffers
    <2> HIDE DEF Buffers
    <2> QED BY <2>1 DEF Return
  <1>4. ASSUME NEW w \in Nat, w >= writes
        PROVE  base' \in [Procs -> 0..w]
    <2>1. 0 \in 0..w /\ base \in [Procs -> 0..writes] /\ 0..writes \subseteq 0..w
      BY <1>1, <1>4 DEF TypeOK
    <2> QED BY <2>1 DEF Return
  <1>5. Arguments'
    <2>1. \A q \in Procs : pc'[q] # "idle" =>
              q # p /\ pc'[q] = pc[q] /\ place'[q] = place[q] /\ value'[q] = value[q]
      BY <1>1 DEF TypeOK, Return
    <2> QED BY <1>2, <2>1 DEF Counted, Arguments
  <1>6. ASSUME writes' \in Nat, writes' <= writes + WritesLeft(pc[p])
        PROVE  Budget'
    <2>1. pc' = [pc EXCEPT ![p] = "idle"] /\ WritesLeft("idle") = 0 /\ WritesLeft(pc[p]) \in Nat
      BY DEF Return, WritesLeft
    <2>2. writes' + 0 + 2 * sets <= writes + WritesLeft(pc[p]) + 2 * sets
      BY <1>1, <1>6, <2>1
    <2> QED BY <1>1, <1>2, <1>6, <2>1, <2>2, BudgetStep DEF Counted
  <1> QED BY <1>2, <1>3, <1>4, <1>5, <1>6

LEMMA ChangeTyped ==
    ASSUME Counted, NEW p \in Procs, NEW blocks \in Buffers, Change(p, blocks)
    PROVE  /\ file' \in Buffers /\ cut' \in Cuts \cup {1}
           /\ writes' \in Nat /\ writes' = writes + 1
  <1>1. writes \in Nat /\ cut \in Cuts \cup {1}
    BY CfgFileAssumption DEF Counted, TypeOK
  <1>2. CutOf(blocks) \subseteq Cuts \cup {1}
    BY <1>1 DEF CutOf
  <1> QED BY <1>1, <1>2 DEF Change

(* The conjuncts that a step cannot disturb on its own account.              *)
LEMMA CountedFrom ==
    ASSUME Arguments', Budget', exists' \in BOOLEAN, file' # <<>> => exists',
           file' \in Buffers, cut' \in Cuts \cup {1}, pc' \in [Procs -> PC],
           pNewBuffer' \in [Procs -> Buffers],
           place' \in [Procs -> Places \cup {None}], value' \in [Procs -> Values \cup {None}],
           sets' \in 0..MaxSets, writes' \in Nat,
           base' \in [Procs -> 0..writes'], settings' \in [Places -> Values \cup {None}],
           flaws' \subseteq Flaws
    PROVE  Counted'
  <1>1. writes' \in 0..2 * sets'
    <2> DEFINE nC == Cardinality(Calling')
               w == writes'
               t == sets'
               nO == Cardinality(Opening')
    <2>1. IsFiniteSet(Calling') /\ w + nC + nO <= 2 * t
      BY DEF Budget
    <2>2. Opening' \subseteq Calling'
      BY DEF Opening, Calling
    <2>3. nC \in Nat /\ nO \in Nat /\ w \in Nat /\ t \in Nat
      <3>1. IsFiniteSet(Opening')
        BY <2>1, <2>2, FS_Subset
      <3>2. t \in Nat
        BY CfgFileAssumption
      <3> QED BY <2>1, <3>1, <3>2, FS_CardinalityType
    <2> HIDE DEF nC, nO, w, t
    <2>4. w \in 0..2 * t
      BY <2>1, <2>3
    <2> QED BY <2>4 DEF w, t
  <1> QED BY <1>1 DEF Counted, TypeOK, Buffers

LEMMA CountedStep ==
    ASSUME Counted, [Next]_vars
    PROVE  Counted'
  <1>1. /\ TypeOK /\ Arguments /\ Budget
        /\ sets \in Nat /\ writes \in Nat /\ file \in Buffers /\ pNewBuffer \in [Procs -> Buffers]
    BY CfgFileAssumption DEF Counted, TypeOK, Buffers
  <1>2. ASSUME NEW p \in Procs, pc[p] # "idle"
        PROVE  /\ place[p] \in Places /\ value[p] \in Values /\ value[p] \in Buffers
               /\ place[p][1] \in Names /\ place[p][2] \in Names
    <2>1. PICK s \in Settings : place[p] = <<s[1], s[2]>> /\ value[p] = s[3]
      BY <1>1, <1>2, ArgumentIs
    <2>2. place[p][1] = s[1] /\ place[p][2] = s[2]
      BY <2>1
    <2> QED BY <2>1, <2>2, SettingIs
  <1>3. ASSUME NEW p \in Procs, NEW buf \in Buffers, pc[p] # "idle"
        PROVE  Encrypted(NewBuffer(buf, place[p][1], place[p][2], value[p])) \in Buffers
    BY <1>2, <1>3, NewBufferTyped, EncryptedIs
  <1>4. ASSUME NEW p \in Procs, NEW s \in Settings, SetCfg(p, s)
        PROVE  Counted'
    <2>1. pc' = [pc EXCEPT ![p] = IF exists THEN "open" ELSE "create"] /\ pc' \in [Procs -> PC]
      BY <1>1, <1>4 DEF SetCfg, TypeOK, PC
    <2>2. /\ place' \in [Procs -> Places \cup {None}] /\ value' \in [Procs -> Values \cup {None}]
          /\ base' \in [Procs -> 0..writes']
      <3>1. s[3] \in Values /\ <<s[1], s[2]>> \in Places /\ writes \in 0..writes
        BY <1>1, SettingIs
      <3> QED BY <1>1, <1>4, <3>1 DEF SetCfg, TypeOK
    <2>3. sets' = sets + 1 /\ sets' \in 0..MaxSets /\ writes' = writes
      BY <1>1, <1>4, CfgFileAssumption DEF SetCfg, TypeOK
    <2>4. Arguments'
      <3>1. ASSUME NEW q \in Procs, q # p
            PROVE  pc'[q] = pc[q] /\ place'[q] = place[q] /\ value'[q] = value[q]
        BY <1>1, <1>4, <3>1 DEF SetCfg, TypeOK
      <3>2. place'[p] = <<s[1], s[2]>> /\ value'[p] = s[3]
        BY <1>1, <1>4 DEF SetCfg, TypeOK
      <3>3. pc'[p] \in {"open", "write"} => exists'
        BY <1>1, <1>4 DEF SetCfg, TypeOK
      <3>4. exists' = exists
        BY <1>4 DEF SetCfg
      <3> QED BY <1>1, <3>1, <3>2, <3>3, <3>4 DEF Arguments
    <2>5. Budget'
      <3> DEFINE x == IF exists THEN "open" ELSE "create"
      <3>1. WritesLeft(pc[p]) = 0 /\ WritesLeft(x) = 2
        BY <1>4 DEF SetCfg, WritesLeft
      <3>2. writes' + 2 + 2 * sets <= writes + 0 + 2 * sets' /\ writes' \in Nat /\ sets' \in Nat
        BY <1>1, <2>3
      <3>3. pc' = [pc EXCEPT ![p] = x]
        BY <2>1
      <3> HIDE DEF x
      <3> QED BY <1>1, <3>1, <3>2, <3>3, BudgetStep
    <2> QED BY <1>1, <1>4, <2>1, <2>2, <2>3, <2>4, <2>5, CountedFrom DEF SetCfg, TypeOK
  <1>5. ASSUME NEW p \in Procs, Create(p)
        PROVE  Counted'
    <2>1. pc[p] = "create" /\ pc' = [pc EXCEPT ![p] = "write"] /\ pc' \in [Procs -> PC]
      BY <1>1, <1>5 DEF Create, TypeOK, PC
    <2>2. /\ file' = <<>> /\ file' \in Buffers /\ cut' \in Cuts \cup {1}
          /\ writes' \in Nat /\ writes' = writes + 1 /\ exists' = TRUE
          /\ UNCHANGED args /\ UNCHANGED settings
      <3>1. <<>> \in Buffers /\ Change(p, <<>>)
        BY <1>5 DEF Create, Buffers
      <3>2. /\ file' \in Buffers /\ cut' \in Cuts \cup {1} /\ writes' \in Nat /\ writes' = writes + 1
        BY <3>1, ChangeTyped
      <3> QED BY <1>5, <3>1, <3>2 DEF Create, Change
    <2>3. pNewBuffer' \in [Procs -> Buffers]
      <3>1. <<>> \in Buffers
        BY DEF Buffers
      <3>2. Encrypted(NewBuffer(<<>>, place[p][1], place[p][2], value[p])) \in Buffers
        BY <1>3, <2>1, <3>1
      <3> QED BY <1>1, <1>5, <3>2 DEF Create
    <2>4. base' \in [Procs -> 0..writes']
      <3>1. base \in [Procs -> 0..writes] /\ base' = [base EXCEPT ![p] = writes']
        BY <1>1, <1>5 DEF Create, TypeOK
      <3>2. writes' \in 0..writes' /\ 0..writes \subseteq 0..writes'
        BY <1>1, <2>2
      <3> QED BY <3>1, <3>2
    <2>5. flaws' \subseteq Flaws
      BY <1>1, <1>5 DEF Create, IsRace, Flaws, TypeOK
    <2>6. Arguments'
      <3>1. \A q \in Procs : (pc'[q] # "idle" => pc[q] # "idle") /\ exists'
        BY <1>1, <2>1, <2>2 DEF TypeOK
      <3> QED BY <1>1, <2>2, <3>1 DEF Arguments, args
    <2>7. Budget'
      <3>1. WritesLeft(pc[p]) = 2 /\ WritesLeft("write") = 1 /\ sets' = sets
        BY <2>1, <2>2 DEF WritesLeft, args
      <3>2. writes' + 1 + 2 * sets <= writes + 2 + 2 * sets'
        BY <1>1, <2>2, <3>1
      <3> QED BY <1>1, <2>1, <2>2, <3>1, <3>2, BudgetStep
    <2> QED BY <1>1, <2>1, <2>2, <2>3, <2>4, <2>5, <2>6, <2>7, CountedFrom DEF TypeOK, args
  <1>6. ASSUME NEW p \in Procs, Read(p)
        PROVE  Counted'
    <2>1. pc[p] = "open" /\ pc' = [pc EXCEPT ![p] = "write"] /\ pc' \in [Procs -> PC]
      BY <1>1, <1>6 DEF Read, TypeOK, PC
    <2>2. UNCHANGED <<exists, file, cut, args, writes, settings, flaws>>
      BY <1>6 DEF Read
    <2>3. pNewBuffer' \in [Procs -> Buffers]
      <3>1. pBuffer \in Buffers
        BY <1>1, <1>6, BufferOK DEF Read
      <3>2. Encrypted(NewBuffer(pBuffer, place[p][1], place[p][2], value[p])) \in Buffers
        BY <1>3, <2>1, <3>1
      <3> QED BY <1>1, <1>6, <3>2 DEF Read
    <2>4. base' \in [Procs -> 0..writes']
      <3>1. base \in [Procs -> 0..writes] /\ base' = [base EXCEPT ![p] = writes]
        BY <1>1, <1>6 DEF Read, TypeOK
      <3>2. writes \in 0..writes /\ writes' = writes
        BY <1>1, <2>2
      <3> QED BY <3>1, <3>2
    <2>5. Arguments'
      <3>1. \A q \in Procs : (pc'[q] # "idle" => pc[q] # "idle")
        BY <1>1, <2>1 DEF TypeOK
      <3>2. \A q \in Procs : pc'[q] \in {"open", "write"} => pc[q] \in {"open", "write"}
        BY <1>1, <2>1 DEF TypeOK
      <3> QED BY <1>1, <2>2, <3>1, <3>2 DEF Arguments, args
    <2>6. Budget'
      <3>1. WritesLeft(pc[p]) = 2 /\ WritesLeft("write") = 1 /\ sets' = sets /\ writes' = writes
        BY <2>1, <2>2 DEF WritesLeft, args
      <3>2. writes' + 1 + 2 * sets <= writes + 2 + 2 * sets'
        BY <1>1, <3>1
      <3> QED BY <1>1, <2>1, <3>1, <3>2, BudgetStep
    <2> QED BY <1>1, <2>1, <2>2, <2>3, <2>4, <2>5, <2>6, CountedFrom DEF TypeOK, args
  <1>7. ASSUME NEW p \in Procs, ReadThrows(p)
        PROVE  Counted'
    <2>1. pc[p] = "open" /\ pc' = [pc EXCEPT ![p] = "thrown"] /\ pc' \in [Procs -> PC]
      BY <1>1, <1>7 DEF ReadThrows, TypeOK, PC
    <2>2. UNCHANGED <<exists, file, cut, pNewBuffer, args, writes, base, settings, flaws>>
      BY <1>7 DEF ReadThrows
    <2>3. Arguments'
      <3>1. \A q \in Procs : (pc'[q] # "idle" => pc[q] # "idle")
        BY <1>1, <2>1 DEF TypeOK
      <3>2. \A q \in Procs : pc'[q] \in {"open", "write"} => pc[q] \in {"open", "write"}
        BY <1>1, <2>1 DEF TypeOK
      <3> QED BY <1>1, <2>2, <3>1, <3>2 DEF Arguments, args
    <2>4. Budget'
      <3>1. WritesLeft(pc[p]) = 2 /\ WritesLeft("thrown") = 0 /\ sets' = sets /\ writes' = writes
        BY <2>1, <2>2 DEF WritesLeft, args
      <3>2. writes' + 0 + 2 * sets <= writes + 2 + 2 * sets'
        BY <1>1, <3>1
      <3> QED BY <1>1, <2>1, <3>1, <3>2, BudgetStep
    <2> QED BY <1>1, <2>1, <2>2, <2>3, <2>4, CountedFrom DEF TypeOK, args
  <1>8. ASSUME NEW p \in Procs, Return(p), UNCHANGED <<file, cut, writes, settings, flaws>>
        PROVE  Counted'
    <2>1. writes' \in Nat /\ writes' <= writes + WritesLeft(pc[p])
      <3>1. WritesLeft(pc[p]) \in Nat
        BY DEF WritesLeft
      <3> QED BY <1>1, <1>8, <3>1
    <2>2. Arguments' /\ Budget' /\ base' \in [Procs -> 0..writes']
      <3>1. writes' \in Nat /\ writes' >= writes
        BY <1>1, <1>8
      <3> QED BY <1>8, <2>1, <3>1, ReturnTyped
    <2>3. /\ pc' \in [Procs -> PC] /\ pNewBuffer' \in [Procs -> Buffers]
          /\ place' \in [Procs -> Places \cup {None}] /\ value' \in [Procs -> Values \cup {None}]
          /\ exists' = exists /\ sets' = sets
      BY <1>8, ReturnTyped
    <2> QED BY <1>1, <1>8, <2>1, <2>2, <2>3, CountedFrom DEF TypeOK
  <1>9. ASSUME NEW p \in Procs, Return(p), pc[p] = "write",
               NEW blocks \in Buffers, Change(p, blocks),
               settings' \in [Places -> Values \cup {None}], flaws' \subseteq Flaws
        PROVE  Counted'
    <2>1. /\ file' \in Buffers /\ cut' \in Cuts \cup {1}
          /\ writes' \in Nat /\ writes' = writes + 1
      BY <1>9, ChangeTyped
    <2>2. Arguments' /\ Budget' /\ base' \in [Procs -> 0..writes']
      <3>1. WritesLeft(pc[p]) = 1
        BY <1>9 DEF WritesLeft
      <3>2. writes' <= writes + WritesLeft(pc[p]) /\ writes' >= writes
        BY <1>1, <2>1, <3>1
      <3> QED BY <1>9, <2>1, <3>2, ReturnTyped
    <2>3. /\ pc' \in [Procs -> PC] /\ pNewBuffer' \in [Procs -> Buffers]
          /\ place' \in [Procs -> Places \cup {None}] /\ value' \in [Procs -> Values \cup {None}]
          /\ exists' = exists /\ sets' = sets
      BY <1>9, ReturnTyped
    <2>4. exists = TRUE
      BY <1>1, <1>9 DEF Arguments, TypeOK
    <2> QED BY <1>1, <1>9, <2>1, <2>2, <2>3, <2>4, CountedFrom DEF TypeOK
  <1>10. ASSUME NEW p \in Procs, Write(p)
         PROVE  Counted'
    <2>1. Overwritten(pNewBuffer[p]) \in Buffers
      BY <1>1, OverwrittenIs
    <2>2. settings' \in [Places -> Values \cup {None}]
      <3>1. value[p] \in Values
        BY <1>2, <1>10 DEF Write
      <3> QED BY <1>1, <1>10, <3>1 DEF Write, TypeOK
    <2>3. flaws' \subseteq Flaws
      BY <1>1, <1>10 DEF Write, IsRace, IsShorter, FlagsIn, Flaws, TypeOK
    <2> QED BY <1>9, <1>10, <2>1, <2>2, <2>3 DEF Write
  <1>11. ASSUME NEW p \in Procs, NEW n \in 0..Len(pNewBuffer[p]), Tear(p, n)
         PROVE  Counted'
    <2>1. SubSeq(pNewBuffer[p], 1, n) \in Buffers
      <3>1. pNewBuffer[p] \in Buffers /\ n \in Nat /\ n <= Len(pNewBuffer[p])
        BY <1>1, <1>11, Positions
      <3> QED BY <3>1, FirstBlocks
    <2>2. Overwritten(SubSeq(pNewBuffer[p], 1, n)) \in Buffers
      BY <1>1, <2>1, OverwrittenIs
    <2>3. flaws' \subseteq Flaws
      BY <1>1, <1>11 DEF Tear, IsRace, Flaws, TypeOK
    <2>4. settings' \in [Places -> Values \cup {None}]
      BY <1>1, <1>11 DEF Tear, TypeOK
    <2> QED BY <1>9, <1>11, <2>2, <2>3, <2>4 DEF Tear
  <1>12. CASE UNCHANGED vars
    BY <1>1, <1>12, CountedFrom
       DEF vars, args, TypeOK, Arguments, Budget, Calling, Opening, Counted
  <1> QED BY <1>4, <1>5, <1>6, <1>7, <1>8, <1>10, <1>11, <1>12
          DEF Next, Step, OpenFails, WriteNothing
-----------------------------------------------------------------------------
(* The content.                                                              *)
LEMMA OtherPlace ==
    ASSUME NEW s \in Settings, NEW t \in Places, t # <<s[1], s[2]>>
    PROVE  t[1] \in Modules /\ (t[1] # s[1] \/ t[2] # s[2])
  <1>1. PICK u \in Settings : t = <<u[1], u[2]>>
    BY DEF Places
  <1>2. t[1] = u[1] /\ t[2] = u[2]
    BY <1>1
  <1> QED BY <1>1, <1>2, SettingIs

(* A file without a flaw is read as pBuffer without its padding.             *)
LEMMA DiskIs ==
    ASSUME Counted, Disk
    PROVE  /\ file \in Buffers /\ writes \in Nat
           /\ ~Throws
           /\ pBuffer \in Buffers /\ pBuffer = BufferFrom(file, 1)
           /\ file = <<>> => pBuffer = <<>>
  <1>1. TypeOK /\ file \in Buffers /\ writes \in Nat
    BY CfgFileAssumption DEF Counted, TypeOK, Buffers
  <1>2. ~Throws
    <2>1. Len(file) \in Nat
      BY <1>1, Positions
    <2> QED BY <2>1 DEF Throws, Disk
  <1>3. pBuffer = BufferFrom(file, 1) /\ pBuffer \in Buffers
    BY <1>1, <1>2, BufferOK DEF Disk
  <1>4. file # <<>> => Len(file) >= 2
    BY DEF Disk
  <1> QED BY <1>1, <1>2, <1>3, <1>4, BufferIs

LEMMA EmptyIsGood == Good(<<>>) /\ Plain(<<>>) /\ \A m, k : GetCfg(<<>>, m, k) = None
  <1>1. <<>> \in Buffers /\ DOMAIN <<>> = {}
    BY DEF Buffers
  <1>2. ASSUME NEW m
        PROVE  pModuleStart(<<>>, m) = 0
    <2>1. ~(pModuleStart(<<>>, m) > 0) /\ pModuleStart(<<>>, m) \in Nat
      BY <1>1, Starts DEF IsStart
    <2> QED BY <2>1
  <1>3. \A m, k : GetCfg(<<>>, m, k) = None
    BY <1>2, GetCfgIs
  <1> QED BY <1>1, <1>2, <1>3 DEF Good, Closed, Ended, Items, Keys, Plain

(* The file as it is when nobody reads or writes: the invariant stays.       *)
LEMMA ContentStays ==
    ASSUME Counted, Content, UNCHANGED <<file, cut, settings, flaws>>, exists' = exists,
           \A p \in Procs : Unraced(p) => Unraced(p)'
    PROVE  Content'
  <1>1. pBuffer' = pBuffer
    BY DEF pBuffer
  <1>2. Disk => Disk'
    BY DEF Disk
  <1> QED BY <1>1, <1>2 DEF Content, Spoilt, Reads

(* A process that changed the file has overtaken all the others.             *)
LEMMA OthersRaced ==
    ASSUME Counted, NEW p \in Procs, writes' = writes + 1,
           \A q \in Procs : q # p => base'[q] = base[q],
           NEW q \in Procs, q # p
    PROVE  Unraced(q)'
  <1>1. base[q] \in 0..writes /\ writes \in Nat
    BY CfgFileAssumption DEF Counted, TypeOK
  <1>2. base'[q] # writes'
    BY <1>1
  <1> QED BY <1>2 DEF Unraced

LEMMA CreateContent ==
    ASSUME Counted, Content, NEW p \in Procs, Create(p)
    PROVE  Content'
  <1>1. /\ file' = <<>> /\ cut' = 1 /\ writes' = writes + 1 /\ exists' = TRUE
        /\ flaws' = flaws \cup IsRace(p) /\ UNCHANGED args /\ UNCHANGED settings
        /\ base' = [base EXCEPT ![p] = writes']
        /\ pNewBuffer' = [pNewBuffer EXCEPT ![p] =
                            Encrypted(NewBuffer(<<>>, place[p][1], place[p][2], value[p]))]
    BY DEF Create, Change, CutOf
  <1>2. /\ TypeOK /\ pc[p] = "create"
        /\ base \in [Procs -> 0..writes] /\ pNewBuffer \in [Procs -> Buffers]
    BY DEF Create, Counted, TypeOK, Buffers
  <1>3. pBuffer' = <<>>
    <2>1. <<>> \in Buffers
      BY DEF Buffers
    <2>2. pBuffer' = BufferFrom(file', cut')
      BY DEF pBuffer, BufferFrom
    <2> QED BY <1>1, <2>1, <2>2, BufferIs
  <1>4. ASSUME ~Spoilt'
        PROVE  ~Spoilt /\ pBuffer = <<>> /\ Reads
    <2>1. ~Spoilt /\ base[p] = writes
      BY <1>1, <1>4 DEF Spoilt, IsRace
    <2>2. Disk /\ Unraced(p) /\ Reads
      BY <2>1 DEF Content
    <2>3. file = <<>>
      BY <1>2, <2>1, <2>2 DEF Unraced, Disk
    <2> QED BY <2>1, <2>2, <2>3, DiskIs
  <1>5. Reads /\ pBuffer = <<>> => Reads'
    BY <1>1, <1>3 DEF Reads
  <1>6. Disk'
    BY <1>1 DEF Disk
  <1>7. ASSUME NEW q \in Procs
        PROVE  Unraced(q)'
    <2>1. CASE q = p
      <3>1. pNewBuffer'[p] = Encrypted(NewBuffer(<<>>, place'[p][1], place'[p][2], value'[p]))
        BY <1>1, <1>2 DEF args
      <3>2. pc'[p] = "write"
        BY <1>2 DEF Create, TypeOK
      <3> QED BY <1>3, <2>1, <3>1, <3>2 DEF Unraced
    <2>2. CASE q # p
      BY <1>1, <1>2, <2>2, OthersRaced
    <2> QED BY <2>1, <2>2
  <1>8. Good(pBuffer') /\ Plain(pBuffer')
    BY <1>3, EmptyIsGood
  <1>9. (Good(pBuffer))' /\ (Plain(pBuffer))'
    <2>1. (Good(pBuffer))' <=> Good(pBuffer')
      BY DEF Good, Closed, Ended, Items, Keys
    <2> QED BY <1>8
  <1> QED BY <1>4, <1>5, <1>6, <1>7, <1>9 DEF Content

LEMMA WriteContent ==
    ASSUME Counted, Content, Arguments, NEW p \in Procs, Write(p)
    PROVE  Content'
  <1>1. TypeOK /\ Budget /\ pc[p] = "write" /\ exists = TRUE
    BY DEF Write, Counted, TypeOK, Arguments
  <1>2. PICK s \in Settings : place[p] = <<s[1], s[2]>> /\ value[p] = s[3]
    BY <1>1, ArgumentIs
  <1>3. /\ pNewBuffer[p] # <<>>
        /\ file' = Overwritten(pNewBuffer[p]) /\ cut' \in CutOf(file') /\ writes' = writes + 1
        /\ flaws' = flaws \cup IsRace(p) \cup IsShorter(p) \cup FlagsIn(s[3])
        /\ settings' = [settings EXCEPT ![<<s[1], s[2]>>] = s[3]]
        /\ exists' = exists /\ pc'[p] = "idle"
        /\ \A q \in Procs : q # p => base'[q] = base[q]
    BY <1>1, <1>2 DEF Write, Change, Return, TypeOK
  <1>4. ASSUME NEW q \in Procs
        PROVE  Unraced(q)'
    <2>1. CASE q = p
      BY <1>3, <2>1 DEF Unraced
    <2>2. CASE q # p
      BY <1>3, <2>2, OthersRaced
    <2> QED BY <2>1, <2>2
  <1>5. ASSUME ~Spoilt'
        PROVE  /\ Disk' /\ Good(pBuffer') /\ Reads'
               /\ flaws' = {} => Plain(pBuffer')
    <2>1. /\ ~Spoilt /\ base[p] = writes
          /\ Len(file) # Len(pNewBuffer[p]) + 1 /\ FlagsIn(s[3]) \cap {"begun", "framed"} = {}
      BY <1>3, <1>5 DEF Spoilt, IsRace, IsShorter
    <2>2. /\ Disk /\ Good(pBuffer) /\ Reads
          /\ flaws = {} => Plain(pBuffer)
          /\ pNewBuffer[p] = Encrypted(NewBuffer(pBuffer, s[1], s[2], s[3]))
      BY <1>1, <1>2, <2>1 DEF Content, Unraced
    <2>3. /\ file \in Buffers /\ writes \in Nat /\ pBuffer \in Buffers
          /\ pBuffer = BufferFrom(file, 1)
          /\ file # <<>> => Len(file) >= 2 /\ Last(file) = Padding
      BY <2>2, DiskIs DEF Disk
    <2> DEFINE old == pBuffer
               buf == NewBuffer(old, s[1], s[2], s[3])
               f == file'
               new == BufferFrom(f, 1)
    <2>4. s[1] \in Modules /\ s[1] \in Names /\ s[2] \in Names /\ IsValue(s[3])
      BY <2>1, SettingIs
    <2>5. /\ buf \in Buffers /\ buf # <<>>
          /\ Good(buf) /\ Keeps(old, buf)
          /\ GetCfg(buf, s[1], s[2]) = s[3]
          /\ \A n \in Modules : \A l : n # s[1] \/ l # s[2] => GetCfg(buf, n, l) = GetCfg(old, n, l)
          /\ Plain(old) /\ (\A i \in DOMAIN s[3] : s[3][i] # MODULE_END) => Plain(buf)
      BY <2>2, <2>3, <2>4, NewBufferIs
    <2> HIDE DEF buf
    <2>6. f = Overwritten(Encrypted(buf)) /\ Len(file) # Len(Encrypted(buf)) + 1
      BY <1>3, <2>1, <2>2 DEF buf
    <2> HIDE DEF f
    <2>7. /\ f \in Buffers /\ Len(f) >= 2 /\ Last(f) = Padding
          /\ new \in Buffers /\ Good(new)
          /\ \A n \in Modules : \A l : GetCfg(new, n, l) = GetCfg(buf, n, l)
          /\ Plain(buf) => Plain(new)
      <3> HIDE DEF old
      <3>1. old \in Buffers /\ old = BufferFrom(file, 1) /\ Good(old)
        BY <2>2, <2>3 DEF old
      <3> QED BY <2>3, <2>5, <2>6, <3>1, WrittenIs
    <2>8. cut' = 1
      <3>1. f # <<>> /\ CutOf(f) = {1}
        BY <2>7 DEF CutOf
      <3> QED BY <1>3, <3>1 DEF f
    <2>9. pBuffer' = new
      <3>1. pBuffer' = BufferFrom(file', cut')
        BY DEF pBuffer, BufferFrom
      <3> QED BY <2>8, <3>1 DEF f
    <2>10. Disk'
      BY <1>1, <1>3, <2>7, <2>8 DEF Disk, f
    <2>11. Reads'
      <3>1. ASSUME NEW t \in Places
            PROVE  GetCfg(new, t[1], t[2]) = settings'[t]
        <4>1. CASE t = <<s[1], s[2]>>
          <5>1. settings'[t] = s[3] /\ t[1] = s[1] /\ t[2] = s[2]
            BY <1>1, <1>3, <4>1 DEF TypeOK
          <5> QED BY <2>4, <2>5, <2>7, <5>1
        <4>2. CASE t # <<s[1], s[2]>>
          <5>1. settings'[t] = settings[t]
            BY <1>1, <1>3, <4>2 DEF TypeOK
          <5>2. t[1] \in Modules /\ (t[1] # s[1] \/ t[2] # s[2])
            BY <4>2, OtherPlace
          <5>3. GetCfg(new, t[1], t[2]) = GetCfg(old, t[1], t[2])
            BY <2>5, <2>7, <5>2
          <5>4. GetCfg(old, t[1], t[2]) = settings[t]
            BY <2>2 DEF Reads
          <5> QED BY <5>1, <5>3, <5>4
        <4> QED BY <4>1, <4>2
      <3> HIDE DEF new
      <3>2. \A t \in Places : GetCfg(pBuffer', t[1], t[2]) = settings'[t]
        BY <2>9, <3>1
      <3> QED BY <3>2 DEF Reads
    <2>12. flaws' = {} => Plain(new)
      <3>1. flaws' = {} => flaws = {} /\ "ended" \notin FlagsIn(s[3])
        BY <1>3
      <3>2. flaws' = {} => \A i \in DOMAIN s[3] : s[3][i] # MODULE_END
        BY <3>1, SettingIs
      <3> QED BY <2>2, <2>5, <2>7, <3>1, <3>2
    <2> HIDE DEF new
    <2> QED BY <2>7, <2>9, <2>10, <2>11, <2>12
  <1>6. flaws' = {} => ~Spoilt'
    BY DEF Spoilt
  <1> QED BY <1>4, <1>5, <1>6 DEF Content

LEMMA ContentStep ==
    ASSUME IInv, [Next]_vars
    PROVE  Content'
  <1>1. Counted /\ Content /\ TypeOK /\ Arguments
    BY DEF IInv, Counted
  <1>2. ASSUME NEW p \in Procs, NEW s \in Settings, SetCfg(p, s)
        PROVE  Content'
    <2>1. ASSUME NEW q \in Procs, Unraced(q)
          PROVE  Unraced(q)'
      <3>1. CASE q = p
        <4>1. pc'[p] = "open" \/ (pc'[p] = "create" /\ ~exists')
          BY <1>1, <1>2 DEF SetCfg, TypeOK
        <4> QED BY <3>1, <4>1 DEF Unraced
      <3>2. CASE q # p
        <4>1. /\ pc'[q] = pc[q] /\ base'[q] = base[q] /\ place'[q] = place[q] /\ value'[q] = value[q]
              /\ UNCHANGED <<exists, file, cut, pNewBuffer, writes>>
          BY <1>1, <1>2, <3>2 DEF SetCfg, TypeOK
        <4> QED BY <2>1, <4>1 DEF Unraced, pBuffer
      <3> QED BY <3>1, <3>2
    <2> QED BY <1>1, <1>2, <2>1, ContentStays DEF SetCfg
  <1>3. ASSUME NEW p \in Procs, Read(p)
        PROVE  Content'
    <2>1. ASSUME NEW q \in Procs, Unraced(q)
          PROVE  Unraced(q)'
      <3>1. UNCHANGED <<exists, file, cut, place, value, writes>> /\ pBuffer' = pBuffer
        BY <1>3 DEF Read, args, pBuffer
      <3>2. CASE q = p
        <4>1. pc'[p] = "write"
          BY <1>1, <1>3 DEF Read, TypeOK
        <4>2. pNewBuffer'[p] = Encrypted(NewBuffer(pBuffer, place[p][1], place[p][2], value[p]))
          BY <1>1, <1>3 DEF Read, TypeOK
        <4> QED BY <3>1, <3>2, <4>1, <4>2 DEF Unraced
      <3>3. CASE q # p
        <4>1. pc'[q] = pc[q] /\ base'[q] = base[q] /\ pNewBuffer'[q] = pNewBuffer[q]
          BY <1>1, <1>3, <3>3 DEF Read, TypeOK
        <4> QED BY <2>1, <3>1, <4>1 DEF Unraced
      <3> QED BY <3>2, <3>3
    <2> QED BY <1>1, <1>3, <2>1, ContentStays DEF Read
  <1>4. ASSUME NEW p \in Procs, ReadThrows(p)
        PROVE  Content'
    <2>1. ASSUME NEW q \in Procs, Unraced(q)
          PROVE  Unraced(q)'
      <3>1. UNCHANGED <<exists, file, cut, pNewBuffer, place, value, writes, base>> /\ pBuffer' = pBuffer
        BY <1>4 DEF ReadThrows, args, pBuffer
      <3>2. pc'[q] = pc[q] \/ pc'[q] = "thrown"
        BY <1>1, <1>4 DEF ReadThrows, TypeOK
      <3> QED BY <2>1, <3>1, <3>2 DEF Unraced
    <2> QED BY <1>1, <1>4, <2>1, ContentStays DEF ReadThrows
  <1>5. ASSUME NEW p \in Procs, Return(p), UNCHANGED <<file, cut, writes, settings, flaws>>
        PROVE  Content'
    <2>1. ASSUME NEW q \in Procs, Unraced(q)
          PROVE  Unraced(q)'
      <3>1. exists' = exists /\ pBuffer' = pBuffer /\ writes' = writes
        BY <1>5 DEF Return, pBuffer
      <3>2. CASE q = p
        <4>1. pc'[p] = "idle"
          BY <1>1, <1>5 DEF Return, TypeOK
        <4> QED BY <3>2, <4>1 DEF Unraced
      <3>3. CASE q # p
        <4>1. /\ pc'[q] = pc[q] /\ base'[q] = base[q] /\ pNewBuffer'[q] = pNewBuffer[q]
              /\ place'[q] = place[q] /\ value'[q] = value[q]
          BY <1>1, <1>5, <3>3 DEF Return, TypeOK
        <4> QED BY <2>1, <3>1, <4>1 DEF Unraced
      <3> QED BY <3>2, <3>3
    <2> QED BY <1>1, <1>5, <2>1, ContentStays DEF Return
  <1>6. ASSUME NEW p \in Procs, NEW n \in 0..Len(pNewBuffer[p]), Tear(p, n)
        PROVE  Content'
    <2>1. Spoilt' /\ flaws' # {}
      BY <1>6 DEF Tear, Spoilt
    <2> QED BY <2>1 DEF Content
  <1>7. CASE UNCHANGED vars
    <2>1. UNCHANGED <<exists, file, cut, pc, pNewBuffer, place, value, writes, base, settings, flaws>>
      BY <1>7 DEF vars, args
    <2>2. pBuffer' = pBuffer
      BY <2>1 DEF pBuffer
    <2>3. \A q \in Procs : Unraced(q) => Unraced(q)'
      BY <2>1, <2>2 DEF Unraced
    <2> QED BY <1>1, <2>1, <2>3, ContentStays
  <1> QED BY <1>1, <1>2, <1>3, <1>4, <1>5, <1>6, <1>7, CreateContent, WriteContent
          DEF Next, Step, OpenFails, WriteNothing
-----------------------------------------------------------------------------
LEMMA InitIInv == Init => IInv
  <1> SUFFICES ASSUME Init
               PROVE  IInv
    OBVIOUS
  <1>1. <<>> \in Buffers
    BY DEF Buffers
  <1>2. pBuffer = <<>>
    <2>1. pBuffer = BufferFrom(file, cut)
      BY DEF pBuffer, BufferFrom
    <2> QED BY <1>1, <2>1, BufferIs DEF Init
  <1>3. Calling = {} /\ Opening = {}
    BY DEF Init, Calling, Opening
  <1>4. Arguments /\ Budget
    <2>1. IsFiniteSet({}) /\ Cardinality({}) = 0
      BY FS_EmptySet
    <2>2. IsFiniteSet(Calling) /\ Cardinality(Calling) = 0 /\ Cardinality(Opening) = 0
      BY <1>3, <2>1
    <2>3. writes = 0 /\ sets = 0
      BY DEF Init
    <2> QED BY <2>2, <2>3 DEF Init, Arguments, Budget
  <1>5. TypeOK
    <2>1. file \in Seq(Blocks) /\ pNewBuffer \in [Procs -> Seq(Blocks)]
      BY <1>1 DEF Init, Buffers
    <2>2. sets \in 0..MaxSets /\ writes \in 0..2 * sets /\ base \in [Procs -> 0..writes]
      BY CfgFileAssumption DEF Init
    <2> QED BY <2>1, <2>2 DEF Init, TypeOK, PC, Flaws
  <1>6. Content
    <2>1. Disk /\ \A p \in Procs : Unraced(p)
      BY DEF Init, Disk, Unraced
    <2>2. Reads
      BY <1>2, EmptyIsGood DEF Init, Reads
    <2>3. Good(pBuffer) /\ Plain(pBuffer)
      BY <1>2, EmptyIsGood
    <2> QED BY <2>1, <2>2, <2>3 DEF Content
  <1> QED BY <1>4, <1>5, <1>6 DEF IInv, Counted

(* The strengthening of TypeOK and ReadsBack, which every step preserves.    *)
THEOREM Invariant == Spec => []IInv
  <1>1. IInv /\ [Next]_vars => IInv'
    BY CountedStep, ContentStep DEF IInv
  <1> QED BY InitIInv, <1>1, PTL DEF Spec

(* The file, the calls and the counters keep their types, though a flaw may  *)
(* leave anything in the file and crypto_unpadding drop any length of it.    *)
THEOREM CfgFileIsTyped == Spec => []TypeOK
  <1>1. IInv => TypeOK
    BY DEF IInv, Counted
  <1> QED BY Invariant, <1>1, PTL

(* What is read is what was set last, item by item, for any number of        *)
(* processes, modules and items and values of any lengths.                   *)
THEOREM SettingsReadBack == Spec => []ReadsBack
  <1>1. IInv => ReadsBack
    <2> SUFFICES ASSUME IInv
                 PROVE  ReadsBack
      OBVIOUS
    <2>1. Counted /\ Content
      BY DEF IInv
    <2>2. ASSUME ~Spoilt
          PROVE  /\ ~Throws /\ pBuffer \in Buffers /\ Good(pBuffer)
                 /\ \A s \in Places : GetCfg(pBuffer, s[1], s[2]) = settings[s]
      <3>1. Disk /\ Good(pBuffer) /\ Reads
        BY <2>1, <2>2 DEF Content
      <3> QED BY <2>1, <3>1, DiskIs DEF Reads
    <2>3. ASSUME flaws = {}, NEW s \in Places
          PROVE  LoadCfg(pBuffer, s[1], s[2]) = settings[s]
      <3>1. ~Spoilt /\ Plain(pBuffer)
        BY <2>1, <2>3 DEF Spoilt, Content
      <3>2. s[1] \in Modules
        BY PlaceIs
      <3>3. LoadCfg(pBuffer, s[1], s[2]) = GetCfg(pBuffer, s[1], s[2])
        BY <2>2, <3>1, <3>2, LoadIsGet
      <3> QED BY <2>2, <3>1, <3>3
    <2> QED BY <2>2, <2>3 DEF ReadsBack, Spoilt
  <1> QED BY Invariant, <1>1, PTL

(* Only a write that stops halfway tears.                                    *)
LEMMA TearsIs ==
    ASSUME IInv, [Next]_vars, NEW p \in Procs, Tears(p)
    PROVE  \E n \in 0..Len(pNewBuffer[p]) : Tear(p, n)
  <1>1. TypeOK /\ pc[p] = "write" /\ pc'[p] = "idle" /\ "torn" \notin flaws /\ "torn" \in flaws'
    BY DEF IInv, Counted, Tears
  <1>2. flaws' # flaws
    BY <1>1
  <1>3. ~UNCHANGED vars /\ Next
    BY <1>2 DEF vars
  <1>4. ASSUME NEW q \in Procs, Step(q) \/ \E s \in Settings : SetCfg(q, s)
        PROVE  FALSE
    <2>1. "torn" \notin IsRace(q) /\ "torn" \notin IsShorter(q) /\ "torn" \notin FlagsIn(value[q])
      BY DEF IsRace, IsShorter, FlagsIn
    <2>2. "torn" \notin flaws' \/ UNCHANGED flaws
      BY <1>1, <1>4, <2>1
         DEF Step, SetCfg, Create, Read, ReadThrows, OpenFails, WriteNothing, Write
    <2> QED BY <1>1, <2>2
  <1>5. ASSUME NEW q \in Procs, NEW n \in 0..Len(pNewBuffer[q]), Tear(q, n)
        PROVE  q = p
    BY <1>1, <1>5 DEF Tear, Return, TypeOK
  <1> QED BY <1>3, <1>4, <1>5 DEF Next

Reaches(x, z, g) == g <= Len(z) /\ \A i \in 1..g : z[i] = x[i]

LEMMA AgreeOn ==
    ASSUME NEW buf \in Buffers, NEW new \in Buffers, NEW m, NEW s \in Nat, NEW e \in Nat,
           IsModule(buf, m, s, e), Reaches(buf, new, e)
    PROVE  \A k : GetCfg(new, m, k) = GetCfg(buf, m, k)
  BY Agree, SMTT(40) DEF Reaches

LEMMA TornAlike ==
    ASSUME file \in Buffers, writes \in Nat, file # <<>> => Len(file) >= 2,
           NEW old \in Buffers, old = BufferFrom(file, 1), Good(old),
           NEW s \in Settings, NEW buf, buf = NewBuffer(old, s[1], s[2], s[3]),
           NEW n \in Nat, n < Len(Encrypted(buf)),
           NEW f, f = Overwritten(SubSeq(Encrypted(buf), 1, n)),
           NEW m \in Modules, IsBefore(old, m, s[1])
    PROVE  /\ f \in Buffers /\ Len(f) >= 2
           /\ \A k : GetCfg(BufferFrom(f, 1), m, k) = GetCfg(old, m, k)
  <1> DEFINE t == pModuleStart(old, m)
             g == pModuleEnd(old, m)
             new == BufferFrom(f, 1)
  <1>1. s[1] \in Modules /\ s[1] \in Names /\ s[2] \in Names /\ s[3] \in Buffers
    BY SettingIs
  <1>2. t > 0 /\ pModuleStart(old, s[1]) \notin 1..t
    BY DEF IsBefore
  <1>3. IsModule(old, m, t, g)
    BY <1>2, ModuleIs DEF Good
  <1>4. t \in Nat /\ g \in Nat /\ g >= 1 /\ g <= Len(old) /\ Len(old) \in Nat
    <2>1. t \in Nat /\ g \in (t + 2)..Len(old) /\ Len(old) \in Nat
      BY <1>3, Positions DEF IsModule, IsEnd
    <2> HIDE DEF t, g
    <2> QED BY <2>1
  <1> HIDE DEF t, g
  <1>5. /\ Len(file) >= 2 /\ Len(old) = Len(file) - 1
        /\ \A i \in 1..(Len(file) - 1) : old[i] = file[i]
    <2>1. old # <<>>
      <3>1. Len(old) # 0
        BY <1>4
      <3> QED BY <3>1
    <2>2. file # <<>>
      BY <2>1, BufferIs
    <2> QED BY <2>2, BufferIs
  <1>6. Len(file) \in Nat /\ g < Len(file)
    <2>1. Len(file) \in Nat
      BY Positions
    <2>2. g \in Nat /\ g <= Len(old) /\ Len(old) = Len(file) - 1
      BY <1>4, <1>5
    <2> QED BY <2>1, <2>2
  <1>7. buf \in Buffers /\ buf # <<>>
    <2>1. buf \in Buffers
      BY <1>1, NewBufferTyped
    <2>2. Len(Encrypted(<<>>)) = 0
      BY DEF Encrypted
    <2>3. buf # <<>>
      BY <2>2
    <2> QED BY <2>1, <2>3
  <1>8. PICK x \in Buffers :
            /\ IsFront(x, buf) /\ Len(x) <= Len(old)
            /\ \A i \in 1..Len(x) : x[i] = old[i]
            /\ pModuleStart(old, s[1]) = 0 \/ pModuleStart(old, s[1]) <= Len(x)
            /\ pModuleStart(old, s[1]) = 0 => x = old
    BY <1>1, <1>7, NewBufferTyped
  <1>9. g <= Len(x)
    <2> DEFINE u == pModuleStart(old, s[1])
    <2>1. u \in Nat
      BY Starts
    <2>2. CASE u = 0
      BY <1>4, <1>8, <2>2
    <2>3. CASE u > 0
      <3>1. IsModule(old, s[1], u, pModuleEnd(old, s[1]))
        BY <1>1, <2>3, ModuleIs DEF Good
      <3>2. m # s[1]
        <4>1. t \in 1..t
          BY <1>2, <1>4
        <4> QED BY <1>2, <4>1 DEF t
      <3>3. u < t \/ u > g
        BY <1>3, <3>1, <3>2, Regions
      <3>4. u <= Len(x) /\ u \notin 1..t
        BY <1>2, <1>8, <2>3
      <3>5. Len(x) \in Nat
        BY Positions
      <3> HIDE DEF u
      <3> QED BY <1>4, <2>1, <2>3, <3>3, <3>4, <3>5
    <2> QED BY <2>1, <2>2, <2>3
  <1>10. ASSUME NEW i \in 1..g, i <= Len(buf)
         PROVE  buf[i] = file[i]
    <2>1. Len(x) \in Nat
      BY Positions
    <2>2. i \in 1..Len(x) /\ i \in 1..(Len(file) - 1)
      BY <1>4, <1>6, <1>9, <2>1
    <2> QED BY <1>5, <1>8, <2>2 DEF IsFront
  <1>11. /\ f \in Buffers /\ Len(f) >= Len(file)
         /\ \A i \in 1..g : f[i] = file[i]
    <2> HIDE DEF new
    <2>1. g \in Nat /\ g < Len(file)
      BY <1>4, <1>6
    <2>2. Spares(buf, g)
      BY <1>10 DEF Spares
    <2> QED BY <1>7, <2>1, <2>2, TornIs
  <1>12. Len(f) \in Nat /\ Len(f) >= 2 /\ f # <<>>
    <2>1. Len(f) \in Nat /\ Len(f) >= 2
      BY <1>5, <1>6, <1>11, Positions
    <2>2. Len(<<>>) = 0
      OBVIOUS
    <2> QED BY <2>1, <2>2
  <1>13. /\ new \in Buffers /\ Len(new) = Len(f) - 1
         /\ \A i \in 1..(Len(f) - 1) : new[i] = f[i]
    BY <1>11, <1>12, BufferIs
  <1> HIDE DEF new
  <1>14. g <= Len(new) /\ \A i \in 1..g : new[i] = old[i]
    <2>1. /\ g <= Len(f) - 1
          /\ \A i \in 1..g : i \in 1..(Len(f) - 1) /\ i \in 1..(Len(file) - 1)
      BY <1>4, <1>6, <1>11, <1>12
    <2> QED BY <1>5, <1>11, <1>13, <2>1
  <1>15. \A k : GetCfg(new, m, k) = GetCfg(old, m, k)
    <2>1. IsModule(old, m, t, g) /\ old \in Buffers /\ new \in Buffers /\ t \in Nat /\ g \in Nat
      BY <1>3, <1>4, <1>13
    <2>2. Reaches(old, new, g)
      BY <1>14 DEF Reaches
    <2> QED BY <2>1, <2>2, AgreeOn
  <1> QED BY <1>11, <1>12, <1>15 DEF new

LEMMA TornStep ==
    ASSUME IInv, NEW p \in Procs, NEW n \in 0..Len(pNewBuffer[p]), Tear(p, n), Tears(p),
           NEW z \in Places, IsBefore(pBuffer, z[1], place[p][1])
    PROVE  GetCfg(pBuffer', z[1], z[2]) = GetCfg(pBuffer, z[1], z[2])
  <1>1. Counted /\ Content /\ TypeOK /\ Arguments /\ pc[p] = "write"
    BY DEF IInv, Counted, Tear
  <1>2. flaws = {} /\ ~Spoilt /\ base[p] = writes
    BY DEF Tears, Tear, Spoilt, IsRace
  <1>3. PICK s \in Settings : place[p] = <<s[1], s[2]>> /\ value[p] = s[3]
    BY <1>1, ArgumentIs
  <1> DEFINE buf == NewBuffer(pBuffer, s[1], s[2], s[3])
             f == Overwritten(SubSeq(Encrypted(buf), 1, n))
  <1>4. Disk /\ Good(pBuffer) /\ pNewBuffer[p] = Encrypted(buf)
    BY <1>1, <1>2, <1>3 DEF Content, Unraced
  <1>5. /\ file \in Buffers /\ writes \in Nat /\ pBuffer \in Buffers
        /\ pBuffer = BufferFrom(file, 1) /\ (file # <<>> => Len(file) >= 2)
    BY <1>1, <1>4, DiskIs DEF Disk
  <1>6. n \in Nat /\ n < Len(Encrypted(buf))
    BY <1>4 DEF Tear
  <1>7. z[1] \in Modules /\ IsBefore(pBuffer, z[1], s[1])
    BY <1>3, PlaceIs
  <1>8. file' = f /\ cut' \in CutOf(f) /\ f # <<>> /\ Last(f) = Padding
    BY <1>4 DEF Tear, Change, Tears
  <1>9. \A k : GetCfg(BufferFrom(f, 1), z[1], k) = GetCfg(pBuffer, z[1], k)
    <2> HIDE DEF buf, f
    <2>1. buf = NewBuffer(pBuffer, s[1], s[2], s[3])
      BY DEF buf
    <2>2. f = Overwritten(SubSeq(Encrypted(buf), 1, n))
      BY DEF f
    <2> QED BY <1>4, <1>5, <1>6, <1>7, <2>1, <2>2, TornAlike
  <1>10. pBuffer' = BufferFrom(f, 1)
    <2>1. cut' = 1
      BY <1>8 DEF CutOf
    <2>2. pBuffer' = BufferFrom(file', cut')
      BY DEF pBuffer, BufferFrom
    <2> QED BY <1>8, <2>1, <2>2
  <1> HIDE DEF buf, f
  <1> QED BY <1>9, <1>10

(* A write that stops anywhere, to a file without a flaw, leaves the items   *)
(* of every earlier module readable while the file's old end is there.       *)
THEOREM TornWritesSpareEarlier == Spec => TornSparesEarlier
  <1> DEFINE A == \A p \in Procs : \A s \in Places :
                    (Tears(p) /\ IsBefore(pBuffer, s[1], place[p][1])) =>
                        GetCfg(pBuffer', s[1], s[2]) = GetCfg(pBuffer, s[1], s[2])
  <1>1. IInv /\ [Next]_vars => [A]_vars
    <2> SUFFICES ASSUME IInv, [Next]_vars,
                        NEW p \in Procs, NEW s \in Places,
                        Tears(p), IsBefore(pBuffer, s[1], place[p][1])
                 PROVE  GetCfg(pBuffer', s[1], s[2]) = GetCfg(pBuffer, s[1], s[2])
      OBVIOUS
    <2>1. PICK n \in 0..Len(pNewBuffer[p]) : Tear(p, n)
      BY TearsIs
    <2> QED BY <2>1, TornStep
  <1>2. [][A]_vars => TornSparesEarlier
    BY DEF TornSparesEarlier
  <1> QED BY Invariant, <1>1, <1>2, PTL DEF Spec
=============================================================================
