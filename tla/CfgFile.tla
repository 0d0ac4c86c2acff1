-------------------------------- MODULE CfgFile --------------------------------
(***************************************************************************)
(* CCfgHandler (utils/cfghandler.cpp): a file of modules with items, which *)
(* SetCfg reads, decrypts, changes, encrypts and writes over itself, and   *)
(* in which GetCfg and LoadCfg search for flags.  Within a process         *)
(* m_mtxLock makes the calls one after the other; the actors are processes *)
(* that use the same file, an application and cfgtool.                     *)
(*                                                                         *)
(* The unit is the block of the cipher.  Every header, every flag at an    *)
(* end and every piece of a value takes a block.  DES in CBC mode with one *)
(* key and one IV maps plain to cipher block by block, each depending on   *)
(* all before it, and back on two neighbours only.  So the file is given   *)
(* here by the blocks that decrypting it yields.                           *)
(***************************************************************************)
EXTENDS Integers, Sequences, SequencesExt

CONSTANTS
    Procs,
    Settings,   \* what may be set: a module, a key and a value, which is a sequence of blocks
    Cuts,       \* how many blocks a byte that is no padding makes crypto_unpadding drop
    MaxSets,    \* bound: the calls of SetCfg
    MaxSpoilt,  \* bound: the same when the file has a flaw
    None

Block(flag, name, len) == [flag |-> flag, name |-> name, len |-> len]

MODULE_BEGIN(m) == Block("module begin", m, 0)
ITEM_BEGIN(k, len) == Block("item begin", k, len)   \* with the type and the length of the value
ITEM_END == Block("item end", "", 0)
MODULE_END == Block("module end", "", 0)
Padding == Block("padding", "", 0)
Garbage(n) == Block("garbage", "", n)   \* no two are equal, none looks like a flag
Data(v) == Block("data", v, 0)

(* A value is any bytes (427), so any flag may be among them.                *)
ValueFlags == {"data", "module begin", "item begin", "item end", "module end"}
Flags == {"padding", "garbage"} \cup ValueFlags
Names == {""} \cup UNION {{s[1], s[2]} \cup {s[3][i].name : i \in DOMAIN s[3]} : s \in Settings}
Blocks == [flag : Flags, name : Names, len : Int]

Places == {<<s[1], s[2]>> : s \in Settings}
Values == {s[3] : s \in Settings}

ASSUME CfgFileAssumption ==
    /\ \A s \in Settings : Len(s) = 3 /\ s[3] \in Seq({b \in Blocks : b.flag \in ValueFlags})
    /\ Cuts \subseteq Nat
    /\ MaxSets \in Nat /\ MaxSpoilt \in 0..MaxSets
    /\ None \notin Values

VARIABLES
    exists, file,
    cut,            \* the blocks that crypto_unpadding drops
    pc,
    pNewBuffer,     \* what SetCfg of a process is to write
    place, value,   \* its arguments
    sets, writes,   \* counters of SetCfg and of changes of the file
    \* history
    base,           \* writes when the process looked at the file
    settings,       \* what was set last
    flaws           \* what has happened that spoils a file

args == <<place, value, sets>>
vars == <<exists, file, cut, pc, pNewBuffer, args, writes, base, settings, flaws>>

PC == {"idle", "open", "create", "write", "thrown"}

(* raced: a process wrote what it had read before another wrote; torn: only  *)
(* the first blocks of a write reached the file; shorter: the file was one   *)
(* block longer than what was written; begun: a value holds the begin of an  *)
(* item or a module; framed: it holds FLAG_ITEM_END and FLAG_MODULE_END;     *)
(* ended: it holds FLAG_MODULE_END.                                          *)
Flaws == {"raced", "torn", "shorter", "begun", "framed", "ended"}

TypeOK ==
    /\ exists \in BOOLEAN
    /\ file # <<>> => exists
    /\ file \in Seq(Blocks)
    /\ cut \in Cuts \cup {1}
    /\ pc \in [Procs -> PC]
    /\ pNewBuffer \in [Procs -> Seq(Blocks)]
    /\ place \in [Procs -> Places \cup {None}]
    /\ value \in [Procs -> Values \cup {None}]
    /\ sets \in 0..MaxSets
    /\ writes \in 0..2 * sets
    /\ base \in [Procs -> 0..writes]
    /\ settings \in [Places -> Values \cup {None}]
    /\ flaws \subseteq Flaws

Init ==
    /\ exists = FALSE
    /\ file = <<>>
    /\ cut = 1
    /\ pc = [p \in Procs |-> "idle"]
    /\ pNewBuffer = [p \in Procs |-> <<>>]
    /\ place = [p \in Procs |-> None]
    /\ value = [p \in Procs |-> None]
    /\ sets = 0
    /\ writes = 0
    /\ base = [p \in Procs |-> 0]
    /\ settings = [s \in Places |-> None]
    /\ flaws = {}
-----------------------------------------------------------------------------
(* Searching a buffer: positions, 0 for a null pointer.                      *)

First(S) == IF S = {} THEN 0 ELSE CHOOSE i \in S : \A j \in S : i <= j

pModuleStart(buf, m) == First({i \in DOMAIN buf : buf[i] = MODULE_BEGIN(m)})

pModuleEnd(buf, m) ==
    First({i \in pModuleStart(buf, m) + 2..Len(buf) :
            buf[i] = MODULE_END /\ buf[i - 1] = ITEM_END})

InModule(buf, m) == pModuleStart(buf, m) + 1..pModuleEnd(buf, m) - 1

pKeyStart(buf, m, k) ==
    First({i \in InModule(buf, m) : buf[i].flag = "item begin" /\ buf[i].name = k})

(* Faulty variant: the item ends where the module does.                      *)
LastEnd(buf, m, k) == pModuleEnd(buf, m) - 1

pKeyEnd(buf, m, k) ==
    First({i \in pKeyStart(buf, m, k) + 1..pModuleEnd(buf, m) - 1 : buf[i] = ITEM_END})

GetPointer(buf, m, k) ==
    IF pModuleStart(buf, m) = 0 THEN "MODULE_NOT_EXIST"
    ELSE IF pModuleEnd(buf, m) = 0 THEN "INVALID_MODULE"
    ELSE IF pKeyStart(buf, m, k) = 0 THEN "KEY_NOT_EXIST"
    ELSE "OK"

(* The value of the item at i; its length is believed.                       *)
ValueAt(buf, i) == SubSeq(buf, i + 1, i + buf[i].len)

GetCfg(buf, m, k) ==
    IF GetPointer(buf, m, k) = "OK" THEN ValueAt(buf, pKeyStart(buf, m, k)) ELSE None

(* LoadCfg goes from a module's begin to the next FLAG_MODULE_END and on to  *)
(* the next begin, and likewise over the items between: a begin counts when  *)
(* there is none between it and the last end before it.                      *)
Counts(buf, i, begin, end) ==
    /\ buf[i].flag = begin
    /\ \E j \in i + 1..Len(buf) : buf[j] = end
    /\ \A j \in 1..i - 1 : buf[j].flag = begin => \E e \in j + 1..i - 1 : buf[e] = end

ModuleAt(buf, i) ==     \* 0 when the position is in no module that counts
    First({b \in 1..i - 1 : /\ Counts(buf, b, "module begin", MODULE_END)
                            /\ \A j \in b..i : buf[j] # MODULE_END})

Listed(buf) ==
    {i \in DOMAIN buf :
        /\ buf[i].flag = "item begin"
        /\ LET b == ModuleAt(buf, i)
               rest == SubSeq(buf, b + 1, First({e \in i..Len(buf) : buf[e] = MODULE_END}) - 1)
           IN b > 0 /\ Counts(rest, i - b, "item begin", ITEM_END)}

LoadCfg(buf, m, k) ==       \* the first that is listed for m and k
    LET at == First({i \in Listed(buf) :
                        buf[ModuleAt(buf, i)].name = m /\ buf[i].name = k})
    IN IF at = 0 THEN None ELSE ValueAt(buf, at)
-----------------------------------------------------------------------------
(* Reading and writing.                                                      *)

(* crypto_unpadding takes a length off that may be greater than the buffer,  *)
(* and the string assigned of it throws.                                     *)
Throws == file # <<>> /\ cut > Len(file)

(* GetHandler: when nothing is left the raw file is taken.                   *)
pBuffer ==
    IF cut = Len(file) THEN [i \in 1..Len(file) |-> Garbage(-i)]
    ELSE SubSeq(file, 1, Len(file) - cut)

Item(k, v) == <<ITEM_BEGIN(k, Len(v))>> \o v

(* Faulty variant: every value goes to the front, in a module of its own.    *)
NewModuleFirst(buf, m, k, v) ==
    <<MODULE_BEGIN(m)>> \o Item(k, v) \o <<ITEM_END, MODULE_END>> \o buf

NewBuffer(buf, m, k, v) ==
    CASE GetPointer(buf, m, k) = "OK" ->
            SubSeq(buf, 1, pKeyStart(buf, m, k) - 1) \o Item(k, v)
                \o SubSeq(buf, pKeyEnd(buf, m, k), Len(buf))
      [] GetPointer(buf, m, k) = "MODULE_NOT_EXIST" ->
            buf \o <<MODULE_BEGIN(m)>> \o Item(k, v) \o <<ITEM_END, MODULE_END>>
      [] GetPointer(buf, m, k) = "KEY_NOT_EXIST" ->
            SubSeq(buf, 1, pModuleEnd(buf, m) - 1) \o Item(k, v) \o <<ITEM_END>>
                \o SubSeq(buf, pModuleEnd(buf, m), Len(buf))
      [] OTHER -> <<>>

Encrypted(buf) == IF buf = <<>> THEN <<>> ELSE Append(buf, Padding)

(* The first blocks of the file are overwritten and the rest stays (359):    *)
(* the block behind them decrypts to something else.                         *)
Overwritten(blocks) ==
    LET n == Len(blocks)
    IN IF n >= Len(file) \/ blocks = SubSeq(file, 1, n)
       THEN blocks \o SubSeq(file, n + 1, Len(file))
       ELSE Append(blocks, Garbage(writes)) \o SubSeq(file, n + 2, Len(file))

CutOf(blocks) ==
    IF blocks = <<>> \/ Last(blocks) = Padding THEN {1}
    ELSE IF file # <<>> /\ Last(blocks) = Last(file) THEN {cut}
    ELSE Cuts

(* The file gets other blocks, by a process that looked at it after `base`   *)
(* writes.                                                                   *)
Change(p, blocks) ==
    /\ file' = blocks
    /\ cut' \in CutOf(blocks)
    /\ writes' = writes + 1

IsRace(p) == IF base[p] # writes THEN {"raced"} ELSE {}

IsShorter(p) == IF Len(file) = Len(pNewBuffer[p]) + 1 THEN {"shorter"} ELSE {}

FlagsIn(v) ==
    {f \in {"begun"} : \E i \in DOMAIN v : v[i].flag \in {"module begin", "item begin"}}
    \cup {f \in {"framed"} : \E i \in 2..Len(v) : v[i - 1] = ITEM_END /\ v[i] = MODULE_END}
    \cup {f \in {"ended"} : \E i \in DOMAIN v : v[i] = MODULE_END}
-----------------------------------------------------------------------------
(* SetCfg of a process.                                                      *)

(* Faulty variant: the call starts again where it should return.             *)
StartAgain(p) ==
    /\ pc' = [pc EXCEPT ![p] = "open"]
    /\ UNCHANGED <<exists, pNewBuffer, place, value, sets, base>>

(* The call returns, and its locals end.                                     *)
Return(p) ==
    /\ pc' = [pc EXCEPT ![p] = "idle"]
    /\ pNewBuffer' = [pNewBuffer EXCEPT ![p] = <<>>]
    /\ place' = [place EXCEPT ![p] = None]
    /\ value' = [value EXCEPT ![p] = None]
    /\ base' = [base EXCEPT ![p] = 0]
    /\ UNCHANGED <<exists, sets>>

SetCfg(p, s) ==
    /\ pc[p] = "idle"
    /\ sets < IF flaws = {} THEN MaxSets ELSE MaxSpoilt
    /\ sets' = sets + 1
    /\ place' = [place EXCEPT ![p] = <<s[1], s[2]>>]
    /\ value' = [value EXCEPT ![p] = s[3]]
    /\ base' = [base EXCEPT ![p] = writes]
    /\ pc' = [pc EXCEPT ![p] = IF exists THEN "open" ELSE "create"]
    /\ UNCHANGED <<exists, file, cut, pNewBuffer, writes, settings, flaws>>

(* 214: "wb+" empties a file that another process made in the meantime.      *)
Create(p) ==
    /\ pc[p] = "create"
    /\ exists' = TRUE
    /\ Change(p, <<>>)
    /\ flaws' = flaws \cup IsRace(p)
    /\ base' = [base EXCEPT ![p] = writes']
    /\ pNewBuffer' = [pNewBuffer EXCEPT ![p] =
                        Encrypted(NewBuffer(<<>>, place[p][1], place[p][2], value[p]))]
    /\ pc' = [pc EXCEPT ![p] = "write"]
    /\ UNCHANGED <<args, settings>>

(* 34-88, and the new buffer.                                                *)
Read(p) ==
    /\ pc[p] = "open"
    /\ ~Throws
    /\ base' = [base EXCEPT ![p] = writes]
    /\ pNewBuffer' = [pNewBuffer EXCEPT ![p] =
                        Encrypted(NewBuffer(pBuffer, place[p][1], place[p][2], value[p]))]
    /\ pc' = [pc EXCEPT ![p] = "write"]
    /\ UNCHANGED <<exists, file, cut, args, writes, settings, flaws>>

(* The exception leaves SetCfg with m_mtxLock held.                          *)
ReadThrows(p) ==
    /\ pc[p] = "open"
    /\ Throws
    /\ pc' = [pc EXCEPT ![p] = "thrown"]
    /\ UNCHANGED <<exists, file, cut, pNewBuffer, args, writes, base, settings, flaws>>

(* OPEN_FILE_FAIL.                                                           *)
OpenFails(p) ==
    /\ pc[p] \in {"open", "create"}
    /\ Return(p)
    /\ UNCHANGED <<file, cut, writes, settings, flaws>>

(* A buffer of no bytes is what is left of an INVALID_MODULE: nothing is     *)
(* written, WRITE_FILE_FAIL.                                                 *)
WriteNothing(p) ==
    /\ pc[p] = "write"
    /\ pNewBuffer[p] = <<>>
    /\ Return(p)
    /\ UNCHANGED <<file, cut, writes, settings, flaws>>

Write(p) ==
    /\ pc[p] = "write"
    /\ pNewBuffer[p] # <<>>
    /\ Change(p, Overwritten(pNewBuffer[p]))
    /\ flaws' = flaws \cup IsRace(p) \cup IsShorter(p) \cup FlagsIn(value[p])
    /\ settings' = [settings EXCEPT ![place[p]] = value[p]]
    /\ Return(p)

(* The process dies or the disk is full, after n blocks.                     *)
Tear(p, n) ==
    /\ pc[p] = "write"
    /\ n < Len(pNewBuffer[p])
    /\ Change(p, Overwritten(SubSeq(pNewBuffer[p], 1, n)))
    /\ flaws' = flaws \cup IsRace(p) \cup {"torn"}
    /\ Return(p)
    /\ UNCHANGED settings

Step(p) ==
    \/ Create(p)
    \/ Read(p)
    \/ ReadThrows(p)
    \/ OpenFails(p)
    \/ WriteNothing(p)
    \/ Write(p)

Next == \E p \in Procs :
    \/ \E s \in Settings : SetCfg(p, s)
    \/ Step(p)
    \/ \E n \in 0..Len(pNewBuffer[p]) : Tear(p, n)

Spec == Init /\ [][Next]_vars
-----------------------------------------------------------------------------
(* What is read is what was set last, item by item (cfghandler.h:56-69),     *)
(* over rewritings to longer and shorter values and whatever they leave at   *)
(* the end of the file.  Not so after a write that raced or was torn, after  *)
(* a write one block shorter than the file, since the last block is then no  *)
(* padding, with a value that frames a module's end, and with a value that   *)
(* holds the begin of an item or a module, which the searches (112-121,      *)
(* 141-150) take for one when its name is the one they look for.             *)
(* LoadCfg lists every item, and the first it lists for a module and a key   *)
(* is the one GetCfg finds, although what is left of longer contents is      *)
(* listed behind it.  A value that holds FLAG_MODULE_END hides the rest of   *)
(* its module from LoadCfg, which looks for that flag only (477).            *)
ReadsBack ==
    /\ flaws \cap {"raced", "torn", "shorter", "begun", "framed"} = {} =>
          ~Throws /\ \A s \in Places : GetCfg(pBuffer, s[1], s[2]) = settings[s]
    /\ flaws = {} => \A s \in Places : LoadCfg(pBuffer, s[1], s[2]) = settings[s]

(* Module m is in a buffer, and n is behind it or not there yet.             *)
IsBefore(buf, m, n) ==
    pModuleStart(buf, m) > 0 /\ pModuleStart(buf, n) \notin 1..pModuleStart(buf, m)

(* p has begun its write to a file without a flaw, and only the first blocks *)
(* of it arrive; the file still ends as it did.                              *)
Tears(p) ==
    /\ pc[p] = "write" /\ pc'[p] = "idle"
    /\ flaws = {} /\ flaws' = {"torn"}
    /\ file' # <<>> /\ Last(file') = Padding

(* A torn write spoils nothing in the modules before the one it was to       *)
(* change, as long as the old end of the file is still there; the value that *)
(* is being written may hold any flag, those in the file no more than        *)
(* FLAG_ITEM_END.                                                            *)
TornSparesEarlier ==
    [][\A p \in Procs : \A s \in Places :
        (Tears(p) /\ IsBefore(pBuffer, s[1], place[p][1])) =>
            GetCfg(pBuffer', s[1], s[2]) = GetCfg(pBuffer, s[1], s[2])]_vars
=============================================================================
