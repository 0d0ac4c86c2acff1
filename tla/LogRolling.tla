------------------------------- MODULE LogRolling -------------------------------
(***************************************************************************)
(* CLogManager (core/logger/logger.cpp, without log4cxx): Log queues an    *)
(* entry, the log thread writes it to the file of the logger's appender    *)
(* and, with rolling "file_rooling", renames the files when the current    *)
(* one is full.  Everything is lost between two runs of the program but    *)
(* the files: Parse reads the state of the rolling from them.              *)
(*                                                                         *)
(* One logger with one appender, on a POSIX file system.  An entry is its  *)
(* number; the size of a file is the number of its entries.                *)
(***************************************************************************)
EXTENDS Integers, Sequences, SequencesExt

CONSTANTS
    Configs,        \* the appender configurations a run may start with
    MB,             \* how many entries a megabyte holds
    MaxMove,        \* the 1000 of OnExecute (431)
    MaxEntries,     \* bound: the entries logged
    MaxRuns         \* bound: how often the program is started

ASSUME LogRollingAssumption ==
    /\ \A c \in Configs :
        /\ c.max_file_counts \in Nat \ {0}
        /\ c.size \in Nat /\ c.unit \in {"MB", "KB", ""}
    /\ MB \in Nat \ {0}
    /\ MaxMove \in Nat \ {0}
    /\ MaxEntries \in Nat /\ MaxRuns \in Nat

VARIABLES
    file,               \* strFile is file[0], strFile.i is file[i]
    buffer,             \* what fwrite has not yet passed to file[0]
    m_lstLogEntitysTmp, m_lstLogEntitys,
    fp,                 \* the appender's file is open
    nWritedSize, nLogFileIndex, nMaxFileSize, nMaxFileCounts,
    pc,                 \* where OnExecute is
    i,                  \* its loop variable
    runs,               \* how often the program was started
    \* history
    logged,             \* the number of entries logged
    filtered,           \* the entries above the level of the logger
    queueLost,          \* the entries in the queues when the program ended
    bufferLost,         \* those in the buffer when it crashed
    removed,            \* those in files that were removed or overwritten
    early,              \* one of these files was not old enough
    rolled,             \* the files were rolled in this run
    torn                \* the program crashed while it rolled the files

appender == <<nMaxFileSize, nMaxFileCounts>>
queues == <<m_lstLogEntitysTmp, m_lstLogEntitys>>
fates == <<filtered, queueLost, bufferLost>>
rolls == <<removed, early, rolled, torn>>
vars == <<file, buffer, queues, fp, nWritedSize, nLogFileIndex, appender, pc, i, runs,
          logged, fates, rolls>>

(* down: the program does not run; idle: between two passes; entry: at the   *)
(* head of the loop (442); rm, rename: in the loops 484, 486; open: at 502;  *)
(* put: at 509.                                                              *)
PC == {"down", "idle", "entry", "rm", "rename", "open", "put"}
Rolling == {"rm", "rename", "open"}

Entries == 1..logged

TypeOK ==
    /\ DOMAIN file \subseteq Nat
    /\ \A k \in DOMAIN file : file[k] \in Seq(Entries)
    /\ buffer \in Seq(Entries)
    /\ m_lstLogEntitysTmp \in Seq(Entries)
    /\ m_lstLogEntitys \in Seq(Entries) /\ Len(m_lstLogEntitys) <= MaxMove
    /\ fp \in BOOLEAN /\ (fp => 0 \in DOMAIN file)
    /\ buffer # <<>> => fp
    /\ nWritedSize \in Nat
    /\ nLogFileIndex \in Nat
    /\ nMaxFileSize \in Nat
    /\ nMaxFileCounts \in Nat
    /\ pc \in PC
    /\ i \in Int
    /\ runs \in 0..MaxRuns
    /\ logged \in 0..MaxEntries
    /\ filtered \cup queueLost \cup bufferLost \cup removed \subseteq Entries
    /\ early \in BOOLEAN
    /\ rolled \in BOOLEAN
    /\ torn \in BOOLEAN

Init ==
    /\ file = <<>>
    /\ buffer = <<>>
    /\ m_lstLogEntitysTmp = <<>>
    /\ m_lstLogEntitys = <<>>
    /\ fp = FALSE
    /\ nWritedSize = 0
    /\ nLogFileIndex = 0
    /\ nMaxFileSize = 0
    /\ nMaxFileCounts = 0
    /\ pc = "down"
    /\ i = 0
    /\ runs = 0
    /\ logged = 0
    /\ filtered = {}
    /\ queueLost = {}
    /\ bufferLost = {}
    /\ removed = {}
    /\ early = FALSE
    /\ rolled = FALSE
    /\ torn = FALSE
-----------------------------------------------------------------------------
(* max_file_size (244-258): find("MB") is 0 only at the start of the text,   *)
(* so that every text is taken for megabytes, less its last two characters;  *)
(* of a single one substr takes nothing away.  From 2048 MB on the product   *)
(* overflows an int (248), which is left out.                                *)
FileSize(c) == (IF c.unit = "" /\ c.size > 9 THEN c.size \div 100 ELSE c.size) * MB

(* Faulty variant: the size of the file that is there is not looked at.      *)
FromZero == 0

SizeOnDisk == IF 0 \in DOMAIN file THEN Len(file[0]) ELSE 0

(* Init and Parse (223-326).  No other files are in the directory:           *)
(* os::enumerate_files finds none after one that does not match the filter.  *)
Start(c) ==
    /\ pc = "down"
    /\ runs < MaxRuns
    /\ runs' = runs + 1
    /\ nMaxFileSize' = FileSize(c)
    /\ nMaxFileCounts' = c.max_file_counts
    /\ nWritedSize' = SizeOnDisk
    /\ nLogFileIndex' = IF DOMAIN file = {} THEN 0 ELSE Cardinality(DOMAIN file) - 1
    /\ pc' = "idle"
    /\ rolled' = FALSE
    /\ UNCHANGED <<file, buffer, queues, fp, i, logged, fates, removed, early, torn>>

(* On any thread (393-425).                                                  *)
Log ==
    /\ pc # "down"
    /\ logged < MaxEntries
    /\ logged' = logged + 1
    /\ m_lstLogEntitysTmp' = Append(m_lstLogEntitysTmp, logged + 1)
    /\ UNCHANGED <<file, buffer, m_lstLogEntitys, fp, nWritedSize, nLogFileIndex,
                   appender, pc, i, runs, fates, rolls>>
-----------------------------------------------------------------------------
(* OnExecute.                                                                *)

(* Faulty variant: what is over the limit is forgotten.                      *)
Cleared(n) == <<>>

(* Faulty variant: no limit on what one pass takes.                          *)
AllTaken == Len(m_lstLogEntitysTmp)

Taken == IF Len(m_lstLogEntitysTmp) < MaxMove THEN Len(m_lstLogEntitysTmp) ELSE MaxMove

LeftBehind(n) == SubSeq(m_lstLogEntitysTmp, n + 1, Len(m_lstLogEntitysTmp))

(* 429-437.                                                                  *)
BeginPass ==
    /\ pc = "idle"
    /\ m_lstLogEntitysTmp # <<>>
    /\ LET n == Taken
       IN  /\ m_lstLogEntitys' = SubSeq(m_lstLogEntitysTmp, 1, n)
           /\ m_lstLogEntitysTmp' = LeftBehind(n)
    /\ pc' = "entry"
    /\ UNCHANGED <<file, buffer, fp, nWritedSize, nLogFileIndex, appender, i, runs,
                   logged, fates, rolls>>

FirstRemoved == nMaxFileCounts - 1

(* 481-483: the file is full and closed.                                     *)
BeginRoll ==
    /\ pc = "entry"
    /\ m_lstLogEntitys # <<>>
    /\ nWritedSize >= nMaxFileSize
    /\ file' = IF fp THEN [file EXCEPT ![0] = @ \o buffer] ELSE file
    /\ buffer' = <<>>
    /\ fp' = FALSE
    /\ i' = FirstRemoved
    /\ pc' = "rm"
    /\ UNCHANGED <<queues, nWritedSize, nLogFileIndex, appender, runs, logged, fates, rolls>>

NoRoll ==
    /\ pc = "entry"
    /\ m_lstLogEntitys # <<>>
    /\ nWritedSize < nMaxFileSize
    /\ pc' = IF fp THEN "put" ELSE "open"
    /\ UNCHANGED <<file, buffer, queues, fp, nWritedSize, nLogFileIndex, appender, i, runs,
                   logged, fates, rolls>>

Newer(k) == {j \in DOMAIN file : j < k}

(* The file k is removed or overwritten, if it is there.                     *)
Removes(k) ==
    LET old == IF k \in DOMAIN file THEN file[k] ELSE <<>>
    IN  /\ removed' = removed \cup ToSet(old)
        /\ early' = (early \/ (old # <<>> /\ Cardinality(Newer(k)) < nMaxFileCounts - 1))
        /\ UNCHANGED <<rolled, torn>>

(* 484-485.                                                                  *)
RemoveOld ==
    /\ pc = "rm"
    /\ IF i <= nLogFileIndex
       THEN /\ IF i = 0 THEN UNCHANGED <<file, rolls>>  \* strFile.0 is never there
               ELSE /\ file' = Restrict(file, DOMAIN file \ {i})
                    /\ Removes(i)
            /\ i' = i + 1
            /\ pc' = pc
       ELSE /\ i' = nLogFileIndex
            /\ pc' = "rename"
            /\ UNCHANGED <<file, rolls>>
    /\ UNCHANGED <<buffer, queues, fp, nWritedSize, nLogFileIndex, appender, runs, logged,
                   fates>>

(* Faulty variant: the loop runs upwards.                                    *)
Upwards == nLogFileIndex - i

Downwards == i

(* 486-494: the file k becomes k + 1, and a file of that number goes.        *)
Rename ==
    /\ pc = "rename"
    /\ i >= 0
    /\ LET k == Downwards
       IN  IF k \in DOMAIN file
           THEN /\ file' = [j \in (DOMAIN file \ {k}) \cup {k + 1} |->
                                IF j = k + 1 THEN file[k] ELSE file[j]]
                /\ Removes(k + 1)
           ELSE UNCHANGED <<file, rolls>>
    /\ i' = i - 1
    /\ UNCHANGED <<buffer, queues, fp, nWritedSize, nLogFileIndex, appender, pc, runs,
                   logged, fates>>

NextIndex ==
    IF nLogFileIndex + 1 < nMaxFileCounts - 1 THEN nLogFileIndex + 1 ELSE nMaxFileCounts - 1

(* 495-497.                                                                  *)
EndRoll ==
    /\ pc = "rename"
    /\ i < 0
    /\ nLogFileIndex' = NextIndex
    /\ nWritedSize' = 0
    /\ rolled' = TRUE
    /\ pc' = "open"
    /\ UNCHANGED <<file, buffer, queues, fp, appender, i, runs, logged, fates, removed,
                   early, torn>>

(* 502-503.                                                                  *)
Open ==
    /\ pc = "open"
    /\ file' = [j \in DOMAIN file \cup {0} |-> IF j \in DOMAIN file THEN file[j] ELSE <<>>]
    /\ fp' = TRUE
    /\ pc' = "put"
    /\ UNCHANGED <<buffer, queues, nWritedSize, nLogFileIndex, appender, i, runs, logged,
                   fates, rolls>>

(* Faulty variant: the written entry is erased at the other end of the list. *)
LastErased == SubSeq(m_lstLogEntitys, 1, Len(m_lstLogEntitys) - 1)

Rest == Tail(m_lstLogEntitys)

(* 509-541: the entry is written if the level of the logger, which           *)
(* SetLogLevel may have changed since, lets it through.                      *)
Put ==
    /\ pc = "put"
    /\ \/ /\ buffer' = Append(buffer, Head(m_lstLogEntitys))
          /\ nWritedSize' = nWritedSize + 1
          /\ UNCHANGED filtered
       \/ /\ filtered' = filtered \cup {Head(m_lstLogEntitys)}
          /\ UNCHANGED <<buffer, nWritedSize>>
    /\ m_lstLogEntitys' = Rest
    /\ pc' = "entry"
    /\ UNCHANGED <<file, m_lstLogEntitysTmp, fp, nLogFileIndex, appender, i, runs, logged,
                   queueLost, bufferLost, rolls>>

EndPass ==
    /\ pc = "entry"
    /\ m_lstLogEntitys = <<>>
    /\ pc' = "idle"
    /\ UNCHANGED <<file, buffer, queues, fp, nWritedSize, nLogFileIndex, appender, i, runs,
                   logged, fates, rolls>>
-----------------------------------------------------------------------------
(* The program ends: k entries of the buffer reach the file, the queues are  *)
(* lost.                                                                     *)
Ends(k) ==
    /\ file' = IF fp THEN [file EXCEPT ![0] = @ \o SubSeq(buffer, 1, k)] ELSE file
    /\ bufferLost' = bufferLost \cup ToSet(SubSeq(buffer, k + 1, Len(buffer)))
    /\ queueLost' = queueLost \cup ToSet(m_lstLogEntitysTmp) \cup ToSet(m_lstLogEntitys)
    /\ buffer' = <<>>
    /\ m_lstLogEntitysTmp' = <<>>
    /\ m_lstLogEntitys' = <<>>
    /\ fp' = FALSE
    /\ pc' = "down"
    /\ UNCHANGED <<nWritedSize, nLogFileIndex, appender, i, runs, logged, filtered,
                   removed, early, rolled>>

(* DestroyLogger closes the appenders of the map, which no logger writes to; *)
(* the destructor of the static log manager stops its thread, which leaves   *)
(* the queue, and exit() writes the buffer.                                  *)
Exit ==
    /\ pc = "idle"
    /\ Ends(Len(buffer))
    /\ UNCHANGED torn

(* A crash, or a kill.                                                       *)
Crash ==
    /\ pc # "down"
    /\ \E k \in 0..Len(buffer) : Ends(k)
    /\ torn' = (torn \/ pc \in Rolling)
-----------------------------------------------------------------------------
Next ==
    \/ \E c \in Configs : Start(c)
    \/ Log
    \/ BeginPass
    \/ BeginRoll
    \/ NoRoll
    \/ RemoveOld
    \/ Rename
    \/ EndRoll
    \/ Open
    \/ Put
    \/ EndPass
    \/ Exit
    \/ Crash

Spec == Init /\ [][Next]_vars
-----------------------------------------------------------------------------
Filed == UNION {ToSet(file[k]) : k \in DOMAIN file}
Pipeline == Filed \cup ToSet(buffer) \cup ToSet(m_lstLogEntitys) \cup ToSet(m_lstLogEntitysTmp)

Ascending(s) == \A a, b \in DOMAIN s : a < b => s[a] < s[b]
Precede(S, T) == \A x \in S, y \in T : x < y

(* Entries appear in the order they were logged, over all files and over     *)
(* restarts and crashes: no file holds an entry older than one of a file     *)
(* with a higher number, and what is in a file is older than what is in the  *)
(* buffer or a queue.                                                        *)
EntriesInOrder ==
    /\ \A k \in DOMAIN file :
        /\ Ascending(file[k])
        /\ \A j \in DOMAIN file : k < j => Precede(ToSet(file[j]), ToSet(file[k]))
    /\ Ascending(buffer) /\ Ascending(m_lstLogEntitys) /\ Ascending(m_lstLogEntitysTmp)
    /\ Precede(Filed, ToSet(buffer) \cup ToSet(m_lstLogEntitys) \cup ToSet(m_lstLogEntitysTmp))
    /\ Precede(ToSet(buffer), ToSet(m_lstLogEntitys) \cup ToSet(m_lstLogEntitysTmp))
    /\ Precede(ToSet(m_lstLogEntitys), ToSet(m_lstLogEntitysTmp))

(* Every entry logged is queued, in a file, above the level, in a file that  *)
(* was removed, or was lost with the queue or the buffer when the program    *)
(* ended, and in one of these places only: a limit on what one pass takes    *)
(* loses nothing.  That rename, fopen and fwrite do what they are called for *)
(* is taken as given: the code looks for no failure (489-493, 503, 538).     *)
NothingElseLost ==
    LET places == <<filtered, queueLost, bufferLost, removed, Pipeline>>
    IN  /\ UNION {places[a] : a \in 1..5} = Entries
        /\ \A a, b \in 1..5 : a # b => places[a] \cap places[b] = {}

(* A file that has reached the size of every configuration gets no further   *)
(* entry, though the size is counted by the writer, over restarts; an empty  *)
(* file gets one whatever the configuration.  And logger.h:43, "max backup   *)
(* file counts": after a roll there are no more files than configured, the   *)
(* current one included, though an earlier run kept more; but a current file *)
(* that is full becomes a backup even when one file is configured, and a     *)
(* crash in the middle of a roll can leave a backup that no later run        *)
(* removes.                                                                  *)
FilesBounded ==
    /\ \A k \in DOMAIN file :
        LET size == IF k = 0 THEN Len(file[0]) + Len(buffer) ELSE Len(file[k])
        IN  size <= 1 \/ \E c \in Configs : size <= FileSize(c)
    /\ rolled /\ pc \notin Rolling /\ ~torn =>
           Cardinality(DOMAIN file \ {0}) <= (IF nMaxFileCounts = 1 THEN 1 ELSE nMaxFileCounts - 1)

(* A file is removed or overwritten only when as many newer ones are there   *)
(* as are to be kept, unless the program once crashed in the middle of a     *)
(* roll: then Parse counts the files and gets an index that is too low.      *)
KeptUnlessTorn == early => torn
=============================================================================
