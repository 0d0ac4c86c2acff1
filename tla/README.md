# lslib in TLA+

lslib is a C++ utility library for Windows and Linux: threads with message
queues, a pool of worker threads for tasks, a task manager on top of it, a
logger with its own thread, a file of encrypted settings, an HTTP client over
libcurl, and wrappers for time, strings, files, ciphers and archives.  This
directory specifies the parts of it that have state worth checking, above all
the ones several threads use at once.  Paths and line numbers are those of
`src/` at the commit beside this directory.

Contents: [the system](#1-the-system), [the modules](#2-the-modules),
[runs](#3-runs-and-what-they-show), [bounds](#4-bounds),
[fairness](#5-fairness), [proofs](#6-proofs),
[disagreements found](#7-disagreements-found),
[not modelled](#8-not-modelled), [plan](#9-plan).

## 1. The system

The library's own code is in `src/libls/src` (`core/` and `utils/`); `cfgtool`
and `cryptotool` are two small programs over it.  Everything under
`libls/3rd-party`, `core/zip/zipunzip`, `core/zip/miniz`, the digests and
ciphers in `core/crypto/*.c`, jsoncpp and tinyxml is third-party code.

```
   application
     |  Invoke             ^ message with the STask*
     v                     |
  CTaskManager (CThread) --+---- subscribers (CThread, HWND)
     |  RunTask            ^ PostMessage
     v                     |
  CTaskAgent (CIdleThread) x 1..16             application
     |                                           |  RunTask, CancelTask
     |                                           v
     |                                  CIdleThreadManager (CThread)
     |                                           |  RunTask, CancelTask
     |                                           v      ^ WM_TASK_FINISH
     |                                  CIdleThread x 1..5 --- handler, callback
     |                                           |
  CThread: m_mapMsgs, m_eThreadState, m_conPause |      CLogManager (CThread)
     |                                           |        |  files
  CMutexLock, Time, strtool, os  ----------------+--------+
```

| component | state | operations | what is hard | what makes it correct |
|---|---|---|---|---|
| CThread `core/thread/thread.*` | messages by level, thread state, pause condition | PostMessage, PostMessageDelay, SendMessage, Suspend, Resume, Stop, the loop of Execute | posters, owner and worker interleave; the state has no lock; delays; two ways to stop | messages served by level and age, none lost or early, Stop returns, Suspend holds |
| CMutexLock `core/lock/lock.*` | a mutex, recursive on Windows only | Lock, Unlock, CAutoLock | a second Lock of the holder | used by the components above it |
| CIdleThread `core/thread/idle_thread.*` 1-476 | two task lists, a lock each, the retry map | RunTask, IsTaskExist, CancelTask, OnExecute, RetryCBNotify, destructor | iterators and flags kept over an unlock, handlers that call back, a list changed under two different locks | order, no task lost or run twice, callbacks delivered, every task ends |
| CIdleThreadManager `idle_thread.*` 479-647 | the threads, map from task to thread, last index | RunTask, CancelTask, WM_TASK_FINISH | unlocked index shared by all managers; finish before insertion; lock order with a thread's lock | the map agrees with where a task is, and does not grow for ever |
| CTaskManager, CTaskAgent `core/task/*` | task, retry and trash lists, work mapping, subscribers | Invoke, DealTask, DealRetryTask, DealMemClean, HandleMessage, Notice, Register/UnRegisterCallBack | three containers searched one by one, one without a lock; tasks shared with subscribers | a task in one container, answered once, freed once and after its last use |
| CLogManager `core/logger/*` | two entry queues, per logger file and index | Init, Log, OnExecute, Destroy | rolling by size and by day; the same file in two loggers; the rest of the queue at the end | entries in order, no more files than configured, none overwritten |
| CCfgHandler `utils/cfghandler.*` | an encrypted file of modules and items, a lock of the process | SetCfg, GetCfg*, LoadCfg | rewriting in place without truncating, under a chained cipher; crash in the middle; two processes; flags inside values | what was set is read back, by key and in the list, everything else unchanged |
| CHttpClient `core/net/*` | shared curl handle, the file of a download | Init, Get, Post, DownloadFile, UploadFile | retries into one file, servers without ranges, first use by several threads | the file is the resource, attempts as documented |
| Time `core/time/*` | a moment per object; the buffer of localtime, one for all threads | FromStr, setters, Add, Decrease, Between, comparison | ends of months and years, signs, normalising between two fields, the shared buffer | a date is read as it stands, spans are what was asked for |
| strings, os, math, crypto, zip, json, xml, process, registry, command line | none | pure functions and wrappers | boundaries of the pure functions | a reference definition each |

`PROJECT.json` lists the same components with their sources, and every hazard
at its line with the properties that cover it or the reason none does.

## 2. The modules

| module | what it is |
|---|---|
| `Messages` | the messages of a CThread, when one is due, which goes first |
| `Mailbox` | what a CThread promises: a set of pending messages and the order they are taken in |
| `Thread` | CThread on POSIX threads: lists, worker, owner, posters; implements `Mailbox` |
| `IdleThread` | CIdleThread, both builds: callers, handler, two lists and two mutexes |
| `IdleThreadManager` | the pool: choice of a thread, map, handlers that call back, destructor (POSIX build) |
| `TaskManager` | CTaskManager and its agents: Invoke, the manager's thread, subscribers |
| `LogRolling` | CLogManager: entry queues, files and their renaming, restarts and crashes |
| `HttpClient` | CHttpClient: DownloadFile with the resuming of a file, the attempts of Perform |
| `CfgFile` | CCfgHandler: the file of settings, SetCfg of several processes, what GetCfg and LoadCfg find |
| `Calendar` | localtime and mktime of the C library, for a zone without summer time |
| `TimeObjects` | class Time: a time in each thread and the buffer of localtime they share |
| `MCThread`, `MCIdleThread`, `MCIdleThreadManager`, `MCTaskManager`, `MCLogRolling`, `MCHttpClient`, `MCCfgFile`, `MCTimeObjects` | the small instances of the eight |
| `Lists` | a list without the elements of a set, and one that has elements at most once |
| `BasicLemmas` | least and greatest elements, division, `RemoveAt`, `Without`, prefixes, the elements of lists |
| `ThreadProofs`, `IdleThreadProofs`, `IdleThreadManagerProofs`, `TaskManagerProofs`, `LogRollingProofs`, `CfgFileProofs` | theorems about the module of that name; those of `Mailbox` are in `ThreadProofs` |
| `TimeAndClientProofs` | lemmas about `Calendar`, theorems about `TimeObjects` and `HttpClient`: the client times its calls with Time objects (httpclient.cpp:269, 289), and the names of the two modules differ |

### Thread

State and code: `m_mapMsgs`, `m_eThreadState` are the members of that name
(thread.h:101-103); `worker` is the program counter of `Execute` (thread.cpp
221-261), `owner` that of the owner's constructor, Suspend, Resume, Stop or
destructor, `draft[p]` the message a poster has stamped in PostMessageDelay and
not pushed.  `cancelled` is the pending pthread_cancel.  `taken` and
`sinceSuspend` are history.

What is a step: a call that holds `m_mutexMsgs` from its first to its last
access of `m_mapMsgs` is one (PostMessage, GetMessage).  Everything the code
does without that lock is split: the time stamp of PostMessageDelay and its
push; the test of the state, the wait and the wake-up; the store and the signal
in Resume; the two branches of Stop.  The worker runs already while the
constructor `CThread(true)` has still to call Suspend, so `Init` has an owner
that is "created" beside one that is "idle".  pthread_cond_wait may wake up
for nothing.  A cancelled thread ends at a cancellation point only.  The
handler may post to its own thread.

Abstracted: the parameters of a message are its `id`, the position of its push;
the sleep between rounds has no length; the clock is the wall clock in ticks,
finer than the seconds of Time::CurrentTimeStamp(), and does not go back.

### IdleThread

State and code: the two lists and mutexes are the members (idle_thread.h
122-127), `wpc`, `it`, `pTask`, `bPostRet`, `bDelete` the program counter and
locals of OnExecute (idle_thread.cpp 144-246), `cpc`, `ctask`, `csel` those of
a RunTask or CancelTask call of each thread, of the worker too, whose handler
may call its own thread.  A section of a mutex that calls nothing is one step.
`m_mutexTasks` is held over a handler, and by IsTaskExist and CancelTask while
they walk m_lstTasks, where the worker's push_back at line 153, which another
mutex guards, can meet them: both mutexes are kept with their holder, recursive
when `MSVC` and not otherwise.  RunTask is not over with its push: it reads the
task once more for a log line (308), which is a step of its own (`DumpTask`).
The constructor makes a suspended thread and resumes it (97-100); with pthreads
this Resume can be lost (section 7), so that in `Init` the worker is "asleep" or
about to begin.

Where the program has no defined effect (an iterator to an erased node, a
deleted task, a list changed by one thread while another walks it) `GoesWrong` sets
`undefined` and nothing moves after it.  The properties say when this can
happen, and hold in every state before it.

Abstracted: a task is a model value with its type, flags and callback as
constants; "equal" is a relation, which stands for the compare functions; what a
CancelTask selects is a set out of `Selections`, and erasing it leaves
`Without(list, set)`, a recursive function of `Lists`; the 10 ms between two passes of
RetryCBNotify are left to chance.  Each task object is submitted once.  What
the worker reads of a list without a lock, size() at 149 and begin() at 160,
is one read of one word.

### IdleThreadManager

State and code: `m_mapTaskThreadMap`, its mutex with its holder, and the index
`s_nLastThreadIndex`, a static of the function and so shared by all pools of a
process, are those of idle_thread.cpp 479-647; of each thread it has the two
lists and whether its handler runs.  `call[a]` is the RunTask or CancelTask of
one actor, which is an application thread or the handler of an idle thread;
its `pc` names the line it is at.  A pool with more threads may store its
index at any time (`OtherPoolChooses`).  Not composed from `IdleThread` by
INSTANCE: callbacks, the retry map and the unguarded accesses of that module,
the push_back at 153 and the read at 308 too, are left out here, where a pass
takes its tasks in one step and RunTask is over with its push: what goes wrong
within one idle thread is told there, and nothing is claimed of a pool in which
it has.  Handlers call the pool, which they cannot there.  Any of the threads
may never have been woken up ("asleep").  GetTaskRemain reads two lengths
without a lock and is one read.  WM_TASK_FINISH messages are a set: they commute.

### TaskManager

State and code: the lists, map and subscribers are the members of TaskManager.h
79-85; `mpc` with `pTask`, `at`, `bRecycle`, `notify` is the manager's thread in
DealTask, DealRetryTask, DealMemClean, HandleMessage or Notice, `cpc`, `ctask`
an Invoke of each caller.  An agent is the set of tasks it was given; what goes on
in its lists is in `IdleThread`.  The manager and the agents are threads that
are created suspended and resumed, and the Resume can be lost: the manager may
be "asleep" for ever, and so may any of the agents (`asleep`).  A
subclass decides what OnHandleMessage does with an answer: recycle or retry.
Subscribers register and leave under m_mtxCBs, which Notice holds over its walk.
Time is not counted: a task is `delayed` until its delay is over and
`ripe` when the interval of its list has passed, and `TimePasses` makes it so.
m_lstRetryTask and m_lstTrashbin have no mutex and are changed by two threads:
where the two accesses meet (`RetryRace`, `BinRace`) the program has no defined
effect, `GoesWrong` sets `undefined` and nothing moves after it.  So it does
when Invoke finds the index of GetNextAgent past its agents: the index is one
static variable for all managers, and `OtherManagerTakes` is a turn of a manager
with a count of its own.
Invoke from the manager's own thread is not modelled.  m_nCleanInterval has a
value only after SetCleanInterval, and the model is of a manager that has one.

### LogRolling

State and code: `file` is the directory, `file[0]` the appender's strFile and
`file[i]` strFile.i; `buffer` is what stdio has not written; `fp`,
`nWritedSize`, `nLogFileIndex` and the two limits are members of SLogAppender
(logger.cpp 93-110); `pc` and `i` are OnExecute's place and loop variable.
A step of the roll is one rm or rename, so that a crash can fall between any
two.  `Start` is Init with Parse, which reads size and index from the directory.
An entry is its number and has size 1.  A crash keeps what the buffer had
passed on, any prefix of it.  `Exit` leaves the queues, as ~CLogManager
does, whose thread reads WM_QUIT before another pass.  Since
`str.find("MB")` is 0 only at the start, Parse takes every size for megabytes
and cuts two characters off, none of a text of one; so does `FileSize`.

### HttpClient

State and code: `infoHeader`, `nSize`, `vctRespBuf`, `nCode` and `attempt`, the i
of the loops, are locals of DownloadFile (httpclient.cpp 335-516) and Perform
(621-712), `method`, `bBreakPointSupport` and `nTryCount` the members of
SHttpParam that matter, `place` the call of libcurl or fopen the thread is at.  `file` is strFile, a sequence of
blocks; a block is its version of the resource and its place in it.  `answer` is
what curl_easy_perform has still to hand to the write function.  A server
answers a range or ignores it, fails, or breaks off after any block; HEAD may
give no length, or that of a page of error.  A crash may fall anywhere in a
call and keeps a prefix of what the attempt wrote.  `restarted`, `changed`,
`short` and `misled` are history.

Abstracted: headers, cookies, TLS and redirects, which libcurl does; strData and
nDataLen of a download, which are the pages seen and not the file.  The
accept-ranges of HEAD is read and only logged, so it is not there.  After an
answer 3xx to Perform line 694 takes strlen of a null pointer when the server
gave no place to go: `undefined`.

### CfgFile

State and code: `file` is the file of SetCfg (cfghandler.cpp 202-373), given by
the blocks that decrypting it yields, since DES in CBC mode with one key and one
IV (crypto.cpp 178-215, des.c 264-318) maps block by block: writing the first n
blocks over a longer file leaves block n + 1 garbage and the rest as it was.
`cut` is how many blocks taking off the padding drops: one when the last block is
padding, and any number, more than there are too, when it is what a shorter
write left.  `pc[p]` is where SetCfg of a process is: before fopen, at the
write over the file, or thrown out with `m_mtxLock` held.  An actor is a
process, the application or cfgtool: within one, `m_mtxLock` makes the calls one
after the other.  `base` (how often the file had changed when the process read
it), `settings` (what was set last) and `flaws` are history.  `GetPointer`,
`GetCfg`, `NewBuffer` and `LoadCfg` (`Listed`) are operators over a buffer and
follow the searches of the code, leftovers included, and flags in values: a
value is any bytes (427), so it may hold any flag of the format, the begin of an
item or a module with a name too, and the searches take it for one.

Abstracted: every header, flag and piece of a value takes a block of its own,
so that a flag never lies across two; a torn write ends between blocks, which
sectors and pages are multiples of; types of values, which are stored and
handed back; keys and modules of which one is the start of another, whose
lengths are compared first.

### TimeObjects

State and code: `m_time[t]` is the member of an object of thread t (timer.h),
`tm` the buffer that localtime and mktime return, one in the process.  `pc[t]`
is before localtime, before the assignment to the buffer or before mktime
in SetTime (timer.cpp 330-361) or in the Add and Decrease of months and years
(171-198, 236-263); `todo[t]` are the fields FromStr (112-142) has still to set,
each by a SetTime of its own.  Days to milliseconds are added without the
buffer, in one step.  The getters and BetweenTime overwrite the buffer (GetTime).
`raced[t]` notes that another thread used it between a localtime and its mktime.

Abstracted: `Calendar` stands for the C library, for a zone without summer
time.  Of a string only the numbers sscanf finds in it.

## 3. Runs and what they show

| run | expects | properties |
|---|---|---|
| `thread` | pass, 214 037 states | type; refinement of `Mailbox`; order of service; delays; Suspend holds; Stop returns (liveness) |
| `thread_wakeup` | violation | `ResumeWakes`: the wake-up of Resume can be lost |
| `idle_win` | pass, 500 604 states | type, locks and bound of the run list; order; every task in one place and not deleted there; callbacks; thoroughness of CancelTask; the three things that go wrong and no other |
| `idle_posix` | pass, 134 402 states | `AcceptedIsRun` (liveness): every accepted task ends |
| `idle_retry` | violation | `RetryOnlyFailed`: a delivered callback is retried |
| `idle_pool` | pass, 98 513 states | type; m_bKeepSingle over all threads; what alone can leave the array; every call returns (liveness) |
| `pool_map` | violation | `MapTellsThread`: the map is not kept by unique id |
| `task_manager` | pass, 461 761 states | type; every task in one place; the work mapping; bKeepSingle; notices; when a task is deleted; every task ends (liveness) |
| `log` | pass, 332 800 states | type; order of entries; where each ends; size and number of files; what rolling may overwrite |
| `http` | pass, 446 579 states | type; a download's file is a prefix of the resource; a success means the whole; data and attempts of Perform; every call returns (liveness) |
| `cfg` | pass, 982 609 states | type; what is set is read back, by key and in the list; what a torn write spares |
| `time` | pass, 533 004 states | type; a date is read as it stands; spans are what was asked for |

What the properties of `thread` mean.  `ServedInOrder`: at the moment a message
was taken no other that had been posted and was due comes before it, in level
and then in age; a delayed message hides neither those behind it nor the lower
levels.  `NeverASecondEarly`: with d seconds of delay a message is taken more
than d - 1 seconds after its posting; whole seconds are compared, so the exact
delay is not promised.  `SuspendHolds`: after Suspend returned at most one message is
taken.  `StopReturns`: Stop of a working thread comes back, unless the worker
sleeps because an earlier wake-up was lost.  `MailboxSpec`: refinement, with
`pending <- Pending`, the messages in all lists.

What the properties of `idle_win` mean.  `RunInOrder`: when a task runs none
accepted before it waits.  `OnePlace`: an accepted task is in one list, once,
or done, or cancelled, and what a list or the retry map holds is not deleted.
`TypeOK` says besides the types who holds which lock, and that the limit of line
149 holds although it is tested without the lock of the list.  `CancelIsThorough`: a CancelTask that found nothing in the
first list leaves none of the tasks it looked for, although the worker moves
tasks between the lists meanwhile.  `CallbackNotLost`: a
task whose time is over was called back or waits in the retry map, and
WM_TASK_FINISH follows the callback, once.  `OnlyKnownFaults`: the unguarded
accesses go wrong in three ways, which all are real, and in no other: the
push_back at 153 meets an IsTaskExist or a CancelTask that walks m_lstTasks; a
CancelTask, from outside or by the handler, has deleted the task the iterator is
at; RunTask reads at 308 a task that the worker is through with or that was
cancelled.  Whatever else is moved, run, appended and erased meanwhile, the
iterator of OnExecute stays good.  `AcceptedIsRun`, in the POSIX build: an accepted
task is run or cancelled, unless the Resume of the constructor was lost, the
thread is stopped, one of the three faults has happened or a handler locks its
own thread out.

What the properties of `idle_pool` mean.  `SingleAmongKnown`: RunTask without an
index, which searches every thread one list at a time, misses no equal task
pushed before it began.  `OnlyStrangersGoWrong`: the index leaves the array only through a larger pool,
and a deleted thread is reached only from a handler during the destructor.
`CallReturns`: every call of the application comes back, whichever threads were
never woken up, unless a handler closes
one of the circles of waiting threads that `LockedOut` describes; they exist:
a handler that searches its own thread, two handlers that search each other's,
and a handler that files a task while a CancelTask with the map's mutex waits
for that handler's thread.

What the properties of `task_manager` mean.  `OnePlace`: a task pushed is in one
list, at work, or deleted, and nothing of the manager points to a deleted
one.  `WorkingIsMapped`: the map is entered after the task was given to an
agent, and still before its answer is handled.  `SingleUnlessRetried`: of the
three containers searched one after the other only the retry list can hide an
equal task.  `NoticeIsExact`: each subscriber is told once and none after
UnRegisterCallBack returned.  `FreedAfterRest`: an answered task lives for the
clean interval.  It does not cover the read of Invoke after the hand-over
(TaskManager.cpp:146), which takes a deleted task when Invoke is slower than that
interval: there the model goes wrong.  `TypeOK` has the shared index: it is past the agents only after
a turn of a manager that has more of them.  `TaskEnds`: every task pushed is answered or deleted
and leaves the map, over its delay and retries, unless its handler sets no
response, which keeps it mapped for ever, or the manager or its own agent was
never woken up: an agent that sleeps holds up its own tasks only.

What the properties of `log` mean.  `EntriesInOrder`: each file, the buffer and the queues ascend, and what a file
of a higher number holds is older than what a lower one, the buffer and the
queues hold, over rolls, restarts and crashes.
`NothingElseLost`: an entry is in exactly one place, or was filtered, removed
with its file, or lost with queue or buffer at the end of the program.  That
rename, fopen and fwrite succeed is presumed: the code looks for no failure of
theirs (logger.cpp 489-493, 503, 538).
`FilesBounded`: files do not outgrow the limit over restarts, but for one entry
in an empty file when the limit is 0, and after a roll no more of them than
configured are left, also when an earlier run kept more.  `KeptUnlessTorn`: no file goes before its time unless
a crash hit the middle of a roll, after which Parse counts the files, gets a
number below the highest and a later roll renames over a file: the exception
is reached.

What the properties of `http` mean.  `FileIsPrefix`: over attempts, resumed
calls, pages of errors and crashes the file is a prefix of the resource, unless
one of three things happened that DownloadFile does not notice: a second attempt
of a download that does not resume, or one that a server answers in whole, went
behind what an earlier attempt left (the file is opened once, line 451); the
resource changed (only sizes are compared, line 472); fwrite did not write
(line 61).  `SuccessIsWhole`: with the same exceptions a success means the whole
resource, unless the page of an error answered to HEAD was shorter than the
file, in which case line 472 takes the download for finished.  TLC finds a
violation when any of the four exceptions is left out.  `DataIsOfLastTry`: no
data of a broken attempt is in a result, an answer is not asked for again, and
attempts are at most nTryCount.

What the properties of `cfg` mean.  `ReadsBack`: GetCfg gives for every module
and key what was set last, or nothing if nothing was, over rewritings to longer
and shorter values of it and of its neighbours, new keys and new modules, and
with whatever a longer content left behind the end; LoadCfg lists the same
first.  Each of its six exceptions happens in the run, and TLC finds a
violation when any of them is left out: two processes wrote what they had read
before (`raced`); a write was torn; the new content is exactly one block
shorter, so that the file ends in the old padding, now garbage, of which a byte
is taken for the length of a padding (`shorter`); a value holds the begin of an
item or a module, which is found in the place of the true one or of one that is
not there (`begun`); a value holds the two flags that end a
module (`framed`); or one of them, which LoadCfg alone takes for its end (`ended`).
`TornSparesEarlier`: a torn write changes no setting of a module before the one
it was to change, as long as the old end of the file is there.  The file has no
flaw before, so values with a begin or a FLAG_MODULE_END are not in it; the
value that is being written may be one.

What the properties of `time` mean.  `ParsesBack`: FromStr of a date gives that
date, from whatever moment the object starts, unless another thread used the
buffer, or today's day of the month does not exist in the month of the date
(on 31 January "02-12" becomes 12 March).  Dates are of the years 1971 to 2037:
timer.h:13 names 1970-01-01 to 2038-01-19 and SetTime lets these years in (355),
but the fields are set one by one, and near the ends a moment on the way to the
date may be before 1970, which SetTime does not take (359), or too late for a
time_t of 32 bits, which is not modelled.  `SpansAreExact`: an Add or Decrease
changes the time by its argument and BetweenAll counts the same back, for years
and months as mktime normalises them.  Its exceptions, each reached: taking
away months or milliseconds with a borrow (257, 296: `-= --` gives where it
should take), negative milliseconds, a disturbed buffer, and BetweenAllMilliSec
after a carried second.

Every property of a passing run has a mutant in `PROJECT.json`: a definition
of the model changed the way a slip in the code would change it (a push to the
wrong end, a limit left out, a flag ignored), with which TLC finds the property
violated.  The mutated forms stand in the modules before the definition they
replace, marked as faulty variants.

## 4. Bounds

`thread`: one poster (posters have no state in common but the lists, and
their pushes are single steps; the handler is a second source of messages and
Stop a third), levels 0 and MAXINT, two posted messages besides the quit
messages of Stop and ~CThread, delay one second, two ticks to the second and
two ticks in all.  Two messages and the quit message give every order
of equal and unequal levels; one delayed and one not gives the case where the
head of a level is not due; two ticks reach the moment a delay is over.
`MaxPosts` and `MaxClock` are guards of the posts and of `Tick`; the proofs
do not depend on their values.

`idle_win`, `idle_posix`: three tasks, two callers, a run list of two in
the place of five: one task more than the list holds, so that the limit is met
and a task stays behind; two callers and the handler make every pair of
concurrent calls.  Submission once per task bounds the behaviours.  Windows:
two equal client tasks of one client, one called back by PostMessage and one by
SendMessage, one of them m_bKeepSingle, and a static task that a handler may
submit.  POSIX: thread tasks only, two with a callback thread, one without.

`idle_pool`: two threads, one caller and the two handlers as further actors, two
equal tasks of which one is m_bKeepSingle, a foreign pool of three threads that
stores its index once (`MaxForeign`).  Two threads give a choice, a foreign
index that is out of range, and every circle of two; one store is enough to
leave the array.  The run list keeps its five, which two tasks do not fill: its
limit is the business of `idle_win`.

`task_manager`: one caller, two equal tasks of which the first is delayed and
the second bKeepSingle, two agents of which one has no invoker for the first
task, two subscribers, one retry (`MaxRetries`),
another manager of three agents that takes one turn (`MaxForeign`), which is
enough to leave the array of two.  A second caller would
show that two concurrent Invokes can both push, which the code does not exclude
and no property denies; two subscribers are the least with which one can
leave while the other is still to be told.

`log`: files of two entries (`MB = 2`), configurations that keep one file or
three, of sizes "1MB" and "1", and one of size "50" without a unit, which Parse cuts to 0, so that every
entry gets a file of its own; seven entries (`MaxEntries`), a pass of two (`MaxMove`), two runs
(`MaxRuns`).  Seven entries fill three files and roll once more, so that the
last file is removed; two runs give every change of configuration and the roll
after a torn one.

`http`: a resource of two blocks that becomes empty and then one of one block, two attempts of a
download as in the code, nTryCount 2 or not given, three calls (`MaxCalls`).
With two blocks an attempt can break before, between and after them; three
calls are a partial download, one that resumes it and one that finds it
finished.  The change to a shorter resource is the case in which a comparison
of sizes is wrong in both directions, and the empty one that in which nothing
written is everything.

`cfg`: two processes, since a third adds no further kind of overlap; two
modules, of which the first has two keys; nine settings, with values of one,
two and eight blocks, among them one with the begin of the other item of its
module and one with the begin of the other module, so that a rewriting is longer, equal, shorter by one and
so much shorter that whole items are left behind; four calls of SetCfg
(`MaxSets`) as long as the file is without a flaw and two when it has one
(`MaxSpoilt`), since from then on most of it is excepted.  Processes are
symmetric.

`time`: two threads, two calls (`MaxCalls`), one of them in FromStr at a time
(`MaxParsing`); moments at the end of January and of a leap February; spans of
11, 13 and -1 months or years and 1500 and -1 of the other units, which carry and
borrow.  A call is as long as seven normalised fields, in which the other's call
may fall anywhere.  Threads are symmetric.

Deadlock is not checked: a stopped thread, a self-locked handler, a manager
destroyed, a program that has ended for the last time and one that went wrong
really end, and a file or an object that nobody calls on rests.

## 5. Fairness

`Thread`: weak fairness of the worker's steps, of the owner's signal and join
once it is inside Resume or Stop, of a poster's push once it is inside
PostMessageDelay, and of the clock: an operating system runs a thread that can
run.  No fairness of spurious wake-ups, of the owner's next call or of new
posts, which nobody promises.

`IdleThread`: weak fairness of the worker and of each call begun, and strong
fairness of `LockTasks`: the worker competes for m_mutexTasks with callers who
take it again and again, and the mutexes of neither system starve a waiter for
ever.  A worker that the Resume of its constructor did not wake has no step to
take: fairness does not help it, and `AcceptedIsRun` excepts it.  No fairness of the callers' next call.

`TaskManager`: weak fairness of the manager's thread, of an agent with tasks, of
an Invoke begun and of time: threads that can run do, and an interval ends.  A
manager or an agent that was never woken takes no steps.

`IdleThreadManager`: strong fairness of each call and of each worker: a
thread that waits for a mutex gets it when it is free again and again, and a
handler makes finitely many calls; a thread that was never woken is no worker.
No fairness of new calls.

`HttpClient`: weak fairness of the steps of a call.  That the peer goes on or the
connection breaks is libcurl's part and only with an nPerformTimeout; a caller
who gives none may wait for ever.

`LogRolling`, `CfgFile` and `TimeObjects` have no liveness property and no
fairness.

## 6. Proofs

Every theorem holds for every value of the constants that the assumption of its
module admits: any set of tasks, callers and posters, any bound on their calls,
any number of attempts, files and entries.

| module | assumption |
|---|---|
| `Thread`, `Mailbox` | `MessagesAssumption`: levels are integers with MAXINT the greatest, WM_QUIT is no other message's id, delays are naturals, at least one tick to a second; `ThreadAssumption`: the bounds are naturals, `NoDraft` is no message |
| `IdleThread` | `IdleThreadAssumption`: MAX_RUN_NUM is positive; on POSIX all tasks are of type ITT_THREAD, the only one that build runs |
| `IdleThreadManager` | `IdleThreadManagerAssumption`: 1 to 5 threads, as SetThreadNums makes sure, any other pool with at most 5, actors and threads are distinct |
| `TaskManager` | `TaskManagerAssumption`: 1 to 16 agents, as SetAgentCounts makes sure, also of another manager |
| `LogRolling` | `LogRollingAssumption`: a configuration keeps at least one file (Parse does not check it, see section 8), a megabyte and a pass of the writer are not empty |
| `HttpClient` | `HttpClientAssumption`: at least one attempt of a download (a constant of the code), sizes are naturals, also 0 |
| `CfgFile` | `CfgFileAssumption`: a setting is a module, a key and a value, a value is any sequence of blocks of data and of flags, begins and ends of items and modules with any name and length, also the empty one; taking off padding that is none drops any number of blocks |
| `Calendar`, `TimeObjects` | `ZoneAssumption`: the local clock is at most a day off Greenwich; `TimeObjectsAssumption`: dates are any lists of at most seven integers, settings any field with any integer, amounts integers whose seconds fit an int also when they are days, spans any integers |

`BasicLemmas` has what all of them need of the operators the models are built
from: `RemoveAt`, `Without`, `Append` and `Tail` on lists without duplicates,
prefixes, least and greatest elements, division.

**Thread** in two storeys.

1. `Thread` implements `Mailbox` (the instance `MB`, whose pending messages are
   those in the lists).  The inductive invariant is `TypeOK`, `Lists`
   (the list of a level holds messages of that level in increasing ids, none
   above `posted`), `Drafts` (a message stamped and not pushed has the stamp of
   its birth), `QuitEnds` (while the loop runs no WM_QUIT was taken) and `Holds`
   (what Suspend needs).  `TypeOK` alone does not do: that the first due
   element of the highest level precedes every other due message is true
   because of `Lists`, and that a push is a `Post` because of `Drafts`.  Each
   action is a post, a take, a tick or leaves the mailbox alone
   (`EveryStep`), which gives `ThreadImplementsMailbox`.
2. `MB` keeps its promises (`MailboxInvariance`), whoever drives it, and so the
   thread does: `MailboxInv` adds to the properties what one step needs to know of
   the past: ids are distinct and not above `posted`, a stamp is the second its
   message was born in, every delivery carries a moment not in the future.
   `Take` picks a message nothing due precedes, later deliveries come from what
   was left or was posted after, so `ServedInOrder` is kept;
   `NeverASecondEarly` is the arithmetic of `DivBounds` and `QuotientsApart`.

**IdleThread.**  `Order`: both lists ascend in the order of acceptance, and what
is in m_lstTasks was accepted before what is in m_lstTmpTasks; so the worker,
which takes the first, serves in order.  `Iterator`: the iterator of OnExecute
is at the first node or at one a CancelTask has erased; so without such an
erasure every use of it is defined, which is two of the three parts of
`OnlyKnownFaults`.  `Calls`: the
argument of a RunTask is in no list before its push, and not the argument of
another; with it a push gives a task its one place, and what RunTask reads after it
is deleted only when the task is done with or cancelled, the third part; for
that `Quitting` says that the destructor, which deletes what is left in the
lists, overlaps no call.  `Fate` and `Notes`: a task in
the retry map is done and not yet notified, or the worker is erasing it.
`CancelMissesNone` needs that tasks move from m_lstTmpTasks to m_lstTasks and
never back: what CancelTask knew of and did not find in the first list is in the
second when it comes there, or gone.

**IdleThreadManager.**  The invariant is one part for what the actors share
(`Shared`) and one for each actor alone (`Actor`), with `Apart` (no task is the
argument of two calls) between them; a step changes one actor's part, and the
others' are shown to survive what it does to the lists.  `Searched` is why the
search without a common lock finds what it should: tasks are moved only from
the list searched first to the one searched second, so the part already
searched stays clear of equal tasks that were there before.  `Index` says
where an index comes from: from this pool, or from a larger one through the
variable both share.

**TaskManager.**  A task is in at most one of nine places: a caller's hand, the
two lists, an agent, the answers, the manager's hand, the trash bin, the
tasks whose handler never answers, or deleted (`Apart`, `Once`), and an accepted
task is in one of them (`Somewhere`).  Two of the places are not containers: between
two statements the manager's thread has a task in `pTask` that is still, or
already, in a list (`Moving`, `Locals`).  `Searched` is the state of an IsTaskExist
that looks through three containers without a common lock; `Rests` connects a
deletion to the interval that ended before it.

**LogRolling.**  `Data`: the entries are partitioned over the files, the buffer and
the queues, and ascend through them; a roll renames the files by a function that
preserves the order of their numbers (`FilesMove`), and a flush moves the first
elements of the buffer behind the current file.  `Control`: the size that the
writer counts is that of file and buffer (`Counted`), and, unless a crash has torn
a roll, the numbers of the files have no gap but the one the roll is moving
(`Shape`, with `Removing` and `Renaming` for its phases).  Without `Shape` the
renaming could overwrite a file, which `KeptUnlessTorn` excludes; it is not true after
a torn roll, and the model then indeed loses a file.

**HttpClient.**  `RestOfResource`: as long as an answer is received, the file and
what is still to come make up the resource (unless one of the flaws named in
section 3 happened); so the file is a prefix when the connection breaks, and the
whole when it does not.  `RestOfPage` says the same of a response's data, `Told`
that the size HEAD told is that of the resource, `ClientLocals` what the variables of a
call are at each place.

**CfgFile.**  `Counted` is about the calls: types, the arguments of a call that has
begun are those of a setting, and `Budget` (a call changes the file twice at most,
so the number of blocks that decrypt to garbage is bounded by that of the calls).
`Content` holds as long as no flaw that `ReadsBack` names has happened.  `Disk`: the
last block of the file is padding, so all but it is read.  `Unraced`: what a
process is about to write, if nobody changed the file since it read it, is the
content with its setting put in.  `Good` is why the search through a file full
of leftovers finds the right place: a module is closed before another begins
(`Closed`), the first module of a name has an end of its own (`Ended`), every item
in it is as long as its header says and stays inside (`Items`), and any item of a
later module of that name, a leftover, is an item of the first too (`Keys`).
GetCfg searches the first module only; LoadCfg lists the leftovers as well, and
without `Keys` it could list a key that GetCfg does not find.

That a write keeps `Good` is shown in two halves.  `NewBuffer` puts one item into
one module, in place of the old one, behind the last or in a new module; all
three are a splice (`Spliced`): the positions before it stay, those behind it
move by one distance, every item but the one set keeps its value.  Then
`OverGood`: the new content over the old one, with one garbage block and the tail
of the old content behind it, is good again, because every module found there
is found in the new content first, and what the new content keeps of the old
(`Keeps`) is everything but the replaced item.  `LoadIsGet`: the list LoadCfg makes
has for each key first the item GetCfg finds.  For `TornSparesEarlier`, the new
content and the old agree up to the module that is changed (`TornAlike`), so
wherever the write stops the file does too.

**TimeObjects.**  First the calendar.  `localtime` takes a day apart by CHOOSE; the
year it looks for exists because four centuries measure a day's year to within
one (`YearIsAbout`, `YearOfDay`), the month because the months of a year follow
one another without gaps (`MonthTable`, `MonthInYear`).  So mktime puts together
what localtime took apart (`LocaltimeUndoes`) and the fields of a date that exists
come back from localtime (`MktimeUndoes`), for every zone and moment.

`TimeInv` is `TypeOK` and for each thread `Coherent`: its fields still to be set
are those of the call it is in, and unless another thread has used the buffer
(`Undisturbed`) the buffer holds localtime of its object, or that with the one
field changed.  `TypeOK` alone says nothing of the buffer between two steps.  For
FromStr, `Progress` tells which fields the object has from the string already:
those set before stay as the next is set, if the day that is there exists in
the month that is set, which is what `ParsesBack` asks of `DayLeft`; a year that
is set may move 29 February to 1 March and no further (`NextYear`).  `ShiftsByMonths`:
twelve months carried into the tm_year, as the code does it, or left to mktime are
the same.  `MillisCount` and `UnitsCountBack` are arithmetic.

| theorem | property |
|---|---|
| `ThreadIsTyped`, `SuspendHoldsAlways` | `TypeOK`, `SuspendHolds` |
| `ThreadImplementsMailbox` | `MailboxSpec` |
| `ThreadServesInOrder`, `ThreadIsNeverASecondEarly` | `ServedInOrder`, `NeverASecondEarly` |
| `ThreadLosesNothing`, `ThreadQuitIsLast` | `NothingLost`, `MB!QuitIsLast` |
| `IdleThreadIsTyped`, `TasksRunInOrder`, `TaskHasOnePlace` | `TypeOK`, `RunInOrder`, `OnePlace` |
| `CallbackIsKept`, `FaultsAreKnown`, `CancelMissesNone` | `CallbackNotLost`, `OnlyKnownFaults`, `CancelIsThorough` |
| `PoolIsTyped`, `SearchMissesNone`, `StrangersAloneGoWrong` | `TypeOK`, `SingleAmongKnown`, `OnlyStrangersGoWrong` |
| `TypeCorrect`, `TasksKeepToOnePlace`, `MapIsOfTasksAtWork` | `TypeOK`, `OnePlace`, `WorkingIsMapped` |
| `KeepSingleHolds`, `NoticeReachesEach`, `DeletedAfterRest` | `SingleUnlessRetried`, `NoticeIsExact`, `FreedAfterRest` |
| `LogIsTyped`, `LogKeepsTheOrder`, `LogAccountsForAll` | `TypeOK`, `EntriesInOrder`, `NothingElseLost` |
| `LogFilesBounded`, `LogKeepsTheNewest` | `FilesBounded`, `KeptUnlessTorn` |
| `ClientIsTyped`, `DownloadIsPrefix` | `ClientTypeOK`, `FileIsPrefix` |
| `DownloadIsWhole`, `ResponseIsOfLastTry` | `SuccessIsWhole`, `DataIsOfLastTry` |
| `CfgFileIsTyped`, `SettingsReadBack`, `TornWritesSpareEarlier` | `TypeOK`, `ReadsBack`, `TornSparesEarlier` |
| `TimeIsTyped`, `DatesParseBack`, `SpansAreKept` | `TypeOK`, `ParsesBack`, `SpansAreExact` |

`ThreadLosesNothing` (ids 1..posted are each pending once or taken once) and
`ThreadQuitIsLast` have no property of a run of their own: `MailboxSpec` checks them
step by step.  `CancelIsThorough`, `MailboxSpec`, `TornSparesEarlier`, `ParsesBack` and
`SpansAreExact` are about steps, the others about states.

What attempts at a proof and a second reading of the code have shown.  `FilesBounded` was false as first stated: a
size below a megabyte without a unit is cut to 0, and then a file takes one
entry all the same; the statement says so now and the run has such a
configuration.  `SuccessIsWhole` depends on whether the resource has changed,
and with a resource that becomes empty the history variable missed one change;
the run now has an empty resource.  Of `IdleThread` it was first stated that
only CancelTask makes it go wrong; the walk of IsTaskExist and the read at 308 do
as well.  `ReadsBack` was first stated for values without begins of items and
modules.

Only model-checked.

- The liveness properties (`StopReturns`, `AcceptedIsRun`, `TaskEnds` and the two
  `CallReturns`): the prover has neither fairness nor ENABLED.
- The three violations, which are behaviours that exist.

## 7. Disagreements found

* `ResumeWakes` (thread.cpp:234).  The worker tests the state, then locks
  m_mtxPause and waits without testing again; Resume stores and signals without
  that mutex.  A Resume in between is lost: the thread is TS_WORKING and sleeps.
  CIdleThread resumes itself right after its construction, and so do the
  manager of tasks and its agents: such a thread may never run a task, and a
  later Stop would join it while it sleeps.  `StopReturns`, `AcceptedIsRun` and
  `TaskEnds` have it as an exception.
* `RetryOnlyFailed` (idle_thread.cpp:180).  bPostRet is set once per pass and
  not by ::SendMessage: after one failed ::PostMessage a synchronous callback
  that was delivered is put in the retry map and posted again.

* `MapTellsThread` (idle_thread.cpp:310).  The map is "<UniqueID, ThreadIndex>"
  (idle_thread.h:160); RunTask gives an id to its copy of the task and returns
  the caller's, which is 0.  Every task is filed under 0, CancelTask hands 0 on
  and WM_TASK_FINISH erases under an id that is not there.

Not runs of their own, but shown by the model or plain in the code:

* Stop "must call in subclass destructor firstly" (thread.h:71); of a suspended
  thread it cancels and does not join (thread.cpp:103), so that the worker may
  still be in HandleMessage or OnExecute.  In `Thread`, `StopSuspended` is
  enabled in every state of the worker.
* enumerate_files goes through all files of the directory (os.h:215); its bfilter
  is set before the loop (os.cpp:782) and stays false after the first file that
  does not match.  With other files in the log directory the logger starts with
  an index that is too low; `LogRolling` has a directory of its own.
* The exceptions of `ReadsBack`, `ParsesBack` and `SpansAreExact`: settings lost
  to a second process, a torn or a shorter write or a flag in a value
  (cfghandler.cpp:112, 141, 360, 477); dates read a month late (timer.cpp:134); months
  and milliseconds added where they should be taken away (257, 296).
* operator< of Time (timer.cpp:33-39) is true only when seconds, milliseconds,
  zone and flag are all less, so never for two times of one zone; operator> is
  then true of any two that differ, in both orders.

## 8. Not modelled

The Windows branches of CThread (SuspendThread, and TerminateThread after five
seconds, whose effect on held locks has no model short of the whole program);
FindMessage and GetMessageSize, which read under the lock; SendMessage, which
runs the handler on the caller's thread and touches no state of CThread.  The
messages of an application's own handlers.  Of the pool: CancelTask of a whole
client and the compare functions, which go to every thread in turn.  Of the task
manager: Windows subscribers, custom messages.
Of the logger: log4cxx, the console, rolling by day, two loggers with one file
(each counts and rolls it alone), max_file_counts below 1, which makes the index
negative, sizes from 2048 MB on, whose number of bytes overflows an int
(logger.cpp:248), and files that cannot be opened, renamed or written.  Construction: a CThread that is not suspended starts its worker
before its subclass is constructed.  Of the HTTP client: Init by several threads at once, which share
`s_shobject`; CrackUrl, ReverseUrl; headers; two downloads into one file;
"retry count" of nTryCount (httpclient.h:56), which line 669 takes as the
number of all attempts.  Of Time: the comparisons, the strings, `value * 86400` beyond
an int, summer time, dates of 1970 and 2038.  Of the file of settings: a file whose size is no multiple
of a block, which is read as it stands.  Wrappers of third-party libraries and
of system calls, which have no control of their own.  Clocks that are set back.

## 9. Plan

In order of importance to a user of the library:

1. **done** `Messages`, `Mailbox`, `Thread`, `IdleThread`, their runs, the
   proofs about all four.
2. **done** `IdleThreadManager`, `TaskManager`, `LogRolling`, their runs and
   proofs.
3. **done** `HttpClient`, its run and proofs.
4. **done** `CfgFile`, its run and proofs.
5. **done** `Calendar`, `TimeObjects`, their run and proofs.
6. `Text`: split, replace and path_pretty against references on bounded inputs.
7. Several threads in the first call of the HTTP client.

Abstract specifications: `IdleThreadManager` and `IdleThread` as
implementations of one pool of accepted and unfinished tasks.

Proved: every safety property of the runs (section 6).  To prove next: that
`IdleThread` implements such a pool.
