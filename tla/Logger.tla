------------------------------- MODULE Logger -------------------------------
(***************************************************************************)
(* utils/logger.cpp and the signal handler of utils/os_utils.cpp, which    *)
(* logs: one process from log_init to its end.                             *)
(*                                                                         *)
(* The main thread logs into gFileBuf itself until it calls log_set_async; *)
(* from then on the threads push their lines into gAsyncLogBuffer under    *)
(* gAsyncMutex and a thread of its own carries them to the file.  A line   *)
(* is its number in the order of the calls, and has length one.  What is   *)
(* done under gLogMutex is one step: the mutex is recursive, nothing waits *)
(* while it holds it, and a signal is taken to arrive outside it.  A line  *)
(* is shorter than the cache (8192 against 16384 characters), so the       *)
(* branches for longer ones are never taken.  LOG_TO_CONSOLE and           *)
(* LOG_AUTO_FLUSH are off, as in every build but the developer's.          *)
(***************************************************************************)
EXTENDS Integers, Sequences, FiniteSets

CONSTANTS Threads,       \* the program's own threads
          Main,          \* the one that has called log_init
          Nobody,        \* no thread
          FlushCacheSz,  \* gFlushCacheSz, in lines
          BufferLimit,   \* gAsyncBufferLimit
          MaxLines       \* bound: lines logged in one behaviour

ASSUME LoggerAssumption == /\ IsFiniteSet(Threads)
                           /\ Main \in Threads /\ Nobody \notin Threads
                           /\ FlushCacheSz \in Nat \ {0, 1}
                           /\ BufferLimit \in Nat \ {0}
                           /\ MaxLines \in Nat

VARIABLES
  gLogAsync,        \* log_set_async was called
  gAsyncLogBuffer,  \* the lines pushed by the threads
  holder,           \* who has locked gAsyncMutex in log_log_async
  gAsyncExit,
  apc,              \* the asynchronous thread: "wait", "write", "empty" or "done"
  local,            \* the lines it has taken
  file,             \* gFileBuf, what is behind it, and the lines skipped
  dayOver,          \* gLastLogTiming is not today
  hpc,              \* the signal handler on each thread: "none" when it does not run
  xpc,              \* the functions called by exit: "no" before it
  exiting,          \* the thread that has called exit
  sent,             \* lines logged so far
  proc,             \* "running", "exited" or "crashed"
  syncLines,        \* history: lines logged before log_set_async
  exitAt,           \* history: lines logged before exit
  late              \* history: gAsyncExit was set when the asynchronous thread had taken
                    \* nothing, and lines had come since

mode    == <<gLogAsync, syncLines>>
queue   == <<gAsyncLogBuffer, holder>>
carrier == <<apc, local>>
output  == <<file, dayOver>>
leaving == <<xpc, exiting, exitAt, late>>

vars == <<mode, queue, carrier, output, leaving, gAsyncExit, hpc, sent, proc>>

(***************************************************************************)
(* The file.  gFileBuf is written by fwrite to the buffer of the C library *)
(* (stdio) and from there to the disk; gLogFile says whether it is open;   *)
(* skipped has the lines that found it closed.                             *)
(***************************************************************************)
EmptyFile(open) ==
  [gFileBuf |-> <<>>, stdio |-> <<>>, disk |-> <<>>, gLogFile |-> open, skipped |-> {}]

log_flush(f) ==
  IF f.gLogFile THEN [f EXCEPT !.stdio = @ \o f.gFileBuf, !.gFileBuf = <<>>] ELSE f

fclose(f) == [f EXCEPT !.disk = @ \o f.stdio, !.stdio = <<>>]

\* The rotation, in which the new file is opened or not.
check_new_log(f, opened) ==
  IF dayOver THEN [fclose(log_flush(f)) EXCEPT !.gLogFile = opened] ELSE f

Skip(f, line) == [f EXCEPT !.skipped = @ \union {line}]
Put(f, line)  == [f EXCEPT !.gFileBuf = Append(@, line)]
Full(f)       == Len(f.gFileBuf) + 1 >= FlushCacheSz

\* mutant: flush or store, as log_log_sync does.
StoreOrFlush(f, line) ==
  IF ~f.gLogFile THEN Skip(f, line)
  ELSE IF Full(f) THEN log_flush(f) ELSE Put(f, line)

\* mutant: a line for which there is no room overtakes those in the buffer.
StoreAhead(f, line) ==
  IF ~f.gLogFile THEN Skip(f, line)
  ELSE IF Full(f) THEN [f EXCEPT !.stdio = Append(@, line)] ELSE Put(f, line)

\* mutant: the room left is not looked at.
StoreUnchecked(f, line) == IF f.gLogFile THEN Put(f, line) ELSE Skip(f, line)

\* One line of log_async_thread.
Store(f, line) ==
  IF ~f.gLogFile THEN Skip(f, line)
  ELSE Put(IF Full(f) THEN log_flush(f) ELSE f, line)

\* log_log_sync after check_new_log: a line that finds the buffer full is not kept.
StoreSync(f, line) ==
  IF ~f.gLogFile THEN Skip(f, line)
  ELSE IF Full(f) THEN log_flush(f) ELSE Put(f, line)

-----------------------------------------------------------------------------
(***************************************************************************)
(* log_init                                                                *)
(***************************************************************************)
Init ==
  /\ \E opened \in BOOLEAN : file = EmptyFile(opened)
  /\ gLogAsync = FALSE /\ gAsyncLogBuffer = <<>> /\ holder = Nobody /\ gAsyncExit = FALSE
  /\ apc = "done" /\ local = <<>> /\ dayOver = FALSE
  /\ hpc = [t \in Threads |-> "none"] /\ xpc = "no" /\ exiting = Nobody
  /\ sent = 0 /\ proc = "running" /\ syncLines = 0 /\ exitAt = 0 /\ late = FALSE

\* Thread t runs the program's code and not a signal handler or exit.
AtWork(t) == hpc[t] = "none" /\ exiting # t /\ holder # t /\ (t = Main \/ gLogAsync)

\* Bound: lines logged, with those that threads and handlers have begun.
Room ==
  sent + Cardinality({t \in Threads : hpc[t] # "none" \/ holder = t}) < MaxLines

(***************************************************************************)
(* log_log                                                                 *)
(***************************************************************************)
\* log_log_sync
SyncLine ==
  /\ ~gLogAsync
  /\ \E opened \in BOOLEAN : file' = StoreSync(check_new_log(file, opened), sent + 1)
  /\ dayOver' = FALSE
  /\ sent' = sent + 1
  /\ UNCHANGED <<queue>>

\* The push of log_log_async, by whoever has or takes the mutex.
AsyncLine ==
  /\ gLogAsync
  /\ gAsyncLogBuffer' = Append(gAsyncLogBuffer, sent + 1)
  /\ sent' = sent + 1
  /\ holder' = Nobody
  /\ UNCHANGED <<output>>

LogSync(t) ==
  /\ AtWork(t) /\ Room
  /\ SyncLine
  /\ UNCHANGED <<mode, carrier, leaving, gAsyncExit, hpc, proc>>

LockBuffer(t) ==
  /\ gLogAsync /\ AtWork(t) /\ Room
  /\ holder = Nobody
  /\ holder' = t
  /\ UNCHANGED <<mode, carrier, output, leaving, gAsyncLogBuffer, gAsyncExit, hpc, sent, proc>>

PushLine(t) ==
  /\ holder = t /\ hpc[t] = "none"
  /\ AsyncLine
  /\ UNCHANGED <<mode, carrier, leaving, gAsyncExit, hpc, proc>>

\* log_set_async, once, before the other threads are started
SetAsync ==
  /\ ~gLogAsync /\ AtWork(Main)
  /\ gLogAsync' = TRUE /\ gAsyncExit' = FALSE /\ apc' = "wait"
  /\ syncLines' = sent
  /\ UNCHANGED <<queue, output, leaving, local, hpc, sent, proc>>

-----------------------------------------------------------------------------
(***************************************************************************)
(* log_async_thread                                                        *)
(***************************************************************************)
\* mutant: only a count of lines wakes the thread, and no timeout.
WokenByCount(timeout) == gAsyncExit \/ Len(gAsyncLogBuffer) >= BufferLimit

\* The wait ends: the timeout of three seconds comes whatever the number of lines.
Woken(timeout) == timeout \/ gAsyncExit \/ Len(gAsyncLogBuffer) >= BufferLimit

\* mutant: the lines still in the buffer do not keep the thread from leaving.
LeavesAtOnce == gAsyncExit

Leaves == gAsyncExit /\ gAsyncLogBuffer = <<>>

\* The lines are taken, none perhaps: a wait that ends with no line and without exit has
\* timed out, so that the first `continue` is never reached.
AsyncTake ==
  /\ apc = "wait" /\ holder = Nobody
  /\ \E timeout \in BOOLEAN : Woken(timeout)
  /\ ~Leaves
  /\ local' = gAsyncLogBuffer /\ gAsyncLogBuffer' = <<>>
  /\ apc' = IF gAsyncLogBuffer = <<>> THEN "empty" ELSE "write"
  /\ UNCHANGED <<mode, output, leaving, holder, gAsyncExit, hpc, sent, proc>>

\* Under gAsyncMutex.
AsyncLeave ==
  /\ apc = "wait" /\ holder = Nobody
  /\ Leaves
  /\ apc' = "done"
  /\ UNCHANGED <<mode, queue, output, leaving, gAsyncExit, local, hpc, sent, proc>>

\* Outside it: what was pushed since the swap is not looked at.
AsyncPass ==
  /\ apc = "empty"
  /\ apc' = IF gAsyncExit THEN "done" ELSE "wait"
  /\ UNCHANGED <<mode, queue, output, leaving, gAsyncExit, local, hpc, sent, proc>>

\* The file after each of the lines taken.
Stored(opened) ==
  LET stored[k \in 0 .. Len(local)] ==
        IF k = 0 THEN check_new_log(file, opened) ELSE Store(stored[k - 1], local[k])
  IN  stored

AsyncWrite ==
  /\ apc = "write"
  /\ \E opened \in BOOLEAN : file' = log_flush(Stored(opened)[Len(local)])
  /\ dayOver' = FALSE
  /\ local' = <<>>
  /\ apc' = "wait"
  /\ UNCHANGED <<mode, queue, leaving, gAsyncExit, hpc, sent, proc>>

-----------------------------------------------------------------------------
(***************************************************************************)
(* signal_handler, on a thread that may be anywhere, in log_log_async too. *)
(* SIGUSR1 and the like are a line; SIGSEGV and SIGABRT are a line (that   *)
(* the backtrace adds more changes nothing), log_flush, and the end.       *)
(***************************************************************************)
Interrupt(t, signal) ==
  /\ hpc[t] = "none" /\ (t = Main \/ gLogAsync) /\ Room
  /\ hpc' = [hpc EXCEPT ![t] = signal]
  /\ UNCHANGED <<mode, queue, carrier, output, leaving, gAsyncExit, sent, proc>>

HandlerLogs(t) ==
  /\ hpc[t] \in {"note", "crash"}
  /\ SyncLine \/ (holder = Nobody /\ AsyncLine)
  /\ hpc' = [hpc EXCEPT ![t] = IF hpc[t] = "crash" THEN "flush" ELSE "none"]
  /\ UNCHANGED <<mode, carrier, leaving, gAsyncExit, proc>>

CrashFlush(t) ==
  /\ hpc[t] = "flush"
  /\ file' = log_flush(file)
  /\ proc' = "crashed"
  /\ UNCHANGED <<mode, queue, carrier, leaving, gAsyncExit, dayOver, hpc, sent>>

-----------------------------------------------------------------------------
(***************************************************************************)
(* exit: log_flush and then log_shutdown, as atexit calls them             *)
(***************************************************************************)
Exit(t) ==
  /\ xpc = "no" /\ AtWork(t)
  /\ xpc' = "flush" /\ exiting' = t /\ exitAt' = sent /\ late' = late
  /\ UNCHANGED <<mode, queue, carrier, output, gAsyncExit, hpc, sent, proc>>

ExitFlush ==
  /\ xpc = "flush" /\ hpc[exiting] = "none"
  /\ file' = log_flush(file)
  /\ xpc' = "stop"
  /\ UNCHANGED <<mode, queue, carrier, gAsyncExit, dayOver, hpc, exiting, exitAt, late>>
  /\ UNCHANGED <<sent, proc>>

\* mutant: the thread is not told.
ExitOnlyJoins ==
  /\ xpc = "stop" /\ hpc[exiting] = "none"
  /\ xpc' = "join"
  /\ UNCHANGED <<mode, queue, carrier, output, gAsyncExit, hpc, exiting, exitAt, late>>
  /\ UNCHANGED <<sent, proc>>

ExitStop ==
  /\ xpc = "stop" /\ hpc[exiting] = "none"
  /\ gAsyncExit' = gLogAsync
  /\ xpc' = "join"
  /\ late' = (gLogAsync /\ apc = "empty" /\ gAsyncLogBuffer # <<>>)
  /\ UNCHANGED <<mode, queue, carrier, output, hpc, exiting, exitAt, sent, proc>>

ExitJoin ==
  /\ xpc = "join" /\ hpc[exiting] = "none"
  /\ apc = "done"
  /\ file' = fclose(IF gLogAsync THEN log_flush(file) ELSE file)
  /\ proc' = "exited"
  /\ UNCHANGED <<mode, queue, carrier, leaving, gAsyncExit, dayOver, hpc, sent>>

-----------------------------------------------------------------------------
(***************************************************************************)
(* Midnight, and the C library writing when it likes                       *)
(***************************************************************************)
NewDay ==
  /\ ~dayOver
  /\ dayOver' = TRUE
  /\ UNCHANGED <<mode, queue, carrier, leaving, gAsyncExit, file, hpc, sent, proc>>

StdioSpills ==
  /\ file.stdio # <<>>
  /\ file' = fclose(file)
  /\ UNCHANGED <<mode, queue, carrier, leaving, gAsyncExit, dayOver, hpc, sent, proc>>

ThreadNext(t) == LogSync(t) \/ LockBuffer(t) \/ PushLine(t) \/ Exit(t)
HandlerNext(t) ==
  \/ \E signal \in {"note", "crash"} : Interrupt(t, signal)
  \/ HandlerLogs(t)
  \/ CrashFlush(t)

Next ==
  /\ proc = "running"
  /\ \/ \E t \in Threads : ThreadNext(t) \/ HandlerNext(t)
     \/ SetAsync
     \/ AsyncTake \/ AsyncLeave \/ AsyncPass \/ AsyncWrite
     \/ ExitFlush \/ ExitStop \/ ExitJoin
     \/ NewDay \/ StdioSpills

Spec == Init /\ [][Next]_vars

(***************************************************************************)
(* A thread in a critical section or in a handler, the one in exit and the *)
(* asynchronous one go on.  gAsyncMutex is handed out fairly enough that   *)
(* nobody waits for it for ever while it is free again and again.  Threads *)
(* need not log, and signals need not come.                                *)
(***************************************************************************)
Running(A) == proc = "running" /\ A

Fairness ==
  /\ \A t \in Threads : /\ WF_vars(Running(PushLine(t)))
                        /\ SF_vars(Running(HandlerLogs(t) \/ CrashFlush(t)))
  /\ SF_vars(Running(AsyncTake \/ AsyncLeave \/ AsyncPass \/ AsyncWrite))
  /\ SF_vars(Running(ExitFlush \/ ExitStop \/ ExitJoin))

FairSpec == Spec /\ Fairness

-----------------------------------------------------------------------------
(***************************************************************************)
(* Properties                                                              *)
(***************************************************************************)
Lines == 1 .. MaxLines

Files == [gFileBuf : Seq(Lines), stdio : Seq(Lines), disk : Seq(Lines),
          gLogFile : BOOLEAN, skipped : SUBSET Lines]

LoggerTypeOK ==
  /\ file \in Files
  /\ gAsyncLogBuffer \in Seq(Lines) /\ local \in Seq(Lines)
  /\ gLogAsync \in BOOLEAN /\ gAsyncExit \in BOOLEAN /\ dayOver \in BOOLEAN /\ late \in BOOLEAN
  /\ holder \in Threads \union {Nobody} /\ exiting \in Threads \union {Nobody}
  /\ apc \in {"wait", "write", "empty", "done"} /\ xpc \in {"no", "flush", "stop", "join"}
  /\ hpc \in [Threads -> {"none", "note", "crash", "flush"}]
  /\ sent \in 0 .. MaxLines /\ syncLines \in 0 .. MaxLines /\ exitAt \in 0 .. MaxLines
  /\ proc \in {"running", "exited", "crashed"}

\* The variables are of their types, and gFileBuf never has more than gFlushCacheSz
\* characters (log_init, logger.cpp:87), whichever of the two ways of logging has filled it:
\* the memcpy of log_async_thread does not pass its end either while it stores the lines
\* taken, one after another, on top of what was left there (logger.cpp:151-172).
BufferFits ==
  /\ LoggerTypeOK
  /\ Len(file.gFileBuf) <= FlushCacheSz
  /\ \A opened \in BOOLEAN : \A k \in 0 .. Len(local) :
       Len(Stored(opened)[k].gFileBuf) <= FlushCacheSz

Written  == file.disk \o file.stdio
Pipeline == Written \o file.gFileBuf \o local \o gAsyncLogBuffer
InSome(lines) == file.skipped \union {lines[i] : i \in DOMAIN lines}

\* Lines reach the file in the order in which they were logged, whichever thread logged
\* them, and none twice: over the change to the asynchronous thread, a full buffer, a
\* rotation and the flushes of a handler and of exit (log_async_thread, log_flush).
InOrder == \A i, j \in DOMAIN Pipeline : i < j => Pipeline[i] < Pipeline[j]

\* While the process runs, every line logged asynchronously is in the file, on its way to
\* it, or was skipped because there was no file (log_async_thread, logger.cpp:131-173).
NothingLost ==
  proc = "running" => syncLines + 1 .. sent \subseteq InSome(Pipeline) \/ ~gLogAsync

Buffered == {gAsyncLogBuffer[i] : i \in DOMAIN gAsyncLogBuffer}

\* When the process has ended by exit, every line logged asynchronously before it is on
\* the disk, though the threads have gone on logging; but for what came in the window of
\* the second look at gAsyncExit, outside the mutex, if exit has set it in this very
\* window (log_shutdown, logger.cpp:93-108, and log_async_thread, logger.cpp:125-137).
ExitWritesAll ==
  proc = "exited" /\ gLogAsync =>
    syncLines + 1 .. exitAt \subseteq InSome(file.disk) \union (IF late THEN Buffered ELSE {})

(***************************************************************************)
(* The inductive invariant behind these four.                              *)
(***************************************************************************)

\* the lines that threads and handlers have begun fit the bound
Begun == {t \in Threads : hpc[t] \in {"note", "crash"} \/ holder = t}
BegunFit == sent + Cardinality(Begun) <= MaxLines

\* there is always room for one more, and nothing waits for a file that is not there
BufferHasRoom == Len(file.gFileBuf) < FlushCacheSz /\ (~file.gLogFile => file.gFileBuf = <<>>)

\* before log_set_async there is no batch, and none outside the write of one
BatchInWrite ==
  /\ ~gLogAsync => local = <<>> /\ gAsyncLogBuffer = <<>> /\ holder = Nobody
  /\ apc # "write" => local = <<>>

UpToSent == \A i \in DOMAIN Pipeline : Pipeline[i] <= sent

KeepsAll == gLogAsync => syncLines + 1 .. sent \subseteq InSome(Pipeline)

\* the asynchronous thread leaves only in exit, and what is in the buffer then, or when it
\* is about to leave without a look at it, came after exit, unless it was late
NoneFromBefore == \A i \in DOMAIN gAsyncLogBuffer : exitAt < gAsyncLogBuffer[i]

LeftInExit ==
  /\ exitAt <= sent
  /\ gAsyncExit => xpc = "join"
  /\ gLogAsync /\ apc = "done" => gAsyncExit /\ (late \/ NoneFromBefore)
  /\ gAsyncExit /\ apc = "empty" => late \/ NoneFromBefore

LoggerIInv ==
  /\ LoggerTypeOK /\ BegunFit
  /\ BufferHasRoom /\ BatchInWrite
  /\ InOrder /\ UpToSent /\ KeepsAll
  /\ LeftInExit /\ ExitWritesAll

\* A handler waits for gAsyncMutex on the thread that has locked it.
SelfDeadlock == \E t \in Threads : hpc[t] \in {"note", "crash"} /\ holder = t

\* A line logged asynchronously is written to the file within some time, although the
\* buffer is not full, unless the process ends or a signal has caught a thread in the
\* critical section of log_log_async (the timeout of log_async_thread).
LineIsWritten ==
  \A line \in Lines :
    gLogAsync /\ line \in syncLines + 1 .. sent
      ~> line \in InSome(Written) \/ xpc # "no" \/ proc # "running" \/ SelfDeadlock

\* exit ends the process: the asynchronous thread that log_shutdown joins leaves, with
\* the same exception (log_shutdown).
ExitEnds == xpc # "no" ~> proc # "running" \/ SelfDeadlock

\* What logger.h:6 says, "periodic batched flushing, and on close/crash/swap": a process
\* that crashes has its lines on the disk.  It does not hold: the handler's log_flush does
\* not reach gAsyncLogBuffer, to which the report of the crash itself has gone.
CrashFlushes == proc = "crashed" /\ gLogAsync => syncLines + 1 .. sent \subseteq InSome(file.disk)

\* What logger.h:6 says, "periodic batched flushing, and on close/crash/swap": a process
\* that is closed has on the disk what was logged before.  It does not hold: the second
\* look at gAsyncExit (logger.cpp:135) does not see what came after the swap.
CloseFlushes ==
  proc = "exited" /\ gLogAsync => syncLines + 1 .. exitAt \subseteq InSome(file.disk)
=============================================================================
