# TLA+ models of server_base

server_base is a small C++ base for network servers: libuv loops, one per
thread, that serve TCP, HTTP and JSON-RPC; stackful coroutines on top of them; a
PostgreSQL connection pool; a logger, statistics and a keepalive parent process.
`auth_server` is the program that uses nearly all of it. These modules model its
core: what happens between a client's request, the coroutine that serves it, the
pool it leases a connection from, and the database that may fail at any point; the processes, threads and buffers it runs on;
and the one program in which several threads share a heap, a thread pool and counters.

## Inventory

| Part | Files | State | Operations | Modelled by |
|---|---|---|---|---|
| connection pool | `auth_server/db_pool.*` | array of `DBConnectionCtx`: connection, poll handle, stream, four flags | initialise, acquire, release, poll callback, check/reconnect timer | `DbPool`, `ConnLease` |
| handlers | `auth_server/auth.*` | one coroutine per request: its place, `db_ctx`, `conn`, `mClient` | `auth_login`, `auth_register` | `DbPool`, `AuthServer` |
| HTTP / JSON-RPC server | `utils/network.*` | a `uv_tcp_t` per connection | new connection, read, dispatch, write, close, coroutine timer | `AuthServer` |
| untracked coroutines | `utils/coroutine_mgt.*` | list of `Coro2` | create, step, clean up, destroy all | `AuthServer` |
| managed coroutines | `utils/coroutine_mgt.*` | slot map of `Coro`, the states of minicoro | create, get, destroy (one, all), step, clean up | `ManagedCoroutines` over `SlotMap` |
| slot map | `utils/slotmap/*` | slots, free ids, highest id | add, get, remove, clear, iterate | `SlotMap` |
| keepalive parent, signals | `utils/os_utils.*` | parent and child process | start, fork, wait, restart, signals, exits | `KeepAlive`; `DbPool` (restart), `Logger` (handler) |
| logger | `utils/logger.*` | two buffers, file, async thread | log, flush, rotate, shut down | `Logger` |
| statistics | `utils/server_stats.*` | perf records, a static index per `TIMER_END` | add, get, update, print | `ServerStats` |
| `sample_http` | `sample_http/main.cpp` | four loops on one port, jobs of the thread pool | read, `heavyload` and the callback after it, `/stats`, close | `JobQueue`, `SampleHttp` |
| TCP server, sample programs, JWT, SQL scripts | | | | not modelled, see below |

How the parts interact. One thread runs one loop. `http_on_read` parses a request
and either answers and closes the connection in the same callback, or, for
`login` and `register`, appends a coroutine to the manager's list and leaves the
stream to it. A 1 ms timer resumes every coroutine of the list in turn, then
erases the dead ones and closes their streams. A coroutine asks the pool for a
connection at every resume, up to a time limit; then sends its query, starts the
poll of that connection and yields until the poll callback has set `mDataReady`
or `mTerminate`. The poll callback also closes the stream when the connection
fails. A 3 s timer pings the database and, when something is wrong, replaces the
connections. The coroutine and the callbacks share the contexts without locks:
all of it is one thread, and every hazard is in what is still true after a yield.
`sample_http` has four such loops: connections belong to a loop, but the memory of their
handles, the thread pool of libuv, which runs the jobs of `heavyload`, and the records of
the statistics are shared. Around each program is `fork_process_and_keepalive`: the parent
waits for the child that serves and forks again when it dies of a signal.

What is hard: a client that hangs up, a connection that dies, a reconnect, a
second request on the same connection, a restart of the process, at every point
between the yields of every coroutine; and handles whose memory is reused.
`PROJECT.json` lists these hazards with their lines and the properties that look
at them.

## Modules

`DbPool` - the pool and the coroutines that use it. Contexts are `0 .. NumConns - 1`,
the flags of `DBConnectionCtx` are sets of contexts, `mConn` and `mPollData` say
what the pointers point to. A coroutine is where it yields (`acquire`: in
`yield_until_db_ctx_or_time_limit`; `wait`: in `start_poll_and_yield_until_polldata`),
`ctx` is its `db_ctx` and `conn` its copy of the `PGconn*`, which a reconnect may
free. Every action is one callback, or one coroutine from one yield to the next,
with the release and the reply in it. In `update` the loop is blocked in
`PQgetResult`, so no action of the loop is enabled but its end. PostgreSQL and libpq are
`dbUp`, `sock` (a broken socket that nobody has noticed yet: FIN or RST), and
`cmd` (from a query sent to its answer, read or left unread). The contents of answers
and the clock are choices. `CheckConnections(k)` is the whole timer callback: `k`
is the context at which its loop stops.

`ConnLease` - what a pool promises, in four actions: grant, return, give up, and the
end of the process. `DbPool!ImplementsLease` maps `mInUse` and `mStream` to
its lease.

`AuthServer` - `DbPool` in its loop. It extends `DbPool` and conjoins its actions
with what decides when they run and on which stream: the phases of a libuv
iteration, the list with its index, the heap cells of the `uv_tcp_t` (open,
closing, freed, given to the next client), and the reply as something that reaches
the client the cell belongs to. `uv_is_writable` and `uv_is_closing` become `Open`,
which fixes the argument `w` that `DbPool` leaves free. A freed cell reads as closing
until it is reused: that is one of the outcomes of reading freed memory; that it
may also fault is `ProcessDies`.
`clients` is chosen once: clients do as they like, or are polite, that is, send one request and
wait for the answer.

`SlotMap` - `SSlotMap` and `SlotMapTracker`: ids, versions and the deleted bit as a
record, the 16-bit counter and the masks as `%`, and histories of which handles are
live and stale. `MakeHandle` and `GrantHandle` wrap where the C++ does.

`Logger` - the logger of one process, with the signal handler that logs. Lines are numbered
as they are logged. The main thread logs into `gFileBuf` (`LogSync`) until `SetAsync`; then
every thread locks `gAsyncMutex` and pushes (`LockBuffer`, `PushLine`: two steps, so that a
signal can come between), and the asynchronous thread takes the batch and stores it
(`AsyncTake`, `AsyncWrite`). It looks at `gAsyncExit` twice: under the mutex (`AsyncLeave`), and once more when what it has
taken was empty, outside it (`AsyncPass`). What is pushed between that swap and `exit`, before the second look, is left behind;
`late` records that this has happened. `file` is a record of what is in `gFileBuf`, in the buffer of the
C library and on the disk, and `log_flush`, `check_new_log`, `Store` and `fclose` are functions on
it. `exit` may be called by any thread while the others go on (`db_pool.cpp:30` does);
its steps are `ExitFlush` (the `atexit` call of `log_flush`) and `ExitStop`, `ExitJoin`
(`log_shutdown`).

`ManagedCoroutines` - the managed half of `CoroutineManager`. It extends `SlotMap`, whose objects
are the addresses of `mco_coro`, and conjoins `Add`, `Remove` and `Clear` with the state
that minicoro keeps of each. A round is `BeginStep`, then for each index `Resume`,
`BodyStops` or `PassOver`, then the same walk for `Reap`; between `Resume` and `BodyStops` the body
creates and destroys coroutines as it likes, its own handle included, and the owner does between rounds.
`mco_destroy` refuses the coroutine that runs, and its result is not looked at
(`lost` has those). No program of the repository creates a managed coroutine, so the callers are
taken to do what `coroutine_mgt.h` allows, with one exception: a handle of an
`autodelete` coroutine may be kept and used. When the coroutine is dead the usage of the header holds
all the same, as `mco_status(NULL)` says dead too.

`KeepAlive` - the processes of one program. `pc` is where each is in `process_exist`,
`fork_process_and_keepalive`, `waitpid` and `usleep`; `up` and `kid` are the tree; `handlers` and
`exiting` are what `fork` copies of `init_signals` and `gSignalExit`; `buf`, `stdio` and `written` follow the line that
reports a crash through `gFileBuf` and the buffer of the C library, which `fork` copies too, to the file. `LogLine` is
`log_log_sync`: the line is stored, or finds `gFileBuf` full or no file and is not (`dropped`), or is the first of a day.
Of the other lines of a process (`ChildLogs`, `Marked`) only what they do to the reports is kept. A process that is killed loses
both buffers; the handler of a crash moves `gFileBuf` no farther than the C library, unless its own line is the first of a new
day, whose rotation closes the file. A report whose last copy is lost with a process is in `gone`. `Kill` is any death by a signal,
at any point; `Term` is a signal with its handler. `gSignalExit` is read only after `waitpid` has
failed, so elsewhere the handler stops nothing (`Marked`).

`ServerStats` - `TIMER_END` and the pages. The static index of a place is initialised by one thread while the
others wait for it; `AddPerfRecord` is two steps, since `push_back` may copy the records while other
threads write them, and the assignment of `ret_idx` (`ret`), which was read under `gPerfMutex`, to the static is a third, in
which the mutex is not held; `Update` is two steps under the mutex of the record. A thread whose
pointer is into freed memory is `stale`. A copied mutex stays in the state it had: if locked, nobody
unlocks the copy. The comment of `server_stats.h:38` warns of keeping the pointer, and `TIMER_END` keeps it
over the lock. `overtaken` records that this has happened.

`JobQueue` - connections of several loops over one heap, and the jobs of `uv_queue_work`, each with
the stream that asked. `heavyload` does not close the stream; its answer says "Connection: close"
and does not close it either. `main.cpp:179` says that it is now safe to write the response: it is for a
client that has waited, which is `JobHoldsStream`, and not for one that has gone (`ReadsForeign`).

`SampleHttp` - the two composed: a loop that waits for a mutex of the statistics calls no
callback meanwhile, of jobs neither. `ProcessDies` is what reading freed memory may do.

`DbPoolProofs`, `AuthServerProofs`, `SlotMapProofs`, `ManagedCoroutinesProofs`, `LoggerProofs`, `KeepAliveProofs`,
`ServerStatsProofs`, `SampleHttpProofs` - theorems. `MC...` - model values for TLC. Definitions commented `mutant:` are wrong on
purpose and used by no action: they are the bugs that the properties are known to catch.

## Runs

| Configuration | Instance | Properties |
|---|---|---|
| `MCDbPool` | 2 connections, 1 login and 1 registration | `TypeOK`, `ExclusiveLease`, `AtMostOneReply`, `PollHandleExists`, `WaitHasWaker`, `AnswerIsOwn`, `RequestEnds`, `BadConnReplaced`, `ImplementsLease` |
| `MCAuthServer` | 1 connection, 2 coroutines, 2 clients, 2 heap cells, any and polite conduct | `ServerTypeOK`, `ListIsLive`, `ClosingIsNeverSeen`, `ClosedWithRequest`, `AnswersReachAsker`, `ToldOwnOnce`, `RequestEnds` |
| `MCManagedCoroutines` | 2 ids, versions modulo 4, 3 coroutines | `CoTypeOK`, `LiveResolves`, `StaleIsNull`, `IterationIsLive`, `NothingDangles`, `OneTurnEach`, `ImplementsSlotMap`, `DeadIsReaped` |
| `MCKeepAlive` | 4 processes, 2 deaths | `SingleServer`, `Watched`, `ExitIsFinal`, `ReportsKept`, `ServerComesBack` |
| `MCSampleHttp` | 2 loops, 2 places, 1 worker, 2 heap cells, 3 clients, 3 requests | `JobHoldsStream`, `IndexIsOwn`, `CallsCounted`, `CountersNeverDrop`, `ClientsAreServed` |
| `MCLogger` | 2 threads, 3 lines, a `gFileBuf` of 2, a limit of 2 | `BufferFits`, `InOrder`, `NothingLost`, `ExitWritesAll`, `LineIsWritten`, `ExitEnds` |
| `MCDbPoolPollingError` | 2 connections, 2 coroutines | violates `PollingErrorStopsCoroutine` |
| `MCDbPoolAsyncUpdate` | the same | violates `UpdateIsAsync` |
| `MCDbPoolFreeConn` | the same | violates `FreeConnTakesQuery` |
| `MCAuthServerStreamDeath` | polite clients | violates `StreamOpenUntilDeath` |
| `MCLoggerCrash` | 2 threads, 3 lines | violates `CrashFlushes` |
| `MCLoggerClose` | 2 threads, 3 lines | violates `CloseFlushes` |

Bounds. In `DbPool` two connections are the least for which the choice of a connection and
the early end of the reconnect loop matter, and a login and a registration between them take every way out
of the handlers (the safety properties are proved for any number). The
coroutines are created once each, so all behaviours are finite but for the
failures of the database and the process, which are not bounded. In
`AuthServer` one connection suffices, since the choice among several is `DbPool`'s;
two clients and two cells allow a freed cell to be reused while its old owner's
coroutine lives, and two coroutines on one connection. In `ManagedCoroutines` a version wraps
after two recyclings and three are allowed (`MaxRecycles`); three coroutines over two ids let the ids
run out, and let a body of one create another in the slot of a third. In `KeepAlive` four processes
are a parent, an orphan of an earlier one, the present child and one that is started meanwhile; two
deaths follow a crash by the crash of the restarted server (`MaxDeaths`). In `SampleHttp` two loops
contend for the records, two places make the vector grow under a user, and with three clients over two
cells a cell is used again, by either loop, while a job still points to it; three requests
(`MaxRequests`) are two jobs and a call, or a job between two calls. In
`Logger`, `MaxLines` lines are logged in all, by threads and handlers; with three and a buffer
of two, which holds one line, a batch can be larger than the buffer, and can follow a line
left there by the synchronous way; two lines (`BufferLimit`, 120 in the code) are enough to wake the thread by their number.

Deadlock is checked but in the runs of `Logger`, where the process ends, and in `SampleHttp`, where clients and
requests are used up. The others never stop: the database goes up and down, rounds follow
each other, and programs are started again, for ever.

Fairness (`Fairness`, `ServerFairness` and the `Fair...` specifications). The coroutine timer repeats every
millisecond (`auth_server/main.cpp:90`), so each coroutine is resumed again and
again: weak fairness of `Resume(u)` in `DbPool`. In `AuthServer` this is derived:
only the loop itself is fair, plus that its timer becomes due in some iteration
(`BeginStep`), that a readable socket is served in some iteration, and that the
clock passes a limit (`OutOfTime`). A live database answers; one that is down comes
back (only `DbPool` needs that, for `BadConnReplaced`); the keepalive parent
restarts a killed child. The reconnect gets strong fairness for the case that all
connections succeed: the 3 s timer finds the database able to do that infinitely
often. Clients are never assumed fair. In `Logger` a thread that
holds `gAsyncMutex`, a handler, the thread in `exit` and the asynchronous thread go on, and
nobody is passed over for ever when the mutex is free again and again; whether anything
is logged, signalled or exits is left open. The timeout of three seconds is why a
single line wakes the asynchronous thread (`Woken`). In `ManagedCoroutines` rounds follow each other (the same
timer) and a body stops in the end, at a yield or its own; nothing is assumed of what it calls. In
`KeepAlive` a process that is not blocked runs (`ParentStep`, `InitSignals`); nobody has to start,
kill or signal anything. In `SampleHttp` a worker ends its work and a loop goes on with the request it
serves or the callback of a job (`Works`, `GoesOn`): weak fairness, and no fairness of any mutex, as
the requests are bounded and so is the time that others can hold one.

What the passing runs show. A context has one holder and the holder's stream, on
all the ways out of the handlers. A request is answered at most once: "Query
failed #3" cannot follow the token, because nothing can set `mTerminate` while the
update blocks the loop (two wrongs that cancel out: see below). A coroutine that
still has its connection can be woken, and reads the answer to its own query, whatever
was left by earlier leases. Requests end unless a reconnect took their connection.
The coroutine list is exact. No coroutine ever sees a handle in the closing state: the
`uv_is_closing` tests of the coroutines only ever read an open or a freed handle.
A connection does not outlive the first request it made. A line logged
asynchronously reaches the file once and in order, or is skipped because there is no file. When the process has exited, the
lines logged before are on the disk, but for those in `gAsyncLogBuffer` when `exit` has come between the swap of an
empty buffer and the second look at `gAsyncExit` (`late`; `CloseFlushes` below is the promise without this exception); a signal that catches a thread in the
critical section of `log_log_async` stops the logger and `exit` for good
(`SelfDeadlock`), which is why the liveness properties except it.

A handle finds its coroutine or nothing, also when bodies destroy and create others in the middle of the walk,
until 2^15 ids are taken (`overflown`) or a slot has been recycled 2^14 times; no round resumes anybody twice or
passes over one that waited, and nothing dead stays. One server runs at a time, whatever
is killed when, because the lock of `process_exist` is on an open file that
`fork` hands to the child; the parent does not lose its child through a signal. The report of a crash, once
`log_log_sync` has stored it, comes to the file or stays in a buffer of a living process; it is lost if its line finds `gFileBuf` full
or no file, if every process that has a copy in memory is killed, or if the parent is killed before it has seen the death
(`ReportsKept`). A client of `sample_http` that waits is answered on its own stream by its own loop, though jobs of
all loops pass through one pool; counters on the pages never go down. But records that are moved by
`push_back` while a thread is within `Update` lose calls, and a mutex that is
copied in the locked state stops, for ever, every loop that comes to it: `CallsCounted` and
`ClientsAreServed` except that case by `overtaken`, which `server_stats.h:38` warns of in part. It can
happen only while the places of a program are reached for the first time.

What the violation runs show, each against a sentence of the repository:

- `PollingErrorStopsCoroutine` (`db_pool.h:36`): a reconnect between the polling error
  and the next step of the coroutine clears `mTerminate`; the coroutine waits for ever and its
  context is never released.
- `UpdateIsAsync` (`auth.cpp:154`): `mDataReady` still stands from the first query,
  the wait for the update does not wait, and `PQgetResult` blocks the loop.
- `FreeConnTakesQuery` (`db_pool.h:11`): after `PGRES_FATAL_ERROR` a login returns the
  connection with results unread, and libpq refuses every later query on it.
- `StreamOpenUntilDeath` (`coroutine_mgt.h:38`): the poll callback closes the stream
  of a live coroutine, whose handle is freed before the coroutine replies on it.
- `CrashFlushes` (`logger.h:6`): the handler of `SIGSEGV` flushes `gFileBuf`, while the lines,
  its own report too, are in `gAsyncLogBuffer`.
- `CloseFlushes` (`logger.h:6`): after three seconds without a line the asynchronous thread swaps an empty buffer and looks at
  `gAsyncExit` outside `gAsyncMutex`; a line pushed since then, before `exit` sets it, is never written.

`AnswersReachAsker` says what remains of `StreamOpenUntilDeath`: with clients that send one
request and wait for the answer, and no failing poll, answers reach who asked.
`RequestEnds` excuses the first (`conn[u] = "finished"`).

## Proofs

Checked by TLAPS for every `NumConns`, `Coros` and `Logins` (`DbPoolAssumption`):
`TypeCorrect`, `LeaseIsExclusive`, `RepliesOnce`, `PollNeverNull`, `WaitIsWoken`,
`ReadsOwnAnswer` and `PoolImplementsLease`, that is, all safety properties of `DbPool`.
They follow from one inductive invariant, `IInv`. Exclusiveness alone is not
inductive: a coroutine that returns without a connection must be known to hold none
(`HoldsIff`); one reply at most needs that the loop is blocked during an update and
`mTerminate` is clear then (`UpdateBlocks`) and that nothing is said before
(`RepliesSoFar`); own answers need that the data of a context whose connection the holder
still has is its own (`ReadyIsOwn`); polls need that connections and poll handles come
and go together (`NullTogether`). The refinement is proved step by step from `IInv`:
grants, returns and refusals map to those of `ConnLease`, callbacks to stutters. Of `ConnLease` itself
`OneLeaseEach` is proved, and through the refinement, of the pool (`LeasedOnce`): a request leases one
connection at most, and none once it has given one back or given up.

For every number of connections, coroutines, clients and heap cells: `ServerKeepsPoolPromises`, that all of the above is
true in the server, whose actions are built from those of the pool (the lemma `ServerImplementsPool`), and `ServerTypeCorrect`, `ListIsExact`, `NeverSeenClosing`,
`ConnectionsEnd`, `PoliteAreAnswered`: all safety properties of `AuthServer`. The invariant, `ServerIInv`, adds to
`IInv` that a handle is closing in the poll phase only (`ClosingInPoll`: what is closed by its callbacks, or by the cleanup just before it, is freed at its end);
that a client has one cell, and a cell that is not free one client (`OneCellEach`); that a coroutine was asked for by a client
seen (`Asked`), whose only connection is the coroutine's stream (`AskersOnly`): without this, a client could have a
second one left when its coroutine is reaped. For polite clients (`PoliteOnes`) a client has one coroutine, which holds its stream,
and was told nothing before the coroutine's last step. The list stays without duplicates when the process has
died in the middle of a walk (`ListOnce`), which `ListIsLive` leaves out and the restart needs. `PoliteAreToldOnce` follows from it too: what such
a client is told is the outcome of its own request. A pass of the cleanup is
the function `Kept`, of which it is proved that it returns those of the list that are kept, each once.

For every `IdMod`, `VersionMod` and set of objects (`SlotMapAssumption`):
`SlotTypeCorrect`, `LiveHandlesResolve`, `StaleHandlesAreNull`, `FreeListIsExact`. The
invariant `SlotIInv` says that slots are the ids granted so far, that versions are even in
use and odd when free and count the recyclings until they wrap, that a free id has the
version of its deleted slot, and that stale handles are older than their slots. It
holds until an id is granted when all are taken (`overflown`), after which nothing is
claimed. `IterationIsExact` counts: `Count` is the number of live handles because
the free list and the deleted slots are in bijection, as are the other slots and the live handles. What is true even after
an overflow, that a slot not marked deleted has a live handle with its index, is `SlotsReached`; the loops of the manager rest on it.

For every `IdMod`, `VersionMod` and set of coroutines: `ManagerImplementsSlotMap`, that each step of the
manager is one that `SlotMap` allows or leaves it alone, from which `HandlesAreWeak` (`LiveResolves`, `StaleIsNull` and
`IterationIsLive` of the manager) follows with the theorems on `SlotMap`; `CoTypeCorrect`, `NothingIsForgotten`, `TurnsAreFair`. The invariant `CoInv` adds to `SlotIInv`
that a coroutine is in one slot at most and allocated as long as it is there (`InSlots`), that one runs exactly in a body
(`OneRuns`), and that those resumed in this round are below the index and those due and not yet resumed at or above
it (`Turns`): this is why a recycled slot, on either side of the index, cannot give anybody a second turn.

For any set of processes and any `MaxDeaths`: `TypeCorrect`, `OneServer`, `ChildIsWatched`, `NoneAfterExit`,
`ReportsSurvive`. A single server is not inductive: that children and parents know each other (`KidsMatch`), that there
is one parent and every server beside it is its child (`OneParent`), and that after an exit the
parent is about to see it (`ExitIsSeen`) are needed (`TreeInv`). For the reports, a death that was neither written, nor dropped, nor lost, and that no buffer has, is the
latest one, and who does not live has nothing in either buffer (`ReportInv`).

For any threads and places (`StatsAssumption`): `StatsTypeCorrect`, `IndexFindsItsRecord`, `NoCallIsLost`,
`CountersAreMonotonic`. `StatsInv` says who holds `gPerfMutex` (`MutexInv`), that a place has one record, from the
`push_back` of the thread that initialises its static on, which `ret` finds before the static does (`RecordInv`), that the copy prepared by `push_back` is behind the records
but not behind what a page has shown, as pages wait for `gPerfMutex` (`CopyInv`), and that whoever has locked a
record that is not freed is alone with it (`LockInv`). As the actions of `SampleHttp` are built from those of
`ServerStats` (the lemma `LoopsUseTheStats`), all four hold of it (`SampleKeepsTheStats`); with them `SampleTypeCorrect` and `WaitingClientKeepsItsStream` are proved
for any number of loops, clients, cells and requests: a cell is given away only when it was freed, only its own loop
closes it, and that loop does so only through the callbacks of the connection (`OpenInv`, `JobInv`, `ServingInv`).

For any finite set of threads, any `FlushCacheSz` from two lines on, any `BufferLimit` from one on and any `MaxLines` (`LoggerAssumption`): `BufferNeverOverflows`,
`LinesStayInOrder`, `NoLineIsLost`, `ExitIsComplete`. `BufferFits` speaks of every line of a batch, and not of its end
alone, since the loop of `log_async_thread` stores one after another on top of what is left there. `LoggerIInv` says that there is always room for
one line more and that without a file nothing is in the buffer (`BufferHasRoom`: it depends on the `>=` of `logger.cpp:151`); that the batch is empty but in the write (`BatchInWrite`); that nothing in the pipeline is
later than the last line logged (`UpToSent`), which is why what is pushed next keeps the order; that all of it is kept as long as the
process lives, and in `exit` too (`KeepsAll`); that the asynchronous thread leaves only in
`exit`, and that what is in the buffer then was pushed later than `exitAt` (`NoneFromBefore`), unless `exit` was `late`, and the same when it is
about to look at `gAsyncExit` again (`LeftInExit`). `BegunFit` is about the bound `MaxLines` and
not about the code: lines begun fit it. The invariants `ServerIInv` and `LoggerIInv` were checked by TLC on the instances of
the runs before they were proved.

Three facts about data are proved by induction: what `Kept` returns, that `Stored` keeps the order and loses nothing, and that these
recursive functions exist at all, which a `LET f[n] == ...` does not say by itself. The induction is over a set of numbers:
if one is not in the set there is a least one (`SetInduction`, from `WFMin`).

Only model-checked: liveness, which is outside the reach of the prover: `RequestEnds` (in `DbPool` and in `AuthServer`),
`BadConnReplaced`, `DeadIsReaped`, `ServerComesBack`, `ClientsAreServed`, `LineIsWritten`, `ExitEnds`. Every other property of
a passing run is stated by a theorem.

## Not modelled

- `utils/yyjson.*`, `utils/picohttpparser.*` and most of `utils/minicoro.h`, 22000 of the 26000 lines of C and C++ in
  the repository, are vendored libraries: the parsers are one step of the model each, with every result they may give,
  and minicoro is modelled as far as the manager calls it. Of the repository's own code, about half of the
  lines are in the map; the rest is set-up, wording and what follows.
- The TCP server (`tcp_on_read`) and `sample_server`, which answer in the callback that reads and keep no state between
  two; `alt_program`, `prometheus_test`; `security.cpp`, two calls of libjwt; the SQL scripts.
- `ShutdownConnections` and the `DestroyAllCoroutines` of the untracked list, which run after `uv_run` has
  returned: no program makes that happen.
- Bytes of requests. `http_on_read` is given whole requests; that it parses as far as `buf->len` and not
  `nread` (`network.cpp:341`) is beyond the model, like the lengths of the HTML page (`server_stats.cpp:122`).
- The hash variant `SlotMap`, which has no user; its tracker is the one that is modelled.
- Of the statistics: averages, maxima and histograms, written together with `mCalls`; `mCalls` is an `int`, whose overflow after
  2^31 calls is left out (`calls` is a natural number), and with it the counter that would go down then; `Reset`, which nobody calls.
- Of the keepalive: `set_process_limits`, the title, `DEVELOPER_BUILD` with its five restarts, and the programs that
  `process_exist` turns away.
- Of the logger: `delete_logs_beyond`, the console and `LOG_AUTO_FLUSH` of the developer's build; a signal is taken
  to arrive outside `gLogMutex`, which is recursive, so a handler may enter `log_log_sync` within itself there: nothing
  is promised of lines that a signal interrupts.

## Plan

Done: `DbPool`, `ConnLease`, `AuthServer`, `SlotMap`, `ManagedCoroutines`, `KeepAlive`, `Logger`, `ServerStats`, `JobQueue`,
`SampleHttp`, and the proofs of all their safety properties.

Next, in this order:

1. A module that composes `KeepAlive` with `DbPool`, whose `Restart` and `RestartFails` have the parent in them in one
   step, with the proof that what `DbPool` promises holds from one process to the next.
2. The lines of the logger over `fork`: `KeepAlive` has one line per process, `Logger` one process.
