------------------------------- MODULE DbPool -------------------------------
(***************************************************************************)
(* The PostgreSQL connection pool of auth_server (db_pool.cpp) and the     *)
(* request coroutines that lease its connections (auth.cpp).               *)
(*                                                                         *)
(* One process runs one libuv loop in one thread.  An action below is what *)
(* one callback does, or what one coroutine does between two yields; a     *)
(* coroutine that a libpq call blocks blocks the loop with it.             *)
(*                                                                         *)
(* The answers' contents, the SQL and the clock are left out: what a query *)
(* returns and when a time limit has passed are choices.  A coroutine's    *)
(* stream is the coroutine's name; whether it is writable is the argument  *)
(* w of the actions that ask, which AuthServer computes.                   *)
(***************************************************************************)
EXTENDS Integers, FiniteSets

CONSTANTS
  NumConns,  \* mNumConnections
  Coros,     \* the request coroutines a run of the model may create
  Logins,    \* those that run auth_login; the others run auth_register
  NoStream   \* mStream = nullptr

ASSUME DbPoolAssumption ==
  /\ NumConns \in Nat \ {0}
  /\ Logins \subseteq Coros
  /\ NoStream \notin Coros

VARIABLES
  \* PostgreSQL, the sockets to it and what libpq has read from them
  dbUp,             \* the server accepts connections (PQping, PQconnectdb)
  sock,             \* per context: "ok", "eof" (FIN) or "err" (RST, POLLERR)
  cmd,              \* per context: what became of the last query sent
  \* the pool: one DBConnectionCtx per context, its flags as sets of contexts
  mConn,            \* "null", or PQstatus of the connection: "ok" or "bad"
  mPollData,        \* "null", or the uv_poll_t: "idle" or "active"
  mStream,
  mInUse,
  mDataReady,
  mTerminate,
  mReconnectPhase,
  \* the coroutines
  pc,
  ctx,              \* local db_ctx
  conn,             \* local PGconn*: "none", "live" or "finished" (PQfinish'ed)
  replies,          \* how many replies the coroutine has written
  proc              \* the server process

dbVars   == <<dbUp, sock, cmd>>
flagVars == <<mInUse, mDataReady, mTerminate, mReconnectPhase>>
poolVars == <<mConn, mPollData, mStream, flagVars>>
coroVars == <<pc, ctx, conn, replies>>
vars     == <<dbVars, poolVars, coroVars, proc>>

Ctx   == 0 .. NumConns - 1
NoCtx == -1

TypeOK ==
  /\ dbUp \in BOOLEAN
  /\ sock \in [Ctx -> {"ok", "eof", "err"}]
  /\ cmd \in [Ctx -> {"idle", "sent", "arrived", "ready", "undrained"}]
  /\ mConn \in [Ctx -> {"null", "ok", "bad"}]
  /\ mPollData \in [Ctx -> {"null", "idle", "active"}]
  /\ mStream \in [Ctx -> Coros \cup {NoStream}]
  /\ mInUse \subseteq Ctx
  /\ mDataReady \subseteq Ctx
  /\ mTerminate \subseteq Ctx
  /\ mReconnectPhase \subseteq Ctx
  /\ pc \in [Coros -> {"none", "new", "acquire", "wait", "update", "dead", "reaped"}]
  /\ ctx \in [Coros -> Ctx \cup {NoCtx}]
  /\ conn \in [Coros -> {"none", "live", "finished"}]
  /\ replies \in [Coros -> Nat]
  /\ proc \in {"running", "blocked", "crashed", "exited"}

\* one value for every context
Each(v) == [i \in Ctx |-> v]

\* InitializeConnections, with the server up, on a loop without coroutines
Init ==
  /\ dbUp = TRUE
  /\ sock = Each("ok")
  /\ cmd = Each("idle")
  /\ mConn = Each("ok")
  /\ mPollData = Each("idle")
  /\ mStream = Each(NoStream)
  /\ mInUse = {}
  /\ mDataReady = {}
  /\ mTerminate = {}
  /\ mReconnectPhase = {}
  /\ pc = [u \in Coros |-> "none"]
  /\ ctx = [u \in Coros |-> NoCtx]
  /\ conn = [u \in Coros |-> "none"]
  /\ replies = [u \in Coros |-> 0]
  /\ proc = "running"

-----------------------------------------------------------------------------
(***************************************************************************)
(* The pool's operations.                                                  *)
(***************************************************************************)

\* mutant: a context in use is free
FreeUnlessBroken(i) == mConn[i] = "ok" /\ i \notin mTerminate /\ i \notin mReconnectPhase

\* the test of AcquireDBConn, and the first context that passes it
Free(i) ==
  /\ mConn[i] = "ok"
  /\ i \notin mInUse
  /\ i \notin mTerminate
  /\ i \notin mReconnectPhase

FirstFree(i) == Free(i) /\ \A j \in Ctx : Free(j) => i <= j

\* mutant: an answer announced to the last lease is announced to the next
ResetTerminateOnly(C) == UNCHANGED mDataReady /\ mTerminate' = mTerminate \ C

ResetFlags(C) ==
  /\ mDataReady' = mDataReady \ C
  /\ mTerminate' = mTerminate \ C

AcquireDBConn(i, u) ==
  /\ mInUse' = mInUse \cup {i}
  /\ ResetFlags({i})
  /\ mStream' = [mStream EXCEPT ![i] = u]

\* mutant: the stream stays with the context
ReleaseKeepsStream(i) == mInUse' = mInUse \ {i} /\ UNCHANGED mStream

ReleaseDBConn(i) ==
  /\ mInUse' = mInUse \ {i}
  /\ mStream' = [mStream EXCEPT ![i] = NoStream]

\* mutant: nobody polls for the answer
NoPoll(i) == UNCHANGED mPollData

\* start_poll_and_yield_until_polldata, up to its first yield
StartPoll(i) == mPollData' = [mPollData EXCEPT ![i] = "active"]

(***************************************************************************)
(* The libpq calls.  PQsendQueryParams refuses a connection that is not    *)
(* idle, without looking at the socket, and may fail on a broken socket;   *)
(* writing to or reading all results from one may find the break out.      *)
(***************************************************************************)
MayTurnBad(i) ==
  \/ mConn' = mConn
  \/ sock[i] # "ok" /\ mConn' = [mConn EXCEPT ![i] = "bad"]

SendFails(i) ==
  \/ cmd[i] # "idle" /\ UNCHANGED mConn
  \/ cmd[i] = "idle" /\ sock[i] # "ok" /\ MayTurnBad(i)

DrainResults(i) ==
  /\ cmd' = [cmd EXCEPT ![i] = "idle"]
  /\ MayTurnBad(i)

\* send_jsonrpc_error and send_jsonrpc_response test uv_is_writable first
Reply(u, w) == replies' = IF w THEN [replies EXCEPT ![u] = @ + 1] ELSE replies

\* the coroutine's function returns
Return(u) ==
  /\ pc' = [pc EXCEPT ![u] = "dead"]
  /\ ctx' = [ctx EXCEPT ![u] = NoCtx]
  /\ conn' = [conn EXCEPT ![u] = "none"]

-----------------------------------------------------------------------------
(***************************************************************************)
(* The coroutines: from the request to the lease.                          *)
(***************************************************************************)
At(u, labels) == proc = "running" /\ pc[u] \in labels

Create(u) ==
  /\ At(u, {"none"})
  /\ pc' = [pc EXCEPT ![u] = "new"]
  /\ UNCHANGED <<dbVars, poolVars, ctx, conn, replies, proc>>

\* uv_is_closing on the first resume: the coroutine returns without a word;
\* in yield_until_db_ctx_or_time_limit: send_jsonrpc_error writes nothing
StreamClosing(u) ==
  /\ At(u, {"new", "acquire"})
  /\ Return(u)
  /\ UNCHANGED <<dbVars, poolVars, replies, proc>>

\* a connection is free, the query is sent and the coroutine yields
AcquireAndSend(u) ==
  /\ At(u, {"new", "acquire"})
  /\ \E i \in Ctx :
       /\ FirstFree(i)
       /\ cmd[i] = "idle"
       /\ AcquireDBConn(i, u)
       /\ cmd' = [cmd EXCEPT ![i] = "sent"]
       /\ StartPoll(i)
       /\ ctx' = [ctx EXCEPT ![u] = i]
  /\ pc' = [pc EXCEPT ![u] = "wait"]
  /\ conn' = [conn EXCEPT ![u] = "live"]
  /\ UNCHANGED <<dbUp, sock, mConn, mReconnectPhase, replies, proc>>

\* "Query failed #1": the connection is acquired and released in one step
AcquireSendFails(u, w) ==
  /\ At(u, {"new", "acquire"})
  /\ \E i \in Ctx :
       /\ FirstFree(i)
       /\ SendFails(i)
       /\ ResetFlags({i})
  /\ Reply(u, w)
  /\ Return(u)
  /\ UNCHANGED <<dbVars, mPollData, mStream, mInUse, mReconnectPhase, proc>>

NoneFree(u) ==
  /\ At(u, {"new"})
  /\ \A i \in Ctx : ~Free(i)
  /\ pc' = [pc EXCEPT ![u] = "acquire"]
  /\ UNCHANGED <<dbVars, poolVars, ctx, conn, replies, proc>>

\* "Aborted": the limit has passed when the coroutine is resumed, whether or
\* not a connection has become free meanwhile
TimeLimit(u, w) ==
  /\ At(u, {"acquire"})
  /\ Reply(u, w)
  /\ Return(u)
  /\ UNCHANGED <<dbVars, poolVars, proc>>

-----------------------------------------------------------------------------
(***************************************************************************)
(* The coroutines: from the answer to the end.                             *)
(***************************************************************************)

\* "Query failed #2"
Terminated(u, w) ==
  /\ At(u, {"wait"})
  /\ ctx[u] \in mTerminate
  /\ ReleaseDBConn(ctx[u])
  /\ Reply(u, w)
  /\ Return(u)
  /\ UNCHANGED <<dbVars, mConn, mPollData, mDataReady, mTerminate, mReconnectPhase, proc>>

Woken(u) == At(u, {"wait"}) /\ ctx[u] \in mDataReady \ mTerminate
CanRead(u) == Woken(u) /\ conn[u] = "live"

\* auth_register reads every result, releases, replies
RegisterDone(u, w) ==
  /\ u \notin Logins
  /\ CanRead(u)
  /\ DrainResults(ctx[u])
  /\ ReleaseDBConn(ctx[u])
  /\ Reply(u, w)
  /\ Return(u)
  /\ UNCHANGED <<dbUp, sock, mPollData, mDataReady, mTerminate, mReconnectPhase, proc>>

\* auth_login meets PGRES_FATAL_ERROR: it leaves the loop over the results
LoginFatal(u, w) ==
  /\ u \in Logins
  /\ CanRead(u)
  /\ cmd' = [cmd EXCEPT ![ctx[u]] = "undrained"]
  /\ ReleaseDBConn(ctx[u])
  /\ Reply(u, w)
  /\ Return(u)
  /\ UNCHANGED <<dbUp, sock, mConn, mPollData, mDataReady, mTerminate, mReconnectPhase, proc>>

\* no such user, or nobody left to reply to
LoginEnds(u, w) ==
  /\ u \in Logins
  /\ CanRead(u)
  /\ DrainResults(ctx[u])
  /\ ReleaseDBConn(ctx[u])
  /\ Reply(u, w)
  /\ Return(u)
  /\ UNCHANGED <<dbUp, sock, mPollData, mDataReady, mTerminate, mReconnectPhase, proc>>

\* a user is found: the token, if it could be signed, is sent, then the update
\* of last_login.  mDataReady still stands from the first query, so the wait
\* for the answer returns at once and PQgetResult blocks the loop.
LoginUpdates(u, signed) ==
  /\ u \in Logins
  /\ CanRead(u)
  /\ Reply(u, signed)
  /\ cmd' = [cmd EXCEPT ![ctx[u]] = "sent"]
  /\ StartPoll(ctx[u])
  /\ pc' = [pc EXCEPT ![u] = "update"]
  /\ proc' = "blocked"
  /\ UNCHANGED <<dbUp, sock, mConn, mStream, flagVars, ctx, conn>>

\* the update cannot be sent: nothing is said of it
LoginUpdateNotSent(u, signed) ==
  /\ u \in Logins
  /\ CanRead(u)
  /\ sock[ctx[u]] # "ok"
  /\ DrainResults(ctx[u])
  /\ ReleaseDBConn(ctx[u])
  /\ Reply(u, signed)
  /\ Return(u)
  /\ UNCHANGED <<dbUp, sock, mPollData, mDataReady, mTerminate, mReconnectPhase, proc>>

\* mutant: the socket is asked instead of the flag
UpdateNotAnswered(u) == sock[ctx[u]] # "ok"

\* the test for "Query failed #3"
UpdateFailed(u) == ctx[u] \in mTerminate

\* the loop goes on when PQgetResult has the answer or finds the socket broken;
\* the poll handle stays active on the released context
UpdateDone(u, w) ==
  /\ proc = "blocked"
  /\ pc[u] = "update"
  /\ cmd[ctx[u]] = "arrived" \/ sock[ctx[u]] # "ok"
  /\ cmd' = [cmd EXCEPT ![ctx[u]] = "idle"]
  /\ IF cmd[ctx[u]] = "arrived"
       THEN MayTurnBad(ctx[u])
       ELSE mConn' = [mConn EXCEPT ![ctx[u]] = "bad"]
  /\ ReleaseDBConn(ctx[u])
  /\ Reply(u, w /\ UpdateFailed(u))
  /\ Return(u)
  /\ proc' = "running"
  /\ UNCHANGED <<dbUp, sock, mPollData, mDataReady, mTerminate, mReconnectPhase>>

\* PQgetResult on the connection a failed reconnect has finished: the freed
\* memory reads as a connection with no result or with an error, or it faults
ReadFinishedConn(u, w) ==
  /\ Woken(u)
  /\ conn[u] = "finished"
  /\ \/ /\ ReleaseDBConn(ctx[u])
        /\ Reply(u, w)
        /\ Return(u)
        /\ UNCHANGED proc
     \/ /\ proc' = "crashed"
        /\ UNCHANGED <<mInUse, mStream, coroVars>>
  /\ UNCHANGED <<dbVars, mConn, mPollData, mDataReady, mTerminate, mReconnectPhase>>

CleanupDeadCoroutines ==
  /\ proc = "running"
  /\ \E u \in Coros : pc[u] = "dead"
  /\ pc' = [u \in Coros |-> IF pc[u] = "dead" THEN "reaped" ELSE pc[u]]
  /\ UNCHANGED <<dbVars, poolVars, ctx, conn, replies, proc>>

-----------------------------------------------------------------------------
(***************************************************************************)
(* The pool's callbacks.                                                   *)
(***************************************************************************)

\* Poll_Callback: the whole answer is in
PollReady(i) ==
  /\ proc = "running"
  /\ mPollData[i] = "active"
  /\ sock[i] # "err"
  /\ cmd[i] = "arrived"
  /\ cmd' = [cmd EXCEPT ![i] = "ready"]
  /\ mDataReady' = mDataReady \cup {i}
  /\ mPollData' = [mPollData EXCEPT ![i] = "idle"]
  /\ UNCHANGED <<dbUp, sock, mConn, mStream, mInUse, mTerminate, mReconnectPhase,
                 coroVars, proc>>

\* mutant: the poll ends and the coroutine is not told
PollFailsSilently(i) ==
  /\ proc = "running"
  /\ mPollData[i] = "active"
  /\ sock[i] # "ok"
  /\ cmd[i] # "arrived"
  /\ mPollData' = [mPollData EXCEPT ![i] = "idle"]
  /\ UNCHANGED <<dbVars, mConn, mStream, flagVars, coroVars, proc>>

\* Poll_Callback: POLLERR arrives as UV_EBADF and leaves PQstatus alone; an EOF
\* makes PQconsumeInput fail.  Closing the stream of a context nobody uses
\* dereferences a null pointer.
PollFails(i) ==
  /\ proc = "running"
  /\ mPollData[i] = "active"
  /\ \/ sock[i] = "err" /\ UNCHANGED mConn
     \/ /\ sock[i] = "eof"
        /\ cmd[i] # "arrived"
        /\ mConn' = [mConn EXCEPT ![i] = "bad"]
  /\ mPollData' = [mPollData EXCEPT ![i] = "idle"]
  /\ mTerminate' = mTerminate \cup {i}
  /\ proc' = IF mStream[i] = NoStream THEN "crashed" ELSE proc
  /\ UNCHANGED <<dbVars, mStream, mInUse, mDataReady, mReconnectPhase, coroVars>>

\* What becomes of a field when the contexts below k get a new connection, k does
\* not and ends the loop, and those above keep the old one.
Replaced(f, new, failed, k) ==
  [i \in Ctx |-> IF i < k THEN new ELSE IF i = k THEN failed ELSE f[i]]

\* mutant: the poll handle is not made again
NoNewPollHandles(k) == Replaced(mPollData, "null", "null", k)

NewPollHandles(k) == Replaced(mPollData, "idle", "null", k)

\* mutants: the phase is never left, or entered past the last context
ReconnectForever(k) == mReconnectPhase \cup ({k} \cap Ctx)
ReconnectPastEnd(k) == (mReconnectPhase \ (0 .. k - 1)) \cup {k}

ReconnectPhases(k) == (mReconnectPhase \ (0 .. k - 1)) \cup ({k} \cap Ctx)

\* CheckConnections_TimerCb when something is wrong.  mInUse and mStream are not
\* looked at.
CheckConnections(k) ==
  /\ proc = "running"
  /\ ~dbUp \/ \E i \in Ctx : mConn[i] # "ok"
  /\ ~dbUp => k = 0
  /\ mConn' = Replaced(mConn, "ok", "null", k)
  /\ mPollData' = NewPollHandles(k)
  /\ sock' = Replaced(sock, "ok", "eof", k)
  /\ cmd' = Replaced(cmd, "idle", "idle", k)
  /\ ResetFlags(0 .. k - 1)
  /\ mReconnectPhase' = ReconnectPhases(k)
  /\ conn' = [u \in Coros |-> IF ctx[u] \in 0 .. k THEN "finished" ELSE conn[u]]
  /\ UNCHANGED <<dbUp, mStream, mInUse, pc, ctx, replies, proc>>

-----------------------------------------------------------------------------
(***************************************************************************)
(* The process: it may be killed, and fork_process_and_keepalive starts it *)
(* again.  InitializeConnections exits when the database is down, and the  *)
(* parent of a child that exited does not fork another.                    *)
(***************************************************************************)
ProcessDies ==
  /\ proc \in {"running", "blocked"}
  /\ proc' = "crashed"
  /\ UNCHANGED <<dbVars, poolVars, coroVars>>

CoroutinesLost ==
  /\ pc' = [u \in Coros |-> IF pc[u] = "none" THEN "none" ELSE "reaped"]
  /\ ctx' = [u \in Coros |-> NoCtx]
  /\ conn' = [u \in Coros |-> "none"]
  /\ UNCHANGED replies

Restart ==
  /\ proc = "crashed"
  /\ dbUp
  /\ proc' = "running"
  /\ sock' = Each("ok")
  /\ cmd' = Each("idle")
  /\ mConn' = Each("ok")
  /\ mPollData' = Each("idle")
  /\ mStream' = Each(NoStream)
  /\ mInUse' = {}
  /\ mDataReady' = {}
  /\ mTerminate' = {}
  /\ mReconnectPhase' = {}
  /\ CoroutinesLost
  /\ UNCHANGED dbUp

RestartFails ==
  /\ proc = "crashed"
  /\ ~dbUp
  /\ proc' = "exited"
  /\ mInUse' = {}
  /\ mStream' = Each(NoStream)
  /\ CoroutinesLost
  /\ UNCHANGED <<dbVars, mConn, mPollData, mDataReady, mTerminate, mReconnectPhase>>

(***************************************************************************)
(* The database and the network.                                           *)
(***************************************************************************)
DbAnswers(i) ==
  /\ sock[i] = "ok"
  /\ cmd[i] = "sent"
  /\ cmd' = [cmd EXCEPT ![i] = "arrived"]
  /\ UNCHANGED <<dbUp, sock, poolVars, coroVars, proc>>

BackendDies(i, how) ==
  /\ sock[i] = "ok"
  /\ sock' = [sock EXCEPT ![i] = how]
  /\ UNCHANGED <<dbUp, cmd, poolVars, coroVars, proc>>

DbDown(how) ==
  /\ dbUp
  /\ dbUp' = FALSE
  /\ sock' = [i \in Ctx |-> IF sock[i] = "ok" THEN how[i] ELSE sock[i]]
  /\ UNCHANGED <<cmd, poolVars, coroVars, proc>>

DbUp ==
  /\ ~dbUp
  /\ dbUp' = TRUE
  /\ UNCHANGED <<sock, cmd, poolVars, coroVars, proc>>

-----------------------------------------------------------------------------
\* what StepCoroutines may do to a coroutine
Resume(u) ==
  \/ StreamClosing(u)
  \/ AcquireAndSend(u)
  \/ NoneFree(u)
  \/ \E w \in BOOLEAN :
       \/ AcquireSendFails(u, w)
       \/ TimeLimit(u, w)
       \/ Terminated(u, w)
       \/ RegisterDone(u, w)
       \/ LoginFatal(u, w)
       \/ LoginEnds(u, w)
       \/ LoginUpdates(u, w)
       \/ LoginUpdateNotSent(u, w)
       \/ UpdateDone(u, w)
       \/ ReadFinishedConn(u, w)

PollCallback(i) == PollReady(i) \/ PollFails(i)

Environment ==
  \/ \E i \in Ctx : DbAnswers(i)
  \/ \E i \in Ctx, how \in {"eof", "err"} : BackendDies(i, how)
  \/ \E how \in [Ctx -> {"eof", "err"}] : DbDown(how)
  \/ DbUp

Next ==
  \/ \E u \in Coros : Create(u) \/ Resume(u)
  \/ CleanupDeadCoroutines
  \/ \E i \in Ctx : PollCallback(i)
  \/ \E k \in 0 .. NumConns : CheckConnections(k)
  \/ ProcessDies
  \/ Restart \/ RestartFails
  \/ Environment

Spec == Init /\ [][Next]_vars

(***************************************************************************)
(* Fairness: the 1 ms timer resumes every coroutine again and again and    *)
(* reaps the dead ones, the loop polls, the keepalive parent restarts the  *)
(* child, a live database answers and a stopped one comes back.  The timer *)
(* of 3 s finds the database able to give every connection infinitely      *)
(* often, if it is not down for good.  The clock passes every time limit   *)
(* because resuming a coroutine that has nothing to do is a stutter.       *)
(***************************************************************************)
Fairness ==
  /\ \A u \in Coros : WF_vars(Resume(u))
  /\ WF_vars(CleanupDeadCoroutines)
  /\ \A i \in Ctx : WF_vars(PollCallback(i)) /\ WF_vars(DbAnswers(i))
  /\ SF_vars(CheckConnections(NumConns))
  /\ WF_vars(Restart \/ RestartFails)
  /\ WF_vars(DbUp)

FairSpec == Spec /\ Fairness

-----------------------------------------------------------------------------
(***************************************************************************)
(* Safety.                                                                 *)
(***************************************************************************)

\* Every early return gives the connection back and nothing else does: a context
\* is in use iff exactly one coroutine holds it, and its stream is that
\* coroutine's, so Poll_Callback closes nobody else's stream.
ExclusiveLease ==
  /\ \A u \in Coros : ctx[u] # NoCtx => ctx[u] \in mInUse /\ mStream[ctx[u]] = u
  /\ \A i \in mInUse : mStream[i] \in Coros /\ ctx[mStream[i]] = i
  /\ \A i \in Ctx \ mInUse : mStream[i] = NoStream

\* No request is answered twice, on no path through the handlers: the last reply
\* of auth_login ("Query failed #3") comes after the token was sent.
AtMostOneReply == \A u \in Coros : replies[u] <= 1

\* Where a poll is started (AcquireDBConn's choice, and the update query of a
\* coroutine that can read its answer) the poll handle exists, though a failed
\* reconnect sets it to null.
PollHandleExists ==
  /\ \A i \in Ctx : Free(i) => mPollData[i] # "null"
  /\ \A u \in Coros : CanRead(u) => mPollData[ctx[u]] # "null"

\* A coroutine that waits on the connection it was given can still be woken: its
\* poll is active or has left its verdict.
WaitHasWaker ==
  \A u \in Coros :
    pc[u] = "wait" /\ conn[u] = "live" =>
      mPollData[ctx[u]] = "active" \/ ctx[u] \in mDataReady \cup mTerminate

\* A coroutine that reads results reads those of the query it sent: no flag, poll
\* or answer is left over from the last lease of the same context.
AnswerIsOwn == \A u \in Coros : CanRead(u) => cmd[ctx[u]] = "ready"

(***************************************************************************)
(* The inductive invariant behind them.                                    *)
(***************************************************************************)

\* a coroutine has its locals exactly while it holds a connection
HoldsIff ==
  \A u \in Coros :
    /\ ctx[u] # NoCtx <=> pc[u] \in {"wait", "update"}
    /\ conn[u] # "none" <=> pc[u] \in {"wait", "update"}

\* an update blocks the loop: nothing happens to its connection meanwhile
UpdateBlocks ==
  \A u \in Coros : pc[u] = "update" =>
    /\ proc \in {"blocked", "crashed"}
    /\ conn[u] = "live"
    /\ ctx[u] \notin mTerminate
    /\ \A v \in Coros : pc[v] = "update" => v = u

\* nothing is written before the connection is given back or the token is sent
RepliesSoFar ==
  \A u \in Coros :
    /\ pc[u] \in {"none", "new", "acquire", "wait"} => replies[u] = 0
    /\ replies[u] <= 1

\* a context without a connection has no poll handle, and the reverse
NullTogether ==
  /\ \A i \in Ctx : mConn[i] = "null" <=> mPollData[i] = "null"
  /\ \A u \in Coros : conn[u] = "live" => mConn[ctx[u]] # "null"

ReadyIsOwn ==
  \A u \in Coros :
    pc[u] = "wait" /\ conn[u] = "live" /\ ctx[u] \in mDataReady \ mTerminate =>
      cmd[ctx[u]] = "ready"

IInv ==
  /\ TypeOK
  /\ HoldsIff
  /\ ExclusiveLease
  /\ UpdateBlocks
  /\ RepliesSoFar
  /\ NullTogether
  /\ WaitHasWaker
  /\ ReadyIsOwn

\* What ConnLease promises, the slots being the contexts and the lease the stream
\* that AcquireDBConn wrote into a context in use: a coroutine never gets a second
\* connection, nor one that is leased, and no callback of the pool ends a lease.
Lease == INSTANCE ConnLease WITH
  Slots <- Ctx,
  Holders <- Coros,
  None <- NoStream,
  lease <- [i \in Ctx |-> IF i \in mInUse THEN mStream[i] ELSE NoStream],
  past <- {u \in Coros : pc[u] \in {"dead", "reaped"}}

ImplementsLease == Lease!Spec

(***************************************************************************)
(* Liveness.                                                               *)
(***************************************************************************)

\* Every accepted request ends, unless a reconnect takes its connection away
\* under it or the service is gone for good.
RequestEnds ==
  \A u \in Coros :
    pc[u] = "new" ~> pc[u] = "reaped" \/ conn[u] = "finished" \/ proc = "exited"

\* A connection libpq knows to be bad is replaced and can be acquired again, or
\* stays with the request that holds it.
BadConnReplaced ==
  \A i \in Ctx : mConn[i] # "ok" ~> Free(i) \/ i \in mInUse \/ proc # "running"

(***************************************************************************)
(* What the comments in the code say and the code does not do.             *)
(***************************************************************************)

\* db_pool.h:36, of mTerminate: "for db polling errors, stop coroutines
\* immediately".  A reconnect wipes the flag before the coroutine has seen it.
PollingErrorStopsCoroutine ==
  \A u \in Coros :
    pc[u] = "wait" /\ ctx[u] \in mTerminate ~> pc[u] # "wait" \/ proc # "running"

\* auth.cpp:154: "async update_last_login".  While the update is under way the
\* loop should run.
UpdateIsAsync == \A u \in Coros : pc[u] = "update" => proc # "blocked"

\* db_pool.h:11: the connections are set up to "deploy them as new db queries are
\* made".  A free one takes a query unless the database has broken it.
FreeConnTakesQuery == \A i \in Ctx : Free(i) /\ sock[i] = "ok" => cmd[i] = "idle"
=============================================================================
