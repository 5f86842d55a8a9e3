----------------------------- MODULE AuthServer -----------------------------
(***************************************************************************)
(* One thread of auth_server: the libuv loop of http_server_thread_func    *)
(* with its HTTP connections (network.cpp), the untracked coroutines of    *)
(* CoroutineManager (coroutine_mgt.cpp) and the pool of DbPool.            *)
(*                                                                         *)
(* The loop alternates two phases.  In "timers" the check of the database  *)
(* connections and the coroutine timer may fire; in "poll" the callbacks   *)
(* of sockets run, one at a time; then the handles that are closing are    *)
(* freed.  "step" is the inside of the coroutine timer's callback.         *)
(*                                                                         *)
(* A uv_tcp_t lives in a cell of the heap.  A freed cell still reads as a  *)
(* closing handle until malloc gives it to another connection, to which    *)
(* every stale pointer then points; that reading one may also end the      *)
(* process is covered by ProcessDies.                                      *)
(***************************************************************************)
EXTENDS DbPool, SequencesExt

CONSTANTS
  NumClients,  \* bound: connections a run of the model sees, numbered as they are made
  Cells,       \* heap cells for their handles
  NoCell,
  Conduct      \* the conducts of clients a run of the model looks at

ASSUME AuthServerAssumption ==
  /\ NumClients \in Nat
  /\ NoCell \notin Cells
  /\ Conduct \subseteq {"any", "polite"}

VARIABLES
  phase,
  cur,      \* the index i of the loop in StepCoroutines
  list,     \* mUntrackedCoroutines
  handle,   \* per cell: "free", "open" or "closing"
  owner,    \* per cell: the client it is connected to
  seen,     \* how many clients have connected
  stream,   \* per coroutine: mClient, a cell
  from,     \* per coroutine: the client that asked (history)
  got,      \* per client: whose replies were written to it (history)
  clients   \* what the clients do: "any", or "polite", and then "unlucky" once a poll of
            \* the database has failed (history)

connVars   == <<handle, owner, seen>>
listVars   == <<list, stream, from>>
serverVars == <<phase, cur, connVars, listVars, got, clients>>
allVars    == <<vars, serverVars>>

Clients  == 1 .. NumClients
NoClient == 0

ServerTypeOK ==
  /\ TypeOK
  /\ phase \in {"timers", "step", "poll"}
  /\ list \in Seq(Coros)
  /\ cur \in 1 .. Len(list) + 1
  /\ handle \in [Cells -> {"free", "open", "closing"}]
  /\ owner \in [Cells -> Clients \cup {NoClient}]
  /\ seen \in 0 .. NumClients
  /\ stream \in [Coros -> Cells \cup {NoCell}]
  /\ from \in [Coros -> Clients \cup {NoClient}]
  /\ got \in [Clients -> SUBSET Coros]
  /\ clients \in {"any", "polite", "unlucky"}

ServerInit ==
  /\ Init
  /\ phase = "timers"
  /\ cur = 1
  /\ list = <<>>
  /\ handle = [m \in Cells |-> "free"]
  /\ owner = [m \in Cells |-> NoClient]
  /\ seen = 0
  /\ stream = [u \in Coros |-> NoCell]
  /\ from = [u \in Coros |-> NoClient]
  /\ got = [c \in Clients |-> {}]
  /\ clients \in Conduct

\* Polite clients send one request, and hang up only when answered.
Polite == clients # "any"

In(p) == proc = "running" /\ phase = p

\* SAFE_UV_CLOSE on several cells: a handle that is closing is left alone, and
\* a freed one looks as if it were closing
SafeClose(M) ==
  handle' = [m \in Cells |-> IF m \in M /\ handle[m] = "open" THEN "closing" ELSE handle[m]]

\* mutant: nothing is closed
CloseNothing(C) == UNCHANGED handle

CloseStreams(C) == SafeClose({stream[u] : u \in C})

-----------------------------------------------------------------------------
(***************************************************************************)
(* The poll phase: http_on_new_connection, http_on_read and Poll_Callback. *)
(***************************************************************************)
NewConnection(m) ==
  /\ In("poll")
  /\ seen < NumClients
  /\ handle[m] = "free"
  /\ handle' = [handle EXCEPT ![m] = "open"]
  /\ owner' = [owner EXCEPT ![m] = seen + 1]
  /\ seen' = seen + 1
  /\ UNCHANGED <<vars, phase, cur, listVars, got, clients>>

HasAsked(c) == \E u \in Coros : from[u] = c

\* mutant: the stream is closed like that of every other request
RequestClosesStream(m, u) ==
  /\ In("poll")
  /\ handle[m] = "open"
  /\ Polite => ~HasAsked(owner[m])
  /\ Create(u)
  /\ list' = Append(list, u)
  /\ stream' = [stream EXCEPT ![u] = m]
  /\ from' = [from EXCEPT ![u] = owner[m]]
  /\ SafeClose({m})
  /\ UNCHANGED <<phase, cur, owner, seen, got, clients>>

\* login or register: the handler creates a coroutine and leaves the stream open,
\* and reading goes on: another request may come on the same connection
Request(m, u) ==
  /\ In("poll")
  /\ handle[m] = "open"
  /\ Polite => ~HasAsked(owner[m])
  /\ Create(u)
  /\ list' = Append(list, u)
  /\ stream' = [stream EXCEPT ![u] = m]
  /\ from' = [from EXCEPT ![u] = owner[m]]
  /\ UNCHANGED <<phase, cur, connVars, got, clients>>

\* every other request: a page, another method or path, invalid parameters or a
\* parse error is answered and the connection closed in the callback
SyncRequest(m) ==
  /\ In("poll")
  /\ handle[m] = "open"
  /\ Polite => ~HasAsked(owner[m])
  /\ SafeClose({m})
  /\ UNCHANGED <<vars, phase, cur, owner, seen, listVars, got, clients>>

\* nread < 0: the client has hung up
ReadEof(m) ==
  /\ In("poll")
  /\ handle[m] = "open"
  /\ Polite => got[owner[m]] # {}
  /\ SafeClose({m})
  /\ UNCHANGED <<vars, phase, cur, owner, seen, listVars, got, clients>>

DbReadable(i) ==
  /\ In("poll")
  /\ \/ PollReady(i) /\ UNCHANGED <<handle, clients>>
     \/ /\ PollFails(i)
        /\ CloseStreams({mStream[i]} \ {NoStream})
        /\ clients' = IF Polite THEN "unlucky" ELSE clients
  /\ UNCHANGED <<phase, cur, owner, seen, listVars, got>>

\* uv__run_closing_handles
EndPoll ==
  /\ In("poll")
  /\ phase' = "timers"
  /\ handle' = [m \in Cells |-> IF handle[m] = "closing" THEN "free" ELSE handle[m]]
  /\ owner' = [m \in Cells |-> IF handle[m] = "closing" THEN NoClient ELSE owner[m]]
  /\ UNCHANGED <<vars, cur, seen, listVars, got, clients>>

-----------------------------------------------------------------------------
(***************************************************************************)
(* The timers phase.                                                       *)
(***************************************************************************)
\* mutant: the clients whose connections are replaced are hung up on
CheckTimerHangsUp(k) ==
  /\ In("timers")
  /\ CheckConnections(k)
  /\ CloseStreams({mStream[i] : i \in {j \in mInUse : j <= k}})
  /\ UNCHANGED <<phase, cur, owner, seen, listVars, got, clients>>

CheckTimer(k) ==
  /\ In("timers")
  /\ CheckConnections(k)
  /\ UNCHANGED serverVars

\* the coroutine timer is not due in this iteration
NotDue ==
  /\ In("timers")
  /\ phase' = "poll"
  /\ UNCHANGED <<vars, cur, connVars, listVars, got, clients>>

\* mutant: the list is walked from its end
BeginStepAtEnd ==
  /\ In("timers")
  /\ phase' = "step"
  /\ cur' = Len(list)
  /\ UNCHANGED <<vars, connVars, listVars, got, clients>>

\* CoroutineTimerCB begins StepCoroutines
BeginStep ==
  /\ In("timers")
  /\ phase' = "step"
  /\ cur' = 1
  /\ UNCHANGED <<vars, connVars, listVars, got, clients>>

Open(u) == handle[stream[u]] = "open"

HungUp(u) == ~Open(u) /\ StreamClosing(u)

\* what the coroutine does when resumed, given its stream
ResumeWithStream(u) ==
  \/ HungUp(u)
  \/ Open(u) /\ (AcquireAndSend(u) \/ NoneFree(u) \/ AcquireSendFails(u, TRUE))
  \/ Open(u) /\ \E signed \in BOOLEAN :
       LoginUpdates(u, signed) \/ LoginUpdateNotSent(u, signed)
  \/ TimeLimit(u, Open(u))
  \/ Terminated(u, Open(u))
  \/ RegisterDone(u, Open(u))
  \/ LoginFatal(u, Open(u))
  \/ LoginEnds(u, Open(u))
  \/ UpdateDone(u, Open(u))
  \/ ReadFinishedConn(u, Open(u))

\* the conditions of the waits do not hold: the coroutine yields again
Suspended(u) ==
  \/ pc[u] = "acquire" /\ Open(u) /\ \A i \in Ctx : ~Free(i)
  \/ pc[u] = "wait" /\ ctx[u] \notin mDataReady \cup mTerminate

\* the reply goes to whoever the cell belongs to now
Deliver(u) ==
  got' = IF replies' # replies
         THEN [got EXCEPT ![owner[stream[u]]] = @ \cup {u}]
         ELSE got

\* one turn of the loop in StepCoroutines; a blocked one ends with UpdateDone
StepCoroutine ==
  /\ phase = "step"
  /\ cur <= Len(list)
  /\ LET u == list[cur] IN
       /\ \/ ResumeWithStream(u)
          \/ proc = "running" /\ Suspended(u) /\ UNCHANGED vars
       /\ Deliver(u)
  /\ cur' = IF proc' = "running" THEN cur + 1 ELSE cur
  /\ UNCHANGED <<phase, connVars, listVars, clients>>

\* the list without the entries whose index is not in I, as the loop over it leaves it
Kept(I) ==
  LET kept[n \in 0 .. Len(list)] ==
        IF n = 0 THEN <<>>
        ELSE IF n \in I THEN Append(kept[n - 1], list[n]) ELSE kept[n - 1]
  IN  kept[Len(list)]

\* mutants: after an erasure the next entry is passed over, or erased as well
SurvivorsPassOver(dead) ==
  Kept({n \in DOMAIN list : list[n] \notin dead \/ (n > 1 /\ list[n - 1] \in dead)})
SurvivorsLoseNext(dead) ==
  Kept({n \in DOMAIN list : list[n] \notin dead /\ (n > 1 => list[n - 1] \notin dead)})

Survivors(dead) == Kept({n \in DOMAIN list : list[n] \notin dead})

\* CleanupDeadCoroutines: the dead leave the list and their streams are closed
EndStep ==
  /\ In("step")
  /\ cur > Len(list)
  /\ LET dead == {u \in Coros : pc[u] = "dead"} IN
       /\ CleanupDeadCoroutines \/ (dead = {} /\ UNCHANGED vars)
       /\ list' = Survivors(dead)
       /\ CloseStreams(dead)
       /\ stream' = [u \in Coros |-> IF u \in dead THEN NoCell ELSE stream[u]]
  /\ phase' = "poll"
  /\ cur' = 1
  /\ UNCHANGED <<owner, seen, from, got, clients>>

-----------------------------------------------------------------------------
(***************************************************************************)
(* The process and its environment.                                        *)
(***************************************************************************)
ServerRestarts ==
  /\ Restart \/ RestartFails
  /\ phase' = "timers"
  /\ cur' = 1
  /\ list' = <<>>
  /\ handle' = [m \in Cells |-> "free"]
  /\ owner' = [m \in Cells |-> NoClient]
  /\ stream' = [u \in Coros |-> NoCell]
  /\ UNCHANGED <<seen, from, got, clients>>

Loop == EndPoll \/ NotDue \/ BeginStep \/ StepCoroutine \/ EndStep

ServerNext ==
  \/ Loop
  \/ \E m \in Cells :
       \/ NewConnection(m)
       \/ \E u \in Coros : Request(m, u)
       \/ SyncRequest(m)
       \/ ReadEof(m)
  \/ \E i \in Ctx : DbReadable(i)
  \/ \E k \in 0 .. NumConns : CheckTimer(k)
  \/ ServerRestarts
  \/ (ProcessDies \/ Environment) /\ UNCHANGED serverVars

ServerSpec == ServerInit /\ [][ServerNext]_allVars

(***************************************************************************)
(* Fairness: the loop goes round, its coroutine timer fires again and      *)
(* again, a readable socket's callback is called in some round, and the    *)
(* time limit of a coroutine that keeps asking for a connection passes.    *)
(***************************************************************************)
OutOfTime(u) == StepCoroutine /\ list[cur] = u /\ TimeLimit(u, Open(u))

ServerFairness ==
  /\ WF_allVars(Loop)
  /\ SF_allVars(BeginStep)
  /\ \A u \in Coros : SF_allVars(OutOfTime(u))
  /\ \A i \in Ctx : SF_allVars(DbReadable(i)) /\ WF_allVars(DbAnswers(i) /\ UNCHANGED serverVars)
  /\ WF_allVars(ServerRestarts)

FairServerSpec == ServerSpec /\ ServerFairness

-----------------------------------------------------------------------------
(***************************************************************************)
(* Properties.                                                             *)
(***************************************************************************)

Alive(u) == pc[u] \in {"new", "acquire", "wait", "update"}

\* The list that StepCoroutines walks while handlers append to it and the cleanup
\* erases from it has each unreaped coroutine once, and outside the callback of
\* the timer no dead one.
ListIsLive ==
  proc \in {"running", "blocked"} =>
    /\ IsInjective(list)
    /\ ToSet(list) = {u \in Coros : pc[u] \notin {"none", "reaped"}}
    /\ phase # "step" => \A u \in Coros : pc[u] # "dead"

\* No coroutine is ever resumed while a handle is closing: between the callback
\* that closes a stream and the next resume the handle has been freed.  So the
\* uv_is_closing tests at auth.cpp:49, auth.cpp:243 and db_pool.cpp:205 only ever
\* read an open handle or freed memory.
ClosingIsNeverSeen == proc = "running" /\ phase = "step" => \A m \in Cells : handle[m] # "closing"

\* "Connection: close": a connection does not outlive the first coroutine it
\* asked for, and a coroutine that is gone has no connection left open.
ClosedWithRequest ==
  \A u \in Coros : pc[u] = "reaped" =>
    \A m \in Cells : owner[m] = from[u] => handle[m] # "open"

AskerHoldsStream ==
  \A u \in Coros : Alive(u) => Open(u) /\ owner[stream[u]] = from[u]

\* As long as no connection to the database fails a poll, clients that send one
\* request and wait are not hung up on while their coroutine runs, and its stream
\* never becomes another client's: what the query found is told to who asked.
\* (After a polling error it may: Poll_Callback closes the stream, the cell is
\* freed and reused, and the coroutine replies to, and closes, the newcomer.)
AnswersReachAsker == clients = "polite" => AskerHoldsStream

\* And the other way round: as long as that is so, who is told something is told one
\* thing only, the outcome of its own request (send_jsonrpc_response on mClient).
ToldOwnOnce ==
  clients = "polite" => \A c \in Clients : \A u, v \in got[c] : from[u] = c /\ u = v

(***************************************************************************)
(* The inductive invariant behind them.                                    *)
(***************************************************************************)
Unreaped(u) == pc[u] \notin {"none", "reaped"}

\* a handle is closing only from the callback that closes it to the end of the poll
ClosingInPoll == phase # "poll" => \A m \in Cells : handle[m] # "closing"

\* the list has nobody twice, a dead process's list too
ListOnce == IsInjective(list)

\* clients are numbered as they come and have one connection each
OneCellEach ==
  /\ \A m \in Cells : handle[m] = "free" <=> owner[m] = NoClient
  /\ \A m \in Cells : owner[m] <= seen
  /\ \A m, n \in Cells : owner[m] = owner[n] /\ owner[m] # NoClient => m = n

\* who has been created was asked for by a client seen
Asked ==
  \A u \in Coros :
    /\ from[u] <= seen
    /\ from[u] = NoClient <=> pc[u] = "none"

\* the only connection its client may have is the one that asked
AskersOnly ==
  \A u \in Coros : Unreaped(u) => \A m \in Cells : owner[m] = from[u] => m = stream[u]

\* a polite client has asked once, and holds its stream until the cleanup: who has
\* been told something was told by a coroutine of its own that is at its end
PoliteOnes ==
  clients = "polite" =>
    /\ \A u, v \in Coros : from[u] = from[v] /\ from[u] # NoClient => u = v
    /\ \A u \in Coros :
         Unreaped(u) => stream[u] \in Cells /\ Open(u) /\ owner[stream[u]] = from[u]
    /\ \A c \in Clients : \A u \in got[c] : from[u] = c /\ pc[u] \in {"update", "dead", "reaped"}

ServerIInv ==
  /\ IInv
  /\ ServerTypeOK
  /\ ListIsLive
  /\ ListOnce
  /\ ClosingInPoll
  /\ OneCellEach
  /\ Asked
  /\ ClosedWithRequest
  /\ AskersOnly
  /\ PoliteOnes

\* coroutine_mgt.h:38: "clientstream is closed upon coroutine death".  It should
\* be open until then.
StreamOpenUntilDeath == \A u \in Coros : Alive(u) => stream[u] = NoCell \/ Open(u)
=============================================================================
