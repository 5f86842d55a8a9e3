------------------------------ MODULE JobQueue ------------------------------
(***************************************************************************)
(* The HTTP connections of a server with several libuv loops, one thread   *)
(* each, on one port (sample_http/main.cpp over network.cpp), and the work *)
(* that heavyload hands to the thread pool of libuv, which the loops       *)
(* share: a job keeps the uv_stream_t that asked for it until the loop's   *)
(* callback after the work answers on it.                                  *)
(*                                                                         *)
(* A uv_tcp_t lives in a cell of the heap.  A freed cell reads as a handle *)
(* that is closing, or ends the process, until malloc gives it to another  *)
(* connection, of any loop, to which stale pointers then point.            *)
(***************************************************************************)
EXTENDS Integers, Sequences, FiniteSets

Seqs == INSTANCE SequencesExt

CONSTANTS
  Loops,
  NumWorkers,   \* UV_THREADPOOL_SIZE
  MaxCells,     \* bound: heap cells
  NumClients,   \* bound: connections, numbered as they are made
  MaxRequests,  \* bound: requests for a job, or (in SampleHttp) with statistics
  NoLoop

ASSUME JobQueueAssumption ==
  /\ NoLoop \notin Loops
  /\ MaxCells \in Nat
  /\ NumWorkers \in Nat \ {0}
  /\ NumClients \in Nat
  /\ MaxRequests \in Nat

VARIABLES
  cells,     \* the heap cells that have held a handle: its state, peer and loop
  seen,      \* how many clients have connected
  requests,  \* how many requests have been read
  queue,     \* the jobs that wait for a worker, or that one is at
  finished,  \* those whose callback is due
  answered,  \* the clients sent the answer of their own job (history)
  left       \* the clients whose connection was closed (history)

jobVars  == <<queue, finished>>
httpVars == <<cells, jobVars, seen, requests, answered, left>>

Clients  == 1 .. NumClients
NoClient == 0

Handles == [state : {"free", "open", "closing"}, owner : Clients \cup {NoClient},
            home : Loops \cup {NoLoop}]
Free    == [state |-> "free", owner |-> NoClient, home |-> NoLoop]

\* asker is a history: the code knows the stream and its loop
Jobs == [stream : 1 .. MaxCells, loop : Loops, asker : Clients]

HttpTypeOK ==
  /\ cells \in Seq(Handles) /\ Len(cells) <= MaxCells
  /\ seen \in 0 .. NumClients
  /\ requests \in 0 .. MaxRequests
  /\ queue \in Seq(Jobs)
  /\ finished \in Seq(Jobs)
  /\ answered \subseteq Clients
  /\ left \subseteq Clients

HttpInit ==
  /\ cells = <<>>
  /\ seen = 0
  /\ requests = 0
  /\ queue = <<>>
  /\ finished = <<>>
  /\ answered = {}
  /\ left = {}

Writable(m) == cells[m].state = "open"

\* a callback is due that looks at a freed handle, or at one of another thread
ReadsForeign == \E n \in DOMAIN finished : cells[finished[n].stream].home # finished[n].loop

-----------------------------------------------------------------------------
(***************************************************************************)
(* The callbacks of the loop l.                                            *)
(***************************************************************************)
\* malloc gives a cell that was freed or a new one
NewConnection(l) ==
  LET h == [state |-> "open", owner |-> seen + 1, home |-> l] IN
  /\ seen < NumClients
  /\ \/ \E m \in DOMAIN cells : cells[m] = Free /\ cells' = [cells EXCEPT ![m] = h]
     \/ Len(cells) < MaxCells /\ cells' = Append(cells, h)
  /\ seen' = seen + 1
  /\ UNCHANGED <<jobVars, requests, answered, left>>

\* http_on_read is called on the loop of the handle, as long as it is open
Reads(l, m) ==
  /\ cells[m].home = l
  /\ Writable(m)

ReadsRequest(l, m) ==
  /\ Reads(l, m)
  /\ requests < MaxRequests
  /\ requests' = requests + 1

\* SAFE_UV_CLOSE of an open handle
Close(m) ==
  /\ cells' = [cells EXCEPT ![m].state = "closing"]
  /\ left' = left \cup {cells[m].owner}

JobOf(m) == [stream |-> m, loop |-> cells[m].home, asker |-> cells[m].owner]

\* mutant: the stream is closed as after every other request
HeavyLoadCloses(l, m) ==
  /\ ReadsRequest(l, m)
  /\ queue' = Append(queue, JobOf(m))
  /\ cells' = [cells EXCEPT ![m].state = "closing"]
  /\ UNCHANGED <<finished, seen, answered, left>>

\* uv_queue_work; the stream stays open, and reading goes on
HeavyLoad(l, m) ==
  /\ ReadsRequest(l, m)
  /\ queue' = Append(queue, JobOf(m))
  /\ UNCHANGED <<cells, finished, seen, answered, left>>

\* the client has hung up (nread < 0), or has sent any other request, which is
\* answered and closes the connection: a second one perhaps, its job is pending
HangsUp(l, m) ==
  /\ Reads(l, m)
  /\ Close(m)
  /\ UNCHANGED <<jobVars, seen, requests, answered>>

\* uv__run_closing_handles: all of them, between two rounds of callbacks
FreeClosing(l) ==
  LET closed == {m \in DOMAIN cells : cells[m].home = l /\ cells[m].state = "closing"} IN
  /\ closed # {}
  /\ cells' = [m \in DOMAIN cells |-> IF m \in closed THEN Free ELSE cells[m]]
  /\ UNCHANGED <<jobVars, seen, requests, answered, left>>

\* a loop calls its callbacks in the order in which the work was done
Due(l) == {n \in DOMAIN finished : /\ finished[n].loop = l
                                   /\ \A k \in 1 .. n - 1 : finished[k].loop # l}

\* after_heavy_processing: the reply goes to whoever the cell belongs to now, and
\* does not close it
AfterWork(l) ==
  /\ \E n \in Due(l) :
       LET m == finished[n].stream IN
       /\ answered' = answered \cup {c \in {cells[m].owner} : Writable(m) /\ c = finished[n].asker}
       /\ finished' = Seqs!RemoveAt(finished, n)
  /\ UNCHANGED <<cells, queue, seen, requests, left>>

-----------------------------------------------------------------------------
(***************************************************************************)
(* The threads of the pool.                                                *)
(***************************************************************************)
\* a worker takes the first job that none has taken: theirs are the first ones
Taken == DOMAIN queue \cap 1 .. NumWorkers

\* mutant: the worker itself deletes the job
WorkerDeletes ==
  /\ \E n \in Taken : queue' = Seqs!RemoveAt(queue, n)
  /\ UNCHANGED <<cells, finished, seen, requests, answered, left>>

\* heavy_processing_worker returns, and uv_async_send wakes the loop of the job
WorkerDone ==
  /\ \E n \in Taken :
       /\ queue' = Seqs!RemoveAt(queue, n)
       /\ finished' = Append(finished, queue[n])
  /\ UNCHANGED <<cells, seen, requests, answered, left>>

-----------------------------------------------------------------------------
Pending == Seqs!ToSet(queue) \cup Seqs!ToSet(finished)

\* A client that asks for a job and waits keeps its connection, in the same cell and
\* on the loop that will call the callback, whatever the other clients do and
\* however often cells are freed and used again: its answer is its own and is
\* written on the right thread.
JobHoldsStream ==
  \A j \in Pending : j.asker \notin left =>
    /\ Writable(j.stream)
    /\ cells[j.stream].owner = j.asker
    /\ cells[j.stream].home = j.loop
=============================================================================
