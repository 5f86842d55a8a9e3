----------------------------- MODULE SampleHttp -----------------------------
(***************************************************************************)
(* sample_http: the loops of JobQueue as the threads of ServerStats.  A    *)
(* call of add or subtract takes its time with TIMER_END, and /stats makes *)
(* a page, inside the callback that reads the request: as long as that     *)
(* waits for a mutex, the loop calls no other callback.                    *)
(***************************************************************************)
EXTENDS JobQueue, ServerStats

ASSUME SampleHttpAssumption == Threads = Loops /\ NoThread = NoLoop

NoCell == 0

VARIABLES
  reading,  \* per loop: the stream whose request it is serving
  alive     \* the process; when it is forked again it begins anew

sampleVars == <<httpVars, statVars, reading, alive>>

SampleTypeOK ==
  /\ HttpTypeOK
  /\ StatsTypeOK
  /\ reading \in [Loops -> {NoCell} \cup DOMAIN cells]
  /\ alive \in BOOLEAN
  /\ \A l \in Loops : tpc[l] # "idle" => reading[l] # NoCell /\ cells[reading[l]].home = l

SampleInit ==
  /\ HttpInit
  /\ StatsInit
  /\ reading = [l \in Loops |-> NoCell]
  /\ alive = TRUE

Serving(l) == reading[l] # NoCell

\* a request that is served with the help of the statistics
BeginRequest(l, m) ==
  /\ ReadsRequest(l, m)
  /\ \/ \E s \in Sites : TimerEnd(l, s)
     \/ BeginPage(l)
  /\ reading' = [reading EXCEPT ![l] = m]
  /\ UNCHANGED <<cells, jobVars, seen, answered, left>>

\* send_jsonrpc_response or stats_func, and the close
EndRequest(l) ==
  /\ Serving(l)
  /\ tpc[l] = "idle"
  /\ Close(reading[l])
  /\ reading' = [reading EXCEPT ![l] = NoCell]
  /\ UNCHANGED <<jobVars, seen, requests, answered, statVars>>

\* the other callbacks of a loop, but those of jobs
Callback(l) ==
  \/ \E m \in DOMAIN cells : HeavyLoad(l, m) \/ HangsUp(l, m)
  \/ NewConnection(l)
  \/ FreeClosing(l)

StatsUnchanged == UNCHANGED <<statVars, reading>>

CallsBack(l) ==
  /\ alive
  /\ ~Serving(l)
  /\ (Callback(l) /\ StatsUnchanged) \/ \E m \in DOMAIN cells : BeginRequest(l, m)
  /\ UNCHANGED alive

GoesOn(l) ==
  /\ alive
  /\ \/ EndRequest(l)
     \/ Proceeds(l) /\ UNCHANGED <<httpVars, reading>>
     \/ ~Serving(l) /\ AfterWork(l) /\ StatsUnchanged
  /\ UNCHANGED alive

Works == alive /\ WorkerDone /\ StatsUnchanged /\ UNCHANGED alive

\* memory that is freed, or that another thread works on, is used: the process may end
ProcessDies ==
  /\ alive
  /\ ReadsForeign \/ stale # {}
  /\ alive' = FALSE
  /\ StatsUnchanged /\ UNCHANGED httpVars

SampleNext ==
  \/ \E l \in Loops : CallsBack(l) \/ GoesOn(l)
  \/ Works
  \/ ProcessDies

SampleSpec == SampleInit /\ [][SampleNext]_sampleVars

(***************************************************************************)
(* Fairness: a worker ends its work, and a loop goes on, with the request  *)
(* that it serves or, between two, with the callback of a job.  No client  *)
(* has to do anything.                                                     *)
(***************************************************************************)
FairSampleSpec ==
  /\ SampleSpec
  /\ WF_sampleVars(Works)
  /\ \A l \in Loops : WF_sampleVars(GoesOn(l))

-----------------------------------------------------------------------------
\* A client that waits for its job is sent its answer.  It may be kept waiting by
\* others: when the records of the statistics were moved under a thread, whose loop
\* may then wait for ever for a mutex, and when the process uses freed memory.
JobIsAnswered ==
  \A c \in Clients :
    (\E j \in Pending : j.asker = c) ~> (c \in answered \cup left \/ overtaken \/ ~alive)

\* So is one whose request is served with the help of the statistics.
CallEnds == \A l \in Loops : Serving(l) ~> (~Serving(l) \/ overtaken \/ ~alive)

\* Both, for the same exceptions: jobs and mutexes never wait for each other for ever
\* (sample_http/main.cpp:165-205, server_stats.h:38-50).
ClientsAreServed == JobIsAnswered /\ CallEnds
=============================================================================
