-------------------------- MODULE SampleHttpProofs --------------------------
(***************************************************************************)
(* Proofs about SampleHttp, for any number of loops, workers, connections, *)
(* heap cells and requests.  None of them needs fairness.                  *)
(***************************************************************************)
EXTENDS SampleHttp, ServerStatsProofs

-----------------------------------------------------------------------------
(***************************************************************************)
(* The inductive invariant, on top of StatsTypeOK.                         *)
(***************************************************************************)
\* a handle that is not closed belongs to a client and a loop
OpenInv ==
  \A m \in DOMAIN cells : Writable(m) => cells[m].owner \in Clients /\ cells[m].home \in Loops

\* the cell of a job exists, whoever it belongs to by now
JobInv ==
  /\ \A j \in Pending : j.stream \in DOMAIN cells
  /\ JobHoldsStream

\* a loop does not close the connection whose request it serves before the end
ServingInv ==
  /\ reading \in [Loops -> {NoCell} \cup DOMAIN cells]
  /\ \A l \in Loops : tpc[l] # "idle" => Serving(l)
  /\ \A l \in Loops : Serving(l) => Writable(reading[l]) /\ cells[reading[l]].home = l

HttpInv   == HttpTypeOK /\ OpenInv /\ JobInv
SampleInv == HttpInv /\ ServingInv /\ alive \in BOOLEAN

\* what the loop l does leaves the open connections of the others as they are
OthersKept(l) ==
  \A m \in DOMAIN cells :
    /\ m \in DOMAIN cells'
    /\ Writable(m) /\ cells[m].home # l => cells'[m] = cells[m]

-----------------------------------------------------------------------------
LEMMA RemoveAtIsPart ==
  ASSUME NEW S, NEW s \in Seq(S), NEW k \in DOMAIN s
  PROVE  /\ Seqs!RemoveAt(s, k) \in Seq(S)
         /\ Seqs!ToSet(Seqs!RemoveAt(s, k)) \subseteq Seqs!ToSet(s)
<1> DEFINE n == Len(s)
           a == SubSeq(s, 1, k - 1)
           b == SubSeq(s, k + 1, n)
<1>1. /\ n \in Nat /\ DOMAIN s = 1 .. n /\ k \in 1 .. n
      /\ k - 1 \in Int /\ k + 1 \in Int /\ n \in Int
      /\ \A i \in 1 .. n : s[i] \in Seqs!ToSet(s)
  BY DEF Seqs!ToSet
<1>2. s[k] \in Seqs!ToSet(s) /\ Seqs!ToSet(s) \subseteq S
  BY DEF Seqs!ToSet
<1>3. a \in Seq(Seqs!ToSet(s))
  <2>1. \A i \in 1 .. k - 1 : s[i] \in Seqs!ToSet(s)
    BY <1>1
  <2>2. QED
    BY <1>1, <2>1, SubSeqProperties
<1>4. b \in Seq(Seqs!ToSet(s))
  <2>1. \A i \in k + 1 .. n : s[i] \in Seqs!ToSet(s)
    BY <1>1
  <2>2. QED
    BY <1>1, <2>1, SubSeqProperties
<1> HIDE DEF a, b
<1>5. a \o b \in Seq(Seqs!ToSet(s))
  BY <1>3, <1>4, ConcatProperties
<1>6. Seqs!RemoveAt(s, k) = a \o b
  BY DEF Seqs!RemoveAt, a, b
<1>7. Seqs!RemoveAt(s, k) \in Seq(S)
  BY <1>2, <1>5, <1>6, SeqMonotonic
<1>8. ASSUME NEW x \in Seqs!ToSet(a \o b) PROVE x \in Seqs!ToSet(s)
  <2>1. PICK i \in DOMAIN (a \o b) : x = (a \o b)[i]
    BY DEF Seqs!ToSet
  <2>2. i \in 1 .. Len(a \o b)
    BY <1>5
  <2>3. QED
    BY <1>5, <2>1, <2>2, ElementOfSeq
<1>9. QED
  BY <1>6, <1>7, <1>8

LEMMA AppendedJob ==
  ASSUME NEW S, NEW s \in Seq(S), NEW x \in S
  PROVE  /\ Append(s, x) \in Seq(S)
         /\ Seqs!ToSet(Append(s, x)) = Seqs!ToSet(s) \cup {x}
BY AppendProperties DEF Seqs!ToSet

LEMMA PendingIsJobs ==
  ASSUME HttpTypeOK
  PROVE  Pending \subseteq Jobs
BY DEF HttpTypeOK, Pending, Seqs!ToSet

-----------------------------------------------------------------------------
(***************************************************************************)
(* The steps of JobQueue.                                                  *)
(***************************************************************************)
LEMMA HandlesRead ==
  ASSUME HttpTypeOK
  PROVE  /\ DOMAIN cells = 1 .. Len(cells) /\ Len(cells) \in Nat
         /\ DOMAIN cells \subseteq 1 .. MaxCells
         /\ \A m \in DOMAIN cells : cells[m] \in Handles
BY JobQueueAssumption DEF HttpTypeOK

LEMMA CloseInv ==
  ASSUME HttpInv, NEW l \in Loops, NEW m \in DOMAIN cells, Writable(m), cells[m].home = l, Close(m),
         UNCHANGED jobVars, UNCHANGED <<seen, answered>>, requests' = requests
  PROVE  HttpInv' /\ OthersKept(l)
<1>1. cells[m] \in Handles /\ cells[m].owner \in Clients
  BY HandlesRead DEF HttpInv, OpenInv
<1> DEFINE h == [cells[m] EXCEPT !.state = "closing"]
<1>2. h \in Handles /\ h.state = "closing"
  BY <1>1 DEF Handles
<1>3. cells' = [cells EXCEPT ![m] = h] /\ left' = left \cup {cells[m].owner}
  BY DEF Close
<1> HIDE DEF h
<1>4. /\ cells' \in Seq(Handles) /\ Len(cells') = Len(cells) /\ DOMAIN cells' = DOMAIN cells
      /\ cells'[m] = h
      /\ \A k \in DOMAIN cells : k # m => cells'[k] = cells[k]
  BY <1>2, <1>3, ExceptSeq, HandlesRead DEF HttpInv, HttpTypeOK
<1>5. HttpTypeOK'
  BY <1>1, <1>3, <1>4 DEF HttpInv, HttpTypeOK, jobVars
<1>6. OpenInv'
  BY <1>2, <1>4 DEF HttpInv, OpenInv, Writable
<1>7. Pending' = Pending
  BY DEF Pending, jobVars
<1>8. JobInv'
  BY <1>3, <1>4, <1>7 DEF HttpInv, JobInv, JobHoldsStream, Writable
<1>9. OthersKept(l)
  BY <1>4 DEF OthersKept
<1>10. QED
  BY <1>5, <1>6, <1>8, <1>9 DEF HttpInv

LEMMA NewConnectionInv ==
  ASSUME HttpInv, NEW l \in Loops, NewConnection(l)
  PROVE  HttpInv' /\ OthersKept(l)
<1> DEFINE h == [state |-> "open", owner |-> seen + 1, home |-> l]
<1>1. seen + 1 \in Clients /\ seen' = seen + 1 /\ seen' \in 0 .. NumClients
  BY JobQueueAssumption DEF NewConnection, HttpInv, HttpTypeOK, Clients
<1>2. h \in Handles /\ h.owner \in Clients /\ h.home \in Loops
  BY <1>1 DEF Handles
<1>3. \/ \E m \in DOMAIN cells : cells[m] = Free /\ cells' = [cells EXCEPT ![m] = h]
      \/ Len(cells) < MaxCells /\ cells' = Append(cells, h)
  BY DEF NewConnection
<1> HIDE DEF h
<1>4. /\ cells' \in Seq(Handles) /\ Len(cells') <= MaxCells
      /\ DOMAIN cells \subseteq DOMAIN cells'
      /\ \A k \in DOMAIN cells' : cells'[k] = h \/ (k \in DOMAIN cells /\ cells'[k] = cells[k])
      /\ \A k \in DOMAIN cells : Writable(k) => cells'[k] = cells[k]
  <2>1. CASE \E m \in DOMAIN cells : cells[m] = Free /\ cells' = [cells EXCEPT ![m] = h]
    <3>1. PICK m \in DOMAIN cells : cells[m] = Free /\ cells' = [cells EXCEPT ![m] = h]
      BY <2>1
    <3>2. /\ cells' \in Seq(Handles) /\ Len(cells') = Len(cells) /\ DOMAIN cells' = DOMAIN cells
          /\ cells'[m] = h
          /\ \A k \in DOMAIN cells : k # m => cells'[k] = cells[k]
      BY <1>2, <3>1, ExceptSeq, HandlesRead DEF HttpInv, HttpTypeOK
    <3>3. ~Writable(m)
      BY <3>1 DEF Writable, Free
    <3>4. QED
      BY <3>2, <3>3 DEF HttpInv, HttpTypeOK
  <2>2. CASE Len(cells) < MaxCells /\ cells' = Append(cells, h)
    <3>1. /\ cells' \in Seq(Handles) /\ Len(cells') = Len(cells) + 1 /\ cells'[Len(cells) + 1] = h
          /\ \A k \in 1 .. Len(cells) : cells'[k] = cells[k]
      BY <1>2, <2>2, AppendProperties DEF HttpInv, HttpTypeOK
    <3>2. /\ DOMAIN cells' = 1 .. Len(cells) + 1
          /\ DOMAIN cells = 1 .. Len(cells) /\ Len(cells) \in Nat
      BY <3>1, HandlesRead DEF HttpInv
    <3>3. QED
      BY <2>2, <3>1, <3>2, JobQueueAssumption
  <2>3. QED
    BY <1>3, <2>1, <2>2
<1>5. UNCHANGED <<queue, finished, requests, answered, left>>
  BY DEF NewConnection, jobVars
<1>6. HttpTypeOK'
  BY <1>1, <1>4, <1>5 DEF HttpInv, HttpTypeOK
<1>7. OpenInv'
  BY <1>2, <1>4 DEF HttpInv, OpenInv, Writable
<1>8. Pending' = Pending
  BY <1>5 DEF Pending
<1>9. JobInv'
  BY <1>4, <1>5, <1>8 DEF HttpInv, JobInv, JobHoldsStream, Writable
<1>10. OthersKept(l)
  BY <1>4 DEF OthersKept
<1>11. QED
  BY <1>6, <1>7, <1>9, <1>10 DEF HttpInv

LEMMA HeavyLoadInv ==
  ASSUME HttpInv, NEW l \in Loops, NEW m \in DOMAIN cells, HeavyLoad(l, m)
  PROVE  HttpInv' /\ OthersKept(l)
<1>1. /\ Writable(m) /\ cells[m].home = l
      /\ requests < MaxRequests /\ requests' = requests + 1
      /\ queue' = Append(queue, JobOf(m))
      /\ UNCHANGED <<cells, finished, seen, answered, left>>
  BY DEF HeavyLoad, ReadsRequest, Reads
<1>2. JobOf(m) \in Jobs /\ JobOf(m).stream = m
  BY <1>1, HandlesRead DEF HttpInv, OpenInv, JobOf, Jobs
<1>3. queue' \in Seq(Jobs) /\ Pending' = Pending \cup {JobOf(m)}
  BY <1>1, <1>2, AppendedJob DEF HttpInv, HttpTypeOK, Pending
<1>4. HttpTypeOK'
  BY <1>1, <1>3, JobQueueAssumption DEF HttpInv, HttpTypeOK
<1>5. OpenInv'
  BY <1>1 DEF HttpInv, OpenInv, Writable
<1>6. JobInv'
  BY <1>1, <1>2, <1>3 DEF HttpInv, JobInv, JobHoldsStream, Writable, JobOf
<1>7. QED
  BY <1>1, <1>4, <1>5, <1>6 DEF HttpInv, OthersKept

LEMMA FreeClosingInv ==
  ASSUME HttpInv, NEW l \in Loops, FreeClosing(l)
  PROVE  HttpInv' /\ OthersKept(l)
<1> DEFINE closed == {m \in DOMAIN cells : cells[m].home = l /\ cells[m].state = "closing"}
<1>1. /\ cells' = [m \in DOMAIN cells |-> IF m \in closed THEN Free ELSE cells[m]]
      /\ UNCHANGED <<queue, finished, seen, requests, answered, left>>
  BY DEF FreeClosing, jobVars
<1>2. Free \in Handles /\ \A m \in closed : ~Writable(m)
  BY DEF Free, Handles, Writable
<1> HIDE DEF closed
<1>3. /\ cells' \in Seq(Handles) /\ Len(cells') = Len(cells) /\ DOMAIN cells' = DOMAIN cells
      /\ \A m \in DOMAIN cells : cells'[m] = IF m \in closed THEN Free ELSE cells[m]
  BY <1>1, <1>2, HandlesRead DEF HttpInv, HttpTypeOK
<1>4. HttpTypeOK'
  BY <1>1, <1>3 DEF HttpInv, HttpTypeOK
<1>5. OpenInv'
  BY <1>3 DEF HttpInv, OpenInv, Writable, Free
<1>6. Pending' = Pending
  BY <1>1 DEF Pending
<1>7. JobInv'
  BY <1>1, <1>2, <1>3, <1>6 DEF HttpInv, JobInv, JobHoldsStream, Writable
<1>8. QED
  BY <1>2, <1>3, <1>4, <1>5, <1>7 DEF HttpInv, OthersKept

LEMMA AfterWorkInv ==
  ASSUME HttpInv, NEW l \in Loops, AfterWork(l)
  PROVE  HttpInv' /\ cells' = cells
<1>1. PICK n \in DOMAIN finished :
        LET m == finished[n].stream IN
        /\ answered' = answered \cup {c \in {cells[m].owner} : Writable(m) /\ c = finished[n].asker}
        /\ finished' = Seqs!RemoveAt(finished, n)
  BY DEF AfterWork, Due
<1>2. UNCHANGED <<cells, queue, seen, requests, left>>
  BY DEF AfterWork
<1>3. finished' \in Seq(Jobs) /\ Pending' \subseteq Pending
  BY <1>1, <1>2, RemoveAtIsPart DEF HttpInv, HttpTypeOK, Pending
<1>4. answered' \subseteq Clients
  <2>1. finished[n] \in Jobs
    BY <1>1 DEF HttpInv, HttpTypeOK
  <2>2. QED
    BY <1>1, <2>1 DEF HttpInv, HttpTypeOK, Jobs
<1>5. HttpTypeOK'
  BY <1>2, <1>3, <1>4 DEF HttpInv, HttpTypeOK
<1>6. OpenInv' /\ JobInv'
  BY <1>2, <1>3 DEF HttpInv, OpenInv, JobInv, JobHoldsStream, Writable
<1>7. QED
  BY <1>2, <1>5, <1>6 DEF HttpInv

LEMMA WorkerDoneInv ==
  ASSUME HttpInv, WorkerDone
  PROVE  HttpInv' /\ cells' = cells
<1>1. PICK n \in DOMAIN queue : /\ queue' = Seqs!RemoveAt(queue, n)
                                /\ finished' = Append(finished, queue[n])
  BY DEF WorkerDone, Taken
<1>2. UNCHANGED <<cells, seen, requests, answered, left>>
  BY DEF WorkerDone
<1>3. queue[n] \in Jobs /\ queue[n] \in Seqs!ToSet(queue)
  BY <1>1 DEF HttpInv, HttpTypeOK, Seqs!ToSet
<1>4. queue' \in Seq(Jobs) /\ Seqs!ToSet(queue') \subseteq Seqs!ToSet(queue)
  BY <1>1, RemoveAtIsPart DEF HttpInv, HttpTypeOK
<1>5. finished' \in Seq(Jobs) /\ Seqs!ToSet(finished') = Seqs!ToSet(finished) \cup {queue[n]}
  BY <1>1, <1>3, AppendedJob DEF HttpInv, HttpTypeOK
<1>6. Pending' \subseteq Pending
  BY <1>3, <1>4, <1>5 DEF Pending
<1>7. HttpTypeOK'
  BY <1>2, <1>4, <1>5 DEF HttpInv, HttpTypeOK
<1>8. OpenInv' /\ JobInv'
  BY <1>2, <1>6 DEF HttpInv, OpenInv, JobInv, JobHoldsStream, Writable
<1>9. QED
  BY <1>2, <1>7, <1>8 DEF HttpInv

-----------------------------------------------------------------------------
(***************************************************************************)
(* The steps of SampleHttp: those of JobQueue, or of ServerStats, and what *)
(* a loop serves.                                                          *)
(***************************************************************************)
LEMMA SampleInitInv == SampleInit => SampleInv
<1> SUFFICES ASSUME SampleInit PROVE SampleInv
  OBVIOUS
<1>1. DOMAIN cells = {} /\ cells \in Seq(Handles) /\ Len(cells) = 0
  BY DEF SampleInit, HttpInit
<1>2. queue \in Seq(Jobs) /\ finished \in Seq(Jobs) /\ Pending = {}
  BY DEF SampleInit, HttpInit, Pending, Seqs!ToSet
<1>3. HttpTypeOK
  BY <1>1, <1>2, JobQueueAssumption DEF SampleInit, HttpInit, HttpTypeOK
<1>4. OpenInv /\ JobInv
  BY <1>1, <1>2 DEF OpenInv, JobInv, JobHoldsStream
<1>5. ServingInv /\ alive \in BOOLEAN
  BY SampleHttpAssumption DEF SampleInit, StatsInit, ServingInv, Serving
<1>6. QED
  BY <1>3, <1>4, <1>5 DEF SampleInv, HttpInv

\* a callback of a loop that serves nothing
LEMMA CallbackInv ==
  ASSUME SampleInv, NEW l \in Loops, ~Serving(l), Callback(l), StatsUnchanged, alive' = alive
  PROVE  SampleInv'
<1>1. HttpInv' /\ OthersKept(l)
  <2>1. ASSUME NEW m \in DOMAIN cells, HangsUp(l, m)
        PROVE  HttpInv' /\ OthersKept(l)
    <3>1. /\ Writable(m) /\ cells[m].home = l /\ Close(m)
          /\ UNCHANGED jobVars /\ UNCHANGED <<seen, answered>> /\ requests' = requests
      BY <2>1 DEF HangsUp, Reads
    <3>2. QED
      BY <3>1, CloseInv DEF SampleInv
  <2>2. QED
    BY <2>1, HeavyLoadInv, NewConnectionInv, FreeClosingInv DEF Callback, SampleInv
<1>2. tpc' = tpc /\ reading' = reading
  BY DEF StatsUnchanged, statVars
<1>3. ServingInv'
  <2>1. reading \in [Loops -> {NoCell} \cup DOMAIN cells] /\ DOMAIN cells \subseteq DOMAIN cells'
    BY <1>1 DEF SampleInv, ServingInv, OthersKept
  <2>2. ASSUME NEW k \in Loops, Serving(k)
        PROVE  cells'[reading[k]] = cells[reading[k]]
    BY <1>1, <2>1, <2>2 DEF SampleInv, ServingInv, OthersKept, Serving
  <2>3. QED
    BY <1>2, <2>1, <2>2 DEF SampleInv, ServingInv, Serving, Writable
<1>4. QED
  BY <1>1, <1>3 DEF SampleInv

LEMMA BeginRequestInv ==
  ASSUME SampleInv, StatsInv, NEW l \in Loops, NEW m \in DOMAIN cells, ~Serving(l),
         BeginRequest(l, m), alive' = alive
  PROVE  SampleInv'
<1>1. /\ Writable(m) /\ cells[m].home = l /\ requests' \in 0 .. MaxRequests
      /\ reading' = [reading EXCEPT ![l] = m]
      /\ UNCHANGED <<cells, queue, finished, seen, answered, left>>
  BY JobQueueAssumption
  DEF BeginRequest, ReadsRequest, Reads, jobVars, SampleInv, HttpInv, HttpTypeOK
<1>2. HttpInv'
  BY <1>1 DEF SampleInv, HttpInv, HttpTypeOK, OpenInv, JobInv, JobHoldsStream, Pending, Writable
<1>3. m # NoCell
  BY HandlesRead DEF SampleInv, HttpInv, NoCell
<1>4. \A k \in Loops : k # l => tpc'[k] = tpc[k]
  BY SampleHttpAssumption DEF BeginRequest, TimerEnd, BeginPage, Goes, StatsInv, StatsTypeOK
<1>5. ServingInv'
  BY <1>1, <1>3, <1>4 DEF SampleInv, ServingInv, Serving, Writable
<1>6. QED
  BY <1>2, <1>5 DEF SampleInv

LEMMA EndRequestInv ==
  ASSUME SampleInv, NEW l \in Loops, EndRequest(l), alive' = alive
  PROVE  SampleInv'
<1> DEFINE m == reading[l]
<1>1. m \in DOMAIN cells /\ Writable(m) /\ cells[m].home = l /\ Close(m)
  BY DEF EndRequest, SampleInv, ServingInv, Serving
<1>2. /\ UNCHANGED jobVars /\ UNCHANGED <<seen, answered>> /\ requests' = requests
      /\ reading' = [reading EXCEPT ![l] = NoCell]
      /\ tpc' = tpc /\ tpc[l] = "idle"
  BY DEF EndRequest, statVars
<1> HIDE DEF m
<1>3. HttpInv' /\ OthersKept(l)
  BY <1>1, <1>2, CloseInv DEF SampleInv
<1>4. ServingInv'
  <2>1. reading' \in [Loops -> {NoCell} \cup DOMAIN cells']
    BY <1>2, <1>3 DEF SampleInv, ServingInv, OthersKept
  <2>2. ASSUME NEW k \in Loops, k # l, Serving(k)
        PROVE  cells'[reading[k]] = cells[reading[k]]
    BY <1>3, <2>2 DEF SampleInv, ServingInv, OthersKept, Serving
  <2>3. QED
    BY <1>2, <2>1, <2>2 DEF SampleInv, ServingInv, Serving, Writable
<1>5. QED
  BY <1>3, <1>4 DEF SampleInv

\* only a thread that is within the statistics goes on with them
LEMMA OneProceeds ==
  ASSUME NEW l \in Threads, Proceeds(l)
  PROVE  tpc[l] # "idle" \/ l \in stale
BY DEF Proceeds, AddRecord, RecordAdded, StaticSet, GetPerfRecord, LockRecord, Update,
       UpdateFreed, EndPage, Goes

LEMMA ProceedsInv ==
  ASSUME SampleInv, StatsInv, NEW l \in Loops, Proceeds(l), UNCHANGED <<httpVars, reading>>,
         alive' = alive
  PROVE  SampleInv'
<1>1. /\ UNCHANGED <<cells, queue, finished, seen, requests, answered, left, reading>>
      /\ HttpInv'
  BY DEF httpVars, jobVars, SampleInv, HttpInv, HttpTypeOK, OpenInv, JobInv, JobHoldsStream,
         Pending, Writable
<1>2. l \in Threads /\ tpc[l] # "idle"
  BY OneProceeds, SampleHttpAssumption DEF StatsInv, StaticInv, Users
<1>3. \A k \in Loops : k # l => tpc'[k] = tpc[k]
  BY SampleHttpAssumption
  DEF Proceeds, AddRecord, RecordAdded, StaticSet, GetPerfRecord, LockRecord, Update,
      UpdateFreed, EndPage, EndOfTimer, Goes, StatsInv, StatsTypeOK
<1>4. ServingInv'
  BY <1>1, <1>2, <1>3 DEF SampleInv, ServingInv, Serving, Writable
<1>5. QED
  BY <1>1, <1>4 DEF SampleInv

\* steps that change no handle and nothing of the statistics
LEMMA KeepsServing ==
  ASSUME ServingInv, cells' = cells, StatsUnchanged
  PROVE  ServingInv'
BY DEF ServingInv, Serving, Writable, StatsUnchanged, statVars

LEMMA SampleStep == SampleInv /\ StatsInv /\ [SampleNext]_sampleVars => SampleInv'
<1> SUFFICES ASSUME SampleInv, StatsInv, [SampleNext]_sampleVars PROVE SampleInv'
  OBVIOUS
<1>1. ASSUME NEW l \in Loops, CallsBack(l) PROVE SampleInv'
  BY <1>1, CallbackInv, BeginRequestInv DEF CallsBack
<1>2. ASSUME NEW l \in Loops, GoesOn(l) PROVE SampleInv'
  <2>1. CASE EndRequest(l)
    BY <1>2, <2>1, EndRequestInv DEF GoesOn
  <2>2. CASE Proceeds(l) /\ UNCHANGED <<httpVars, reading>>
    BY <1>2, <2>2, ProceedsInv DEF GoesOn
  <2>3. CASE AfterWork(l) /\ StatsUnchanged
    BY <1>2, <2>3, AfterWorkInv, KeepsServing DEF GoesOn, SampleInv
  <2>4. QED
    BY <1>2, <2>1, <2>2, <2>3 DEF GoesOn
<1>3. CASE Works
  BY <1>3, WorkerDoneInv, KeepsServing DEF Works, SampleInv
<1>4. CASE ProcessDies \/ UNCHANGED sampleVars
  <2>1. /\ UNCHANGED <<cells, queue, finished, seen, requests, answered, left, reading, tpc>>
        /\ alive' \in BOOLEAN
    BY <1>4 DEF ProcessDies, sampleVars, httpVars, jobVars, StatsUnchanged, statVars, SampleInv
  <2>2. HttpInv' /\ ServingInv'
    BY <2>1 DEF SampleInv, HttpInv, HttpTypeOK, OpenInv, JobInv, JobHoldsStream, Pending,
                ServingInv, Serving, Writable
  <2>3. QED
    BY <2>1, <2>2 DEF SampleInv
<1>5. QED
  BY <1>1, <1>2, <1>3, <1>4 DEF SampleNext

LEMMA StepIsOfStats == [SampleNext]_sampleVars => [StatsNext]_statVars
<1> SUFFICES ASSUME [SampleNext]_sampleVars PROVE [StatsNext]_statVars
  OBVIOUS
<1>1. ASSUME NEW l \in Loops, CallsBack(l) PROVE [StatsNext]_statVars
  BY <1>1, SampleHttpAssumption DEF CallsBack, StatsUnchanged, BeginRequest, StatsNext
<1>2. ASSUME NEW l \in Loops, GoesOn(l) PROVE [StatsNext]_statVars
  BY <1>2, SampleHttpAssumption DEF GoesOn, StatsUnchanged, EndRequest, StatsNext
<1>3. CASE Works \/ ProcessDies \/ UNCHANGED sampleVars
  BY <1>3 DEF Works, ProcessDies, StatsUnchanged, sampleVars
<1>4. QED
  BY <1>1, <1>2, <1>3 DEF SampleNext

LEMMA LoopsUseTheStats == SampleSpec => StatsSpec
<1>1. SampleInit => StatsInit
  BY DEF SampleInit
<1>2. QED
  BY <1>1, StepIsOfStats, PTL DEF SampleSpec, StatsSpec

-----------------------------------------------------------------------------
(***************************************************************************)
(* The theorems.                                                           *)
(***************************************************************************)
LEMMA SampleInvariant == SampleSpec => []SampleInv
<1>1. QED
  BY SampleInitInv, SampleStep, LoopsUseTheStats, StatsInvariant, PTL DEF SampleSpec

\* Every handle, job and record has its form, and a loop that is within TIMER_END or
\* a page serves a request of one of its own connections.
THEOREM SampleTypeCorrect == SampleSpec => []SampleTypeOK
<1>1. SampleInv /\ StatsInv => SampleTypeOK
  BY DEF SampleInv, HttpInv, ServingInv, StatsInv, SampleTypeOK, Serving
<1>2. QED
  BY <1>1, SampleInvariant, LoopsUseTheStats, StatsInvariant, PTL

\* after_heavy_processing finds the stream of a client that has waited as it was:
\* open, the client's own, and of the loop that calls it.
THEOREM WaitingClientKeepsItsStream == SampleSpec => []JobHoldsStream
BY SampleInvariant, PTL DEF SampleInv, HttpInv, JobInv

\* With the theorems of ServerStatsProofs, whatever callbacks the loops run between two
\* lines of the statistics: every place finds its own record, no call is lost while the records
\* stay where they are, and no page takes back what an earlier one has shown.
THEOREM SampleKeepsTheStats ==
  SampleSpec => [](IndexIsOwn /\ CallsCounted /\ CountersNeverDrop)
BY LoopsUseTheStats, IndexFindsItsRecord, NoCallIsLost, CountersAreMonotonic, PTL
=============================================================================
