-------------------------- MODULE AuthServerProofs --------------------------
(***************************************************************************)
(* Proofs about AuthServer, for any number of database connections,        *)
(* coroutines, clients and heap cells.                                     *)
(***************************************************************************)
EXTENDS AuthServer, DbPoolProofs, SequenceTheorems, WellFoundedInduction

-----------------------------------------------------------------------------
(***************************************************************************)
(* The loop of CleanupDeadCoroutines.  Induction on its index is stated of *)
(* a set of numbers; it rests on the least number that is not in the set.  *)
(***************************************************************************)
LEMMA SetInduction ==
  ASSUME NEW S, 0 \in S, \A n \in Nat : n \in S => n + 1 \in S
  PROVE  Nat \subseteq S
<1> SUFFICES ASSUME Nat \ S # {} PROVE FALSE
  OBVIOUS
<1>1. PICK m \in Nat \ S : \A k \in Nat \ S : <<k, m>> \notin OpToRel(<, Nat)
  BY NatLessThanWellFounded, WFMin, Zenon
<1>2. \A k \in Nat \ S : ~(k < m)
  BY <1>1 DEF OpToRel
<1>3. m # 0 /\ m - 1 \in Nat /\ m - 1 < m
  OBVIOUS
<1>4. m - 1 \in S
  BY <1>2, <1>3
<1>5. QED
  BY <1>3, <1>4

\* What the loop makes of the part of s it has passed.
IsWalk(f, s, I) ==
  f = [n \in 0 .. Len(s) |->
         IF n = 0 THEN <<>>
         ELSE IF n \in I THEN Append(f[n - 1], s[n]) ELSE f[n - 1]]

LEMMA WalkSteps ==
  ASSUME NEW f, NEW s, NEW I, Len(s) \in Nat, IsWalk(f, s, I)
  PROVE  /\ f[0] = <<>>
         /\ \A n \in 1 .. Len(s) :
              f[n] = IF n \in I THEN Append(f[n - 1], s[n]) ELSE f[n - 1]
<1> DEFINE g(n) == IF n = 0 THEN <<>>
                   ELSE IF n \in I THEN Append(f[n - 1], s[n]) ELSE f[n - 1]
<1>1. \A n \in 0 .. Len(s) : [m \in 0 .. Len(s) |-> g(m)][n] = g(n)
  OBVIOUS
<1>2. f = [m \in 0 .. Len(s) |-> g(m)]
  BY DEF IsWalk
<1>3. \A n \in 0 .. Len(s) : f[n] = g(n)
  BY <1>1, <1>2, Zenon
<1>4. QED
  BY <1>3

\* The function that Kept defines by recursion exists.
LEMMA WalkExists ==
  ASSUME NEW S, NEW s \in Seq(S), NEW I
  PROVE  \E f : IsWalk(f, s, I)
<1> DEFINE Upto(f, n) ==
      /\ f \in [0 .. n -> Seq(S)]
      /\ f[0] = <<>>
      /\ \A i \in 1 .. n : f[i] = IF i \in I THEN Append(f[i - 1], s[i]) ELSE f[i - 1]
    N == {n \in Nat : n <= Len(s) => \E f : Upto(f, n)}
<1>1. 0 \in N
  <2>1. Upto([i \in 0 .. 0 |-> <<>>], 0)
    OBVIOUS
  <2>2. QED
    BY <2>1
<1>2. ASSUME NEW n \in Nat, n \in N PROVE n + 1 \in N
  <2>1. SUFFICES ASSUME n + 1 <= Len(s) PROVE \E f : Upto(f, n + 1)
    OBVIOUS
  <2>2. PICK f : Upto(f, n)
    <3>1. n <= Len(s)
      BY <2>1, LenProperties
    <3> HIDE DEF Upto
    <3>2. QED
      BY <1>2, <3>1, Zenon
  <2> DEFINE new == IF n + 1 \in I THEN Append(f[n], s[n + 1]) ELSE f[n]
             g == [i \in 0 .. n + 1 |-> IF i = n + 1 THEN new ELSE f[i]]
  <2>3. s[n + 1] \in S /\ f[n] \in Seq(S)
    BY <2>1, <2>2
  <2>4. new \in Seq(S)
    BY <2>3, AppendProperties
  <2>5. g \in [0 .. n + 1 -> Seq(S)] /\ g[0] = <<>>
    BY <2>2, <2>4
  <2>6. ASSUME NEW i \in 1 .. n + 1
        PROVE  g[i] = IF i \in I THEN Append(g[i - 1], s[i]) ELSE g[i - 1]
    <3>1. CASE i = n + 1
      BY <3>1
    <3>2. CASE i \in 1 .. n
      BY <2>2, <3>2
    <3>3. QED
      BY <3>1, <3>2
  <2>7. QED
    BY <2>5, <2>6
<1>3. Len(s) \in N /\ Len(s) \in Nat
  <2> HIDE DEF N
  <2>1. Nat \subseteq N
    BY <1>1, <1>2, SetInduction
  <2>2. QED
    BY <2>1
<1>4. PICK f : Upto(f, Len(s))
  BY <1>3
<1>5. IsWalk(f, s, I)
  <2> DEFINE g == [n \in 0 .. Len(s) |->
                     IF n = 0 THEN <<>>
                     ELSE IF n \in I THEN Append(f[n - 1], s[n]) ELSE f[n - 1]]
  <2>1. ASSUME NEW n \in 0 .. Len(s) PROVE f[n] = g[n]
    <3>1. CASE n = 0
      BY <1>4, <3>1
    <3>2. CASE n \in 1 .. Len(s)
      BY <1>4, <3>2
    <3>3. QED
      BY <1>3, <3>1, <3>2
  <2>2. f = g
    BY <1>3, <1>4, <2>1
  <2>3. QED
    BY <2>2 DEF IsWalk
<1>6. QED
  BY <1>5

LEMMA AppendOnce ==
  ASSUME NEW S, NEW s \in Seq(S), NEW x \in S, x \notin ToSet(s), IsInjective(s)
  PROVE  /\ Append(s, x) \in Seq(S)
         /\ IsInjective(Append(s, x))
         /\ ToSet(Append(s, x)) = ToSet(s) \cup {x}
<1> DEFINE t == Append(s, x)
           n == Len(s)
<1>1. /\ t \in Seq(S)
      /\ DOMAIN s = 1 .. n
      /\ DOMAIN t = 1 .. n + 1
      /\ \A i \in 1 .. n : t[i] = s[i]
      /\ t[n + 1] = x
      /\ n \in Nat
  BY AppendProperties
<1>2. \A i \in 1 .. n : t[i] # x
  BY <1>1 DEF ToSet
<1> HIDE DEF t, n
<1>3. ASSUME NEW i \in DOMAIN t, NEW j \in DOMAIN t, t[i] = t[j]
      PROVE  i = j
  <2>1. i \in 1 .. n + 1 /\ j \in 1 .. n + 1
    BY <1>1
  <2>2. CASE i = n + 1 \/ j = n + 1
    BY <1>1, <1>2, <1>3, <2>1, <2>2
  <2>3. CASE i \in 1 .. n /\ j \in 1 .. n
    BY <1>1, <1>3, <2>3 DEF IsInjective
  <2>4. QED
    BY <1>1, <2>1, <2>2, <2>3
<1>4. ToSet(t) = ToSet(s) \cup {x}
  BY <1>1 DEF ToSet
<1>5. QED
  BY <1>1, <1>3, <1>4 DEF IsInjective, t

LEMMA KeptIsWalk ==
  ASSUME NEW S, list \in Seq(S), NEW I
  PROVE  \E f : IsWalk(f, list, I) /\ Kept(I) = f[Len(list)]
<1> DEFINE f == CHOOSE f : IsWalk(f, list, I)
<1>1. IsWalk(f, list, I)
  BY WalkExists, Zenon
<1>2. Kept(I) = f[Len(list)]
  BY DEF Kept, IsWalk
<1>3. QED
  BY <1>1, <1>2

\* Who stays in the list: nobody twice, and exactly those at the indices in I.
LEMMA KeptElements ==
  ASSUME NEW S, list \in Seq(S), NEW I \in SUBSET DOMAIN list, IsInjective(list)
  PROVE  /\ Kept(I) \in Seq(S)
         /\ IsInjective(Kept(I))
         /\ ToSet(Kept(I)) = {list[n] : n \in I}
<1>1. PICK f : IsWalk(f, list, I) /\ Kept(I) = f[Len(list)]
  BY KeptIsWalk
<1> DEFINE
  Good(n) == /\ f[n] \in Seq(S)
             /\ IsInjective(f[n])
             /\ ToSet(f[n]) = {list[m] : m \in I \cap 1 .. n}
  N == {n \in Nat : n <= Len(list) => Good(n)}
<1>2. 0 \in N
  <2>1. f[0] = <<>>
    BY <1>1 DEF IsWalk
  <2>2. DOMAIN f[0] = {} /\ I \cap 1 .. 0 = {} /\ f[0] \in Seq(S)
    BY <2>1
  <2>3. IsInjective(f[0]) /\ ToSet(f[0]) = {}
    BY <2>2 DEF IsInjective, ToSet
  <2>4. QED
    BY <2>2, <2>3
<1>3. ASSUME NEW n \in Nat, n \in N PROVE n + 1 \in N
  <2>1. SUFFICES ASSUME n + 1 <= Len(list) PROVE Good(n + 1)
    OBVIOUS
  <2>2. Good(n)
    BY <1>3, <2>1
  <2>3. f[n + 1] = IF n + 1 \in I THEN Append(f[n], list[n + 1]) ELSE f[n]
    <3>1. n + 1 \in 1 .. Len(list) /\ (n + 1) - 1 = n
      BY <2>1
    <3>2. QED
      BY <1>1, <3>1, WalkSteps
  <2>4. CASE n + 1 \notin I
    <3>1. I \cap 1 .. n + 1 = I \cap 1 .. n
      BY <2>4
    <3>2. QED
      BY <2>2, <2>3, <2>4, <3>1
  <2>5. CASE n + 1 \in I
    <3>1. I \cap 1 .. n + 1 = (I \cap 1 .. n) \cup {n + 1}
      BY <2>5
    <3>2. list[n + 1] \in S /\ DOMAIN list = 1 .. Len(list)
      BY <2>1
    <3>3. list[n + 1] \notin ToSet(f[n])
      BY <2>1, <2>2, <3>2 DEF IsInjective
    <3>4. QED
      BY <2>2, <2>3, <2>5, <3>1, <3>2, <3>3, AppendOnce
  <2>6. QED
    BY <2>4, <2>5
<1>4. Nat \subseteq N
  BY <1>2, <1>3, SetInduction
<1>5. Len(list) \in Nat /\ I \cap 1 .. Len(list) = I
  OBVIOUS
<1>6. QED
  BY <1>1, <1>4, <1>5

-----------------------------------------------------------------------------
(***************************************************************************)
(* What the steps of the pool do to the coroutines.                        *)
(***************************************************************************)
LEMMA QuietPool ==
  ASSUME \/ ProcessDies \/ Environment
         \/ \E k \in 0 .. NumConns : CheckConnections(k)
         \/ \E i \in Ctx : PollReady(i) \/ PollFails(i)
         \/ UNCHANGED vars
  PROVE  /\ UNCHANGED <<pc, replies>>
         /\ proc' \in {"running", "blocked"} => proc' = proc
<1> USE DEF dbVars, poolVars, flagVars, coroVars
<1>1. CASE ProcessDies \/ Environment \/ UNCHANGED vars
  BY <1>1 DEF ProcessDies, Environment, DbAnswers, BackendDies, DbDown, DbUp, vars
<1>2. CASE \E k \in 0 .. NumConns : CheckConnections(k)
  BY <1>2 DEF CheckConnections
<1>3. CASE \E i \in Ctx : PollReady(i) \/ PollFails(i)
  BY <1>3 DEF PollReady, PollFails
<1>4. QED
  BY <1>1, <1>2, <1>3

LEMMA ResumeIsPoolStep ==
  ASSUME NEW u \in Coros, ResumeWithStream(u)
  PROVE  Resume(u)
<1>1. Open(u) \in BOOLEAN
  BY DEF Open
<1>2. QED
  BY <1>1 DEF ResumeWithStream, Resume, HungUp

\* A coroutine that is resumed is alive, and says something only at its end.
LEMMA ResumeFacts ==
  ASSUME TypeOK, NEW u \in Coros, Resume(u)
  PROVE  /\ proc \in {"running", "blocked"}
         /\ Alive(u)
         /\ \/ pc' = pc
            \/ \E l \in {"acquire", "wait", "update", "dead"} : pc' = [pc EXCEPT ![u] = l]
         /\ replies' # replies => pc'[u] \in {"update", "dead"}
         /\ pc[u] = "update" => pc'[u] = "dead"
<1> USE DEF TypeOK, Alive, At, Return, Woken, CanRead, coroVars
<1>1. CASE StreamClosing(u) \/ AcquireAndSend(u) \/ NoneFree(u)
  BY <1>1 DEF StreamClosing, AcquireAndSend, NoneFree
<1>2. ASSUME NEW w \in BOOLEAN,
             AcquireSendFails(u, w) \/ TimeLimit(u, w) \/ Terminated(u, w) \/ RegisterDone(u, w)
      PROVE  /\ proc = "running" /\ Alive(u)
             /\ pc' = [pc EXCEPT ![u] = "dead"]
  BY <1>2 DEF AcquireSendFails, TimeLimit, Terminated, RegisterDone
<1>3. ASSUME NEW w \in BOOLEAN,
             LoginFatal(u, w) \/ LoginEnds(u, w) \/ LoginUpdateNotSent(u, w) \/ UpdateDone(u, w)
      PROVE  /\ proc \in {"running", "blocked"} /\ Alive(u)
             /\ pc' = [pc EXCEPT ![u] = "dead"]
  BY <1>3 DEF LoginFatal, LoginEnds, LoginUpdateNotSent, UpdateDone
<1>4. ASSUME NEW w \in BOOLEAN, LoginUpdates(u, w)
      PROVE  /\ proc = "running" /\ pc[u] = "wait"
             /\ pc' = [pc EXCEPT ![u] = "update"]
  BY <1>4 DEF LoginUpdates
<1>5. ASSUME NEW w \in BOOLEAN, ReadFinishedConn(u, w)
      PROVE  /\ proc = "running" /\ pc[u] = "wait"
             /\ \/ pc' = [pc EXCEPT ![u] = "dead"]
                \/ pc' = pc /\ replies' = replies
  BY <1>5 DEF ReadFinishedConn
<1>6. QED
  BY <1>1, <1>2, <1>3, <1>4, <1>5 DEF Resume

-----------------------------------------------------------------------------
(***************************************************************************)
(* The refinement of DbPool.                                               *)
(***************************************************************************)
\* Every step of the server is one of the pool or leaves it alone.
LEMMA ServerStepIsPoolStep ==
  ASSUME ServerTypeOK, [ServerNext]_allVars
  PROVE  [Next]_vars
<1>1. CASE EndPoll \/ NotDue \/ BeginStep
  BY <1>1 DEF EndPoll, NotDue, BeginStep
<1>2. CASE StepCoroutine
  <2>1. list[cur] \in Coros
    BY <1>2, ElementOfSeq DEF StepCoroutine, ServerTypeOK
  <2>2. Resume(list[cur]) \/ UNCHANGED vars
    BY <1>2, <2>1, ResumeIsPoolStep DEF StepCoroutine
  <2>3. QED
    BY <2>1, <2>2 DEF Next
<1>3. CASE EndStep
  BY <1>3 DEF EndStep, Next
<1>4. ASSUME NEW m \in Cells, NewConnection(m) \/ SyncRequest(m) \/ ReadEof(m)
      PROVE  [Next]_vars
  BY <1>4 DEF NewConnection, SyncRequest, ReadEof
<1>5. ASSUME NEW m \in Cells, NEW u \in Coros, Request(m, u) PROVE [Next]_vars
  BY <1>5 DEF Request, Next
<1>6. ASSUME NEW i \in Ctx, DbReadable(i) PROVE [Next]_vars
  BY <1>6 DEF DbReadable, PollCallback, Next
<1>7. ASSUME NEW k \in 0 .. NumConns, CheckTimer(k) PROVE [Next]_vars
  BY <1>7 DEF CheckTimer, Next
<1>8. CASE ServerRestarts \/ ProcessDies \/ Environment
  BY <1>8 DEF ServerRestarts, Next
<1>9. CASE UNCHANGED allVars
  BY <1>9 DEF allVars
<1>10. QED
  BY <1>1, <1>2, <1>3, <1>4, <1>5, <1>6, <1>7, <1>8, <1>9 DEF ServerNext, Loop

-----------------------------------------------------------------------------
(***************************************************************************)
(* The inductive invariant.  IInv', what it says of the pool, is known of  *)
(* every step from the refinement; the lemmas are about the rest.          *)
(***************************************************************************)
LEMMA InitServerIInv == ServerInit => ServerIInv
<1> SUFFICES ASSUME ServerInit PROVE ServerIInv
  OBVIOUS
<1> USE DbPoolAssumption, AuthServerAssumption DEF ServerInit
<1>1. IInv
  BY InitIInv
<1>2. /\ pc = [u \in Coros |-> "none"] /\ list = <<>> /\ list \in Seq(Coros)
      /\ Len(list) = 0 /\ DOMAIN list = {}
  BY DEF Init
<1>3. ServerTypeOK
  BY <1>1, <1>2 DEF IInv, ServerTypeOK, NoClient, Clients
<1>4. ListIsLive /\ ListOnce
  BY <1>2 DEF ListIsLive, ListOnce, IsInjective, ToSet
<1>5. ClosingInPoll /\ OneCellEach
  BY DEF ClosingInPoll, OneCellEach, NoClient
<1>6. Asked /\ ClosedWithRequest /\ AskersOnly
  BY <1>2 DEF Asked, ClosedWithRequest, AskersOnly, Unreaped, NoClient
<1>7. PoliteOnes
  BY <1>2 DEF PoliteOnes, Unreaped, NoClient
<1>8. QED
  BY <1>1, <1>3, <1>4, <1>5, <1>6, <1>7 DEF ServerIInv

\* Steps that leave connections, coroutines and the list alone.
LEMMA QuietStep ==
  ASSUME ServerIInv, IInv',
         UNCHANGED <<connVars, listVars, got, clients, pc>>,
         proc' \in {"running", "blocked"} => proc \in {"running", "blocked"},
         phase' \in {"timers", "step", "poll"},
         phase' = phase \/ phase = "timers",
         cur' \in 1 .. Len(list) + 1
  PROVE  ServerIInv'
<1> USE DEF ServerIInv, connVars, listVars
<1>1. ServerTypeOK'
  BY DEF IInv, ServerTypeOK
<1>2. ListIsLive' /\ ListOnce'
  BY DEF ListIsLive, ListOnce
<1>3. ClosingInPoll'
  BY DEF ClosingInPoll
<1>4. OneCellEach' /\ Asked'
  BY DEF OneCellEach, Asked
<1>5. ClosedWithRequest' /\ AskersOnly' /\ PoliteOnes'
  BY DEF ClosedWithRequest, AskersOnly, PoliteOnes, Unreaped, Open
<1>6. QED
  BY <1>1, <1>2, <1>3, <1>4, <1>5

\* The callbacks of the poll that only close handles, none of a polite client's
\* whose coroutine is not done.
LEMMA ClosesStep ==
  ASSUME ServerIInv, IInv',
         phase = "poll", UNCHANGED <<phase, cur, owner, seen, listVars, got, pc>>,
         NEW M, SafeClose(M),
         proc' \in {"running", "blocked"} => proc \in {"running", "blocked"},
         clients' \in {"any", "polite", "unlucky"},
         clients' = "polite" =>
           clients = "polite" /\ \A u \in Coros : Unreaped(u) => stream[u] \notin M
  PROVE  ServerIInv'
<1> USE DEF ServerIInv, listVars
<1>1. /\ handle' \in [Cells -> {"free", "open", "closing"}]
      /\ \A m \in Cells : /\ handle'[m] = "free" <=> handle[m] = "free"
                          /\ handle'[m] = "open" => handle[m] = "open"
                          /\ m \notin M => handle'[m] = handle[m]
  BY DEF ServerTypeOK, SafeClose
<1> HIDE DEF SafeClose
<1>2. ServerTypeOK'
  BY <1>1 DEF IInv, ServerTypeOK
<1>3. ListIsLive' /\ ListOnce'
  BY DEF ListIsLive, ListOnce
<1>4. ClosingInPoll'
  BY DEF ClosingInPoll
<1>5. OneCellEach' /\ Asked'
  BY <1>1 DEF OneCellEach, Asked
<1>6. ClosedWithRequest' /\ AskersOnly'
  BY <1>1 DEF ClosedWithRequest, AskersOnly, Unreaped
<1>7. PoliteOnes'
  BY <1>1 DEF PoliteOnes, Unreaped, Open
<1>8. QED
  BY <1>2, <1>3, <1>4, <1>5, <1>6, <1>7

LEMMA SyncRequestStep ==
  ASSUME ServerIInv, IInv', NEW m \in Cells, SyncRequest(m)
  PROVE  ServerIInv'
<1>1. /\ UNCHANGED <<vars, phase, cur, owner, seen, listVars, got, clients>>
      /\ phase = "poll" /\ handle[m] = "open" /\ SafeClose({m})
      /\ Polite => ~HasAsked(owner[m])
  BY DEF SyncRequest, In
<1>2. UNCHANGED <<pc, proc>>
  BY <1>1 DEF vars, coroVars
<1>3. ASSUME clients = "polite", NEW u \in Coros, Unreaped(u) PROVE stream[u] # m
  BY <1>1, <1>3 DEF ServerIInv, PoliteOnes, Polite, HasAsked
<1>4. QED
  BY <1>1, <1>2, <1>3, ClosesStep DEF ServerIInv, ServerTypeOK

\* A polite client that hangs up has been answered, by a coroutine that is gone.
LEMMA ReadEofStep ==
  ASSUME ServerIInv, IInv', NEW m \in Cells, ReadEof(m)
  PROVE  ServerIInv'
<1>1. /\ UNCHANGED <<vars, phase, cur, owner, seen, listVars, got, clients>>
      /\ proc = "running" /\ phase = "poll" /\ handle[m] = "open" /\ SafeClose({m})
      /\ Polite => got[owner[m]] # {}
  BY DEF ReadEof, In
<1>2. UNCHANGED <<pc, proc>>
  BY <1>1 DEF vars, coroVars
<1>3. owner[m] \in Clients
  BY <1>1 DEF ServerIInv, ServerTypeOK, OneCellEach
<1>4. ASSUME clients = "polite", NEW u \in Coros, Unreaped(u), stream[u] = m PROVE FALSE
  <2>1. PICK v \in got[owner[m]] : TRUE
    BY <1>1, <1>4 DEF Polite
  <2>2. v \in Coros /\ from[v] = owner[m] /\ pc[v] \in {"update", "dead", "reaped"}
    BY <1>3, <1>4, <2>1 DEF ServerIInv, ServerTypeOK, PoliteOnes
  <2>3. from[u] = owner[m] /\ owner[m] # NoClient
    BY <1>3, <1>4 DEF ServerIInv, PoliteOnes, Clients, NoClient
  <2>4. u = v
    BY <1>4, <2>2, <2>3 DEF ServerIInv, PoliteOnes
  <2>5. pc[v] # "update"
    BY <1>1, <2>2 DEF ServerIInv, IInv, UpdateBlocks
  <2>6. pc[v] # "dead"
    BY <1>1, <2>2 DEF ServerIInv, ListIsLive
  <2>7. QED
    BY <1>4, <2>2, <2>4, <2>5, <2>6 DEF Unreaped
<1>5. QED
  BY <1>1, <1>2, <1>4, ClosesStep DEF ServerIInv, ServerTypeOK

LEMMA DbReadableStep ==
  ASSUME ServerIInv, IInv', NEW i \in Ctx, DbReadable(i)
  PROVE  ServerIInv'
<1>1. /\ UNCHANGED <<phase, cur, owner, seen, listVars, got>>
      /\ phase = "poll" /\ proc = "running"
      /\ UNCHANGED pc
  BY QuietPool DEF DbReadable, In
<1>2. CASE UNCHANGED <<handle, clients>>
  BY <1>1, <1>2, QuietStep DEF ServerIInv, ServerTypeOK, connVars
<1>3. CASE CloseStreams({mStream[i]} \ {NoStream}) /\ clients' # "polite"
  <2>1. clients' \in {"any", "polite", "unlucky"}
    BY DEF DbReadable, ServerIInv, ServerTypeOK
  <2>2. QED
    BY <1>1, <1>3, <2>1, ClosesStep DEF CloseStreams
<1>4. QED
  BY <1>2, <1>3 DEF DbReadable, Polite

LEMMA EndPollStep ==
  ASSUME ServerIInv, IInv', EndPoll
  PROVE  ServerIInv'
<1> USE DEF ServerIInv, listVars, coroVars
<1>1. /\ UNCHANGED <<vars, cur, seen, listVars, got, clients>>
      /\ UNCHANGED <<pc, proc>>
      /\ phase = "poll" /\ phase' = "timers"
      /\ \A m \in Cells :
           IF handle[m] = "closing" THEN handle'[m] = "free" /\ owner'[m] = NoClient
           ELSE handle'[m] = handle[m] /\ owner'[m] = owner[m]
  BY DEF EndPoll, In, vars
<1>2. ServerTypeOK'
  BY DEF EndPoll, IInv, ServerTypeOK, Clients, NoClient
<1>3. ListIsLive' /\ ListOnce'
  BY <1>1 DEF ListIsLive, ListOnce
<1>4. ClosingInPoll'
  BY <1>1 DEF ClosingInPoll
<1>5. OneCellEach' /\ Asked'
  BY <1>1 DEF OneCellEach, Asked, ServerTypeOK, NoClient
<1>6. ClosedWithRequest' /\ AskersOnly'
  BY <1>1 DEF ClosedWithRequest, AskersOnly, Unreaped, Asked
<1>7. PoliteOnes'
  BY <1>1 DEF PoliteOnes, Unreaped, Open
<1>8. QED
  BY <1>2, <1>3, <1>4, <1>5, <1>6, <1>7

LEMMA NewConnectionStep ==
  ASSUME ServerIInv, IInv', NEW m \in Cells, NewConnection(m)
  PROVE  ServerIInv'
<1> USE AuthServerAssumption DEF ServerIInv, listVars, coroVars
<1>1. /\ UNCHANGED <<vars, phase, cur, listVars, got, clients>>
      /\ UNCHANGED <<pc, proc>>
      /\ phase = "poll" /\ handle[m] = "free"
      /\ seen < NumClients /\ seen' = seen + 1 /\ seen \in Nat
      /\ handle' = [handle EXCEPT ![m] = "open"]
      /\ owner' = [owner EXCEPT ![m] = seen + 1]
  BY DEF NewConnection, In, vars, ServerTypeOK
<1>2. /\ handle'[m] = "open" /\ owner'[m] = seen + 1 /\ owner'[m] # NoClient
      /\ \A n \in Cells \ {m} : handle'[n] = handle[n] /\ owner'[n] = owner[n]
      /\ \A n \in Cells : owner[n] # seen + 1 /\ owner[n] \in Nat
      /\ \A u \in Coros : from[u] # seen + 1 /\ from[u] \in Nat
  BY <1>1 DEF ServerTypeOK, OneCellEach, Asked, Clients, NoClient
<1>3. ServerTypeOK'
  BY <1>1 DEF IInv, ServerTypeOK, Clients, NoClient
<1>4. ListIsLive' /\ ListOnce'
  BY <1>1 DEF ListIsLive, ListOnce
<1>5. ClosingInPoll'
  BY <1>1 DEF ClosingInPoll
<1>6. OneCellEach' /\ Asked'
  <2>1. \A n \in Cells : owner'[n] <= seen'
    BY <1>1, <1>2 DEF OneCellEach
  <2>2. \A u \in Coros : from[u] <= seen'
    BY <1>1, <1>2 DEF Asked
  <2>3. QED
    BY <1>1, <1>2, <2>1, <2>2 DEF OneCellEach, Asked
<1>7. ClosedWithRequest' /\ AskersOnly'
  BY <1>1, <1>2 DEF ClosedWithRequest, AskersOnly, Unreaped
<1>8. PoliteOnes'
  BY <1>1, <1>2 DEF PoliteOnes, Unreaped, Open
<1>9. QED
  BY <1>3, <1>4, <1>5, <1>6, <1>7, <1>8

\* A new coroutine enters the list, at its end.
LEMMA RequestStep ==
  ASSUME ServerIInv, IInv', NEW m \in Cells, NEW u \in Coros, Request(m, u)
  PROVE  ServerIInv'
<1> USE DEF ServerIInv
<1>1. /\ UNCHANGED <<phase, cur, connVars, got, clients, proc>>
      /\ UNCHANGED <<handle, owner, seen>>
      /\ proc = "running" /\ phase = "poll" /\ handle[m] = "open"
      /\ Polite => ~HasAsked(owner[m])
      /\ pc[u] = "none" /\ pc' = [pc EXCEPT ![u] = "new"]
      /\ list' = Append(list, u)
      /\ stream' = [stream EXCEPT ![u] = m]
      /\ from' = [from EXCEPT ![u] = owner[m]]
  BY DEF Request, In, Create, At, connVars
<1>2. owner[m] \in Clients /\ owner[m] # NoClient /\ owner[m] <= seen
  BY <1>1 DEF ServerTypeOK, OneCellEach, Clients, NoClient
<1>3. /\ pc'[u] = "new" /\ stream'[u] = m /\ from'[u] = owner[m]
      /\ \A v \in Coros \ {u} :
           pc'[v] = pc[v] /\ stream'[v] = stream[v] /\ from'[v] = from[v]
  BY <1>1 DEF ServerTypeOK, IInv, TypeOK
<1>4. u \notin ToSet(list)
  BY <1>1 DEF ListIsLive
<1>5. list' \in Seq(Coros) /\ IsInjective(list') /\ ToSet(list') = ToSet(list) \cup {u}
  BY <1>1, <1>4, AppendOnce DEF ServerTypeOK, ListOnce
<1>6. ServerTypeOK'
  <2>1. cur \in 1 .. Len(list')  + 1
    <3>1. Len(list') = Len(list) + 1 /\ Len(list) \in Nat
      BY <1>1, AppendProperties DEF ServerTypeOK
    <3>2. QED
      BY <3>1 DEF ServerTypeOK
  <2>2. stream' \in [Coros -> Cells \cup {NoCell}] /\ from' \in [Coros -> Clients \cup {NoClient}]
    BY <1>1, <1>2 DEF ServerTypeOK
  <2>3. QED
    BY <1>1, <1>5, <2>1, <2>2 DEF IInv, ServerTypeOK
<1>7. ListIsLive' /\ ListOnce'
  BY <1>1, <1>3, <1>5 DEF ListIsLive, ListOnce
<1>8. ClosingInPoll' /\ OneCellEach'
  BY <1>1 DEF ClosingInPoll, OneCellEach
<1>9. Asked'
  BY <1>1, <1>2, <1>3 DEF Asked
<1>10. ClosedWithRequest'
  BY <1>1, <1>3 DEF ClosedWithRequest
<1>11. AskersOnly'
  BY <1>1, <1>2, <1>3 DEF AskersOnly, Unreaped, OneCellEach
<1>12. PoliteOnes'
  <2>1. SUFFICES ASSUME clients = "polite" PROVE PoliteOnes'
    BY <1>1 DEF PoliteOnes
  <2>2. \A v \in Coros : from[v] # owner[m]
    BY <1>1, <2>1 DEF Polite, HasAsked
  <2>3. \A c \in Clients : u \notin got[c]
    BY <1>1, <2>1 DEF PoliteOnes
  <2>4. \A v, w \in Coros : from'[v] = from'[w] /\ from'[v] # NoClient => v = w
    BY <1>3, <2>1, <2>2 DEF PoliteOnes
  <2>5. \A v \in Coros : Unreaped(v)' =>
          stream'[v] \in Cells /\ Open(v)' /\ owner[stream'[v]] = from'[v]
    BY <1>1, <1>3, <2>1 DEF PoliteOnes, Unreaped, Open
  <2>6. \A c \in Clients : \A v \in got[c] :
          from'[v] = c /\ pc'[v] \in {"update", "dead", "reaped"}
    BY <1>3, <2>1, <2>3 DEF PoliteOnes, ServerTypeOK
  <2>7. QED
    BY <1>1, <2>4, <2>5, <2>6 DEF PoliteOnes
<1>13. QED
  BY <1>6, <1>7, <1>8, <1>9, <1>10, <1>11, <1>12

\* One turn in the loop of StepCoroutines.
LEMMA StepCoroutineStep ==
  ASSUME ServerIInv, IInv', StepCoroutine
  PROVE  ServerIInv'
<1> USE DEF ServerIInv
<1>1. PICK u \in Coros : /\ u = list[cur]
                         /\ ResumeWithStream(u) \/ UNCHANGED vars
                         /\ Deliver(u)
  BY ElementOfSeq DEF StepCoroutine, ServerTypeOK
<1>2. /\ phase = "step" /\ cur <= Len(list)
      /\ UNCHANGED <<phase, handle, owner, seen, list, stream, from, clients>>
      /\ cur' \in {cur, cur + 1}
  BY DEF StepCoroutine, connVars, listVars
<1>3. /\ proc' \in {"running", "blocked"} => proc \in {"running", "blocked"}
      /\ \/ pc' = pc
         \/ Alive(u) /\ \E l \in {"acquire", "wait", "update", "dead"} : pc' = [pc EXCEPT ![u] = l]
      /\ replies' # replies => Alive(u) /\ pc'[u] \in {"update", "dead"}
      /\ pc[u] = "update" => pc'[u] \in {"update", "dead"}
  <2>1. CASE ResumeWithStream(u)
    BY <2>1, ResumeIsPoolStep, ResumeFacts DEF IInv
  <2>2. CASE UNCHANGED vars
    BY <2>2 DEF vars, coroVars
  <2>3. QED
    BY <1>1, <2>1, <2>2
<1>4. \A v \in Coros :
        /\ Unreaped(v)' <=> Unreaped(v)
        /\ pc'[v] = "reaped" <=> pc[v] = "reaped"
        /\ pc'[v] = "none" <=> pc[v] = "none"
        /\ v # u => pc'[v] = pc[v]
        /\ pc[v] \in {"update", "dead", "reaped"} => pc'[v] \in {"update", "dead", "reaped"}
  BY <1>3 DEF Unreaped, Alive, IInv, TypeOK
<1>5. ServerTypeOK'
  <2>1. got' \in [Clients -> SUBSET Coros]
    BY <1>1 DEF Deliver, ServerTypeOK
  <2>2. cur' \in 1 .. Len(list) + 1
    BY <1>2, LenProperties DEF ServerTypeOK
  <2>3. QED
    BY <1>2, <2>1, <2>2 DEF IInv, ServerTypeOK
<1>6. ListIsLive' /\ ListOnce'
  BY <1>2, <1>3, <1>4 DEF ListIsLive, ListOnce, Unreaped
<1>7. ClosingInPoll' /\ OneCellEach'
  BY <1>2 DEF ClosingInPoll, OneCellEach
<1>8. Asked' /\ ClosedWithRequest' /\ AskersOnly'
  BY <1>2, <1>4 DEF Asked, ClosedWithRequest, AskersOnly
<1>9. PoliteOnes'
  <2>1. SUFFICES ASSUME clients = "polite" PROVE PoliteOnes'
    BY <1>2 DEF PoliteOnes
  <2>2. /\ \A v, w \in Coros : from'[v] = from'[w] /\ from'[v] # NoClient => v = w
        /\ \A v \in Coros : Unreaped(v)' =>
             stream'[v] \in Cells /\ Open(v)' /\ owner'[stream'[v]] = from'[v]
    BY <1>2, <1>4, <2>1 DEF PoliteOnes, Open
  <2>3. ASSUME NEW c \in Clients, NEW v \in got'[c]
        PROVE  from[v] = c /\ pc'[v] \in {"update", "dead", "reaped"}
    <3>1. CASE v \in got[c]
      BY <1>4, <2>1, <3>1 DEF PoliteOnes, ServerTypeOK
    <3>2. CASE v \notin got[c]
      <4>1. replies' # replies /\ v = u /\ c = owner[stream[u]]
        BY <1>1, <2>3, <3>2 DEF Deliver, ServerTypeOK
      <4>2. from[u] = owner[stream[u]]
        BY <1>3, <2>1, <4>1 DEF PoliteOnes, Unreaped, Alive
      <4>3. QED
        BY <1>3, <4>1, <4>2
    <3>3. QED
      BY <3>1, <3>2
  <2>4. QED
    BY <1>2, <2>2, <2>3 DEF PoliteOnes
<1>10. QED
  BY <1>5, <1>6, <1>7, <1>8, <1>9

\* The cleanup: what StepCoroutines has left is swept, and who stays keeps its stream.
LEMMA EndStepStep ==
  ASSUME ServerIInv, IInv', EndStep
  PROVE  ServerIInv'
<1> USE DEF ServerIInv
<1> DEFINE dead == {u \in Coros : pc[u] = "dead"}
           kept == {n \in DOMAIN list : list[n] \notin dead}
           M == {stream[u] : u \in dead}
<1>1. /\ proc = "running" /\ proc' = "running" /\ phase' = "poll" /\ cur' = 1
      /\ UNCHANGED <<owner, seen, from, got, clients>>
      /\ list' = Kept(kept)
      /\ SafeClose(M)
      /\ stream' = [u \in Coros |-> IF u \in dead THEN NoCell ELSE stream[u]]
  BY DEF EndStep, In, CleanupDeadCoroutines, vars, Survivors, CloseStreams
<1>2. \A u \in Coros : pc'[u] = IF u \in dead THEN "reaped" ELSE pc[u]
  BY DEF EndStep, CleanupDeadCoroutines, vars, coroVars, IInv, TypeOK
<1>3. /\ handle' \in [Cells -> {"free", "open", "closing"}]
      /\ \A m \in Cells : /\ handle'[m] = "free" <=> handle[m] = "free"
                          /\ handle'[m] = "open" <=> handle[m] = "open" /\ m \notin M
  BY <1>1 DEF ServerTypeOK, SafeClose
<1>4. /\ list' \in Seq(Coros) /\ IsInjective(list')
      /\ ToSet(list') = {list[n] : n \in kept}
  BY <1>1, KeptElements DEF ServerTypeOK, ListOnce
<1>5. ToSet(list') = ToSet(list) \ dead
  BY <1>4 DEF ToSet
<1> HIDE DEF kept, M, SafeClose
<1>6. ServerTypeOK'
  <2>1. stream' \in [Coros -> Cells \cup {NoCell}]
    BY <1>1 DEF ServerTypeOK
  <2>2. cur' \in 1 .. Len(list') + 1
    BY <1>1, <1>4, LenProperties
  <2>3. QED
    BY <1>1, <1>3, <1>4, <2>1, <2>2 DEF IInv, ServerTypeOK
<1>7. ListIsLive' /\ ListOnce'
  BY <1>1, <1>2, <1>4, <1>5 DEF ListIsLive, ListOnce
<1>8. ClosingInPoll' /\ OneCellEach' /\ Asked'
  BY <1>1, <1>2, <1>3 DEF ClosingInPoll, OneCellEach, Asked
<1>9. ClosedWithRequest'
  <2>1. ASSUME NEW u \in dead, NEW m \in Cells, owner[m] = from[u]
        PROVE  m \in M
    BY <2>1 DEF AskersOnly, Unreaped, M
  <2>2. QED
    BY <1>1, <1>2, <1>3, <2>1 DEF ClosedWithRequest
<1>10. AskersOnly'
  BY <1>1, <1>2 DEF AskersOnly, Unreaped
<1>11. PoliteOnes'
  <2>1. SUFFICES ASSUME clients = "polite" PROVE PoliteOnes'
    BY <1>1 DEF PoliteOnes
  <2>2. ASSUME NEW u \in Coros, Unreaped(u), u \notin dead
        PROVE  stream[u] \notin M
    <3>1. ASSUME NEW v \in dead, stream[v] = stream[u] PROVE FALSE
      <4>1. from[u] = from[v]
        BY <2>1, <2>2, <3>1 DEF PoliteOnes, Unreaped
      <4>2. from[u] # NoClient
        BY <2>2 DEF Asked, Unreaped
      <4>3. QED
        BY <2>1, <2>2, <3>1, <4>1, <4>2 DEF PoliteOnes
    <3>2. QED
      BY <3>1 DEF M
  <2>3. ASSUME NEW u \in Coros, Unreaped(u)'
        PROVE  stream'[u] \in Cells /\ Open(u)' /\ owner'[stream'[u]] = from'[u]
    <3>1. Unreaped(u) /\ u \notin dead /\ stream'[u] = stream[u]
      BY <1>1, <1>2, <2>3 DEF Unreaped
    <3>2. QED
      BY <1>1, <1>3, <2>1, <2>2, <3>1 DEF PoliteOnes, Open
  <2>4. \A c \in Clients : \A u \in got[c] :
          from[u] = c /\ pc'[u] \in {"update", "dead", "reaped"}
    BY <1>2, <2>1 DEF PoliteOnes, ServerTypeOK
  <2>5. QED
    BY <1>1, <2>1, <2>3, <2>4 DEF PoliteOnes
<1>12. QED
  BY <1>6, <1>7, <1>8, <1>9, <1>10, <1>11

LEMMA ServerRestartsStep ==
  ASSUME ServerIInv, IInv', ServerRestarts
  PROVE  ServerIInv'
<1> USE AuthServerAssumption DEF ServerIInv
<1>1. /\ phase' = "timers" /\ cur' = 1 /\ list' = <<>>
      /\ handle' = [m \in Cells |-> "free"]
      /\ owner' = [m \in Cells |-> NoClient]
      /\ stream' = [u \in Coros |-> NoCell]
      /\ UNCHANGED <<seen, from, got, clients>>
  BY DEF ServerRestarts
<1>2. \A u \in Coros : pc'[u] = IF pc[u] = "none" THEN "none" ELSE "reaped"
  BY DEF ServerRestarts, Restart, RestartFails, CoroutinesLost
<1>3. list' \in Seq(Coros) /\ Len(list') = 0 /\ DOMAIN list' = {}
  BY <1>1
<1>4. ServerTypeOK'
  BY <1>1, <1>3 DEF IInv, ServerTypeOK
<1>5. ListIsLive' /\ ListOnce'
  BY <1>2, <1>3 DEF ListIsLive, ListOnce, IsInjective, ToSet
<1>6. ClosingInPoll' /\ OneCellEach' /\ Asked'
  BY <1>1, <1>2 DEF ClosingInPoll, OneCellEach, Asked, ServerTypeOK, NoClient
<1>7. ClosedWithRequest' /\ AskersOnly'
  BY <1>1, <1>2 DEF ClosedWithRequest, AskersOnly, Unreaped
<1>8. PoliteOnes'
  BY <1>1, <1>2 DEF PoliteOnes, Unreaped, ServerTypeOK
<1>9. QED
  BY <1>4, <1>5, <1>6, <1>7, <1>8

LEMMA NextServerIInv ==
  ASSUME ServerIInv, [ServerNext]_allVars
  PROVE  ServerIInv'
<1>0. IInv'
  BY ServerStepIsPoolStep, NextIInv DEF ServerIInv
<1>1. CASE EndPoll \/ StepCoroutine \/ EndStep \/ ServerRestarts
  BY <1>0, <1>1, EndPollStep, StepCoroutineStep, EndStepStep, ServerRestartsStep
<1>2. ASSUME NEW m \in Cells, NewConnection(m) \/ SyncRequest(m) \/ ReadEof(m)
      PROVE  ServerIInv'
  BY <1>0, <1>2, NewConnectionStep, SyncRequestStep, ReadEofStep
<1>3. ASSUME NEW m \in Cells, NEW u \in Coros, Request(m, u) PROVE ServerIInv'
  BY <1>0, <1>3, RequestStep
<1>4. ASSUME NEW i \in Ctx, DbReadable(i) PROVE ServerIInv'
  BY <1>0, <1>4, DbReadableStep
<1>5. CASE NotDue \/ BeginStep
  <2>1. UNCHANGED <<vars, connVars, listVars, got, clients>> /\ phase = "timers"
    BY <1>5 DEF NotDue, BeginStep, In
  <2>2. UNCHANGED <<pc, proc>>
    BY <2>1 DEF vars, coroVars
  <2>3. phase' \in {"poll", "step"} /\ cur' \in 1 .. Len(list) + 1
    BY <1>5, LenProperties DEF NotDue, BeginStep, ServerIInv, ServerTypeOK
  <2>4. QED
    BY <1>0, <2>1, <2>2, <2>3, QuietStep
<1>6. CASE \/ \E k \in 0 .. NumConns : CheckTimer(k)
           \/ (ProcessDies \/ Environment) /\ UNCHANGED serverVars
           \/ UNCHANGED allVars
  <2>1. UNCHANGED serverVars
    BY <1>6 DEF CheckTimer, allVars
  <2>2. UNCHANGED pc /\ (proc' \in {"running", "blocked"} => proc' = proc)
    BY <1>6, QuietPool DEF CheckTimer, allVars
  <2>3. QED
    BY <1>0, <2>1, <2>2, QuietStep DEF serverVars, ServerIInv, ServerTypeOK
<1>7. QED
  BY <1>1, <1>2, <1>3, <1>4, <1>5, <1>6 DEF ServerNext, Loop

LEMMA ServerInvariant == ServerSpec => []ServerIInv
<1>1. ServerIInv /\ [ServerNext]_allVars => ServerIInv'
  BY NextServerIInv
<1>2. QED
  BY InitServerIInv, <1>1, PTL DEF ServerSpec

\* The loop with its list, its streams and its heap lets the pool do only what
\* DbPool allows, whatever the clients do.
LEMMA ServerImplementsPool == ServerSpec => Spec
<1>1. ServerInit => Init
  BY DEF ServerInit
<1>2. ServerIInv /\ [ServerNext]_allVars => [Next]_vars
  BY ServerStepIsPoolStep DEF ServerIInv
<1>3. QED
  BY ServerInvariant, <1>1, <1>2, PTL DEF ServerSpec, Spec

-----------------------------------------------------------------------------
(***************************************************************************)
(* The theorems.                                                           *)
(***************************************************************************)
\* What is proved of the pool holds in the server: leases, as ConnLease has
\* them, one of them at most for each request, exclusive, with a waker for who waits,
\* one reply at most, and own answers.
THEOREM ServerKeepsPoolPromises ==
  ServerSpec =>
    /\ ImplementsLease
    /\ [](/\ ExclusiveLease /\ Lease!OneLeaseEach /\ WaitHasWaker
          /\ AtMostOneReply /\ AnswerIsOwn /\ PollHandleExists)
BY ServerImplementsPool, PoolImplementsLease, LeaseIsExclusive, LeasedOnce, WaitIsWoken,
   RepliesOnce, ReadsOwnAnswer, PollNeverNull, PTL

\* Every variable of AuthServer keeps its type, and the index stays in the list or
\* just behind it.
THEOREM ServerTypeCorrect == ServerSpec => []ServerTypeOK
<1>1. ServerIInv => ServerTypeOK
  BY DEF ServerIInv
<1>2. QED
  BY ServerInvariant, <1>1, PTL

\* The list of StepCoroutines has each unreaped coroutine once.
THEOREM ListIsExact == ServerSpec => []ListIsLive
<1>1. ServerIInv => ListIsLive
  BY DEF ServerIInv
<1>2. QED
  BY ServerInvariant, <1>1, PTL

\* No coroutine is resumed while a handle is closing.
THEOREM NeverSeenClosing == ServerSpec => []ClosingIsNeverSeen
<1>1. ServerIInv => ClosingIsNeverSeen
  BY DEF ServerIInv, ClosingInPoll, ClosingIsNeverSeen
<1>2. QED
  BY ServerInvariant, <1>1, PTL

\* No connection outlives the first coroutine it asked for.
THEOREM ConnectionsEnd == ServerSpec => []ClosedWithRequest
<1>1. ServerIInv => ClosedWithRequest
  BY DEF ServerIInv
<1>2. QED
  BY ServerInvariant, <1>1, PTL

\* While no poll fails, a polite client's coroutine holds that client's stream.
THEOREM PoliteAreAnswered == ServerSpec => []AnswersReachAsker
<1>1. ServerIInv => AnswersReachAsker
  BY DEF ServerIInv, PoliteOnes, AnswersReachAsker, AskerHoldsStream, Alive, Unreaped
<1>2. QED
  BY ServerInvariant, <1>1, PTL

\* While no poll fails, a polite client is told nothing but the outcome of its own
\* request, and that once.
THEOREM PoliteAreToldOnce == ServerSpec => []ToldOwnOnce
<1>1. ServerIInv => ToldOwnOnce
  <2> SUFFICES ASSUME ServerIInv, clients = "polite",
                      NEW c \in Clients, NEW u \in got[c], NEW v \in got[c]
               PROVE  from[u] = c /\ u = v
    BY DEF ToldOwnOnce
  <2>1. u \in Coros /\ v \in Coros
    BY DEF ServerIInv, ServerTypeOK
  <2>2. from[u] = c /\ from[v] = c
    BY DEF ServerIInv, PoliteOnes
  <2>3. c # NoClient
    BY DEF Clients, NoClient
  <2>4. QED
    BY <2>1, <2>2, <2>3 DEF ServerIInv, PoliteOnes
<1>2. QED
  BY ServerInvariant, <1>1, PTL
=============================================================================
