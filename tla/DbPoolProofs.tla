---------------------------- MODULE DbPoolProofs ----------------------------
(***************************************************************************)
(* Proofs about DbPool, for any number of connections and coroutines.      *)
(***************************************************************************)
EXTENDS DbPool, TLAPS

LEMMA InitTypeOK == Init => TypeOK
BY DbPoolAssumption DEF Init, TypeOK, Each, Ctx, NoCtx

LEMMA NextTypeOK == TypeOK /\ [Next]_vars => TypeOK'
<1> SUFFICES ASSUME TypeOK, [Next]_vars PROVE TypeOK'
  OBVIOUS
<1> USE DbPoolAssumption DEF TypeOK
<1> USE DEF dbVars, flagVars, poolVars, coroVars, At, Reply, Return
<1>1. ASSUME NEW u \in Coros, Create(u) PROVE TypeOK'
  BY <1>1 DEF Create
<1>2. ASSUME NEW u \in Coros, StreamClosing(u) PROVE TypeOK'
  BY <1>2 DEF StreamClosing
<1>3. ASSUME NEW u \in Coros, AcquireAndSend(u) PROVE TypeOK'
  BY <1>3 DEF AcquireAndSend, AcquireDBConn, ResetFlags, StartPoll
<1>4. ASSUME NEW u \in Coros, NEW w \in BOOLEAN, AcquireSendFails(u, w) PROVE TypeOK'
  BY <1>4 DEF AcquireSendFails, SendFails, MayTurnBad, ResetFlags
<1>5. ASSUME NEW u \in Coros, NoneFree(u) PROVE TypeOK'
  BY <1>5 DEF NoneFree
<1>6. ASSUME NEW u \in Coros, NEW w \in BOOLEAN, TimeLimit(u, w) PROVE TypeOK'
  BY <1>6 DEF TimeLimit
<1>7. ASSUME NEW u \in Coros, NEW w \in BOOLEAN, Terminated(u, w) PROVE TypeOK'
  BY <1>7 DEF Terminated, ReleaseDBConn
<1>8. ASSUME NEW u \in Coros, NEW w \in BOOLEAN, RegisterDone(u, w) PROVE TypeOK'
  BY <1>8, SMTT(30) DEF RegisterDone, CanRead, Woken, DrainResults, MayTurnBad, ReleaseDBConn
<1>9. ASSUME NEW u \in Coros, NEW w \in BOOLEAN, LoginFatal(u, w) PROVE TypeOK'
  BY <1>9 DEF LoginFatal, CanRead, Woken, ReleaseDBConn
<1>10. ASSUME NEW u \in Coros, NEW w \in BOOLEAN, LoginEnds(u, w) PROVE TypeOK'
  BY <1>10 DEF LoginEnds, CanRead, Woken, DrainResults, MayTurnBad, ReleaseDBConn
<1>11. ASSUME NEW u \in Coros, NEW w \in BOOLEAN, LoginUpdates(u, w) PROVE TypeOK'
  BY <1>11 DEF LoginUpdates, CanRead, Woken, StartPoll
<1>12. ASSUME NEW u \in Coros, NEW w \in BOOLEAN, LoginUpdateNotSent(u, w) PROVE TypeOK'
  BY <1>12 DEF LoginUpdateNotSent, CanRead, Woken, DrainResults, MayTurnBad, ReleaseDBConn
<1>13. ASSUME NEW u \in Coros, NEW w \in BOOLEAN, UpdateDone(u, w) PROVE TypeOK'
  <2>1. cmd' = [cmd EXCEPT ![ctx[u]] = "idle"] /\ UNCHANGED <<dbUp, sock, mPollData>>
    BY <1>13 DEF UpdateDone, UpdateFailed
  <2>2. mConn' = mConn \/ mConn' = [mConn EXCEPT ![ctx[u]] = "bad"]
    BY <1>13 DEF UpdateDone, UpdateFailed, MayTurnBad
  <2>3. mConn' \in [Ctx -> {"null", "ok", "bad"}]
    BY <2>2
  <2>4. replies' \in [Coros -> Nat]
    BY <1>13 DEF UpdateDone, UpdateFailed
  <2>5. mInUse' \subseteq Ctx /\ mStream' \in [Ctx -> Coros \cup {NoStream}]
        /\ UNCHANGED <<mDataReady, mTerminate, mReconnectPhase>>
    BY <1>13 DEF UpdateDone, ReleaseDBConn
  <2>6. pc' = [pc EXCEPT ![u] = "dead"] /\ ctx' = [ctx EXCEPT ![u] = NoCtx]
        /\ conn' = [conn EXCEPT ![u] = "none"] /\ proc' = "running"
    BY <1>13 DEF UpdateDone
  <2>7. QED
    BY <2>1, <2>3, <2>4, <2>5, <2>6
<1>14. ASSUME NEW u \in Coros, NEW w \in BOOLEAN, ReadFinishedConn(u, w) PROVE TypeOK'
  BY <1>14 DEF ReadFinishedConn, Woken, ReleaseDBConn
<1>15. ASSUME CleanupDeadCoroutines PROVE TypeOK'
  BY <1>15 DEF CleanupDeadCoroutines
<1>16. ASSUME NEW i \in Ctx, PollReady(i) PROVE TypeOK'
  BY <1>16 DEF PollReady
<1>17. ASSUME NEW i \in Ctx, PollFails(i) PROVE TypeOK'
  BY <1>17 DEF PollFails
<1>18. ASSUME NEW k \in 0 .. NumConns, CheckConnections(k) PROVE TypeOK'
  BY <1>18 DEF CheckConnections, ResetFlags, Replaced, NewPollHandles, ReconnectPhases
<1>19. ASSUME ProcessDies PROVE TypeOK'
  BY <1>19 DEF ProcessDies
<1>20. ASSUME Restart \/ RestartFails PROVE TypeOK'
  <2>1. CASE Restart
    BY <2>1 DEF Restart, CoroutinesLost, Each
  <2>2. CASE RestartFails
    BY <2>2 DEF RestartFails, CoroutinesLost, Each
  <2>3. QED
    BY <1>20, <2>1, <2>2
<1>21. ASSUME Environment PROVE TypeOK'
  <2>1. ASSUME NEW i \in Ctx, DbAnswers(i) PROVE TypeOK'
    BY <2>1 DEF DbAnswers
  <2>2. ASSUME NEW i \in Ctx, NEW how \in {"eof", "err"}, BackendDies(i, how) PROVE TypeOK'
    BY <2>2 DEF BackendDies
  <2>3. ASSUME NEW how \in [Ctx -> {"eof", "err"}], DbDown(how) PROVE TypeOK'
    BY <2>3 DEF DbDown
  <2>4. CASE DbUp
    BY <2>4 DEF DbUp
  <2>5. QED
    BY <1>21, <2>1, <2>2, <2>3, <2>4 DEF Environment
<1>22. CASE UNCHANGED vars
  BY <1>22 DEF vars
<1>23. QED
  BY <1>1, <1>2, <1>3, <1>4, <1>5, <1>6, <1>7, <1>8, <1>9, <1>10, <1>11, <1>12, <1>13,
     <1>14, <1>15, <1>16, <1>17, <1>18, <1>19, <1>20, <1>21, <1>22
     DEF Next, Resume, PollCallback

\* Every variable of DbPool keeps its type, for every number of connections.
THEOREM TypeCorrect == Spec => []TypeOK
BY InitTypeOK, NextTypeOK, PTL DEF Spec

(***************************************************************************)
(* The inductive invariant.  ExclusiveLease alone is not inductive: that a *)
(* coroutine which returns without a connection holds none needs HoldsIff. *)
(* That a token is not followed by a second reply needs UpdateBlocks: the  *)
(* callbacks that set mTerminate cannot run during the update.             *)
(***************************************************************************)
LEMMA InitIInv == Init => IInv
BY InitTypeOK, DbPoolAssumption
DEF Init, IInv, TypeOK, Each, Ctx, NoCtx, HoldsIff, ExclusiveLease, UpdateBlocks, RepliesSoFar,
    NullTogether, WaitHasWaker, ReadyIsOwn

LEMMA NextIInv == IInv /\ [Next]_vars => IInv'
<1> SUFFICES ASSUME IInv, [Next]_vars PROVE IInv'
  OBVIOUS
<1>0. TypeOK'
  BY NextTypeOK DEF IInv
<1> USE DbPoolAssumption DEF IInv, TypeOK, Ctx, NoCtx
<1> USE DEF HoldsIff, ExclusiveLease, UpdateBlocks, RepliesSoFar, NullTogether, WaitHasWaker,
            ReadyIsOwn
<1> USE DEF dbVars, flagVars, poolVars, coroVars, At, Reply, Return
<1>1. ASSUME NEW u \in Coros, Create(u) PROVE IInv'
  BY <1>0, <1>1, SMTT(60) DEF Create
<1>2. ASSUME NEW u \in Coros, StreamClosing(u) PROVE IInv'
  BY <1>0, <1>2, SMTT(60) DEF StreamClosing
<1>3. ASSUME NEW u \in Coros, AcquireAndSend(u) PROVE IInv'
  <2>1. PICK i \in Ctx :
          /\ FirstFree(i)
          /\ AcquireDBConn(i, u)
          /\ cmd' = [cmd EXCEPT ![i] = "sent"]
          /\ StartPoll(i)
          /\ ctx' = [ctx EXCEPT ![u] = i]
    BY <1>3 DEF AcquireAndSend
  <2>2. i \notin mInUse /\ mConn[i] = "ok" /\ \A v \in Coros : ctx[v] # i
    BY <2>1 DEF FirstFree, Free
  <2> USE <1>0, <1>3, <2>1, <2>2
      DEF AcquireAndSend, AcquireDBConn, ResetFlags, StartPoll
  <2>3. HoldsIff' /\ ExclusiveLease'
    BY SMTT(60)
  <2>4. UpdateBlocks' /\ RepliesSoFar'
    BY SMTT(60)
  <2>5. NullTogether'
    BY SMTT(60)
  <2>6. WaitHasWaker' /\ ReadyIsOwn'
    BY SMTT(60)
  <2>7. QED
    BY <1>0, <2>3, <2>4, <2>5, <2>6
<1>4. ASSUME NEW u \in Coros, NEW w \in BOOLEAN, AcquireSendFails(u, w) PROVE IInv'
    BY <1>0, <1>4, SMTT(60) DEF AcquireSendFails, FirstFree, Free, SendFails, MayTurnBad,
      ResetFlags
<1>5. ASSUME NEW u \in Coros, NoneFree(u) PROVE IInv'
  BY <1>0, <1>5, SMTT(60) DEF NoneFree
<1>6. ASSUME NEW u \in Coros, NEW w \in BOOLEAN, TimeLimit(u, w) PROVE IInv'
  BY <1>0, <1>6, SMTT(60) DEF TimeLimit
<1>7. ASSUME NEW u \in Coros, NEW w \in BOOLEAN, Terminated(u, w) PROVE IInv'
  BY <1>0, <1>7, SMTT(60) DEF Terminated, ReleaseDBConn
<1>8. ASSUME NEW u \in Coros, NEW w \in BOOLEAN, RegisterDone(u, w) PROVE IInv'
    BY <1>0, <1>8, SMTT(60) DEF RegisterDone, CanRead, Woken, DrainResults, MayTurnBad,
      ReleaseDBConn
<1>9. ASSUME NEW u \in Coros, NEW w \in BOOLEAN, LoginFatal(u, w) PROVE IInv'
  BY <1>0, <1>9, SMTT(60) DEF LoginFatal, CanRead, Woken, ReleaseDBConn
<1>10. ASSUME NEW u \in Coros, NEW w \in BOOLEAN, LoginEnds(u, w) PROVE IInv'
    BY <1>0, <1>10, SMTT(60) DEF LoginEnds, CanRead, Woken, DrainResults, MayTurnBad,
      ReleaseDBConn
<1>11. ASSUME NEW u \in Coros, NEW w \in BOOLEAN, LoginUpdates(u, w) PROVE IInv'
  BY <1>0, <1>11, SMTT(60) DEF LoginUpdates, CanRead, Woken, StartPoll
<1>12. ASSUME NEW u \in Coros, NEW w \in BOOLEAN, LoginUpdateNotSent(u, w) PROVE IInv'
    BY <1>0, <1>12, SMTT(60) DEF LoginUpdateNotSent, CanRead, Woken, DrainResults, MayTurnBad,
      ReleaseDBConn
<1>13. ASSUME NEW u \in Coros, NEW w \in BOOLEAN, UpdateDone(u, w) PROVE IInv'
  BY <1>0, <1>13, SMTT(60) DEF UpdateDone, UpdateFailed, MayTurnBad, ReleaseDBConn
<1>14. ASSUME NEW u \in Coros, NEW w \in BOOLEAN, ReadFinishedConn(u, w) PROVE IInv'
  <2>1. CASE proc' = "crashed" /\ UNCHANGED <<mInUse, mStream, coroVars>>
    BY <1>0, <1>14, <2>1, SMTT(60) DEF ReadFinishedConn
  <2>2. CASE ReleaseDBConn(ctx[u]) /\ Reply(u, w) /\ Return(u) /\ UNCHANGED proc
    <3>1. pc[u] = "wait" /\ replies[u] = 0
      BY <1>14 DEF ReadFinishedConn, Woken
    <3>2. RepliesSoFar'
      BY <2>2, <3>1, SMTT(60)
    <3>3. HoldsIff' /\ ExclusiveLease'
      BY <1>14, <2>2, SMTT(60) DEF ReadFinishedConn, Woken, ReleaseDBConn
    <3>4. UpdateBlocks' /\ NullTogether'
      BY <1>14, <2>2, SMTT(60) DEF ReadFinishedConn, Woken, ReleaseDBConn
    <3>5. WaitHasWaker' /\ ReadyIsOwn'
      BY <1>14, <2>2, SMTT(60) DEF ReadFinishedConn, Woken, ReleaseDBConn
    <3>6. QED
      BY <1>0, <3>2, <3>3, <3>4, <3>5
  <2>3. QED
    BY <1>14, <2>1, <2>2 DEF ReadFinishedConn
<1>15. ASSUME CleanupDeadCoroutines PROVE IInv'
  BY <1>0, <1>15, SMTT(60) DEF CleanupDeadCoroutines
<1>16. ASSUME NEW i \in Ctx, PollReady(i) PROVE IInv'
  BY <1>0, <1>16, SMTT(60) DEF PollReady
<1>17. ASSUME NEW i \in Ctx, PollFails(i) PROVE IInv'
  BY <1>0, <1>17, SMTT(60) DEF PollFails
<1>18. ASSUME NEW k \in 0 .. NumConns, CheckConnections(k) PROVE IInv'
  BY <1>0, <1>18, SMTT(60)
  DEF CheckConnections, ResetFlags, Replaced, NewPollHandles, ReconnectPhases
<1>19. ASSUME ProcessDies PROVE IInv'
  BY <1>0, <1>19, SMTT(60) DEF ProcessDies
<1>20. ASSUME Restart PROVE IInv'
  BY <1>0, <1>20, SMTT(60) DEF Restart, CoroutinesLost, Each
<1>21. ASSUME RestartFails PROVE IInv'
  BY <1>0, <1>21, SMTT(60) DEF RestartFails, CoroutinesLost, Each
<1>22. ASSUME Environment PROVE IInv'
  BY <1>0, <1>22, SMTT(60) DEF Environment, DbAnswers, BackendDies, DbDown, DbUp
<1>23. CASE UNCHANGED vars
  BY <1>23, SMTT(60) DEF vars
<1> HIDE DEF IInv, TypeOK, HoldsIff, ExclusiveLease, UpdateBlocks, RepliesSoFar, NullTogether,
             WaitHasWaker, ReadyIsOwn
<1>24. QED
  BY <1>1, <1>2, <1>3, <1>4, <1>5, <1>6, <1>7, <1>8, <1>9, <1>10, <1>11, <1>12,
     <1>13, <1>14, <1>15, <1>16, <1>17, <1>18, <1>19, <1>20, <1>21, <1>22, <1>23
     DEF Next, Resume, PollCallback

LEMMA Invariant == Spec => []IInv
BY InitIInv, NextIInv, PTL DEF Spec

\* A connection is in use iff exactly one coroutine holds it, and its stream is
\* that coroutine's.
THEOREM LeaseIsExclusive == Spec => []ExclusiveLease
<1>1. IInv => ExclusiveLease
  BY DEF IInv
<1>2. QED
  BY Invariant, <1>1, PTL

\* No coroutine answers its request twice.
THEOREM RepliesOnce == Spec => []AtMostOneReply
<1>1. IInv => AtMostOneReply
  BY DEF IInv, RepliesSoFar, AtMostOneReply
<1>2. QED
  BY Invariant, <1>1, PTL

\* No poll is started on the null handle that a failed reconnect leaves.
THEOREM PollNeverNull == Spec => []PollHandleExists
<1>1. IInv => PollHandleExists
  <2> SUFFICES ASSUME IInv PROVE PollHandleExists
    OBVIOUS
  <2> USE DEF IInv, TypeOK, NullTogether
  <2>1. ASSUME NEW i \in Ctx, Free(i) PROVE mPollData[i] # "null"
    BY <2>1 DEF Free
  <2>2. ASSUME NEW u \in Coros, CanRead(u) PROVE mPollData[ctx[u]] # "null"
    BY <2>2, NullTogether DEF CanRead, Woken, HoldsIff, At
  <2>3. QED
    BY <2>1, <2>2 DEF PollHandleExists
<1>2. QED
  BY Invariant, <1>1, PTL

\* A coroutine whose connection was not replaced under it can be woken.
THEOREM WaitIsWoken == Spec => []WaitHasWaker
<1>1. IInv => WaitHasWaker
  BY DEF IInv
<1>2. QED
  BY Invariant, <1>1, PTL

\* A coroutine that reads results reads those of its own query.
THEOREM ReadsOwnAnswer == Spec => []AnswerIsOwn
<1>1. IInv => AnswerIsOwn
  BY DEF IInv, ReadyIsOwn, AnswerIsOwn, CanRead, Woken, At
<1>2. QED
  BY Invariant, <1>1, PTL

(***************************************************************************)
(* The refinement: what each kind of step is to ConnLease.                 *)
(***************************************************************************)
LeaseStep == Lease!Next \/ UNCHANGED Lease!leaseVars

LEMMA StutterStep ==
  ASSUME UNCHANGED <<mInUse, mStream>>,
         \A u \in Coros : pc'[u] \in {"dead", "reaped"} <=> pc[u] \in {"dead", "reaped"}
  PROVE  LeaseStep
BY DEF LeaseStep, Lease!leaseVars

LEMMA GiveUpStep ==
  ASSUME IInv, NEW u \in Coros, ctx[u] = NoCtx, UNCHANGED <<mInUse, mStream>>, Return(u)
  PROVE  LeaseStep
<1>1. \A i \in Ctx : (IF i \in mInUse THEN mStream[i] ELSE NoStream) # u
  BY DbPoolAssumption DEF IInv, ExclusiveLease, TypeOK, Ctx, NoCtx
<1>2. {v \in Coros : pc'[v] \in {"dead", "reaped"}}
        = {v \in Coros : pc[v] \in {"dead", "reaped"}} \cup {u}
  BY DEF Return, IInv, TypeOK
<1>3. Lease!GiveUp(u)
  BY <1>1, <1>2 DEF Lease!GiveUp, Lease!Holding
<1>4. QED
  BY <1>3 DEF LeaseStep, Lease!Next

LEMMA ReturnStep ==
  ASSUME IInv, NEW u \in Coros, ctx[u] # NoCtx, ReleaseDBConn(ctx[u]), Return(u)
  PROVE  LeaseStep
<1>0. PICK c \in Ctx : c = ctx[u]
  BY DEF IInv, TypeOK
<1>1. c \in mInUse /\ mStream[c] = u /\ u # NoStream
  BY <1>0, DbPoolAssumption DEF IInv, ExclusiveLease, TypeOK
<1>2. {v \in Coros : pc'[v] \in {"dead", "reaped"}}
        = {v \in Coros : pc[v] \in {"dead", "reaped"}} \cup {mStream[c]}
  BY <1>1 DEF Return, IInv, TypeOK
<1>3. [i \in Ctx |-> IF i \in mInUse' THEN mStream'[i] ELSE NoStream]
        = [[i \in Ctx |-> IF i \in mInUse THEN mStream[i] ELSE NoStream]
             EXCEPT ![c] = NoStream]
  BY <1>0, <1>1 DEF ReleaseDBConn, IInv, TypeOK
<1>4. Lease!Return(c)
  BY <1>1, <1>2, <1>3 DEF Lease!Return
<1>5. QED
  BY <1>1, <1>4 DEF LeaseStep, Lease!Next

LEMMA GrantStep ==
  ASSUME IInv, NEW u \in Coros, AcquireAndSend(u)
  PROVE  LeaseStep
<1>1. PICK i \in Ctx : FirstFree(i) /\ AcquireDBConn(i, u)
  BY DEF AcquireAndSend
<1>2. i \notin mInUse
  BY <1>1 DEF FirstFree, Free
<1>3. pc[u] \in {"new", "acquire"} /\ ctx[u] = NoCtx
  BY DEF AcquireAndSend, At, IInv, HoldsIff
<1>4. \A j \in Ctx : (IF j \in mInUse THEN mStream[j] ELSE NoStream) # u
  BY <1>3, DbPoolAssumption DEF IInv, ExclusiveLease, TypeOK, Ctx, NoCtx
<1>5. {v \in Coros : pc'[v] \in {"dead", "reaped"}}
        = {v \in Coros : pc[v] \in {"dead", "reaped"}}
  BY <1>3 DEF AcquireAndSend, IInv, TypeOK
<1>6. [j \in Ctx |-> IF j \in mInUse' THEN mStream'[j] ELSE NoStream]
        = [[j \in Ctx |-> IF j \in mInUse THEN mStream[j] ELSE NoStream] EXCEPT ![i] = u]
  BY <1>1 DEF AcquireDBConn, IInv, TypeOK
<1>7. Lease!Grant(i, u)
  BY <1>2, <1>3, <1>4, <1>5, <1>6 DEF Lease!Grant, Lease!Holding
<1>8. QED
  BY <1>7 DEF LeaseStep, Lease!Next

LEMMA ProcessEndsStep ==
  ASSUME IInv, mInUse' = {}, mStream' = Each(NoStream), CoroutinesLost
  PROVE  LeaseStep
<1> DEFINE past == {v \in Coros : pc[v] \in {"dead", "reaped"}}
<1>1. past' = {v \in Coros : pc[v] # "none"}
  BY DEF CoroutinesLost, IInv, TypeOK
<1>2. ASSUME NEW v \in Coros, NEW i \in Ctx,
             (IF i \in mInUse THEN mStream[i] ELSE NoStream) = v
      PROVE  v \in past'
  <2>1. i \in mInUse /\ mStream[i] = v
    BY <1>2, DbPoolAssumption
  <2>2. ctx[v] = i /\ i # NoCtx
    BY <2>1 DEF IInv, ExclusiveLease, Ctx, NoCtx
  <2>3. pc[v] # "none"
    BY <2>2 DEF IInv, HoldsIff
  <2>4. QED
    BY <1>1, <2>3
<1>3. Lease!ProcessEnds
  BY <1>1, <1>2 DEF Lease!ProcessEnds, Lease!Holding
<1>4. QED
  BY <1>3 DEF LeaseStep, Lease!Next

LEMMA NextLeaseStep == IInv /\ [Next]_vars => LeaseStep
<1> SUFFICES ASSUME IInv, [Next]_vars PROVE LeaseStep
  OBVIOUS
<1> USE DEF coroVars, poolVars, flagVars
<1>1. ASSUME NEW u \in Coros, Create(u) \/ NoneFree(u) PROVE LeaseStep
  BY <1>1, StutterStep DEF Create, NoneFree, At, IInv, TypeOK
<1>2. ASSUME NEW u \in Coros, NEW w \in BOOLEAN,
             StreamClosing(u) \/ AcquireSendFails(u, w) \/ TimeLimit(u, w)
      PROVE LeaseStep
  <2>1. ctx[u] = NoCtx
    BY <1>2 DEF StreamClosing, AcquireSendFails, TimeLimit, At, IInv, HoldsIff
  <2>2. UNCHANGED <<mInUse, mStream>> /\ Return(u)
    BY <1>2 DEF StreamClosing, AcquireSendFails, TimeLimit
  <2>3. QED
    BY <2>1, <2>2, GiveUpStep
<1>3. ASSUME NEW u \in Coros, AcquireAndSend(u) PROVE LeaseStep
  BY <1>3, GrantStep
<1>4. ASSUME NEW u \in Coros, NEW w \in BOOLEAN,
             \/ Terminated(u, w) \/ RegisterDone(u, w) \/ LoginFatal(u, w)
             \/ LoginEnds(u, w) \/ LoginUpdateNotSent(u, w) \/ UpdateDone(u, w)
      PROVE LeaseStep
  <2>1. ctx[u] # NoCtx
    BY <1>4 DEF Terminated, RegisterDone, LoginFatal, LoginEnds, LoginUpdateNotSent, UpdateDone,
                CanRead, Woken, At, IInv, HoldsIff
  <2>2. ReleaseDBConn(ctx[u]) /\ Return(u)
    BY <1>4 DEF Terminated, RegisterDone, LoginFatal, LoginEnds, LoginUpdateNotSent, UpdateDone
  <2>3. QED
    BY <2>1, <2>2, ReturnStep
<1>5. ASSUME NEW u \in Coros, NEW w \in BOOLEAN, LoginUpdates(u, w) PROVE LeaseStep
  BY <1>5, StutterStep DEF LoginUpdates, CanRead, Woken, At, IInv, TypeOK
<1>6. ASSUME NEW u \in Coros, NEW w \in BOOLEAN, ReadFinishedConn(u, w) PROVE LeaseStep
  <2>1. CASE ReleaseDBConn(ctx[u]) /\ Return(u)
    <3>1. ctx[u] # NoCtx
      BY <1>6 DEF ReadFinishedConn, Woken, At, IInv, HoldsIff
    <3>2. QED
      BY <2>1, <3>1, ReturnStep
  <2>2. CASE UNCHANGED <<mInUse, mStream, pc>>
    BY <2>2, StutterStep
  <2>3. QED
    BY <1>6, <2>1, <2>2 DEF ReadFinishedConn
<1>7. ASSUME NEW i \in Ctx, PollCallback(i) PROVE LeaseStep
  BY <1>7, StutterStep DEF PollCallback, PollReady, PollFails
<1>8. ASSUME NEW k \in 0 .. NumConns, CheckConnections(k) PROVE LeaseStep
  BY <1>8, StutterStep DEF CheckConnections
<1>9. CASE Restart \/ RestartFails
  BY <1>9, ProcessEndsStep DEF Restart, RestartFails
<1>10. CASE CleanupDeadCoroutines
  BY <1>10, StutterStep DEF CleanupDeadCoroutines, IInv, TypeOK
<1>11. CASE ProcessDies \/ Environment \/ UNCHANGED vars
  BY <1>11, StutterStep
  DEF ProcessDies, Environment, DbAnswers, BackendDies, DbDown, DbUp, vars
<1>12. QED
  BY <1>1, <1>2, <1>3, <1>4, <1>5, <1>6, <1>7, <1>8, <1>9, <1>10, <1>11 DEF Next, Resume

\* The pool, with its coroutines, reconnects and crashes, implements ConnLease.
THEOREM PoolImplementsLease == Spec => ImplementsLease
<1>1. Init => Lease!Init
  BY DEF Init, Each, Lease!Init
<1>2. IInv /\ [Next]_vars => [Lease!Next]_(Lease!leaseVars)
  BY NextLeaseStep DEF LeaseStep
<1>3. QED
  BY Invariant, <1>1, <1>2, PTL DEF Spec, ImplementsLease, Lease!Spec

(***************************************************************************)
(* What ConnLease comes to, proved of it alone and then said of the pool.  *)
(***************************************************************************)
LEMMA LeaseOnceInit == Lease!Init => Lease!OneLeaseEach
<1> SUFFICES ASSUME Lease!Init PROVE Lease!OneLeaseEach
  OBVIOUS
<1> DEFINE L == [i \in Ctx |-> IF i \in mInUse THEN mStream[i] ELSE NoStream]
           P == {u \in Coros : pc[u] \in {"dead", "reaped"}}
<1>1. L = [i \in Ctx |-> NoStream] /\ P = {}
  BY DEF Lease!Init
<1> HIDE DEF L, P
<1>2. /\ L \in [Ctx -> Coros \cup {NoStream}] /\ P \subseteq Coros
      /\ \A s, r \in Ctx : L[s] = L[r] /\ L[s] # NoStream => s = r
      /\ \A h \in P : ~\E s \in Ctx : L[s] = h
  BY <1>1
<1>3. QED
  BY <1>2 DEF Lease!OneLeaseEach, Lease!Holding, L, P

LEMMA LeaseOnceStep == Lease!OneLeaseEach /\ LeaseStep => Lease!OneLeaseEach'
<1> SUFFICES ASSUME Lease!OneLeaseEach, LeaseStep PROVE Lease!OneLeaseEach'
  OBVIOUS
<1> DEFINE L == [i \in Ctx |-> IF i \in mInUse THEN mStream[i] ELSE NoStream]
           P == {u \in Coros : pc[u] \in {"dead", "reaped"}}
           Has(h) == \E s \in Ctx : L[s] = h
           Once == /\ L \in [Ctx -> Coros \cup {NoStream}] /\ P \subseteq Coros
                   /\ \A s, r \in Ctx : L[s] = L[r] /\ L[s] # NoStream => s = r
                   /\ \A h \in P : ~Has(h)
<1>1. Once
  BY DEF Lease!OneLeaseEach, Lease!Holding
<1>2. Once' => Lease!OneLeaseEach'
  BY DEF Lease!OneLeaseEach, Lease!Holding
<1>3. \/ \E s \in Ctx, h \in Coros : /\ L[s] = NoStream /\ h \notin P /\ ~Has(h)
                                     /\ L' = [L EXCEPT ![s] = h] /\ P' = P
      \/ \E s \in Ctx : /\ L[s] # NoStream
                        /\ L' = [L EXCEPT ![s] = NoStream] /\ P' = P \cup {L[s]}
      \/ \E h \in Coros : ~Has(h) /\ P' = P \cup {h} /\ L' = L
      \/ L' = [s \in Ctx |-> NoStream] /\ P' \in SUBSET Coros
      \/ L' = L /\ P' = P
  BY DEF LeaseStep, Lease!Next, Lease!Grant, Lease!Return, Lease!GiveUp, Lease!ProcessEnds,
         Lease!Holding, Lease!leaseVars
<1> HIDE DEF L, P
<1>4. NoStream \notin Coros
  BY DbPoolAssumption
<1>5. Once'
  <2>1. ASSUME NEW s \in Ctx, NEW h \in Coros, L[s] = NoStream, h \notin P, ~Has(h),
               L' = [L EXCEPT ![s] = h], P' = P
        PROVE  Once'
    BY <1>1, <1>4, <2>1
  <2>2. ASSUME NEW s \in Ctx, L[s] # NoStream, L' = [L EXCEPT ![s] = NoStream], P' = P \cup {L[s]}
        PROVE  Once'
    BY <1>1, <1>4, <2>2
  <2>3. ASSUME NEW h \in Coros, ~Has(h), P' = P \cup {h}, L' = L PROVE Once'
    BY <1>1, <2>3
  <2>4. CASE L' = [s \in Ctx |-> NoStream] /\ P' \in SUBSET Coros
    BY <1>4, <2>4
  <2>5. CASE L' = L /\ P' = P
    BY <1>1, <2>5
  <2>6. QED
    BY <1>3, <2>1, <2>2, <2>3, <2>4, <2>5
<1>6. QED
  BY <1>2, <1>5

\* A request leases at most one connection, and none once it has given one back, was
\* refused or ran out of time.
THEOREM LeasedOnce == Spec => []Lease!OneLeaseEach
<1>1. Init => Lease!Init
  BY DEF Init, Each, Lease!Init
<1>2. QED
  BY Invariant, <1>1, NextLeaseStep, LeaseOnceInit, LeaseOnceStep, PTL DEF Spec
=============================================================================
