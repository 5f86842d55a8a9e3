--------------------------- MODULE KeepAliveProofs ---------------------------
(***************************************************************************)
(* Proofs about KeepAlive: one server at a time, every child watched, and  *)
(* exits that are final, for any set of processes and any number of kills. *)
(***************************************************************************)
EXTENDS KeepAlive, TLAPS

\* a parent that has somebody to wait for waits for its own child; a process that is
\* not there is nobody's
KidsMatch ==
  \A p \in Procs :
    /\ kid[p] # NoProc => pc[p] \in Watching /\ up[kid[p]] = p
    /\ pc[p] \in Watching => kid[p] # NoProc
    /\ pc[p] = "zombie" => up[p] # NoProc
    /\ up[p] # NoProc => kid[p] = NoProc

\* one process has a program to keep alive, and a server beside it is its child
OneParent ==
  \A p \in Procs : Parent(p) =>
    /\ \A q \in Procs : Parent(q) => q = p
    /\ \A q \in Serving : up[q] = p

\* after an exit the parent, if there is one, will find it
ExitIsSeen == over => \A p \in Procs : Parent(p) => pc[p] \in Watching /\ KidIs(p, "exited")

TreeInv ==
  /\ TypeOK
  /\ Watched
  /\ KidsMatch
  /\ OneParent
  /\ SingleServer
  /\ ExitIsSeen
  /\ ExitIsFinal

\* a child that was killed is counted
Counted == \A c \in Procs : pc[c] = "zombie" /\ fate[c] = "signaled" => deaths # 0

TypeInv == TypeOK /\ Counted

LEMMA InitTypeInv == Init => TypeInv
<1> SUFFICES ASSUME Init PROVE TypeInv
  OBVIOUS
<1>1. /\ pc = [p \in Procs |-> "none"] /\ fate = [p \in Procs |-> "exited"]
      /\ up = [p \in Procs |-> NoProc] /\ kid = [p \in Procs |-> NoProc]
      /\ buf = [p \in Procs |-> {}] /\ stdio = [p \in Procs |-> {}]
  BY DEF Init
<1>2. /\ handlers = {} /\ exiting = {} /\ over = FALSE
      /\ written = {} /\ dropped = {} /\ gone = {}
  BY DEF Init
<1>3. deaths \in 0 .. MaxDeaths
  BY KeepAliveAssumption DEF Init
<1>4. QED
  BY <1>1, <1>2, <1>3 DEF TypeInv, TypeOK, Counted

LEMMA DiesTypeInv ==
  ASSUME TypeInv, NEW p \in Procs, NEW how \in {"exited", "signaled"}, Dies(p, how),
         written' \subseteq Reports, dropped' \subseteq Reports, gone' \subseteq Reports,
         deaths' \in 0 .. MaxDeaths,
         over' \in BOOLEAN, deaths # 0 => deaths' # 0,
         how = "signaled" /\ up[p] # NoProc => deaths' # 0
  PROVE  TypeInv'
<1> USE DEF TypeInv
<1>1. pc' \in [Procs -> {"none", "fork", "forked", "ready", "waiting", "sleep", "born", "serve",
                         "zombie"}]
  BY DEF TypeOK, Dies
<1>2. up' \in [Procs -> Procs \cup {NoProc}] /\ kid' \in [Procs -> Procs \cup {NoProc}]
  BY DEF TypeOK, Dies
<1>3. /\ fate' \in [Procs -> {"exited", "signaled"}]
      /\ buf' \in [Procs -> SUBSET Reports] /\ stdio' \in [Procs -> SUBSET Reports]
  BY DEF TypeOK, Dies
<1>4. handlers' \subseteq Procs /\ exiting' \subseteq handlers'
  BY DEF TypeOK, Dies
<1>5. Counted'
  BY DEF TypeOK, Dies, Counted
<1>6. QED
  BY <1>1, <1>2, <1>3, <1>4, <1>5 DEF TypeOK

LEMMA ExitsTypeInv ==
  ASSUME TypeInv, NEW p \in Procs, Exits(p)
  PROVE  TypeInv'
<1>1. written' \subseteq Reports /\ dropped' \subseteq Reports
  BY DEF TypeInv, TypeOK, Exits, Held
<1>2. deaths' \in 0 .. MaxDeaths /\ gone' \subseteq Reports /\ over' \in BOOLEAN /\ deaths' = deaths
  BY DEF TypeInv, TypeOK, Exits
<1>3. Dies(p, "exited")
  BY DEF Exits
<1>4. QED
  BY <1>1, <1>2, <1>3, DiesTypeInv

LEMMA LogLineTypeInv ==
  ASSUME TypeOK, NEW p \in Procs, NEW new \in SUBSET Reports, LogLine(p, new)
  PROVE  /\ buf' \in [Procs -> SUBSET Reports] /\ stdio' \in [Procs -> SUBSET Reports]
         /\ written' \subseteq Reports /\ dropped' \subseteq Reports
<1>1. Held(p) \in SUBSET Reports /\ buf[p] \in SUBSET Reports
  BY DEF Held, TypeOK
<1>2. QED
  BY <1>1 DEF LogLine, TypeOK

LEMMA LastReport ==
  ASSUME TypeInv, NEW p \in Procs, KidIs(p, "signaled")
  PROVE  deaths \in Reports
<1>1. MaxDeaths \in Nat /\ deaths \in 0 .. MaxDeaths /\ kid[p] \in Procs
  BY KeepAliveAssumption DEF TypeInv, TypeOK, KidIs
<1>2. deaths # 0
  BY <1>1 DEF TypeInv, Counted, KidIs
<1>3. QED
  BY <1>1, <1>2 DEF Reports

LEMMA IsKilledTypeInv ==
  ASSUME TypeInv, NEW p \in Procs, IsKilled(p)
  PROVE  TypeInv'
<1>1. MaxDeaths \in Nat /\ deaths \in 0 .. MaxDeaths
  BY KeepAliveAssumption DEF TypeInv, TypeOK
<1>2. /\ deaths' \in 0 .. MaxDeaths
      /\ deaths # 0 => deaths' # 0
      /\ up[p] # NoProc => deaths' # 0
  BY <1>1 DEF IsKilled
<1>3. gone' \subseteq Reports
  <2>1. Held(p) \subseteq Reports /\ gone \subseteq Reports
    BY DEF TypeInv, TypeOK, Held
  <2>2. KidIs(p, "signaled") => deaths \in Reports
    BY LastReport
  <2>3. QED
    BY <2>1, <2>2 DEF IsKilled
<1>4. /\ written' \subseteq Reports /\ dropped' \subseteq Reports /\ over' \in BOOLEAN
      /\ Dies(p, "signaled")
  BY DEF IsKilled, TypeInv, TypeOK, Held
<1>5. QED
  BY <1>2, <1>3, <1>4, DiesTypeInv

LEMMA NextTypeInv == TypeInv /\ [Next]_vars => TypeInv'
<1> SUFFICES ASSUME TypeInv, [Next]_vars PROVE TypeInv'
  OBVIOUS
<1> USE DEF TypeInv, treeVars, sigVars, logVars, history
<1>1. ASSUME NEW p \in Procs, NEW c \in Procs, Fork(p, c) PROVE TypeInv'
  <2>1. pc' \in [Procs -> {"none", "fork", "forked", "ready", "waiting", "sleep", "born", "serve",
                           "zombie"}]
    BY <1>1 DEF Fork, TypeOK
  <2>2. handlers' \subseteq Procs /\ exiting' \subseteq handlers'
    BY <1>1 DEF Fork, TypeOK
  <2>3. buf' \in [Procs -> SUBSET Reports] /\ stdio' \in [Procs -> SUBSET Reports]
    BY <1>1 DEF Fork, TypeOK
  <2>4. up' \in [Procs -> Procs \cup {NoProc}] /\ kid' \in [Procs -> Procs \cup {NoProc}]
    BY <1>1 DEF Fork, TypeOK
  <2>5. Counted'
    BY <1>1 DEF Fork, TypeOK, Counted
  <2>6. QED
    BY <1>1, <2>1, <2>2, <2>3, <2>4, <2>5 DEF Fork, TypeOK
<1>2. ASSUME NEW p \in Procs, EnterWait(p) \/ Wake(p) \/ InitSignals(p) \/ Start(p) PROVE TypeInv'
  BY <1>2 DEF EnterWait, Wake, InitSignals, Start, TypeOK, Counted
<1>3. ASSUME NEW p \in Procs, WaitExited(p) \/ ForkFails(p) \/ ChildExits(p) PROVE TypeInv'
  BY <1>3, ExitsTypeInv DEF WaitExited, ForkFails, ChildExits
<1>4. ASSUME NEW p \in Procs, WaitSignaled(p) PROVE TypeInv'
  <2>1. deaths \in Reports /\ kid[p] \in Procs
    BY <1>4, LastReport DEF WaitSignaled, TypeOK, KidIs
  <2>2. /\ buf' \in [Procs -> SUBSET Reports] /\ stdio' \in [Procs -> SUBSET Reports]
        /\ written' \subseteq Reports /\ dropped' \subseteq Reports
    <3>1. LogLine(p, {deaths}) /\ {deaths} \in SUBSET Reports
      BY <1>4, <2>1 DEF WaitSignaled
    <3>2. QED
      BY <3>1, LogLineTypeInv
  <2>3. pc' \in [Procs -> {"none", "fork", "forked", "ready", "waiting", "sleep", "born", "serve",
                           "zombie"}]
    BY <1>4, <2>1 DEF WaitSignaled, TypeOK
  <2>4. up' \in [Procs -> Procs \cup {NoProc}] /\ kid' \in [Procs -> Procs \cup {NoProc}]
    BY <1>4, <2>1 DEF WaitSignaled, TypeOK
  <2>5. Counted'
    BY <1>4, <2>1 DEF WaitSignaled, TypeOK, Counted
  <2>6. QED
    BY <1>4, <2>2, <2>3, <2>4, <2>5 DEF WaitSignaled, TypeOK
<1>5. ASSUME NEW p \in Procs, ChildLogs(p) \/ StdioSpills(p) PROVE TypeInv'
  <2>1. /\ buf' \in [Procs -> SUBSET Reports] /\ stdio' \in [Procs -> SUBSET Reports]
        /\ written' \subseteq Reports /\ dropped' \subseteq Reports
    <3>1. CASE ChildLogs(p)
      BY <3>1, LogLineTypeInv DEF ChildLogs
    <3>2. CASE StdioSpills(p)
      BY <3>2 DEF StdioSpills, TypeOK
    <3>3. QED
      BY <1>5, <3>1, <3>2
  <2>2. UNCHANGED <<treeVars, sigVars, gone, history>>
    BY <1>5 DEF ChildLogs, StdioSpills
  <2>3. QED
    BY <2>1, <2>2 DEF TypeOK, Counted
<1>6. ASSUME NEW p \in Procs, Kill(p) PROVE TypeInv'
  BY <1>6, IsKilledTypeInv DEF Kill
<1>7. ASSUME NEW p \in Procs, Term(p) PROVE TypeInv'
  <2>1. CASE Interrupted(p)
    BY <2>1, ExitsTypeInv DEF Interrupted
  <2>2. CASE Marked(p)
    <3>1. /\ buf' \in [Procs -> SUBSET Reports] /\ stdio' \in [Procs -> SUBSET Reports]
          /\ written' \subseteq Reports /\ dropped' \subseteq Reports
      BY <2>2, LogLineTypeInv DEF Marked
    <3>2. /\ pc' = IF pc[p] = "sleep" THEN [pc EXCEPT ![p] = "fork"] ELSE pc
          /\ exiting' = exiting \cup {p} /\ p \in handlers
          /\ UNCHANGED <<up, kid, fate, handlers, gone, history>>
      BY <1>7, <2>2 DEF Term, Marked
    <3>3. QED
      BY <3>1, <3>2 DEF TypeOK, Counted
  <2>3. QED
    BY <1>7, <2>1, <2>2 DEF Term
<1>8. CASE UNCHANGED vars
  BY <1>8 DEF vars, TypeOK, Counted
<1>9. QED
  BY <1>1, <1>2, <1>3, <1>4, <1>5, <1>6, <1>7, <1>8 DEF Next, ParentStep

\* Every variable keeps its type, for any set of processes and any number of kills.
THEOREM TypeCorrect == Spec => []TypeOK
<1>1. TypeInv => TypeOK
  BY DEF TypeInv
<1>2. QED
  BY InitTypeInv, NextTypeInv, <1>1, PTL DEF Spec

(***************************************************************************)
(* The shape of the tree.  That there is one server needs that there is    *)
(* one parent beside it, and that the parent has no other child, dead or   *)
(* alive; that an exit is final needs that the parent, wherever it is,     *)
(* will find it before it forks again.                                     *)
(***************************************************************************)
IInv == TypeInv /\ TreeInv

LEMMA InitTreeInv == Init => TreeInv
<1> SUFFICES ASSUME Init PROVE TreeInv
  OBVIOUS
<1>1. /\ \A p \in Procs : pc[p] = "none" /\ up[p] = NoProc /\ kid[p] = NoProc
      /\ ~over
  BY DEF Init
<1>2. /\ \A p \in Procs : ~Parent(p)
      /\ Serving = {}
  BY <1>1 DEF Parent, Watching, Serving
<1>3. TypeOK
  BY InitTypeInv DEF TypeInv
<1>4. Watched /\ KidsMatch
  BY <1>1 DEF Watched, KidsMatch, Watching
<1>5. QED
  BY <1>1, <1>2, <1>3, <1>4 DEF TreeInv, OneParent, SingleServer, ExitIsSeen, ExitIsFinal

\* what is left when p has died
LEMMA DiesShape ==
  ASSUME TypeOK, TreeInv, NEW p \in Procs, Lives(p), NEW how \in {"exited", "signaled"},
         Dies(p, how)
  PROVE  /\ Watched' /\ KidsMatch' /\ OneParent' /\ SingleServer'
         /\ Serving' = Serving \ {p}
         /\ \A q \in Procs \ {p} : Parent(q)' <=> Parent(q)
         /\ ~Parent(p)'
<1>1. ~Parent(p)' /\ \A q \in Procs \ {p} : Parent(q)' <=> Parent(q)
  BY DEF Dies, TypeOK, Parent, Watching
<1>2. Serving' = Serving \ {p}
  BY DEF Dies, TypeOK, Serving
<1>3. Watched'
  BY DEF Dies, TypeOK, TreeInv, Watched, KidsMatch, Lives, Watching
<1>4. KidsMatch'
  BY DEF Dies, TypeOK, TreeInv, Watched, KidsMatch, Lives, Watching
<1>5. OneParent'
  BY <1>1, <1>2 DEF Dies, TypeOK, TreeInv, OneParent, Serving
<1>6. SingleServer'
  BY <1>2 DEF TreeInv, SingleServer
<1>7. QED
  BY <1>1, <1>2, <1>3, <1>4, <1>5, <1>6

LEMMA ExitsTreeInv ==
  ASSUME IInv, NEW p \in Procs, Exits(p), Lives(p)
  PROVE  TreeInv'
<1> USE DEF IInv, TreeInv
<1>1. Dies(p, "exited") /\ (over' <=> over \/ pc[p] = "serve")
  BY DEF Exits, TypeOK
<1>2. /\ Watched' /\ KidsMatch' /\ OneParent' /\ SingleServer'
      /\ Serving' = Serving \ {p}
      /\ \A q \in Procs \ {p} : Parent(q)' <=> Parent(q)
      /\ ~Parent(p)'
  BY <1>1, DiesShape
<1>3. ExitIsFinal'
  BY <1>1, <1>2 DEF ExitIsFinal, SingleServer, Serving
<1>4. ASSUME over', NEW q \in Procs, Parent(q)' PROVE pc'[q] \in Watching /\ KidIs(q, "exited")'
  <2>1. q # p /\ Parent(q)
    BY <1>2, <1>4
  <2>2. CASE pc[p] = "serve"
    <3>1. up[p] = q /\ kid[q] = p /\ pc[q] \in Watching
      BY <2>1, <2>2, KeepAliveAssumption DEF OneParent, Serving, Watched
    <3>2. QED
      BY <1>1, <2>1, <3>1, KeepAliveAssumption DEF Dies, KidIs, TypeOK, Watching
  <2>3. CASE over
    <3>1. pc[q] \in Watching /\ KidIs(q, "exited")
      BY <2>1, <2>3 DEF ExitIsSeen
    <3>2. up[kid[q]] = q /\ kid[q] \in Procs /\ kid[q] # p
      BY <3>1 DEF KidIs, KidsMatch, TypeOK, Lives
    <3>3. QED
      BY <1>1, <2>1, <3>1, <3>2, KeepAliveAssumption DEF Dies, KidIs, TypeOK, Watching
  <2>4. QED
    BY <1>1, <1>4, <2>2, <2>3
<1>5. QED
  BY <1>2, <1>3, <1>4, ExitsTypeInv DEF ExitIsSeen, TypeInv

LEMMA IsKilledTreeInv ==
  ASSUME IInv, NEW p \in Procs, IsKilled(p), Lives(p)
  PROVE  TreeInv'
<1> USE DEF IInv, TreeInv
<1>1. Dies(p, "signaled") /\ over' = over
  BY DEF IsKilled
<1>2. /\ Watched' /\ KidsMatch' /\ OneParent' /\ SingleServer'
      /\ Serving' = Serving \ {p}
      /\ \A q \in Procs \ {p} : Parent(q)' <=> Parent(q)
      /\ ~Parent(p)'
  BY <1>1, DiesShape
<1>3. ExitIsFinal'
  BY <1>1, <1>2 DEF ExitIsFinal
<1>4. ASSUME over, NEW q \in Procs, Parent(q)' PROVE pc'[q] \in Watching /\ KidIs(q, "exited")'
  <2>1. q # p /\ Parent(q)
    BY <1>2, <1>4
  <2>2. pc[q] \in Watching /\ KidIs(q, "exited")
    BY <1>4, <2>1 DEF ExitIsSeen
  <2>3. up[kid[q]] = q /\ kid[q] \in Procs /\ kid[q] # p
    BY <2>2 DEF KidIs, KidsMatch, TypeOK, Lives
  <2>4. QED
    BY <1>1, <2>1, <2>2, <2>3, KeepAliveAssumption DEF Dies, KidIs, TypeOK, Watching
<1>5. QED
  BY <1>1, <1>2, <1>3, <1>4, IsKilledTypeInv DEF ExitIsSeen, TypeInv

LEMMA ForkTreeInv ==
  ASSUME IInv, NEW p \in Procs, NEW c \in Procs, Fork(p, c), TypeInv'
  PROVE  TreeInv'
<1> USE DEF IInv, TreeInv
<1>1. /\ pc[p] = "fork" /\ pc[c] = "none" /\ p # c
      /\ pc' = [pc EXCEPT ![p] = "forked", ![c] = "born"]
      /\ up' = [up EXCEPT ![c] = p] /\ kid' = [kid EXCEPT ![p] = c]
      /\ fate' = fate /\ over' = over
  BY DEF Fork, history
<1>2. Parent(p) /\ kid[p] = NoProc /\ up[c] = NoProc /\ kid[c] = NoProc /\ up[p] = NoProc
  BY <1>1 DEF Parent, KidsMatch, Watched, TypeOK, Watching
<1>3. Serving = {} /\ ~over
  <2>1. \A q \in Serving : up[q] = p /\ q \in Procs
    BY <1>2 DEF OneParent, Serving
  <2>2. QED
    BY <1>1, <1>2, <2>1, KeepAliveAssumption DEF Watched, ExitIsSeen, Watching
<1>4. Serving' = {c}
  BY <1>1, <1>3 DEF Serving, TypeOK
<1>5. \A q \in Procs : Parent(q)' <=> q = p
  BY <1>1, <1>2 DEF OneParent, Parent, Watching, TypeOK
<1>6. Watched'
  BY <1>1, <1>2 DEF Watched, TypeOK, Watching
<1>7. KidsMatch'
  BY <1>1, <1>2, KeepAliveAssumption DEF KidsMatch, Watched, TypeOK, Watching
<1>8. QED
  BY <1>1, <1>3, <1>4, <1>5, <1>6, <1>7
     DEF OneParent, SingleServer, ExitIsSeen, ExitIsFinal, TypeInv, TypeOK

LEMMA WaitSignaledTreeInv ==
  ASSUME IInv, NEW p \in Procs, WaitSignaled(p), TypeInv'
  PROVE  TreeInv'
<1> USE DEF IInv, TreeInv
<1> DEFINE c == kid[p]
<1>1. /\ pc[p] = "waiting" /\ c \in Procs /\ c # p /\ pc[c] = "zombie" /\ fate[c] = "signaled"
      /\ up[c] = p
      /\ pc' = [pc EXCEPT ![p] = "sleep", ![c] = "none"]
      /\ up' = [up EXCEPT ![c] = NoProc] /\ kid' = [kid EXCEPT ![p] = NoProc]
      /\ fate' = fate /\ over' = over
  BY DEF WaitSignaled, KidIs, KidsMatch, TypeOK, history
<1>2. Parent(p) /\ Serving = {} /\ ~over
  <2>1. Parent(p)
    BY <1>1 DEF Parent, Watching
  <2>2. \A q \in Serving : kid[p] = q /\ q \in Procs
    BY <2>1, KeepAliveAssumption DEF OneParent, Serving, Watched
  <2>3. Serving = {}
    BY <1>1, <2>2 DEF Serving
  <2>4. QED
    BY <1>1, <2>1, <2>3 DEF ExitIsSeen, KidIs
<1>3. Serving' = {}
  BY <1>1, <1>2 DEF Serving, TypeOK
<1>4. \A q \in Procs : Parent(q)' <=> q = p
  BY <1>1, <1>2 DEF OneParent, Parent, Watching, TypeOK
<1>5. Watched'
  BY <1>1, KeepAliveAssumption DEF Watched, TypeOK, Watching
<1>6. KidsMatch'
  BY <1>1, KeepAliveAssumption DEF KidsMatch, Watched, TypeOK, Watching
<1>7. QED
  BY <1>1, <1>2, <1>3, <1>4, <1>5, <1>6
     DEF OneParent, SingleServer, ExitIsSeen, ExitIsFinal, TypeInv

\* steps in which nobody is born and nobody dies
LEMMA SameTree ==
  ASSUME IInv, TypeInv', kid' = kid, up' = up, fate' = fate, over' = over,
         \A q \in Procs : /\ pc'[q] \in Watching <=> pc[q] \in Watching
                          /\ pc'[q] \in {"born", "serve"} <=> pc[q] \in {"born", "serve"}
                          /\ pc'[q] = "zombie" <=> pc[q] = "zombie"
                          /\ pc'[q] \in {"fork", "sleep"} <=> pc[q] \in {"fork", "sleep"}
  PROVE  TreeInv'
<1> USE DEF IInv, TreeInv
<1>1. Serving' = Serving
  BY DEF Serving
<1>2. \A q \in Procs : Parent(q)' <=> Parent(q)
  BY DEF Parent
<1>3. Watched'
  BY KeepAliveAssumption DEF Watched, TypeOK
<1>4. KidsMatch'
  BY DEF KidsMatch
<1>5. OneParent' /\ SingleServer' /\ ExitIsFinal'
  BY <1>1, <1>2 DEF OneParent, SingleServer, ExitIsFinal
<1>6. ExitIsSeen'
  BY <1>2 DEF ExitIsSeen, KidIs, TypeInv, TypeOK
<1>7. QED
  BY <1>3, <1>4, <1>5, <1>6 DEF TypeInv

LEMMA StartTreeInv ==
  ASSUME IInv, TypeInv', NEW p \in Procs, Start(p)
  PROVE  TreeInv'
<1> USE DEF IInv, TreeInv
<1>1. /\ \A q \in Procs : pc[q] \in {"none", "zombie"}
      /\ pc[p] = "none" /\ pc' = [pc EXCEPT ![p] = "fork"]
      /\ up' = up /\ kid' = kid /\ fate' = fate /\ ~over'
  BY DEF Start, Locked, Lives
<1>2. Serving' = {} /\ \A q \in Procs : Parent(q)' <=> q = p
  BY <1>1 DEF Serving, Parent, Watching, TypeOK
<1>3. Watched' /\ KidsMatch'
  BY <1>1 DEF Watched, KidsMatch, TypeOK, Watching
<1>4. QED
  BY <1>1, <1>2, <1>3 DEF OneParent, SingleServer, ExitIsSeen, ExitIsFinal, TypeInv

LEMMA NextTreeInv == IInv /\ [Next]_vars => TreeInv'
<1> SUFFICES ASSUME IInv, [Next]_vars PROVE TreeInv'
  OBVIOUS
<1> USE DEF treeVars, sigVars, logVars, history
<1>1. TypeInv'
  BY NextTypeInv DEF IInv
<1>2. TypeOK /\ Watched
  BY DEF IInv, TypeInv, TreeInv
<1>3. ASSUME NEW p \in Procs, NEW c \in Procs, Fork(p, c) PROVE TreeInv'
  BY <1>1, <1>3, ForkTreeInv
<1>4. ASSUME NEW p \in Procs, EnterWait(p) \/ InitSignals(p) PROVE TreeInv'
  BY <1>1, <1>2, <1>4, SameTree DEF EnterWait, InitSignals, TypeOK, Watching
<1>5. ASSUME NEW p \in Procs, Wake(p) PROVE TreeInv'
  BY <1>1, <1>2, <1>5, SameTree DEF Wake, TypeOK, Watching
<1>6. ASSUME NEW p \in Procs, Start(p) PROVE TreeInv'
  BY <1>1, <1>6, StartTreeInv
<1>7. ASSUME NEW p \in Procs, WaitExited(p) \/ ForkFails(p) \/ ChildExits(p) PROVE TreeInv'
  BY <1>7, ExitsTreeInv DEF WaitExited, ForkFails, ChildExits, Lives
<1>8. ASSUME NEW p \in Procs, WaitSignaled(p) PROVE TreeInv'
  BY <1>1, <1>8, WaitSignaledTreeInv
<1>9. ASSUME NEW p \in Procs, Kill(p) PROVE TreeInv'
  BY <1>9, IsKilledTreeInv DEF Kill
<1>10. ASSUME NEW p \in Procs, Term(p) PROVE TreeInv'
  <2>1. CASE Interrupted(p)
    BY <2>1, ExitsTreeInv DEF Interrupted, Lives
  <2>2. CASE Marked(p)
    BY <1>1, <1>2, <2>2, SameTree DEF Marked, TypeOK, Watching
  <2>3. QED
    BY <1>10, <2>1, <2>2 DEF Term
<1>11. CASE UNCHANGED vars \/ \E p \in Procs : ChildLogs(p) \/ StdioSpills(p)
  <2>1. UNCHANGED <<treeVars, over>>
    BY <1>11 DEF vars, ChildLogs, StdioSpills
  <2>2. QED
    BY <1>1, <2>1, SameTree
<1>12. QED
  BY <1>3, <1>4, <1>5, <1>6, <1>7, <1>8, <1>9, <1>10, <1>11 DEF Next, ParentStep

LEMMA Invariant == Spec => []IInv
<1>1. Init => IInv
  BY InitTypeInv, InitTreeInv DEF IInv
<1>2. IInv /\ [Next]_vars => IInv'
  BY NextTypeInv, NextTreeInv DEF IInv
<1>3. QED
  BY <1>1, <1>2, PTL DEF Spec

\* However processes are killed, interrupted and started again, one serves at a time.
THEOREM OneServer == Spec => []SingleServer
<1>1. IInv => SingleServer
  BY DEF IInv, TreeInv
<1>2. QED
  BY Invariant, <1>1, PTL

\* A living parent waits, or is about to, for its own child.
THEOREM ChildIsWatched == Spec => []Watched
<1>1. IInv => Watched
  BY DEF IInv, TreeInv
<1>2. QED
  BY Invariant, <1>1, PTL

\* After a server has exited, none serves before the program is started anew.
THEOREM NoneAfterExit == Spec => []ExitIsFinal
<1>1. IInv => ExitIsFinal
  BY DEF IInv, TreeInv
<1>2. QED
  BY Invariant, <1>1, PTL

(***************************************************************************)
(* The reports.  Lines of any kind move them on, the end of a process      *)
(* writes its own or counts them as gone, and a report that is not made    *)
(* yet is that of the last death.                                          *)
(***************************************************************************)
Kept(d) ==
  d \in written \/ d \in dropped \/ d \in gone \/ \E p \in Procs : d \in Held(p)

Awaited(d) == d = deaths /\ \E p \in Procs : KidIs(p, "signaled")

DeadHaveNone == \A p \in Procs : ~Lives(p) => Held(p) = {}

ReportInv ==
  /\ DeadHaveNone
  /\ \A d \in 1 .. deaths : Kept(d) \/ Awaited(d)

RInv == IInv /\ ReportInv

LEMMA InitReportInv == Init => ReportInv
<1> SUFFICES ASSUME Init PROVE ReportInv
  OBVIOUS
<1>1. deaths = 0 /\ \A p \in Procs : Held(p) = {}
  BY DEF Init, Held
<1>2. 1 .. deaths = {}
  BY <1>1
<1>3. QED
  BY <1>1, <1>2 DEF ReportInv, DeadHaveNone

\* a parent that lives on awaits what it awaited
LEMMA StillAwaited ==
  ASSUME IInv, NEW p \in Procs, Lives(p), NEW how \in {"exited", "signaled"}, Dies(p, how),
         NEW q \in Procs \ {p}, KidIs(q, "signaled")
  PROVE  KidIs(q, "signaled")'
<1>1. kid[q] \in Procs /\ kid[q] # p /\ up[kid[q]] = q
  BY DEF KidIs, IInv, TreeInv, KidsMatch, TypeOK, Lives
<1>2. QED
  BY <1>1 DEF Dies, KidIs, IInv, TreeInv, TypeOK

\* what the others have stays
LEMMA DiesHolds ==
  ASSUME TypeOK, NEW p \in Procs, NEW how, Dies(p, how)
  PROVE  Held(p)' = {} /\ \A q \in Procs \ {p} : Held(q)' = Held(q)
BY DEF Dies, Held, TypeOK

\* a line loses no report without a trace, its own included
LEMMA LogLineKeeps ==
  ASSUME TypeOK, NEW p \in Procs, NEW new, LogLine(p, new), gone' = gone
  PROVE  /\ \A d : Kept(d) \/ d \in new => Kept(d)'
         /\ \A q \in Procs \ {p} : Held(q)' = Held(q)
<1>1. \A q \in Procs \ {p} : buf'[q] = buf[q] /\ stdio'[q] = stdio[q]
  BY DEF LogLine, TypeOK
<1>2. \A q \in Procs \ {p} : Held(q)' = Held(q)
  BY <1>1 DEF Held
<1>3. written \subseteq written' /\ dropped \subseteq dropped'
  BY DEF LogLine
<1>4. Held(p) \cup new \subseteq Held(p)' \cup written' \cup dropped'
  <2>1. Held(p) = buf[p] \cup stdio[p] /\ Held(p)' = buf'[p] \cup stdio'[p]
    BY DEF Held
  <2>2. QED
    BY <2>1 DEF LogLine, TypeOK
<1>5. QED
  BY <1>2, <1>3, <1>4 DEF Kept

LEMMA ExitsReportInv ==
  ASSUME RInv, NEW p \in Procs, Lives(p), Exits(p), ~KidIs(p, "signaled")
  PROVE  ReportInv'
<1> USE DEF RInv, ReportInv, IInv, TreeInv
<1>1. /\ Dies(p, "exited") /\ written' = written \cup Held(p)
      /\ deaths' = deaths /\ gone' = gone /\ dropped' = dropped
  BY DEF Exits
<1>2. Held(p)' = {} /\ \A q \in Procs \ {p} : Held(q)' = Held(q)
  BY <1>1, DiesHolds
<1>3. DeadHaveNone'
  BY <1>1, <1>2 DEF Dies, DeadHaveNone, Lives, TypeOK
<1>4. ASSUME NEW d \in 1 .. deaths, Kept(d) PROVE Kept(d)'
  BY <1>1, <1>2, <1>4 DEF Kept
<1>5. ASSUME NEW d \in 1 .. deaths, Awaited(d) PROVE Awaited(d)'
  BY <1>1, <1>5, StillAwaited DEF Awaited
<1>6. QED
  BY <1>1, <1>3, <1>5, <1>4

LEMMA IsKilledReportInv ==
  ASSUME RInv, NEW p \in Procs, Lives(p), IsKilled(p)
  PROVE  ReportInv'
<1> USE DEF RInv, ReportInv, IInv, TreeInv
<1>1. /\ Dies(p, "signaled") /\ written \subseteq written' /\ dropped' = dropped
      /\ deaths' = IF up[p] # NoProc THEN deaths + 1 ELSE deaths
      /\ gone \subseteq gone'
      /\ KidIs(p, "signaled") => deaths \in gone'
  BY DEF IsKilled
<1> DEFINE others == UNION {Held(q) : q \in Procs \ {p}}
<1>2. Held(p)' = {} /\ \A q \in Procs \ {p} : Held(q)' = Held(q)
  BY <1>1, DiesHolds
<1>3. DeadHaveNone'
  BY <1>1, <1>2 DEF Dies, DeadHaveNone, Lives, TypeOK
<1>4. ASSUME NEW d, Kept(d) PROVE Kept(d)'
  <2>1. ASSUME d \in Held(p), d \notin written', d \notin others
        PROVE  d \in gone'
    BY <2>1 DEF IsKilled
  <2>2. \A q \in Procs \ {p} : Held(q)' = Held(q)
    BY <1>2
  <2>3. QED
    BY <1>1, <1>4, <2>1, <2>2 DEF Kept
<1>5. CASE up[p] # NoProc
  <2>1. PICK u \in Procs : u = up[p] /\ Parent(u) /\ kid[u] = p
    BY <1>5 DEF Watched, TypeOK, Parent
  <2>2. \A q \in Procs : ~KidIs(q, "signaled")
    BY <2>1 DEF OneParent, KidIs, KidsMatch, Parent, Lives
  <2>3. KidIs(u, "signaled")'
    BY <1>1, <1>5, <2>1 DEF Dies, KidIs, Watched, KidsMatch, TypeOK, Watching
  <2>4. ASSUME NEW d \in 1 .. deaths', d # deaths' PROVE Kept(d)'
    <3>1. d \in 1 .. deaths
      BY <1>1, <1>5, <2>4 DEF TypeOK
    <3>2. QED
      BY <1>4, <2>2, <3>1 DEF Awaited
  <2>5. Awaited(deaths)'
    BY <2>1, <2>3 DEF Awaited
  <2>6. QED
    BY <1>3, <2>4, <2>5
<1>6. CASE up[p] = NoProc
  <2>1. deaths' = deaths
    BY <1>1, <1>6
  <2>2. ASSUME NEW d, Awaited(d) PROVE Kept(d)' \/ Awaited(d)'
    <3>1. CASE KidIs(p, "signaled")
      BY <1>1, <2>2, <3>1 DEF Awaited, Kept
    <3>2. CASE ~KidIs(p, "signaled")
      BY <1>1, <2>1, <2>2, <3>2, StillAwaited DEF Awaited
    <3>3. QED
      BY <3>1, <3>2
  <2>3. QED
    BY <1>3, <1>4, <2>1, <2>2
<1>7. QED
  BY <1>5, <1>6

\* steps that take nothing from a buffer without writing it
LEMMA SameReports ==
  ASSUME RInv, DeadHaveNone', deaths' = deaths,
         \A d : Kept(d) => Kept(d)',
         \A q \in Procs : KidIs(q, "signaled") => KidIs(q, "signaled")' \/ Kept(deaths)'
  PROVE  ReportInv'
<1>1. \A d : Awaited(d) => Awaited(d)' \/ Kept(d)'
  BY DEF Awaited
<1>2. QED
  BY <1>1 DEF RInv, ReportInv

LEMMA NextReportInv == RInv /\ [Next]_vars => ReportInv'
<1> SUFFICES ASSUME RInv, [Next]_vars PROVE ReportInv'
  OBVIOUS
<1> USE DEF treeVars, sigVars, logVars, history
<1>1. TypeOK /\ DeadHaveNone /\ KidsMatch
  BY DEF RInv, IInv, TypeInv, TreeInv, ReportInv
<1>2. ASSUME NEW p \in Procs, NEW c \in Procs, Fork(p, c) PROVE ReportInv'
  <2>1. /\ pc[p] = "fork" /\ pc[c] = "none" /\ Held(c) = {}
        /\ buf' = [buf EXCEPT ![c] = buf[p]] /\ stdio' = [stdio EXCEPT ![c] = stdio[p]]
        /\ written' = written /\ dropped' = dropped /\ gone' = gone
        /\ fate' = fate /\ kid' = [kid EXCEPT ![p] = c] /\ deaths' = deaths
        /\ pc' = [pc EXCEPT ![p] = "forked", ![c] = "born"]
    BY <1>1, <1>2 DEF Fork, DeadHaveNone, Lives
  <2>2. \A q \in Procs \ {c} : Held(q)' = Held(q)
    BY <1>1, <2>1 DEF Held, TypeOK
  <2>3. \A d : Kept(d) => Kept(d)'
    BY <2>1, <2>2 DEF Kept
  <2>4. DeadHaveNone'
    BY <1>1, <2>1, <2>2 DEF DeadHaveNone, Lives, TypeOK
  <2>5. ASSUME NEW q \in Procs, KidIs(q, "signaled") PROVE KidIs(q, "signaled")'
    <3>1. pc[q] \in Watching /\ kid[q] \in Procs /\ pc[kid[q]] = "zombie"
      BY <1>1, <2>5 DEF KidIs, KidsMatch, TypeOK
    <3>2. QED
      BY <1>1, <2>1, <2>5, <3>1 DEF KidIs, TypeOK, Watching
  <2>6. QED
    BY <2>1, <2>3, <2>4, <2>5, SameReports
<1>3. ASSUME NEW p \in Procs, EnterWait(p) \/ InitSignals(p) \/ Wake(p) \/ Start(p) PROVE ReportInv'
  <2>1. /\ UNCHANGED logVars /\ deaths' = deaths
        /\ kid' = kid /\ fate' = fate /\ pc[p] # "zombie"
        /\ pc'[p] \notin {"none", "zombie"}
        /\ \A q \in Procs \ {p} : pc'[q] = pc[q]
    BY <1>1, <1>3 DEF EnterWait, InitSignals, Wake, Start, TypeOK
  <2>2. DeadHaveNone'
    <3>1. \A q \in Procs : Held(q)' = Held(q)
      BY <2>1 DEF Held
    <3>2. ASSUME NEW q \in Procs, pc'[q] \in {"none", "zombie"} PROVE Held(q)' = {}
      <4>1. q # p /\ pc'[q] = pc[q]
        BY <2>1, <3>2
      <4>2. Held(q) = {}
        BY <1>1, <3>2, <4>1 DEF DeadHaveNone, Lives
      <4>3. QED
        BY <3>1, <4>2
    <3>3. QED
      BY <3>2 DEF DeadHaveNone, Lives
  <2>3. \A q \in Procs : KidIs(q, "signaled") => KidIs(q, "signaled")'
    BY <1>1, <2>1 DEF KidIs, TypeOK
  <2>4. QED
    BY <2>1, <2>2, <2>3, SameReports DEF Kept, Held
<1>4. ASSUME NEW p \in Procs, WaitExited(p) \/ ForkFails(p) \/ ChildExits(p) PROVE ReportInv'
  <2>1. Exits(p) /\ Lives(p) /\ ~KidIs(p, "signaled")
    BY <1>1, <1>4 DEF WaitExited, ForkFails, ChildExits, Lives, KidIs, KidsMatch, Watching
  <2>2. QED
    BY <2>1, ExitsReportInv
<1>5. ASSUME NEW p \in Procs, WaitSignaled(p) PROVE ReportInv'
  <2>1. /\ kid[p] \in Procs /\ pc[p] = "waiting" /\ pc[kid[p]] = "zombie"
        /\ pc' = [pc EXCEPT ![p] = "sleep", ![kid[p]] = "none"]
        /\ kid' = [kid EXCEPT ![p] = NoProc] /\ fate' = fate
        /\ LogLine(p, {deaths}) /\ gone' = gone /\ deaths' = deaths
    BY <1>1, <1>5 DEF WaitSignaled, KidIs, TypeOK
  <2>2. /\ Kept(deaths)' /\ \A d : Kept(d) => Kept(d)'
        /\ \A q \in Procs \ {p} : Held(q)' = Held(q)
    BY <1>1, <2>1, LogLineKeeps
  <2>3. DeadHaveNone'
    BY <1>1, <2>1, <2>2 DEF DeadHaveNone, Lives, TypeOK
  <2>4. QED
    BY <2>1, <2>2, <2>3, SameReports
<1>6. ASSUME NEW p \in Procs, ChildLogs(p) \/ StdioSpills(p) PROVE ReportInv'
  <2>1. UNCHANGED <<treeVars, gone, deaths>> /\ Lives(p)
    BY <1>1, <1>6 DEF ChildLogs, StdioSpills, DeadHaveNone, Held, Lives
  <2>2. /\ \A d : Kept(d) => Kept(d)'
        /\ \A q \in Procs \ {p} : Held(q)' = Held(q)
    <3>1. CASE ChildLogs(p)
      BY <1>1, <2>1, <3>1, LogLineKeeps DEF ChildLogs
    <3>2. CASE StdioSpills(p)
      <4>1. PICK spilled \in SUBSET stdio[p] :
              /\ written' = written \cup spilled
              /\ stdio' = [stdio EXCEPT ![p] = @ \ spilled]
              /\ buf' = buf /\ dropped' = dropped
        BY <3>2 DEF StdioSpills
      <4>2. \A q \in Procs \ {p} : Held(q)' = Held(q)
        BY <1>1, <4>1 DEF Held, TypeOK
      <4>3. Held(p) \subseteq Held(p)' \cup written'
        BY <1>1, <4>1 DEF Held, TypeOK
      <4>4. QED
        BY <2>1, <4>1, <4>2, <4>3 DEF Kept
    <3>3. QED
      BY <1>6, <3>1, <3>2
  <2>3. DeadHaveNone'
    BY <1>1, <2>1, <2>2 DEF DeadHaveNone, Lives
  <2>4. QED
    BY <2>1, <2>2, <2>3, SameReports DEF KidIs
<1>7. ASSUME NEW p \in Procs, Kill(p) PROVE ReportInv'
  BY <1>7, IsKilledReportInv DEF Kill
<1>8. ASSUME NEW p \in Procs, Term(p) PROVE ReportInv'
  <2>1. CASE Interrupted(p)
    BY <2>1, ExitsReportInv DEF Interrupted, Lives
  <2>2. CASE Marked(p)
    <3>1. /\ LogLine(p, {}) /\ gone' = gone /\ deaths' = deaths /\ Lives(p)
          /\ kid' = kid /\ fate' = fate
          /\ \A q \in Procs : pc'[q] = pc[q] \/ (pc[q] = "sleep" /\ pc'[q] = "fork")
      BY <1>1, <2>2 DEF Marked, TypeOK
    <3>2. /\ \A d : Kept(d) => Kept(d)'
          /\ \A q \in Procs \ {p} : Held(q)' = Held(q)
      BY <1>1, <3>1, LogLineKeeps
    <3>3. DeadHaveNone'
      BY <1>1, <3>1, <3>2 DEF DeadHaveNone, Lives
    <3>4. \A q \in Procs : KidIs(q, "signaled") => KidIs(q, "signaled")'
      BY <1>1, <3>1 DEF KidIs, TypeOK
    <3>5. QED
      BY <3>1, <3>3, <3>4, <3>2, SameReports
  <2>3. QED
    BY <1>8, <2>1, <2>2 DEF Term
<1>9. CASE UNCHANGED vars
  BY <1>9 DEF vars, RInv, ReportInv, DeadHaveNone, Lives, Held, Kept, Awaited, KidIs
<1>10. QED
  BY <1>2, <1>3, <1>4, <1>5, <1>6, <1>7, <1>8, <1>9 DEF Next, ParentStep

\* Every death by a signal is in the file, in a buffer of a living process or about to be
\* reported, unless its line was not stored or the last process that knew of it was killed.
THEOREM ReportsSurvive == Spec => []ReportsKept
<1>1. RInv => ReportsKept
  BY DEF RInv, ReportInv, DeadHaveNone, Kept, Awaited, ReportsKept
<1>2. Init => RInv
  BY InitTypeInv, InitTreeInv, InitReportInv DEF RInv, IInv
<1>3. RInv /\ [Next]_vars => RInv'
  BY NextTypeInv, NextTreeInv, NextReportInv DEF RInv, IInv
<1>4. QED
  BY <1>1, <1>2, <1>3, PTL DEF Spec
=============================================================================
