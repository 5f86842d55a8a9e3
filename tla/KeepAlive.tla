----------------------------- MODULE KeepAlive ------------------------------
(***************************************************************************)
(* A program of the repository as a tree of processes: process_exist, the  *)
(* parent that fork_process_and_keepalive leaves behind, the child that    *)
(* serves, their signals, and the lines that fork copies (os_utils.cpp).   *)
(*                                                                         *)
(* A process is in main before its next fork ("fork"); a parent has forked *)
(* and not yet set its handlers ("forked"), has ("ready"), is blocked in   *)
(* waitpid ("waiting") or in usleep ("sleep"); a child has yet to set its  *)
(* handlers ("born") or is the server ("serve"); "zombie" is dead with a   *)
(* parent that has not waited for it.  The other programs of the same name *)
(* that process_exist turns away do nothing and are left out.              *)
(***************************************************************************)
EXTENDS Integers, FiniteSets

CONSTANTS
  Procs,
  NoProc,
  MaxDeaths  \* bound: how many children are killed

ASSUME KeepAliveAssumption ==
  /\ NoProc \notin Procs
  /\ MaxDeaths \in Nat

VARIABLES
  pc,
  up,       \* the parent of a child, NoProc once it has died
  kid,      \* pid of a parent: whom it forked last
  fate,     \* what waitpid will say of a zombie
  handlers, \* the processes whose handlers are set
  exiting,  \* those whose gSignalExit is 1
  buf,      \* the reports in the gFileBuf of a process
  stdio,    \* the reports in its buffer of the C library
  written,  \* the reports in the file
  deaths,   \* how many children were killed (history)
  gone,     \* the reports that nobody makes, or whose last copy was in a process that
            \* was killed (history)
  dropped,  \* the reports that log_log_sync did not store (history)
  over      \* a server has exited and no program was started since (history)

treeVars == <<pc, up, kid, fate>>
sigVars  == <<handlers, exiting>>
logVars  == <<buf, stdio, written, dropped, gone>>
history  == <<deaths, over>>
vars     == <<treeVars, sigVars, logVars, history>>

Reports == 1 .. MaxDeaths

TypeOK ==
  /\ pc \in [Procs -> {"none", "fork", "forked", "ready", "waiting", "sleep", "born", "serve",
                       "zombie"}]
  /\ up \in [Procs -> Procs \cup {NoProc}]
  /\ kid \in [Procs -> Procs \cup {NoProc}]
  /\ fate \in [Procs -> {"exited", "signaled"}]
  /\ handlers \subseteq Procs
  /\ exiting \subseteq handlers
  /\ buf \in [Procs -> SUBSET Reports]
  /\ stdio \in [Procs -> SUBSET Reports]
  /\ written \subseteq Reports
  /\ dropped \subseteq Reports
  /\ deaths \in 0 .. MaxDeaths
  /\ gone \subseteq Reports
  /\ over \in BOOLEAN

Init ==
  /\ pc = [p \in Procs |-> "none"]
  /\ up = [p \in Procs |-> NoProc]
  /\ kid = [p \in Procs |-> NoProc]
  /\ fate = [p \in Procs |-> "exited"]
  /\ handlers = {}
  /\ exiting = {}
  /\ buf = [p \in Procs |-> {}]
  /\ stdio = [p \in Procs |-> {}]
  /\ written = {}
  /\ dropped = {}
  /\ deaths = 0
  /\ gone = {}
  /\ over = FALSE

Watching == {"forked", "ready", "waiting"}
Lives(p) == pc[p] \notin {"none", "zombie"}
Parent(p) == pc[p] \in Watching \cup {"fork", "sleep"}

\* what waitpid finds
KidIs(p, how) == kid[p] # NoProc /\ pc[kid[p]] = "zombie" /\ fate[kid[p]] = how

-----------------------------------------------------------------------------
(***************************************************************************)
(* The log of a process, of which fork makes a copy.  Of its other lines   *)
(* only what they do to the reports matters.                               *)
(***************************************************************************)
Held(p) == buf[p] \cup stdio[p]

\* log_log_sync, for a line that is a report (new has it) or not (new is empty)
LogLine(p, new) ==
  \* it is stored
  \/ /\ buf' = [buf EXCEPT ![p] = @ \cup new]
     /\ UNCHANGED <<stdio, written, dropped>>
  \* it finds gFileBuf full, which is flushed, or no file, and then nothing was stored
  \/ /\ buf' = [buf EXCEPT ![p] = {}]
     /\ stdio' = [stdio EXCEPT ![p] = Held(p)]
     /\ dropped' = dropped \cup new
     /\ UNCHANGED written
  \* it is the first of a new day: the old file is closed, and a new one opened or not
  \/ /\ written' = written \cup Held(p)
     /\ stdio' = [stdio EXCEPT ![p] = {}]
     /\ \/ buf' = [buf EXCEPT ![p] = new] /\ UNCHANGED dropped
        \/ buf' = [buf EXCEPT ![p] = {}] /\ dropped' = dropped \cup new

\* the C library writes a block that is full, and what comes after it stays
StdioSpills(p) ==
  /\ \E last \in stdio[p] :
       LET spilled == {d \in stdio[p] : d <= last}
       IN  /\ written' = written \cup spilled
           /\ stdio' = [stdio EXCEPT ![p] = @ \ spilled]
  /\ UNCHANGED <<treeVars, sigVars, buf, dropped, gone, history>>

-----------------------------------------------------------------------------
(***************************************************************************)
(* The end of a process.                                                   *)
(***************************************************************************)
\* p dies: its parent may wait for it, init does otherwise; its child gets init
Dies(p, how) ==
  /\ pc' = [q \in Procs |->
              IF q = p THEN IF up[p] = NoProc THEN "none" ELSE "zombie"
              ELSE IF up[q] = p /\ pc[q] = "zombie" THEN "none" ELSE pc[q]]
  /\ up' = [q \in Procs |-> IF up[q] = p THEN NoProc ELSE up[q]]
  /\ kid' = [kid EXCEPT ![p] = NoProc]
  /\ fate' = [fate EXCEPT ![p] = how]
  /\ handlers' = handlers \ {p}
  /\ exiting' = exiting \ {p}
  /\ buf' = [buf EXCEPT ![p] = {}]
  /\ stdio' = [stdio EXCEPT ![p] = {}]

\* mutant: _exit, which does not call what atexit was given
ExitsAtOnce(p) ==
  /\ Dies(p, "exited")
  /\ over' = (over \/ pc[p] = "serve")
  /\ UNCHANGED <<written, dropped, deaths, gone>>

\* exit: the functions given to atexit write gFileBuf and close the file
Exits(p) ==
  /\ Dies(p, "exited")
  /\ written' = written \cup Held(p)
  /\ over' = (over \/ pc[p] = "serve")
  /\ UNCHANGED <<dropped, deaths, gone>>

\* The handler of SIGSEGV or SIGABRT logs a line first, which may be that of a new day; its
\* log_flush moves what it has to the C library, which is lost with the process.
IsKilled(p) ==
  /\ Dies(p, "signaled")
  /\ up[p] # NoProc => deaths < MaxDeaths
  /\ deaths' = IF up[p] # NoProc THEN deaths + 1 ELSE deaths
  /\ \/ written' = written
     \/ p \in handlers /\ written' = written \cup Held(p)
  /\ gone' = gone \cup (Held(p) \ (written' \cup UNION {Held(q) : q \in Procs \ {p}}))
                   \cup IF KidIs(p, "signaled") THEN {deaths} ELSE {}
  /\ UNCHANGED <<dropped, over>>

-----------------------------------------------------------------------------
(***************************************************************************)
(* fork_process_and_keepalive.                                             *)
(***************************************************************************)
\* mutant: a lock that fork does not hand on
LockedByFirst == \E p \in Procs : Lives(p) /\ Parent(p)

\* flock: the descriptor is open in every process forked since
Locked == \E p \in Procs : Lives(p)

\* process_exist has returned 0
Start(p) ==
  /\ ~Locked
  /\ pc[p] = "none"
  /\ pc' = [pc EXCEPT ![p] = "fork"]
  /\ over' = FALSE
  /\ UNCHANGED <<up, kid, fate, sigVars, logVars, deaths>>

Fork(p, c) ==
  /\ pc[p] = "fork"
  /\ pc[c] = "none"
  /\ pc' = [pc EXCEPT ![p] = "forked", ![c] = "born"]
  /\ up' = [up EXCEPT ![c] = p]
  /\ kid' = [kid EXCEPT ![p] = c]
  /\ handlers' = IF p \in handlers THEN handlers \cup {c} ELSE handlers
  /\ exiting' = IF p \in exiting THEN exiting \cup {c} ELSE exiting
  /\ buf' = [buf EXCEPT ![c] = buf[p]]
  /\ stdio' = [stdio EXCEPT ![c] = stdio[p]]
  /\ UNCHANGED <<fate, written, dropped, gone, history>>

ForkFails(p) == pc[p] = "fork" /\ Exits(p)

\* init_signals, by the parent and by the child
InitSignals(p) ==
  /\ pc[p] \in {"forked", "born"}
  /\ pc' = [pc EXCEPT ![p] = IF pc[p] = "forked" THEN "ready" ELSE "serve"]
  /\ handlers' = handlers \cup {p}
  /\ UNCHANGED <<up, kid, fate, exiting, logVars, history>>

EnterWait(p) ==
  /\ pc[p] = "ready"
  /\ pc' = [pc EXCEPT ![p] = "waiting"]
  /\ UNCHANGED <<up, kid, fate, sigVars, logVars, history>>

\* mutant: a child that exits is forked again as well
WaitExitedForks(p) ==
  /\ pc[p] = "waiting"
  /\ KidIs(p, "exited")
  /\ pc' = [pc EXCEPT ![p] = "fork", ![kid[p]] = "none"]
  /\ up' = [up EXCEPT ![kid[p]] = NoProc]
  /\ UNCHANGED <<kid, fate, sigVars, logVars, history>>

WaitExited(p) ==
  /\ pc[p] = "waiting"
  /\ KidIs(p, "exited")
  /\ Exits(p)

WaitSignaled(p) ==
  /\ pc[p] = "waiting"
  /\ KidIs(p, "signaled")
  /\ pc' = [pc EXCEPT ![p] = "sleep", ![kid[p]] = "none"]
  /\ up' = [up EXCEPT ![kid[p]] = NoProc]
  /\ kid' = [kid EXCEPT ![p] = NoProc]
  /\ LogLine(p, {deaths})
  /\ UNCHANGED <<fate, sigVars, gone, history>>

\* mutant: the loop goes back to waitpid
WakeWaits(p) ==
  /\ pc[p] = "sleep"
  /\ pc' = [pc EXCEPT ![p] = "waiting"]
  /\ UNCHANGED <<up, kid, fate, sigVars, logVars, history>>

\* usleep is over
Wake(p) ==
  /\ pc[p] = "sleep"
  /\ pc' = [pc EXCEPT ![p] = "fork"]
  /\ UNCHANGED <<up, kid, fate, sigVars, logVars, history>>

-----------------------------------------------------------------------------
(***************************************************************************)
(* The child, as far as its parent and its buffer know of it.              *)
(***************************************************************************)
ChildExits(c) == pc[c] = "serve" /\ Exits(c)

\* a line of the server, or those that its asynchronous thread has taken
ChildLogs(c) ==
  /\ pc[c] = "serve"
  /\ Held(c) # {}
  /\ LogLine(c, {})
  /\ UNCHANGED <<treeVars, sigVars, gone, history>>

-----------------------------------------------------------------------------
(***************************************************************************)
(* Signals.                                                                *)
(***************************************************************************)
\* SIGKILL, a crash, or a signal without a handler
Kill(p) == Lives(p) /\ IsKilled(p)

\* mutant: a wait that was interrupted is taken for a child that has ended
InterruptedForks(p) ==
  /\ pc[p] = "waiting"
  /\ pc' = [pc EXCEPT ![p] = "fork"]
  /\ exiting' = exiting \cup {p}
  /\ UNCHANGED <<up, kid, fate, handlers, logVars, history>>

\* waitpid fails with EINTR and gSignalExit is 1; a status goes before a signal.  The
\* handler's own line moves what exit writes.
Interrupted(p) ==
  /\ pc[p] = "waiting"
  /\ ~KidIs(p, "exited") /\ ~KidIs(p, "signaled")
  /\ Exits(p)

\* Outside waitpid the handler logs, leaves its mark and nothing reads it: a parent that is
\* about to wait will wait, one that sleeps is woken and forks, and a child serves on.
Marked(p) ==
  /\ Lives(p) /\ (pc[p] = "waiting" => KidIs(p, "exited") \/ KidIs(p, "signaled"))
  /\ exiting' = exiting \cup {p}
  /\ pc' = IF pc[p] = "sleep" THEN [pc EXCEPT ![p] = "fork"] ELSE pc
  /\ LogLine(p, {})
  /\ UNCHANGED <<up, kid, fate, handlers, gone, history>>

\* SIGTERM or SIGQUIT with its handler set; without it is Kill
Term(p) == p \in handlers /\ (Interrupted(p) \/ Marked(p))

-----------------------------------------------------------------------------
ParentStep(p) ==
  \/ \E c \in Procs : Fork(p, c)
  \/ EnterWait(p) \/ WaitExited(p) \/ WaitSignaled(p) \/ Wake(p)

Next ==
  \E p \in Procs :
    \/ ParentStep(p)
    \/ InitSignals(p)
    \/ Start(p) \/ ForkFails(p)
    \/ ChildExits(p) \/ ChildLogs(p) \/ StdioSpills(p)
    \/ Kill(p) \/ Term(p)

Spec == Init /\ [][Next]_vars

\* processes that can run do
Fairness == \A p \in Procs : WF_vars(ParentStep(p)) /\ WF_vars(InitSignals(p))

FairSpec == Spec /\ Fairness

-----------------------------------------------------------------------------
Serving == {p \in Procs : pc[p] \in {"born", "serve"}}

\* Whatever is killed when, and though a child outlives its parent: there is one
\* server at a time, on a port that SO_REUSEPORT would let several share.
SingleServer == \A p, q \in Serving : p = q

\* A child whose parent lives is the one that the parent will wait for: no child
\* is lost sight of, whether the signals come before, in or after the wait.
Watched ==
  \A c \in Procs : up[c] # NoProc =>
    /\ pc[c] \in {"born", "serve", "zombie"}
    /\ kid[up[c]] = c
    /\ pc[up[c]] \in Watching

\* An exit is for good: whatever becomes of the parent, nothing serves again before
\* somebody starts the program anew.
ExitIsFinal == over => Serving = {}

\* The death of a child that was killed is in the file or on its way to it, in the buffers
\* of a process that lives, though these are copied by fork and written or lost by each
\* process for itself; unless its line found no room in gFileBuf, or no file, when it was
\* logged, or the last process to know of it was killed too.
ReportsKept ==
  \A d \in 1 .. deaths :
    \/ d \in written \cup dropped \cup gone
    \/ \E p \in Procs : Lives(p) /\ d \in Held(p)
    \/ d = deaths /\ \E p \in Procs : KidIs(p, "signaled")

\* While a parent lives and is left alone, a server that is down comes back.
ServerComesBack ==
  (\E p \in Procs : Parent(p)) ~>
    ((\E c \in Procs : pc[c] = "serve") \/ \A p \in Procs : ~Parent(p))
=============================================================================
