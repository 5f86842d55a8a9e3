---------------------------- MODULE ServerStats -----------------------------
(***************************************************************************)
(* The performance records of server_stats.cpp, as the threads of a server *)
(* use them through TIMER_END: a static index per place in the code, a     *)
(* vector of records that grows under gPerfMutex, pointers into it that    *)
(* are taken without, and a mutex in every record.                         *)
(*                                                                         *)
(* A record is its mutex and mCalls, an int that is not counted up to its  *)
(* limit here; the sum, the maximum and the histogram are written with it. *)
(* The vector is counted from 1, and 0 is what a static is before it is    *)
(* initialised.  When the vector has to grow, its records are copied, a    *)
(* mutex in whatever state it is, and threads with a pointer to the old    *)
(* ones go on with freed memory: they may write there, find it             *)
(* locked for ever, or end the process, which a composition adds.          *)
(***************************************************************************)
EXTENDS Integers, Sequences

CONSTANTS
  Threads,
  Sites,    \* the places with a TIMER_END
  NoThread,
  NoSite

ASSUME StatsAssumption == NoThread \notin Threads /\ NoSite \notin Sites

VARIABLES
  gPerfRecords,
  capacity,  \* of the vector
  copy,      \* the larger vector that push_back prepares
  gPerfMutex,
  idx,       \* per site: its static variable, 0 before it is initialised
  guard,     \* per site: the thread that initialises it
  ret,       \* per thread: ret_idx of AddPerfRecord, until the static has it
  tpc,       \* per thread: where it is
  site,      \* per thread: in which TIMER_END
  stale,     \* the threads with a pointer to freed records
  loaded,    \* per thread: mCalls as it has read it for ++mCalls
  shown,     \* per site: mCalls on the last page (history)
  updates,   \* per site: calls of Update that have returned (history)
  overtaken  \* the records have been moved while a thread used one (history)

recVars    == <<gPerfRecords, capacity, copy, gPerfMutex, idx, guard, ret>>
histVars   == <<shown, updates, overtaken>>
statVars   == <<recVars, tpc, site, stale, loaded, histVars>>

Records == [site : Sites, calls : Nat, mutex : Threads \cup {NoThread}]

StatsTypeOK ==
  /\ gPerfRecords \in Seq(Records)
  /\ copy \in Seq(Records)
  /\ capacity \in Nat /\ Len(gPerfRecords) <= capacity
  /\ gPerfMutex \in Threads \cup {NoThread}
  /\ idx \in [Sites -> 0 .. Len(gPerfRecords)]
  /\ guard \in [Sites -> Threads \cup {NoThread}]
  /\ ret \in [Threads -> Nat]
  /\ tpc \in [Threads -> {"idle", "index", "copy", "static", "lock", "update", "page"}]
  /\ site \in [Threads -> Sites \cup {NoSite}]
  /\ stale \subseteq Threads
  /\ loaded \in [Threads -> Nat]
  /\ shown \in [Sites -> Nat]
  /\ updates \in [Sites -> Nat]
  /\ overtaken \in BOOLEAN

StatsInit ==
  /\ gPerfRecords = <<>>
  /\ capacity = 0
  /\ copy = <<>>
  /\ gPerfMutex = NoThread
  /\ idx = [s \in Sites |-> 0]
  /\ guard = [s \in Sites |-> NoThread]
  /\ ret = [t \in Threads |-> 0]
  /\ tpc = [t \in Threads |-> "idle"]
  /\ site = [t \in Threads |-> NoSite]
  /\ stale = {}
  /\ loaded = [t \in Threads |-> 0]
  /\ shown = [s \in Sites |-> 0]
  /\ updates = [s \in Sites |-> 0]
  /\ overtaken = FALSE

Goes(t, from, to) == tpc[t] = from /\ tpc' = [tpc EXCEPT ![t] = to]

-----------------------------------------------------------------------------
(***************************************************************************)
(* TIMER_END: the static index.                                            *)
(***************************************************************************)
TimerEnd(t, s) ==
  /\ Goes(t, "idle", "index")
  /\ site' = [site EXCEPT ![t] = s]
  /\ UNCHANGED <<recVars, stale, loaded, histVars>>

\* mutant: the copy has its name and nothing else
CopiedAnew(r) == [r EXCEPT !.calls = 0]

Copied(r) == r

\* AddPerfRecord as far as the copying of the records, when there is no room; one
\* thread initialises the static and the others wait for it
AddRecord(t) ==
  /\ Goes(t, "index", "copy")
  /\ idx[site[t]] = 0 /\ guard[site[t]] = NoThread
  /\ gPerfMutex = NoThread
  /\ gPerfMutex' = t
  /\ guard' = [guard EXCEPT ![site[t]] = t]
  /\ copy' = Append([i \in DOMAIN gPerfRecords |-> Copied(gPerfRecords[i])],
                    [site |-> site[t], calls |-> 0, mutex |-> NoThread])
  /\ UNCHANGED <<gPerfRecords, capacity, idx, ret, site, stale, loaded, histVars>>

\* the threads that hold a pointer to a record
Users == {u \in Threads : tpc[u] \in {"lock", "update"}}

\* the rest of AddPerfRecord: the old records are freed if they were moved
RecordAdded(t) ==
  LET moved   == Len(gPerfRecords) = capacity
      changed == gPerfRecords # SubSeq(copy, 1, Len(gPerfRecords))
      locked  == \E i \in DOMAIN copy : copy[i].mutex # NoThread
  IN
  /\ Goes(t, "copy", "static")
  /\ gPerfRecords' = IF moved THEN copy ELSE Append(gPerfRecords, copy[Len(copy)])
  /\ capacity' = IF ~moved THEN capacity ELSE IF capacity = 0 THEN 1 ELSE 2 * capacity
  /\ stale' = IF moved THEN stale \cup Users ELSE stale
  /\ overtaken' = (overtaken \/ (moved /\ (changed \/ locked \/ Users # {})))
  /\ copy' = <<>>
  /\ ret' = [ret EXCEPT ![t] = Len(gPerfRecords')]
  /\ gPerfMutex' = NoThread
  /\ UNCHANGED <<idx, guard, site, loaded, shown, updates>>

\* mutant: the size of the vector is read after the mutex was unlocked
ReturnsLatest(t) == Len(gPerfRecords)

\* others may have added records since ret_idx was read
ReturnedIndex(t) == ret[t]

StaticSet(t) ==
  /\ Goes(t, "static", "index")
  /\ idx' = [idx EXCEPT ![site[t]] = ReturnedIndex(t)]
  /\ guard' = [guard EXCEPT ![site[t]] = NoThread]
  /\ ret' = [ret EXCEPT ![t] = 0]
  /\ UNCHANGED <<gPerfRecords, capacity, copy, gPerfMutex, site, stale, loaded, histVars>>

-----------------------------------------------------------------------------
(***************************************************************************)
(* TIMER_END: GetPerfRecord and Update.                                    *)
(***************************************************************************)
\* gPerfMutex is not taken; the index is there by now, so the pointer is not null
GetPerfRecord(t) ==
  /\ Goes(t, "index", "lock")
  /\ idx[site[t]] # 0
  /\ UNCHANGED <<recVars, site, stale, loaded, histVars>>

Mine(t) == idx[site[t]]

\* mutant: the mutex is not looked at
LockAny(t) ==
  /\ t \notin stale
  /\ Goes(t, "lock", "update")
  /\ gPerfRecords' = [gPerfRecords EXCEPT ![Mine(t)].mutex = t]
  /\ loaded' = [loaded EXCEPT ![t] = gPerfRecords[Mine(t)].calls]
  /\ UNCHANGED <<capacity, copy, gPerfMutex, idx, guard, ret, site, stale, histVars>>

LockRecord(t) ==
  /\ t \notin stale
  /\ Goes(t, "lock", "update")
  /\ gPerfRecords[Mine(t)].mutex = NoThread
  /\ gPerfRecords' = [gPerfRecords EXCEPT ![Mine(t)].mutex = t]
  /\ loaded' = [loaded EXCEPT ![t] = gPerfRecords[Mine(t)].calls]
  /\ UNCHANGED <<capacity, copy, gPerfMutex, idx, guard, ret, site, stale, histVars>>

EndOfTimer(t) ==
  /\ tpc' = [tpc EXCEPT ![t] = "idle"]
  /\ site' = [site EXCEPT ![t] = NoSite]
  /\ loaded' = [loaded EXCEPT ![t] = 0]
  /\ updates' = [updates EXCEPT ![site[t]] = @ + 1]
  /\ UNCHANGED <<capacity, copy, gPerfMutex, idx, guard, ret, shown, overtaken>>

Update(t) ==
  /\ tpc[t] = "update"
  /\ t \notin stale
  /\ gPerfRecords' = [gPerfRecords EXCEPT ![Mine(t)] =
                        [@ EXCEPT !.calls = loaded[t] + 1, !.mutex = NoThread]]
  /\ EndOfTimer(t)
  /\ UNCHANGED stale

\* what is done to freed memory is not seen again; the thread may not return from it
UpdateFreed(t) ==
  /\ t \in stale
  /\ stale' = stale \ {t}
  /\ EndOfTimer(t)
  /\ UNCHANGED gPerfRecords

-----------------------------------------------------------------------------
(***************************************************************************)
(* The pages: the mutexes of the records are not taken.                    *)
(* gPerfMutex is never held for longer than some steps of its holder, so a *)
(* page that waits for it is one that is asked for later.                  *)
(***************************************************************************)
BeginPage(t) ==
  /\ Goes(t, "idle", "page")
  /\ gPerfMutex = NoThread
  /\ gPerfMutex' = t
  /\ UNCHANGED <<gPerfRecords, capacity, copy, idx, guard, ret, site, stale, loaded, histVars>>

RecordOf(s) == CHOOSE i \in DOMAIN gPerfRecords : gPerfRecords[i].site = s

ShowRecords ==
  shown' = [s \in Sites |-> IF \E r \in DOMAIN gPerfRecords : gPerfRecords[r].site = s
                            THEN gPerfRecords[RecordOf(s)].calls
                            ELSE shown[s]]

\* every record is read; the later, the more it shows
EndPage(t) ==
  /\ Goes(t, "page", "idle")
  /\ gPerfMutex' = NoThread
  /\ ShowRecords
  /\ UNCHANGED <<gPerfRecords, capacity, copy, idx, guard, ret, site, stale, loaded, updates,
                 overtaken>>

\* the steps that end a call once it has begun
Proceeds(t) ==
  \/ AddRecord(t) \/ RecordAdded(t) \/ StaticSet(t)
  \/ GetPerfRecord(t) \/ LockRecord(t) \/ Update(t) \/ UpdateFreed(t)
  \/ EndPage(t)

StatsNext ==
  \E t \in Threads : Proceeds(t) \/ BeginPage(t) \/ \E s \in Sites : TimerEnd(t, s)

StatsSpec == StatsInit /\ [][StatsNext]_statVars

-----------------------------------------------------------------------------
\* The index of a place is that of its own record, though it is kept outside the mutex
\* while other threads add records and the vector is moved, and assigned later.
IndexIsOwn ==
  /\ \A s \in Sites : idx[s] # 0 => gPerfRecords[idx[s]].site = s
  /\ \A t \in Threads : tpc[t] = "static" =>
       ret[t] \in DOMAIN gPerfRecords /\ gPerfRecords[ret[t]].site = site[t]

\* As long as no record was moved under a thread that used it, no call is missing,
\* and a mutex that is locked is held by a thread that will unlock it.
CallsCounted ==
  overtaken \/
    \A i \in DOMAIN gPerfRecords :
      /\ gPerfRecords[i].calls = updates[gPerfRecords[i].site]
      /\ gPerfRecords[i].mutex # NoThread =>
           /\ tpc[gPerfRecords[i].mutex] = "update"
           /\ site[gPerfRecords[i].mutex] = gPerfRecords[i].site

\* server_stats.cpp:166, "# TYPE server_perf_calls_total counter": what a page has
\* shown never goes down, even when the records are moved while they are written.
CountersNeverDrop ==
  \A i \in DOMAIN gPerfRecords : gPerfRecords[i].calls >= shown[gPerfRecords[i].site]
=============================================================================
