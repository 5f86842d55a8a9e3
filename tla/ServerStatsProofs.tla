------------------------- MODULE ServerStatsProofs --------------------------
(***************************************************************************)
(* Proofs about ServerStats, for any threads and any places that take the  *)
(* time.                                                                   *)
(***************************************************************************)
EXTENDS ServerStats, SequenceTheorems, TLAPS

-----------------------------------------------------------------------------
(***************************************************************************)
(* The inductive invariant, in parts.                                      *)
(***************************************************************************)
HasRecord(s) == \E i \in DOMAIN gPerfRecords : gPerfRecords[i].site = s

\* gPerfMutex is held by the thread that adds a record or makes a page
MutexInv == \A t \in Threads : tpc[t] \in {"copy", "page"} <=> gPerfMutex = t

\* the thread that initialises a static, and those that have seen it initialised
StaticInv ==
  /\ \A t \in Threads :
       tpc[t] \in {"index", "copy", "static", "lock", "update"} => site[t] \in Sites
  /\ \A t \in Threads : tpc[t] \in {"copy", "static"} => guard[site[t]] = t /\ idx[site[t]] = 0
  /\ \A t \in Threads : tpc[t] \in {"lock", "update"} => idx[site[t]] # 0
  /\ stale \subseteq Users

\* a place has one record
SiteOnce ==
  \A i, j \in DOMAIN gPerfRecords : gPerfRecords[i].site = gPerfRecords[j].site => i = j

\* it has it between the push_back and the assignment to the static, and after
RecordInv ==
  /\ IndexIsOwn /\ SiteOnce
  /\ \A s \in Sites : HasRecord(s) =>
       \/ idx[s] # 0
       \/ guard[s] \in Threads /\ tpc[guard[s]] = "static" /\ site[guard[s]] = s

\* the copy of the records is behind them, but not behind what was shown
CopyInv ==
  \A t \in Threads : tpc[t] = "copy" =>
    /\ Len(copy) = Len(gPerfRecords) + 1
    /\ copy[Len(copy)] = [site |-> site[t], calls |-> 0, mutex |-> NoThread]
    /\ \A i \in DOMAIN gPerfRecords :
         /\ copy[i].site = gPerfRecords[i].site
         /\ copy[i].calls >= shown[copy[i].site]

\* whoever has locked a record that is not freed is alone with it
LockInv ==
  \A t \in Threads : tpc[t] = "update" /\ t \notin stale =>
    /\ gPerfRecords[Mine(t)].mutex = t
    /\ loaded[t] = gPerfRecords[Mine(t)].calls

CountInv ==
  /\ CallsCounted
  /\ overtaken \/
       /\ stale = {}
       /\ \A s \in Sites : ~HasRecord(s) => updates[s] = 0

ShownInv ==
  /\ CountersNeverDrop
  /\ \A s \in Sites : ~HasRecord(s) => shown[s] = 0

StatsInv ==
  /\ StatsTypeOK
  /\ MutexInv /\ StaticInv /\ RecordInv
  /\ CopyInv /\ LockInv /\ CountInv /\ ShownInv
-----------------------------------------------------------------------------
LEMMA StatsInitInv == StatsInit => StatsInv
<1> SUFFICES ASSUME StatsInit PROVE StatsInv
  OBVIOUS
<1>1. DOMAIN gPerfRecords = {} /\ gPerfRecords \in Seq(Records) /\ Len(gPerfRecords) = 0
  BY DEF StatsInit
<1>2. StatsTypeOK
  <2>1. copy \in Seq(Records) /\ 0 \in 0 .. Len(gPerfRecords) /\ Len(gPerfRecords) <= capacity
    BY <1>1 DEF StatsInit
  <2>2. QED
    BY <1>1, <2>1, StatsAssumption DEF StatsInit, StatsTypeOK
<1>3. \A s \in Sites : ~HasRecord(s)
  BY <1>1 DEF HasRecord
<1>4. MutexInv /\ StaticInv /\ RecordInv
  BY <1>1, <1>3, StatsAssumption
  DEF StatsInit, MutexInv, StaticInv, RecordInv, IndexIsOwn, SiteOnce, Users
<1>5. CopyInv /\ LockInv
  BY DEF StatsInit, CopyInv, LockInv
<1>6. CountInv /\ ShownInv
  BY <1>1, <1>3 DEF StatsInit, CountInv, ShownInv, CallsCounted, CountersNeverDrop
<1>7. QED
  BY <1>2, <1>4, <1>5, <1>6 DEF StatsInv

LEMMA TimerEndInv ==
  ASSUME StatsInv, NEW t \in Threads, NEW s \in Sites, TimerEnd(t, s)
  PROVE  StatsInv'
<1> USE StatsAssumption DEF StatsInv, StatsTypeOK, Goes, TimerEnd, recVars, histVars
<1>1. StatsTypeOK'
  OBVIOUS
<1>2. MutexInv'
  BY DEF MutexInv
<1>3. StaticInv'
  BY DEF StaticInv, Users
<1>4. RecordInv'
  BY DEF RecordInv, IndexIsOwn, SiteOnce, HasRecord
<1>5. CopyInv'
  BY DEF CopyInv
<1>6. LockInv'
  BY DEF LockInv, Mine
<1>7. CountInv'
  BY DEF CountInv, CallsCounted, HasRecord, StaticInv, LockInv
<1>8. ShownInv'
  BY DEF ShownInv, CountersNeverDrop, HasRecord
<1>9. QED
  BY <1>1, <1>2, <1>3, <1>4, <1>5, <1>6, <1>7, <1>8

LEMMA StaticSetInv ==
  ASSUME StatsInv, NEW t \in Threads, StaticSet(t)
  PROVE  StatsInv'
<1> USE StatsAssumption DEF StatsInv, StatsTypeOK, Goes, StaticSet, recVars, histVars
<1> DEFINE j == ReturnedIndex(t)
<1>0. j \in DOMAIN gPerfRecords /\ j \in 1 .. Len(gPerfRecords) /\ gPerfRecords[j].site = site[t]
  BY DEF ReturnedIndex, RecordInv, IndexIsOwn
<1> HIDE DEF j
<1>a. idx' = [idx EXCEPT ![site[t]] = j] /\ j # 0
  BY <1>0 DEF j
<1>b. idx' \in [Sites -> 0 .. Len(gPerfRecords)]
  <2>1. Len(gPerfRecords) \in Nat /\ j \in 0 .. Len(gPerfRecords)
    BY <1>0
  <2>2. QED
    BY <1>a, <2>1
<1>1. StatsTypeOK'
  BY <1>b
<1>2. MutexInv'
  BY DEF MutexInv
<1>3. StaticInv'
  BY <1>a DEF StaticInv, Users
<1>4. RecordInv'
  <2>1. SiteOnce' /\ \A s \in Sites : HasRecord(s)' <=> HasRecord(s)
    BY DEF RecordInv, SiteOnce, HasRecord
  <2>2. \A u \in Threads : tpc'[u] = "static" => u # t /\ tpc[u] = "static" /\ ret'[u] = ret[u]
    OBVIOUS
  <2>3. \A s \in Sites : idx'[s] = IF s = site[t] THEN j ELSE idx[s]
    BY <1>a DEF StaticInv
  <2>4. IndexIsOwn'
    BY <1>0, <2>2, <2>3 DEF RecordInv, IndexIsOwn
  <2>5. \A s \in Sites : s # site[t] => guard'[s] = guard[s] /\ idx'[s] = idx[s]
    BY <2>3
  <2>6. QED
    BY <1>0, <1>a, <2>1, <2>2, <2>3, <2>4, <2>5 DEF RecordInv, StaticInv
<1>5. CopyInv'
  BY DEF CopyInv
<1>6. LockInv'
  BY DEF LockInv, Mine, StaticInv
<1>7. CountInv'
  BY DEF CountInv, CallsCounted, HasRecord, StaticInv, LockInv
<1>8. ShownInv'
  BY DEF ShownInv, CountersNeverDrop, HasRecord
<1>9. QED
  BY <1>1, <1>2, <1>3, <1>4, <1>5, <1>6, <1>7, <1>8

LEMMA GetPerfRecordInv ==
  ASSUME StatsInv, NEW t \in Threads, GetPerfRecord(t)
  PROVE  StatsInv'
<1> USE StatsAssumption DEF StatsInv, StatsTypeOK, Goes, GetPerfRecord, recVars, histVars
<1>1. StatsTypeOK'
  OBVIOUS
<1>2. MutexInv'
  BY DEF MutexInv
<1>3. StaticInv'
  BY DEF StaticInv, Users
<1>4. RecordInv'
  BY DEF RecordInv, IndexIsOwn, SiteOnce, HasRecord
<1>5. CopyInv'
  BY DEF CopyInv
<1>6. LockInv'
  BY DEF LockInv, Mine
<1>7. CountInv'
  BY DEF CountInv, CallsCounted, HasRecord, StaticInv, LockInv
<1>8. ShownInv'
  BY DEF ShownInv, CountersNeverDrop, HasRecord
<1>9. QED
  BY <1>1, <1>2, <1>3, <1>4, <1>5, <1>6, <1>7, <1>8

LEMMA BeginPageInv ==
  ASSUME StatsInv, NEW t \in Threads, BeginPage(t)
  PROVE  StatsInv'
<1> USE StatsAssumption DEF StatsInv, StatsTypeOK, Goes, BeginPage, recVars, histVars
<1>1. StatsTypeOK'
  OBVIOUS
<1>2. MutexInv'
  BY DEF MutexInv
<1>3. StaticInv'
  BY DEF StaticInv, Users
<1>4. RecordInv'
  BY DEF RecordInv, IndexIsOwn, SiteOnce, HasRecord
<1>5. CopyInv'
  BY DEF CopyInv
<1>6. LockInv'
  BY DEF LockInv, Mine
<1>7. CountInv'
  BY DEF CountInv, CallsCounted, HasRecord, StaticInv, LockInv
<1>8. ShownInv'
  BY DEF ShownInv, CountersNeverDrop, HasRecord
<1>9. QED
  BY <1>1, <1>2, <1>3, <1>4, <1>5, <1>6, <1>7, <1>8

\* what it means to write one record
LEMMA RecordWritten ==
  ASSUME NEW rs \in Seq(Records), NEW k \in 1 .. Len(rs), NEW r \in Records,
         r.site = rs[k].site
  PROVE  LET new == [rs EXCEPT ![k] = r] IN
         /\ new \in Seq(Records)
         /\ Len(new) = Len(rs) /\ DOMAIN new = DOMAIN rs /\ DOMAIN rs = 1 .. Len(rs)
         /\ new[k] = r
         /\ \A i \in DOMAIN rs : i # k => new[i] = rs[i]
         /\ \A i \in DOMAIN rs : new[i].site = rs[i].site
BY ExceptSeq

LEMMA UpdateFreedInv ==
  ASSUME StatsInv, NEW t \in Threads, UpdateFreed(t)
  PROVE  StatsInv'
<1> USE StatsAssumption DEF StatsInv, StatsTypeOK, UpdateFreed, EndOfTimer
<1>0. tpc[t] \in {"lock", "update"} /\ site[t] \in Sites /\ overtaken
  BY DEF StaticInv, Users, CountInv
<1>1. StatsTypeOK'
  BY <1>0
<1>2. MutexInv'
  BY <1>0 DEF MutexInv
<1>3. StaticInv'
  BY DEF StaticInv, Users
<1>4. RecordInv'
  <2>1. IndexIsOwn' /\ SiteOnce' /\ \A s \in Sites : HasRecord(s)' <=> HasRecord(s)
    BY DEF RecordInv, IndexIsOwn, SiteOnce, HasRecord
  <2>2. \A u \in Threads : u # t => tpc'[u] = tpc[u] /\ site'[u] = site[u]
    OBVIOUS
  <2>3. tpc'[t] = "idle" /\ \A s \in Sites : guard[s] = t => tpc[guard[s]] # "static"
    BY <1>0
  <2>4. QED
    BY <2>1, <2>2, <2>3 DEF RecordInv
<1>5. CopyInv'
  BY DEF CopyInv
<1>6. LockInv'
  BY DEF LockInv, Mine
<1>7. CountInv'
  BY <1>0 DEF CountInv, CallsCounted
<1>8. ShownInv'
  BY DEF ShownInv, CountersNeverDrop, HasRecord
<1>9. QED
  BY <1>1, <1>2, <1>3, <1>4, <1>5, <1>6, <1>7, <1>8

LEMMA LockRecordInv ==
  ASSUME StatsInv, NEW t \in Threads, LockRecord(t)
  PROVE  StatsInv'
<1> USE StatsAssumption DEF StatsInv, StatsTypeOK, Goes, LockRecord, histVars
<1> DEFINE k == Mine(t)
           r == [gPerfRecords[k] EXCEPT !.mutex = t]
<1>0. k \in 1 .. Len(gPerfRecords) /\ site[t] \in Sites /\ gPerfRecords[k].site = site[t]
  BY DEF StaticInv, Mine, RecordInv, IndexIsOwn, SiteOnce
<1>a. /\ gPerfRecords[k] \in Records /\ r \in Records /\ r.site = gPerfRecords[k].site
      /\ r.mutex = t /\ r.calls = gPerfRecords[k].calls
  <2>1. gPerfRecords[k] \in Records
    BY <1>0, ElementOfSeq
  <2>2. QED
    BY <2>1 DEF Records
<1>b. gPerfRecords' = [gPerfRecords EXCEPT ![k] = r] /\ gPerfRecords[k].mutex = NoThread
  OBVIOUS
<1>c. loaded' = [loaded EXCEPT ![t] = gPerfRecords[k].calls] /\ gPerfRecords[k].calls \in Nat
  BY <1>a DEF Records
<1> HIDE DEF k, r
<1>d. /\ gPerfRecords' \in Seq(Records)
      /\ Len(gPerfRecords') = Len(gPerfRecords)
      /\ DOMAIN gPerfRecords' = DOMAIN gPerfRecords /\ DOMAIN gPerfRecords = 1 .. Len(gPerfRecords)
      /\ gPerfRecords'[k] = r
      /\ \A i \in DOMAIN gPerfRecords : i # k => gPerfRecords'[i] = gPerfRecords[i]
      /\ \A i \in DOMAIN gPerfRecords : gPerfRecords'[i].site = gPerfRecords[i].site
      /\ \A i \in DOMAIN gPerfRecords : gPerfRecords'[i].calls = gPerfRecords[i].calls
  <2>1. gPerfRecords \in Seq(Records)
    OBVIOUS
  <2> HIDE DEF StatsInv, StatsTypeOK, Goes, LockRecord, histVars
  <2>2. QED
    BY <1>0, <1>a, <1>b, <2>1, RecordWritten
<1>1. StatsTypeOK'
  BY <1>c, <1>d
<1>2. MutexInv'
  BY DEF MutexInv
<1>3. StaticInv'
  BY DEF StaticInv, Users
<1>4. RecordInv'
  BY <1>d DEF RecordInv, IndexIsOwn, SiteOnce, HasRecord
<1>5. CopyInv'
  BY <1>d DEF CopyInv
<1>6. LockInv'
  <2> SUFFICES ASSUME NEW u \in Threads, tpc'[u] = "update", u \notin stale
               PROVE  /\ gPerfRecords'[idx[site[u]]].mutex = u
                      /\ loaded'[u] = gPerfRecords'[idx[site[u]]].calls
    BY DEF LockInv, Mine
  <2>1. CASE u = t
    BY <1>a, <1>c, <1>d, <1>0, <2>1 DEF k, Mine
  <2>2. CASE u # t
    <3>1. gPerfRecords[idx[site[u]]].mutex = u /\ loaded[u] = gPerfRecords[idx[site[u]]].calls
      BY <2>2 DEF LockInv, Mine
    <3>2. idx[site[u]] \in DOMAIN gPerfRecords /\ idx[site[u]] # k
      BY <1>b, <1>d, <2>2, <3>1 DEF StaticInv
    <3>3. QED
      BY <1>c, <1>d, <2>2, <3>1, <3>2
  <2>3. QED
    BY <2>1, <2>2
<1>7. CountInv'
  <2>1. CASE overtaken
    BY <2>1 DEF CountInv, CallsCounted
  <2>2. CASE ~overtaken
    <3>1. \A s \in Sites : HasRecord(s)' <=> HasRecord(s)
      BY <1>d DEF HasRecord
    <3>2. ASSUME NEW i \in DOMAIN gPerfRecords
          PROVE  /\ gPerfRecords'[i].calls = updates[gPerfRecords[i].site]
                 /\ gPerfRecords'[i].mutex # NoThread =>
                      /\ tpc'[gPerfRecords'[i].mutex] = "update"
                      /\ site[gPerfRecords'[i].mutex] = gPerfRecords[i].site
      <4>1. CASE i = k
        BY <1>0, <1>a, <1>d, <2>2, <4>1 DEF CountInv, CallsCounted
      <4>2. CASE i # k
        <5>1. gPerfRecords[i].mutex \in Threads \cup {NoThread}
          <6>1. gPerfRecords[i] \in Records
            BY <1>d, ElementOfSeq
          <6>2. QED
            BY <6>1 DEF Records
        <5>2. QED
          BY <1>d, <2>2, <4>2, <5>1 DEF CountInv, CallsCounted
      <4>3. QED
        BY <4>1, <4>2
    <3>3. QED
      BY <1>d, <2>2, <3>1, <3>2 DEF CountInv, CallsCounted
  <2>3. QED
    BY <2>1, <2>2
<1>8. ShownInv'
  BY <1>d DEF ShownInv, CountersNeverDrop, HasRecord
<1>9. QED
  BY <1>1, <1>2, <1>3, <1>4, <1>5, <1>6, <1>7, <1>8

LEMMA UpdateInv ==
  ASSUME StatsInv, NEW t \in Threads, Update(t)
  PROVE  StatsInv'
<1> USE StatsAssumption DEF StatsInv, StatsTypeOK, Update, EndOfTimer
<1> DEFINE k == Mine(t)
           r == [gPerfRecords[k] EXCEPT !.calls = loaded[t] + 1, !.mutex = NoThread]
<1>0. k \in 1 .. Len(gPerfRecords) /\ site[t] \in Sites /\ gPerfRecords[k].site = site[t]
  BY DEF StaticInv, Mine, RecordInv, IndexIsOwn, SiteOnce
<1>a. /\ gPerfRecords[k] \in Records /\ r \in Records /\ r.site = gPerfRecords[k].site
      /\ r.mutex = NoThread /\ r.calls = gPerfRecords[k].calls + 1
      /\ gPerfRecords[k].mutex = t /\ gPerfRecords[k].calls \in Nat
  <2>1. gPerfRecords[k] \in Records
    BY <1>0, ElementOfSeq
  <2>2. gPerfRecords[k].mutex = t /\ loaded[t] = gPerfRecords[k].calls /\ loaded[t] + 1 \in Nat
    BY DEF LockInv, Mine
  <2> HIDE DEF k
  <2>3. QED
    BY <2>1, <2>2 DEF Records
<1>b. gPerfRecords' = [gPerfRecords EXCEPT ![k] = r]
  OBVIOUS
<1> HIDE DEF k, r
<1>d. /\ gPerfRecords' \in Seq(Records)
      /\ Len(gPerfRecords') = Len(gPerfRecords)
      /\ DOMAIN gPerfRecords' = DOMAIN gPerfRecords /\ DOMAIN gPerfRecords = 1 .. Len(gPerfRecords)
      /\ gPerfRecords'[k] = r
      /\ \A i \in DOMAIN gPerfRecords : i # k => gPerfRecords'[i] = gPerfRecords[i]
      /\ \A i \in DOMAIN gPerfRecords : gPerfRecords'[i].site = gPerfRecords[i].site
  <2>1. gPerfRecords \in Seq(Records)
    OBVIOUS
  <2> HIDE DEF StatsInv, StatsTypeOK, Update, EndOfTimer
  <2>2. QED
    BY <1>0, <1>a, <1>b, <2>1, RecordWritten
<1>e. \A s \in Sites : HasRecord(s)' <=> HasRecord(s)
  BY <1>d DEF HasRecord
<1>f. /\ tpc'[t] = "idle" /\ tpc[t] = "update"
      /\ \A u \in Threads : u # t => tpc'[u] = tpc[u] /\ site'[u] = site[u]
      /\ updates' = [updates EXCEPT ![site[t]] = @ + 1] /\ updates[site[t]] \in Nat
  BY <1>0
<1>1. StatsTypeOK'
  <2>1. updates' \in [Sites -> Nat] /\ loaded' \in [Threads -> Nat]
    <3>1. updates' = [updates EXCEPT ![site[t]] = updates[site[t]] + 1]
      BY <1>f
    <3>2. updates[site[t]] + 1 \in Nat /\ updates \in [Sites -> Nat]
      BY <1>f
    <3>3. updates' \in [Sites -> Nat]
      <4> HIDE DEF StatsInv, StatsTypeOK, Update, EndOfTimer
      <4>1. QED
        BY <3>1, <3>2
    <3>4. loaded' \in [Threads -> Nat]
      OBVIOUS
    <3>5. QED
      BY <3>3, <3>4
  <2>2. QED
    BY <1>d, <2>1
<1>2. MutexInv'
  BY DEF MutexInv
<1>3. StaticInv'
  BY DEF StaticInv, Users
<1>4. RecordInv'
  <2>1. IndexIsOwn' /\ SiteOnce'
    BY <1>d, <1>f DEF RecordInv, IndexIsOwn, SiteOnce
  <2>2. \A s \in Sites : guard[s] = t => tpc[guard[s]] # "static"
    BY <1>f
  <2>3. QED
    BY <1>e, <1>f, <2>1, <2>2 DEF RecordInv
<1>5. CopyInv'
  BY <1>d DEF CopyInv
<1>6. LockInv'
  <2> SUFFICES ASSUME NEW u \in Threads, u # t, tpc[u] = "update", u \notin stale
               PROVE  /\ gPerfRecords'[idx[site[u]]].mutex = u
                      /\ loaded'[u] = gPerfRecords'[idx[site[u]]].calls
    BY <1>f DEF LockInv, Mine
  <2>1. gPerfRecords[idx[site[u]]].mutex = u /\ loaded[u] = gPerfRecords[idx[site[u]]].calls
    BY DEF LockInv, Mine
  <2>2. idx[site[u]] \in DOMAIN gPerfRecords /\ idx[site[u]] # k
    BY <1>a, <1>d, <2>1 DEF StaticInv
  <2>3. QED
    BY <1>d, <2>1, <2>2
<1>7. CountInv'
  <2>1. CASE overtaken
    BY <2>1 DEF CountInv, CallsCounted
  <2>2. CASE ~overtaken
    <3>1. stale' = {} /\ HasRecord(site[t])
      BY <1>0, <1>d, <2>2 DEF CountInv, HasRecord
    <3>2. \A s \in Sites : ~HasRecord(s)' => updates'[s] = 0
      BY <1>e, <1>f, <2>2, <3>1 DEF CountInv
    <3>3. ASSUME NEW i \in DOMAIN gPerfRecords
          PROVE  /\ gPerfRecords'[i].calls = updates'[gPerfRecords[i].site]
                 /\ gPerfRecords'[i].mutex # NoThread =>
                      /\ tpc'[gPerfRecords'[i].mutex] = "update"
                      /\ site'[gPerfRecords'[i].mutex] = gPerfRecords[i].site
      <4>1. gPerfRecords[i] \in Records
        BY <1>d, ElementOfSeq
      <4>2. CASE i = k
        <5>1. gPerfRecords[k].calls = updates[site[t]]
          BY <1>0, <1>d, <2>2 DEF CountInv, CallsCounted
        <5>2. updates'[site[t]] = updates[site[t]] + 1
          BY <1>0, <1>f
        <5>3. QED
          BY <1>0, <1>a, <1>d, <4>2, <5>1, <5>2
      <4>3. CASE i # k
        <5>1. gPerfRecords[i].site # site[t] /\ gPerfRecords'[i] = gPerfRecords[i]
          BY <1>0, <1>d, <4>3 DEF RecordInv, IndexIsOwn, SiteOnce
        <5>2. gPerfRecords[i].mutex \in Threads \cup {NoThread} /\ gPerfRecords[i].site \in Sites
          BY <4>1 DEF Records
        <5>3. gPerfRecords[i].calls = updates[gPerfRecords[i].site]
          BY <2>2 DEF CountInv, CallsCounted
        <5>4. gPerfRecords[i].mutex # NoThread =>
                /\ tpc[gPerfRecords[i].mutex] = "update"
                /\ site[gPerfRecords[i].mutex] = gPerfRecords[i].site
          BY <2>2 DEF CountInv, CallsCounted
        <5>5. updates'[gPerfRecords[i].site] = updates[gPerfRecords[i].site]
          BY <1>f, <5>1, <5>2
        <5>6. gPerfRecords[i].mutex # NoThread => gPerfRecords[i].mutex # t
          BY <5>1, <5>4
        <5> HIDE DEF StatsInv, StatsTypeOK, Update, EndOfTimer
        <5>7. QED
          BY <1>f, <5>1, <5>2, <5>3, <5>4, <5>5, <5>6
      <4>4. QED
        BY <4>2, <4>3
    <3>4. QED
      BY <1>d, <2>2, <3>1, <3>2, <3>3 DEF CountInv, CallsCounted
  <2>3. QED
    BY <2>1, <2>2
<1>8. ShownInv'
  <2>1. ASSUME NEW i \in DOMAIN gPerfRecords
        PROVE  gPerfRecords'[i].calls >= shown[gPerfRecords[i].site]
    <3>1. gPerfRecords[i] \in Records /\ gPerfRecords[i].calls >= shown[gPerfRecords[i].site]
      BY <1>d, ElementOfSeq DEF ShownInv, CountersNeverDrop
    <3>2. gPerfRecords[i].calls \in Nat /\ shown[gPerfRecords[i].site] \in Nat
      BY <3>1 DEF Records
    <3>3. CASE i = k
      <4>1. gPerfRecords'[i].calls = gPerfRecords[i].calls + 1
        BY <1>a, <1>d, <3>3
      <4>2. QED
        BY <3>1, <3>2, <4>1
    <3>4. CASE i # k
      BY <1>d, <3>1, <3>4
    <3>5. QED
      BY <3>3, <3>4
  <2>2. QED
    BY <1>d, <1>e, <2>1 DEF ShownInv, CountersNeverDrop
<1>9. QED
  BY <1>1, <1>2, <1>3, <1>4, <1>5, <1>6, <1>7, <1>8

LEMMA EndPageInv ==
  ASSUME StatsInv, NEW t \in Threads, EndPage(t)
  PROVE  StatsInv'
<1> USE StatsAssumption DEF StatsInv, StatsTypeOK, Goes, EndPage
<1>0. ASSUME NEW s \in Sites
      PROVE  /\ ~HasRecord(s) => shown'[s] = shown[s]
             /\ \A i \in DOMAIN gPerfRecords :
                  gPerfRecords[i].site = s => shown'[s] = gPerfRecords[i].calls
  <2>1. CASE ~HasRecord(s)
    BY <2>1 DEF ShowRecords, HasRecord
  <2>2. CASE HasRecord(s)
    <3>1. RecordOf(s) \in DOMAIN gPerfRecords /\ gPerfRecords[RecordOf(s)].site = s
      BY <2>2 DEF RecordOf, HasRecord
    <3>2. \A i \in DOMAIN gPerfRecords : gPerfRecords[i].site = s => i = RecordOf(s)
      BY <3>1 DEF RecordInv, IndexIsOwn, SiteOnce
    <3>3. shown'[s] = gPerfRecords[RecordOf(s)].calls
      BY <2>2 DEF ShowRecords, HasRecord
    <3>4. QED
      BY <2>2, <3>2, <3>3
  <2>3. QED
    BY <2>1, <2>2
<1>a. ASSUME NEW i \in DOMAIN gPerfRecords
      PROVE  gPerfRecords[i].site \in Sites /\ gPerfRecords[i].calls \in Nat
  <2>1. gPerfRecords[i] \in Records
    BY ElementOfSeq
  <2>2. QED
    BY <2>1 DEF Records
<1>1. StatsTypeOK'
  <2>1. \A s \in Sites : shown'[s] \in Nat
    BY <1>0, <1>a DEF HasRecord
  <2>2. shown' \in [Sites -> Nat]
    BY <2>1 DEF ShowRecords
  <2>3. QED
    BY <2>2
<1>2. MutexInv'
  BY DEF MutexInv
<1>3. StaticInv'
  BY DEF StaticInv, Users
<1>4. RecordInv'
  BY DEF RecordInv, IndexIsOwn, SiteOnce, HasRecord
<1>5. CopyInv'
  BY DEF CopyInv, MutexInv
<1>6. LockInv'
  BY DEF LockInv, Mine
<1>7. CountInv'
  BY DEF CountInv, CallsCounted, HasRecord
<1>8. ShownInv'
  <2>1. \A s \in Sites : HasRecord(s)' <=> HasRecord(s)
    BY DEF HasRecord
  <2>2. CountersNeverDrop'
    BY <1>0, <1>a DEF CountersNeverDrop
  <2>3. QED
    BY <1>0, <2>1, <2>2 DEF ShownInv
<1>9. QED
  BY <1>1, <1>2, <1>3, <1>4, <1>5, <1>6, <1>7, <1>8

\* what AddRecord prepares: the records, and a new one
LEMMA Prepared ==
  ASSUME StatsTypeOK, NEW x \in Records
  PROVE  LET c == Append([i \in DOMAIN gPerfRecords |-> Copied(gPerfRecords[i])], x) IN
         /\ c \in Seq(Records)
         /\ Len(c) = Len(gPerfRecords) + 1 /\ c[Len(c)] = x
         /\ \A i \in DOMAIN gPerfRecords : c[i] = gPerfRecords[i]
<1>1. gPerfRecords = [i \in DOMAIN gPerfRecords |-> Copied(gPerfRecords[i])]
  BY DEF StatsTypeOK, Copied
<1> DEFINE c == Append(gPerfRecords, x)
<1>2. /\ c \in Seq(Records)
      /\ Len(c) = Len(gPerfRecords) + 1 /\ c[Len(c)] = x
      /\ \A i \in DOMAIN gPerfRecords : c[i] = gPerfRecords[i]
  BY DEF StatsTypeOK
<1>3. QED
  BY <1>1, <1>2

LEMMA AddRecordInv ==
  ASSUME StatsInv, NEW t \in Threads, AddRecord(t)
  PROVE  StatsInv'
<1> USE StatsAssumption DEF StatsInv, StatsTypeOK, Goes, AddRecord, histVars
<1>0. tpc[t] = "index" /\ site[t] \in Sites /\ guard[site[t]] = NoThread /\ idx[site[t]] = 0
  BY DEF StaticInv
<1>a. /\ copy' \in Seq(Records)
      /\ Len(copy') = Len(gPerfRecords) + 1
      /\ copy'[Len(copy')] = [site |-> site[t], calls |-> 0, mutex |-> NoThread]
      /\ \A i \in DOMAIN gPerfRecords : copy'[i] = gPerfRecords[i]
  <2>1. [site |-> site[t], calls |-> 0, mutex |-> NoThread] \in Records
    BY <1>0 DEF Records
  <2>2. QED
    BY <2>1, Prepared
<1>b. guard' = [guard EXCEPT ![site[t]] = t] /\ guard' \in [Sites -> Threads \cup {NoThread}]
  BY <1>0
<1>1. StatsTypeOK'
  BY <1>a, <1>b
<1>2. MutexInv'
  BY DEF MutexInv
<1>3. StaticInv'
  BY <1>0 DEF StaticInv, Users
<1>4. RecordInv'
  <2>1. IndexIsOwn' /\ SiteOnce' /\ \A s \in Sites : HasRecord(s)' <=> HasRecord(s)
    BY DEF RecordInv, IndexIsOwn, SiteOnce, HasRecord
  <2>2. \A s \in Sites : guard[s] = t => tpc[guard[s]] # "static"
    BY <1>0
  <2>3. ~HasRecord(site[t])
    BY <1>0 DEF RecordInv
  <2>4. QED
    BY <1>0, <1>b, <2>1, <2>2, <2>3 DEF RecordInv
<1>5. CopyInv'
  <2>1. \A u \in Threads : tpc'[u] = "copy" => u = t
    BY <1>0 DEF MutexInv
  <2>2. \A i \in DOMAIN gPerfRecords : gPerfRecords[i].calls >= shown[gPerfRecords[i].site]
    BY DEF ShownInv, CountersNeverDrop
  <2>3. \A i \in DOMAIN gPerfRecords : /\ copy'[i].site = gPerfRecords[i].site
                                       /\ copy'[i].calls >= shown[copy'[i].site]
    BY <1>a, <2>2
  <2>4. QED
    BY <1>a, <2>1, <2>3 DEF CopyInv
<1>6. LockInv'
  BY DEF LockInv, Mine
<1>7. CountInv'
  BY <1>0 DEF CountInv, CallsCounted, HasRecord
<1>8. ShownInv'
  BY DEF ShownInv, CountersNeverDrop, HasRecord
<1>9. QED
  BY <1>1, <1>2, <1>3, <1>4, <1>5, <1>6, <1>7, <1>8

LEMMA RecordAddedInv ==
  ASSUME StatsInv, NEW t \in Threads, RecordAdded(t)
  PROVE  StatsInv'
<1> USE StatsAssumption DEF StatsInv, StatsTypeOK, Goes
<1> DEFINE n == Len(gPerfRecords)
           x == [site |-> site[t], calls |-> 0, mutex |-> NoThread]
           moved == n = capacity
<1>a. /\ tpc[t] = "copy" /\ tpc' = [tpc EXCEPT ![t] = "static"]
      /\ gPerfRecords' = IF moved THEN copy ELSE Append(gPerfRecords, copy[Len(copy)])
      /\ capacity' = IF ~moved THEN capacity ELSE IF capacity = 0 THEN 1 ELSE 2 * capacity
      /\ stale' = IF moved THEN stale \cup Users ELSE stale
      /\ overtaken \in BOOLEAN /\ overtaken' \in BOOLEAN
      /\ copy' = <<>>
      /\ ret' = [ret EXCEPT ![t] = Len(gPerfRecords')]
      /\ gPerfMutex' = NoThread
      /\ UNCHANGED <<idx, guard, site, loaded, shown, updates>>
  BY DEF RecordAdded
<1>b. /\ n \in Nat /\ DOMAIN gPerfRecords = 1 .. n
      /\ Len(copy) = n + 1 /\ copy[n + 1] = x
      /\ site[t] \in Sites /\ x \in Records
      /\ guard[site[t]] = t /\ idx[site[t]] = 0
  <2>1. site[t] \in Sites /\ guard[site[t]] = t /\ idx[site[t]] = 0
    BY <1>a DEF StaticInv
  <2>2. x \in Records
    BY <2>1 DEF Records
  <2>3. Len(copy) = n + 1 /\ copy[n + 1] = x
    BY <1>a DEF CopyInv
  <2>4. QED
    BY <2>1, <2>2, <2>3
<1>c. ~overtaken' =>
        /\ ~overtaken
        /\ moved => /\ gPerfRecords = SubSeq(copy, 1, n)
                    /\ \A i \in DOMAIN copy : copy[i].mutex = NoThread
                    /\ Users = {}
  BY DEF RecordAdded
<1>d. /\ gPerfRecords' \in Seq(Records)
      /\ Len(gPerfRecords') = n + 1
      /\ gPerfRecords'[n + 1] = x
      /\ \A i \in 1 .. n : /\ gPerfRecords'[i].site = gPerfRecords[i].site
                           /\ gPerfRecords'[i].calls >= shown[gPerfRecords[i].site]
      /\ ~moved => \A i \in 1 .. n : gPerfRecords'[i] = gPerfRecords[i]
  <2>1. CASE moved
    <3>1. \A i \in 1 .. n : /\ copy[i].site = gPerfRecords[i].site
                            /\ copy[i].calls >= shown[gPerfRecords[i].site]
      BY <1>a, <1>b DEF CopyInv
    <3>2. QED
      BY <1>a, <1>b, <2>1, <3>1
  <2>2. CASE ~moved
    <3>1. \A i \in 1 .. n : gPerfRecords[i].calls >= shown[gPerfRecords[i].site]
      BY <1>b DEF ShownInv, CountersNeverDrop
    <3>2. gPerfRecords' = Append(gPerfRecords, x)
      BY <1>a, <1>b, <2>2
    <3>3. /\ gPerfRecords' \in Seq(Records) /\ Len(gPerfRecords') = n + 1
          /\ gPerfRecords'[n + 1] = x
          /\ \A i \in 1 .. n : gPerfRecords'[i] = gPerfRecords[i]
      BY <1>b, <3>2, AppendProperties
    <3>4. QED
      BY <2>2, <3>1, <3>3
  <2>3. QED
    BY <2>1, <2>2
<1>e. ~overtaken' => \A i \in 1 .. n : gPerfRecords'[i] = gPerfRecords[i]
  <2>1. CASE moved
    <3>1. \A i \in 1 .. n : copy[i] \in Records
      BY <1>b
    <3>2. \A i \in 1 .. n - 1 + 1 : SubSeq(copy, 1, n)[i] = copy[1 + i - 1]
      BY <1>b, <3>1, SubSeqProperties
    <3>3. \A i \in 1 .. n : SubSeq(copy, 1, n)[i] = copy[i]
      BY <1>b, <3>2
    <3>4. QED
      BY <1>a, <1>c, <2>1, <3>3
  <2>2. QED
    BY <1>d, <2>1
<1>f. DOMAIN gPerfRecords' = 1 .. n + 1
  BY <1>d
<1>g. \A s \in Sites : HasRecord(s)' <=> HasRecord(s) \/ s = site[t]
  <2>1. \A i \in 1 .. n + 1 : i \in 1 .. n \/ i = n + 1
    BY <1>b
  <2>2. 1 .. n \subseteq 1 .. n + 1 /\ n + 1 \in 1 .. n + 1
    BY <1>b
  <2>3. gPerfRecords'[n + 1].site = site[t]
    BY <1>d
  <2> HIDE DEF n, x, moved, StatsInv, StatsTypeOK
  <2>4. QED
    BY <1>b, <1>d, <1>f, <2>1, <2>2, <2>3 DEF HasRecord
<1>h. ~HasRecord(site[t])
  BY <1>a, <1>b DEF RecordInv
<1> HIDE DEF n, moved
<1>1. StatsTypeOK'
  <2>1. capacity' \in Nat /\ n + 1 <= capacity'
    <3>1. capacity \in Nat /\ n <= capacity
      BY DEF n
    <3>2. QED
      BY <1>a, <1>b, <3>1 DEF moved
  <2>2. \A i \in 0 .. n : i \in 0 .. n + 1
    BY <1>b
  <2>3. idx' \in [Sites -> 0 .. Len(gPerfRecords')]
    BY <1>a, <1>d, <2>2 DEF n
  <2>4. stale' \subseteq Threads /\ copy' \in Seq(Records)
    BY <1>a DEF Users
  <2>5. QED
    BY <1>a, <1>d, <2>1, <2>3, <2>4
<1>2. MutexInv'
  BY <1>a DEF MutexInv
<1>3. StaticInv'
  BY <1>a, <1>b DEF StaticInv, Users
<1>4. RecordInv'
  <2>1. ASSUME NEW i \in 1 .. n + 1, NEW k \in 1 .. n + 1,
               gPerfRecords'[i].site = gPerfRecords'[k].site
        PROVE  i = k
    <3>1. \A m \in 1 .. n : gPerfRecords'[m].site # site[t]
      BY <1>b, <1>d, <1>h DEF HasRecord
    <3>2. i \in 1 .. n \/ i = n + 1
      BY <1>b
    <3>3. k \in 1 .. n \/ k = n + 1
      BY <1>b
    <3>4. gPerfRecords'[n + 1].site = site[t]
      BY <1>d
    <3>5. CASE i \in 1 .. n /\ k \in 1 .. n
      <4>1. gPerfRecords[i].site = gPerfRecords[k].site
        BY <1>d, <2>1, <3>5
      <4>2. QED
        BY <1>b, <3>5, <4>1 DEF RecordInv, IndexIsOwn, SiteOnce
    <3>6. QED
      BY <2>1, <3>1, <3>2, <3>3, <3>4, <3>5
  <2>2. ASSUME NEW s \in Sites, idx[s] # 0
        PROVE  gPerfRecords'[idx[s]].site = s
    <3>1. idx[s] \in 1 .. n /\ gPerfRecords[idx[s]].site = s
      BY <1>b, <2>2 DEF RecordInv, IndexIsOwn, SiteOnce, n
    <3>2. QED
      BY <1>d, <3>1
  <2>3. SiteOnce'
    BY <1>f, <2>1 DEF SiteOnce
  <2>6. ASSUME NEW u \in Threads, tpc'[u] = "static"
        PROVE  ret'[u] \in 1 .. n + 1 /\ gPerfRecords'[ret'[u]].site = site[u]
    <3>1. CASE u = t
      BY <1>a, <1>b, <1>d, <3>1
    <3>2. CASE u # t
      <4>1. ret[u] \in 1 .. n /\ gPerfRecords[ret[u]].site = site[u] /\ ret'[u] = ret[u]
        BY <1>a, <1>b, <2>6, <3>2 DEF RecordInv, IndexIsOwn
      <4>2. QED
        BY <1>b, <1>d, <4>1
    <3>3. QED
      BY <3>1, <3>2
  <2>7. IndexIsOwn'
    BY <1>a, <1>f, <2>2, <2>6 DEF IndexIsOwn
  <2>4. \A s \in Sites : guard[s] = t => tpc[guard[s]] # "static"
    BY <1>a
  <2>5. QED
    BY <1>a, <1>b, <1>g, <1>h, <2>3, <2>4, <2>7 DEF RecordInv
<1>5. CopyInv'
  BY <1>a DEF CopyInv, MutexInv
<1>6. LockInv'
  <2> SUFFICES ASSUME NEW u \in Threads, u # t, tpc[u] = "update", u \notin stale'
               PROVE  /\ gPerfRecords'[idx[site[u]]].mutex = u
                      /\ loaded[u] = gPerfRecords'[idx[site[u]]].calls
    BY <1>a DEF LockInv, Mine
  <2>1. ~moved /\ u \notin stale
    BY <1>a DEF Users
  <2>2. idx[site[u]] \in 1 .. n
    BY <1>b DEF StaticInv, n
  <2>3. QED
    BY <1>d, <2>1, <2>2 DEF LockInv, Mine
<1>7. CountInv'
  <2>1. CASE overtaken'
    BY <2>1 DEF CountInv, CallsCounted
  <2>2. CASE ~overtaken'
    <3>1. stale' = {}
      BY <1>a, <1>c, <2>2 DEF CountInv
    <3>2. \A s \in Sites : ~HasRecord(s)' => updates[s] = 0
      BY <1>c, <1>g, <2>2 DEF CountInv
    <3>3. ASSUME NEW i \in 1 .. n + 1
          PROVE  /\ gPerfRecords'[i].calls = updates[gPerfRecords'[i].site]
                 /\ gPerfRecords'[i].mutex # NoThread =>
                      /\ tpc'[gPerfRecords'[i].mutex] = "update"
                      /\ site[gPerfRecords'[i].mutex] = gPerfRecords'[i].site
      <4>1. CASE i = n + 1
        BY <1>b, <1>c, <1>d, <1>h, <2>2, <4>1 DEF CountInv
      <4>2. CASE i \in 1 .. n
        <5>1. gPerfRecords'[i] = gPerfRecords[i] /\ gPerfRecords[i] \in Records
          BY <1>b, <1>e, <2>2, <4>2, ElementOfSeq DEF n
        <5>2. /\ gPerfRecords[i].calls = updates[gPerfRecords[i].site]
              /\ gPerfRecords[i].mutex # NoThread =>
                   /\ tpc[gPerfRecords[i].mutex] = "update"
                   /\ site[gPerfRecords[i].mutex] = gPerfRecords[i].site
          BY <1>b, <1>c, <2>2, <4>2 DEF CountInv, CallsCounted
        <5>3. QED
          BY <1>a, <5>1, <5>2 DEF Records
      <4>3. QED
        BY <1>b, <4>1, <4>2
    <3>4. QED
      BY <1>a, <1>f, <2>2, <3>1, <3>2, <3>3 DEF CountInv, CallsCounted
  <2>3. QED
    BY <2>1, <2>2
<1>8. ShownInv'
  <2>1. ASSUME NEW i \in 1 .. n + 1
        PROVE  gPerfRecords'[i].calls >= shown[gPerfRecords'[i].site]
    <3>1. CASE i = n + 1
      <4>1. shown[site[t]] = 0
        BY <1>b, <1>h DEF ShownInv
      <4>2. QED
        BY <1>d, <3>1, <4>1
    <3>2. CASE i \in 1 .. n
      BY <1>d, <3>2
    <3>3. QED
      BY <1>b, <3>1, <3>2
  <2>2. QED
    BY <1>a, <1>f, <1>g, <2>1 DEF ShownInv, CountersNeverDrop
<1>9. QED
  BY <1>1, <1>2, <1>3, <1>4, <1>5, <1>6, <1>7, <1>8

LEMMA StatsIdle ==
  ASSUME StatsInv, UNCHANGED statVars
  PROVE  StatsInv'
BY DEF StatsInv, statVars, recVars, histVars, StatsTypeOK, MutexInv, StaticInv, Users,
       RecordInv, IndexIsOwn, SiteOnce, HasRecord, CopyInv, LockInv, Mine, CountInv, CallsCounted,
       ShownInv, CountersNeverDrop

LEMMA StatsStep == StatsInv /\ [StatsNext]_statVars => StatsInv'
<1> SUFFICES ASSUME StatsInv, [StatsNext]_statVars PROVE StatsInv'
  OBVIOUS
<1>1. ASSUME NEW t \in Threads, Proceeds(t) PROVE StatsInv'
  BY <1>1, AddRecordInv, RecordAddedInv, StaticSetInv, GetPerfRecordInv, LockRecordInv, UpdateInv,
     UpdateFreedInv, EndPageInv DEF Proceeds
<1>2. ASSUME NEW t \in Threads, BeginPage(t) PROVE StatsInv'
  BY <1>2, BeginPageInv
<1>3. ASSUME NEW t \in Threads, NEW s \in Sites, TimerEnd(t, s) PROVE StatsInv'
  BY <1>3, TimerEndInv
<1>4. CASE UNCHANGED statVars
  BY <1>4, StatsIdle
<1>5. QED
  BY <1>1, <1>2, <1>3, <1>4 DEF StatsNext

LEMMA StatsInvariant == StatsSpec => []StatsInv
<1>1. QED
  BY StatsInitInv, StatsStep, PTL DEF StatsSpec

-----------------------------------------------------------------------------
(***************************************************************************)
(* The theorems.                                                           *)
(***************************************************************************)
\* Every index of a static and every index read is within the vector, whose
\* records have the form that GetPerfRecord and Update expect.
THEOREM StatsTypeCorrect == StatsSpec => []StatsTypeOK
BY StatsInvariant, PTL DEF StatsInv

\* The index that AddPerfRecord has read under gPerfMutex is still that of its own record
\* when it is assigned to the static, and ever after, whatever other threads add meanwhile
\* and though push_back moves the records.
THEOREM IndexFindsItsRecord == StatsSpec => []IndexIsOwn
BY StatsInvariant, PTL DEF StatsInv, RecordInv

\* Unless push_back moved the records while one was in use, Update loses no call,
\* and every locked mutex of a record has a thread that will unlock it.
THEOREM NoCallIsLost == StatsSpec => []CallsCounted
BY StatsInvariant, PTL DEF StatsInv, CountInv

\* Even when the records were moved while they were written, GeneratePrometheusPage
\* shows no counter that is smaller than it was on an earlier page.
THEOREM CountersAreMonotonic == StatsSpec => []CountersNeverDrop
BY StatsInvariant, PTL DEF StatsInv, ShownInv
=============================================================================
