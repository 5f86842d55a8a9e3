--------------------------- MODULE SlotMapProofs ----------------------------
(***************************************************************************)
(* Proofs about SlotMap, for any width of the ids and the versions.        *)
(***************************************************************************)
EXTENDS SlotMap, SequenceTheorems, FunctionTheorems, FiniteSetTheorems, TLAPS

LEMMA ModSmall ==
  ASSUME NEW m \in Nat \ {0}, NEW x \in 0 .. m - 1
  PROVE  x % m = x
OBVIOUS

LEMMA ModRange ==
  ASSUME NEW m \in Nat \ {0}, NEW x \in Nat
  PROVE  x % m \in 0 .. m - 1
OBVIOUS

LEMMA MakeHandleType ==
  ASSUME NEW id \in Nat, NEW ver \in Nat
  PROVE  MakeHandle(id, ver) \in Handles
BY ModRange, SlotMapAssumption DEF MakeHandle, Handles, Ids

LEMMA FrontLast ==
  ASSUME NEW S, NEW s \in Seq(S), s # <<>>
  PROVE  /\ Len(s) \in Nat \ {0}
         /\ Seqs!Last(s) = s[Len(s)] /\ s[Len(s)] \in S
         /\ Seqs!Front(s) \in Seq(S)
         /\ DOMAIN Seqs!Front(s) = 1 .. Len(s) - 1
         /\ \A n \in 1 .. Len(s) - 1 : Seqs!Front(s)[n] = s[n]
<1>1. Len(s) \in Nat \ {0} /\ \A n \in 1 .. Len(s) - 1 : s[n] \in S
  OBVIOUS
<1> DEFINE k == Len(s) - 1
<1>2. k \in Int
  BY <1>1
<1> HIDE DEF k
<1>3. /\ SubSeq(s, 1, k) \in Seq(S)
      /\ Len(SubSeq(s, 1, k)) = IF 1 <= k THEN k - 1 + 1 ELSE 0
      /\ \A n \in 1 .. k - 1 + 1 : SubSeq(s, 1, k)[n] = s[n + 1 - 1]
  <2>1. \A n \in 1 .. k : s[n] \in S
    BY <1>1 DEF k
  <2>2. QED
    BY <1>2, <2>1, SubSeqProperties
<1>4. Len(SubSeq(s, 1, k)) = k /\ \A n \in 1 .. k : SubSeq(s, 1, k)[n] = s[n]
  <2>1. k \in Nat
    BY <1>1 DEF k
  <2>2. Len(SubSeq(s, 1, k)) = k
    BY <1>3, <2>1
  <2>3. ASSUME NEW n \in 1 .. k PROVE SubSeq(s, 1, k)[n] = s[n]
    <3>1. n \in 1 .. k - 1 + 1 /\ n + 1 - 1 = n
      BY <2>1
    <3>2. QED
      BY <1>3, <3>1
  <2>4. QED
    BY <2>2, <2>3
<1>5. QED
  BY <1>1, <1>2, <1>3, <1>4 DEF Seqs!Last, Seqs!Front, k

LEMMA GrantedType ==
  ASSUME SlotTypeOK
  PROVE  Granted \in Handles
<1>1. CASE mFreeIds # <<>>
  <2>1. Seqs!Last(mFreeIds) \in Handles
    BY <1>1, FrontLast DEF SlotTypeOK
  <2>2. Seqs!Last(mFreeIds).id \in Nat /\ Seqs!Last(mFreeIds).ver + 1 \in Nat
    BY <2>1, SlotMapAssumption DEF Handles, Ids
  <2>3. QED
    BY <1>1, <2>2, MakeHandleType DEF Granted
<1>2. CASE mFreeIds = <<>>
  BY <1>2, MakeHandleType, SlotMapAssumption DEF SlotTypeOK, Granted
<1>3. QED
  BY <1>1, <1>2

LEMMA EmptyMap ==
  ASSUME NEW D, D = [i \in {} |-> NullObject], NEW T
  PROVE  DOMAIN D = {} /\ D \in [DOMAIN D -> T]
OBVIOUS

LEMMA InitSlotTypeOK == SlotInit => SlotTypeOK
<1> SUFFICES ASSUME SlotInit PROVE SlotTypeOK
  OBVIOUS
<1>1. Slots = {} /\ mData \in [Slots -> [handle : Handles, obj : Objects]]
  BY EmptyMap DEF SlotInit, Slots
<1>2. mHighestUnrecycledId \in 0 .. 2 * IdMod - 1 /\ mFreeIds \in Seq(Handles)
  BY SlotMapAssumption DEF SlotInit
<1>3. QED
  BY <1>1, <1>2 DEF SlotInit, SlotTypeOK

LEMMA NextSlotTypeOK == SlotTypeOK /\ [SlotNext]_slotVars => SlotTypeOK'
<1> SUFFICES ASSUME SlotTypeOK, [SlotNext]_slotVars PROVE SlotTypeOK'
  OBVIOUS
<1> USE SlotMapAssumption
<1>1. ASSUME NEW o \in Objects, Add(o) PROVE SlotTypeOK'
  <2>1. Granted \in Handles /\ Granted.id \in Ids
    BY GrantedType DEF Handles
  <2>2. mFreeIds' \in Seq(Handles) /\ mHighestUnrecycledId' \in 0 .. 2 * IdMod - 1
    <3>1. CASE mFreeIds # <<>>
      BY <1>1, <3>1, FrontLast DEF SlotTypeOK, Add, GrantHandle
    <3>2. CASE mFreeIds = <<>>
      <4>1. 2 * IdMod \in Nat \ {0} /\ mHighestUnrecycledId + 1 \in Nat
        BY DEF SlotTypeOK
      <4>2. (mHighestUnrecycledId + 1) % (2 * IdMod) \in 0 .. 2 * IdMod - 1
        BY <4>1, ModRange
      <4>3. QED
        BY <1>1, <3>2, <4>2 DEF SlotTypeOK, Add, GrantHandle
    <3>3. QED
      BY <3>1, <3>2
  <2>3. Slots' = Slots \cup {Granted.id}
    BY <1>1 DEF Add, Slots
  <2>4. mData' \in [Slots' -> [handle : Handles, obj : Objects]]
    BY <1>1, <2>1, <2>3 DEF Add, SlotTypeOK
  <2>5. live' \subseteq [handle : Handles, obj : Objects]
    BY <1>1, <2>1 DEF Add, SlotTypeOK
  <2>6. QED
    BY <1>1, <2>1, <2>2, <2>3, <2>4, <2>5 DEF Add, SlotTypeOK
<1>2. ASSUME NEW h \in Handles, Remove(h) PROVE SlotTypeOK'
  <2>1. h.id \in Nat /\ h.ver + 1 \in Nat
    BY DEF Handles, Ids
  <2>2. MakeHandle(h.id, h.ver + 1) \in Handles
    BY <2>1, MakeHandleType
  <2>3. MarkDeleted(MakeHandle(h.id, h.ver + 1)) \in Handles
    BY <2>2 DEF MarkDeleted, Handles
  <2>4. CASE Resolves(h)
    <3>1. Slots' = Slots
      BY <1>2, <2>4 DEF Remove, RecycleSlot, Slots
    <3>2. mData' \in [Slots' -> [handle : Handles, obj : Objects]]
      <4>1. h.id \in Slots /\ mData[h.id] \in [handle : Handles, obj : Objects]
        BY <2>4 DEF Resolves, SlotTypeOK
      <4>2. mData' = [mData EXCEPT ![h.id].handle = MarkDeleted(MakeHandle(h.id, h.ver + 1))]
        BY <1>2, <2>4 DEF Remove, RecycleSlot
      <4>3. [mData[h.id] EXCEPT !.handle = MarkDeleted(MakeHandle(h.id, h.ver + 1))]
              \in [handle : Handles, obj : Objects]
        BY <2>3, <4>1
      <4>4. QED
        BY <3>1, <4>1, <4>2, <4>3 DEF SlotTypeOK
    <3>3. mFreeIds' \in Seq(Handles)
      <4>1. mFreeIds' = Append(mFreeIds, MakeHandle(h.id, h.ver + 1))
        BY <1>2, <2>4 DEF Remove, RecycleSlot
      <4>2. QED
        BY <2>2, <4>1, AppendProperties DEF SlotTypeOK
    <3>4. QED
      BY <1>2, <2>4, <3>1, <3>2, <3>3 DEF Remove, SlotTypeOK
  <2>5. CASE ~Resolves(h)
    BY <1>2, <2>5 DEF Remove, SlotTypeOK, Slots
  <2>6. QED
    BY <2>4, <2>5
<1>3. CASE Clear
  <2>1. Slots' = {} /\ mData' \in [Slots' -> [handle : Handles, obj : Objects]]
    BY <1>3, EmptyMap DEF Clear, Slots
  <2>2. mHighestUnrecycledId' \in 0 .. 2 * IdMod - 1 /\ mFreeIds' \in Seq(Handles)
    BY <1>3 DEF Clear
  <2>3. QED
    BY <1>3, <2>1, <2>2 DEF Clear, SlotTypeOK
<1>4. CASE UNCHANGED slotVars
  BY <1>4 DEF slotVars, mapVars, histVars, SlotTypeOK, Slots
<1>5. QED
  BY <1>1, <1>2, <1>3, <1>4 DEF SlotNext, SlotTypeOK

\* Every variable of SlotMap keeps its type.
THEOREM SlotTypeCorrect == SlotSpec => []SlotTypeOK
BY InitSlotTypeOK, NextSlotTypeOK, PTL DEF SlotSpec

(***************************************************************************)
(* The slots, whether or not the ids have run out.                         *)
(***************************************************************************)
Reached == SlotTypeOK /\ SlotsReached

LEMMA GrantedIsNew == Granted.del = FALSE
BY DEF Granted, MakeHandle

LEMMA AddReached ==
  ASSUME Reached, NEW o \in Objects, Add(o)
  PROVE  SlotsReached'
<1>1. PICK g \in Handles : g = Granted
  BY GrantedType DEF Reached
<1>2. /\ mData' = [i \in Slots \cup {g.id} |->
                     IF i = g.id THEN [handle |-> g, obj |-> o] ELSE mData[i]]
      /\ live' = live \cup {[handle |-> g, obj |-> o]} /\ stale' = stale /\ g.del = FALSE
  BY <1>1, GrantedIsNew DEF Add
<1>3. Slots' = Slots \cup {g.id}
  BY <1>2 DEF Slots
<1>4. QED
  BY <1>2, <1>3 DEF Reached, SlotsReached

LEMMA RecycledHandle ==
  ASSUME Reached, NEW h, Resolves(h)
  PROVE  /\ h.id \in Slots /\ h.id \in Ids /\ mData[h.id].handle = h
         /\ MarkDeleted(MakeHandle(h.id, h.ver + 1)).id = h.id
         /\ MarkDeleted(MakeHandle(h.id, h.ver + 1)).del = TRUE
<1>1. h.id \in Slots /\ h.id \in Ids /\ mData[h.id].handle = h
  BY DEF Reached, SlotTypeOK, Resolves
<1>2. h.id % IdMod = h.id
  BY <1>1, ModSmall, SlotMapAssumption DEF Ids
<1>3. QED
  BY <1>1, <1>2 DEF MarkDeleted, MakeHandle

LEMMA RemoveReached ==
  ASSUME Reached, NEW h, ~h.del, Remove(h)
  PROVE  SlotsReached'
<1>1. live' = {p \in live : p.handle # h} /\ stale' = stale \cup {h}
  BY DEF Remove
<1>2. (\A p \in live' : ~p.handle.del) /\ (\A x \in stale' : ~x.del)
  BY <1>1 DEF Reached, SlotsReached
<1>3. CASE Resolves(h)
  <2>1. PICK d : d = MarkDeleted(MakeHandle(h.id, h.ver + 1)) /\ d.id = h.id /\ d.del = TRUE
    BY <1>3, RecycledHandle
  <2>2. mData' = [mData EXCEPT ![h.id].handle = d] /\ h.id \in Slots
    BY <1>3, <2>1, RecycledHandle DEF Remove, RecycleSlot
  <2>3. Slots' = Slots
    BY <2>2 DEF Slots
  <2>4. mData'[h.id].handle = d /\ \A i \in Slots \ {h.id} : mData'[i] = mData[i]
    BY <2>2 DEF Reached, SlotTypeOK, Slots
  <2>5. \A i \in Slots \ {h.id} : mData[i].handle # h
    BY DEF Reached, SlotsReached
  <2>6. QED
    BY <1>1, <1>2, <2>1, <2>3, <2>4, <2>5 DEF Reached, SlotsReached
<1>4. CASE ~Resolves(h)
  <2>1. mData' = mData /\ Slots' = Slots
    BY <1>4 DEF Remove, Slots
  <2>2. \A i \in Slots : mData[i].handle # h
    BY <1>4 DEF Reached, SlotsReached, Resolves
  <2>3. QED
    BY <1>1, <1>2, <2>1, <2>2 DEF Reached, SlotsReached
<1>5. QED
  BY <1>3, <1>4

LEMMA InitReached == SlotInit => Reached
<1> SUFFICES ASSUME SlotInit PROVE Reached
  OBVIOUS
<1>1. Slots = {} /\ live = {} /\ stale = {}
  BY EmptyMap DEF SlotInit, Slots
<1>2. QED
  BY <1>1, InitSlotTypeOK DEF Reached, SlotsReached

LEMMA NextReached == Reached /\ [SlotNext]_slotVars => Reached'
<1> SUFFICES ASSUME Reached, [SlotNext]_slotVars PROVE SlotsReached'
  BY NextSlotTypeOK DEF Reached
<1>1. ASSUME NEW o \in Objects, Add(o) PROVE SlotsReached'
  BY <1>1, AddReached
<1>2. ASSUME NEW h \in {p.handle : p \in live} \cup stale, Remove(h) PROVE SlotsReached'
  <2>1. ~h.del
    BY DEF Reached, SlotsReached
  <2>2. QED
    BY <1>2, <2>1, RemoveReached
<1>3. CASE Clear
  <2>1. Slots' = {} /\ live' = {} /\ stale' = {}
    BY <1>3, EmptyMap DEF Clear, Slots
  <2>2. QED
    BY <2>1 DEF SlotsReached
<1>4. CASE UNCHANGED slotVars
  BY <1>4 DEF slotVars, mapVars, histVars, Reached, SlotsReached, Slots
<1>5. QED
  BY <1>1, <1>2, <1>3, <1>4 DEF SlotNext

(***************************************************************************)
(* The inductive invariant.  That a live handle resolves needs that a free *)
(* id is the id of a deleted slot; that a stale one does not needs the     *)
(* versions to count the recyclings.                                       *)
(***************************************************************************)
SlotIInv == SlotTypeOK /\ SlotInv

LEMMA InitSlotIInv == SlotInit => SlotIInv
<1> SUFFICES ASSUME SlotInit PROVE SlotIInv
  OBVIOUS
<1>1. Slots = {}
  BY EmptyMap DEF SlotInit, Slots
<1>2. DOMAIN mFreeIds = {} /\ live = {} /\ stale = {} /\ mHighestUnrecycledId = 0
  BY DEF SlotInit
<1>3. SlotsMatchIds
  BY <1>1, <1>2, SlotMapAssumption DEF SlotsMatchIds
<1>4. LiveInSlots /\ VersionsCount /\ FreeVersions /\ StaleIsOlder
  BY <1>1, <1>2 DEF LiveInSlots, VersionsCount, FreeVersions, StaleIsOlder
<1>5. FreeIdsExact
  BY <1>1, <1>2 DEF FreeIdsExact
<1>6. FreshIds
  BY <1>1 DEF FreshIds, SlotInit
<1>7. QED
  BY <1>3, <1>4, <1>5, <1>6, InitSlotTypeOK DEF SlotIInv, SlotInv

\* what is known of the last free id: its slot is deleted and has its version
LEMMA LastFree ==
  ASSUME SlotIInv, ~overflown, mFreeIds # <<>>
  PROVE  /\ Granted.id \in Slots
         /\ Granted.id = mFreeIds[Len(mFreeIds)].id
         /\ ~Granted.del
         /\ mData[Granted.id].handle.del
         /\ 2 * recycles[Granted.id] < VersionMod => Granted.ver = 2 * recycles[Granted.id]
<1> DEFINE f == mFreeIds[Len(mFreeIds)]
<1>1. f = Seqs!Last(mFreeIds) /\ f \in Handles /\ Len(mFreeIds) \in DOMAIN mFreeIds
  BY FrontLast DEF SlotIInv, SlotTypeOK
<1> HIDE DEF f
<1>2. f.id \in Slots /\ mData[f.id].handle.del /\ f.ver = mData[f.id].handle.ver
  BY <1>1 DEF f, SlotIInv, SlotInv, FreeVersions, FreeIdsExact
<1>3. f.id % IdMod = f.id
  BY <1>1, ModSmall, SlotMapAssumption DEF Handles, Ids
<1>4. Granted = [id |-> f.id, ver |-> (f.ver + 1) % VersionMod, del |-> FALSE]
  BY <1>1, <1>3 DEF Granted, MakeHandle
<1>5. ASSUME 2 * recycles[f.id] < VersionMod
      PROVE  (f.ver + 1) % VersionMod = 2 * recycles[f.id]
  <2>1. f.ver = 2 * recycles[f.id] - 1 /\ f.ver \in Nat
    BY <1>1, <1>2, <1>5 DEF SlotIInv, SlotInv, VersionsCount, Handles
  <2>2. f.ver + 1 \in 0 .. VersionMod - 1 /\ f.ver + 1 = 2 * recycles[f.id]
    BY <1>2, <1>5, <2>1, SlotMapAssumption DEF SlotIInv, SlotTypeOK
  <2>3. QED
    BY <2>2, ModSmall, SlotMapAssumption
<1>6. QED
  BY <1>2, <1>4, <1>5 DEF f

LEMMA AddReuses ==
  ASSUME SlotIInv, ~overflown, NEW o \in Objects, Add(o), mFreeIds # <<>>
  PROVE  SlotInv'
<1>1. PICK g \in Handles : g = Granted
  BY GrantedType DEF SlotIInv
<1>2. /\ g.id \in Slots /\ g.id \in Ids /\ ~g.del
      /\ mData[g.id].handle.del
      /\ g.id = mFreeIds[Len(mFreeIds)].id
      /\ 2 * recycles[g.id] < VersionMod => g.ver = 2 * recycles[g.id]
  BY <1>1, LastFree DEF Handles
<1>3. /\ Slots' = Slots
      /\ mHighestUnrecycledId' = mHighestUnrecycledId
      /\ mFreeIds' = Seqs!Front(mFreeIds)
      /\ UNCHANGED <<recycles, stale>>
  BY <1>1, <1>2 DEF Add, GrantHandle, Slots
<1>4. /\ mData'[g.id] = [handle |-> g, obj |-> o]
      /\ \A i \in Slots : i # g.id => mData'[i] = mData[i]
      /\ live' = live \cup {[handle |-> g, obj |-> o]}
  BY <1>1, <1>2 DEF Add, Slots
<1>5. DOMAIN mFreeIds' = 1 .. Len(mFreeIds) - 1 /\ DOMAIN mFreeIds = 1 .. Len(mFreeIds)
      /\ Len(mFreeIds) \in Nat \ {0}
      /\ \A n \in 1 .. Len(mFreeIds) - 1 : mFreeIds'[n] = mFreeIds[n]
  BY <1>3, FrontLast DEF SlotIInv, SlotTypeOK
<1>6. \A n \in DOMAIN mFreeIds' : n \in DOMAIN mFreeIds /\ mFreeIds[n].id # g.id
  BY <1>2, <1>5 DEF SlotIInv, SlotInv, FreeIdsExact
<1> USE DEF SlotIInv, SlotInv
<1>7. SlotsMatchIds'
  BY <1>1, <1>2, <1>3, <1>4 DEF SlotsMatchIds
<1>8. LiveInSlots'
  BY <1>1, <1>2, <1>3, <1>4 DEF LiveInSlots, Resolves
<1>9. FreeIdsExact'
  <2>1. \A m, n \in DOMAIN mFreeIds' : mFreeIds'[m].id = mFreeIds'[n].id => m = n
    BY <1>5, <1>6 DEF FreeIdsExact
  <2>2. {mFreeIds'[n].id : n \in DOMAIN mFreeIds'}
          = {mFreeIds[n].id : n \in DOMAIN mFreeIds} \ {g.id}
    <3>1. \A n \in DOMAIN mFreeIds : n \in DOMAIN mFreeIds' \/ n = Len(mFreeIds)
      BY <1>5
    <3>2. QED
      BY <1>2, <1>5, <1>6, <3>1
  <2>3. {i \in Slots : mData'[i].handle.del} = {i \in Slots : mData[i].handle.del} \ {g.id}
    BY <1>2, <1>4
  <2>4. QED
    BY <1>3, <2>1, <2>2, <2>3 DEF FreeIdsExact
<1>10. VersionsCount'
  BY <1>2, <1>3, <1>4 DEF VersionsCount
<1>11. FreeVersions'
  BY <1>3, <1>4, <1>5, <1>6 DEF FreeVersions
<1>12. StaleIsOlder' /\ FreshIds'
  BY <1>3 DEF StaleIsOlder, FreshIds
<1>13. QED
  BY <1>7, <1>8, <1>9, <1>10, <1>11, <1>12

LEMMA AddGrows ==
  ASSUME SlotIInv, ~overflown, NEW o \in Objects, Add(o), mFreeIds = <<>>
  PROVE  SlotInv'
<1> SUFFICES ASSUME ~overflown' PROVE SlotInv'
  BY DEF SlotInv
<1> DEFINE n == mHighestUnrecycledId
<1>1. n \in 0 .. IdMod - 1 /\ Slots = 0 .. n - 1
  <2>1. n \in 0 .. 2 * IdMod - 1
    BY DEF SlotIInv, SlotTypeOK
  <2>2. overflown' = (overflown \/ (mFreeIds = <<>> /\ n >= IdMod))
    BY DEF Add
  <2>3. ~(n >= IdMod)
    BY <2>2, Zenon
  <2>4. n \in 0 .. IdMod - 1
    BY <2>1, <2>3, SlotMapAssumption
  <2>5. QED
    BY <2>4 DEF SlotIInv, SlotInv, SlotsMatchIds
<1>2. PICK g \in Handles : g = Granted
  BY GrantedType DEF SlotIInv
<1>3. g.id = n /\ g.ver = 0 /\ ~g.del
  <2>1. n % IdMod = n
    BY <1>1, ModSmall, SlotMapAssumption
  <2>2. 0 \in 0 .. VersionMod - 1
    BY SlotMapAssumption
  <2>3. 0 % VersionMod = 0
    BY <2>2, ModSmall, SlotMapAssumption
  <2>4. g = [id |-> n % IdMod, ver |-> 0 % VersionMod, del |-> FALSE]
    BY <1>2 DEF Granted, MakeHandle
  <2>5. QED
    BY <2>1, <2>3, <2>4
<1>4. n' = n + 1
  <2>1. 2 * IdMod \in Nat \ {0} /\ n + 1 \in 0 .. 2 * IdMod - 1
    BY <1>1, SlotMapAssumption
  <2>2. (n + 1) % (2 * IdMod) = n + 1
    BY <2>1, ModSmall
  <2>3. QED
    BY <2>2 DEF Add, GrantHandle
<1>5. /\ Slots' = Slots \cup {n} /\ n \notin Slots /\ n \in Ids
      /\ mData'[n] = [handle |-> g, obj |-> o]
      /\ \A i \in Slots : mData'[i] = mData[i]
      /\ live' = live \cup {[handle |-> g, obj |-> o]}
      /\ UNCHANGED <<mFreeIds, recycles, stale>>
  BY <1>1, <1>2, <1>3 DEF Add, GrantHandle, Slots, Ids
<1>6. recycles[n] = 0
  BY <1>5 DEF SlotIInv, SlotInv, FreshIds
<1> HIDE DEF n
<1> USE DEF SlotIInv, SlotInv
<1>7. SlotsMatchIds'
  <2>1. n' <= IdMod /\ Slots' = 0 .. n' - 1
    BY <1>1, <1>4, <1>5, SlotMapAssumption
  <2>2. QED
    BY <1>3, <1>5, <2>1 DEF SlotsMatchIds, n
<1>8. LiveInSlots'
  <2>1. ASSUME NEW p \in live
        PROVE  (~p.handle.del /\ p.handle.id \in Slots' /\ mData'[p.handle.id].handle = p.handle
                 /\ mData'[p.handle.id].obj = p.obj)
    BY <1>5, <2>1 DEF LiveInSlots, Resolves
  <2>2. ~g.del /\ g.id \in Slots' /\ mData'[g.id].handle = g /\ mData'[g.id].obj = o
    BY <1>3, <1>5
  <2>3. QED
    BY <1>5, <2>1, <2>2 DEF LiveInSlots, Resolves
<1>9. FreeIdsExact'
  <2>1. {i \in Slots' : mData'[i].handle.del} = {i \in Slots : mData[i].handle.del}
    BY <1>3, <1>5
  <2>2. QED
    BY <1>5, <2>1 DEF FreeIdsExact
<1>10. VersionsCount'
  BY <1>3, <1>5, <1>6 DEF VersionsCount
<1>11. FreeVersions'
  BY <1>5 DEF FreeVersions
<1>12. StaleIsOlder' /\ FreshIds'
  BY <1>5 DEF StaleIsOlder, FreshIds
<1>13. QED
  BY <1>7, <1>8, <1>9, <1>10, <1>11, <1>12

LEMMA RemoveResolved ==
  ASSUME SlotIInv, ~overflown, NEW h \in Handles, ~h.del, Resolves(h), Remove(h)
  PROVE  SlotInv'
<1>1. PICK f \in Handles : f = MakeHandle(h.id, h.ver + 1)
  <2>1. h.id \in Nat /\ h.ver + 1 \in Nat
    BY SlotMapAssumption DEF Handles, Ids
  <2>2. QED
    BY <2>1, MakeHandleType
<1>2. f.id = h.id /\ f.ver = (h.ver + 1) % VersionMod /\ h.id \in Ids /\ h.ver \in Nat
  BY <1>1, ModSmall, SlotMapAssumption DEF MakeHandle, Handles, Ids
<1>3. h.id \in Slots /\ mData[h.id].handle = h
  BY DEF Resolves
<1>4. /\ Slots' = Slots
      /\ mData'[h.id] = [mData[h.id] EXCEPT !.handle = MarkDeleted(f)]
      /\ \A i \in Slots : i # h.id => mData'[i] = mData[i]
      /\ UNCHANGED <<mHighestUnrecycledId, overflown>>
      /\ live' = {p \in live : p.handle # h}
      /\ stale' = stale \cup {h}
      /\ recycles' = [recycles EXCEPT ![h.id] = @ + 1]
  BY <1>1, <1>3 DEF Remove, RecycleSlot, Slots
<1>5. mData'[h.id].handle = MarkDeleted(f)
  <2>1. mData[h.id] \in [handle : Handles, obj : Objects]
    BY <1>3 DEF SlotIInv, SlotTypeOK
  <2>2. QED
    BY <1>4, <2>1
<1>6. MarkDeleted(f).id = h.id /\ MarkDeleted(f).ver = f.ver /\ MarkDeleted(f).del
  BY <1>2 DEF MarkDeleted, Handles
<1>7. recycles'[h.id] = recycles[h.id] + 1 /\ \A i \in Ids \ {h.id} : recycles'[i] = recycles[i]
  BY <1>2, <1>4 DEF SlotIInv, SlotTypeOK
<1>8. DEFINE L == Len(mFreeIds)
<1>9. /\ L \in Nat /\ DOMAIN mFreeIds = 1 .. L /\ DOMAIN mFreeIds' = 1 .. L + 1
      /\ mFreeIds'[L + 1] = f
      /\ \A n \in 1 .. L : mFreeIds'[n] = mFreeIds[n]
  <2>1. mFreeIds' = Append(mFreeIds, f) /\ mFreeIds \in Seq(Handles)
    BY <1>1 DEF Remove, RecycleSlot, SlotIInv, SlotTypeOK
  <2>2. QED
    BY <1>1, <2>1, AppendProperties
<1> HIDE DEF L
<1> USE DEF SlotIInv, SlotInv
<1>10. SlotsMatchIds'
  BY <1>3, <1>4, <1>5, <1>6 DEF SlotsMatchIds
<1>11. LiveInSlots'
  BY <1>3, <1>4 DEF LiveInSlots, Resolves
<1>12. FreeIdsExact'
  <2>1. \A n \in 1 .. L : mFreeIds[n].id # h.id
    BY <1>3, <1>9 DEF FreeIdsExact
  <2>2. \A m, n \in DOMAIN mFreeIds' : mFreeIds'[m].id = mFreeIds'[n].id => m = n
    <3>1. \A n \in DOMAIN mFreeIds' : n \in 1 .. L \/ n = L + 1
      BY <1>9
    <3>2. QED
      BY <1>2, <1>9, <2>1, <3>1 DEF FreeIdsExact
  <2>3. {mFreeIds'[n].id : n \in DOMAIN mFreeIds'}
          = {mFreeIds[n].id : n \in DOMAIN mFreeIds} \cup {h.id}
    <3>1. \A n \in DOMAIN mFreeIds' : n \in 1 .. L \/ n = L + 1
      BY <1>9
    <3>2. L + 1 \in DOMAIN mFreeIds' /\ \A n \in 1 .. L : n \in DOMAIN mFreeIds'
      BY <1>9
    <3>3. QED
      BY <1>2, <1>9, <3>1, <3>2
  <2>4. {i \in Slots : mData'[i].handle.del} = {i \in Slots : mData[i].handle.del} \cup {h.id}
    BY <1>3, <1>4, <1>5, <1>6
  <2>5. QED
    BY <1>4, <2>2, <2>3, <2>4 DEF FreeIdsExact
<1>13. VersionsCount'
  <2>1. ASSUME 2 * (recycles[h.id] + 1) < VersionMod
        PROVE  f.ver = 2 * (recycles[h.id] + 1) - 1
    <3>1. h.ver = 2 * recycles[h.id] /\ recycles[h.id] \in Nat
      <4>1. recycles[h.id] \in Nat
        BY <1>2 DEF SlotTypeOK
      <4>2. 2 * recycles[h.id] < VersionMod
        BY <2>1, <4>1, SlotMapAssumption
      <4>3. QED
        BY <1>3, <4>1, <4>2 DEF VersionsCount
    <3>2. h.ver + 1 \in 0 .. VersionMod - 1
      BY <1>2, <2>1, <3>1, SlotMapAssumption
    <3>3. QED
      BY <1>2, <3>1, <3>2, ModSmall, SlotMapAssumption
  <2>2. \A i \in Slots : i \in Ids
    BY DEF SlotTypeOK
  <2>3. ASSUME NEW i \in Slots, i # h.id, 2 * recycles'[i] < VersionMod
        PROVE  mData'[i].handle.ver
                 = IF mData'[i].handle.del THEN 2 * recycles'[i] - 1 ELSE 2 * recycles'[i]
    <3>1. mData'[i] = mData[i] /\ recycles'[i] = recycles[i]
      BY <1>4, <1>7, <2>2, <2>3
    <3>2. QED
      BY <2>3, <3>1 DEF VersionsCount
  <2>4. 2 * recycles'[h.id] < VersionMod =>
          mData'[h.id].handle.del /\ mData'[h.id].handle.ver = 2 * recycles'[h.id] - 1
    BY <1>5, <1>6, <1>7, <2>1
  <2>5. QED
    BY <1>4, <2>3, <2>4 DEF VersionsCount
<1>14. FreeVersions'
  <2>1. \A n \in DOMAIN mFreeIds' : n \in 1 .. L \/ n = L + 1
    BY <1>9
  <2>2. \A n \in 1 .. L : mFreeIds[n].id # h.id
    BY <1>3, <1>9 DEF FreeIdsExact
  <2>3. ASSUME NEW n \in 1 .. L
        PROVE  mFreeIds'[n].id \in Slots' /\ mFreeIds'[n].ver = mData'[mFreeIds'[n].id].handle.ver
    <3>1. mFreeIds'[n] = mFreeIds[n] /\ n \in DOMAIN mFreeIds
      BY <1>9
    <3>2. mFreeIds[n].id \in Slots /\ mFreeIds[n].ver = mData[mFreeIds[n].id].handle.ver
      BY <3>1 DEF FreeVersions
    <3>3. QED
      BY <1>4, <2>2, <3>1, <3>2
  <2>4. mFreeIds'[L + 1].id \in Slots'
        /\ mFreeIds'[L + 1].ver = mData'[mFreeIds'[L + 1].id].handle.ver
    BY <1>2, <1>3, <1>4, <1>5, <1>6, <1>9
  <2>5. QED
    BY <2>1, <2>3, <2>4 DEF FreeVersions
<1>15. StaleIsOlder'
  <2>1. \A s \in stale' : s \in Handles /\ s.id \in Ids /\ s.ver \in Nat
    BY <1>4, SlotMapAssumption DEF SlotTypeOK, Handles
  <2>2. recycles[h.id] \in Nat
    BY <1>2 DEF SlotTypeOK
  <2>3. 2 * recycles[h.id] < VersionMod => h.ver = 2 * recycles[h.id]
    BY <1>3 DEF VersionsCount
  <2>4. ASSUME NEW s \in stale', s.id = h.id, 2 * (recycles[h.id] + 1) < VersionMod
        PROVE  s.ver < 2 * (recycles[h.id] + 1)
    BY <1>4, <2>1, <2>2, <2>3, <2>4, SlotMapAssumption DEF StaleIsOlder
  <2>5. QED
    BY <1>4, <1>7, <2>1, <2>4 DEF StaleIsOlder
<1>16. FreshIds'
  BY <1>3, <1>4, <1>7 DEF FreshIds
<1>17. QED
  BY <1>10, <1>11, <1>12, <1>13, <1>14, <1>15, <1>16

LEMMA NextSlotIInv == SlotIInv /\ [SlotNext]_slotVars => SlotIInv'
<1> SUFFICES ASSUME SlotIInv, [SlotNext]_slotVars PROVE SlotInv'
  BY NextSlotTypeOK DEF SlotIInv
<1>1. ASSUME NEW o \in Objects, Add(o) PROVE SlotInv'
  <2>1. CASE overflown
    BY <1>1, <2>1 DEF Add, SlotInv
  <2>2. CASE ~overflown
    BY <1>1, <2>2, AddReuses, AddGrows
  <2>3. QED
    BY <2>1, <2>2
<1>2. ASSUME NEW h \in {p.handle : p \in live} \cup stale, Remove(h) PROVE SlotInv'
  <2>1. CASE overflown
    BY <1>2, <2>1 DEF Remove, SlotInv
  <2>2. CASE ~overflown
    <3>1. h \in Handles /\ ~h.del
      BY <2>2 DEF SlotIInv, SlotInv, SlotTypeOK, LiveInSlots, StaleIsOlder
    <3>2. CASE Resolves(h)
      BY <1>2, <2>2, <3>1, <3>2, RemoveResolved
    <3>3. CASE ~Resolves(h)
      <4>1. h \in stale
        BY <2>2, <3>3 DEF SlotIInv, SlotInv, LiveInSlots
      <4>2. /\ UNCHANGED <<mapVars, recycles, stale, overflown>>
            /\ live' \subseteq live
        BY <1>2, <3>3, <4>1 DEF Remove, mapVars
      <4>3. QED
        BY <2>2, <4>2
        DEF SlotIInv, SlotInv, mapVars, SlotsMatchIds, LiveInSlots, Resolves,
            FreeIdsExact, VersionsCount, FreeVersions, StaleIsOlder, FreshIds, Slots
    <3>4. QED
      BY <3>2, <3>3
  <2>3. QED
    BY <2>1, <2>2
<1>3. CASE Clear
  <2>1. Slots' = {}
    BY <1>3, EmptyMap DEF Clear, Slots
  <2>2. DOMAIN mFreeIds' = {} /\ live' = {} /\ stale' = {} /\ mHighestUnrecycledId' = 0
    BY <1>3 DEF Clear
  <2>3. SlotsMatchIds'
    BY <2>1, <2>2, SlotMapAssumption DEF SlotsMatchIds
  <2>4. (LiveInSlots /\ VersionsCount /\ FreeVersions /\ StaleIsOlder)'
    BY <2>1, <2>2 DEF LiveInSlots, VersionsCount, FreeVersions, StaleIsOlder
  <2>5. FreeIdsExact'
    BY <2>1, <2>2 DEF FreeIdsExact
  <2>6. FreshIds'
    BY <1>3, <2>1 DEF FreshIds, Clear
  <2>7. QED
    BY <2>3, <2>4, <2>5, <2>6 DEF SlotInv
<1>4. CASE UNCHANGED slotVars
  BY <1>4
  DEF slotVars, mapVars, histVars, SlotIInv, SlotInv, SlotsMatchIds, LiveInSlots, Resolves,
      FreeIdsExact, VersionsCount, FreeVersions, StaleIsOlder, FreshIds, Slots
<1>5. QED
  BY <1>1, <1>2, <1>3, <1>4 DEF SlotNext

LEMMA SlotInvariant == SlotSpec => []SlotIInv
BY InitSlotIInv, NextSlotIInv, PTL DEF SlotSpec

\* While no more than IdMod objects have been live at once, a live handle finds
\* its own object.
THEOREM LiveHandlesResolve == SlotSpec => []LiveResolves
<1>1. SlotIInv => LiveResolves
  BY DEF SlotIInv, SlotInv, LiveInSlots, LiveResolves, Get
<1>2. QED
  BY SlotInvariant, <1>1, PTL

\* A removed handle finds nothing until its slot was recycled VersionMod / 2 times.
THEOREM StaleHandlesAreNull == SlotSpec => []StaleIsNull
<1>1. SlotIInv => StaleIsNull
  <2> SUFFICES ASSUME SlotIInv, ~overflown, NEW h \in stale,
                      2 * recycles[h.id] < VersionMod, Resolves(h)
               PROVE  FALSE
    BY DEF StaleIsNull, Get
  <2>1. ~h.del /\ h.ver < 2 * recycles[h.id]
    BY DEF SlotIInv, SlotInv, StaleIsOlder
  <2>2. h.ver = 2 * recycles[h.id]
    BY <2>1 DEF SlotIInv, SlotInv, VersionsCount, Resolves
  <2>3. h.ver \in Int
    BY SlotMapAssumption DEF SlotIInv, SlotTypeOK, Handles
  <2>4. recycles[h.id] \in Int
    BY DEF SlotIInv, SlotTypeOK, Handles
  <2>5. QED
    BY <2>1, <2>2, <2>3, <2>4
<1>2. QED
  BY SlotInvariant, <1>1, PTL

\* The free list has exactly the ids of the deleted slots, each once.
THEOREM FreeListIsExact == SlotSpec => []FreeIdsExact
<1>1. SlotIInv => FreeIdsExact
  BY DEF SlotIInv, SlotInv, FreeIdsExact
<1>2. QED
  BY SlotInvariant, <1>1, PTL

(***************************************************************************)
(* What an iteration sees, and count().  The slots not deleted are the     *)
(* live handles, one to one; so are the deleted ones and the free ids.     *)
(***************************************************************************)
Deleted == {i \in Slots : mData[i].handle.del}

LEMMA DeletedAreFree ==
  ASSUME SlotIInv, ~overflown
  PROVE  ExistsBijection(1 .. Len(mFreeIds), Deleted)
<1> DEFINE ids == [n \in 1 .. Len(mFreeIds) |-> mFreeIds[n].id]
<1>1. DOMAIN mFreeIds = 1 .. Len(mFreeIds)
  BY DEF SlotIInv, SlotTypeOK
<1>2. /\ \A m, n \in 1 .. Len(mFreeIds) : mFreeIds[m].id = mFreeIds[n].id => m = n
      /\ {mFreeIds[n].id : n \in 1 .. Len(mFreeIds)} = Deleted
  BY <1>1 DEF SlotIInv, SlotInv, FreeIdsExact, Deleted
<1>3. ids \in [1 .. Len(mFreeIds) -> Deleted]
  BY <1>2
<1>4. \A m, n \in 1 .. Len(mFreeIds) : ids[m] = ids[n] => m = n
  BY <1>2
<1>5. \A i \in Deleted : \E n \in 1 .. Len(mFreeIds) : ids[n] = i
  BY <1>2
<1> HIDE DEF ids
<1>6. ids \in Bijection(1 .. Len(mFreeIds), Deleted)
  BY <1>3, <1>4, <1>5, Fun_IsBij
<1>7. QED
  BY <1>6 DEF ExistsBijection

LEMMA UndeletedAreLive ==
  ASSUME SlotIInv, Reached, ~overflown
  PROVE  ExistsBijection(Slots \ Deleted, live)
<1> DEFINE data == [i \in Slots \ Deleted |-> mData[i]]
<1>1. data \in [Slots \ Deleted -> live]
  BY DEF Reached, SlotsReached, Deleted
<1>2. \A i, j \in Slots \ Deleted : data[i] = data[j] => i = j
  BY DEF Reached, SlotsReached
<1>3. ASSUME NEW p \in live PROVE \E i \in Slots \ Deleted : data[i] = p
  <2>1. /\ ~p.handle.del /\ p.handle.id \in Slots
        /\ mData[p.handle.id].handle = p.handle /\ mData[p.handle.id].obj = p.obj
    BY DEF SlotIInv, SlotInv, LiveInSlots, Resolves
  <2>2. /\ p \in [handle : Handles, obj : Objects]
        /\ mData[p.handle.id] \in [handle : Handles, obj : Objects]
    BY <2>1 DEF SlotIInv, SlotTypeOK
  <2>3. mData[p.handle.id] = p
    BY <2>1, <2>2
  <2>4. p.handle.id \in Slots \ Deleted
    BY <2>1 DEF Deleted
  <2>5. QED
    BY <2>3, <2>4
<1> HIDE DEF data
<1>4. data \in Bijection(Slots \ Deleted, live)
  BY <1>1, <1>2, <1>3, Fun_IsBij
<1>5. QED
  BY <1>4 DEF ExistsBijection

LEMMA CountIsLive ==
  ASSUME SlotIInv, Reached, ~overflown
  PROVE  Count = Cardinality(live)
<1>1. IsFiniteSet(Slots) /\ Cardinality(Slots) \in Nat
  <2>1. Slots = 0 .. mHighestUnrecycledId - 1 /\ mHighestUnrecycledId - 1 \in Int
    BY SlotMapAssumption DEF SlotIInv, SlotInv, SlotsMatchIds, SlotTypeOK
  <2>2. IsFiniteSet(Slots)
    BY <2>1, FS_Interval
  <2>3. QED
    BY <2>2, FS_CardinalityType
<1>2. Cardinality(Deleted) = Len(mFreeIds)
  <2>1. Len(mFreeIds) \in Nat
    BY DEF SlotIInv, SlotTypeOK
  <2>2. QED
    BY <2>1, DeletedAreFree, FS_CountingElements
<1>3. /\ IsFiniteSet(Slots \ Deleted)
      /\ Cardinality(Slots \ Deleted) = Cardinality(Slots) - Cardinality(Deleted)
  <2>1. Slots \cap Deleted = Deleted
    BY DEF Deleted
  <2>2. QED
    BY <1>1, <2>1, FS_Difference
<1>4. Cardinality(live) = Cardinality(Slots \ Deleted)
  BY <1>3, UndeletedAreLive, FS_Bijection
<1>5. QED
  BY <1>2, <1>3, <1>4 DEF Count

LEMMA SeenAreLive ==
  ASSUME SlotIInv, Reached, ~overflown
  PROVE  {At(i) : i \in Slots} \ {NullObject} = {p.obj : p \in live}
<1>1. ASSUME NEW i \in Slots, At(i) # NullObject PROVE \E p \in live : p.obj = At(i)
  <2>1. ~mData[i].handle.del /\ At(i) = mData[i].obj
    BY <1>1 DEF At
  <2>2. QED
    BY <2>1 DEF Reached, SlotsReached
<1>2. ASSUME NEW p \in live PROVE p.obj # NullObject /\ \E i \in Slots : At(i) = p.obj
  <2>1. ~p.handle.del /\ p.handle.id \in Slots
        /\ mData[p.handle.id].handle = p.handle /\ mData[p.handle.id].obj = p.obj
    BY DEF SlotIInv, SlotInv, LiveInSlots, Resolves
  <2>2. At(p.handle.id) = p.obj
    BY <2>1 DEF At
  <2>3. p.obj # NullObject
    BY SlotMapAssumption DEF SlotIInv, SlotTypeOK
  <2>4. QED
    BY <2>1, <2>2, <2>3
<1>3. QED
  BY <1>1, <1>2

\* An iteration with operator[] meets the live objects and no other, and count() is
\* their number: size() less the free ids.
THEOREM IterationIsExact == SlotSpec => []IterationIsLive
<1>1. SlotIInv /\ Reached => IterationIsLive
  BY CountIsLive, SeenAreLive DEF IterationIsLive
<1>2. SlotSpec => []Reached
  BY InitReached, NextReached, PTL DEF SlotSpec
<1>3. QED
  BY SlotInvariant, <1>1, <1>2, PTL
=============================================================================
