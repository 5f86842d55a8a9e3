------------------------------ MODULE SlotMap -------------------------------
(***************************************************************************)
(* SSlotMap with its SlotMapTracker: the container behind the managed      *)
(* coroutines, whose ObjectHandles are weak references.                    *)
(*                                                                         *)
(* A handle is a record of its three bit fields, which the masks and       *)
(* shifts of SlotMap.cpp keep apart.  Clear starts the versions over and   *)
(* with them the histories below, so nothing is said of a handle that was  *)
(* taken before a Clear.                                                   *)
(***************************************************************************)
EXTENDS Integers, Sequences, FiniteSets

Seqs == INSTANCE SequencesExt

CONSTANTS
  Objects,
  NullObject,
  IdMod,       \* 2 ^ HANDLE_ID_BITS
  VersionMod,  \* 2 ^ HANDLE_VERSION_BITS
  MaxRecycles  \* bound: how often one id is recycled between two Clears

ASSUME SlotMapAssumption ==
  /\ NullObject \notin Objects
  /\ IdMod \in Nat \ {0}
  /\ VersionMod \in Nat \ {0}
  /\ MaxRecycles \in Nat

VARIABLES
  mData,                 \* the handle and the object of every slot, from 0
  mFreeIds,
  mHighestUnrecycledId,  \* a ushort: one bit wider than an id
  live,                  \* the handles added and not removed, with their objects
  stale,                 \* the handles removed
  recycles,              \* per id, how often it was removed
  overflown              \* an id was granted when all were taken

mapVars == <<mData, mFreeIds, mHighestUnrecycledId>>
histVars == <<live, stale, recycles, overflown>>
slotVars == <<mapVars, histVars>>

Ids == 0 .. IdMod - 1
Handles == [id : Ids, ver : 0 .. VersionMod - 1, del : BOOLEAN]

Slots == DOMAIN mData

SlotTypeOK ==
  /\ Slots \subseteq Ids
  /\ mData \in [Slots -> [handle : Handles, obj : Objects]]
  /\ mFreeIds \in Seq(Handles)
  /\ mHighestUnrecycledId \in 0 .. 2 * IdMod - 1
  /\ live \subseteq [handle : Handles, obj : Objects]
  /\ stale \subseteq Handles
  /\ recycles \in [Ids -> Nat]
  /\ overflown \in BOOLEAN

SlotInit ==
  /\ mData = [i \in {} |-> NullObject]
  /\ mFreeIds = <<>>
  /\ mHighestUnrecycledId = 0
  /\ live = {}
  /\ stale = {}
  /\ recycles = [i \in Ids |-> 0]
  /\ overflown = FALSE

\* Make_ObjectHandle masks both fields
MakeHandle(id, ver) == [id |-> id % IdMod, ver |-> ver % VersionMod, del |-> FALSE]

MarkDeleted(h) == [h EXCEPT !.del = TRUE]

-----------------------------------------------------------------------------
\* GrantHandle takes the last freed id, whose version Remove has raised, and
\* raises it again; or an id never used
Granted ==
  IF mFreeIds # <<>>
  THEN MakeHandle(Seqs!Last(mFreeIds).id, Seqs!Last(mFreeIds).ver + 1)
  ELSE MakeHandle(mHighestUnrecycledId, 0)

\* mutant: the handle granted is not the one taken off the list
GrantFromBothEnds ==
  IF mFreeIds # <<>>
  THEN mFreeIds' = Tail(mFreeIds) /\ UNCHANGED mHighestUnrecycledId
  ELSE /\ UNCHANGED mFreeIds
       /\ mHighestUnrecycledId' = (mHighestUnrecycledId + 1) % (2 * IdMod)

GrantHandle ==
  IF mFreeIds # <<>>
  THEN mFreeIds' = Seqs!Front(mFreeIds) /\ UNCHANGED mHighestUnrecycledId
  ELSE /\ UNCHANGED mFreeIds
       /\ mHighestUnrecycledId' = (mHighestUnrecycledId + 1) % (2 * IdMod)

\* the slot of a granted id that is already there is overwritten
Add(o) ==
  /\ \A p \in live : p.obj # o
  /\ GrantHandle
  /\ mData' = [i \in Slots \cup {Granted.id} |->
                 IF i = Granted.id THEN [handle |-> Granted, obj |-> o] ELSE mData[i]]
  /\ live' = live \cup {[handle |-> Granted, obj |-> o]}
  /\ overflown' = (overflown \/ (mFreeIds = <<>> /\ mHighestUnrecycledId >= IdMod))
  /\ UNCHANGED <<stale, recycles>>

\* mutant: only the slot is looked at
ResolvesById(h) == h.id \in Slots

Resolves(h) == h.id \in Slots /\ mData[h.id].handle = h

Get(h) == IF Resolves(h) THEN mData[h.id].obj ELSE NullObject

\* what Remove does when its handle resolves
RecycleSlot(h) ==
  LET freed == MakeHandle(h.id, h.ver + 1) IN
  /\ mFreeIds' = Append(mFreeIds, freed)
  /\ mData' = [mData EXCEPT ![h.id].handle = MarkDeleted(freed)]

Remove(h) ==
  /\ recycles[h.id] < MaxRecycles
  /\ IF Resolves(h)
       THEN /\ RecycleSlot(h)
            /\ recycles' = [recycles EXCEPT ![h.id] = @ + 1]
       ELSE UNCHANGED <<mFreeIds, mData, recycles>>
  /\ live' = {p \in live : p.handle # h}
  /\ stale' = stale \cup {h}
  /\ UNCHANGED <<mHighestUnrecycledId, overflown>>

Clear ==
  /\ mData' = [i \in {} |-> NullObject]
  /\ mFreeIds' = <<>>
  /\ mHighestUnrecycledId' = 0
  /\ live' = {}
  /\ stale' = {}
  /\ recycles' = [i \in Ids |-> 0]
  /\ overflown' = FALSE

\* the callers keep handles after they are removed, and may remove them again
SlotNext ==
  \/ \E o \in Objects : Add(o)
  \/ \E h \in {p.handle : p \in live} \cup stale : Remove(h)
  \/ Clear

SlotSpec == SlotInit /\ [][SlotNext]_slotVars

-----------------------------------------------------------------------------
\* mutant: the deleted bit is not looked at
AtUnchecked(i) == mData[i].obj

\* operator[]: the slots an iteration sees
At(i) == IF mData[i].handle.del THEN NullObject ELSE mData[i].obj

Count == Cardinality(Slots) - Len(mFreeIds)

\* Every live handle finds its own object, no matter which slots were recycled,
\* unless more than 2^15 objects have been live at once.
LiveResolves == overflown \/ \A p \in live : Get(p.handle) = p.obj

\* A handle that was removed finds nothing, whatever took its slot: versions go up
\* by two per recycling, so up to the 2^14th recycling of its slot.
StaleIsNull ==
  overflown \/ \A h \in stale : 2 * recycles[h.id] < VersionMod => Get(h) = NullObject

\* No id is free twice, and exactly the ids of the deleted slots are free.
FreeIdsExact ==
  overflown \/
    /\ \A m, n \in DOMAIN mFreeIds : mFreeIds[m].id = mFreeIds[n].id => m = n
    /\ {mFreeIds[n].id : n \in DOMAIN mFreeIds} = {i \in Slots : mData[i].handle.del}

\* count() and an iteration with operator[] agree with what was added and removed.
IterationIsLive ==
  overflown \/
    /\ {At(i) : i \in Slots} \ {NullObject} = {p.obj : p \in live}
    /\ Count = Cardinality(live)

(***************************************************************************)
(* The inductive invariant behind them.  SlotsReached holds also when the  *)
(* ids have run out: a slot that is not marked deleted has a live handle   *)
(* with its index, so that the loops of the manager may go by the index.   *)
(***************************************************************************)

SlotsReached ==
  /\ \A i \in Slots : mData[i].handle.id = i
  /\ \A i \in Slots : ~mData[i].handle.del => mData[i] \in live
  /\ \A p \in live : ~p.handle.del
  /\ \A h \in stale : ~h.del

\* the slots are the ids granted so far and every slot has its id
SlotsMatchIds ==
  /\ mHighestUnrecycledId <= IdMod
  /\ Slots = 0 .. mHighestUnrecycledId - 1
  /\ \A i \in Slots : mData[i].handle.id = i

LiveInSlots ==
  \A p \in live :
    /\ ~p.handle.del
    /\ Resolves(p.handle)
    /\ mData[p.handle.id].obj = p.obj

\* before they wrap, versions are even in use and odd when free, and count
VersionsCount ==
  \A i \in Slots : 2 * recycles[i] < VersionMod =>
    mData[i].handle.ver = IF mData[i].handle.del THEN 2 * recycles[i] - 1 ELSE 2 * recycles[i]

FreeVersions ==
  \A n \in DOMAIN mFreeIds :
    mFreeIds[n].id \in Slots /\ mFreeIds[n].ver = mData[mFreeIds[n].id].handle.ver

StaleIsOlder ==
  \A h \in stale : ~h.del /\ (2 * recycles[h.id] < VersionMod => h.ver < 2 * recycles[h.id])

FreshIds == \A i \in Ids \ Slots : recycles[i] = 0

SlotInv ==
  overflown \/
    /\ SlotsMatchIds
    /\ LiveInSlots
    /\ FreeIdsExact
    /\ VersionsCount
    /\ FreeVersions
    /\ StaleIsOlder
    /\ FreshIds
=============================================================================
