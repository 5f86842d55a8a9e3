-------------------------- MODULE ManagedCoroutines --------------------------
(***************************************************************************)
(* The managed half of CoroutineManager, over SlotMap: coroutines that are *)
(* reached through an ObjectHandle, stepped by index while their bodies    *)
(* add and remove others, and reaped when they are dead.                   *)
(*                                                                         *)
(* One thread does all of it.  "idle" is code of the owner between two     *)
(* rounds, "step" and "clean" are the loops of StepCoroutines and          *)
(* CleanupDeadCoroutines at the slot idx, and in "body" the coroutine that *)
(* the loop has resumed runs.  An mco_coro is named by its address, which  *)
(* another coroutine may get when it has been freed.                       *)
(***************************************************************************)
EXTENDS SlotMap

VARIABLES
  phase,
  idx,    \* i of the loops
  state,  \* mco_state of every mco_coro, "none" when it is not allocated
  auto,   \* those in a slot with mAutoDelete
  lost,   \* the coroutines removed while they ran, or overwritten (history)
  due,    \* those the round has found suspended, and not destroyed (history)
  turns   \* per coroutine, how often it was resumed in this round (history)

roundVars == <<phase, idx>>
coVars    == <<roundVars, state, auto, lost, due, turns>>
mgrVars   == <<slotVars, coVars>>

CoTypeOK ==
  /\ SlotTypeOK
  /\ phase \in {"idle", "step", "body", "clean"}
  /\ idx \in 0 .. IdMod
  /\ state \in [Objects -> {"none", "suspended", "running", "dead"}]
  /\ auto \subseteq Objects
  /\ lost \subseteq Objects
  /\ due \subseteq Objects
  /\ turns \in [Objects -> Nat]
  /\ Cardinality({c \in Objects : state[c] = "running"}) = IF phase = "body" THEN 1 ELSE 0

CoInit ==
  /\ SlotInit
  /\ phase = "idle"
  /\ idx = 0
  /\ state = [c \in Objects |-> "none"]
  /\ auto = {}
  /\ lost = {}
  /\ due = {}
  /\ turns = [c \in Objects |-> 0]

-----------------------------------------------------------------------------
(***************************************************************************)
(* minicoro, as far as the manager calls it.                               *)
(***************************************************************************)
In(s) == {c \in Objects : state[c] = s}

mco_create(c) == state[c] = "none" /\ state' = [state EXCEPT ![c] = "suspended"]

\* mutant: whatever state it is in
DestroyAny(C) == [c \in Objects |-> IF c \in C THEN "none" ELSE state[c]]

\* mco_destroy of several: one that runs is refused, and is not freed
mco_destroy(C) ==
  [c \in Objects |-> IF c \in C /\ state[c] # "running" THEN "none" ELSE state[c]]

\* mco_resume, mco_yield, and the end of _mco_main
Switch(c, from, to) == state[c] = from /\ state' = [state EXCEPT ![c] = to]

-----------------------------------------------------------------------------
(***************************************************************************)
(* What the owner and the bodies call.                                     *)
(***************************************************************************)
\* the coroutine that is overwritten when the ids have run out
Overwritten == {At(i) : i \in Slots \cap {Granted.id}} \ {NullObject}

\* the bound: none is created once an id has been recycled MaxRecycles times
CreateManagedCoroutine(c, autodelete) ==
  /\ phase \in {"idle", "body"}
  /\ \A i \in Ids : recycles[i] < MaxRecycles
  /\ Add(c)
  /\ mco_create(c)
  /\ auto' = (auto \ Overwritten) \cup (IF autodelete THEN {c} ELSE {})
  /\ turns' = [turns EXCEPT ![c] = 0]
  /\ lost' = lost \cup Overwritten
  /\ UNCHANGED <<roundVars, due>>

\* the result of mco_destroy is not looked at
DestroyCoroutine(h) ==
  LET C == {Get(h)} \ {NullObject} IN
  /\ state' = mco_destroy(C)
  /\ Remove(h)
  /\ lost' = lost \cup (C \cap In("running"))
  /\ auto' = auto \ C
  /\ due' = due \ C

Destroy(h) ==
  /\ phase \in {"idle", "body"}
  /\ DestroyCoroutine(h)
  /\ UNCHANGED <<roundVars, turns>>

\* mutant: the ids are not taken back with the slots
DestroyAllKeepsIds ==
  /\ phase = "idle"
  /\ state' = mco_destroy({At(i) : i \in Slots})
  /\ mData' = [i \in {} |-> NullObject]
  /\ live' = {}
  /\ stale' = {}
  /\ recycles' = [i \in Ids |-> 0]
  /\ overflown' = FALSE
  /\ auto' = {}
  /\ UNCHANGED <<mFreeIds, mHighestUnrecycledId, roundVars, lost, due, turns>>

DestroyAllCoroutines ==
  /\ phase = "idle"
  /\ state' = mco_destroy({At(i) : i \in Slots})
  /\ Clear
  /\ auto' = {}
  /\ UNCHANGED <<roundVars, lost, due, turns>>

-----------------------------------------------------------------------------
(***************************************************************************)
(* StepCoroutines and CleanupDeadCoroutines, called one after the other.   *)
(***************************************************************************)
BeginStep ==
  /\ phase = "idle"
  /\ phase' = "step"
  /\ due' = {At(i) : i \in Slots} \cap In("suspended")
  /\ UNCHANGED <<slotVars, idx, state, auto, lost, turns>>

\* mutant: count() is taken for size()
BelowCount == idx < Count

\* the size is read again in every turn: bodies add slots
BelowSize == idx \in Slots

\* the coroutine in the slot, if the loop has to do with it
Candidate(C) == IF BelowSize THEN {At(idx)} \cap C ELSE {}

Resume ==
  /\ phase = "step"
  /\ \E c \in Candidate(In("suspended")) :
       /\ Switch(c, "suspended", "running")
       /\ turns' = [turns EXCEPT ![c] = @ + 1]
  /\ phase' = "body"
  /\ UNCHANGED <<slotVars, idx, auto, lost, due>>

\* the body yields or returns, and the loop goes on
BodyStops ==
  /\ phase = "body"
  /\ \E c \in Objects, to \in {"suspended", "dead"} : Switch(c, "running", to)
  /\ phase' = "step"
  /\ idx' = idx + 1
  /\ UNCHANGED <<slotVars, auto, lost, due, turns>>

PassOver ==
  /\ phase \in {"step", "clean"}
  /\ BelowSize
  /\ Candidate(IF phase = "step" THEN In("suspended") ELSE In("dead") \cap auto) = {}
  /\ idx' = idx + 1
  /\ UNCHANGED <<slotVars, phase, state, auto, lost, due, turns>>

\* mutant: the coroutine is destroyed and its slot not given back
ReapKeepsSlot ==
  /\ phase = "clean"
  /\ Candidate(In("dead") \cap auto) # {}
  /\ state' = mco_destroy({At(idx)})
  /\ idx' = idx + 1
  /\ UNCHANGED <<slotVars, phase, auto, lost, due, turns>>

Reap ==
  /\ phase = "clean"
  /\ Candidate(In("dead") \cap auto) # {}
  /\ DestroyCoroutine(mData[idx].handle)
  /\ idx' = idx + 1
  /\ UNCHANGED <<phase, turns>>

EndLoop ==
  /\ phase \in {"step", "clean"}
  /\ ~BelowSize
  /\ phase' = IF phase = "step" THEN "clean" ELSE "idle"
  /\ idx' = 0
  /\ due' = {}
  /\ turns' = [c \in Objects |-> 0]
  /\ UNCHANGED <<slotVars, state, auto, lost>>

Round == BeginStep \/ Resume \/ BodyStops \/ PassOver \/ Reap \/ EndLoop

\* owners and bodies keep handles after their coroutines are gone
CoNext ==
  \/ Round
  \/ \E c \in Objects, autodelete \in BOOLEAN : CreateManagedCoroutine(c, autodelete)
  \/ \E h \in {p.handle : p \in live} \cup stale : Destroy(h)
  \/ DestroyAllCoroutines

CoSpec == CoInit /\ [][CoNext]_mgrVars

\* rounds follow each other (the 1 ms timer), and no body runs for ever
FairCoSpec == CoSpec /\ WF_mgrVars(Round)

-----------------------------------------------------------------------------
\* Whatever the manager does with its slots, in the middle of its loops too, is
\* within what SlotMap allows its callers, so what is proved of SlotMap holds here.
ImplementsSlotMap == SlotSpec

Managed == {p.obj : p \in live}

\* Exactly the coroutines that handles reach are allocated: nothing that was
\* destroyed is left in a slot to be looked at again, and nothing is forgotten but
\* a coroutine whose handle was destroyed while it ran, which mco_destroy refuses
\* and DestroyCoroutine forgets all the same.
NothingDangles == overflown \/ Objects \ In("none") = Managed \cup lost

\* A round resumes every coroutine that waits at its start, once, whatever the
\* bodies add, remove and put into recycled slots below or above the index.
OneTurnEach ==
  overflown \/
    \A c \in Objects :
      /\ turns[c] <= 1
      /\ phase = "step" /\ ~BelowSize /\ c \in due => turns[c] = 1

\* A coroutine that has finished is freed in time without its owner.
DeadIsReaped ==
  \A c \in Objects :
    (state[c] = "dead" /\ c \in auto /\ c \notin lost) ~> (state[c] = "none" \/ overflown)
=============================================================================
