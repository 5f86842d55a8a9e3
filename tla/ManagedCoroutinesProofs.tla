----------------------- MODULE ManagedCoroutinesProofs -----------------------
(***************************************************************************)
(* Proofs about ManagedCoroutines, for any coroutines and any widths of    *)
(* the fields of a handle.                                                 *)
(***************************************************************************)
EXTENDS ManagedCoroutines, SlotMapProofs

(***************************************************************************)
(* Every step of the manager is one that SlotMap allows.                   *)
(***************************************************************************)
\* what the loop at idx has to do with is in a slot that is not deleted
LEMMA CandidateIsAt ==
  ASSUME Reached, NEW C \in SUBSET Objects, NEW c \in Candidate(C)
  PROVE  idx \in Slots /\ At(idx) = c /\ c \in Objects /\ c \in C /\ ~mData[idx].handle.del
BY SlotMapAssumption DEF Candidate, BelowSize, At

LEMMA StepIsSlotStep ==
  ASSUME Reached, CoNext
  PROVE  SlotNext \/ UNCHANGED slotVars
<1>1. CASE BeginStep \/ Resume \/ BodyStops \/ PassOver \/ EndLoop
  BY <1>1 DEF BeginStep, Resume, BodyStops, PassOver, EndLoop, slotVars
<1>2. CASE Reap
  <2>1. PICK c : c \in Candidate(In("dead") \cap auto)
    BY <1>2 DEF Reap
  <2>2. idx \in Slots /\ ~mData[idx].handle.del
    BY <2>1, CandidateIsAt DEF In
  <2>3. mData[idx].handle \in {p.handle : p \in live}
    BY <2>2 DEF Reached, SlotsReached
  <2>4. Remove(mData[idx].handle)
    BY <1>2 DEF Reap, DestroyCoroutine
  <2>5. QED
    BY <2>3, <2>4 DEF SlotNext
<1>3. CASE \E c \in Objects, autodelete \in BOOLEAN : CreateManagedCoroutine(c, autodelete)
  BY <1>3 DEF CreateManagedCoroutine, SlotNext
<1>4. CASE \E h \in {p.handle : p \in live} \cup stale : Destroy(h)
  BY <1>4 DEF Destroy, DestroyCoroutine, SlotNext
<1>5. CASE DestroyAllCoroutines
  BY <1>5 DEF DestroyAllCoroutines, SlotNext
<1>6. QED
  BY <1>1, <1>2, <1>3, <1>4, <1>5 DEF CoNext, Round

LEMMA StepReached == Reached /\ [CoNext]_mgrVars => Reached' /\ [SlotNext]_slotVars
<1> SUFFICES ASSUME Reached, [CoNext]_mgrVars PROVE [SlotNext]_slotVars
  BY NextReached
<1>1. CASE CoNext
  BY <1>1, StepIsSlotStep
<1>2. CASE UNCHANGED mgrVars
  BY <1>2 DEF mgrVars, slotVars
<1>3. QED
  BY <1>1, <1>2

\* The manager keeps to what SlotMap allows its callers, in the middle of its loops too.
THEOREM ManagerImplementsSlotMap == CoSpec => ImplementsSlotMap
<1>1. CoInit => SlotInit
  BY DEF CoInit
<1>2. QED
  BY <1>1, InitReached, StepReached, PTL DEF CoSpec, ImplementsSlotMap, SlotSpec

LEMMA SlotsInvariant == CoSpec => [](SlotIInv /\ Reached)
<1>1. CoInit => SlotInit
  BY DEF CoInit
<1>2. CoSpec => []Reached /\ SlotSpec
  BY <1>1, InitReached, StepReached, PTL DEF CoSpec, SlotSpec
<1>3. QED
  BY <1>2, SlotInvariant, PTL

(***************************************************************************)
(* What happens to the slots, as the loops see them.                       *)
(***************************************************************************)
LEMMA AtType ==
  ASSUME Reached, NEW i \in Slots
  PROVE  /\ i \in Ids
         /\ At(i) \in Objects \cup {NullObject}
         /\ At(i) # NullObject <=> ~mData[i].handle.del
         /\ At(i) # NullObject => mData[i] \in live /\ At(i) = mData[i].obj
<1>1. i \in Ids /\ mData[i] \in [handle : Handles, obj : Objects]
  BY DEF Reached, SlotTypeOK
<1>2. mData[i].handle.del \in BOOLEAN /\ mData[i].obj \in Objects
  BY <1>1 DEF Handles
<1>3. QED
  BY <1>1, <1>2, SlotMapAssumption DEF Reached, SlotsReached, At

LEMMA AddAt ==
  ASSUME Reached, NEW o \in Objects, Add(o), NEW g, g = Granted.id
  PROVE  /\ Slots' = Slots \cup {g} /\ g \in Ids
         /\ At(g)' = o
         /\ \A i \in Slots \ {g} : At(i)' = At(i)
<1>1. g \in Ids
  BY GrantedType DEF Reached, Handles
<1>2. mData' = [i \in Slots \cup {g} |->
                 IF i = g THEN [handle |-> Granted, obj |-> o] ELSE mData[i]]
  BY DEF Add
<1>3. Slots' = Slots \cup {g}
  BY <1>2 DEF Slots
<1>4. mData'[g] = [handle |-> Granted, obj |-> o] /\ \A i \in Slots \ {g} : mData'[i] = mData[i]
  BY <1>2
<1>5. QED
  BY <1>1, <1>3, <1>4, GrantedIsNew DEF At

LEMMA RemoveAt ==
  ASSUME Reached, NEW h, ~h.del, Remove(h)
  PROVE  /\ Slots' = Slots
         /\ Resolves(h) => /\ h.id \in Slots /\ Get(h) = At(h.id) /\ Get(h) \in Objects
                          /\ At(h.id)' = NullObject
                          /\ \A i \in Slots \ {h.id} : At(i)' = At(i)
         /\ ~Resolves(h) => Get(h) = NullObject /\ \A i \in Slots : At(i)' = At(i)
<1>1. CASE Resolves(h)
  <2>1. PICK d : d = MarkDeleted(MakeHandle(h.id, h.ver + 1)) /\ d.id = h.id /\ d.del = TRUE
    BY <1>1, RecycledHandle
  <2>2. mData' = [mData EXCEPT ![h.id].handle = d] /\ h.id \in Slots /\ mData[h.id].handle = h
    BY <1>1, <2>1, RecycledHandle DEF Remove, RecycleSlot
  <2>3. Slots' = Slots
    BY <2>2 DEF Slots
  <2>4. mData'[h.id].handle = d /\ \A i \in Slots \ {h.id} : mData'[i] = mData[i]
    BY <2>2 DEF Reached, SlotTypeOK, Slots
  <2>5. Get(h) = mData[h.id].obj /\ mData[h.id].obj \in Objects
    BY <1>1, <2>2 DEF Get, Reached, SlotTypeOK
  <2>6. QED
    BY <1>1, <2>1, <2>2, <2>3, <2>4, <2>5 DEF At
<1>2. CASE ~Resolves(h)
  <2>1. mData' = mData
    BY <1>2 DEF Remove
  <2>2. QED
    BY <1>2, <2>1 DEF Slots, At, Get
<1>3. QED
  BY <1>1, <1>2

(***************************************************************************)
(* The coroutines.  A coroutine that is allocated is in one slot, or is    *)
(* lost and in none; that needs nothing of the ids.  A coroutine that had  *)
(* its turn is behind the index, and one that is due is before it.         *)
(***************************************************************************)
CoTypes ==
  /\ phase \in {"idle", "step", "body", "clean"}
  /\ idx \in 0 .. IdMod
  /\ phase = "body" => idx \in Ids
  /\ state \in [Objects -> {"none", "suspended", "running", "dead"}]
  /\ auto \subseteq Objects
  /\ lost \subseteq Objects
  /\ due \subseteq Objects
  /\ turns \in [Objects -> Nat]

OneRuns ==
  /\ phase = "body" <=> In("running") # {}
  /\ \A c, d \in In("running") : c = d

InSlots ==
  /\ \A i \in Slots : At(i) # NullObject => state[At(i)] # "none" /\ At(i) \notin lost
  /\ \A i, j \in Slots : At(i) = At(j) /\ At(i) # NullObject => i = j
  /\ \A c \in lost : state[c] # "none"
  /\ \A c \in Objects : state[c] # "none" => c \in lost \/ \E i \in Slots : At(i) = c

Turns ==
  /\ \A c \in Objects : turns[c] \in {0, 1}
  /\ phase = "idle" => idx = 0
  /\ phase \in {"idle", "clean"} => due = {} /\ \A c \in Objects : turns[c] = 0
  /\ \A i \in Slots : At(i) # NullObject =>
       /\ turns[At(i)] = 1 => i < idx \/ (phase = "body" /\ i = idx)
       /\ At(i) \in due /\ turns[At(i)] = 0 =>
            /\ idx < i \/ (phase = "step" /\ i = idx)
            /\ state[At(i)] = "suspended"
  /\ \A c \in due : state[c] # "none"
  /\ overflown \/ \A c \in due : \E i \in Slots : At(i) = c

CoInv == CoTypes /\ OneRuns /\ InSlots /\ Turns

LEMMA InitCoInv == CoInit => CoInv
<1> SUFFICES ASSUME CoInit PROVE CoInv
  OBVIOUS
<1>1. Slots = {}
  BY InitReached DEF CoInit, Reached, SlotInit, Slots
<1>2. CoTypes
  BY SlotMapAssumption DEF CoInit, CoTypes
<1>3. OneRuns
  BY DEF CoInit, OneRuns, In
<1>4. InSlots /\ Turns
  BY <1>1 DEF CoInit, InSlots, Turns
<1>5. QED
  BY <1>2, <1>3, <1>4 DEF CoInv

LEMMA DestroyEffect ==
  ASSUME Reached, CoInv, NEW h, ~h.del, DestroyCoroutine(h)
  PROVE  /\ Slots' = Slots /\ overflown' = overflown /\ due' \subseteq due /\ auto' \subseteq auto
         /\ lost' \subseteq Objects
         /\ state' \in [Objects -> {"none", "suspended", "running", "dead"}]
         /\ In("running")' = In("running")
         /\ \A i \in Slots : At(i)' # NullObject => At(i)' = At(i) /\ state'[At(i)] = state[At(i)]
         /\ \A i \in Slots : At(i) \in due' => At(i)' = At(i)
         /\ \A c \in due' : state'[c] # "none"
         /\ InSlots'
<1> USE DEF CoInv
<1> DEFINE C == {Get(h)} \ {NullObject}
<1>1. /\ Remove(h) /\ state' = mco_destroy(C) /\ lost' = lost \cup (C \cap In("running"))
      /\ due' = due \ C /\ auto' = auto \ C
  BY DEF DestroyCoroutine
<1>2. overflown' = overflown /\ Slots' = Slots
  BY <1>1, RemoveAt DEF Remove
<1>3. CASE Resolves(h)
  <2>1. PICK k \in Slots, c \in Objects :
          /\ c = At(k) /\ C = {c} /\ c # NullObject /\ At(k)' = NullObject
          /\ \A i \in Slots \ {k} : At(i)' = At(i)
    BY <1>1, <1>3, RemoveAt, SlotMapAssumption
  <2>2. /\ state' = [state EXCEPT ![c] = IF state[c] # "running" THEN "none" ELSE @]
        /\ lost' = lost \cup (IF state[c] = "running" THEN {c} ELSE {})
        /\ due' = due \ {c}
    BY <1>1, <2>1 DEF mco_destroy, In, CoTypes
  <2>3. state' \in [Objects -> {"none", "suspended", "running", "dead"}] /\ lost' \subseteq Objects
    BY <2>2 DEF CoTypes
  <2>4. In("running")' = In("running")
    BY <2>2 DEF In, CoTypes
  <2>5. \A i \in Slots \ {k} : At(i) # NullObject =>
          At(i) \in Objects /\ At(i) # c /\ state'[At(i)] = state[At(i)]
    BY <2>1, <2>2, AtType DEF InSlots, CoTypes
  <2>6. InSlots'
    <3>1. \A i \in Slots : At(i)' # NullObject => state'[At(i)'] # "none" /\ At(i)' \notin lost'
      BY <2>1, <2>2, <2>5 DEF InSlots
    <3>2. \A i, j \in Slots : At(i)' = At(j)' /\ At(i)' # NullObject => i = j
      BY <2>1 DEF InSlots
    <3>3. \A d \in lost' : state'[d] # "none"
      BY <2>1, <2>2 DEF InSlots, CoTypes
    <3>4. ASSUME NEW d \in Objects, state'[d] # "none", d \notin lost'
          PROVE  \E i \in Slots : At(i)' = d
      <4>1. d # c /\ state[d] # "none" /\ d \notin lost
        BY <2>2, <3>4 DEF CoTypes
      <4>2. QED
        BY <2>1, <4>1 DEF InSlots
    <3>5. QED
      BY <1>2, <3>1, <3>2, <3>3, <3>4 DEF InSlots
  <2>7. \A d \in due' : state'[d] # "none"
    BY <2>1, <2>2 DEF CoTypes, Turns
  <2>8. QED
    BY <1>1, <1>2, <2>1, <2>2, <2>3, <2>4, <2>5, <2>6, <2>7
<1>4. CASE ~Resolves(h)
  <2>1. C = {} /\ \A i \in Slots : At(i)' = At(i)
    BY <1>1, <1>4, RemoveAt
  <2>2. state' = state /\ lost' = lost /\ due' = due /\ auto' = auto
    BY <1>1, <2>1 DEF mco_destroy, CoTypes
  <2>3. InSlots'
    BY <1>2, <2>1, <2>2 DEF InSlots
  <2>4. QED
    BY <1>2, <2>1, <2>2, <2>3 DEF In, CoTypes, Turns
<1>5. QED
  BY <1>3, <1>4

LEMMA DestroyCoInv ==
  ASSUME Reached, CoInv, NEW h, ~h.del, Destroy(h)
  PROVE  CoInv'
<1> USE DEF CoInv
<1>1. DestroyCoroutine(h) /\ phase' = phase /\ idx' = idx /\ turns' = turns
  BY DEF Destroy, roundVars
<1>2. CoTypes' /\ InSlots'
  BY <1>1, DestroyEffect DEF CoTypes
<1>3. OneRuns'
  BY <1>1, DestroyEffect DEF OneRuns
<1>4. Turns'
  <2>1. \A i \in Slots' : At(i)' # NullObject =>
          /\ turns'[At(i)'] = 1 => i < idx' \/ (phase' = "body" /\ i = idx')
          /\ At(i)' \in due' /\ turns'[At(i)'] = 0 =>
               /\ idx' < i \/ (phase' = "step" /\ i = idx')
               /\ state'[At(i)'] = "suspended"
    BY <1>1, DestroyEffect DEF Turns
  <2>2. overflown' \/ \A c \in due' : \E i \in Slots' : At(i)' = c
    BY <1>1, DestroyEffect DEF Turns
  <2>3. /\ \A c \in Objects : turns'[c] \in {0, 1}
        /\ phase' = "idle" => idx' = 0
        /\ phase' \in {"idle", "clean"} => due' = {} /\ \A c \in Objects : turns'[c] = 0
    BY <1>1, DestroyEffect DEF Turns
  <2>4. \A c \in due' : state'[c] # "none"
    BY <1>1, DestroyEffect
  <2>5. QED
    BY <2>1, <2>2, <2>3, <2>4 DEF Turns
<1>5. QED
  BY <1>2, <1>3, <1>4

LEMMA ReapCoInv ==
  ASSUME Reached, CoInv, Reap
  PROVE  CoInv'
<1> USE DEF CoInv
<1>1. /\ DestroyCoroutine(mData[idx].handle)
      /\ phase = "clean" /\ phase' = phase /\ idx' = idx + 1 /\ turns' = turns
  BY DEF Reap
<1>2. PICK c : c \in Candidate(In("dead") \cap auto)
  BY DEF Reap
<1>3. idx \in Slots /\ idx \in Ids /\ ~mData[idx].handle.del
  BY <1>2, CandidateIsAt, AtType DEF In
<1>4. idx' \in 0 .. IdMod
  BY <1>1, <1>3, SlotMapAssumption DEF Ids
<1>5. CoTypes' /\ InSlots'
  BY <1>1, <1>3, <1>4, DestroyEffect DEF CoTypes
<1>6. OneRuns'
  BY <1>1, <1>3, DestroyEffect DEF OneRuns
<1>7. due' = {} /\ \A d \in Objects : turns'[d] = 0
  BY <1>1, <1>3, DestroyEffect DEF Turns
<1>8. \A i \in Slots' : At(i)' # NullObject => At(i)' \in Objects
  BY <1>1, <1>3, DestroyEffect, AtType
<1>9. Turns'
  BY <1>1, <1>7, <1>8 DEF Turns
<1>10. QED
  BY <1>5, <1>6, <1>9

LEMMA DestroyAllCoInv ==
  ASSUME Reached, CoInv, DestroyAllCoroutines
  PROVE  CoInv'
<1> USE DEF CoInv
<1> DEFINE C == {At(i) : i \in Slots}
<1>1. /\ phase = "idle" /\ phase' = phase /\ idx' = idx /\ Clear
      /\ state' = mco_destroy(C) /\ auto' = {} /\ lost' = lost /\ due' = due /\ turns' = turns
  BY DEF DestroyAllCoroutines, roundVars
<1>2. Slots' = {}
  BY <1>1, EmptyMap DEF Clear, Slots
<1>3. \A c \in Objects : state'[c] = IF c \in C /\ state[c] # "running" THEN "none" ELSE state[c]
  BY <1>1 DEF mco_destroy
<1>4. state' \in [Objects -> {"none", "suspended", "running", "dead"}]
  BY <1>1 DEF mco_destroy, CoTypes
<1>5. CoTypes'
  BY <1>1, <1>4 DEF CoTypes
<1>6. In("running")' = In("running")
  BY <1>3 DEF In
<1>7. OneRuns'
  BY <1>1, <1>6 DEF OneRuns
<1>8. InSlots'
  <2>1. \A c \in lost : c \notin C
    BY SlotMapAssumption DEF InSlots, CoTypes
  <2>2. \A c \in Objects : state[c] # "running"
    BY <1>1 DEF OneRuns, In
  <2>3. \A c \in Objects : state'[c] # "none" => c \in lost
    BY <1>3, <2>2 DEF InSlots
  <2>4. \A c \in lost' : state'[c] # "none"
    BY <1>1, <1>3, <2>1 DEF InSlots, CoTypes
  <2>5. QED
    BY <1>1, <1>2, <2>3, <2>4 DEF InSlots
<1>9. Turns'
  BY <1>1, <1>2 DEF Turns
<1>10. QED
  BY <1>5, <1>7, <1>8, <1>9

\* while the ids last, the slot of a granted id is free or new
LEMMA GrantIsFree ==
  ASSUME SlotIInv, Reached, NEW o \in Objects, Add(o), ~overflown'
  PROVE  ~overflown /\ Overwritten = {}
<1>1. ~overflown /\ (mFreeIds = <<>> => mHighestUnrecycledId < IdMod)
  <2>1. mHighestUnrecycledId \in Nat /\ IdMod \in Nat
    BY SlotMapAssumption DEF Reached, SlotTypeOK
  <2>2. ~overflown /\ ~(mFreeIds = <<>> /\ mHighestUnrecycledId >= IdMod)
    BY DEF Add
  <2>3. QED
    BY <2>1, <2>2
<1>2. CASE mFreeIds # <<>>
  <2>1. mData[Granted.id].handle.del
    BY <1>1, <1>2, LastFree
  <2>2. QED
    BY <1>1, <2>1 DEF Overwritten, At
<1>3. CASE mFreeIds = <<>>
  <2>1. mHighestUnrecycledId \in 0 .. IdMod - 1
    BY <1>1, <1>3, SlotMapAssumption DEF Reached, SlotTypeOK
  <2>2. Granted.id = mHighestUnrecycledId
    BY <1>3, <2>1, ModSmall, SlotMapAssumption DEF Granted, MakeHandle
  <2>3. Granted.id \notin Slots
    BY <1>1, <2>1, <2>2 DEF SlotIInv, SlotInv, SlotsMatchIds
  <2>4. QED
    BY <1>1, <2>3 DEF Overwritten
<1>4. QED
  BY <1>2, <1>3

LEMMA CreateCoInv ==
  ASSUME SlotIInv, Reached, CoInv, NEW c \in Objects, NEW autodelete \in BOOLEAN,
         CreateManagedCoroutine(c, autodelete)
  PROVE  CoInv'
<1> USE DEF CoInv
<1>1. /\ phase \in {"idle", "body"} /\ Add(c)
      /\ state[c] = "none" /\ state' = [state EXCEPT ![c] = "suspended"]
      /\ auto' = (auto \ Overwritten) \cup (IF autodelete THEN {c} ELSE {})
      /\ turns' = [turns EXCEPT ![c] = 0]
      /\ lost' = lost \cup Overwritten
      /\ phase' = phase /\ idx' = idx /\ due' = due
  BY DEF CreateManagedCoroutine, mco_create, roundVars
<1>2. PICK g : g = Granted.id
  OBVIOUS
<1>3. /\ Slots' = Slots \cup {g} /\ g \in Ids /\ At(g)' = c
      /\ \A i \in Slots \ {g} : At(i)' = At(i)
  BY <1>1, <1>2, AddAt
<1>4. /\ c \notin lost /\ c \notin due
      /\ \A i \in Slots : At(i) # c
  BY <1>1, SlotMapAssumption DEF InSlots, Turns
<1>5. /\ \A o \in Overwritten :
           o \in Objects /\ g \in Slots /\ At(g) = o /\ o # c /\ state[o] # "none"
      /\ g \in Slots /\ At(g) # NullObject => At(g) \in Overwritten
  BY <1>2, <1>4, AtType DEF Overwritten, InSlots
<1>6. CoTypes'
  BY <1>1, <1>5 DEF CoTypes
<1>7. OneRuns'
  <2>1. In("running")' = In("running")
    BY <1>1 DEF In, CoTypes
  <2>2. QED
    BY <1>1, <2>1 DEF OneRuns
<1>8. \A d \in Objects \ {c} : state'[d] = state[d] /\ turns'[d] = turns[d]
  BY <1>1 DEF CoTypes
<1>9. state'[c] = "suspended" /\ turns'[c] = 0
  BY <1>1 DEF CoTypes
<1>10. ASSUME NEW i \in Slots' \ {g}
       PROVE  /\ i \in Slots
              /\ At(i)' = At(i)
              /\ At(i) # NullObject => At(i) \in Objects \ {c} /\ At(i) \notin Overwritten
  BY <1>3, <1>4, <1>5, AtType DEF InSlots
<1>11. InSlots'
  <2>1. \A i \in Slots' : At(i)' # NullObject => state'[At(i)'] # "none" /\ At(i)' \notin lost'
    BY <1>1, <1>3, <1>4, <1>5, <1>8, <1>9, <1>10 DEF InSlots
  <2>2. \A i, j \in Slots' : At(i)' = At(j)' /\ At(i)' # NullObject => i = j
    BY <1>3, <1>10 DEF InSlots
  <2>3. \A d \in lost' : state'[d] # "none"
    BY <1>1, <1>4, <1>5, <1>8 DEF InSlots, CoTypes
  <2>4. ASSUME NEW d \in Objects, state'[d] # "none", d \notin lost'
        PROVE  \E i \in Slots' : At(i)' = d
    <3>1. CASE d = c
      BY <1>3, <3>1
    <3>2. CASE d # c
      <4>1. PICK i \in Slots : At(i) = d
        BY <1>1, <1>8, <2>4, <3>2 DEF InSlots
      <4>2. i # g
        BY <1>1, <1>5, <2>4, <4>1, SlotMapAssumption
      <4>3. QED
        BY <1>3, <4>1, <4>2
    <3>3. QED
      BY <3>1, <3>2
  <2>5. QED
    BY <2>1, <2>2, <2>3, <2>4 DEF InSlots
<1>12. Turns'
  <2>1. \A i \in Slots' : At(i)' # NullObject =>
          /\ turns'[At(i)'] = 1 => i < idx' \/ (phase' = "body" /\ i = idx')
          /\ At(i)' \in due' /\ turns'[At(i)'] = 0 =>
               /\ idx' < i \/ (phase' = "step" /\ i = idx')
               /\ state'[At(i)'] = "suspended"
    <3>1. ASSUME NEW i \in Slots', At(i)' # NullObject, i # g
          PROVE  /\ turns'[At(i)'] = 1 => i < idx' \/ (phase' = "body" /\ i = idx')
                 /\ At(i)' \in due' /\ turns'[At(i)'] = 0 =>
                      /\ idx' < i \/ (phase' = "step" /\ i = idx')
                      /\ state'[At(i)'] = "suspended"
      <4>1. PICK d \in Objects \ {c} : d = At(i) /\ At(i)' = d /\ i \in Slots /\ d # NullObject
        <5>1. i \in Slots' \ {g}
          BY <3>1
        <5>2. i \in Slots /\ At(i)' = At(i)
          BY <1>10, <5>1
        <5>3. At(i) # NullObject
          BY <3>1, <5>2
        <5>4. At(i) \in Objects \ {c}
          BY <1>10, <5>1, <5>3
        <5>5. QED
          BY <5>2, <5>3, <5>4
      <4>2. state'[d] = state[d] /\ turns'[d] = turns[d]
        BY <1>8, <4>1
      <4>3. /\ turns[d] = 1 => i < idx \/ (phase = "body" /\ i = idx)
            /\ d \in due /\ turns[d] = 0 =>
                 /\ idx < i \/ (phase = "step" /\ i = idx)
                 /\ state[d] = "suspended"
        BY <4>1 DEF Turns
      <4>4. QED
        BY <1>1, <4>1, <4>2, <4>3
    <3>2. QED
      BY <1>1, <1>3, <1>4, <1>9, <3>1
  <2>2. /\ \A d \in Objects : turns'[d] \in {0, 1}
        /\ phase' = "idle" => idx' = 0
        /\ phase' \in {"idle", "clean"} => due' = {} /\ \A d \in Objects : turns'[d] = 0
    BY <1>1, <1>8, <1>9 DEF Turns
  <2>3. \A d \in due' : state'[d] # "none"
    BY <1>1, <1>4, <1>8 DEF Turns, CoTypes
  <2>4. ASSUME ~overflown', NEW d \in due' PROVE \E i \in Slots' : At(i)' = d
    <3>1. ~overflown /\ Overwritten = {} /\ d \in Objects
      BY <1>1, <2>4, GrantIsFree DEF CoTypes
    <3>2. PICK i \in Slots : At(i) = d
      BY <1>1, <2>4, <3>1 DEF Turns
    <3>3. i # g
      BY <1>5, <3>1, <3>2, SlotMapAssumption
    <3>4. QED
      BY <1>3, <3>2, <3>3
  <2>5. QED
    BY <2>1, <2>2, <2>3, <2>4 DEF Turns
<1>13. QED
  BY <1>6, <1>7, <1>11, <1>12

\* the steps of the loops that leave the slots alone
LEMMA SameSlots ==
  ASSUME UNCHANGED slotVars
  PROVE  Slots' = Slots /\ overflown' = overflown /\ \A i \in Slots : At(i)' = At(i)
BY DEF slotVars, mapVars, histVars, Slots, At

LEMMA BeginStepCoInv ==
  ASSUME Reached, CoInv, BeginStep
  PROVE  CoInv'
<1> USE DEF CoInv
<1>1. /\ phase = "idle" /\ phase' = "step" /\ idx' = idx
      /\ due' = {At(i) : i \in Slots} \cap In("suspended")
      /\ state' = state /\ auto' = auto /\ lost' = lost /\ turns' = turns
  BY DEF BeginStep
<1>2. Slots' = Slots /\ overflown' = overflown /\ \A i \in Slots : At(i)' = At(i)
  BY SameSlots DEF BeginStep
<1>3. \A d \in due' : d \in Objects /\ state[d] = "suspended" /\ \E i \in Slots : At(i) = d
  BY <1>1 DEF In
<1>4. idx = 0
  BY <1>1 DEF Turns
<1>5. CoTypes' /\ OneRuns' /\ InSlots'
  BY <1>1, <1>2, <1>3 DEF CoTypes, OneRuns, InSlots, In
<1>6. \A i \in Slots : i \in Nat /\ (At(i) # NullObject => At(i) \in Objects)
  BY AtType, SlotMapAssumption DEF Ids
<1>7. Turns'
  <2>1. ASSUME NEW i \in Slots', At(i)' # NullObject
        PROVE  /\ turns'[At(i)'] = 1 => i < idx' \/ (phase' = "body" /\ i = idx')
               /\ At(i)' \in due' /\ turns'[At(i)'] = 0 =>
                    /\ idx' < i \/ (phase' = "step" /\ i = idx')
                    /\ state'[At(i)'] = "suspended"
    <3>1. i \in Nat /\ At(i)' \in Objects
      BY <1>2, <1>6, <2>1
    <3>2. turns'[At(i)'] = 0
      BY <1>1, <3>1 DEF Turns
    <3>3. idx' = 0 /\ (At(i)' \in due' => state'[At(i)'] = "suspended")
      BY <1>1, <1>3, <1>4
    <3>4. QED
      BY <1>1, <3>1, <3>2, <3>3
  <2>2. QED
    BY <1>1, <1>2, <1>3, <2>1 DEF Turns
<1>8. QED
  BY <1>5, <1>7

LEMMA ResumeCoInv ==
  ASSUME Reached, CoInv, Resume
  PROVE  CoInv'
<1> USE DEF CoInv
<1>1. PICK c \in Objects :
        /\ c \in Candidate(In("suspended")) /\ state[c] = "suspended"
        /\ state' = [state EXCEPT ![c] = "running"] /\ turns' = [turns EXCEPT ![c] = @ + 1]
  <2>1. In("suspended") \in SUBSET Objects
    BY DEF In
  <2>2. QED
    BY <2>1, CandidateIsAt DEF Resume, Switch
<1>2. /\ phase = "step" /\ phase' = "body" /\ idx' = idx /\ auto' = auto /\ lost' = lost
      /\ due' = due
  BY DEF Resume
<1>3. Slots' = Slots /\ overflown' = overflown /\ \A i \in Slots : At(i)' = At(i)
  BY SameSlots DEF Resume
<1>4. idx \in Slots /\ idx \in Ids /\ At(idx) = c /\ c # NullObject
  <2>1. In("suspended") \in SUBSET Objects
    BY DEF In
  <2>2. QED
    BY <1>1, <2>1, CandidateIsAt, AtType, SlotMapAssumption
<1>5. turns[c] = 0
  BY <1>1, <1>2, <1>4, SlotMapAssumption DEF Turns, CoTypes
<1>6. /\ state'[c] = "running" /\ turns'[c] = 1
      /\ \A d \in Objects \ {c} : state'[d] = state[d] /\ turns'[d] = turns[d]
  BY <1>1, <1>5 DEF CoTypes
<1>7. CoTypes'
  BY <1>1, <1>2, <1>4 DEF CoTypes
<1>8. OneRuns'
  <2>1. In("running") = {}
    BY <1>2 DEF OneRuns
  <2>2. In("running")' = {c}
    BY <1>6, <2>1 DEF In
  <2>3. QED
    BY <1>2, <2>2 DEF OneRuns
<1>9. \A i \in Slots : At(i) # NullObject => At(i) \in Objects /\ (i # idx => At(i) # c)
  BY <1>4, AtType DEF InSlots
<1>10. InSlots'
  <2>1. \A d \in Objects : state'[d] # "none" <=> state[d] # "none"
    BY <1>1, <1>6
  <2>2. QED
    BY <1>2, <1>3, <1>9, <2>1 DEF InSlots, CoTypes
<1>11. Turns'
  <2>1. ASSUME NEW i \in Slots', At(i)' # NullObject
        PROVE  /\ turns'[At(i)'] = 1 => i < idx' \/ (phase' = "body" /\ i = idx')
               /\ At(i)' \in due' /\ turns'[At(i)'] = 0 =>
                    /\ idx' < i \/ (phase' = "step" /\ i = idx')
                    /\ state'[At(i)'] = "suspended"
    <3>1. CASE i = idx
      BY <1>2, <1>3, <1>4, <1>6, <3>1
    <3>2. CASE i # idx
      <4>1. PICK d \in Objects \ {c} : d = At(i) /\ At(i)' = d /\ i \in Slots
        BY <1>3, <1>9, <2>1, <3>2
      <4>2. /\ turns[d] = 1 => i < idx
            /\ d \in due /\ turns[d] = 0 => idx < i /\ state[d] = "suspended"
        BY <1>2, <2>1, <3>2, <4>1 DEF Turns
      <4>3. QED
        BY <1>2, <1>6, <4>1, <4>2
    <3>3. QED
      BY <3>1, <3>2
  <2>2. \A d \in Objects : turns'[d] \in {0, 1} /\ (state'[d] # "none" <=> state[d] # "none")
    BY <1>1, <1>6 DEF Turns
  <2>3. \A d \in due' : state'[d] # "none"
    BY <1>2, <2>2 DEF Turns, CoTypes
  <2>4. overflown' \/ \A d \in due' : \E i \in Slots' : At(i)' = d
    BY <1>2, <1>3 DEF Turns
  <2>5. QED
    BY <1>2, <2>1, <2>2, <2>3, <2>4 DEF Turns
<1>12. QED
  BY <1>7, <1>8, <1>10, <1>11

LEMMA BodyStopsCoInv ==
  ASSUME Reached, CoInv, BodyStops
  PROVE  CoInv'
<1> USE DEF CoInv
<1>1. PICK c \in Objects, to \in {"suspended", "dead"} :
        state[c] = "running" /\ state' = [state EXCEPT ![c] = to]
  BY DEF BodyStops, Switch
<1>2. /\ phase = "body" /\ phase' = "step" /\ idx' = idx + 1 /\ auto' = auto /\ lost' = lost
      /\ due' = due /\ turns' = turns
  BY DEF BodyStops
<1>3. Slots' = Slots /\ overflown' = overflown /\ \A i \in Slots : At(i)' = At(i)
  BY SameSlots DEF BodyStops
<1>4. idx \in Int /\ idx' \in 0 .. IdMod /\ \A i \in Slots : i \in Int
  BY <1>2, AtType, SlotMapAssumption DEF CoTypes, Ids
<1>5. state'[c] = to /\ \A d \in Objects \ {c} : state'[d] = state[d]
  BY <1>1 DEF CoTypes
<1>6. CoTypes'
  BY <1>1, <1>2, <1>4 DEF CoTypes
<1>7. OneRuns'
  <2>1. In("running")' = {}
    BY <1>1, <1>5 DEF In, OneRuns
  <2>2. QED
    BY <1>2, <2>1 DEF OneRuns
<1>8. \A d \in Objects : state'[d] # "none" <=> state[d] # "none"
  BY <1>1, <1>5
<1>9. \A i \in Slots : At(i) # NullObject => At(i) \in Objects
  BY AtType
<1>10. InSlots'
  BY <1>2, <1>3, <1>8, <1>9 DEF InSlots, CoTypes
<1>11. Turns'
  <2>1. ASSUME NEW i \in Slots', At(i)' # NullObject
        PROVE  /\ turns'[At(i)'] = 1 => i < idx' \/ (phase' = "body" /\ i = idx')
               /\ At(i)' \in due' /\ turns'[At(i)'] = 0 =>
                    /\ idx' < i \/ (phase' = "step" /\ i = idx')
                    /\ state'[At(i)'] = "suspended"
    <3>1. PICK d \in Objects : d = At(i) /\ At(i)' = d /\ i \in Slots /\ i \in Int
      BY <1>3, <1>4, <1>9, <2>1
    <3>2. /\ turns[d] = 1 => i < idx \/ i = idx
          /\ d \in due /\ turns[d] = 0 => idx < i /\ state[d] = "suspended"
      BY <1>2, <2>1, <3>1 DEF Turns
    <3>3. d \in due /\ turns[d] = 0 => state'[d] = "suspended"
      BY <1>1, <1>5, <3>2
    <3>4. QED
      BY <1>2, <1>4, <3>1, <3>2, <3>3
  <2>2. \A d \in due' : state'[d] # "none"
    BY <1>2, <1>8 DEF Turns, CoTypes
  <2>3. overflown' \/ \A d \in due' : \E i \in Slots' : At(i)' = d
    BY <1>2, <1>3 DEF Turns
  <2>4. QED
    BY <1>2, <2>1, <2>2, <2>3 DEF Turns
<1>12. QED
  BY <1>6, <1>7, <1>10, <1>11

LEMMA PassOverCoInv ==
  ASSUME Reached, CoInv, PassOver
  PROVE  CoInv'
<1> USE DEF CoInv
<1>1. /\ phase \in {"step", "clean"} /\ phase' = phase /\ idx' = idx + 1 /\ idx \in Slots
      /\ state' = state /\ auto' = auto /\ lost' = lost /\ due' = due /\ turns' = turns
  BY DEF PassOver, BelowSize
<1>2. Slots' = Slots /\ overflown' = overflown /\ \A i \in Slots : At(i)' = At(i)
  BY SameSlots DEF PassOver
<1>3. idx \in Int /\ idx' \in 0 .. IdMod /\ \A i \in Slots : i \in Int
  BY <1>1, AtType, SlotMapAssumption DEF CoTypes, Ids
<1>4. CoTypes' /\ OneRuns' /\ InSlots'
  BY <1>1, <1>2, <1>3 DEF CoTypes, OneRuns, InSlots, In
<1>5. \A i \in Slots : At(i) # NullObject => At(i) \in Objects
  BY AtType
<1>6. phase = "step" /\ At(idx) # NullObject => state[At(idx)] # "suspended"
  BY <1>1, <1>5 DEF PassOver, Candidate, BelowSize, In
<1>7. Turns'
  <2>1. ASSUME NEW i \in Slots', At(i)' # NullObject
        PROVE  /\ turns'[At(i)'] = 1 => i < idx' \/ (phase' = "body" /\ i = idx')
               /\ At(i)' \in due' /\ turns'[At(i)'] = 0 =>
                    /\ idx' < i \/ (phase' = "step" /\ i = idx')
                    /\ state'[At(i)'] = "suspended"
    <3>1. PICK d \in Objects : d = At(i) /\ At(i)' = d /\ i \in Slots /\ i \in Int
      BY <1>2, <1>3, <1>5, <2>1
    <3>2. CASE phase = "step"
      <4>1. /\ turns[d] = 1 => i < idx
            /\ d \in due /\ turns[d] = 0 => (idx < i \/ i = idx) /\ state[d] = "suspended"
        BY <2>1, <3>1, <3>2 DEF Turns
      <4>2. i = idx => state[d] # "suspended"
        BY <1>6, <2>1, <3>1, <3>2
      <4>3. QED
        BY <1>1, <1>3, <3>1, <3>2, <4>1, <4>2
    <3>3. CASE phase = "clean"
      BY <1>1, <3>1, <3>3 DEF Turns
    <3>4. QED
      BY <1>1, <3>2, <3>3
  <2>2. QED
    BY <1>1, <1>2, <2>1 DEF Turns
<1>8. QED
  BY <1>4, <1>7

LEMMA EndLoopCoInv ==
  ASSUME Reached, CoInv, EndLoop
  PROVE  CoInv'
<1> USE DEF CoInv
<1>1. /\ phase \in {"step", "clean"} /\ phase' \in {"clean", "idle"} /\ idx' = 0
      /\ due' = {} /\ turns' = [c \in Objects |-> 0]
      /\ state' = state /\ auto' = auto /\ lost' = lost
  BY DEF EndLoop
<1>2. Slots' = Slots /\ overflown' = overflown /\ \A i \in Slots : At(i)' = At(i)
  BY SameSlots DEF EndLoop
<1>3. CoTypes'
  BY <1>1, SlotMapAssumption DEF CoTypes
<1>4. OneRuns' /\ InSlots'
  BY <1>1, <1>2 DEF OneRuns, InSlots, In
<1>5. \A i \in Slots' : At(i)' # NullObject => At(i)' \in Objects
  BY <1>2, AtType
<1>6. Turns'
  BY <1>1, <1>5 DEF Turns
<1>7. QED
  BY <1>3, <1>4, <1>6

LEMMA NextCoInv == SlotIInv /\ Reached /\ CoInv /\ [CoNext]_mgrVars => CoInv'
<1> SUFFICES ASSUME SlotIInv, Reached, CoInv, [CoNext]_mgrVars PROVE CoInv'
  OBVIOUS
<1>1. CASE Round
  BY <1>1, BeginStepCoInv, ResumeCoInv, BodyStopsCoInv, PassOverCoInv, ReapCoInv, EndLoopCoInv
     DEF Round
<1>2. ASSUME NEW c \in Objects, NEW autodelete \in BOOLEAN, CreateManagedCoroutine(c, autodelete)
      PROVE  CoInv'
  BY <1>2, CreateCoInv
<1>3. ASSUME NEW h \in {p.handle : p \in live} \cup stale, Destroy(h) PROVE CoInv'
  <2>1. ~h.del
    BY DEF Reached, SlotsReached
  <2>2. QED
    BY <1>3, <2>1, DestroyCoInv
<1>4. CASE DestroyAllCoroutines
  BY <1>4, DestroyAllCoInv
<1>5. CASE UNCHANGED mgrVars
  <2>1. UNCHANGED slotVars /\ UNCHANGED <<phase, idx, state, auto, lost, due, turns>>
    BY <1>5 DEF mgrVars, coVars, roundVars
  <2>2. Slots' = Slots /\ overflown' = overflown /\ \A i \in Slots : At(i)' = At(i)
    BY <2>1, SameSlots
  <2>3. CoTypes' /\ OneRuns' /\ InSlots' /\ Turns'
    BY <2>1, <2>2 DEF CoInv, CoTypes, OneRuns, InSlots, Turns, In
  <2>4. QED
    BY <2>3 DEF CoInv
<1>6. QED
  BY <1>1, <1>2, <1>3, <1>4, <1>5 DEF CoNext

LEMMA Invariant == CoSpec => [](SlotIInv /\ Reached /\ CoInv)
BY SlotsInvariant, InitCoInv, NextCoInv, PTL DEF CoSpec

\* Every variable keeps its type, and one coroutine runs at most.
THEOREM CoTypeCorrect == CoSpec => []CoTypeOK
<1>1. Reached /\ CoInv => CoTypeOK
  <2> SUFFICES ASSUME Reached, CoInv PROVE CoTypeOK
    OBVIOUS
  <2>1. Cardinality(In("running")) = IF phase = "body" THEN 1 ELSE 0
    <3>1. CASE phase = "body"
      <4>1. PICK c : In("running") = {c}
        BY <3>1 DEF CoInv, OneRuns
      <4>2. QED
        BY <3>1, <4>1, FS_Singleton
    <3>2. CASE phase # "body"
      <4>1. In("running") = {}
        BY <3>2 DEF CoInv, OneRuns
      <4>2. QED
        BY <3>2, <4>1, FS_EmptySet
    <3>3. QED
      BY <3>1, <3>2
  <2>2. QED
    BY <2>1 DEF Reached, CoInv, CoTypes, CoTypeOK, In
<1>2. QED
  BY Invariant, <1>1, PTL

\* What is allocated is what handles reach or what was removed while it ran.
THEOREM NothingIsForgotten == CoSpec => []NothingDangles
<1>1. SlotIInv /\ Reached /\ CoInv => NothingDangles
  <2> SUFFICES ASSUME SlotIInv, Reached, CoInv, ~overflown
               PROVE  Objects \ In("none") = Managed \cup lost
    BY DEF NothingDangles
  <2>1. ASSUME NEW p \in live
        PROVE  p.handle.id \in Slots /\ At(p.handle.id) = p.obj /\ p.obj \in Objects
    BY DEF SlotIInv, SlotInv, LiveInSlots, Resolves, At, SlotTypeOK
  <2>2. ASSUME NEW c \in Objects, state[c] # "none" PROVE c \in Managed \cup lost
    <3>1. CASE c \in lost
      BY <3>1
    <3>2. ASSUME NEW i \in Slots, At(i) = c PROVE c \in Managed
      BY <3>2, AtType, SlotMapAssumption DEF Managed
    <3>3. QED
      BY <2>2, <3>1, <3>2 DEF CoInv, InSlots
  <2>3. ASSUME NEW c \in Managed PROVE c \in Objects /\ state[c] # "none"
    BY <2>1, SlotMapAssumption DEF Managed, CoInv, InSlots
  <2>4. ASSUME NEW c \in lost PROVE c \in Objects /\ state[c] # "none"
    BY DEF CoInv, InSlots, CoTypes
  <2>5. QED
    BY <2>2, <2>3, <2>4 DEF In
<1>2. QED
  BY Invariant, <1>1, PTL

\* A round resumes each coroutine that was waiting, once.
THEOREM TurnsAreFair == CoSpec => []OneTurnEach
<1>1. SlotIInv /\ Reached /\ CoInv => OneTurnEach
  <2> SUFFICES ASSUME SlotIInv, Reached, CoInv, ~overflown, NEW c \in Objects
               PROVE  /\ turns[c] <= 1
                      /\ phase = "step" /\ ~BelowSize /\ c \in due => turns[c] = 1
    BY DEF OneTurnEach
  <2>1. turns[c] \in {0, 1}
    BY DEF CoInv, Turns
  <2>2. ASSUME phase = "step", ~BelowSize, c \in due, turns[c] = 0 PROVE FALSE
    <3>1. PICK i \in Slots : At(i) = c /\ (idx < i \/ i = idx)
      BY <2>2, SlotMapAssumption DEF CoInv, Turns
    <3>2. Slots = 0 .. mHighestUnrecycledId - 1 /\ mHighestUnrecycledId \in Nat /\ idx \in Nat
      BY SlotMapAssumption DEF SlotIInv, SlotInv, SlotsMatchIds, SlotTypeOK, CoInv, CoTypes
    <3>3. QED
      BY <2>2, <3>1, <3>2 DEF BelowSize
  <2>3. QED
    BY <2>1, <2>2
<1>2. QED
  BY Invariant, <1>1, PTL

\* With the theorems of SlotMapProofs: whatever bodies and owners do to each other's
\* coroutines, a live handle finds its coroutine, a stale one finds nothing, and the
\* loops of the manager, which go over the slots, meet every coroutine alive.
THEOREM HandlesAreWeak == CoSpec => [](LiveResolves /\ StaleIsNull /\ IterationIsLive)
<1>1. CoSpec => SlotSpec
  BY ManagerImplementsSlotMap DEF ImplementsSlotMap
<1>2. QED
  BY <1>1, LiveHandlesResolve, StaleHandlesAreNull, IterationIsExact, PTL
=============================================================================
