----------------------------- MODULE ConnLease ------------------------------
(***************************************************************************)
(* What the connection pool promises, whatever becomes of the connections: *)
(* a slot is leased to one holder at a time, a holder has at most one      *)
(* lease in its life, and gives it back by itself; only the death of the   *)
(* process takes leases away.                                              *)
(***************************************************************************)
CONSTANTS
  Slots,
  Holders,
  None      \* no holder

VARIABLES
  lease,  \* who has the slot
  past    \* the holders that will have no lease any more

leaseVars == <<lease, past>>

Init ==
  /\ lease = [s \in Slots |-> None]
  /\ past = {}

Holding(h) == \E s \in Slots : lease[s] = h

Grant(s, h) ==
  /\ lease[s] = None
  /\ h \notin past
  /\ ~Holding(h)
  /\ lease' = [lease EXCEPT ![s] = h]
  /\ UNCHANGED past

Return(s) ==
  /\ lease[s] # None
  /\ lease' = [lease EXCEPT ![s] = None]
  /\ past' = past \cup {lease[s]}

\* refused, out of time, or granted and returned in the same step
GiveUp(h) ==
  /\ ~Holding(h)
  /\ past' = past \cup {h}
  /\ UNCHANGED lease

ProcessEnds ==
  /\ lease' = [s \in Slots |-> None]
  /\ past' \in SUBSET Holders
  /\ past \subseteq past'
  /\ {h \in Holders : Holding(h)} \subseteq past'

Next ==
  \/ \E s \in Slots : Return(s) \/ \E h \in Holders : Grant(s, h)
  \/ \E h \in Holders : GiveUp(h)
  \/ ProcessEnds

Spec == Init /\ [][Next]_leaseVars

-----------------------------------------------------------------------------
\* What it comes to: a holder has at most one slot, and none once it is past.
OneLeaseEach ==
  /\ lease \in [Slots -> Holders \cup {None}] /\ past \subseteq Holders
  /\ \A s, r \in Slots : lease[s] = lease[r] /\ lease[s] # None => s = r
  /\ \A h \in past : ~Holding(h)
=============================================================================
