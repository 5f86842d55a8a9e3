------------------------- MODULE MCManagedCoroutines -------------------------
(***************************************************************************)
(* Model values for ManagedCoroutines: three coroutines over two ids, so   *)
(* that the ids run out, and versions that wrap.                           *)
(***************************************************************************)
EXTENDS ManagedCoroutines, TLC

CONSTANTS o1, o2, o3

ThreeObjects == {o1, o2, o3}
=============================================================================
