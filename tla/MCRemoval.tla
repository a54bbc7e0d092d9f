------------------------------ MODULE MCRemoval -----------------------------
(* Small instances of Removal: one actor who may come back to one of two   *)
(* groups.  Calls that may be in flight are alike.                         *)
EXTENDS Removal, TLC

CONSTANTS ward, hall

Symmetry == Permutations(RemoveCalls) \cup Permutations(GrantCalls)

TwiceAtWard == [g \in Groups |-> IF g = ward THEN 2 ELSE 1]
=============================================================================
