------------------------- MODULE MCCapabilityScope -------------------------
(***************************************************************************)
(* Small instances of CapabilityScope for TLC.  The definitions are the    *)
(* fewest in which requirements can turn around.                           *)
(***************************************************************************)
EXTENDS CapabilityScope

CONSTANTS k1, k2

Def(c, D) == [id |-> c, dependencies |-> D]

(* Two capabilities that may require each other.                           *)
PairDefinitions == { Def(1, {}), Def(1, {2}), Def(2, {}), Def(2, {1}) }

(* A consumer 1 of 2, and two providers that may require each other.       *)
ChainDefinitions == { Def(1, {2}), Def(2, {}), Def(2, {3}), Def(3, {}), Def(3, {2}) }

(* Bound: past two publications one caller at most is busy, the second one *)
(* if there is only the root; past three there is only the root, as far as *)
(* a teardown needs that cannot be planned.                                *)
Focus ==
  /\ Len(published) > 2 => calls[k1] = Idle \/ (Len(path) = 2 /\ calls[k2] = Idle)
  /\ Len(published) > 3 => Len(path) = 1
=============================================================================
