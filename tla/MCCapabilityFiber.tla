------------------------- MODULE MCCapabilityFiber -------------------------
(***************************************************************************)
(* Small instances of CapabilityFiber for TLC.                             *)
(***************************************************************************)
EXTENDS CapabilityFiber, TLC

Def(c, D) == [id |-> c, dependencies |-> D]

(* The application provides 1, fiber 2 makes 2 of it and fiber 1 makes 3   *)
(* of 2: identifiers run against the dependencies.                         *)
Chain == 1 :> Def(3, {2}) @@ 2 :> Def(2, {1})
=============================================================================
