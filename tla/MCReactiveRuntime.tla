------------------------- MODULE MCReactiveRuntime -------------------------
(***************************************************************************)
(* Small instances of ReactiveRuntime for TLC, over the same fibers.       *)
(***************************************************************************)
EXTENDS ReactiveRuntime, MCCapabilityFiber

(* Bound: operations of the coordinator and calls by others, together.     *)
Focus == operations + calls <= 3
=============================================================================
