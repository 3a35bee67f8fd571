-------------------------- MODULE MCWorkflowGraph --------------------------
(***************************************************************************)
(* WorkflowGraph and WorkflowReplay on a small instance.                   *)
(***************************************************************************)
EXTENDS WorkflowReplay, TLC

CONSTANTS t1, t2, t3, p1, p2

MCBatches ==
  { <<m>> : m \in Mutation } \cup { <<m, n>> : m, n \in Mutation }

Symmetry == Permutations(Id) \cup Permutations(Planner)
=============================================================================
