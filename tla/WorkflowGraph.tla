--------------------------- MODULE WorkflowGraph ---------------------------
(***************************************************************************)
(* The versioned workflow aggregate of crates/workflow-graph: a topology   *)
(* that planners extend by atomic batches under an optimistic revision     *)
(* check, and completion facts that an executor records independently.     *)
(*                                                                         *)
(* A planner works on a snapshot it took earlier; other planners' batches  *)
(* and completions happen between its read and its submission.  A          *)
(* completion does not advance the revision, so a snapshot can be current  *)
(* by revision and still be unaware of completed tasks.                    *)
(***************************************************************************)
EXTENDS WorkflowTopology

CONSTANTS
  Planner,      \* clients that hold snapshots and submit batches
  Batches,      \* the mutation batches planners may submit
  MaxRevision   \* the last representable Revision (u64::MAX in the code)

ASSUME BatchesAssumption == Batches \subseteq Seq(Mutation)
ASSUME RevisionAssumption == MaxRevision \in Nat

VARIABLES
  tasks,          \* topology.tasks
  dependencies,   \* topology.dependencies, {} for a task without an entry
  completed,      \* facts.completed
  completionLog,  \* facts.completion_log
  revision,       \* topology_revision
  mutationLog,    \* mutation_log
  snapshot        \* what each planner last read of the topology

topology == <<tasks, dependencies, revision, mutationLog>>
facts    == <<completed, completionLog>>
vars     == <<topology, facts, snapshot>>

-----------------------------------------------------------------------------
CurrentGraph == Graph(tasks, dependencies, completed)

NextRevisionUnchanged == revision

(* Revision::checked_next.                                                 *)
RevisionAvailable == revision < MaxRevision
NextRevision      == revision + 1

RecordOffByOne(b) ==
  [base_revision |-> revision, resulting_revision |-> revision, mutations |-> b]

Record(b) ==
  [base_revision |-> revision, resulting_revision |-> NextRevision, mutations |-> b]

PrerequisitesCompleted(t) == dependencies[t] \subseteq completed

ReadyTasks == Ready(CurrentGraph)

-----------------------------------------------------------------------------
CurrentSnapshot ==
  [revision |-> revision, tasks |-> tasks, dependencies |-> dependencies]

Init ==
  /\ tasks = {}
  /\ dependencies = [t \in Id |-> {}]
  /\ completed = {}
  /\ completionLog = <<>>
  /\ revision = 0
  /\ mutationLog = <<>>
  /\ snapshot = [p \in Planner |-> CurrentSnapshot]

(* A planner reads the topology and its revision.                          *)
ReadTopology(p) ==
  /\ snapshot' = [snapshot EXCEPT ![p] = CurrentSnapshot]
  /\ UNCHANGED <<topology, facts>>

(* apply_batch: all of the batch or none of it.                            *)
ApplyBatch(p, b) ==
  /\ snapshot[p].revision = revision
  /\ RevisionAvailable
  /\ BatchAccepted(CurrentGraph, b)
  /\ tasks' = TasksAfter(CurrentGraph, b, Len(b))
  /\ dependencies' = DependenciesAfter(CurrentGraph, b, Len(b))
  /\ revision' = NextRevision
  /\ mutationLog' = Append(mutationLog, Record(b))
  /\ UNCHANGED <<facts, snapshot>>

(* complete: the executor records that a task is done.                     *)
Complete(t) ==
  /\ t \in tasks
  /\ t \notin completed
  /\ PrerequisitesCompleted(t)
  /\ completed' = completed \cup {t}
  /\ completionLog' = Append(completionLog, t)
  /\ UNCHANGED <<topology, snapshot>>

Next ==
  \/ \E p \in Planner : ReadTopology(p)
  \/ \E p \in Planner, b \in Batches : ApplyBatch(p, b)
  \/ \E t \in Id : Complete(t)

Spec == Init /\ [][Next]_vars

-----------------------------------------------------------------------------
Snapshot == [revision : Nat, tasks : SUBSET Id, dependencies : [Id -> SUBSET Id]]

MutationRecord ==
  [base_revision : Nat, resulting_revision : Nat, mutations : Seq(Mutation)]

(* Type invariant of the aggregate and of the planners' snapshots.         *)
TypeOK ==
  /\ tasks \subseteq Id
  /\ dependencies \in [Id -> SUBSET Id]
  /\ completed \subseteq Id
  /\ completionLog \in Seq(Id)
  /\ revision \in 0..MaxRevision
  /\ mutationLog \in Seq(MutationRecord)
  /\ snapshot \in [Planner -> Snapshot]

(* A completed task never rests on an unfinished prerequisite: neither the *)
(* executor (complete) nor a planner that does not know of the completion  *)
(* (apply_batch) can leave one behind.                                     *)
CompletionClosed ==
  /\ completed \subseteq tasks
  /\ \A t \in completed : dependencies[t] \subseteq completed

(* The completion log is the completed set in an order replay can follow:  *)
(* no task twice, and each task after all of its prerequisites.            *)
CompletionOrdered ==
  /\ completed = { completionLog[i] : i \in 1..Len(completionLog) }
  /\ \A i, j \in 1..Len(completionLog) :
       /\ completionLog[i] = completionLog[j] => i = j
       /\ completionLog[j] \in dependencies[completionLog[i]] => j < i

(* The topology is a DAG over existing tasks.                              *)
TopologyIsDag ==
  /\ \A t \in Id : dependencies[t] # {} => t \in tasks
  /\ \A t \in Id : dependencies[t] \subseteq tasks
  /\ Acyclic(tasks, dependencies)

(* A workflow with unfinished work always offers a ready task: the runtime *)
(* that picks from ready_tasks is never stuck on the graph itself.         *)
UnfinishedWorkIsReady ==
  tasks \ completed # {} => ReadyTasks # {}

(* A revision names one topology: a planner whose snapshot passes the      *)
(* optimistic check of apply_batch has seen exactly the topology it edits. *)
RevisionNamesTopology ==
  \A p \in Planner :
    /\ snapshot[p].revision <= revision
    /\ snapshot[p].revision = revision =>
         /\ snapshot[p].tasks = tasks
         /\ snapshot[p].dependencies = dependencies

(* Accepted records chain from revision 0 without a gap, which is what     *)
(* replay_from demands of them.                                            *)
LogChains ==
  /\ Len(mutationLog) = revision
  /\ \A i \in 1..Len(mutationLog) :
       /\ mutationLog[i].base_revision = i - 1
       /\ mutationLog[i].resulting_revision = i

(* What a step may never do: rewrite the prerequisites of a completed      *)
(* task, drop a task or an edge, or forget a completion.                   *)
HistoryIsFrozen ==
  [][ /\ \A t \in completed : dependencies'[t] = dependencies[t]
      /\ tasks \subseteq tasks'
      /\ \A t \in Id : dependencies[t] \subseteq dependencies'[t]
      /\ completed \subseteq completed' ]_vars
=============================================================================
