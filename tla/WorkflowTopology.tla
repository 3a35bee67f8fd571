-------------------------- MODULE WorkflowTopology --------------------------
(***************************************************************************)
(* The graph value of crates/workflow-graph: tasks, their dependencies and *)
(* the completed ones, and what apply_batch and complete accept and do.    *)
(***************************************************************************)
EXTENDS Integers, Sequences, FiniteSets

CONSTANT Id  \* task identities

AddTask(t)          == [kind |-> "AddTask", task |-> t]
AddDependency(t, d) == [kind |-> "AddDependency", task |-> t, on |-> d]

Mutation == { AddTask(t) : t \in Id } \cup { AddDependency(t, d) : t, d \in Id }

(* A graph value: the part of the aggregate that mutations read or write.  *)

Graph(T, D, C) == [tasks |-> T, dependencies |-> D, completed |-> C]
EmptyGraph     == Graph({}, [t \in Id |-> {}], {})

AcyclicSelfOnly(T, D) == \A t \in T : t \notin D[t]

(* No set of tasks waits only on itself: cycle_path finds nothing.         *)
Acyclic(T, D) ==
  \A S \in SUBSET T : S # {} => \E t \in S : D[t] \cap S = {}

(* The candidate after the first n mutations of batch b.  Mutations only   *)
(* add, so the candidate is the graph and everything added so far.         *)
TasksAfter(g, b, n) ==
  g.tasks \cup { b[i].task : i \in { j \in 1..n : b[j].kind = "AddTask" } }

DependenciesAfter(g, b, n) ==
  [t \in Id |-> g.dependencies[t] \cup
     { b[i].on : i \in { j \in 1..n : b[j].kind = "AddDependency" /\ b[j].task = t } }]

AddTaskAcceptedByGraph(g, b, n) == b[n].task \notin g.tasks

AddTaskAccepted(g, b, n) ==
  b[n].task \notin TasksAfter(g, b, n - 1)

AddDependencyToCompleted(g, b, n) ==
  /\ {b[n].task, b[n].on} \subseteq TasksAfter(g, b, n - 1)
  /\ b[n].on \notin DependenciesAfter(g, b, n - 1)[b[n].task]
  /\ Acyclic(TasksAfter(g, b, n - 1), DependenciesAfter(g, b, n))

AddDependencyOnUnknown(g, b, n) ==
  /\ b[n].task \in TasksAfter(g, b, n - 1) \ g.completed
  /\ b[n].on \notin DependenciesAfter(g, b, n - 1)[b[n].task]
  /\ Acyclic(TasksAfter(g, b, n - 1), DependenciesAfter(g, b, n))

AddDependencyAccepted(g, b, n) ==
  /\ b[n].task \in TasksAfter(g, b, n - 1)
  /\ b[n].on \in TasksAfter(g, b, n - 1)
  /\ b[n].task \notin g.completed
  /\ b[n].on \notin DependenciesAfter(g, b, n - 1)[b[n].task]
  /\ Acyclic(TasksAfter(g, b, n - 1), DependenciesAfter(g, b, n))

MutationAccepted(g, b, n) ==
  \/ b[n].kind = "AddTask"       /\ AddTaskAccepted(g, b, n)
  \/ b[n].kind = "AddDependency" /\ AddDependencyAccepted(g, b, n)

BatchAccepted(g, b) ==
  /\ b # <<>>
  /\ \A n \in 1..Len(b) : MutationAccepted(g, b, n)
  /\ Acyclic(TasksAfter(g, b, Len(b)), DependenciesAfter(g, b, Len(b)))

AfterBatch(g, b) ==
  Graph(TasksAfter(g, b, Len(b)), DependenciesAfter(g, b, Len(b)), g.completed)

ReadyWithoutDependencies(g) == { t \in g.tasks \ g.completed : g.dependencies[t] = {} }

(* ready_tasks: unfinished tasks whose dependencies are all completed.     *)
Ready(g) == { t \in g.tasks \ g.completed : g.dependencies[t] \subseteq g.completed }
=============================================================================
