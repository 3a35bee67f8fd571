------------------------ MODULE WorkflowGraphProofs ------------------------
(***************************************************************************)
(* Proofs about WorkflowGraph and WorkflowReplay, for every set of tasks and planners and for *)
(* batches of every length.                                                *)
(***************************************************************************)
EXTENDS WorkflowReplay, WellFoundedInduction, TLAPS

(* What a mutation looks like, by its kind.                                *)
LEMMA MutationForm ==
  ASSUME NEW m \in Mutation
  PROVE  /\ m.kind \in {"AddTask", "AddDependency"}
         /\ m.task \in Id
         /\ m.kind = "AddDependency" => m.on \in Id
BY DEF Mutation, AddTask, AddDependency

LEMMA BatchForm ==
  ASSUME NEW b \in Batches
  PROVE  /\ b \in Seq(Mutation)
         /\ Len(b) \in Nat
         /\ \A i \in 1..Len(b) : b[i] \in Mutation
BY BatchesAssumption

(* An accepted batch turns one graph over Id into another one: it keeps    *)
(* every task and edge, gives no completed task a new prerequisite, and    *)
(* leaves all edges between tasks that exist.                              *)
LEMMA BatchEffect ==
  ASSUME TypeOK, TopologyIsDag, NEW b \in Batches, BatchAccepted(CurrentGraph, b),
         NEW T, T = TasksAfter(CurrentGraph, b, Len(b)),
         NEW D, D = DependenciesAfter(CurrentGraph, b, Len(b))
  PROVE  /\ T \subseteq Id
         /\ D \in [Id -> SUBSET Id]
         /\ tasks \subseteq T
         /\ \A t \in Id : dependencies[t] \subseteq D[t]
         /\ \A t \in completed : D[t] = dependencies[t]
         /\ \A t \in Id : D[t] \subseteq T /\ (D[t] # {} => t \in T)
         /\ Acyclic(T, D)
<1> DEFINE g == CurrentGraph
           Added(n) == { b[i].task : i \in { j \in 1..n : b[j].kind = "AddTask" } }
           Edges(n, t) == { b[i].on : i \in { j \in 1..n : /\ b[j].kind = "AddDependency"
                                                          /\ b[j].task = t } }
<1>1. g.tasks = tasks /\ g.dependencies = dependencies /\ g.completed = completed
  BY DEF CurrentGraph, Graph
<1>2. /\ T = tasks \cup Added(Len(b))
      /\ D = [t \in Id |-> dependencies[t] \cup Edges(Len(b), t)]
  BY <1>1 DEF TasksAfter, DependenciesAfter
<1>3. \A i \in 1..Len(b) : /\ b[i].kind \in {"AddTask", "AddDependency"}
                           /\ b[i].task \in Id
                           /\ b[i].kind = "AddDependency" => b[i].on \in Id
  BY BatchForm, MutationForm
<1>4. T \subseteq Id
  BY <1>2, <1>3 DEF TypeOK
<1>5. D \in [Id -> SUBSET Id]
  <2>1. \A t \in Id : Edges(Len(b), t) \subseteq Id
    BY <1>3
  <2>2. QED BY <1>2, <2>1 DEF TypeOK
<1>6. ASSUME NEW i \in 1..Len(b), b[i].kind = "AddDependency"
      PROVE  b[i].task \in T \ completed /\ b[i].on \in T
  <2>1. AddDependencyAccepted(g, b, i)
    BY <1>6 DEF BatchAccepted, MutationAccepted
  <2>2. TasksAfter(g, b, i - 1) = tasks \cup Added(i - 1)
    BY <1>1 DEF TasksAfter
  <2>3. 1..(i - 1) \subseteq 1..Len(b)
    BY BatchForm
  <2>4. Added(i - 1) \subseteq Added(Len(b))
    BY <2>3
  <2>5. QED BY <1>1, <1>2, <2>1, <2>2, <2>4 DEF AddDependencyAccepted
<1>7. \A t \in completed : D[t] = dependencies[t]
  <2>1. SUFFICES ASSUME NEW t \in completed PROVE Edges(Len(b), t) = {}
    BY <1>2 DEF TypeOK
  <2>2. QED BY <1>6
<1>8. \A t \in Id : D[t] \subseteq T /\ (D[t] # {} => t \in T)
  <2>1. TAKE t \in Id
  <2>2. D[t] = dependencies[t] \cup Edges(Len(b), t)
    BY <1>2
  <2>3. Edges(Len(b), t) \subseteq T /\ (Edges(Len(b), t) # {} => t \in T)
    BY <1>6
  <2>4. dependencies[t] \subseteq tasks /\ (dependencies[t] # {} => t \in tasks)
    BY DEF TopologyIsDag
  <2>5. QED BY <1>2, <2>2, <2>3, <2>4
<1>9. Acyclic(T, D)
  BY DEF BatchAccepted
<1>10. QED BY <1>2, <1>4, <1>5, <1>7, <1>8, <1>9

-----------------------------------------------------------------------------
(* The inductive invariant.  No part is inductive alone: that completions  *)
(* stay closed needs the DAG's edges to lie among existing tasks, and that *)
(* a revision names a topology needs the snapshots to be no newer than it. *)
IInv ==
  /\ TypeOK
  /\ TopologyIsDag
  /\ CompletionClosed
  /\ CompletionOrdered
  /\ RevisionNamesTopology
  /\ LogChains

LEMMA InitIInv == Init => IInv
<1> SUFFICES ASSUME Init PROVE IInv
  OBVIOUS
<1> USE DEF Init
<1>1. TypeOK
  BY RevisionAssumption DEF TypeOK, CurrentSnapshot, Snapshot
<1>2. TopologyIsDag
  BY DEF TopologyIsDag, Acyclic
<1>3. CompletionClosed /\ CompletionOrdered
  BY DEF CompletionClosed, CompletionOrdered
<1>4. RevisionNamesTopology
  <2>1. \A p \in Planner : /\ snapshot[p].revision = 0
                           /\ snapshot[p].tasks = tasks
                           /\ snapshot[p].dependencies = dependencies
    BY DEF CurrentSnapshot
  <2>2. revision = 0 /\ 0 <= 0
    OBVIOUS
  <2> HIDE DEF Init
  <2>3. QED BY <2>1, <2>2 DEF RevisionNamesTopology
<1>5. LogChains
  BY DEF LogChains
<1>6. QED BY <1>1, <1>2, <1>3, <1>4, <1>5 DEF IInv

(* A planner's read leaves the aggregate alone.                            *)
LEMMA ReadStep ==
  ASSUME IInv, NEW p \in Planner, ReadTopology(p)
  PROVE  IInv'
<1> USE DEF IInv, ReadTopology, topology, facts
<1>1. TypeOK'
  BY DEF TypeOK, CurrentSnapshot, Snapshot
<1>2. TopologyIsDag' /\ CompletionClosed' /\ CompletionOrdered' /\ LogChains'
  BY DEF TopologyIsDag, Acyclic, CompletionClosed, CompletionOrdered, LogChains
<1>3. RevisionNamesTopology'
  BY DEF RevisionNamesTopology, CurrentSnapshot, TypeOK
<1>4. QED BY <1>1, <1>2, <1>3

(* A batch keeps the completed part as it was and ends in a new revision,  *)
(* which no snapshot can already hold.                                     *)
LEMMA BatchStep ==
  ASSUME IInv, NEW p \in Planner, NEW b \in Batches, ApplyBatch(p, b)
  PROVE  IInv'
<1>1. /\ tasks' \subseteq Id
      /\ dependencies' \in [Id -> SUBSET Id]
      /\ tasks \subseteq tasks'
      /\ \A t \in Id : dependencies[t] \subseteq dependencies'[t]
      /\ \A t \in completed : dependencies'[t] = dependencies[t]
      /\ \A t \in Id : /\ dependencies'[t] \subseteq tasks'
                       /\ dependencies'[t] # {} => t \in tasks'
      /\ Acyclic(tasks', dependencies')
  BY BatchEffect DEF IInv, ApplyBatch
<1>2. UNCHANGED <<completed, completionLog, snapshot>>
  BY DEF ApplyBatch, facts
<1>3. revision \in Nat /\ revision' = revision + 1 /\ revision' \in 0..MaxRevision
  BY RevisionAssumption DEF ApplyBatch, IInv, TypeOK, RevisionAvailable, NextRevision
<1>4. Record(b) \in MutationRecord
  BY <1>3, BatchForm DEF Record, NextRevision, MutationRecord
<1>5. mutationLog' = Append(mutationLog, Record(b))
  BY DEF ApplyBatch
<1>6. TypeOK'
  BY <1>1, <1>2, <1>3, <1>4, <1>5 DEF IInv, TypeOK
<1>7. TopologyIsDag'
  BY <1>1 DEF TopologyIsDag, Acyclic
<1>8. CompletionClosed'
  BY <1>1, <1>2 DEF IInv, CompletionClosed, TypeOK
<1>9. CompletionOrdered'
  <2>1. \A i \in 1..Len(completionLog) : completionLog[i] \in completed
    BY DEF IInv, CompletionOrdered
  <2>2. QED BY <1>1, <1>2, <2>1 DEF IInv, CompletionOrdered
<1>10. RevisionNamesTopology'
  BY <1>2, <1>3 DEF IInv, RevisionNamesTopology, TypeOK, Snapshot
<1>11. LogChains'
  <2>1. mutationLog \in Seq(MutationRecord) /\ Len(mutationLog) = revision
    BY DEF IInv, TypeOK, LogChains
  <2>2. Len(mutationLog') = revision'
    BY <1>3, <1>5, <2>1
  <2>3. \A i \in 1..Len(mutationLog) : mutationLog'[i] = mutationLog[i]
    BY <1>4, <1>5, <2>1
  <2>4. mutationLog'[revision + 1] = Record(b)
    BY <1>4, <1>5, <2>1
  <2>5. QED BY <1>3, <2>1, <2>2, <2>3, <2>4 DEF IInv, LogChains, Record, NextRevision
<1>12. QED BY <1>6, <1>7, <1>8, <1>9, <1>10, <1>11 DEF IInv

(* A completion appends a task whose prerequisites are all in the log.     *)
LEMMA CompleteStep ==
  ASSUME IInv, NEW t \in Id, Complete(t)
  PROVE  IInv'
<1> USE DEF Complete, topology
<1>1. TypeOK'
  BY DEF IInv, TypeOK
<1>2. TopologyIsDag' /\ RevisionNamesTopology' /\ LogChains'
  BY DEF IInv, TopologyIsDag, Acyclic, RevisionNamesTopology, LogChains
<1>3. CompletionClosed'
  BY DEF IInv, CompletionClosed, PrerequisitesCompleted
<1>4. CompletionOrdered'
  <2> DEFINE n == Len(completionLog)
  <2>1. /\ completionLog \in Seq(Id)
        /\ n \in Nat
        /\ completionLog' = Append(completionLog, t)
        /\ Len(completionLog') = n + 1
        /\ completionLog'[n + 1] = t
        /\ \A i \in 1..n : completionLog'[i] = completionLog[i]
    BY DEF IInv, TypeOK
  <2>2. \A i \in 1..n : completionLog[i] \in completed
    BY DEF IInv, CompletionOrdered
  <2>3. completed' = { completionLog'[i] : i \in 1..(n + 1) }
    <3>1. completed = { completionLog[i] : i \in 1..n }
      BY DEF IInv, CompletionOrdered
    <3>2. completed' = completed \cup {t}
      OBVIOUS
    <3>3. 1..(n + 1) = 1..n \cup {n + 1}
      BY <2>1
    <3>4. QED BY <2>1, <3>1, <3>2, <3>3
  <2>4. ASSUME NEW i \in 1..(n + 1), NEW j \in 1..(n + 1)
        PROVE  /\ completionLog'[i] = completionLog'[j] => i = j
               /\ completionLog'[j] \in dependencies'[completionLog'[i]] => j < i
    <3>1. dependencies' = dependencies
      OBVIOUS
    <3>2. CASE i \in 1..n /\ j \in 1..n
      BY <2>1, <3>1, <3>2 DEF IInv, CompletionOrdered
    <3>3. CASE i = n + 1 /\ j \in 1..n
      BY <2>1, <2>2, <3>1, <3>3
    <3>4. CASE i \in 1..n /\ j = n + 1
      BY <2>1, <2>2, <3>1, <3>4 DEF IInv, CompletionClosed
    <3>5. CASE i = n + 1 /\ j = n + 1
      <4>1. t \notin dependencies[t]
        BY DEF PrerequisitesCompleted
      <4>2. QED BY <2>1, <3>1, <3>5, <4>1
    <3>6. QED BY <2>1, <2>4, <3>2, <3>3, <3>4, <3>5
  <2>5. QED BY <2>1, <2>3, <2>4 DEF CompletionOrdered
<1>5. QED BY <1>1, <1>2, <1>3, <1>4 DEF IInv

LEMMA StutterStep ==
  ASSUME IInv, UNCHANGED vars
  PROVE  IInv'
BY DEF IInv, vars, topology, facts, TypeOK, TopologyIsDag, Acyclic, CompletionClosed,
       CompletionOrdered, RevisionNamesTopology, LogChains

(* Every reachable workflow satisfies the inductive invariant.             *)
THEOREM WorkflowInvariant == Spec => []IInv
<1>1. IInv /\ [Next]_vars => IInv'
  BY ReadStep, BatchStep, CompleteStep, StutterStep DEF Next
<1>2. QED BY InitIInv, <1>1, PTL DEF Spec

(* The variables keep their types.                                         *)
THEOREM TypeCorrect == Spec => []TypeOK
BY WorkflowInvariant, PTL DEF IInv

(* Completed tasks rest on completed prerequisites, whatever batches the   *)
(* planners submit against snapshots that do not show the completions.     *)
THEOREM CompletionIsClosed == Spec => []CompletionClosed
BY WorkflowInvariant, PTL DEF IInv

(* The completion log lists every completed task once, each after all of   *)
(* its prerequisites, including those added after other completions.       *)
THEOREM CompletionIsOrdered == Spec => []CompletionOrdered
BY WorkflowInvariant, PTL DEF IInv

(* The topology is always a DAG over existing tasks.                       *)
THEOREM TopologyStaysDag == Spec => []TopologyIsDag
BY WorkflowInvariant, PTL DEF IInv

(* A planner that passes the revision check has seen the current topology. *)
THEOREM RevisionIdentifies == Spec => []RevisionNamesTopology
BY WorkflowInvariant, PTL DEF IInv

(* While work is unfinished some task is ready: in the set of unfinished   *)
(* tasks acyclicity gives one that waits for no other of them.             *)
THEOREM ProgressIsPossible == Spec => []UnfinishedWorkIsReady
<1>1. IInv => UnfinishedWorkIsReady
  <2>1. SUFFICES ASSUME IInv, tasks \ completed # {}
                 PROVE  ReadyTasks # {}
    BY DEF UnfinishedWorkIsReady
  <2>2. PICK t \in tasks \ completed : dependencies[t] \cap (tasks \ completed) = {}
    BY <2>1 DEF IInv, TopologyIsDag, Acyclic
  <2>3. dependencies[t] \subseteq tasks
    BY <2>1 DEF IInv, TypeOK, TopologyIsDag
  <2>4. QED BY <2>2, <2>3 DEF ReadyTasks, Ready, CurrentGraph, Graph
<1>2. QED BY WorkflowInvariant, <1>1, PTL

(* No step rewrites the prerequisites of a completed task, drops a task or *)
(* an edge, or forgets a completion.                                       *)
THEOREM HistoryStaysFrozen == Spec => HistoryIsFrozen
<1> DEFINE Frozen == /\ \A t \in completed : dependencies'[t] = dependencies[t]
                     /\ tasks \subseteq tasks'
                     /\ \A t \in Id : dependencies[t] \subseteq dependencies'[t]
                     /\ completed \subseteq completed'
<1>1. IInv /\ [Next]_vars => [Frozen]_vars
  <2>1. SUFFICES ASSUME IInv, Next PROVE Frozen
    OBVIOUS
  <2>2. CASE \E p \in Planner : ReadTopology(p)
    BY <2>2 DEF ReadTopology, topology, facts
  <2>3. ASSUME NEW p \in Planner, NEW b \in Batches, ApplyBatch(p, b)
        PROVE  Frozen
    BY <2>1, <2>3, BatchEffect DEF IInv, ApplyBatch, facts
  <2>4. CASE \E t \in Id : Complete(t)
    BY <2>4 DEF Complete, topology
  <2>5. QED BY <2>1, <2>2, <2>3, <2>4 DEF Next
<1>2. QED BY WorkflowInvariant, <1>1, PTL DEF Spec, HistoryIsFrozen

-----------------------------------------------------------------------------
(* A nonempty set of numbers has a least one.                              *)
LEMMA LeastExists ==
  ASSUME NEW S \in SUBSET Nat, S # {}
  PROVE  \E m \in S : \A k \in S : m <= k
<1> DEFINE R == OpToRel(<, Nat)
<1>1. IsWellFoundedOn(R, Nat)
  BY NatLessThanWellFounded
<1>2. \A x, y \in Nat : x < y => <<x, y>> \in R
  BY DEF OpToRel
<1> HIDE DEF R
<1>3. PICK m \in S : \A y \in S : ~(<<y, m>> \in R)
  BY <1>1, WFMin
<1>4. ASSUME NEW k \in S
      PROVE  m <= k
  <2>1. m \in Nat /\ k \in Nat
    OBVIOUS
  <2>2. ~(k < m)
    BY <1>2, <1>3, <2>1
  <2>3. QED BY <2>1, <2>2
<1>5. QED BY <1>4

(* Two functions that agree at 0, and at n whenever they agree at n - 1,   *)
(* agree: otherwise there would be a first place where they do not.        *)
LEMMA AgreeStepwise ==
  ASSUME NEW N \in Nat, NEW f, NEW g, f[0] = g[0],
         \A n \in 1..N : f[n - 1] = g[n - 1] => f[n] = g[n]
  PROVE  \A n \in 0..N : f[n] = g[n]
<1> DEFINE S == { n \in 0..N : f[n] # g[n] }
<1> SUFFICES ASSUME S # {} PROVE FALSE
  OBVIOUS
<1>1. S \in SUBSET Nat
  OBVIOUS
<1> HIDE DEF S
<1>2. PICK m \in S : \A k \in S : m <= k
  BY <1>1, LeastExists
<1> USE DEF S
<1>3. m \in 1..N /\ m - 1 \in 0..N
  BY <1>2
<1>4. f[m - 1] = g[m - 1]
  BY <1>2, <1>3
<1>5. QED BY <1>2, <1>3, <1>4

(* A function that runs through the records as replay_from does ends in    *)
(* what replay_from returns.                                               *)
Replays(h, records) ==
  h = [n \in 0..Len(records) |->
         IF n = 0 THEN Fresh ELSE ReplayRecord(h[n - 1], records[n])]

LEMMA ReplayUnfolds ==
  ASSUME NEW records, Len(records) \in Nat, NEW h, Replays(h, records)
  PROVE  Replay(records) = h[Len(records)]
<1> DEFINE f == ReplayStates(records)
<1>1. f = CHOOSE a : a = [n \in 0..Len(records) |->
                            IF n = 0 THEN Fresh ELSE ReplayRecord(a[n - 1], records[n])]
  BY DEF ReplayStates
<1>2. Replays(f, records)
  BY <1>1 DEF Replays
<1> HIDE DEF f
<1>3. f[0] = h[0]
  BY <1>2 DEF Replays
<1>4. \A n \in 1..Len(records) : f[n - 1] = h[n - 1] => f[n] = h[n]
  BY <1>2 DEF Replays
<1>5. \A n \in 0..Len(records) : f[n] = h[n]
  BY <1>3, <1>4, AgreeStepwise
<1>6. QED BY <1>5 DEF f, Replay

(* The same for the completions of replay_with_facts.                      *)
Completes(h, w, completions) ==
  h = [n \in 0..Len(completions) |->
         IF n = 0 THEN w ELSE ReplayCompletion(h[n - 1], completions[n])]

LEMMA CompletionsUnfold ==
  ASSUME NEW completions, Len(completions) \in Nat, NEW w, NEW h, Completes(h, w, completions)
  PROVE  CompletionStates(w, completions)[Len(completions)] = h[Len(completions)]
<1> DEFINE f == CompletionStates(w, completions)
<1>1. f = CHOOSE a : a = [n \in 0..Len(completions) |->
                            IF n = 0 THEN w ELSE ReplayCompletion(a[n - 1], completions[n])]
  BY DEF CompletionStates
<1>2. Completes(f, w, completions)
  BY <1>1 DEF Completes
<1> HIDE DEF f
<1>3. f[0] = h[0]
  BY <1>2 DEF Completes
<1>4. \A n \in 1..Len(completions) : f[n - 1] = h[n - 1] => f[n] = h[n]
  BY <1>2 DEF Completes
<1>5. \A n \in 0..Len(completions) : f[n] = h[n]
  BY <1>3, <1>4, AgreeStepwise
<1>6. QED BY <1>5 DEF f

(* And for the mutations of apply_batch.                                   *)
Applies(h, g, batch) ==
  h = [n \in 0..Len(batch) |->
         IF n = 0 THEN g
         ELSE IF h[n - 1] = Rejected THEN Rejected
         ELSE ApplyMutation(h[n - 1], batch[n])]

LEMMA CandidateUnfolds ==
  ASSUME NEW batch, Len(batch) \in Nat, NEW g, NEW h, Applies(h, g, batch)
  PROVE  CandidateStates(g, batch)[Len(batch)] = h[Len(batch)]
<1> DEFINE f == CandidateStates(g, batch)
<1>1. f = CHOOSE a : a = [n \in 0..Len(batch) |->
                            IF n = 0 THEN g
                            ELSE IF a[n - 1] = Rejected THEN Rejected
                            ELSE ApplyMutation(a[n - 1], batch[n])]
  BY DEF CandidateStates
<1>2. Applies(f, g, batch)
  BY <1>1 DEF Applies
<1> HIDE DEF f
<1>3. f[0] = h[0]
  BY <1>2 DEF Applies
<1>4. \A n \in 1..Len(batch) : f[n - 1] = h[n - 1] => f[n] = h[n]
  BY <1>2 DEF Applies
<1>5. \A n \in 0..Len(batch) : f[n] = h[n]
  BY <1>3, <1>4, AgreeStepwise
<1>6. QED BY <1>5 DEF f

(* A graph or a replayed workflow is not the rejection.                    *)
LEMMA NotRejected ==
  /\ \A T, D, C : Graph(T, D, C) # Rejected
  /\ \A g, n, l : [graph |-> g, revision |-> n, log |-> l] # Rejected
<1>1. DOMAIN Rejected = {"rejected"}
  BY DEF Rejected
<1>2. \A T, D, C : "tasks" \in DOMAIN Graph(T, D, C)
  BY DEF Graph
<1>3. \A g, n, l : "graph" \in DOMAIN [graph |-> g, revision |-> n, log |-> l]
  OBVIOUS
<1>4. QED BY <1>1, <1>2, <1>3

-----------------------------------------------------------------------------
(* Replacing one part of a graph leaves the others.                        *)
LEMMA GraphParts ==
  ASSUME NEW T, NEW D, NEW C, NEW X, NEW g, g = Graph(T, D, C)
  PROVE  /\ g.tasks = T /\ g.dependencies = D /\ g.completed = C
         /\ [g EXCEPT !.tasks = X] = Graph(X, D, C)
         /\ [g EXCEPT !.dependencies = X] = Graph(T, X, C)
         /\ [g EXCEPT !.completed = X] = Graph(T, D, X)
BY DEF Graph

(* One more mutation of a batch adds its task or its edge to the candidate *)
(* and nothing else.                                                       *)
LEMMA OneMoreMutation ==
  ASSUME NEW b \in Batches, NEW g, NEW n \in 1..Len(b)
  PROVE  /\ b[n].kind = "AddTask" =>
              /\ TasksAfter(g, b, n) = TasksAfter(g, b, n - 1) \cup {b[n].task}
              /\ DependenciesAfter(g, b, n) = DependenciesAfter(g, b, n - 1)
         /\ b[n].kind = "AddDependency" =>
              /\ TasksAfter(g, b, n) = TasksAfter(g, b, n - 1)
              /\ DependenciesAfter(g, b, n) =
                   [DependenciesAfter(g, b, n - 1) EXCEPT ![b[n].task] = @ \cup {b[n].on}]
<1> DEFINE m == b[n]
           Added(k) == { i \in 1..k : b[i].kind = "AddTask" }
           Edges(k, t) == { i \in 1..k : b[i].kind = "AddDependency" /\ b[i].task = t }
           On(k, t) == { b[i].on : i \in Edges(k, t) }
           D(k) == DependenciesAfter(g, b, k)
<1>1. 1..n = 1..(n - 1) \cup {n} /\ m.task \in Id /\ m.kind \in {"AddTask", "AddDependency"}
  BY BatchForm, MutationForm
<1>2. \A k : TasksAfter(g, b, k) = g.tasks \cup { b[i].task : i \in Added(k) }
  BY DEF TasksAfter
<1>3. \A k : D(k) = [t \in Id |-> g.dependencies[t] \cup On(k, t)]
  BY DEF DependenciesAfter
<1>4. CASE m.kind = "AddTask"
  <2>1. Added(n) = Added(n - 1) \cup {n} /\ \A t : Edges(n, t) = Edges(n - 1, t)
    BY <1>1, <1>4
  <2>2. \A t : On(n, t) = On(n - 1, t)
    BY <2>1
  <2> HIDE DEF Added, Edges, On, D
  <2>3. { b[i].task : i \in Added(n) } = { b[i].task : i \in Added(n - 1) } \cup {m.task}
    BY <2>1
  <2>4. TasksAfter(g, b, n) = TasksAfter(g, b, n - 1) \cup {m.task}
    BY <1>2, <2>3
  <2>5. D(n) = D(n - 1)
    BY <1>3, <2>2
  <2>6. QED BY <1>4, <2>4, <2>5 DEF D
<1>5. CASE m.kind = "AddDependency"
  <2>1. /\ Added(n) = Added(n - 1)
        /\ Edges(n, m.task) = Edges(n - 1, m.task) \cup {n}
        /\ \A t : t # m.task => Edges(n, t) = Edges(n - 1, t)
    BY <1>1, <1>5
  <2>2. \A t : t # m.task => On(n, t) = On(n - 1, t)
    BY <2>1
  <2> HIDE DEF Edges, Added
  <2>3. On(n, m.task) = On(n - 1, m.task) \cup {m.on}
    BY <2>1
  <2> HIDE DEF D, On
  <2>4. TasksAfter(g, b, n) = TasksAfter(g, b, n - 1)
    BY <1>2, <2>1
  <2>5. D(n)[m.task] = D(n - 1)[m.task] \cup {m.on}
    <3>1. D(n)[m.task] = g.dependencies[m.task] \cup On(n, m.task)
      BY <1>1, <1>3
    <3>2. D(n - 1)[m.task] = g.dependencies[m.task] \cup On(n - 1, m.task)
      BY <1>1, <1>3
    <3>3. QED BY <2>3, <3>1, <3>2
  <2>6. ASSUME NEW t \in Id, t # m.task
        PROVE  D(n)[t] = D(n - 1)[t]
    <3>1. D(n)[t] = g.dependencies[t] \cup On(n, t)
      BY <1>3
    <3>2. D(n - 1)[t] = g.dependencies[t] \cup On(n - 1, t)
      BY <1>3
    <3>3. QED BY <2>2, <2>6, <3>1, <3>2
  <2>7. /\ D(n) = [t \in Id |-> D(n)[t]] /\ D(n - 1) = [t \in Id |-> D(n - 1)[t]]
        /\ DOMAIN D(n) = Id /\ DOMAIN D(n - 1) = Id
    BY <1>3
  <2> HIDE DEF m
  <2>8. D(n) = [D(n - 1) EXCEPT ![m.task] = @ \cup {m.on}]
    BY <1>1, <2>5, <2>6, <2>7
  <2>9. QED BY <1>5, <2>4, <2>8 DEF D, m
<1>6. QED BY <1>1, <1>4, <1>5

(* The candidate after n mutations, if all of them were accepted.          *)
Prefix(g, b, n) == Graph(TasksAfter(g, b, n), DependenciesAfter(g, b, n), g.completed)

LEMMA ApplyInLoop ==
  ASSUME NEW b \in Batches, NEW g, NEW n \in 1..Len(b)
  PROVE  ApplyMutation(Prefix(g, b, n - 1), b[n]) =
           IF MutationAccepted(g, b, n) THEN Prefix(g, b, n) ELSE Rejected
<1> DEFINE m == b[n]
           T == TasksAfter(g, b, n - 1)
           D == DependenciesAfter(g, b, n - 1)
           P == Prefix(g, b, n - 1)
<1>1. m.kind \in {"AddTask", "AddDependency"} /\ m.task \in Id
  BY BatchForm, MutationForm
<1>2. P.tasks = T /\ P.dependencies = D /\ P.completed = g.completed /\ P = Graph(T, D, g.completed)
  BY DEF Prefix, Graph
<1>3. CASE m.kind = "AddTask"
  <2>0. /\ TasksAfter(g, b, n) = T \cup {m.task}
        /\ DependenciesAfter(g, b, n) = D
    BY <1>3, OneMoreMutation
  <2>1. Prefix(g, b, n) = Graph(T \cup {m.task}, D, g.completed)
    BY <2>0 DEF Prefix
  <2> HIDE DEF P, T, D, m
  <2>2. \A X : [P EXCEPT !.tasks = X] = Graph(X, D, g.completed)
    BY <1>2, GraphParts
  <2>3. MutationAccepted(g, b, n) <=> m.task \notin T
    BY <1>3 DEF MutationAccepted, AddTaskAccepted, T, m
  <2>4. ApplyMutation(P, m) =
          IF m.task \in P.tasks THEN Rejected ELSE [P EXCEPT !.tasks = @ \cup {m.task}]
    BY <1>3 DEF ApplyMutation
  <2>5. ApplyMutation(P, m) = IF MutationAccepted(g, b, n) THEN Prefix(g, b, n) ELSE Rejected
    BY <1>2, <2>1, <2>2, <2>3, <2>4
  <2>6. QED BY <2>5 DEF P, m
<1>4. CASE m.kind = "AddDependency"
  <2>1. /\ TasksAfter(g, b, n) = T
        /\ DependenciesAfter(g, b, n) = [D EXCEPT ![m.task] = @ \cup {m.on}]
    BY <1>4, OneMoreMutation
  <2>2. MutationAccepted(g, b, n) <=>
          /\ {m.task, m.on} \subseteq T
          /\ m.task \notin g.completed
          /\ m.on \notin D[m.task]
          /\ Acyclic(T, [D EXCEPT ![m.task] = @ \cup {m.on}])
    BY <1>4, <2>1 DEF MutationAccepted, AddDependencyAccepted
  <2>3. Prefix(g, b, n) = Graph(T, [D EXCEPT ![m.task] = @ \cup {m.on}], g.completed)
    BY <2>1 DEF Prefix
  <2> HIDE DEF P, T, D, m
  <2>4. WithDependency(P, m) = [D EXCEPT ![m.task] = @ \cup {m.on}]
    BY <1>2 DEF WithDependency
  <2>5. \A E : [P EXCEPT !.dependencies = E] = Graph(T, E, g.completed)
    BY <1>2, GraphParts
  <2>6. ApplyMutation(P, m) =
          IF \/ ~({m.task, m.on} \subseteq P.tasks)
             \/ m.task \in P.completed
             \/ m.on \in P.dependencies[m.task]
             \/ ~Acyclic(P.tasks, WithDependency(P, m))
          THEN Rejected
          ELSE [P EXCEPT !.dependencies = WithDependency(P, m)]
    BY <1>4 DEF ApplyMutation
  <2>7. ApplyMutation(P, m) = IF MutationAccepted(g, b, n) THEN Prefix(g, b, n) ELSE Rejected
    BY <1>2, <2>2, <2>3, <2>4, <2>5, <2>6
  <2>8. QED BY <2>7 DEF P, m
<1>5. QED BY <1>1, <1>3, <1>4

(* The loop of apply_batch, run to its end, is the set form.               *)
LEMMA LoopIsSetForm ==
  ASSUME NEW b \in Batches, NEW g, g = Graph(g.tasks, g.dependencies, g.completed),
         DOMAIN g.dependencies = Id, g.dependencies = [t \in Id |-> g.dependencies[t]]
  PROVE  Candidate(g, b) = IF BatchAccepted(g, b) THEN AfterBatch(g, b) ELSE Rejected
<1> DEFINE All(n) == \A j \in 1..n : MutationAccepted(g, b, j)
           h == [n \in 0..Len(b) |-> IF All(n) THEN Prefix(g, b, n) ELSE Rejected]
<1>1. Len(b) \in Nat
  BY BatchForm
<1>2. \A n : Prefix(g, b, n) # Rejected
  BY NotRejected DEF Prefix
<1>3. Prefix(g, b, 0) = g
  <2>1. TasksAfter(g, b, 0) = g.tasks
    BY DEF TasksAfter
  <2>2. DependenciesAfter(g, b, 0) = g.dependencies
    BY DEF DependenciesAfter
  <2>3. QED BY <2>1, <2>2 DEF Prefix
<1>4. ASSUME NEW n \in 1..Len(b)
      PROVE  h[n] = IF h[n - 1] = Rejected THEN Rejected ELSE ApplyMutation(h[n - 1], b[n])
  <2>1. n \in 0..Len(b) /\ n - 1 \in 0..Len(b) /\ 1..n = 1..(n - 1) \cup {n}
    BY <1>1
  <2>2. All(n) <=> All(n - 1) /\ MutationAccepted(g, b, n)
    BY <2>1
  <2>3. /\ h[n] = IF All(n) THEN Prefix(g, b, n) ELSE Rejected
        /\ h[n - 1] = IF All(n - 1) THEN Prefix(g, b, n - 1) ELSE Rejected
    BY <2>1
  <2>4. ApplyMutation(Prefix(g, b, n - 1), b[n]) =
          IF MutationAccepted(g, b, n) THEN Prefix(g, b, n) ELSE Rejected
    BY ApplyInLoop
  <2> HIDE DEF h, All
  <2>5. QED BY <1>2, <2>2, <2>3, <2>4
<1>5. h[0] = g
  BY <1>1, <1>3
<1>6. Applies(h, g, b)
  <2>1. DOMAIN h = 0..Len(b) /\ h = [n \in 0..Len(b) |-> h[n]]
    OBVIOUS
  <2> HIDE DEF h
  <2>2. \A n \in 0..Len(b) :
          h[n] = IF n = 0 THEN g
                 ELSE IF h[n - 1] = Rejected THEN Rejected
                 ELSE ApplyMutation(h[n - 1], b[n])
    BY <1>1, <1>4, <1>5
  <2>3. QED BY <2>1, <2>2 DEF Applies
<1>7. CandidateStates(g, b)[Len(b)] = IF All(Len(b)) THEN AfterBatch(g, b) ELSE Rejected
  <2>1. CandidateStates(g, b)[Len(b)] = h[Len(b)]
    <3> HIDE DEF h
    <3>1. QED BY <1>1, <1>6, CandidateUnfolds
  <2>2. h[Len(b)] = IF All(Len(b)) THEN AfterBatch(g, b) ELSE Rejected
    BY <1>1 DEF Prefix, AfterBatch
  <2>3. QED BY <2>1, <2>2
<1>8. AfterBatch(g, b) # Rejected
  BY NotRejected DEF AfterBatch
<1>9. /\ AfterBatch(g, b).tasks = TasksAfter(g, b, Len(b))
      /\ AfterBatch(g, b).dependencies = DependenciesAfter(g, b, Len(b))
  BY DEF AfterBatch, Graph
<1>10. BatchAccepted(g, b) <=>
         /\ b # <<>> /\ All(Len(b))
         /\ Acyclic(AfterBatch(g, b).tasks, AfterBatch(g, b).dependencies)
  BY <1>9 DEF BatchAccepted
<1> HIDE DEF h, All
<1>11. QED BY <1>7, <1>8, <1>10 DEF Candidate

(* The set form of apply_batch that the specification uses is the code's   *)
(* loop: for batches of every length both accept the same batches and      *)
(* build the same candidate.                                               *)
THEOREM LoopAgrees == Spec => []SetFormIsTheLoop
<1>1. ASSUME IInv PROVE SetFormIsTheLoop
  <2>1. PICK g : g = CurrentGraph
    OBVIOUS
  <2>2. g = Graph(g.tasks, g.dependencies, g.completed) /\ g.dependencies = dependencies
    BY <2>1 DEF CurrentGraph, Graph
  <2>3. dependencies \in [Id -> SUBSET Id]
    BY <1>1 DEF IInv, TypeOK
  <2>4. DOMAIN g.dependencies = Id /\ g.dependencies = [t \in Id |-> g.dependencies[t]]
    BY <2>2, <2>3
  <2>5. \A b \in Batches :
          Candidate(g, b) = IF BatchAccepted(g, b) THEN AfterBatch(g, b) ELSE Rejected
    BY <2>2, <2>4, LoopIsSetForm
  <2>6. QED BY <2>1, <2>5 DEF SetFormIsTheLoop
<1>2. QED BY WorkflowInvariant, <1>1, PTL

-----------------------------------------------------------------------------
(* What the topology log replays to: the topology, with no completion.     *)
Bare == [graph |-> Graph(tasks, dependencies, {}), revision |-> revision, log |-> <<>>]

(* Replay is inductive along the log: a run of replay_from over the log    *)
(* ends in the current topology.                                           *)
LogReplays == \E h : Replays(h, mutationLog) /\ h[Len(mutationLog)] = Bare

(* A batch that was accepted next to completions is accepted without them, *)
(* and adds the same tasks and edges.                                      *)
LEMMA BareAccepts ==
  ASSUME NEW T, NEW D, NEW C, NEW b, BatchAccepted(Graph(T, D, C), b)
  PROVE  /\ BatchAccepted(Graph(T, D, {}), b)
         /\ \A k : TasksAfter(Graph(T, D, {}), b, k) = TasksAfter(Graph(T, D, C), b, k)
         /\ \A k : DependenciesAfter(Graph(T, D, {}), b, k) = DependenciesAfter(Graph(T, D, C), b, k)
<1>1. PICK f, g : f = Graph(T, D, C) /\ g = Graph(T, D, {})
  OBVIOUS
<1>2. g.tasks = f.tasks /\ g.dependencies = f.dependencies /\ g.completed = {}
  BY <1>1 DEF Graph
<1>3. \A k : TasksAfter(g, b, k) = TasksAfter(f, b, k)
  BY <1>2 DEF TasksAfter
<1>4. \A k : DependenciesAfter(g, b, k) = DependenciesAfter(f, b, k)
  BY <1>2 DEF DependenciesAfter
<1>5. ASSUME NEW n \in 1..Len(b), MutationAccepted(f, b, n)
      PROVE  MutationAccepted(g, b, n)
  <2>1. AddTaskAccepted(f, b, n) => AddTaskAccepted(g, b, n)
    BY <1>3 DEF AddTaskAccepted
  <2>2. AddDependencyAccepted(f, b, n) => AddDependencyAccepted(g, b, n)
    BY <1>2, <1>3, <1>4 DEF AddDependencyAccepted
  <2>3. QED BY <1>5, <2>1, <2>2 DEF MutationAccepted
<1>6. BatchAccepted(g, b)
  BY <1>1, <1>3, <1>4, <1>5 DEF BatchAccepted
<1>7. QED BY <1>1, <1>3, <1>4, <1>6

(* replay_from accepts the record of an accepted batch.                    *)
LEMMA RecordReplays ==
  ASSUME IInv, NEW p \in Planner, NEW b \in Batches, ApplyBatch(p, b)
  PROVE  ReplayRecord(Bare, Record(b)) = Bare'
<1>1. PICK T, D, w, r, g : /\ T = tasks' /\ D = dependencies' /\ w = Bare /\ r = Record(b)
                           /\ g = Graph(tasks, dependencies, {})
  OBVIOUS
<1>2. /\ T = TasksAfter(CurrentGraph, b, Len(b)) /\ D = DependenciesAfter(CurrentGraph, b, Len(b))
      /\ BatchAccepted(CurrentGraph, b) /\ revision < MaxRevision /\ revision' = revision + 1
  BY <1>1 DEF ApplyBatch, RevisionAvailable, NextRevision
<1>3. /\ BatchAccepted(g, b)
      /\ T = TasksAfter(g, b, Len(b)) /\ D = DependenciesAfter(g, b, Len(b))
  BY <1>1, <1>2, BareAccepts DEF CurrentGraph
<1>4. AfterBatch(g, b) = Graph(T, D, {})
  BY <1>1, <1>3, GraphParts DEF AfterBatch
<1>5. w = [graph |-> g, revision |-> revision, log |-> <<>>] /\ w # Rejected
  BY <1>1, NotRejected DEF Bare
<1>6. r.base_revision = revision /\ r.resulting_revision = revision + 1 /\ r.mutations = b
  BY <1>1 DEF Record, NextRevision
<1>7. RecordReplayable(w, r)
  BY <1>2, <1>3, <1>5, <1>6 DEF RecordReplayable
<1>8. ReplayRecord(w, r) = [graph |-> AfterBatch(g, b), revision |-> revision + 1, log |-> <<>>]
  BY <1>5, <1>6, <1>7 DEF ReplayRecord
<1>9. QED BY <1>1, <1>2, <1>4, <1>8 DEF Bare

LEMMA BatchReplays ==
  ASSUME IInv, LogReplays, NEW p \in Planner, NEW b \in Batches, ApplyBatch(p, b)
  PROVE  LogReplays'
<1>1. PICK N, r, z : N = Len(mutationLog) /\ r = Record(b) /\ z = mutationLog'
  OBVIOUS
<1>2. /\ N \in Nat /\ z = Append(mutationLog, r) /\ Len(z) = N + 1 /\ z[N + 1] = r
      /\ \A n \in 1..N : z[n] = mutationLog[n]
  <2>1. mutationLog \in Seq(MutationRecord)
    BY DEF IInv, TypeOK
  <2>2. z = Append(mutationLog, r)
    BY <1>1 DEF ApplyBatch
  <2>3. QED BY <1>1, <2>1, <2>2
<1>3. PICK h : Replays(h, mutationLog) /\ h[N] = Bare
  BY <1>1 DEF LogReplays
<1> DEFINE k == [n \in 0..Len(z) |-> IF n \in 0..N THEN h[n] ELSE ReplayRecord(h[N], r)]
<1>4. /\ k = [n \in 0..Len(z) |-> k[n]]
      /\ \A n \in 0..N : k[n] = h[n]
      /\ k[N + 1] = ReplayRecord(h[N], r)
  BY <1>2
<1>5. ASSUME NEW n \in 0..N
      PROVE  h[n] = IF n = 0 THEN Fresh ELSE ReplayRecord(h[n - 1], mutationLog[n])
  BY <1>1, <1>3, <1>5 DEF Replays
<1> HIDE DEF k
<1>6. ASSUME NEW n \in 0..Len(z)
      PROVE  k[n] = IF n = 0 THEN Fresh ELSE ReplayRecord(k[n - 1], z[n])
  <2>1. CASE n = 0
    BY <1>2, <1>4, <1>5, <2>1
  <2>2. CASE n \in 1..N
    <3>1. n - 1 \in 0..N /\ n \in 0..N /\ n # 0
      BY <1>2, <2>2
    <3>2. QED BY <1>2, <1>4, <1>5, <2>2, <3>1
  <2>3. CASE n = N + 1
    <3>1. N \in 0..N /\ n # 0 /\ n - 1 = N
      BY <1>2, <2>3
    <3>2. QED BY <1>2, <1>4, <2>3, <3>1
  <2>4. QED BY <1>2, <2>1, <2>2, <2>3
<1>7. Replays(k, z)
  BY <1>4, <1>6 DEF Replays
<1>8. k[Len(z)] = Bare'
  BY <1>1, <1>2, <1>3, <1>4, RecordReplays
<1>9. QED BY <1>1, <1>7, <1>8 DEF LogReplays

LEMMA InitReplays == Init => LogReplays
<1> SUFFICES ASSUME Init PROVE LogReplays
  OBVIOUS
<1>1. PICK h : h = [n \in 0..0 |-> Fresh]
  OBVIOUS
<1>2. Len(mutationLog) = 0
  BY DEF Init
<1>3. Replays(h, mutationLog)
  BY <1>1, <1>2 DEF Replays
<1>4. Bare = Fresh
  BY DEF Init, Bare, Fresh, EmptyGraph
<1>5. QED BY <1>1, <1>2, <1>3, <1>4 DEF LogReplays

LEMMA ReplayInvariant == Spec => []LogReplays
<1>1. IInv /\ LogReplays /\ [Next]_vars => LogReplays'
  <2> SUFFICES ASSUME IInv, LogReplays, [Next]_vars PROVE LogReplays'
    OBVIOUS
  <2>1. CASE UNCHANGED topology
    BY <2>1 DEF topology, LogReplays, Bare
  <2>2. QED BY <2>1, BatchReplays DEF Next, ReadTopology, Complete, vars
<1>2. QED BY <1>1, InitReplays, WorkflowInvariant, PTL DEF Spec

(* complete() on a replayed workflow.                                      *)
Replayed(T, D, C, n, l) == [graph |-> Graph(T, D, C), revision |-> n, log |-> l]

LEMMA CompletionApplies ==
  ASSUME NEW T, NEW D, NEW C, NEW n, NEW l, NEW t,
         t \in T, t \notin C, D[t] \subseteq C
  PROVE  ReplayCompletion(Replayed(T, D, C, n, l), t) = Replayed(T, D, C \cup {t}, n, Append(l, t))
<1>0. PICK w : w = [graph |-> Graph(T, D, C), revision |-> n, log |-> l]
  OBVIOUS
<1>1. PICK g : g = Graph(T, D, C)
  OBVIOUS
<1>2. g.tasks = T /\ g.dependencies = D /\ g.completed = C
  BY <1>1, GraphParts
<1>3. w # Rejected /\ w.graph = g /\ w.revision = n /\ w.log = l
  BY <1>0, <1>1, NotRejected
<1>4. CompletionReplayable(w.graph, t)
  BY <1>2, <1>3 DEF CompletionReplayable
<1>5. \A X : [g EXCEPT !.completed = X] = Graph(T, D, X)
  BY <1>1 DEF Graph
<1>6. PICK Y : Y = [g EXCEPT !.completed = C \cup {t}] /\ Y = Graph(T, D, C \cup {t})
  BY <1>5
<1>7. Y = [w.graph EXCEPT !.completed = @ \cup {t}]
  BY <1>2, <1>3, <1>6
<1>8. ReplayCompletion(w, t) = [graph |-> Y, revision |-> n, log |-> Append(l, t)]
  BY <1>3, <1>4, <1>7 DEF ReplayCompletion
<1>9. QED BY <1>0, <1>6, <1>8 DEF Replayed

(* The completion log replays on the final topology: each task of it finds *)
(* its prerequisites, the later ones included, among those before it.      *)
LEMMA CompletionsReplay ==
  ASSUME IInv
  PROVE  CompletionStates(Bare, completionLog)[Len(completionLog)] =
           [graph |-> CurrentGraph, revision |-> revision, log |-> completionLog]
<1>1. PICK N, q : N = Len(completionLog) /\ q = completionLog
  OBVIOUS
<1> DEFINE Done(n) == { q[i] : i \in 1..n }
           S(n) == Replayed(tasks, dependencies, Done(n), revision, SubSeq(q, 1, n))
           h == [n \in 0..N |-> S(n)]
<1>2. /\ q \in Seq(Id) /\ N \in Nat /\ completed = Done(N) /\ completed \subseteq tasks
      /\ \A i, j \in 1..N : /\ q[i] = q[j] => i = j
                            /\ q[j] \in dependencies[q[i]] => j < i
      /\ \A t \in completed : dependencies[t] \subseteq completed
  BY <1>1 DEF IInv, TypeOK, CompletionOrdered, CompletionClosed
<1>3. S(0) = Bare
  <2>1. Done(0) = {} /\ SubSeq(q, 1, 0) = <<>>
    BY <1>2
  <2> HIDE DEF Done
  <2>2. QED BY <2>1 DEF Bare, Replayed
<1>4. ASSUME NEW n \in 1..N
      PROVE  S(n) = ReplayCompletion(S(n - 1), q[n])
  <2>1. n - 1 \in 0..N /\ n \in 0..N /\ n \in Nat /\ 1..n = 1..(n - 1) \cup {n}
    BY <1>2
  <2>2. Done(n) = Done(n - 1) \cup {q[n]}
    BY <2>1
  <2>3. SubSeq(q, 1, n) = Append(SubSeq(q, 1, n - 1), q[n])
    BY <1>2, <2>1
  <2>4. q[n] \in tasks /\ q[n] \in completed
    BY <1>2, <2>1
  <2>5. q[n] \notin Done(n - 1)
    BY <1>2, <2>1
  <2>6. ASSUME NEW d \in dependencies[q[n]]
        PROVE  d \in Done(n - 1)
    <3>1. d \in Done(N)
      BY <1>2, <2>4
    <3>2. PICK j \in 1..N : d = q[j]
      BY <3>1
    <3>3. j < n
      BY <1>2, <3>2
    <3>4. j \in 1..(n - 1)
      BY <1>2, <2>1, <3>3
    <3>5. QED BY <3>2, <3>4
  <2>7. QED
    <3> HIDE DEF Done
    <3>1. dependencies[q[n]] \subseteq Done(n - 1)
      BY <2>6
    <3>2. \A l : ReplayCompletion(Replayed(tasks, dependencies, Done(n - 1), revision, l), q[n]) =
                   Replayed(tasks, dependencies, Done(n - 1) \cup {q[n]}, revision, Append(l, q[n]))
      BY <2>4, <2>5, <3>1, CompletionApplies
    <3>3. QED BY <2>2, <2>3, <3>2
<1> HIDE DEF S
<1>5. Completes(h, Bare, q)
  <2>1. h = [n \in 0..N |-> h[n]] /\ \A n \in 0..N : h[n] = S(n)
    OBVIOUS
  <2> HIDE DEF h
  <2>2. ASSUME NEW n \in 0..N
        PROVE  h[n] = IF n = 0 THEN Bare ELSE ReplayCompletion(h[n - 1], q[n])
    <3>1. CASE n = 0
      BY <1>3, <2>1, <3>1
    <3>2. CASE n \in 1..N
      BY <1>2, <1>4, <2>1, <3>2
    <3>3. QED BY <1>2, <3>1, <3>2
  <2>3. QED BY <1>1, <2>1, <2>2 DEF Completes
<1>6. CompletionStates(Bare, q)[N] = S(N)
  <2>1. h[N] = S(N)
    BY <1>2
  <2> HIDE DEF h
  <2>2. QED BY <1>1, <1>2, <1>5, <2>1, CompletionsUnfold
<1>7. S(N) = [graph |-> CurrentGraph, revision |-> revision, log |-> q]
  <2>1. SubSeq(q, 1, N) = q
    BY <1>1, <1>2
  <2>2. Graph(tasks, dependencies, Done(N)) = CurrentGraph
    BY <1>2 DEF CurrentGraph
  <2>3. QED BY <2>1, <2>2 DEF S, Replayed
<1>8. QED BY <1>1, <1>6, <1>7

(* The two logs are the workflow: replay_with_facts accepts every record   *)
(* and every completion the workflow accepted and rebuilds it, however     *)
(* batches and completions were interleaved and however long they are.     *)
THEOREM ReplayRebuilds == Spec => []ReplayReproducesWorkflow
<1>1. ASSUME IInv, LogReplays PROVE ReplayReproducesWorkflow
  <2>1. Len(mutationLog) \in Nat
    BY <1>1 DEF IInv, TypeOK
  <2>2. Replay(mutationLog) = Bare
    BY <1>1, <2>1, ReplayUnfolds DEF LogReplays
  <2>3. QED BY <1>1, <2>2, CompletionsReplay DEF ReplayReproducesWorkflow, ReplayWithFacts
<1>2. QED BY WorkflowInvariant, ReplayInvariant, <1>1, PTL
=============================================================================
