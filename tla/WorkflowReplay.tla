--------------------------- MODULE WorkflowReplay ---------------------------
(***************************************************************************)
(* Replay of a workflow from its two logs: topology records first, on a    *)
(* graph without any completion, and the completion log afterwards.        *)
(* Planners and the executor interleaved them differently when they ran.   *)
(***************************************************************************)
EXTENDS WorkflowGraph

Rejected == [rejected |-> TRUE]

Fresh == [graph |-> EmptyGraph, revision |-> 0, log |-> <<>>]

(* One record of replay_from: its revisions, then apply_batch again.       *)
RecordReplayable(w, r) ==
  /\ r.base_revision = w.revision
  /\ w.revision < MaxRevision
  /\ r.resulting_revision = w.revision + 1
  /\ BatchAccepted(w.graph, r.mutations)

ReplayRecord(w, r) ==
  IF w = Rejected \/ ~RecordReplayable(w, r) THEN Rejected
  ELSE [w EXCEPT
          !.revision = r.resulting_revision,
          !.graph = AfterBatch(w.graph, r.mutations)]

ReplayStates(records) ==
  LET after[n \in 0..Len(records)] ==
        IF n = 0 THEN Fresh ELSE ReplayRecord(after[n - 1], records[n])
  IN after

Replay(records) == ReplayStates(records)[Len(records)]

(* One completion of replay_with_facts: complete() on the replayed graph.  *)
CompletionReplayable(g, t) ==
  t \in g.tasks \ g.completed /\ g.dependencies[t] \subseteq g.completed

ReplayCompletion(w, t) ==
  IF w = Rejected \/ ~CompletionReplayable(w.graph, t) THEN Rejected
  ELSE [graph |-> [w.graph EXCEPT !.completed = @ \cup {t}],
        revision |-> w.revision, log |-> Append(w.log, t)]

CompletionStates(w, completions) ==
  LET after[n \in 0..Len(completions)] ==
        IF n = 0 THEN w ELSE ReplayCompletion(after[n - 1], completions[n])
  IN after

ReplayWithFacts(records, completions) ==
  CompletionStates(Replay(records), completions)[Len(completions)]

(* The two logs together are the workflow: replay accepts every record and *)
(* completion and ends in the same topology, facts, revision and log, even *)
(* though dependencies were added after some of the completions.           *)
ReplayReproducesWorkflow ==
  ReplayWithFacts(mutationLog, completionLog) =
    [graph |-> CurrentGraph, revision |-> revision, log |-> completionLog]

-----------------------------------------------------------------------------
(* apply_batch as the code writes it: a clone, one apply_mutation after    *)
(* the other with its own cycle search, and a last cycle search.           *)
WithDependency(g, m) == [g.dependencies EXCEPT ![m.task] = @ \cup {m.on}]

ApplyMutation(g, m) ==
  CASE m.kind = "AddTask" ->
         IF m.task \in g.tasks THEN Rejected
         ELSE [g EXCEPT !.tasks = @ \cup {m.task}]
    [] m.kind = "AddDependency" ->
         IF \/ ~({m.task, m.on} \subseteq g.tasks)
            \/ m.task \in g.completed
            \/ m.on \in g.dependencies[m.task]
            \/ ~Acyclic(g.tasks, WithDependency(g, m))
         THEN Rejected
         ELSE [g EXCEPT !.dependencies = WithDependency(g, m)]

CandidateStates(g, batch) ==
  LET after[n \in 0..Len(batch)] ==
        IF n = 0 THEN g
        ELSE IF after[n - 1] = Rejected THEN Rejected
        ELSE ApplyMutation(after[n - 1], batch[n])
  IN after

Candidate(g, batch) ==
  LET applied == CandidateStates(g, batch)[Len(batch)]
  IN IF batch = <<>> \/ applied = Rejected THEN Rejected
     ELSE IF Acyclic(applied.tasks, applied.dependencies) THEN applied ELSE Rejected

(* The set form of apply_batch that the specification uses is the loop of  *)
(* the code: on every reachable workflow both accept the same batches and  *)
(* build the same candidate.                                               *)
SetFormIsTheLoop ==
  \A batch \in Batches :
    Candidate(CurrentGraph, batch) =
      IF BatchAccepted(CurrentGraph, batch)
      THEN AfterBatch(CurrentGraph, batch)
      ELSE Rejected
=============================================================================
