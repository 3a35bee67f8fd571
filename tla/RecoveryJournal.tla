-------------------------- MODULE RecoveryJournal --------------------------
(***************************************************************************)
(* DurableJournal (journal.rs), the runtime's process-local view of the    *)
(* effect facts, and the recovery decision taken from it (recovery.rs).    *)
(*                                                                         *)
(* A journal has the intents, the dispatch history and the outcomes of a   *)
(* FactSet, so the operators on facts apply to it.  operation_attempts is  *)
(* the dispatch history per operation.                                     *)
(***************************************************************************)
EXTENDS DurableFacts

Journal == [intents : SUBSET Intent, dispatches : Seq(Dispatch), outcomes : SUBSET Outcome]

EmptyJournal == [intents |-> {}, dispatches |-> <<>>, outcomes |-> {}]

PersistIntentAccepted(j, f) ==
  \A i \in j.intents : i.operation # f.operation /\ i.task # f.task

PersistIntent(j, f) == [j EXCEPT !.intents = @ \cup {f}]

(* Nothing here looks at outcomes.                                         *)
PersistDispatchAccepted(j, f) ==
  HasIntent(j, f.operation) /\ ~Dispatched(j, f.attempt)

PersistDispatchFirst(j, f) == [j EXCEPT !.dispatches = <<f>> \o @]

PersistDispatch(j, f) == [j EXCEPT !.dispatches = Append(@, f)]

PersistOutcomeAccepted(j, f) ==
  /\ HasIntent(j, f.operation)
  /\ \E d \in DispatchSet(j) : d.attempt = f.attempt /\ d.operation = f.operation
  /\ \A r \in j.outcomes : r.attempt = f.attempt => r.outcome = f.outcome

PersistOutcome(j, f) == [j EXCEPT !.outcomes = @ \cup {f}]

-----------------------------------------------------------------------------
(* from_durable_state: the journal of the facts, or an error when one of   *)
(* the persist calls refuses.                                              *)
JournalView(s) ==
  [intents |-> s.intents, dispatches |-> s.dispatches, outcomes |-> s.outcomes]

Rebuildable(s) ==
  /\ \A f, g \in s.intents : f # g => f.operation # g.operation /\ f.task # g.task
  /\ \A n \in 1..Len(s.dispatches) :
       /\ HasIntent(s, s.dispatches[n].operation)
       /\ \A i \in 1..(n - 1) : s.dispatches[i].attempt # s.dispatches[n].attempt
  /\ \A f \in s.outcomes : PersistOutcomeAccepted(s, f)

-----------------------------------------------------------------------------
TaskOf(j, o)      == (CHOOSE i \in j.intents : i.operation = o).task
SemanticsOf(j, o) == (CHOOSE i \in j.intents : i.operation = o).semantics

(* classify_recovery for an operation that has an intent, over the tasks   *)
(* and the completed tasks of the workflow.                                *)
RecoveryAction(tasks, completed, j, o) ==
  LET t     == TaskOf(j, o)
      state == EffectState(j, o)
  IN IF t \notin tasks \/ (t \in completed /\ state # "Succeeded") THEN "InvariantViolation"
     ELSE CASE state = "Prepared" -> "Execute"
            [] state = "OutcomeUnknown" ->
                 IF SemanticsOf(j, o) = "Idempotent" THEN "RetrySameOperation" ELSE "Reconcile"
            [] state = "Succeeded" ->
                 IF t \in completed THEN "NoAction" ELSE "CompleteWithoutReexecution"
            [] state = "Failed" -> "ObserveFailure"
=============================================================================
