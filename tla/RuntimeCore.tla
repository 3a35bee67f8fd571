---------------------------- MODULE RuntimeCore ----------------------------
(***************************************************************************)
(* Runtime (crates/runtime-core): one process that schedules a workflow    *)
(* graph, admits attempts, records the boundaries of external effects in   *)
(* the durable store and publishes lifecycle events on a bounded lossless  *)
(* stream; and its restart from the store.                                 *)
(*                                                                         *)
(* A call that returns an error before it changed anything is no step.     *)
(* A call that fails half-way is a step with what it left behind.          *)
(* The runtime is the store's only writer and derives each idempotency key *)
(* from the fact it commits: the run's idempotency table is its set of     *)
(* facts and the expected revision is always current.                      *)
(***************************************************************************)
EXTENDS RecoveryJournal, SequencesExt

CONSTANTS
  ThisRun,       \* the run
  Capability,    \* capability identities
  Identity,      \* replay identities of providers
  Missing,       \* no visible provider
  AnyIdentity,   \* a requirement without a configured identity
  NoEffect,      \* TaskConfig.effect: None
  NoStart,       \* pending_started: None
  Configs,       \* the TaskConfigs a host supplies
  EmptyConfig,   \* TaskConfig::new()
  Setups,        \* what a host starts or restores a run with: [config, scope]
  Workflows,     \* the workflows a run starts with
  Batches,       \* the workflow mutations a host submits
  Capacity,      \* of the lifecycle stream, 128 in the code
  MaxAttempts,   \* bound on admitted attempts
  MaxRestarts    \* bound on restarts

(* RuntimeCore's tasks are numbers because the scheduler orders them.      *)
Workflow == INSTANCE WorkflowTopology WITH Id <- Task

Pin         == [capability : Capability, identity : Identity]
Requirement == [capability : Capability, identity : Identity \cup {AnyIdentity}]
EffectSpec  == [operation : Operation, semantics : Semantics]
TaskConfig  == [effect : EffectSpec \cup {NoEffect}, requires : SUBSET Requirement]
Setup       == [config : [Task -> TaskConfig], scope : [Capability -> Identity \cup {Missing}]]
GraphValue  == [tasks : SUBSET Task, dependencies : [Task -> SUBSET Task],
                completed : SUBSET Task]
TaskAttempt == [task : Task, attempt : Attempt, operation : Operation \cup {NoOperation},
                pins : SUBSET Pin]
Event       == [kind : {"TaskStarted", "TaskCompleted"}, task : Task, attempt : Attempt]

ASSUME IdentityAssumption ==
  /\ Task \subseteq Nat
  /\ Attempt = 1..MaxAttempts
  /\ ThisRun \in Run
  /\ Capabilities = SUBSET Pin
  /\ Missing \notin Identity
  /\ NoStart \notin TaskAttempt
  /\ NoEffect \notin EffectSpec
ASSUME BoundsAssumption == MaxAttempts \in Nat /\ Capacity \in Nat \ {0}
ASSUME HostAssumption ==
  /\ Configs \subseteq TaskConfig
  /\ EmptyConfig \in TaskConfig
  /\ Setups \subseteq Setup
  /\ Workflows \subseteq GraphValue
  /\ Batches \subseteq Seq(Workflow!Mutation)
  /\ \A w \in Workflows : \A t \in w.completed : w.dependencies[t] \subseteq w.completed

VARIABLES
  workflow,     \* the WorkflowGraph: tasks, dependencies, completed
  config,       \* task_configs
  scope,        \* identity of the provider of each capability in the scope
  durable,      \* the run's facts in the store
  journal,      \* the DurableJournal view
  cancelled,    \* the cancelled view
  attempts,     \* the attempts view
  pending,      \* pending_started
  nextAttempt,  \* next_attempt_number
  execution,    \* execution_events
  returned,     \* rejected items that the host holds
  restarts      \* restarts so far

views   == <<journal, cancelled>>
starts  == <<attempts, pending, nextAttempt>>
stream  == <<execution, returned>>
inputs  == <<config, scope>>
vars    == <<workflow, inputs, durable, views, starts, stream, restarts>>

Room == Len(execution) < Capacity

(* Lossless push: the event is accepted, or handed back to the caller.     *)
Enqueue(e) ==
  \/ Room /\ execution' = Append(execution, e) /\ UNCHANGED returned
  \/ ~Room /\ returned' = returned \cup {e} /\ UNCHANGED execution

Started(a)      == [kind |-> "TaskStarted", task |-> a.task, attempt |-> a.attempt]
Completed(t, n) == [kind |-> "TaskCompleted", task |-> t, attempt |-> n]

-----------------------------------------------------------------------------
(* capture_capability_pins for task t under a setup.                       *)
PinsAvailable(s, t) ==
  \A q \in s.config[t].requires :
    /\ s.scope[q.capability] # Missing
    /\ q.identity \in {AnyIdentity, s.scope[q.capability]}

Pins(s, t) ==
  { [capability |-> q.capability, identity |-> s.scope[q.capability]] :
      q \in s.config[t].requires }

CurrentSetup == [config |-> config, scope |-> scope]

(* attempt_for_task: a held start first, then the last matching attempt.   *)
AttemptForTask(t, o) ==
  LET matching == { i \in 1..Len(attempts) : attempts[i].task = t /\ attempts[i].operation = o }
  IN IF pending # NoStart /\ pending.task = t /\ pending.operation = o
     THEN {pending.attempt}
     ELSE { attempts[i].attempt : i \in { j \in matching : \A k \in matching : k <= j } }

OperationsOf(t) == { i.operation : i \in { j \in journal.intents : j.task = t } }

(* begin_attempt up to its commit: the attempt, and the facts with it.     *)
NewAttempt(t, o) ==
  [task |-> t, attempt |-> nextAttempt, operation |-> o, pins |-> Pins(CurrentSetup, t)]

AdmissionOf(a) ==
  AdmitAttempt([run |-> ThisRun, task |-> a.task, attempt |-> a.attempt,
                operation |-> a.operation, capabilities |-> a.pins])

CanBegin(t) ==
  /\ nextAttempt <= MaxAttempts
  /\ PinsAvailable(CurrentSetup, t)
  /\ ~Admitted(durable, nextAttempt)

WithAdmission(s, a) == ApplyMutation(s, AdmissionOf(a))

BeginForgotten(a) ==
  /\ nextAttempt' = nextAttempt + 1
  /\ attempts' = IF Room THEN Append(attempts, a) ELSE attempts
  /\ UNCHANGED pending

(* begin_attempt after its commit: without room the attempt stays pending, *)
(* in the place of the one that was pending before.                        *)
Begin(a) ==
  /\ nextAttempt' = nextAttempt + 1
  /\ \/ Room /\ attempts' = Append(attempts, a) /\ UNCHANGED pending
     \/ ~Room /\ pending' = a /\ UNCHANGED attempts

-----------------------------------------------------------------------------
(* build refuses the configuration of a task the workflow does not have.   *)
Buildable(s, w) == \A t \in Task : s.config[t] # EmptyConfig => t \in w.tasks

Init ==
  /\ workflow \in Workflows
  /\ \E s \in Setups : Buildable(s, workflow) /\ config = s.config /\ scope = s.scope
  /\ durable = NoFacts
  /\ journal = EmptyJournal
  /\ cancelled = {}
  /\ attempts = <<>>
  /\ pending = NoStart
  /\ nextAttempt = 1
  /\ execution = <<>>
  /\ returned = {}
  /\ restarts = 0

ConfigureTask(t, c) ==
  /\ t \in workflow.tasks
  /\ config' = [config EXCEPT ![t] = c]
  /\ UNCHANGED <<workflow, scope, durable, views, starts, stream, restarts>>

(* The host changes providers through the scope the runtime shares.        *)
ChangeScope(c, x) ==
  /\ scope' = [scope EXCEPT ![c] = x]
  /\ UNCHANGED <<workflow, config, durable, views, starts, stream, restarts>>

ApplyWorkflowMutation(b) ==
  /\ Workflow!BatchAccepted(workflow, b)
  /\ workflow' = Workflow!AfterBatch(workflow, b)
  /\ UNCHANGED <<inputs, durable, views, starts, stream, restarts>>

IntentFor(t, e) == [task |-> t, operation |-> e.operation, semantics |-> e.semantics]

IntentRecordableLate(f) ==
  f.task \in workflow.tasks /\ PersistIntentAccepted(journal, f) /\ IntentAccepted(durable, f)

IntentRecordable(f) ==
  /\ f.task \in workflow.tasks \ workflow.completed
  /\ PersistIntentAccepted(journal, f)
  /\ IntentAccepted(durable, f)

RecordEffectIntent(f) ==
  /\ IntentRecordable(f)
  /\ durable' = ApplyMutation(durable, RecordIntent(f))
  /\ journal' = PersistIntent(journal, f)
  /\ UNCHANGED <<workflow, inputs, cancelled, starts, stream, restarts>>

DispatchFor(o, n) == [operation |-> o, attempt |-> n]

(* dispatch_effect with the attempt that was admitted for the operation.   *)
DispatchAdmitted(o, n) ==
  LET d == DispatchFor(o, n)
  IN /\ HasIntent(journal, o)
     /\ TaskOf(journal, o) \notin cancelled
     /\ EffectState(journal, o) = "Prepared"
     /\ n \in AttemptForTask(TaskOf(journal, o), o)
     /\ PersistDispatchAccepted(journal, d)
     /\ DispatchAccepted(durable, d)
     /\ durable' = ApplyMutation(durable, RecordDispatch(d))
     /\ journal' = PersistDispatch(journal, d)
     /\ UNCHANGED <<workflow, inputs, cancelled, starts, stream, restarts>>

NeedsNewAttemptUnsafe(o) ==
  \/ /\ EffectState(journal, o) = "Prepared"
     /\ AttemptForTask(TaskOf(journal, o), o) = {}
  \/ EffectState(journal, o) = "OutcomeUnknown"

NeedsNewAttemptAfterFailure(o) ==
  \/ /\ EffectState(journal, o) = "Prepared"
     /\ AttemptForTask(TaskOf(journal, o), o) = {}
  \/ /\ EffectState(journal, o) \in {"OutcomeUnknown", "Failed"}
     /\ SemanticsOf(journal, o) = "Idempotent"

(* dispatch_effect needs a new attempt: none is admitted, or an idempotent *)
(* operation of unknown outcome is retried.                                *)
NeedsNewAttempt(o) ==
  \/ /\ EffectState(journal, o) = "Prepared"
     /\ AttemptForTask(TaskOf(journal, o), o) = {}
  \/ /\ EffectState(journal, o) = "OutcomeUnknown"
     /\ SemanticsOf(journal, o) = "Idempotent"

(* Admission and dispatch are two commits; a full stream comes between.    *)
DispatchNew(o) ==
  LET t == TaskOf(journal, o)
      a == NewAttempt(t, o)
      d == DispatchFor(o, a.attempt)
      s == WithAdmission(durable, a)
  IN /\ HasIntent(journal, o)
     /\ t \notin cancelled
     /\ NeedsNewAttempt(o)
     /\ CanBegin(t)
     /\ Begin(a)
     /\ Enqueue(Started(a))
     /\ \/ /\ Room
           /\ PersistDispatchAccepted(journal, d)
           /\ DispatchAccepted(s, d)
           /\ durable' = ApplyMutation(s, RecordDispatch(d))
           /\ journal' = PersistDispatch(journal, d)
        \/ /\ ~Room
           /\ durable' = s
           /\ UNCHANGED journal
     /\ UNCHANGED <<workflow, inputs, cancelled, restarts>>

RecordEffectOutcome(f) ==
  /\ PersistOutcomeAccepted(journal, f)
  /\ OutcomeAccepted(durable, f)
  /\ durable' = ApplyMutation(durable, RecordOutcome(f))
  /\ journal' = PersistOutcome(journal, f)
  /\ UNCHANGED <<workflow, inputs, cancelled, starts, stream, restarts>>

CompleteTaskOfClone(t) == t \in Workflow!Ready(workflow) /\ UNCHANGED workflow

(* WorkflowGraph.complete, which emit_completed follows.                   *)
CompleteTask(t) ==
  /\ t \in Workflow!Ready(workflow)
  /\ workflow' = [workflow EXCEPT !.completed = @ \cup {t}]

(* recover: only a known success changes anything.                         *)
Recover(o) ==
  /\ HasIntent(journal, o)
  /\ RecoveryAction(workflow.tasks, workflow.completed, journal, o)
       = "CompleteWithoutReexecution"
  /\ CompleteTask(TaskOf(journal, o))
  /\ Enqueue(Completed(TaskOf(journal, o), LatestDispatch(journal, o).attempt))
  /\ UNCHANGED <<inputs, durable, views, starts, restarts>>

(* The lineage cancel_task commits: the attempt only with an operation.    *)
CancellationOf(t, c) ==
  /\ c.run = ThisRun
  /\ c.task = t
  /\ \/ OperationsOf(t) = {} /\ c.operation = NoOperation /\ c.attempt = NoAttempt
     \/ /\ c.operation \in OperationsOf(t)
        /\ \/ c.attempt \in AttemptForTask(t, c.operation)
           \/ AttemptForTask(t, c.operation) = {} /\ c.attempt = NoAttempt

CancelTask(t, c) ==
  /\ t \in workflow.tasks
  /\ CancellationOf(t, c)
  /\ CancellationAccepted(durable, ThisRun, c)
  /\ durable' = ApplyMutation(durable, RecordCancellation(c))
  /\ cancelled' = cancelled \cup {t}
  /\ UNCHANGED <<workflow, inputs, journal, starts, stream, restarts>>

-----------------------------------------------------------------------------
SchedulableIfCancelled == Workflow!Ready(workflow)

(* step: the first ready task that is not cancelled.                       *)
Schedulable == Workflow!Ready(workflow) \ cancelled

Scheduled(t) ==
  /\ pending = NoStart
  /\ t \in Schedulable
  /\ \A u \in Schedulable : t <= u

(* A held start blocks step, which hands out its item once more.           *)
StepHeld ==
  /\ pending # NoStart
  /\ returned' = returned \cup {Started(pending)}
  /\ UNCHANGED <<workflow, inputs, durable, views, starts, execution, restarts>>

Plain(t) == OperationsOf(t) = {} /\ config[t].effect = NoEffect

(* A task without an effect that was admitted before, but not completed.   *)
StepPlainAgain(t, n) ==
  /\ Scheduled(t)
  /\ Plain(t)
  /\ n \in AttemptForTask(t, NoOperation)
  /\ CompleteTask(t)
  /\ Enqueue(Completed(t, n))
  /\ UNCHANGED <<inputs, durable, views, starts, restarts>>

(* Two events: with room for none the attempt stays pending and the task   *)
(* unfinished, with room for one the completion is handed back.            *)
StepPlainNew(t) ==
  LET a == NewAttempt(t, NoOperation)
      started == Append(execution, Started(a))
      done == Completed(t, a.attempt)
  IN /\ Scheduled(t)
     /\ Plain(t)
     /\ AttemptForTask(t, NoOperation) = {}
     /\ CanBegin(t)
     /\ Begin(a)
     /\ durable' = WithAdmission(durable, a)
     /\ \/ ~Room /\ Enqueue(Started(a)) /\ UNCHANGED workflow
        \/ /\ Room
           /\ CompleteTask(t)
           /\ \/ /\ Len(started) < Capacity
                 /\ execution' = Append(started, done)
                 /\ UNCHANGED returned
              \/ /\ Len(started) >= Capacity
                 /\ execution' = started
                 /\ returned' = returned \cup {done}
     /\ UNCHANGED <<inputs, views, restarts>>

(* A configured effect without intent: the intent is committed before the  *)
(* capabilities are looked up, and stays when they are missing.            *)
StepIntent(t) ==
  LET f == IntentFor(t, config[t].effect)
      a == NewAttempt(t, f.operation)
      s == ApplyMutation(durable, RecordIntent(f))
  IN /\ Scheduled(t)
     /\ OperationsOf(t) = {}
     /\ config[t].effect # NoEffect
     /\ IntentRecordable(f)
     /\ journal' = PersistIntent(journal, f)
     /\ \/ /\ CanBegin(t)
           /\ durable' = WithAdmission(s, a)
           /\ Begin(a)
           /\ Enqueue(Started(a))
        \/ /\ ~PinsAvailable(CurrentSetup, t)
           /\ durable' = s
           /\ UNCHANGED <<starts, stream>>
     /\ UNCHANGED <<workflow, inputs, cancelled, restarts>>

StepAdmit(t, o) ==
  LET a == NewAttempt(t, o)
  IN /\ Scheduled(t)
     /\ o \in OperationsOf(t)
     /\ EffectState(journal, o) = "Prepared"
     /\ AttemptForTask(t, o) = {}
     /\ CanBegin(t)
     /\ Begin(a)
     /\ Enqueue(Started(a))
     /\ durable' = WithAdmission(durable, a)
     /\ UNCHANGED <<workflow, inputs, views, restarts>>

StepSucceeded(t, o) ==
  /\ Scheduled(t)
  /\ o \in OperationsOf(t)
  /\ EffectState(journal, o) = "Succeeded"
  /\ CompleteTask(t)
  /\ Enqueue(Completed(t, LatestDispatch(journal, o).attempt))
  /\ UNCHANGED <<inputs, durable, views, starts, restarts>>

Step ==
  \/ StepHeld
  \/ \E t \in Task :
       \/ StepPlainNew(t)
       \/ \E n \in Attempt : StepPlainAgain(t, n)
       \/ StepIntent(t)
       \/ \E o \in Operation : StepAdmit(t, o) \/ StepSucceeded(t, o)

-----------------------------------------------------------------------------
DrainExecutionEvents ==
  /\ execution # <<>>
  /\ execution' = <<>>
  /\ UNCHANGED <<workflow, inputs, durable, views, starts, returned, restarts>>

(* retry_execution_event while a start is pending publishes that start,    *)
(* whatever item the host passes.                                          *)
RetryPending(e) ==
  /\ pending # NoStart
  /\ \/ /\ Room
        /\ execution' = Append(execution, Started(pending))
        /\ attempts' = Append(attempts, pending)
        /\ pending' = NoStart
        /\ returned' = returned \ {e}
     \/ /\ ~Room
        /\ returned' = (returned \ {e}) \cup {Started(pending)}
        /\ UNCHANGED <<execution, attempts, pending>>
  /\ UNCHANGED <<workflow, inputs, durable, views, nextAttempt, restarts>>

RetryItemDropped(e) ==
  /\ pending = NoStart
  /\ execution' = IF Room THEN Append(execution, e) ELSE execution
  /\ returned' = returned \ {e}
  /\ UNCHANGED <<workflow, inputs, durable, views, starts, restarts>>

RetryItem(e) ==
  /\ pending = NoStart
  /\ Room
  /\ execution' = Append(execution, e)
  /\ returned' = returned \ {e}
  /\ UNCHANGED <<workflow, inputs, durable, views, starts, restarts>>

RetryExecutionEvent == \E e \in returned : RetryPending(e) \/ RetryItem(e)

-----------------------------------------------------------------------------
(* state.attempts(): the admissions in their order, each with the          *)
(* capabilities captured under the new setup.                              *)
RestoredAttempt(s, f) ==
  [task |-> f.task, attempt |-> f.attempt, operation |-> f.operation, pins |-> Pins(s, f.task)]

RestoredAttempts(s) ==
  [i \in 1..Len(durable.admissions) |-> RestoredAttempt(s, durable.admissions[i])]

RestorableUnchecked(s) == \A f \in AdmissionSet(durable) : PinsAvailable(s, f.task)

(* restore_run succeeds only where every admitted attempt finds the        *)
(* capabilities it was admitted with.                                      *)
Restorable(s) ==
  \A f \in AdmissionSet(durable) :
    PinsAvailable(s, f.task) /\ Pins(s, f.task) = f.capabilities

(* The process ends at any point between two calls; the host restores it   *)
(* from the store with a setup and a workflow that may have been saved     *)
(* before the last completions.                                            *)
Restart(s, done) ==
  /\ restarts < MaxRestarts
  /\ restarts' = restarts + 1
  /\ done \subseteq workflow.completed
  /\ \A t \in done : workflow.dependencies[t] \subseteq done
  /\ Rebuildable(durable)
  /\ Buildable(s, workflow)
  /\ Restorable(s)
  /\ workflow' = [workflow EXCEPT !.completed = done]
  /\ config' = s.config
  /\ scope' = s.scope
  /\ journal' = JournalView(durable)
  /\ cancelled' = { c.task : c \in durable.cancellations }
  /\ attempts' = RestoredAttempts(s)
  /\ nextAttempt' = Len(durable.admissions) + 1
  /\ pending' = NoStart
  /\ execution' = <<>>
  /\ returned' = {}
  /\ UNCHANGED durable

Inputs ==
  \/ \E t \in Task, c \in Configs : ConfigureTask(t, c)
  \/ \E c \in Capability, x \in Identity \cup {Missing} : ChangeScope(c, x)
  \/ \E b \in Batches : ApplyWorkflowMutation(b)

Effects ==
  \/ \E f \in Intent : RecordEffectIntent(f)
  \/ \E o \in Operation : DispatchNew(o) \/ Recover(o)
  \/ \E o \in Operation, n \in Attempt : DispatchAdmitted(o, n)
  \/ \E f \in Outcome : RecordEffectOutcome(f)
  \/ \E t \in Task, c \in Cancellation : CancelTask(t, c)

Restarts == \E s \in Setups, done \in SUBSET Task : Restart(s, done)

Next == Inputs \/ Effects \/ Step \/ DrainExecutionEvents \/ RetryExecutionEvent \/ Restarts

Spec == Init /\ [][Next]_vars

-----------------------------------------------------------------------------
(* Type invariant of the runtime, its store and the host's items.          *)
TypeOK ==
  /\ workflow \in GraphValue
  /\ CurrentSetup \in Setup
  /\ durable \in FactSet
  /\ journal \in Journal
  /\ cancelled \subseteq Task
  /\ attempts \in Seq(TaskAttempt)
  /\ pending \in TaskAttempt \cup {NoStart}
  /\ nextAttempt \in 1..(MaxAttempts + 1)
  /\ execution \in Seq(Event) /\ Len(execution) <= Capacity
  /\ returned \subseteq Event
  /\ restarts \in Nat

(* The process-local views say what the store says, across every call that *)
(* fails between two commits and every restart: recovery, which reads only *)
(* the views, decides from durable facts.                                  *)
ViewsMirrorStore ==
  /\ journal = JournalView(durable)
  /\ cancelled = { c.task : c \in durable.cancellations }

(* The runtime can always be restored from what it committed: no sequence  *)
(* of calls commits facts that from_durable_state refuses.                 *)
FactsStayRebuildable ==
  IdentitiesUsedOnce(durable) /\ Lineage(durable) /\ Rebuildable(durable)

(* Attempt identities are allocated without gap or reuse across restarts.  *)
AttemptsAreNumbered ==
  /\ Len(durable.admissions) = nextAttempt - 1
  /\ \A n \in 1..Len(durable.admissions) : durable.admissions[n].attempt = n

(* A non-idempotent effect reaches the outside world at most once, however *)
(* often the host dispatches, retries, restarts or recovers.               *)
UnsafeEffectDispatchedOnce ==
  \A i \in durable.intents :
    i.semantics = "NonIdempotent" =>
      \A m, n \in DispatchesOf(durable, i.operation) : m = n

(* A task that owns an operation is completed only on that operation's     *)
(* known success: recovery never meets the state it calls an invariant     *)
(* violation.                                                              *)
RecoveryNeverContradicted ==
  \A i \in journal.intents :
    RecoveryAction(workflow.tasks, workflow.completed, journal, i.operation)
      # "InvariantViolation"

(* Observations follow the authority: an event in the stream or in the     *)
(* host's hands tells of an admitted attempt or of a recorded completion.  *)
EventsFollowFacts ==
  \A e \in ToSet(execution) \cup returned :
    /\ \E f \in AdmissionSet(durable) : f.attempt = e.attempt /\ f.task = e.task
    /\ e.kind = "TaskCompleted" => e.task \in workflow.completed

(* The capabilities an attempt holds are the ones it was admitted with,    *)
(* through provider changes, reconfiguration and restarts.                 *)
AttemptsKeepTheirPins ==
  \A a \in ToSet(attempts) \cup ({pending} \ {NoStart}) :
    \E f \in AdmissionSet(durable) :
      /\ f.attempt = a.attempt /\ f.task = a.task
      /\ f.operation = a.operation /\ f.capabilities = a.pins

(* An operation whose latest dispatch has a known outcome is never         *)
(* dispatched again, by no call of the runtime and after no restart.       *)
KnownOutcomeStopsDispatch ==
  [][ \A o \in Operation :
        EffectState(durable, o) \in KnownOutcome =>
          DispatchesOf(durable', o) = DispatchesOf(durable, o) ]_vars

(* Cancellation before dispatch is final: the task is not dispatched and   *)
(* not completed by any later step, restarts included.                     *)
CancelledWorkStaysUndone ==
  [][ \A t \in cancelled :
        /\ t \in cancelled'
        /\ \A i \in durable.intents :
             i.task = t => DispatchesOf(durable', i.operation) = DispatchesOf(durable, i.operation)
        /\ /\ t \notin workflow.completed
           /\ \A i \in durable.intents : i.task = t => DispatchesOf(durable, i.operation) = {}
           => t \notin workflow'.completed ]_vars

-----------------------------------------------------------------------------
(* What an observer of the operations sees of the run.                     *)
LatestOutcomes ==
  [o \in Operation |->
     LET state == EffectState(durable, o)
     IN IF state \in KnownOutcome THEN state ELSE "Unknown"]

Protocol == INSTANCE EffectProtocol
              WITH intents <- durable.intents, dispatched <- DispatchSet(durable),
                   outcome <- LatestOutcomes, completed <- workflow.completed

(* The runtime implements the protocol of external effects: whatever a     *)
(* call commits, in one commit or two, wherever it fails and wherever the  *)
(* process ends, is to an observer one step of the protocol or nothing.    *)
ImplementsEffectProtocol == Protocol!Spec
=============================================================================
