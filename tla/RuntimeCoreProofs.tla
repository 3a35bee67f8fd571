------------------------- MODULE RuntimeCoreProofs -------------------------
(***************************************************************************)
(* Proofs about RuntimeCore, for every set of tasks, operations, setups,   *)
(* batches and capabilities and every capacity of the lifecycle stream.    *)
(*                                                                         *)
(* IInv is inductive.  It adds to the invariants that TLC checks that a    *)
(* completed task with an operation knows the operation's success          *)
(* (CompletedOnSuccess): without it, a dispatch could follow a completion. *)
(***************************************************************************)
EXTENDS RuntimeHost, DurableFactsProofs

Known(s, a) ==
  \E f \in AdmissionSet(s) :
    /\ f.attempt = a.attempt /\ f.task = a.task
    /\ f.operation = a.operation /\ f.capabilities = a.pins

Told(w, s, e) ==
  /\ \E f \in AdmissionSet(s) : f.attempt = e.attempt /\ f.task = e.task
  /\ e.kind = "TaskCompleted" => e.task \in w.completed

Held  == ToSet(attempts) \cup ({pending} \ {NoStart})
Items == ToSet(execution) \cup returned

FactsInv == Consistent(workflow, durable) /\ ViewsMirrorStore

IInv ==
  /\ TypeOK
  /\ FactsInv
  /\ AttemptsAreNumbered
  /\ \A a \in Held : Known(durable, a)
  /\ \A e \in Items : Told(workflow, durable, e)

-----------------------------------------------------------------------------
(* Appending an element adds it to the elements of a sequence.             *)
LEMMA ToSetAppend ==
  ASSUME NEW S, NEW q \in Seq(S), NEW e \in S
  PROVE  Append(q, e) \in Seq(S) /\ ToSet(Append(q, e)) = ToSet(q) \cup {e}
<1>1. PICK z : z = Append(q, e)
  OBVIOUS
<1>2. z \in Seq(S) /\ { z[i] : i \in 1..Len(z) } = { q[i] : i \in 1..Len(q) } \cup {e}
  BY <1>1, AppendedRecord
<1>3. DOMAIN z = 1..Len(z) /\ DOMAIN q = 1..Len(q)
  BY <1>2
<1>4. QED BY <1>1, <1>2, <1>3 DEF ToSet

(* A lossless push keeps every item and adds one.                          *)
LEMMA EnqueueAdds ==
  ASSUME TypeOK, NEW e \in Event, Enqueue(e)
  PROVE  /\ execution' \in Seq(Event) /\ Len(execution') <= Capacity
         /\ returned' \subseteq Event
         /\ Items' = Items \cup {e}
<1>1. execution \in Seq(Event) /\ Len(execution) \in Nat /\ Len(execution) <= Capacity
      /\ Capacity \in Nat /\ returned \subseteq Event
  BY BoundsAssumption DEF TypeOK
<1>2. CASE Room /\ execution' = Append(execution, e) /\ UNCHANGED returned
  <2>1. execution' \in Seq(Event) /\ ToSet(execution') = ToSet(execution) \cup {e}
    BY <1>1, <1>2, ToSetAppend
  <2>2. Len(execution') = Len(execution) + 1
    BY <1>1, <1>2
  <2>3. QED BY <1>1, <1>2, <2>1, <2>2 DEF Room, Items
<1>3. CASE ~Room /\ returned' = returned \cup {e} /\ UNCHANGED execution
  BY <1>1, <1>3 DEF Items
<1>4. QED BY <1>2, <1>3 DEF Enqueue

LEMMA StartedType ==
  ASSUME NEW a \in TaskAttempt
  PROVE  /\ Started(a) \in Event /\ Started(a).kind = "TaskStarted"
         /\ Started(a).attempt = a.attempt /\ Started(a).task = a.task
BY DEF TaskAttempt, Started, Event

LEMMA CompletedType ==
  ASSUME NEW t \in Task, NEW n \in Attempt
  PROVE  /\ Completed(t, n) \in Event
         /\ Completed(t, n).attempt = n /\ Completed(t, n).task = t
BY DEF Completed, Event

(* A new attempt is a fresh admission that names what it holds.            *)
LEMMA NewAttemptType ==
  ASSUME TypeOK, NEW t \in Task, NEW o \in Operation \cup {NoOperation}, CanBegin(t),
         NEW a, a = NewAttempt(t, o),
         NEW f, f = AdmissionOf(a).fact
  PROVE  /\ a \in TaskAttempt /\ a.task = t /\ a.operation = o /\ a.attempt = nextAttempt
         /\ f \in Admission /\ AdmissionOf(a) = AdmitAttempt(f)
         /\ f.attempt = a.attempt /\ f.task = a.task
         /\ f.operation = a.operation /\ f.capabilities = a.pins
         /\ ~Admitted(durable, f.attempt)
<1>1. nextAttempt \in Attempt
  BY IdentityAssumption, BoundsAssumption DEF TypeOK, CanBegin
<1>2. CurrentSetup \in Setup
  BY DEF TypeOK
<1>3. Pins(CurrentSetup, t) \in SUBSET Pin
  <2>1. SUFFICES ASSUME NEW q \in CurrentSetup.config[t].requires
                 PROVE  [capability |-> q.capability, identity |-> CurrentSetup.scope[q.capability]] \in Pin
    BY DEF Pins
  <2>2. q \in Requirement
    BY <1>2 DEF Setup, TaskConfig
  <2>3. CurrentSetup.scope[q.capability] \in Identity
    BY <1>2, <2>2 DEF Setup, Requirement, CanBegin, PinsAvailable
  <2>4. QED BY <2>2, <2>3 DEF Pin, Requirement
<1>4. /\ a \in TaskAttempt /\ a.task = t /\ a.operation = o /\ a.attempt = nextAttempt
  BY <1>1, <1>3 DEF NewAttempt, TaskAttempt
<1>5. f = [run |-> ThisRun, task |-> a.task, attempt |-> a.attempt,
           operation |-> a.operation, capabilities |-> a.pins]
  BY DEF AdmissionOf, AdmitAttempt
<1>6. f \in Admission
  BY <1>4, <1>5, IdentityAssumption DEF TaskAttempt, Admission
<1>7. AdmissionOf(a) = AdmitAttempt(f)
  BY <1>5 DEF AdmissionOf
<1>8. ~Admitted(durable, f.attempt)
  BY <1>4, <1>5 DEF CanBegin
<1>9. QED BY <1>4, <1>5, <1>6, <1>7, <1>8

(* begin_attempt's own state: the new attempt is listed or pending.        *)
LEMMA BeginHolds ==
  ASSUME TypeOK, NEW a \in TaskAttempt, Begin(a), nextAttempt <= MaxAttempts
  PROVE  /\ attempts' \in Seq(TaskAttempt)
         /\ pending' \in TaskAttempt \cup {NoStart}
         /\ nextAttempt' = nextAttempt + 1
         /\ nextAttempt' \in 1..(MaxAttempts + 1)
         /\ Held' \subseteq Held \cup {a}
<1>1. attempts \in Seq(TaskAttempt) /\ pending \in TaskAttempt \cup {NoStart}
      /\ nextAttempt \in 1..(MaxAttempts + 1) /\ MaxAttempts \in Nat
  BY BoundsAssumption DEF TypeOK
<1>2. nextAttempt' = nextAttempt + 1 /\ nextAttempt' \in 1..(MaxAttempts + 1)
  BY <1>1 DEF Begin
<1>3. CASE Room /\ attempts' = Append(attempts, a) /\ UNCHANGED pending
  <2>1. attempts' \in Seq(TaskAttempt) /\ ToSet(attempts') = ToSet(attempts) \cup {a}
    BY <1>1, <1>3, ToSetAppend
  <2>2. QED BY <1>1, <1>2, <1>3, <2>1 DEF Held
<1>4. CASE ~Room /\ pending' = a /\ UNCHANGED attempts
  BY <1>1, <1>2, <1>4 DEF Held
<1>5. QED BY <1>3, <1>4 DEF Begin

(* An attempt that is found for a task and an operation is one of theirs.  *)
LEMMA AttemptFound ==
  ASSUME TypeOK, NEW t, NEW o, NEW n \in AttemptForTask(t, o)
  PROVE  \E a \in Held : a.attempt = n /\ a.task = t /\ a.operation = o
<1>1. CASE pending # NoStart /\ pending.task = t /\ pending.operation = o
  BY <1>1 DEF AttemptForTask, Held
<1>2. CASE ~(pending # NoStart /\ pending.task = t /\ pending.operation = o)
  <2>1. PICK i \in 1..Len(attempts) :
          n = attempts[i].attempt /\ attempts[i].task = t /\ attempts[i].operation = o
    BY <1>2 DEF AttemptForTask
  <2>2. attempts[i] \in Held
    BY <2>1 DEF Held, ToSet, TypeOK
  <2>3. QED BY <2>1, <2>2
<1>3. QED BY <1>1, <1>2

-----------------------------------------------------------------------------
(* What a step may do to the facts and to the workflow.  A dispatch is     *)
(* only added to an operation without known outcome whose task is not      *)
(* cancelled, and a cancelled task is only completed after a dispatch.     *)
DispatchesOpen ==
  \A o \in Operation :
    \/ DispatchesOf(durable', o) = DispatchesOf(durable, o)
    \/ /\ EffectState(durable, o) \notin KnownOutcome
       /\ \A i \in durable.intents : i.operation = o => i.task \notin cancelled

CompletesOpen ==
  \A t \in workflow'.completed :
    \/ t \in workflow.completed
    \/ t \notin cancelled
    \/ \E i \in durable.intents : i.task = t /\ DispatchesOf(durable, i.operation) # {}

FactsStep ==
  /\ FactsInv'
  /\ workflow' \in GraphValue /\ durable' \in FactSet
  /\ journal' \in Journal /\ cancelled' \subseteq Task
  /\ AdmissionSet(durable) \subseteq AdmissionSet(durable')
  /\ cancelled \subseteq cancelled'
  /\ DispatchesOpen
  /\ CompletesOpen

(* The views have the types of what they mirror.                           *)
LEMMA ViewTypes ==
  ASSUME NEW s \in FactSet
  PROVE  JournalView(s) \in Journal /\ { c.task : c \in s.cancellations } \subseteq Task
BY DEF FactSet, JournalView, Journal, Cancellation

(* Reading the journal is reading the facts.                               *)
LEMMA JournalReads ==
  ASSUME FactsInv, NEW o
  PROVE  /\ EffectState(journal, o) = EffectState(durable, o)
         /\ DispatchesOf(journal, o) = DispatchesOf(durable, o)
         /\ LatestDispatch(journal, o) = LatestDispatch(durable, o)
         /\ HasIntent(journal, o) <=> HasIntent(durable, o)
         /\ TaskOf(journal, o) = TaskOf(durable, o)
         /\ SemanticsOf(journal, o) = SemanticsOf(durable, o)
         /\ journal.intents = durable.intents
<1>1. journal = JournalView(durable)
  BY DEF FactsInv, ViewsMirrorStore
<1>2. journal.intents = durable.intents
  BY <1>1 DEF JournalView
<1>3. QED BY <1>1, <1>2, ViewDerivesTheSame

(* A step that leaves facts, views and workflow alone.                     *)
LEMMA QuietFacts ==
  ASSUME IInv, UNCHANGED <<workflow, durable, views>>
  PROVE  FactsStep
BY DEF IInv, TypeOK, views, FactsStep, FactsInv, ViewsMirrorStore, DispatchesOpen, CompletesOpen

(* Completing a task whose operation, if it has one, succeeded.            *)
LEMMA CompleteConsistent ==
  ASSUME NEW w \in GraphValue, NEW s, Consistent(w, s), NEW t \in Workflow!Ready(w),
         \A i \in s.intents : i.task = t => EffectState(s, i.operation) = "Succeeded",
         NEW v, v = [w EXCEPT !.completed = @ \cup {t}]
  PROVE  /\ v \in GraphValue /\ Consistent(v, s) /\ t \in Task
         /\ v.completed = w.completed \cup {t}
<1>1. t \in w.tasks /\ t \in Task
  BY DEF Workflow!Ready, GraphValue
<1>2. v \in GraphValue /\ v.tasks = w.tasks /\ v.completed = w.completed \cup {t}
  BY <1>1 DEF GraphValue
<1>3. QED BY <1>1, <1>2 DEF Consistent, CompletedOnSuccess

(* A completion alone.                                                     *)
LEMMA CompletionFacts ==
  ASSUME IInv, NEW t, CompleteTask(t), UNCHANGED <<durable, views>>,
         \A i \in durable.intents : i.task = t => EffectState(durable, i.operation) = "Succeeded",
         t \notin cancelled \/ \E i \in durable.intents : i.task = t
  PROVE  FactsStep /\ t \in Task /\ workflow'.completed = workflow.completed \cup {t}
<1>1. Consistent(workflow, durable) /\ workflow \in GraphValue /\ durable \in FactSet
  BY DEF IInv, TypeOK, FactsInv
<1>2. /\ workflow' \in GraphValue /\ Consistent(workflow', durable) /\ t \in Task
      /\ workflow'.completed = workflow.completed \cup {t}
  BY <1>1, CompleteConsistent DEF CompleteTask
<1>3. t \notin cancelled \/ \E i \in durable.intents :
        i.task = t /\ DispatchesOf(durable, i.operation) # {}
  <2>1. SUFFICES ASSUME NEW i \in durable.intents, i.task = t
                 PROVE  DispatchesOf(durable, i.operation) # {}
    OBVIOUS
  <2>2. HasIntent(durable, i.operation) /\ EffectState(durable, i.operation) = "Succeeded"
    BY <2>1 DEF HasIntent
  <2>3. QED BY <1>1, <2>2, StatesOfAnEffect
<1>4. CompletesOpen /\ DispatchesOpen
  BY <1>2, <1>3 DEF CompletesOpen, DispatchesOpen
<1>5. QED BY <1>1, <1>2, <1>4 DEF FactsStep, FactsInv, ViewsMirrorStore, views, IInv, TypeOK

LEMMA RecoverFacts ==
  ASSUME IInv, NEW o \in Operation, Recover(o)
  PROVE  /\ FactsStep /\ TaskOf(journal, o) \in Task
         /\ workflow'.completed = workflow.completed \cup {TaskOf(journal, o)}
         /\ EffectState(durable, o) = "Succeeded"
<1>1. FactsInv /\ Consistent(workflow, durable)
  BY DEF IInv, FactsInv
<1>2. PICK i \in durable.intents : i.operation = o
  BY <1>1, JournalReads DEF Recover, HasIntent
<1>3. IdentitiesUsedOnce(durable)
  BY <1>1 DEF Consistent, FactsOK
<1>4. TaskOf(durable, o) = i.task /\ TaskOf(journal, o) = i.task
  BY <1>1, <1>2, <1>3, TheIntent, JournalReads
<1>5. EffectState(durable, o) = "Succeeded"
  <2>1. journal = JournalView(durable)
    BY <1>1 DEF FactsInv, ViewsMirrorStore
  <2>2. QED BY <1>1, <1>2, <2>1, ConsistentRecovery DEF Recover
<1>6. \A k \in durable.intents : k.task = i.task => k = i
  BY <1>3 DEF IdentitiesUsedOnce
<1>7. QED BY <1>2, <1>4, <1>5, <1>6, CompletionFacts DEF Recover

LEMMA StepSucceededFacts ==
  ASSUME IInv, NEW t \in Task, NEW o \in Operation, StepSucceeded(t, o)
  PROVE  FactsStep /\ workflow'.completed = workflow.completed \cup {t}
<1>1. FactsInv /\ IdentitiesUsedOnce(durable)
  BY DEF IInv, FactsInv, Consistent, FactsOK
<1>2. PICK i \in durable.intents : i.operation = o /\ i.task = t
  BY <1>1, JournalReads DEF StepSucceeded, OperationsOf
<1>3. EffectState(durable, o) = "Succeeded"
  BY <1>1, JournalReads DEF StepSucceeded
<1>4. \A k \in durable.intents : k.task = t => k = i
  BY <1>1, <1>2 DEF IdentitiesUsedOnce
<1>5. QED BY <1>2, <1>3, <1>4, CompletionFacts DEF StepSucceeded

(* A plain task owns no operation.                                         *)
LEMMA PlainOwnsNothing ==
  ASSUME FactsInv, NEW t, Plain(t)
  PROVE  \A i \in durable.intents : i.task # t
BY JournalReads DEF Plain, OperationsOf

LEMMA StepPlainAgainFacts ==
  ASSUME IInv, NEW t \in Task, NEW n \in Attempt, StepPlainAgain(t, n)
  PROVE  FactsStep /\ workflow'.completed = workflow.completed \cup {t}
<1>1. \A i \in durable.intents : i.task # t
  BY PlainOwnsNothing DEF StepPlainAgain, IInv
<1>2. t \notin cancelled
  BY DEF StepPlainAgain, Scheduled, Schedulable
<1>3. QED BY <1>1, <1>2, CompletionFacts DEF StepPlainAgain

(* A batch adds tasks and dependencies.                                    *)
LEMMA BatchType ==
  ASSUME NEW w \in GraphValue, NEW b \in Batches, NEW v, v = Workflow!AfterBatch(w, b)
  PROVE  v \in GraphValue /\ w.tasks \subseteq v.tasks /\ v.completed = w.completed
<1>1. b \in Seq(Workflow!Mutation)
  BY HostAssumption
<1>2. \A i \in 1..Len(b) :
        /\ b[i].kind = "AddTask" => b[i].task \in Task
        /\ b[i].kind = "AddDependency" => b[i].on \in Task
  <2>1. SUFFICES ASSUME NEW i \in 1..Len(b), NEW m, m = b[i]
                 PROVE  /\ m.kind = "AddTask" => m.task \in Task
                        /\ m.kind = "AddDependency" => m.on \in Task
    OBVIOUS
  <2>2. m \in Workflow!Mutation
    BY <1>1, <2>1
  <2>3. QED BY <2>2 DEF Workflow!Mutation, Workflow!AddTask, Workflow!AddDependency
<1>3. Workflow!TasksAfter(w, b, Len(b)) \in SUBSET Task /\
      w.tasks \subseteq Workflow!TasksAfter(w, b, Len(b))
  BY <1>2 DEF Workflow!TasksAfter, GraphValue
<1>4. Workflow!DependenciesAfter(w, b, Len(b)) \in [Task -> SUBSET Task]
  BY <1>2 DEF Workflow!DependenciesAfter, GraphValue
<1>5. QED BY <1>3, <1>4 DEF Workflow!AfterBatch, Workflow!Graph, GraphValue

LEMMA MutateFacts ==
  ASSUME IInv, NEW b \in Batches, ApplyWorkflowMutation(b)
  PROVE  FactsStep
<1>1. Consistent(workflow, durable) /\ workflow \in GraphValue
  BY DEF IInv, TypeOK, FactsInv
<1>2. /\ workflow' \in GraphValue /\ workflow.tasks \subseteq workflow'.tasks
      /\ workflow'.completed = workflow.completed
  BY <1>1, BatchType DEF ApplyWorkflowMutation
<1>3. Consistent(workflow', durable)
  BY <1>1, <1>2 DEF Consistent, CompletedOnSuccess
<1>4. UNCHANGED <<durable, views>>
  BY DEF ApplyWorkflowMutation
<1>5. CompletesOpen /\ DispatchesOpen
  BY <1>2, <1>4 DEF CompletesOpen, DispatchesOpen
<1>6. QED BY <1>2, <1>3, <1>4, <1>5 DEF FactsStep, FactsInv, ViewsMirrorStore, views, IInv, TypeOK

(* A step that leaves the workflow alone and mirrors what it commits.      *)
LEMMA CommitFacts ==
  ASSUME IInv, UNCHANGED workflow, Consistent(workflow, durable'), ViewsMirrorStore',
         AdmissionSet(durable) \subseteq AdmissionSet(durable'),
         cancelled \subseteq cancelled', DispatchesOpen
  PROVE  FactsStep
<1>1. durable' \in FactSet
  BY DEF Consistent, FactsOK
<1>2. journal' \in Journal /\ cancelled' \subseteq Task
  BY <1>1, ViewTypes DEF ViewsMirrorStore
<1>3. QED BY <1>1, <1>2 DEF FactsStep, FactsInv, IInv, TypeOK, CompletesOpen

LEMMA IntentFacts ==
  ASSUME IInv, NEW f \in Intent, RecordEffectIntent(f)
  PROVE  FactsStep
<1>1. Consistent(workflow, durable) /\ ViewsMirrorStore
  BY DEF IInv, FactsInv
<1>2. PICK z : z = ApplyMutation(durable, RecordIntent(f))
  OBVIOUS
<1>3. IntentAccepted(durable, f) /\ f.task \in workflow.tasks /\ f.task \notin workflow.completed
  BY DEF RecordEffectIntent, IntentRecordable
<1>4. /\ Consistent(workflow, z)
      /\ z.intents = durable.intents \cup {f}
      /\ z.admissions = durable.admissions /\ z.cancellations = durable.cancellations
      /\ z.dispatches = durable.dispatches /\ z.outcomes = durable.outcomes
      /\ \A o : DispatchesOf(z, o) = DispatchesOf(durable, o)
  BY <1>1, <1>2, <1>3, IntentConsistent, IdentityAssumption
<1>5. durable' = z /\ journal' = PersistIntent(journal, f) /\ UNCHANGED <<workflow, cancelled>>
  BY <1>2 DEF RecordEffectIntent
<1>6. ViewsMirrorStore'
  BY <1>1, <1>4, <1>5 DEF ViewsMirrorStore, JournalView, PersistIntent
<1>7. DispatchesOpen /\ AdmissionSet(durable) = AdmissionSet(z)
  BY <1>4, <1>5 DEF DispatchesOpen, AdmissionSet
<1>8. QED BY <1>4, <1>5, <1>6, <1>7, CommitFacts

LEMMA OutcomeFacts ==
  ASSUME IInv, NEW f \in Outcome, RecordEffectOutcome(f)
  PROVE  FactsStep
<1>1. Consistent(workflow, durable) /\ ViewsMirrorStore
  BY DEF IInv, FactsInv
<1>2. PICK z : z = ApplyMutation(durable, RecordOutcome(f))
  OBVIOUS
<1>3. OutcomeAccepted(durable, f)
  BY DEF RecordEffectOutcome
<1>4. /\ Consistent(workflow, z)
      /\ z.outcomes = durable.outcomes \cup {f}
      /\ z.admissions = durable.admissions /\ z.cancellations = durable.cancellations
      /\ z.dispatches = durable.dispatches /\ z.intents = durable.intents
      /\ \A o : DispatchesOf(z, o) = DispatchesOf(durable, o)
  BY <1>1, <1>2, <1>3, OutcomeConsistent, IdentityAssumption
<1>5. durable' = z /\ journal' = PersistOutcome(journal, f) /\ UNCHANGED <<workflow, cancelled>>
  BY <1>2 DEF RecordEffectOutcome
<1>6. ViewsMirrorStore'
  BY <1>1, <1>4, <1>5 DEF ViewsMirrorStore, JournalView, PersistOutcome
<1>7. DispatchesOpen /\ AdmissionSet(durable) = AdmissionSet(z)
  BY <1>4, <1>5 DEF DispatchesOpen, AdmissionSet
<1>8. QED BY <1>4, <1>5, <1>6, <1>7, CommitFacts

LEMMA CancelFacts ==
  ASSUME IInv, NEW t \in Task, NEW c \in Cancellation, CancelTask(t, c)
  PROVE  FactsStep
<1>1. Consistent(workflow, durable) /\ ViewsMirrorStore
  BY DEF IInv, FactsInv
<1>2. PICK z : z = ApplyMutation(durable, RecordCancellation(c))
  OBVIOUS
<1>3. c.task = t /\ c.run = ThisRun /\ CancellationAccepted(durable, c.run, c)
  BY DEF CancelTask, CancellationOf
<1>4. /\ Consistent(workflow, z) /\ SameEffects(durable, z)
      /\ z.cancellations = durable.cancellations \cup {c}
      /\ z.admissions = durable.admissions
  BY <1>1, <1>2, <1>3, CancelConsistent
<1>5. durable' = z /\ cancelled' = cancelled \cup {t} /\ UNCHANGED <<workflow, journal>>
  BY <1>2 DEF CancelTask
<1>6. ViewsMirrorStore'
  BY <1>1, <1>3, <1>4, <1>5 DEF ViewsMirrorStore, JournalView, SameEffects
<1>7. DispatchesOpen /\ AdmissionSet(durable) = AdmissionSet(z)
  BY <1>4, <1>5, SameEffectsSameStates DEF DispatchesOpen, AdmissionSet
<1>8. QED BY <1>4, <1>5, <1>6, <1>7, CommitFacts

(* The dispatch of operation o as an attempt that s has admitted.  s is    *)
(* the store, or the store after the admission the same call committed.    *)
LEMMA DispatchFacts ==
  ASSUME IInv, NEW s, Consistent(workflow, s), SameEffects(durable, s),
         s.cancellations = durable.cancellations,
         AdmissionSet(durable) \subseteq AdmissionSet(s),
         NEW d \in Dispatch, DispatchAccepted(s, d),
         \/ EffectState(durable, d.operation) = "Prepared"
         \/ /\ EffectState(durable, d.operation) = "OutcomeUnknown"
            /\ SemanticsOf(durable, d.operation) = "Idempotent",
         TaskOf(durable, d.operation) \notin cancelled,
         durable' = ApplyMutation(s, RecordDispatch(d)),
         journal' = PersistDispatch(journal, d),
         UNCHANGED <<workflow, cancelled>>
  PROVE  FactsStep /\ AdmissionSet(durable') = AdmissionSet(s)
<1>1. ViewsMirrorStore /\ Consistent(workflow, durable)
  BY DEF IInv, FactsInv
<1>2. PICK z : z = ApplyMutation(s, RecordDispatch(d))
  OBVIOUS
<1>3. EffectState(s, d.operation) = EffectState(durable, d.operation)
  BY SameEffectsSameStates
<1>4. SemanticsOf(s, d.operation) = SemanticsOf(durable, d.operation)
  BY DEF SameEffects, SemanticsOf
<1>5. /\ Consistent(workflow, z)
      /\ z.dispatches = Append(s.dispatches, d)
      /\ z.admissions = s.admissions /\ z.cancellations = s.cancellations
      /\ z.intents = s.intents /\ z.outcomes = s.outcomes
      /\ \A o : o # d.operation => DispatchesOf(z, o) = DispatchesOf(s, o)
  BY <1>2, <1>3, <1>4, DispatchConsistent, IdentityAssumption
<1>6. durable' = z
  BY <1>2
<1>7. ViewsMirrorStore'
  BY <1>1, <1>5, <1>6 DEF ViewsMirrorStore, JournalView, PersistDispatch, SameEffects
<1>8. AdmissionSet(z) = AdmissionSet(s)
  BY <1>5 DEF AdmissionSet
<1>9. DispatchesOpen
  <2>1. SUFFICES ASSUME NEW o \in Operation
                 PROVE  \/ DispatchesOf(z, o) = DispatchesOf(durable, o)
                        \/ /\ EffectState(durable, o) \notin KnownOutcome
                           /\ \A i \in durable.intents : i.operation = o => i.task \notin cancelled
    BY <1>6 DEF DispatchesOpen
  <2>2. CASE o # d.operation
    BY <1>5, <2>2, SameEffectsSameStates
  <2>3. CASE o = d.operation
    <3>1. EffectState(durable, o) \notin KnownOutcome
      BY <2>3 DEF KnownOutcome
    <3>2. \A i \in durable.intents : i.operation = o => i.task \notin cancelled
      BY <1>1, <2>3, TheIntent DEF Consistent, FactsOK
    <3>3. QED BY <3>1, <3>2
  <2>4. QED BY <2>2, <2>3
<1>10. QED BY <1>5, <1>6, <1>7, <1>8, <1>9, CommitFacts

LEMMA DispatchAdmittedFacts ==
  ASSUME IInv, NEW o \in Operation, NEW n \in Attempt, DispatchAdmitted(o, n)
  PROVE  FactsStep
<1>1. FactsInv /\ Consistent(workflow, durable)
  BY DEF IInv, FactsInv
<1>2. PICK d : d = DispatchFor(o, n)
  OBVIOUS
<1>3. d \in Dispatch /\ d.operation = o
  BY <1>2 DEF DispatchFor, Dispatch
<1>4. /\ DispatchAccepted(durable, d)
      /\ EffectState(durable, d.operation) = "Prepared"
      /\ TaskOf(durable, d.operation) \notin cancelled
      /\ durable' = ApplyMutation(durable, RecordDispatch(d))
      /\ journal' = PersistDispatch(journal, d)
      /\ UNCHANGED <<workflow, cancelled>>
  BY <1>1, <1>2, <1>3, JournalReads DEF DispatchAdmitted
<1>5. SameEffects(durable, durable)
  BY DEF SameEffects
<1>6. QED BY <1>1, <1>3, <1>4, <1>5, DispatchFacts

(* The facts with a new attempt, when the store held s before.             *)
LEMMA AdmissionFacts ==
  ASSUME IInv, NEW t \in Task, NEW o \in Operation \cup {NoOperation}, CanBegin(t),
         NEW a, a = NewAttempt(t, o),
         NEW s, Consistent(workflow, s), s.admissions = durable.admissions,
         NEW z, z = WithAdmission(s, a)
  PROVE  /\ Consistent(workflow, z) /\ SameEffects(s, z)
         /\ z.cancellations = s.cancellations
         /\ AdmissionSet(durable) \subseteq AdmissionSet(z)
         /\ Known(z, a)
<1>1. PICK f : f = AdmissionOf(a).fact
  OBVIOUS
<1>2. /\ f \in Admission /\ AdmissionOf(a) = AdmitAttempt(f)
      /\ f.attempt = a.attempt /\ f.task = a.task
      /\ f.operation = a.operation /\ f.capabilities = a.pins
      /\ ~Admitted(durable, f.attempt)
  BY <1>1, NewAttemptType DEF IInv
<1>3. AdmissionSet(s) = AdmissionSet(durable)
  BY DEF AdmissionSet
<1>4. ~Admitted(s, f.attempt)
  BY <1>2, <1>3 DEF Admitted
<1>5. z = ApplyMutation(s, AdmitAttempt(f))
  BY <1>2 DEF WithAdmission
<1>6. /\ Consistent(workflow, z) /\ SameEffects(s, z)
      /\ z.cancellations = s.cancellations
      /\ AdmissionSet(z) = AdmissionSet(s) \cup {f}
  BY <1>2, <1>4, <1>5, AdmitConsistent
<1>7. QED BY <1>2, <1>3, <1>6 DEF Known

(* A step that admits an attempt and changes nothing else in the store.    *)
LEMMA OnlyAdmits ==
  ASSUME IInv, NEW t \in Task, NEW o \in Operation \cup {NoOperation}, CanBegin(t),
         durable' = WithAdmission(durable, NewAttempt(t, o)),
         UNCHANGED <<workflow, views>>
  PROVE  FactsStep /\ Known(durable', NewAttempt(t, o))
<1>1. Consistent(workflow, durable) /\ ViewsMirrorStore
  BY DEF IInv, FactsInv
<1>2. PICK a, z : a = NewAttempt(t, o) /\ z = WithAdmission(durable, a)
  OBVIOUS
<1>3. /\ Consistent(workflow, z) /\ SameEffects(durable, z)
      /\ z.cancellations = durable.cancellations
      /\ AdmissionSet(durable) \subseteq AdmissionSet(z)
      /\ Known(z, a)
  BY <1>1, <1>2, AdmissionFacts
<1>4. durable' = z /\ UNCHANGED <<journal, cancelled>>
  BY <1>2 DEF views
<1>5. ViewsMirrorStore'
  BY <1>1, <1>3, <1>4 DEF ViewsMirrorStore, JournalView, SameEffects
<1>6. DispatchesOpen
  BY <1>3, <1>4, SameEffectsSameStates DEF DispatchesOpen
<1>7. FactsStep
  BY <1>3, <1>4, <1>5, <1>6, CommitFacts
<1>8. QED BY <1>2, <1>3, <1>4, <1>7

LEMMA StepAdmitFacts ==
  ASSUME IInv, NEW t \in Task, NEW o \in Operation, StepAdmit(t, o)
  PROVE  FactsStep /\ Known(durable', NewAttempt(t, o))
BY OnlyAdmits DEF StepAdmit

LEMMA DispatchNewFacts ==
  ASSUME IInv, NEW o \in Operation, DispatchNew(o)
  PROVE  /\ FactsStep /\ TaskOf(journal, o) \in Task
         /\ Known(durable', NewAttempt(TaskOf(journal, o), o))
<1>1. FactsInv /\ Consistent(workflow, durable) /\ IdentitiesUsedOnce(durable)
      /\ durable \in FactSet /\ TypeOK
  BY DEF IInv, FactsInv, Consistent, FactsOK
<1>2. PICK i \in durable.intents : i.operation = o
  BY <1>1, JournalReads DEF DispatchNew, HasIntent
<1>3. PICK t \in Task : t = TaskOf(journal, o) /\ t = TaskOf(durable, o)
  <2>1. i.task \in Task
    BY <1>1, <1>2 DEF FactSet, Intent
  <2>2. QED BY <1>1, <1>2, <2>1, TheIntent, JournalReads
<1>4. PICK a, s : a = NewAttempt(t, o) /\ s = WithAdmission(durable, a)
  OBVIOUS
<1>5. CanBegin(t) /\ t \notin cancelled /\ UNCHANGED <<workflow, cancelled>>
  BY <1>3 DEF DispatchNew
<1>6. /\ Consistent(workflow, s) /\ SameEffects(durable, s)
      /\ s.cancellations = durable.cancellations
      /\ AdmissionSet(durable) \subseteq AdmissionSet(s)
      /\ Known(s, a)
  BY <1>1, <1>4, <1>5, AdmissionFacts
<1>7. CASE ~Room
  <2>1. durable' = s /\ UNCHANGED journal
    BY <1>3, <1>4, <1>7 DEF DispatchNew
  <2>2. QED BY <1>3, <1>4, <1>5, <2>1, OnlyAdmits DEF views
<1>8. CASE Room
  <2>1. PICK d : d = DispatchFor(o, a.attempt)
    OBVIOUS
  <2>2. d \in Dispatch /\ d.operation = o
    <3>1. a.attempt \in Attempt
      BY <1>1, <1>4, <1>5, NewAttemptType DEF TaskAttempt
    <3>2. QED BY <2>1, <3>1 DEF DispatchFor, Dispatch
  <2>3. /\ DispatchAccepted(s, d)
        /\ durable' = ApplyMutation(s, RecordDispatch(d))
        /\ journal' = PersistDispatch(journal, d)
    BY <1>3, <1>4, <1>8, <2>1 DEF DispatchNew
  <2>4. \/ EffectState(durable, o) = "Prepared"
        \/ EffectState(durable, o) = "OutcomeUnknown" /\ SemanticsOf(durable, o) = "Idempotent"
    BY <1>1, JournalReads DEF DispatchNew, NeedsNewAttempt
  <2>5. FactsStep /\ AdmissionSet(durable') = AdmissionSet(s)
    BY <1>3, <1>5, <1>6, <2>2, <2>3, <2>4, DispatchFacts
  <2>6. QED BY <1>3, <1>4, <1>6, <2>5 DEF Known
<1>9. QED BY <1>7, <1>8

LEMMA StepIntentFacts ==
  ASSUME IInv, NEW t \in Task, StepIntent(t)
  PROVE  /\ FactsStep
         /\ \/ UNCHANGED <<starts, stream>> /\ durable'.admissions = durable.admissions
            \/ \E o \in Operation :
                 /\ CanBegin(t)
                 /\ Begin(NewAttempt(t, o)) /\ Enqueue(Started(NewAttempt(t, o)))
                 /\ Known(durable', NewAttempt(t, o))
                 /\ durable'.admissions =
                      Append(durable.admissions, AdmissionOf(NewAttempt(t, o)).fact)
<1>1. FactsInv /\ Consistent(workflow, durable) /\ ViewsMirrorStore /\ TypeOK
  BY DEF IInv, FactsInv
<1>2. PICK f : f = IntentFor(t, config[t].effect)
  OBVIOUS
<1>3. f \in Intent
  <2>1. config[t].effect \in EffectSpec
    BY <1>1 DEF TypeOK, CurrentSetup, Setup, TaskConfig, StepIntent
  <2>2. QED BY <1>2, <2>1 DEF IntentFor, EffectSpec, Intent
<1>4. PICK s : s = ApplyMutation(durable, RecordIntent(f))
  OBVIOUS
<1>5. /\ IntentAccepted(durable, f) /\ f.task \in workflow.tasks /\ f.task \notin workflow.completed
      /\ journal' = PersistIntent(journal, f)
      /\ UNCHANGED <<workflow, cancelled>>
  BY <1>2 DEF StepIntent, IntentRecordable
<1>6. /\ Consistent(workflow, s)
      /\ s.intents = durable.intents \cup {f}
      /\ s.admissions = durable.admissions /\ s.cancellations = durable.cancellations
      /\ s.dispatches = durable.dispatches /\ s.outcomes = durable.outcomes
      /\ \A o : DispatchesOf(s, o) = DispatchesOf(durable, o)
  BY <1>1, <1>3, <1>4, <1>5, IntentConsistent, IdentityAssumption
<1>7. journal' = JournalView(s) /\ cancelled' = { c.task : c \in s.cancellations }
  BY <1>1, <1>5, <1>6 DEF ViewsMirrorStore, JournalView, PersistIntent
<1>8. CASE durable' = s /\ UNCHANGED <<starts, stream>>
  <2>1. DispatchesOpen /\ AdmissionSet(durable) = AdmissionSet(s) /\ ViewsMirrorStore'
    BY <1>6, <1>7, <1>8 DEF DispatchesOpen, AdmissionSet, ViewsMirrorStore
  <2>2. QED BY <1>5, <1>6, <1>8, <2>1, CommitFacts
<1>9. CASE /\ CanBegin(t)
           /\ durable' = WithAdmission(s, NewAttempt(t, f.operation))
           /\ Begin(NewAttempt(t, f.operation))
           /\ Enqueue(Started(NewAttempt(t, f.operation)))
  <2>1. PICK a, z : a = NewAttempt(t, f.operation) /\ z = WithAdmission(s, a)
    OBVIOUS
  <2>2. f.operation \in Operation
    BY <1>3 DEF Intent
  <2>3. /\ Consistent(workflow, z) /\ SameEffects(s, z)
        /\ z.cancellations = s.cancellations
        /\ AdmissionSet(durable) \subseteq AdmissionSet(z)
        /\ Known(z, a)
    BY <1>6, <1>9, <2>1, <2>2, AdmissionFacts
  <2>4. durable' = z
    BY <1>9, <2>1
  <2>5. DispatchesOpen /\ ViewsMirrorStore'
    <3>1. JournalView(s) = JournalView(z)
      BY <2>3 DEF JournalView, SameEffects
    <3>2. ViewsMirrorStore'
      BY <1>7, <2>3, <2>4, <3>1 DEF ViewsMirrorStore
    <3>3. \A o : DispatchesOf(z, o) = DispatchesOf(durable, o)
      BY <1>6, <2>3, SameEffectsSameStates
    <3>4. QED BY <2>4, <3>2, <3>3 DEF DispatchesOpen
  <2>6. FactsStep
    BY <1>5, <2>3, <2>4, <2>5, CommitFacts
  <2>7. z.admissions = Append(durable.admissions, AdmissionOf(a).fact)
    <3>1. /\ AdmissionOf(a).fact \in Admission
          /\ AdmissionOf(a) = AdmitAttempt(AdmissionOf(a).fact)
      BY <1>1, <1>9, <2>1, <2>2, NewAttemptType
    <3>2. s \in FactSet
      BY <1>6 DEF Consistent, FactsOK
    <3>3. QED BY <1>6, <2>1, <3>1, <3>2, AdmitChange DEF WithAdmission
  <2>8. QED BY <1>9, <2>1, <2>2, <2>3, <2>4, <2>6, <2>7
<1>10. QED BY <1>2, <1>4, <1>8, <1>9 DEF StepIntent

LEMMA StepPlainNewFacts ==
  ASSUME IInv, NEW t \in Task, StepPlainNew(t)
  PROVE  /\ FactsStep /\ Known(durable', NewAttempt(t, NoOperation))
         /\ Room => t \in workflow'.completed
<1>1. Consistent(workflow, durable) /\ ViewsMirrorStore /\ FactsInv /\ TypeOK
  BY DEF IInv, FactsInv
<1>2. CanBegin(t) /\ durable' = WithAdmission(durable, NewAttempt(t, NoOperation))
      /\ UNCHANGED <<journal, cancelled>> /\ t \notin cancelled /\ Plain(t)
  BY DEF StepPlainNew, views, Scheduled, Schedulable
<1>3. CASE ~Room /\ UNCHANGED workflow
  BY <1>2, <1>3, OnlyAdmits DEF views
<1>4. CASE Room /\ CompleteTask(t)
  <2>1. PICK a, z : a = NewAttempt(t, NoOperation) /\ z = WithAdmission(durable, a)
    OBVIOUS
  <2>2. /\ Consistent(workflow, z) /\ SameEffects(durable, z)
        /\ z.cancellations = durable.cancellations
        /\ AdmissionSet(durable) \subseteq AdmissionSet(z)
        /\ Known(z, a)
    BY <1>1, <1>2, <2>1, AdmissionFacts
  <2>3. \A i \in z.intents : i.task # t
    BY <1>1, <1>2, <2>2, PlainOwnsNothing DEF SameEffects
  <2>4. workflow \in GraphValue
    BY <1>1 DEF TypeOK
  <2>5. /\ workflow' \in GraphValue /\ Consistent(workflow', z)
        /\ workflow'.completed = workflow.completed \cup {t}
    BY <1>4, <2>2, <2>3, <2>4, CompleteConsistent DEF CompleteTask
  <2>6. durable' = z
    BY <1>2, <2>1
  <2>7. ViewsMirrorStore' /\ DispatchesOpen /\ CompletesOpen
    BY <1>1, <1>2, <2>2, <2>5, <2>6, SameEffectsSameStates
       DEF DispatchesOpen, CompletesOpen, ViewsMirrorStore, JournalView, SameEffects
  <2>8. durable' \in FactSet
    BY <2>5, <2>6 DEF Consistent, FactsOK
  <2>9. FactsStep
    BY <1>1, <1>2, <2>2, <2>5, <2>6, <2>7, <2>8 DEF FactsStep, FactsInv, TypeOK
  <2>10. QED BY <2>1, <2>2, <2>5, <2>6, <2>9
<1>5. QED BY <1>3, <1>4 DEF StepPlainNew

(* A restart keeps the facts, rebuilds the views and may forget            *)
(* completions.                                                            *)
LEMMA RestartFacts ==
  ASSUME IInv, NEW s \in Setups, NEW done \in SUBSET Task, Restart(s, done)
  PROVE  FactsStep
<1>1. /\ Consistent(workflow, durable) /\ ViewsMirrorStore
      /\ workflow \in GraphValue /\ durable \in FactSet
  BY DEF IInv, FactsInv, TypeOK
<1>2. /\ done \subseteq workflow.completed /\ UNCHANGED durable
      /\ workflow' = [workflow EXCEPT !.completed = done]
      /\ journal' = JournalView(durable)
      /\ cancelled' = { c.task : c \in durable.cancellations }
  BY DEF Restart
<1>3. workflow' \in GraphValue /\ workflow'.tasks = workflow.tasks /\ workflow'.completed = done
  BY <1>1, <1>2 DEF GraphValue
<1>4. Consistent(workflow', durable)
  BY <1>1, <1>2, <1>3 DEF Consistent, CompletedOnSuccess
<1>5. ViewsMirrorStore' /\ DispatchesOpen /\ CompletesOpen /\ cancelled' = cancelled
  BY <1>1, <1>2, <1>3 DEF ViewsMirrorStore, DispatchesOpen, CompletesOpen
<1>6. journal' \in Journal /\ cancelled' \subseteq Task
  BY <1>1, <1>2, ViewTypes
<1>7. QED BY <1>1, <1>2, <1>3, <1>4, <1>5, <1>6 DEF FactsStep, FactsInv

-----------------------------------------------------------------------------
(* The attempts the process holds, against the admissions of the store.    *)
AttemptsStep ==
  /\ attempts' \in Seq(TaskAttempt)
  /\ pending' \in TaskAttempt \cup {NoStart}
  /\ nextAttempt' \in 1..(MaxAttempts + 1)
  /\ AttemptsAreNumbered'
  /\ \A a \in Held' : Known(durable', a)

LEMMA SameAttempts ==
  ASSUME IInv, UNCHANGED starts, durable'.admissions = durable.admissions
  PROVE  AttemptsStep
<1>1. UNCHANGED <<attempts, pending, nextAttempt>>
  BY DEF starts
<1>2. AdmissionSet(durable') = AdmissionSet(durable) /\ Held' = Held
  BY <1>1 DEF AdmissionSet, Held
<1>3. AttemptsAreNumbered'
  BY <1>1 DEF IInv, AttemptsAreNumbered
<1>4. QED BY <1>1, <1>2, <1>3 DEF AttemptsStep, IInv, TypeOK, Known

(* The admission of a new attempt comes last.                              *)
LEMMA AdmissionsAppended ==
  ASSUME TypeOK, NEW t \in Task, NEW o \in Operation \cup {NoOperation}, CanBegin(t),
         NEW a, a = NewAttempt(t, o), NEW s \in FactSet
  PROVE  WithAdmission(s, a).admissions = Append(s.admissions, AdmissionOf(a).fact)
<1>1. /\ AdmissionOf(a).fact \in Admission
      /\ AdmissionOf(a) = AdmitAttempt(AdmissionOf(a).fact)
  BY NewAttemptType
<1>2. QED BY <1>1, AdmitChange DEF WithAdmission

(* Begin after the admission of its attempt: the number is the position.   *)
LEMMA BeginAttempts ==
  ASSUME IInv, NEW t \in Task, NEW o \in Operation \cup {NoOperation}, CanBegin(t),
         NEW a, a = NewAttempt(t, o), Begin(a), FactsStep, Known(durable', a),
         durable'.admissions = Append(durable.admissions, AdmissionOf(a).fact)
  PROVE  AttemptsStep
<1>1. TypeOK /\ durable.admissions \in Seq(Admission)
  BY DEF IInv, TypeOK, FactSet
<1>2. PICK f : f = AdmissionOf(a).fact
  OBVIOUS
<1>3. a \in TaskAttempt /\ f \in Admission /\ f.attempt = nextAttempt
  BY <1>1, <1>2, NewAttemptType
<1>4. /\ attempts' \in Seq(TaskAttempt)
      /\ pending' \in TaskAttempt \cup {NoStart}
      /\ nextAttempt' = nextAttempt + 1
      /\ nextAttempt' \in 1..(MaxAttempts + 1)
      /\ Held' \subseteq Held \cup {a}
  BY <1>1, <1>3, BeginHolds DEF CanBegin
<1>5. AttemptsAreNumbered'
  <2>1. PICK n, q, z : n = Len(q) /\ q = durable.admissions /\ z = Append(q, f)
    OBVIOUS
  <2>2. /\ n \in Nat /\ Len(z) = n + 1
        /\ z[n + 1] = f
        /\ \A i \in 1..n : z[i] = q[i]
    BY <1>1, <1>3, <2>1, AppendedRecord
  <2>3. n = nextAttempt - 1 /\ nextAttempt \in Nat /\ \A i \in 1..n : q[i].attempt = i
    BY <1>1, <2>1, BoundsAssumption DEF IInv, AttemptsAreNumbered, TypeOK
  <2>4. \A i \in 1..(n + 1) : i \in 1..n \/ i = n + 1
    BY <2>2
  <2>5. \A i \in 1..(n + 1) : z[i].attempt = i
    <3>1. SUFFICES ASSUME NEW i \in 1..(n + 1) PROVE z[i].attempt = i
      OBVIOUS
    <3>2. CASE i \in 1..n
      BY <2>2, <2>3, <3>2
    <3>3. CASE i = n + 1
      BY <1>3, <2>2, <2>3, <3>3
    <3>4. QED BY <2>4, <3>2, <3>3
  <2>6. durable'.admissions = z
    BY <1>2, <2>1
  <2>7. QED BY <1>4, <2>2, <2>3, <2>5, <2>6 DEF AttemptsAreNumbered
<1>6. \A b \in Held' : Known(durable', b)
  <2>1. SUFFICES ASSUME NEW b \in Held PROVE Known(durable', b)
    BY <1>4
  <2>2. Known(durable, b)
    BY DEF IInv
  <2>3. QED BY <2>2 DEF Known, FactsStep
<1>7. QED BY <1>4, <1>5, <1>6 DEF AttemptsStep

(* Publishing the pending start only moves it.                             *)
LEMMA RetryPendingAttempts ==
  ASSUME IInv, NEW e, RetryPending(e)
  PROVE  AttemptsStep
<1>1. /\ attempts \in Seq(TaskAttempt) /\ pending \in TaskAttempt
      /\ UNCHANGED <<durable, nextAttempt>>
  BY DEF IInv, TypeOK, RetryPending
<1>2. CASE UNCHANGED <<attempts, pending>>
  BY <1>1, <1>2, SameAttempts DEF starts
<1>3. CASE attempts' = Append(attempts, pending) /\ pending' = NoStart
  <2>1. attempts' \in Seq(TaskAttempt) /\ ToSet(attempts') = ToSet(attempts) \cup {pending}
    BY <1>1, <1>3, ToSetAppend
  <2>2. Held' \subseteq Held
    BY <1>3, <2>1 DEF Held, RetryPending
  <2>3. AttemptsAreNumbered' /\ nextAttempt' \in 1..(MaxAttempts + 1)
    BY <1>1 DEF IInv, TypeOK, AttemptsAreNumbered
  <2>4. QED BY <1>1, <1>3, <2>1, <2>2, <2>3 DEF AttemptsStep, IInv
<1>4. QED BY <1>2, <1>3 DEF RetryPending

(* The attempts of a restored run are the admissions of the store.         *)
LEMMA RestartAttempts ==
  ASSUME IInv, NEW s \in Setups, NEW done \in SUBSET Task, Restart(s, done)
  PROVE  AttemptsStep
<1>1. /\ durable.admissions \in Seq(Admission) /\ Len(durable.admissions) \in Nat
      /\ nextAttempt \in 1..(MaxAttempts + 1)
      /\ Len(durable.admissions) = nextAttempt - 1
  BY DEF IInv, TypeOK, FactSet, AttemptsAreNumbered
<1>2. /\ attempts' = RestoredAttempts(s) /\ nextAttempt' = nextAttempt
      /\ pending' = NoStart /\ UNCHANGED durable
  BY <1>1, BoundsAssumption DEF Restart
<1>3. \A i \in 1..Len(durable.admissions) :
        /\ RestoredAttempts(s)[i] \in TaskAttempt
        /\ Known(durable, RestoredAttempts(s)[i])
  <2>1. SUFFICES ASSUME NEW i \in 1..Len(durable.admissions),
                        NEW f, f = durable.admissions[i],
                        NEW a, a = RestoredAttempts(s)[i]
                 PROVE  a \in TaskAttempt /\ Known(durable, a)
    OBVIOUS
  <2>2. f \in Admission /\ f \in AdmissionSet(durable)
    BY <1>1, <2>1 DEF AdmissionSet
  <2>3. a = [task |-> f.task, attempt |-> f.attempt, operation |-> f.operation,
             pins |-> Pins(s, f.task)]
    BY <2>1 DEF RestoredAttempts, RestoredAttempt
  <2>4. Pins(s, f.task) = f.capabilities
    BY <2>2 DEF Restart, Restorable
  <2>5. f.capabilities \in SUBSET Pin
    BY <2>2, IdentityAssumption DEF Admission
  <2>6. a \in TaskAttempt
    BY <2>2, <2>3, <2>4, <2>5 DEF TaskAttempt, Admission
  <2>7. QED BY <2>2, <2>3, <2>4, <2>6 DEF Known
<1>4. DOMAIN RestoredAttempts(s) = 1..Len(durable.admissions)
  BY DEF RestoredAttempts
<1>5. attempts' \in Seq(TaskAttempt)
  BY <1>1, <1>2, <1>3, <1>4 DEF RestoredAttempts
<1>6. \A a \in Held' : Known(durable', a)
  BY <1>2, <1>3, <1>4 DEF Held, ToSet
<1>7. AttemptsAreNumbered'
  BY <1>2 DEF IInv, AttemptsAreNumbered
<1>8. QED BY <1>1, <1>2, <1>5, <1>6, <1>7 DEF AttemptsStep

-----------------------------------------------------------------------------
(* The items in the stream and in the host's hands, against the facts.     *)
ItemsStep ==
  /\ execution' \in Seq(Event) /\ Len(execution') <= Capacity
  /\ returned' \subseteq Event
  /\ \A e \in Items' : Told(workflow', durable', e)

(* What was told stays true while completions and admissions only grow.    *)
LEMMA StillTold ==
  ASSUME IInv, FactsStep, workflow.completed \subseteq workflow'.completed, NEW e \in Items
  PROVE  Told(workflow', durable', e)
BY DEF IInv, FactsStep, Told

LEMMA FewerItems ==
  ASSUME IInv, FactsStep, workflow.completed \subseteq workflow'.completed,
         execution' = execution \/ execution' = <<>>, returned' \subseteq returned
  PROVE  ItemsStep
<1>1. /\ execution \in Seq(Event) /\ Len(execution) <= Capacity /\ returned \subseteq Event
      /\ Capacity \in Nat
  BY BoundsAssumption DEF IInv, TypeOK
<1>2. execution' \in Seq(Event) /\ Len(execution') <= Capacity
  <2>1. CASE execution' = execution
    BY <1>1, <2>1
  <2>2. CASE execution' = <<>>
    <3>1. Len(execution') = 0 /\ execution' \in Seq(Event)
      BY <2>2
    <3>2. QED BY <1>1, <3>1
  <2>3. QED BY <2>1, <2>2
<1>3. Items' \subseteq Items
  <2>1. ToSet(execution') = ToSet(execution) \/ ToSet(execution') = {}
    BY DEF ToSet
  <2>2. QED BY <2>1 DEF Items
<1>4. QED BY <1>1, <1>2, <1>3, StillTold DEF ItemsStep

LEMMA OneMoreItem ==
  ASSUME IInv, FactsStep, workflow.completed \subseteq workflow'.completed,
         NEW e \in Event, Enqueue(e), Told(workflow', durable', e)
  PROVE  ItemsStep
<1>1. /\ execution' \in Seq(Event) /\ Len(execution') <= Capacity
      /\ returned' \subseteq Event
      /\ Items' = Items \cup {e}
  BY EnqueueAdds DEF IInv
<1>2. QED BY <1>1, StillTold DEF ItemsStep

(* The start of an attempt that the store has admitted.                    *)
LEMMA StartIsTold ==
  ASSUME NEW w, NEW s, NEW a \in TaskAttempt, Known(s, a)
  PROVE  Started(a) \in Event /\ Told(w, s, Started(a))
BY StartedType DEF Known, Told

(* The completion of an admitted attempt's task.                           *)
LEMMA CompletionIsTold ==
  ASSUME NEW w, NEW s \in FactSet, NEW a \in AdmissionSet(s), a.task \in w.completed
  PROVE  /\ Completed(a.task, a.attempt) \in Event
         /\ Told(w, s, Completed(a.task, a.attempt))
<1>1. a \in Admission
  BY DEF FactSet, AdmissionSet
<1>2. a.task \in Task /\ a.attempt \in Attempt
  BY <1>1 DEF Admission
<1>3. QED BY <1>2, CompletedType DEF Told

(* The latest dispatch of an operation with a dispatch is of an attempt    *)
(* that was admitted for the operation's task.                             *)
LEMMA LatestAdmitted ==
  ASSUME FactsInv, NEW i \in durable.intents, DispatchesOf(durable, i.operation) # {}
  PROVE  \E a \in AdmissionSet(durable) :
           a.task = i.task /\ a.attempt = LatestDispatch(journal, i.operation).attempt
<1>1. durable \in FactSet /\ IdentitiesUsedOnce(durable) /\ Lineage(durable)
  BY DEF FactsInv, Consistent, FactsOK
<1>2. PICK d \in DispatchSet(durable) :
        d = LatestDispatch(durable, i.operation) /\ d.operation = i.operation
  BY <1>1, LatestIsDispatched
<1>3. PICK k \in durable.intents, a \in AdmissionSet(durable) :
        /\ k.operation = d.operation /\ a.attempt = d.attempt /\ a.task = k.task
  BY <1>1 DEF Lineage
<1>4. k = i
  BY <1>1, <1>2, <1>3 DEF IdentitiesUsedOnce
<1>5. QED BY <1>2, <1>3, <1>4, JournalReads

LEMMA RecoverItems ==
  ASSUME IInv, NEW o \in Operation, Recover(o)
  PROVE  ItemsStep
<1>1. /\ FactsStep /\ workflow'.completed = workflow.completed \cup {TaskOf(journal, o)}
      /\ EffectState(durable, o) = "Succeeded"
  BY RecoverFacts
<1>2. FactsInv /\ durable \in FactSet /\ IdentitiesUsedOnce(durable) /\ UNCHANGED durable
  BY DEF IInv, FactsInv, Consistent, FactsOK, Recover
<1>3. PICK i \in durable.intents : i.operation = o
  BY <1>2, JournalReads DEF Recover, HasIntent
<1>4. TaskOf(journal, o) = i.task
  BY <1>2, <1>3, TheIntent, JournalReads
<1>5. DispatchesOf(durable, o) # {}
  BY <1>1, <1>2, <1>3, StatesOfAnEffect DEF HasIntent
<1>6. PICK a \in AdmissionSet(durable) :
        a.task = i.task /\ a.attempt = LatestDispatch(journal, o).attempt
  BY <1>2, <1>3, <1>5, LatestAdmitted
<1>7. PICK e : e = Completed(a.task, a.attempt)
  OBVIOUS
<1>8. e \in Event /\ Told(workflow', durable, e)
  BY <1>1, <1>2, <1>4, <1>6, <1>7, CompletionIsTold
<1>9. Enqueue(e)
  BY <1>4, <1>6, <1>7 DEF Recover
<1>10. QED BY <1>1, <1>2, <1>8, <1>9, OneMoreItem

LEMMA StepSucceededItems ==
  ASSUME IInv, NEW t \in Task, NEW o \in Operation, StepSucceeded(t, o)
  PROVE  ItemsStep
<1>1. FactsStep /\ workflow'.completed = workflow.completed \cup {t}
  BY StepSucceededFacts
<1>2. FactsInv /\ durable \in FactSet /\ UNCHANGED durable
  BY DEF IInv, FactsInv, Consistent, FactsOK, StepSucceeded
<1>3. PICK i \in durable.intents : i.operation = o /\ i.task = t
  BY <1>2, JournalReads DEF StepSucceeded, OperationsOf
<1>4. EffectState(durable, o) = "Succeeded"
  BY <1>2, JournalReads DEF StepSucceeded
<1>5. DispatchesOf(durable, o) # {}
  BY <1>2, <1>3, <1>4, StatesOfAnEffect DEF HasIntent
<1>6. PICK a \in AdmissionSet(durable) :
        a.task = i.task /\ a.attempt = LatestDispatch(journal, o).attempt
  BY <1>2, <1>3, <1>5, LatestAdmitted
<1>7. PICK e : e = Completed(a.task, a.attempt)
  OBVIOUS
<1>8. e \in Event /\ Told(workflow', durable, e)
  BY <1>1, <1>2, <1>3, <1>6, <1>7, CompletionIsTold
<1>9. Enqueue(e)
  BY <1>3, <1>6, <1>7 DEF StepSucceeded
<1>10. QED BY <1>1, <1>2, <1>8, <1>9, OneMoreItem

LEMMA StepPlainAgainItems ==
  ASSUME IInv, NEW t \in Task, NEW n \in Attempt, StepPlainAgain(t, n)
  PROVE  ItemsStep
<1>1. FactsStep /\ workflow'.completed = workflow.completed \cup {t}
  BY StepPlainAgainFacts
<1>2. durable \in FactSet /\ UNCHANGED durable /\ TypeOK
  BY DEF IInv, TypeOK, StepPlainAgain
<1>3. PICK b \in Held : b.attempt = n /\ b.task = t
  BY <1>2, AttemptFound DEF StepPlainAgain
<1>4. PICK a \in AdmissionSet(durable) : a.attempt = n /\ a.task = t
  BY <1>3 DEF IInv, Known
<1>5. PICK e : e = Completed(t, n)
  OBVIOUS
<1>6. e \in Event /\ Told(workflow', durable, e)
  BY <1>1, <1>2, <1>4, <1>5, CompletionIsTold
<1>7. QED BY <1>1, <1>2, <1>5, <1>6, OneMoreItem DEF StepPlainAgain

-----------------------------------------------------------------------------
(* What each action has to show.                                           *)
Keeps ==
  /\ FactsStep /\ AttemptsStep /\ ItemsStep
  /\ CurrentSetup' \in Setup /\ restarts' \in Nat

LEMMA SameInputs ==
  ASSUME IInv, UNCHANGED inputs, UNCHANGED restarts
  PROVE  CurrentSetup' \in Setup /\ restarts' \in Nat
BY DEF inputs, IInv, TypeOK, CurrentSetup

(* A step that only reads: facts, views, attempts and workflow are left.   *)
LEMMA QuietParts ==
  ASSUME IInv, UNCHANGED <<workflow, durable, views, starts>>
  PROVE  FactsStep /\ AttemptsStep
BY QuietFacts, SameAttempts

LEMMA InputsKeep ==
  ASSUME IInv, Inputs
  PROVE  Keeps
<1>1. config \in [Task -> TaskConfig] /\ scope \in [Capability -> Identity \cup {Missing}]
      /\ restarts \in Nat
  BY DEF IInv, TypeOK, CurrentSetup, Setup
<1>2. ASSUME NEW t \in Task, NEW c \in Configs, ConfigureTask(t, c)
      PROVE  Keeps
  <2>1. FactsStep /\ AttemptsStep /\ ItemsStep
    BY <1>2, QuietParts, FewerItems DEF ConfigureTask, stream
  <2>2. config' \in [Task -> TaskConfig] /\ UNCHANGED <<scope, restarts>>
    BY <1>1, <1>2, HostAssumption DEF ConfigureTask
  <2>3. QED BY <1>1, <2>1, <2>2 DEF Keeps, CurrentSetup, Setup
<1>3. ASSUME NEW c \in Capability, NEW x \in Identity \cup {Missing}, ChangeScope(c, x)
      PROVE  Keeps
  <2>1. FactsStep /\ AttemptsStep /\ ItemsStep
    BY <1>3, QuietParts, FewerItems DEF ChangeScope, stream
  <2>2. /\ scope' \in [Capability -> Identity \cup {Missing}]
        /\ UNCHANGED <<config, restarts>>
    BY <1>1, <1>3 DEF ChangeScope
  <2>3. QED BY <1>1, <2>1, <2>2 DEF Keeps, CurrentSetup, Setup
<1>4. ASSUME NEW b \in Batches, ApplyWorkflowMutation(b)
      PROVE  Keeps
  <2>1. FactsStep
    BY <1>4, MutateFacts
  <2>2. AttemptsStep /\ CurrentSetup' \in Setup /\ restarts' \in Nat
    BY <1>4, SameAttempts, SameInputs DEF ApplyWorkflowMutation
  <2>3. workflow'.completed = workflow.completed
    BY <1>4, BatchType DEF ApplyWorkflowMutation, IInv, TypeOK
  <2>4. ItemsStep
    BY <1>4, <2>1, <2>3, FewerItems DEF ApplyWorkflowMutation, stream
  <2>5. QED BY <2>1, <2>2, <2>4 DEF Keeps
<1>5. QED BY <1>2, <1>3, <1>4 DEF Inputs

(* A commit that admits nothing and publishes nothing.                     *)
LEMMA CommitKeeps ==
  ASSUME IInv, FactsStep, durable'.admissions = durable.admissions,
         UNCHANGED <<workflow, inputs, starts, stream, restarts>>
  PROVE  Keeps
BY SameAttempts, FewerItems, SameInputs DEF stream, Keeps

LEMMA RecordIntentKeeps ==
  ASSUME IInv, NEW f \in Intent, RecordEffectIntent(f)
  PROVE  Keeps
<1>1. durable'.admissions = durable.admissions
  BY IntentChange DEF RecordEffectIntent, IInv, TypeOK
<1>2. QED BY <1>1, IntentFacts, CommitKeeps DEF RecordEffectIntent

LEMMA DispatchAdmittedKeeps ==
  ASSUME IInv, NEW o \in Operation, NEW n \in Attempt, DispatchAdmitted(o, n)
  PROVE  Keeps
<1>1. DispatchFor(o, n) \in Dispatch
  BY DEF DispatchFor, Dispatch
<1>2. durable'.admissions = durable.admissions
  BY <1>1, DispatchChange DEF DispatchAdmitted, IInv, TypeOK
<1>3. QED BY <1>2, DispatchAdmittedFacts, CommitKeeps DEF DispatchAdmitted

LEMMA RecordOutcomeKeeps ==
  ASSUME IInv, NEW f \in Outcome, RecordEffectOutcome(f)
  PROVE  Keeps
<1>1. durable'.admissions = durable.admissions
  BY OutcomeChange DEF RecordEffectOutcome, IInv, FactsInv, Consistent
<1>2. QED BY <1>1, OutcomeFacts, CommitKeeps DEF RecordEffectOutcome

LEMMA CancelKeeps ==
  ASSUME IInv, NEW t \in Task, NEW c \in Cancellation, CancelTask(t, c)
  PROVE  Keeps
<1>1. durable'.admissions = durable.admissions
  BY CancelChange DEF CancelTask, IInv, TypeOK
<1>2. QED BY <1>1, CancelFacts, CommitKeeps DEF CancelTask

LEMMA RecoverKeeps ==
  ASSUME IInv, NEW o \in Operation, Recover(o)
  PROVE  Keeps
<1>1. AttemptsStep /\ CurrentSetup' \in Setup /\ restarts' \in Nat
  BY SameAttempts, SameInputs DEF Recover
<1>2. QED BY <1>1, RecoverFacts, RecoverItems DEF Keeps

(* A new attempt is admitted, begun and announced.                         *)
LEMMA BeginKeeps ==
  ASSUME IInv, NEW t \in Task, NEW o \in Operation \cup {NoOperation}, CanBegin(t),
         NEW a, a = NewAttempt(t, o), Begin(a), Enqueue(Started(a)),
         FactsStep, Known(durable', a),
         durable'.admissions = Append(durable.admissions, AdmissionOf(a).fact),
         UNCHANGED <<workflow, inputs, restarts>>
  PROVE  Keeps
<1>1. a \in TaskAttempt
  BY NewAttemptType DEF IInv
<1>2. Started(a) \in Event /\ Told(workflow', durable', Started(a))
  BY <1>1, StartIsTold
<1>3. ItemsStep
  BY <1>2, OneMoreItem
<1>4. QED BY <1>3, BeginAttempts, SameInputs DEF Keeps

LEMMA DispatchNewKeeps ==
  ASSUME IInv, NEW o \in Operation, DispatchNew(o)
  PROVE  Keeps
<1>1. PICK t \in Task : t = TaskOf(journal, o)
  BY DispatchNewFacts
<1>2. PICK a, s : a = NewAttempt(t, o) /\ s = WithAdmission(durable, a)
  OBVIOUS
<1>3. /\ CanBegin(t) /\ Begin(a) /\ Enqueue(Started(a))
      /\ UNCHANGED <<workflow, inputs, restarts>>
  BY <1>1, <1>2 DEF DispatchNew
<1>4. FactsStep /\ Known(durable', a)
  BY <1>1, <1>2, DispatchNewFacts
<1>5. TypeOK /\ durable \in FactSet
  BY DEF IInv, TypeOK
<1>6. s.admissions = Append(durable.admissions, AdmissionOf(a).fact)
  BY <1>2, <1>3, <1>5, AdmissionsAppended
<1>7. durable'.admissions = s.admissions
  <2>1. CASE durable' = s
    BY <2>1
  <2>2. CASE durable' = ApplyMutation(s, RecordDispatch(DispatchFor(o, a.attempt)))
    <3>1. s \in FactSet
      <4>1. /\ AdmissionOf(a).fact \in Admission
            /\ AdmissionOf(a) = AdmitAttempt(AdmissionOf(a).fact)
        BY <1>2, <1>3, <1>5, NewAttemptType
      <4>2. AdmissionOf(a) \in DurableMutation
        BY <1>5, <4>1, AdmitChange
      <4>3. QED BY <1>2, <1>5, <4>2, ApplyType DEF WithAdmission
    <3>2. DispatchFor(o, a.attempt) \in Dispatch
      <4>1. a.attempt \in Attempt
        BY <1>2, <1>3, <1>5, NewAttemptType DEF TaskAttempt
      <4>2. QED BY <4>1 DEF DispatchFor, Dispatch
    <3>3. QED BY <2>2, <3>1, <3>2, DispatchChange
  <2>3. QED BY <1>1, <1>2, <2>1, <2>2 DEF DispatchNew
<1>8. QED BY <1>2, <1>3, <1>4, <1>6, <1>7, BeginKeeps

LEMMA StepAdmitKeeps ==
  ASSUME IInv, NEW t \in Task, NEW o \in Operation, StepAdmit(t, o)
  PROVE  Keeps
<1>1. PICK a : a = NewAttempt(t, o)
  OBVIOUS
<1>2. /\ CanBegin(t) /\ Begin(a) /\ Enqueue(Started(a))
      /\ UNCHANGED <<workflow, inputs, restarts>>
      /\ durable' = WithAdmission(durable, a)
  BY <1>1 DEF StepAdmit
<1>3. FactsStep /\ Known(durable', a)
  BY <1>1, StepAdmitFacts
<1>4. durable'.admissions = Append(durable.admissions, AdmissionOf(a).fact)
  BY <1>1, <1>2, AdmissionsAppended DEF IInv, TypeOK
<1>5. QED BY <1>1, <1>2, <1>3, <1>4, BeginKeeps

LEMMA StepIntentKeeps ==
  ASSUME IInv, NEW t \in Task, StepIntent(t)
  PROVE  Keeps
<1>1. UNCHANGED <<workflow, inputs, restarts>> /\ FactsStep
  BY StepIntentFacts DEF StepIntent
<1>2. CASE UNCHANGED <<starts, stream>> /\ durable'.admissions = durable.admissions
  BY <1>1, <1>2, CommitKeeps
<1>3. ASSUME NEW o \in Operation, CanBegin(t), Begin(NewAttempt(t, o)),
             Enqueue(Started(NewAttempt(t, o))), Known(durable', NewAttempt(t, o)),
             durable'.admissions =
               Append(durable.admissions, AdmissionOf(NewAttempt(t, o)).fact)
      PROVE  Keeps
  BY <1>1, <1>3, BeginKeeps
<1>4. QED BY <1>2, <1>3, StepIntentFacts

(* A plain task with room starts and completes in one step.                *)
LEMMA StepPlainNewKeeps ==
  ASSUME IInv, NEW t \in Task, StepPlainNew(t)
  PROVE  Keeps
<1>1. PICK a : a = NewAttempt(t, NoOperation)
  OBVIOUS
<1>2. /\ CanBegin(t) /\ Begin(a) /\ UNCHANGED <<inputs, restarts>>
      /\ durable' = WithAdmission(durable, a)
  BY <1>1 DEF StepPlainNew
<1>3. FactsStep /\ Known(durable', a) /\ (Room => t \in workflow'.completed)
  BY <1>1, StepPlainNewFacts
<1>4. durable'.admissions = Append(durable.admissions, AdmissionOf(a).fact)
  BY <1>1, <1>2, AdmissionsAppended DEF IInv, TypeOK
<1>5. a \in TaskAttempt /\ a.task = t
  BY <1>1, <1>2, NewAttemptType DEF IInv
<1>6. Started(a) \in Event /\ Told(workflow', durable', Started(a))
  BY <1>3, <1>5, StartIsTold
<1>7. ItemsStep
  <2>1. CASE ~Room /\ Enqueue(Started(a)) /\ UNCHANGED workflow
    BY <1>3, <1>6, <2>1, OneMoreItem
  <2>2. CASE Room /\ StepPlainNew(t)
    <3>1. PICK d, q : d = Completed(t, a.attempt) /\ q = Append(execution, Started(a))
      OBVIOUS
    <3>2. d \in Event /\ Told(workflow', durable', d)
      <4>1. d \in Event /\ d.attempt = a.attempt /\ d.task = a.task
        BY <1>5, <3>1, CompletedType DEF TaskAttempt
      <4>2. QED BY <1>3, <1>5, <2>2, <4>1 DEF Told, Known
    <3>3. execution \in Seq(Event) /\ returned \subseteq Event /\ Capacity \in Nat
      BY BoundsAssumption DEF IInv, TypeOK
    <3>4. q \in Seq(Event) /\ ToSet(q) = ToSet(execution) \cup {Started(a)}
          /\ Len(q) = Len(execution) + 1 /\ Len(q) <= Capacity
      BY <1>6, <2>2, <3>1, <3>3, ToSetAppend DEF Room
    <3>5. workflow.completed \subseteq workflow'.completed
      BY <2>2 DEF StepPlainNew, CompleteTask, IInv, TypeOK, GraphValue
    <3>6. CASE Len(q) < Capacity /\ execution' = Append(q, d) /\ UNCHANGED returned
      <4>1. execution' \in Seq(Event) /\ ToSet(execution') = ToSet(q) \cup {d}
        BY <3>2, <3>4, <3>6, ToSetAppend
      <4>2. Len(execution') <= Capacity
        BY <3>2, <3>3, <3>4, <3>6
      <4>3. Items' = Items \cup {Started(a), d}
        BY <3>4, <3>6, <4>1 DEF Items
      <4>4. QED BY <1>3, <1>6, <3>2, <3>3, <3>5, <3>6, <4>1, <4>2, <4>3, StillTold DEF ItemsStep
    <3>7. CASE execution' = q /\ returned' = returned \cup {d}
      <4>1. Items' = Items \cup {Started(a), d}
        BY <3>4, <3>7 DEF Items
      <4>2. QED BY <1>3, <1>6, <3>2, <3>3, <3>4, <3>5, <3>7, <4>1, StillTold DEF ItemsStep
    <3>8. QED BY <1>1, <2>2, <3>1, <3>6, <3>7 DEF StepPlainNew
  <2>3. QED BY <1>1, <2>1, <2>2 DEF StepPlainNew
<1>8. QED BY <1>1, <1>2, <1>3, <1>4, <1>7, BeginAttempts, SameInputs DEF Keeps

LEMMA StepPlainAgainKeeps ==
  ASSUME IInv, NEW t \in Task, NEW n \in Attempt, StepPlainAgain(t, n)
  PROVE  Keeps
<1>1. AttemptsStep /\ CurrentSetup' \in Setup /\ restarts' \in Nat
  BY SameAttempts, SameInputs DEF StepPlainAgain
<1>2. QED BY <1>1, StepPlainAgainFacts, StepPlainAgainItems DEF Keeps

LEMMA StepSucceededKeeps ==
  ASSUME IInv, NEW t \in Task, NEW o \in Operation, StepSucceeded(t, o)
  PROVE  Keeps
<1>1. AttemptsStep /\ CurrentSetup' \in Setup /\ restarts' \in Nat
  BY SameAttempts, SameInputs DEF StepSucceeded
<1>2. QED BY <1>1, StepSucceededFacts, StepSucceededItems DEF Keeps

(* A step that changes the items only.                                     *)
LEMMA StreamKeeps ==
  ASSUME IInv, UNCHANGED <<workflow, inputs, durable, views, starts, restarts>>,
         execution' \in Seq(Event), Len(execution') <= Capacity, returned' \subseteq Event,
         \A e \in Items' : e \in Items \/ Told(workflow, durable, e)
  PROVE  Keeps
<1>1. ItemsStep
  BY DEF ItemsStep, IInv
<1>2. QED BY <1>1, QuietParts, SameInputs DEF Keeps

LEMMA StepHeldKeeps ==
  ASSUME IInv, StepHeld
  PROVE  Keeps
<1>1. pending \in TaskAttempt /\ Known(durable, pending)
  BY DEF StepHeld, IInv, TypeOK, Held
<1>2. Started(pending) \in Event /\ Told(workflow, durable, Started(pending))
  BY <1>1, StartIsTold
<1>3. Items' = Items \cup {Started(pending)} /\ returned' \subseteq Event
  BY <1>2 DEF StepHeld, Items, IInv, TypeOK
<1>4. execution' \in Seq(Event) /\ Len(execution') <= Capacity
  BY DEF StepHeld, IInv, TypeOK
<1>5. UNCHANGED <<workflow, inputs, durable, views, starts, restarts>>
  BY DEF StepHeld
<1>6. QED BY <1>2, <1>3, <1>4, <1>5, StreamKeeps

LEMMA DrainKeeps ==
  ASSUME IInv, DrainExecutionEvents
  PROVE  Keeps
<1>1. FactsStep /\ AttemptsStep /\ CurrentSetup' \in Setup /\ restarts' \in Nat
  BY QuietParts, SameInputs DEF DrainExecutionEvents
<1>2. ItemsStep
  BY <1>1, FewerItems DEF DrainExecutionEvents
<1>3. QED BY <1>1, <1>2 DEF Keeps

LEMMA RetryItemKeeps ==
  ASSUME IInv, NEW e \in returned, RetryItem(e)
  PROVE  Keeps
<1>1. execution \in Seq(Event) /\ returned \subseteq Event /\ e \in Event
      /\ Capacity \in Nat /\ Len(execution) \in Nat
  BY BoundsAssumption DEF IInv, TypeOK
<1>2. execution' = Append(execution, e) /\ returned' = returned \ {e} /\ Len(execution) < Capacity
      /\ UNCHANGED <<workflow, inputs, durable, views, starts, restarts>>
  BY DEF RetryItem, Room
<1>3. execution' \in Seq(Event) /\ ToSet(execution') = ToSet(execution) \cup {e}
  BY <1>1, <1>2, ToSetAppend
<1>4. Len(execution') <= Capacity
  BY <1>1, <1>2
<1>5. Items' \subseteq Items
  BY <1>2, <1>3 DEF Items
<1>6. QED BY <1>1, <1>2, <1>3, <1>4, <1>5, StreamKeeps

LEMMA RetryPendingKeeps ==
  ASSUME IInv, NEW e \in returned, RetryPending(e)
  PROVE  Keeps
<1>1. pending \in TaskAttempt /\ Known(durable, pending)
  BY DEF RetryPending, IInv, TypeOK, Held
<1>2. PICK d : d = Started(pending)
  OBVIOUS
<1>3. d \in Event /\ Told(workflow, durable, d)
  BY <1>1, <1>2, StartIsTold
<1>4. /\ execution \in Seq(Event) /\ returned \subseteq Event
      /\ Capacity \in Nat /\ Len(execution) \in Nat /\ Len(execution) <= Capacity
      /\ UNCHANGED <<workflow, inputs, durable, views, restarts>>
  BY BoundsAssumption DEF IInv, TypeOK, RetryPending
<1>5. /\ execution' \in Seq(Event) /\ Len(execution') <= Capacity
      /\ returned' \subseteq Event /\ Items' \subseteq Items \cup {d}
  <2>1. CASE Room /\ execution' = Append(execution, d) /\ returned' = returned \ {e}
    <3>1. execution' \in Seq(Event) /\ ToSet(execution') = ToSet(execution) \cup {d}
      BY <1>3, <1>4, <2>1, ToSetAppend
    <3>2. Len(execution') <= Capacity
      BY <1>4, <2>1 DEF Room
    <3>3. QED BY <1>4, <2>1, <3>1, <3>2 DEF Items
  <2>2. CASE returned' = (returned \ {e}) \cup {d} /\ UNCHANGED execution
    BY <1>3, <1>4, <2>2 DEF Items
  <2>3. QED BY <1>2, <2>1, <2>2 DEF RetryPending
<1>6. ItemsStep
  BY <1>3, <1>4, <1>5 DEF ItemsStep, IInv
<1>7. FactsStep
  BY <1>4, QuietFacts
<1>8. QED BY <1>4, <1>6, <1>7, RetryPendingAttempts, SameInputs DEF Keeps

LEMMA RestartKeeps ==
  ASSUME IInv, NEW s \in Setups, NEW done \in SUBSET Task, Restart(s, done)
  PROVE  Keeps
<1>1. FactsStep /\ AttemptsStep
  BY RestartFacts, RestartAttempts
<1>2. ItemsStep
  <2>1. execution' = <<>> /\ returned' = {}
    BY DEF Restart
  <2>2. ToSet(execution') = {} /\ Len(execution') = 0 /\ execution' \in Seq(Event)
    BY <2>1 DEF ToSet
  <2>3. QED BY <2>1, <2>2, BoundsAssumption DEF ItemsStep, Items
<1>3. CurrentSetup' \in Setup /\ restarts' \in Nat
  <2>1. s \in Setup /\ config' = s.config /\ scope' = s.scope /\ restarts' = restarts + 1
    BY HostAssumption DEF Restart
  <2>2. QED BY <2>1 DEF CurrentSetup, Setup, IInv, TypeOK
<1>4. QED BY <1>1, <1>2, <1>3 DEF Keeps

(* Every step of the runtime keeps the invariant, and adds dispatches and  *)
(* completions only where FactsStep allows them.                           *)
LEMMA NextKeeps ==
  ASSUME IInv, [Next]_vars
  PROVE  IInv' /\ FactsStep
<1>1. Keeps
  <2>1. CASE Inputs
    BY <2>1, InputsKeep
  <2>2. CASE Effects
    BY <2>2, RecordIntentKeeps, DispatchNewKeeps, RecoverKeeps, DispatchAdmittedKeeps,
       RecordOutcomeKeeps, CancelKeeps DEF Effects
  <2>3. CASE Step
    BY <2>3, StepHeldKeeps, StepPlainNewKeeps, StepPlainAgainKeeps, StepIntentKeeps,
       StepAdmitKeeps, StepSucceededKeeps DEF Step
  <2>4. CASE DrainExecutionEvents
    BY <2>4, DrainKeeps
  <2>5. CASE RetryExecutionEvent
    BY <2>5, RetryItemKeeps, RetryPendingKeeps DEF RetryExecutionEvent
  <2>6. CASE Restarts
    BY <2>6, RestartKeeps DEF Restarts
  <2>7. CASE UNCHANGED vars
    <3>1. UNCHANGED <<workflow, inputs, durable, views, starts, stream, restarts>>
      BY <2>7 DEF vars
    <3>2. FactsStep /\ AttemptsStep /\ CurrentSetup' \in Setup /\ restarts' \in Nat
      BY <3>1, QuietParts, SameInputs
    <3>3. ItemsStep
      BY <3>1, <3>2, FewerItems DEF stream
    <3>4. QED BY <3>2, <3>3 DEF Keeps
  <2>8. QED BY <2>1, <2>2, <2>3, <2>4, <2>5, <2>6, <2>7 DEF Next
<1>2. TypeOK'
  BY <1>1 DEF Keeps, FactsStep, AttemptsStep, ItemsStep, TypeOK
<1>3. QED BY <1>1, <1>2 DEF Keeps, FactsStep, AttemptsStep, ItemsStep, IInv

(* A new run owes nothing yet.                                             *)
LEMMA InitHolds ==
  ASSUME Init
  PROVE  IInv
<1>1. /\ durable = NoFacts /\ journal = EmptyJournal /\ cancelled = {}
      /\ attempts = <<>> /\ pending = NoStart /\ nextAttempt = 1
      /\ execution = <<>> /\ returned = {} /\ restarts = 0
      /\ workflow \in GraphValue
  BY HostAssumption DEF Init
<1>2. CurrentSetup \in Setup
  <2>1. PICK s \in Setups : config = s.config /\ scope = s.scope
    BY DEF Init
  <2>2. s \in Setup
    BY <2>1, HostAssumption
  <2>3. QED BY <2>1, <2>2 DEF CurrentSetup, Setup
<1>3. /\ durable.admissions = <<>> /\ durable.intents = {} /\ durable.cancellations = {}
      /\ durable.dispatches = <<>> /\ durable.outcomes = {} /\ durable \in FactSet
  BY <1>1 DEF NoFacts, FactSet
<1>4. TypeOK
  BY <1>1, <1>2, <1>3, BoundsAssumption DEF TypeOK, EmptyJournal, Journal
<1>5. Held = {} /\ Items = {}
  BY <1>1 DEF Held, Items, ToSet
<1>6. AttemptsAreNumbered
  BY <1>1, <1>3 DEF AttemptsAreNumbered
<1>7. ViewsMirrorStore
  BY <1>1, <1>3 DEF ViewsMirrorStore, JournalView, EmptyJournal
<1>8. Consistent(workflow, durable)
  BY <1>3 DEF Consistent, FactsOK, CompletedOnSuccess, UnsafeOnce, IdentitiesUsedOnce, Lineage,
              DispatchSet, AdmissionSet
<1>9. QED BY <1>4, <1>5, <1>6, <1>7, <1>8 DEF IInv, FactsInv

-----------------------------------------------------------------------------
(* Facts that are consistent can be rebuilt into a journal.                *)
LEMMA ConsistentIsRebuildable ==
  ASSUME NEW s, FactsOK(s)
  PROVE  Rebuildable(s)
<1>1. \A f, g \in s.intents : f # g => f.operation # g.operation /\ f.task # g.task
  BY DEF FactsOK, IdentitiesUsedOnce
<1>2. \A d \in DispatchSet(s) : HasIntent(s, d.operation)
  BY DEF FactsOK, Lineage, HasIntent
<1>3. Len(s.dispatches) \in Nat
  BY DEF FactsOK, FactSet
<1>4. ASSUME NEW n \in 1..Len(s.dispatches)
      PROVE  /\ HasIntent(s, s.dispatches[n].operation)
             /\ \A i \in 1..(n - 1) : s.dispatches[i].attempt # s.dispatches[n].attempt
  <2>1. s.dispatches[n] \in DispatchSet(s)
    BY DEF DispatchSet
  <2>2. ASSUME NEW i \in 1..(n - 1)
        PROVE  s.dispatches[i].attempt # s.dispatches[n].attempt
    <3>1. i \in 1..Len(s.dispatches) /\ i # n
      BY <1>3
    <3>2. QED BY <3>1 DEF FactsOK, IdentitiesUsedOnce
  <2>3. QED BY <1>2, <2>1, <2>2
<1>5. ASSUME NEW f \in s.outcomes
      PROVE  PersistOutcomeAccepted(s, f)
  <2>1. PICK d \in DispatchSet(s) : d.attempt = f.attempt /\ d.operation = f.operation
    BY DEF FactsOK, Lineage
  <2>2. \A r \in s.outcomes : r.attempt = f.attempt => r = f
    BY DEF FactsOK, IdentitiesUsedOnce
  <2>3. QED BY <1>2, <2>1, <2>2 DEF PersistOutcomeAccepted
<1>6. QED BY <1>1, <1>4, <1>5 DEF Rebuildable

(* The inductive invariant holds throughout: the runtime's process-local   *)
(* state agrees with the store, across calls that fail between two commits *)
(* and across restarts.                                                    *)
THEOREM RuntimeInvariant == Spec => []IInv
<1>1. Init => IInv
  BY InitHolds
<1>2. IInv /\ [Next]_vars => IInv'
  BY NextKeeps
<1>3. QED BY <1>1, <1>2, PTL DEF Spec

(* The state of the runtime, its store and the host's items has its types. *)
THEOREM RuntimeTypes == Spec => []TypeOK
<1>1. IInv => TypeOK
  BY DEF IInv
<1>2. QED BY <1>1, RuntimeInvariant, PTL

(* The journal and the cancelled view say what the store says after every  *)
(* call and every restart.                                                 *)
THEOREM RuntimeViews == Spec => []ViewsMirrorStore
<1>1. IInv => ViewsMirrorStore
  BY DEF IInv, FactsInv
<1>2. QED BY <1>1, RuntimeInvariant, PTL

(* from_durable_state never refuses what the runtime committed.            *)
THEOREM RuntimeRebuildable == Spec => []FactsStayRebuildable
<1>1. IInv => FactsStayRebuildable
  BY ConsistentIsRebuildable DEF IInv, FactsInv, Consistent, FactsOK, FactsStayRebuildable
<1>2. QED BY <1>1, RuntimeInvariant, PTL

(* begin_attempt numbers attempts without gap or reuse, across restarts.   *)
THEOREM RuntimeNumbering == Spec => []AttemptsAreNumbered
<1>1. IInv => AttemptsAreNumbered
  BY DEF IInv
<1>2. QED BY <1>1, RuntimeInvariant, PTL

(* dispatch_effect reaches the outside world at most once for a            *)
(* non-idempotent operation, whatever the host calls and whenever the      *)
(* process ends.                                                           *)
THEOREM RuntimeUnsafeOnce == Spec => []UnsafeEffectDispatchedOnce
<1>1. IInv => UnsafeEffectDispatchedOnce
  BY DEF IInv, FactsInv, Consistent, UnsafeOnce, UnsafeEffectDispatchedOnce
<1>2. QED BY <1>1, RuntimeInvariant, PTL

(* classify_recovery never answers InvariantViolation for an operation     *)
(* with an intent.                                                         *)
THEOREM RuntimeRecovery == Spec => []RecoveryNeverContradicted
<1>1. ASSUME IInv PROVE RecoveryNeverContradicted
  <2>1. FactsInv /\ Consistent(workflow, durable)
    BY <1>1 DEF IInv, FactsInv
  <2>2. ASSUME NEW i \in journal.intents
        PROVE  RecoveryAction(workflow.tasks, workflow.completed, journal, i.operation)
                 # "InvariantViolation"
    <3>1. i \in durable.intents
      BY <2>1, JournalReads
    <3>2. journal = JournalView(durable)
      BY <2>1 DEF FactsInv, ViewsMirrorStore
    <3>3. QED BY <2>1, <3>1, <3>2, ConsistentRecovery
  <2>3. QED BY <2>2 DEF RecoveryNeverContradicted
<1>2. QED BY <1>1, RuntimeInvariant, PTL

(* Every event tells of an admitted attempt or a recorded completion.      *)
THEOREM RuntimeEvents == Spec => []EventsFollowFacts
<1>1. IInv => EventsFollowFacts
  BY DEF IInv, Items, Told, EventsFollowFacts
<1>2. QED BY <1>1, RuntimeInvariant, PTL

(* An attempt holds the capabilities it was admitted with.                 *)
THEOREM RuntimePins == Spec => []AttemptsKeepTheirPins
<1>1. IInv => AttemptsKeepTheirPins
  BY DEF IInv, Held, Known, AttemptsKeepTheirPins
<1>2. QED BY <1>1, RuntimeInvariant, PTL

(* No call and no restart leads to a dispatch after a known outcome.       *)
THEOREM RuntimeKnownOutcome == Spec => KnownOutcomeStopsDispatch
<1>1. ASSUME IInv, [Next]_vars
      PROVE  [ \A o \in Operation :
                 EffectState(durable, o) \in KnownOutcome =>
                   DispatchesOf(durable', o) = DispatchesOf(durable, o) ]_vars
  BY <1>1, NextKeeps DEF FactsStep, DispatchesOpen
<1>2. QED BY <1>1, RuntimeInvariant, PTL DEF Spec, KnownOutcomeStopsDispatch

(* A task that is cancelled before its dispatch is never dispatched and    *)
(* never completed.                                                        *)
THEOREM RuntimeCancellation == Spec => CancelledWorkStaysUndone
<1>1. ASSUME IInv, [Next]_vars
      PROVE  [ \A t \in cancelled :
                 /\ t \in cancelled'
                 /\ \A i \in durable.intents :
                      i.task = t =>
                        DispatchesOf(durable', i.operation) = DispatchesOf(durable, i.operation)
                 /\ /\ t \notin workflow.completed
                    /\ \A i \in durable.intents :
                         i.task = t => DispatchesOf(durable, i.operation) = {}
                    => t \notin workflow'.completed ]_vars
  <2>1. FactsStep
    BY <1>1, NextKeeps
  <2>2. \A i \in durable.intents : i.operation \in Operation
    BY <1>1 DEF IInv, TypeOK, FactSet, Intent
  <2>3. \A t \in cancelled : t \in cancelled'
    BY <2>1 DEF FactsStep
  <2>4. \A t \in cancelled : \A i \in durable.intents :
          i.task = t => DispatchesOf(durable', i.operation) = DispatchesOf(durable, i.operation)
    BY <2>1, <2>2 DEF FactsStep, DispatchesOpen
  <2>5. \A t \in cancelled :
          /\ t \notin workflow.completed
          /\ \A i \in durable.intents : i.task = t => DispatchesOf(durable, i.operation) = {}
          => t \notin workflow'.completed
    BY <2>1 DEF FactsStep, CompletesOpen
  <2>6. QED BY <2>3, <2>4, <2>5
<1>2. QED BY <1>1, RuntimeInvariant, PTL DEF Spec, CancelledWorkStaysUndone

-----------------------------------------------------------------------------
(* The protocol of external effects.  It sees intents, dispatches and the  *)
(* outcomes of the latest ones, which an admission leaves alone.           *)
ProtocolStep == [Protocol!Next]_(Protocol!vars)

SeenAs(s, z) ==
  /\ z.intents = s.intents /\ DispatchSet(z) = DispatchSet(s)
  /\ \A o \in Operation : OutcomeSeen(z, o) = OutcomeSeen(s, o)

LEMMA SeenThrough ==
  /\ LatestOutcomes = [o \in Operation |-> OutcomeSeen(durable, o)]
  /\ LatestOutcomes' = [o \in Operation |-> OutcomeSeen(durable', o)]
BY DEF LatestOutcomes, OutcomeSeen

LEMMA SameEffectsSeen ==
  ASSUME NEW s, NEW z, SameEffects(s, z)
  PROVE  SeenAs(s, z)
BY SameEffectsSameStates DEF SameEffects, SeenAs, OutcomeSeen, DispatchSet

(* A call that shows an observer nothing.                                  *)
LEMMA StutterStep ==
  ASSUME SeenAs(durable, durable'), UNCHANGED <<workflow.completed, cancelled>>
  PROVE  ProtocolStep
<1>1. UNCHANGED <<durable.intents, DispatchSet(durable), LatestOutcomes>>
  BY SeenThrough DEF SeenAs
<1>2. QED BY <1>1 DEF ProtocolStep, Protocol!vars

(* A call that commits an intent, whatever it admits as well.              *)
LEMMA PrepareStep ==
  ASSUME IInv, NEW f \in Intent, IntentRecordable(f),
         NEW s, s = ApplyMutation(durable, RecordIntent(f)), SeenAs(s, durable'),
         UNCHANGED <<workflow, cancelled>>
  PROVE  ProtocolStep
<1>1. /\ FactsOK(durable) /\ durable \in FactSet
      /\ \A k \in durable.intents : k.operation # f.operation /\ k.task # f.task
      /\ f.task \notin workflow.completed
  BY JournalReads DEF IInv, FactsInv, Consistent, FactsOK, IntentRecordable, PersistIntentAccepted
<1>2. /\ s.intents = durable.intents \cup {f} /\ DispatchSet(s) = DispatchSet(durable)
      /\ \A o : OutcomeSeen(s, o) = OutcomeSeen(durable, o)
  <2>1. s.intents = durable.intents \cup {f} /\ s.dispatches = durable.dispatches
    BY <1>1, IntentChange
  <2>2. QED BY <1>1, <2>1, IntentSeen DEF DispatchSet
<1>3. /\ durable'.intents = durable.intents \cup {f}
      /\ UNCHANGED <<DispatchSet(durable), LatestOutcomes>>
  BY <1>2, SeenThrough DEF SeenAs
<1>4. f \in Protocol!Intent
  BY DEF Protocol!Intent, Intent, Semantics
<1>5. Protocol!Prepare(f)
  BY <1>1, <1>3 DEF Protocol!Prepare
<1>6. QED BY <1>4, <1>5 DEF ProtocolStep, Protocol!Next

(* A call that commits a dispatch, after s, which may have an admission    *)
(* more than the store before the call.                                    *)
LEMMA DispatchStep ==
  ASSUME IInv, NEW s, Consistent(workflow, s), SameEffects(durable, s),
         NEW d \in Dispatch, DispatchAccepted(s, d),
         \/ EffectState(durable, d.operation) = "Prepared"
         \/ /\ EffectState(durable, d.operation) = "OutcomeUnknown"
            /\ SemanticsOf(durable, d.operation) = "Idempotent",
         TaskOf(durable, d.operation) \notin cancelled,
         durable' = ApplyMutation(s, RecordDispatch(d)),
         UNCHANGED <<workflow, cancelled>>
  PROVE  ProtocolStep
<1>1. PICK z : z = ApplyMutation(s, RecordDispatch(d))
  OBVIOUS
<1>2. /\ FactsOK(s) /\ s \in FactSet /\ IdentitiesUsedOnce(durable) /\ durable \in FactSet
      /\ d.operation \in Operation /\ d.attempt \in Attempt
  BY DEF IInv, FactsInv, Consistent, FactsOK, Dispatch
<1>3. PICK i \in durable.intents : i.operation = d.operation
  BY DEF DispatchAccepted, SameEffects
<1>4. i.task \notin cancelled /\ SemanticsOf(durable, d.operation) = i.semantics
  BY <1>2, <1>3, TheIntent
<1>5. EffectState(s, d.operation) = EffectState(durable, d.operation)
      /\ EffectState(durable, d.operation) \notin KnownOutcome
  BY SameEffectsSameStates DEF KnownOutcome
<1>6. \A o \in Operation : OutcomeSeen(z, o) = OutcomeSeen(durable, o)
  <2>1. \A o : OutcomeSeen(z, o) = OutcomeSeen(s, o)
    BY <1>1, <1>2, <1>5, DispatchSeen
  <2>2. QED BY <2>1, SameEffectsSeen DEF SeenAs
<1>7. z.intents = durable.intents /\ DispatchSet(z) = DispatchSet(durable) \cup {d}
  <2>1. z = [s EXCEPT !.dispatches = Append(@, d)]
    BY <1>1 DEF RecordDispatch, ApplyMutation
  <2>2. z.intents = s.intents /\ DispatchSet(z) = DispatchSet(s) \cup {d}
    BY <1>2, <2>1, AppendedDispatch
  <2>3. QED BY <2>2 DEF SameEffects, DispatchSet
<1>8. /\ durable'.intents = durable.intents /\ DispatchSet(durable') = DispatchSet(durable) \cup {d}
      /\ UNCHANGED LatestOutcomes
  BY <1>1, <1>6, <1>7, SeenThrough
<1>9. LatestOutcomes[i.operation] = "Unknown"
  BY <1>2, <1>3, <1>5, SeenThrough DEF OutcomeSeen
<1>10. Protocol!Dispatched(i.operation) => i.semantics = "Idempotent"
  <2>1. SUFFICES ASSUME NEW e \in DispatchSet(durable), e.operation = i.operation
                 PROVE  EffectState(durable, d.operation) # "Prepared"
    BY <1>4 DEF Protocol!Dispatched
  <2>2. DispatchesOf(durable, i.operation) # {}
    BY <2>1 DEF DispatchSet, DispatchesOf
  <2>3. HasIntent(durable, i.operation)
    BY DEF HasIntent
  <2>4. QED BY <1>2, <1>3, <2>2, <2>3, StatesOfAnEffect
<1>11. \A e \in DispatchSet(durable) : e.attempt # d.attempt
  BY DEF DispatchAccepted, Dispatched, SameEffects, DispatchSet
<1>12. d = [operation |-> i.operation, attempt |-> d.attempt]
  BY <1>3 DEF Dispatch
<1>13. Protocol!Dispatch(i, d.attempt)
  BY <1>4, <1>8, <1>9, <1>10, <1>11, <1>12 DEF Protocol!Dispatch
<1>14. QED BY <1>2, <1>13 DEF ProtocolStep, Protocol!Next

(* A report on the latest dispatch is the protocol's if it is the first;   *)
(* a repeated one, and one on an earlier dispatch, shows nothing.          *)
LEMMA ReportStep ==
  ASSUME IInv, NEW f \in Outcome, RecordEffectOutcome(f)
  PROVE  ProtocolStep
<1>1. PICK z : z = ApplyMutation(durable, RecordOutcome(f))
  OBVIOUS
<1>2. /\ FactsOK(durable) /\ OutcomeAccepted(durable, f)
      /\ durable' = z /\ UNCHANGED <<workflow, cancelled>>
  BY <1>1 DEF RecordEffectOutcome, IInv, FactsInv, Consistent
<1>3. z.intents = durable.intents /\ DispatchSet(z) = DispatchSet(durable)
  BY <1>1, <1>2, OutcomeChange DEF DispatchSet
<1>4. \A o : \/ OutcomeSeen(z, o) = OutcomeSeen(durable, o)
             \/ /\ o = f.operation
                /\ OutcomeSeen(durable, o) = "Unknown" /\ OutcomeSeen(z, o) = f.outcome
  BY <1>1, <1>2, ReportSeen
<1>5. CASE OutcomeSeen(z, f.operation) = OutcomeSeen(durable, f.operation)
  BY <1>2, <1>3, <1>4, <1>5, StutterStep DEF SeenAs
<1>6. CASE /\ OutcomeSeen(durable, f.operation) = "Unknown"
           /\ OutcomeSeen(z, f.operation) = f.outcome
  <2>1. f.operation \in Operation /\ f.outcome \in {"Succeeded", "Failed"}
    BY DEF Outcome, KnownOutcome
  <2>2. PICK d \in DispatchSet(durable) : d.operation = f.operation
    BY <1>2 DEF OutcomeAccepted
  <2>3. PICK i \in durable.intents : i.operation = f.operation
    BY <1>2, <2>2 DEF FactsOK, Lineage
  <2>4. LatestOutcomes' = [LatestOutcomes EXCEPT ![i.operation] = f.outcome]
    BY <1>2, <1>4, <1>6, <2>1, <2>3, SeenThrough
  <2>5. LatestOutcomes[i.operation] = "Unknown" /\ Protocol!Dispatched(i.operation)
    BY <1>6, <2>1, <2>2, <2>3, SeenThrough DEF Protocol!Dispatched
  <2>6. Protocol!Report(i, f.outcome)
    BY <1>2, <1>3, <2>4, <2>5 DEF Protocol!Report
  <2>7. QED BY <2>1, <2>6 DEF ProtocolStep, Protocol!Next
<1>7. QED BY <1>4, <1>5, <1>6

LEMMA CancelStep ==
  ASSUME IInv, NEW t \in Task, NEW c \in Cancellation, CancelTask(t, c)
  PROVE  ProtocolStep
<1>1. SameEffects(durable, durable')
  BY CancelChange DEF CancelTask, IInv, TypeOK
<1>2. UNCHANGED <<durable.intents, DispatchSet(durable), LatestOutcomes>>
  BY <1>1, SameEffectsSeen, SeenThrough DEF SeenAs
<1>3. Protocol!Cancel(t)
  BY <1>2 DEF Protocol!Cancel, CancelTask
<1>4. QED BY <1>3 DEF ProtocolStep, Protocol!Next

(* A completion: FactsStep allows it only where the protocol does.         *)
LEMMA CompleteStep ==
  ASSUME IInv, FactsStep, SameEffects(durable, durable'), UNCHANGED cancelled,
         NEW t \in Task, workflow'.completed = workflow.completed \cup {t}
  PROVE  ProtocolStep
<1>1. UNCHANGED <<durable.intents, DispatchSet(durable), LatestOutcomes>>
  BY SameEffectsSeen, SeenThrough DEF SeenAs
<1>2. CASE t \in workflow.completed
  BY <1>2, SameEffectsSeen, StutterStep
<1>3. CASE t \notin workflow.completed
  <2>1. ASSUME NEW i \in durable.intents, i.task = t
        PROVE  LatestOutcomes[i.operation] = "Succeeded"
    <3>1. EffectState(durable', i.operation) = "Succeeded"
      BY <1>1, <2>1 DEF FactsStep, FactsInv, Consistent, CompletedOnSuccess
    <3>2. EffectState(durable, i.operation) = "Succeeded" /\ i.operation \in Operation
      BY <3>1, SameEffectsSameStates DEF IInv, TypeOK, FactSet, Intent
    <3>3. QED BY <3>2 DEF LatestOutcomes, KnownOutcome
  <2>2. t \notin cancelled \/ \E i \in durable.intents : i.task = t
    BY <1>3 DEF FactsStep, CompletesOpen
  <2>3. Protocol!Complete(t)
    BY <1>1, <2>1, <2>2 DEF Protocol!Complete
  <2>4. QED BY <2>3 DEF ProtocolStep, Protocol!Next
<1>4. QED BY <1>2, <1>3

LEMMA RestartStep ==
  ASSUME IInv, NEW s \in Setups, NEW done \in SUBSET Task, Restart(s, done)
  PROVE  ProtocolStep
<1>1. workflow'.completed \subseteq workflow.completed
  BY DEF Restart, IInv, TypeOK, GraphValue
<1>2. UNCHANGED <<durable, cancelled>>
  BY DEF Restart, IInv, FactsInv, ViewsMirrorStore
<1>3. UNCHANGED LatestOutcomes
  BY <1>2, SeenThrough
<1>4. Protocol!Forget
  BY <1>1, <1>2, <1>3 DEF Protocol!Forget
<1>5. QED BY <1>4 DEF ProtocolStep, Protocol!Next

(* An admission changes no effect.                                         *)
LEMMA AdmitStep ==
  ASSUME IInv, NEW t \in Task, NEW o \in Operation \cup {NoOperation}, CanBegin(t),
         durable' = WithAdmission(durable, NewAttempt(t, o))
  PROVE  SameEffects(durable, durable')
<1>1. PICK a, z : a = NewAttempt(t, o) /\ z = WithAdmission(durable, a)
  OBVIOUS
<1>2. SameEffects(durable, z)
  BY <1>1, AdmissionFacts DEF IInv, FactsInv
<1>3. QED BY <1>1, <1>2

(* The dispatch of an operation as an attempt.                             *)
LEMMA DispatchForType ==
  ASSUME NEW o \in Operation, NEW n \in Attempt
  PROVE  DispatchFor(o, n) \in Dispatch /\ DispatchFor(o, n).operation = o
BY DEF DispatchFor, Dispatch

(* dispatch_effect with a new attempt: a dispatch, or with a full stream   *)
(* an admission alone.                                                     *)
LEMMA DispatchNewStep ==
  ASSUME IInv, NEW o \in Operation, DispatchNew(o)
  PROVE  ProtocolStep
<1>1. FactsInv /\ Consistent(workflow, durable) /\ TypeOK
  BY DEF IInv, FactsInv
<1>2. PICK t \in Task : t = TaskOf(journal, o) /\ t = TaskOf(durable, o)
  BY <1>1, DispatchNewFacts, JournalReads
<1>3. PICK a, s : a = NewAttempt(t, o) /\ s = WithAdmission(durable, a)
  OBVIOUS
<1>4. CanBegin(t) /\ t \notin cancelled /\ UNCHANGED <<workflow, cancelled>>
  BY <1>2 DEF DispatchNew
<1>5. Consistent(workflow, s) /\ SameEffects(durable, s) /\ a.attempt \in Attempt
  BY <1>1, <1>3, <1>4, AdmissionFacts, NewAttemptType DEF TaskAttempt
<1>6. CASE durable' = s
  BY <1>4, <1>5, <1>6, SameEffectsSeen, StutterStep
<1>7. CASE Room
  <2>1. PICK d \in Dispatch : d = DispatchFor(o, a.attempt) /\ d.operation = o
    BY <1>5, DispatchForType
  <2>2. DispatchAccepted(s, d) /\ durable' = ApplyMutation(s, RecordDispatch(d))
    BY <1>2, <1>3, <1>7, <2>1 DEF DispatchNew
  <2>3. \/ EffectState(durable, o) = "Prepared"
        \/ EffectState(durable, o) = "OutcomeUnknown" /\ SemanticsOf(durable, o) = "Idempotent"
    BY <1>1, JournalReads DEF DispatchNew, NeedsNewAttempt
  <2>4. QED BY <1>2, <1>4, <1>5, <2>1, <2>2, <2>3, DispatchStep
<1>8. QED BY <1>2, <1>3, <1>6, <1>7 DEF DispatchNew

LEMMA DispatchAdmittedStep ==
  ASSUME IInv, NEW o \in Operation, NEW n \in Attempt, DispatchAdmitted(o, n)
  PROVE  ProtocolStep
<1>1. FactsInv /\ Consistent(workflow, durable)
  BY DEF IInv, FactsInv
<1>2. PICK d \in Dispatch : d = DispatchFor(o, n) /\ d.operation = o
  BY DispatchForType
<1>3. /\ DispatchAccepted(durable, d)
      /\ EffectState(durable, d.operation) = "Prepared"
      /\ TaskOf(durable, d.operation) \notin cancelled
      /\ durable' = ApplyMutation(durable, RecordDispatch(d))
      /\ UNCHANGED <<workflow, cancelled>>
  BY <1>1, <1>2, JournalReads DEF DispatchAdmitted
<1>4. SameEffects(durable, durable)
  BY DEF SameEffects
<1>5. QED BY <1>1, <1>2, <1>3, <1>4, DispatchStep

(* step with a configured effect: its intent, with or without admission.   *)
LEMMA StepIntentStep ==
  ASSUME IInv, NEW t \in Task, StepIntent(t)
  PROVE  ProtocolStep
<1>1. FactsInv /\ Consistent(workflow, durable) /\ TypeOK
  BY DEF IInv, FactsInv
<1>2. PICK f \in Intent : f = IntentFor(t, config[t].effect)
  <2>1. config[t].effect \in EffectSpec
    BY <1>1 DEF TypeOK, CurrentSetup, Setup, TaskConfig, StepIntent
  <2>2. QED BY <2>1 DEF IntentFor, EffectSpec, Intent
<1>3. PICK s : s = ApplyMutation(durable, RecordIntent(f))
  OBVIOUS
<1>4. IntentRecordable(f) /\ UNCHANGED <<workflow, cancelled>>
  BY <1>2 DEF StepIntent
<1>5. SeenAs(s, durable')
  <2>1. CASE durable' = s
    BY <2>1 DEF SeenAs
  <2>2. CASE CanBegin(t) /\ durable' = WithAdmission(s, NewAttempt(t, f.operation))
    <3>1. f.task \in workflow.tasks /\ f.task \notin workflow.completed /\ IntentAccepted(durable, f)
      BY <1>4 DEF IntentRecordable
    <3>2. Consistent(workflow, s) /\ s.admissions = durable.admissions
      BY <1>1, <1>3, <3>1, IntentConsistent, IdentityAssumption
    <3>3. PICK a, z : a = NewAttempt(t, f.operation) /\ z = WithAdmission(s, a)
      OBVIOUS
    <3>4. f.operation \in Operation
      BY DEF Intent
    <3>5. SameEffects(s, z)
      BY <2>2, <3>2, <3>3, <3>4, AdmissionFacts
    <3>6. QED BY <2>2, <3>3, <3>5, SameEffectsSeen
  <2>3. QED BY <1>2, <1>3, <2>1, <2>2 DEF StepIntent
<1>6. QED BY <1>3, <1>4, <1>5, PrepareStep

(* The steps of the scheduler.                                             *)
LEMMA StepSteps ==
  ASSUME IInv, Step
  PROVE  ProtocolStep
<1>1. CASE StepHeld
  BY <1>1, StutterStep DEF StepHeld, views, SeenAs
<1>2. ASSUME NEW t \in Task, StepPlainNew(t)
      PROVE  ProtocolStep
  <2>1. SameEffects(durable, durable') /\ UNCHANGED cancelled
    BY <1>2, AdmitStep DEF StepPlainNew, views
  <2>2. CASE UNCHANGED workflow
    BY <2>1, <2>2, SameEffectsSeen, StutterStep
  <2>3. CASE CompleteTask(t)
    <3>1. workflow'.completed = workflow.completed \cup {t}
      BY <2>3 DEF CompleteTask, IInv, TypeOK, GraphValue
    <3>2. QED BY <1>2, <2>1, <3>1, StepPlainNewFacts, CompleteStep
  <2>4. QED BY <1>2, <2>2, <2>3 DEF StepPlainNew
<1>3. ASSUME NEW t \in Task, NEW n \in Attempt, StepPlainAgain(t, n)
      PROVE  ProtocolStep
  BY <1>3, StepPlainAgainFacts, CompleteStep DEF StepPlainAgain, views, SameEffects
<1>4. ASSUME NEW t \in Task, NEW o \in Operation, StepAdmit(t, o)
      PROVE  ProtocolStep
  <2>1. SameEffects(durable, durable') /\ UNCHANGED <<workflow, cancelled>>
    BY <1>4, AdmitStep DEF StepAdmit, views
  <2>2. QED BY <2>1, SameEffectsSeen, StutterStep
<1>5. ASSUME NEW t \in Task, NEW o \in Operation, StepSucceeded(t, o)
      PROVE  ProtocolStep
  BY <1>5, StepSucceededFacts, CompleteStep DEF StepSucceeded, views, SameEffects
<1>6. QED BY <1>1, <1>2, <1>3, <1>4, <1>5, StepIntentStep DEF Step

(* The calls of the host: inputs, effects, and what they answer.           *)
LEMMA HostSteps ==
  ASSUME IInv, Inputs \/ Effects \/ DrainExecutionEvents \/ RetryExecutionEvent
  PROVE  ProtocolStep
<1>1. ASSUME UNCHANGED <<workflow.completed, durable, cancelled>>
      PROVE  ProtocolStep
  BY <1>1, StutterStep DEF SeenAs
<1>2. ASSUME NEW b \in Batches, ApplyWorkflowMutation(b)
      PROVE  ProtocolStep
  <2>1. workflow'.completed = workflow.completed
    BY <1>2, BatchType DEF ApplyWorkflowMutation, IInv, TypeOK
  <2>2. QED BY <1>1, <1>2, <2>1 DEF ApplyWorkflowMutation, views
<1>3. CASE Inputs
  BY <1>1, <1>2, <1>3 DEF Inputs, ConfigureTask, ChangeScope, views
<1>4. CASE DrainExecutionEvents \/ RetryExecutionEvent
  BY <1>1, <1>4 DEF DrainExecutionEvents, RetryExecutionEvent, RetryPending, RetryItem, views
<1>5. ASSUME NEW f \in Intent, RecordEffectIntent(f)
      PROVE  ProtocolStep
  <2>1. SeenAs(durable', durable')
    BY DEF SeenAs
  <2>2. QED BY <1>5, <2>1, PrepareStep DEF RecordEffectIntent
<1>6. ASSUME NEW o \in Operation, Recover(o)
      PROVE  ProtocolStep
  BY <1>6, RecoverFacts, CompleteStep DEF Recover, views, SameEffects
<1>7. CASE Effects
  BY <1>5, <1>6, <1>7, DispatchNewStep, DispatchAdmittedStep, ReportStep, CancelStep DEF Effects
<1>8. QED BY <1>3, <1>4, <1>7

(* The runtime implements the protocol of external effects, for every      *)
(* workflow, configuration and host, through every half-finished call and  *)
(* every restart.                                                          *)
THEOREM RuntimeImplementsProtocol == Spec => ImplementsEffectProtocol
<1>1. Init => Protocol!Init
  <2>1. SUFFICES ASSUME Init PROVE Protocol!Init
    OBVIOUS
  <2>2. durable.intents = {} /\ durable.dispatches = <<>> /\ cancelled = {}
    BY <2>1 DEF Init, NoFacts
  <2>3. workflow.completed \subseteq Task
    BY <2>1, HostAssumption DEF Init, GraphValue
  <2>4. DispatchSet(durable) = {}
    BY <2>2 DEF DispatchSet
  <2>5. \A o : EffectState(durable, o) = "NotPrepared"
    BY <2>2 DEF EffectState, HasIntent
  <2>6. LatestOutcomes = [o \in Operation |-> "Unknown"]
    BY <2>5 DEF LatestOutcomes, KnownOutcome
  <2>7. QED BY <2>2, <2>3, <2>4, <2>6 DEF Protocol!Init
<1>2. ASSUME IInv, [Next]_vars
      PROVE  ProtocolStep
  <2>1. CASE UNCHANGED vars
    BY <2>1, StutterStep DEF vars, views, SeenAs
  <2>2. CASE Next
    BY <1>2, <2>2, HostSteps, StepSteps, RestartStep DEF Next, Restarts
  <2>3. QED BY <1>2, <2>1, <2>2
<1>3. QED BY <1>1, <1>2, RuntimeInvariant, PTL
          DEF Spec, ImplementsEffectProtocol, Protocol!Spec, ProtocolStep

-----------------------------------------------------------------------------
(* What a patient host keeps up besides IInv.  A pending start is the one  *)
(* rejected item and is in the host's hands, which is why no other call    *)
(* can put a second start in its place; and the attempts view, with it,    *)
(* lists every number that was allocated.                                  *)
Listing ==
  /\ \A i \in 1..Len(attempts) : attempts[i].attempt = i
  /\ pending = NoStart => Len(attempts) = nextAttempt - 1
  /\ pending # NoStart => /\ Len(attempts) + 1 = nextAttempt - 1
                          /\ pending.attempt = nextAttempt - 1

HeldStartReturned == pending # NoStart => returned = {Started(pending)}

HostInv == Listing /\ HeldStartReturned

(* Every step of a patient host is a step of the runtime.                  *)
LEMMA PatientSteps == PatientNext => Next
<1>1. DrainExecutionEvents \/ RetryExecutionEvent \/ Restarts => Next
  BY DEF Next
<1>2. QED BY <1>1 DEF PatientNext, Answer

(* A call that begins no attempt leaves the listing as it is.              *)
LEMMA ListingStays ==
  ASSUME HostInv, returned = {}, UNCHANGED starts
  PROVE  HostInv'
<1>1. UNCHANGED <<attempts, pending, nextAttempt>> /\ pending = NoStart
  BY DEF starts, HostInv, HeldStartReturned
<1>2. QED BY <1>1 DEF HostInv, Listing, HeldStartReturned

(* A call that begins an attempt lists it, or leaves it pending and hands  *)
(* out its item.                                                           *)
LEMMA BeginLists ==
  ASSUME TypeOK, HostInv, returned = {},
         NEW a \in TaskAttempt, a.attempt = nextAttempt, Begin(a),
         Room \/ Enqueue(Started(a))
  PROVE  HostInv'
<1>1. /\ attempts \in Seq(TaskAttempt) /\ Len(attempts) \in Nat /\ nextAttempt \in Nat
      /\ a # NoStart
  BY IdentityAssumption, BoundsAssumption DEF TypeOK
<1>2. pending = NoStart /\ Len(attempts) = nextAttempt - 1 /\ nextAttempt' = nextAttempt + 1
  BY DEF HostInv, HeldStartReturned, Listing, Begin
<1>3. \A i \in 1..Len(attempts) : attempts[i].attempt = i
  BY DEF HostInv, Listing
<1>4. CASE Room /\ attempts' = Append(attempts, a) /\ UNCHANGED pending
  <2>1. PICK z : z = Append(attempts, a)
    OBVIOUS
  <2>2. /\ Len(z) = Len(attempts) + 1 /\ z[Len(attempts) + 1] = a
        /\ \A i \in 1..Len(attempts) : z[i] = attempts[i]
    BY <1>1, <2>1, AppendedRecord
  <2>3. \A i \in 1..Len(z) : z[i].attempt = i
    <3>1. SUFFICES ASSUME NEW i \in 1..Len(z) PROVE z[i].attempt = i
      OBVIOUS
    <3>2. CASE i \in 1..Len(attempts)
      BY <1>3, <2>2, <3>2
    <3>3. CASE i = Len(attempts) + 1
      BY <1>1, <1>2, <2>2, <3>3
    <3>4. QED BY <1>1, <2>2, <3>2, <3>3
  <2>4. attempts' = z /\ pending' = NoStart
    BY <1>2, <1>4, <2>1
  <2>5. QED BY <1>1, <1>2, <2>2, <2>3, <2>4 DEF HostInv, Listing, HeldStartReturned
<1>5. CASE ~Room /\ pending' = a /\ UNCHANGED attempts
  <2>1. returned' = {Started(a)}
    BY <1>5 DEF Enqueue
  <2>2. QED BY <1>1, <1>2, <1>3, <1>5, <2>1 DEF HostInv, Listing, HeldStartReturned
<1>6. QED BY <1>4, <1>5 DEF Begin

(* The attempts of a restored run are numbered by their place.             *)
LEMMA RestartLists ==
  ASSUME IInv, NEW s \in Setups, NEW done \in SUBSET Task, Restart(s, done)
  PROVE  HostInv'
<1>1. /\ attempts' = RestoredAttempts(s) /\ pending' = NoStart
      /\ nextAttempt' = Len(durable.admissions) + 1
  BY DEF Restart
<1>2. Len(durable.admissions) \in Nat
      /\ \A i \in 1..Len(durable.admissions) : durable.admissions[i].attempt = i
  BY DEF IInv, TypeOK, FactSet, AttemptsAreNumbered
<1>3. attempts' \in Seq(TaskAttempt)
  BY RestartAttempts DEF AttemptsStep
<1>4. DOMAIN attempts' = 1..Len(durable.admissions)
      /\ \A i \in 1..Len(durable.admissions) : attempts'[i].attempt = i
  BY <1>1, <1>2 DEF RestoredAttempts, RestoredAttempt
<1>5. Len(attempts') = Len(durable.admissions)
  BY <1>2, <1>3, <1>4
<1>6. QED BY <1>1, <1>2, <1>4, <1>5 DEF HostInv, Listing, HeldStartReturned

(* Publishing the pending start puts it at the end of the list.            *)
LEMMA RetryLists ==
  ASSUME TypeOK, HostInv, NEW e \in returned, RetryPending(e)
  PROVE  /\ HostInv'
         /\ e = Started(pending)
         /\ e \in ToSet(execution') \/ e \in returned'
<1>1. /\ attempts \in Seq(TaskAttempt) /\ Len(attempts) \in Nat
      /\ pending \in TaskAttempt /\ nextAttempt \in Nat /\ UNCHANGED nextAttempt
      /\ execution \in Seq(Event)
  BY BoundsAssumption DEF TypeOK, RetryPending
<1>2. returned = {Started(pending)} /\ e = Started(pending) /\ Started(pending) \in Event
  BY <1>1, StartedType DEF HostInv, HeldStartReturned, RetryPending
<1>3. CASE Room /\ execution' = Append(execution, e) /\ attempts' = Append(attempts, pending)
           /\ pending' = NoStart
  <2>1. PICK z : z = Append(attempts, pending)
    OBVIOUS
  <2>2. /\ Len(z) = Len(attempts) + 1 /\ z[Len(attempts) + 1] = pending
        /\ \A i \in 1..Len(attempts) : z[i] = attempts[i]
    BY <1>1, <2>1, AppendedRecord
  <2>3. /\ Len(attempts) + 1 = nextAttempt - 1 /\ pending.attempt = nextAttempt - 1
        /\ \A i \in 1..Len(attempts) : attempts[i].attempt = i
    BY DEF HostInv, Listing, RetryPending
  <2>4. \A i \in 1..Len(z) : z[i].attempt = i
    <3>1. SUFFICES ASSUME NEW i \in 1..Len(z) PROVE z[i].attempt = i
      OBVIOUS
    <3>2. CASE i \in 1..Len(attempts)
      BY <2>2, <2>3, <3>2
    <3>3. CASE i = Len(attempts) + 1
      BY <2>2, <2>3, <3>3
    <3>4. QED BY <1>1, <2>2, <3>2, <3>3
  <2>5. e \in ToSet(execution')
    BY <1>1, <1>2, <1>3, ToSetAppend
  <2>6. HostInv'
    BY <1>1, <1>3, <2>1, <2>2, <2>3, <2>4 DEF HostInv, Listing, HeldStartReturned
  <2>7. QED BY <1>2, <2>5, <2>6
<1>4. CASE returned' = {Started(pending)} /\ UNCHANGED <<attempts, pending>>
  BY <1>1, <1>2, <1>4 DEF HostInv, Listing, HeldStartReturned
<1>5. QED BY <1>2, <1>3, <1>4 DEF RetryPending

(* A patient host that holds nothing may call anything.                    *)
LEMMA CallLists ==
  ASSUME IInv, HostInv, returned = {}, Next
  PROVE  HostInv'
<1>1. TypeOK /\ pending = NoStart
  BY DEF IInv, HostInv, HeldStartReturned
<1>2. ASSUME NEW t \in Task, NEW o \in Operation \cup {NoOperation}, CanBegin(t),
             Begin(NewAttempt(t, o)), Room \/ Enqueue(Started(NewAttempt(t, o)))
      PROVE  HostInv'
  <2>1. PICK a : a = NewAttempt(t, o)
    OBVIOUS
  <2>2. a \in TaskAttempt /\ a.attempt = nextAttempt
    BY <1>1, <1>2, <2>1, NewAttemptType
  <2>3. QED BY <1>1, <1>2, <2>1, <2>2, BeginLists
<1>3. CASE Inputs
  BY <1>3, ListingStays DEF Inputs, ConfigureTask, ChangeScope, ApplyWorkflowMutation
<1>4. CASE Effects
  <2>1. ASSUME NEW o \in Operation, DispatchNew(o)
        PROVE  HostInv'
    <3>1. PICK t \in Task : t = TaskOf(journal, o)
      BY <2>1, DispatchNewFacts
    <3>2. CanBegin(t) /\ Begin(NewAttempt(t, o)) /\ Enqueue(Started(NewAttempt(t, o)))
      BY <2>1, <3>1 DEF DispatchNew
    <3>3. QED BY <1>2, <3>2
  <2>2. QED BY <1>4, <2>1, ListingStays
            DEF Effects, RecordEffectIntent, Recover, DispatchAdmitted, RecordEffectOutcome,
                CancelTask
<1>5. CASE Step
  <2>1. ~StepHeld
    BY <1>1 DEF StepHeld
  <2>2. ASSUME NEW t \in Task, StepPlainNew(t)
        PROVE  HostInv'
    BY <1>2, <2>2 DEF StepPlainNew
  <2>3. ASSUME NEW t \in Task, StepIntent(t)
        PROVE  HostInv'
    <3>1. CASE UNCHANGED <<starts, stream>>
      BY <3>1, ListingStays
    <3>2. QED BY <1>2, <2>3, <3>1, StepIntentFacts
  <2>4. ASSUME NEW t \in Task, NEW o \in Operation, StepAdmit(t, o)
        PROVE  HostInv'
    BY <1>2, <2>4 DEF StepAdmit
  <2>5. QED BY <1>5, <2>1, <2>2, <2>3, <2>4, ListingStays
            DEF Step, StepPlainAgain, StepSucceeded
<1>6. CASE DrainExecutionEvents
  BY <1>6, ListingStays DEF DrainExecutionEvents
<1>7. CASE RetryExecutionEvent
  BY <1>7 DEF RetryExecutionEvent
<1>8. CASE Restarts
  BY <1>8, RestartLists DEF Restarts
<1>9. QED BY <1>3, <1>4, <1>5, <1>6, <1>7, <1>8 DEF Next

(* What becomes of the items when the host answers.                        *)
Published(e) ==
  \/ e \in ToSet(execution')
  \/ e \in returned'
  \/ pending' # NoStart /\ Started(pending') = e

LEMMA AnswerLists ==
  ASSUME IInv, HostInv, Answer
  PROVE  /\ HostInv'
         /\ restarts' = restarts => \A e \in returned : Published(e)
<1>1. TypeOK
  BY DEF IInv
<1>2. CASE DrainExecutionEvents
  <2>1. UNCHANGED <<attempts, pending, nextAttempt, returned>>
    BY <1>2 DEF DrainExecutionEvents, starts
  <2>2. QED BY <2>1 DEF HostInv, Listing, HeldStartReturned, Published
<1>3. ASSUME NEW e \in returned, RetryPending(e)
      PROVE  HostInv' /\ \A d \in returned : Published(d)
  <2>1. /\ HostInv' /\ e = Started(pending)
        /\ e \in ToSet(execution') \/ e \in returned'
    BY <1>1, <1>3, RetryLists
  <2>2. returned = {e}
    BY <1>3, <2>1 DEF HostInv, HeldStartReturned, RetryPending
  <2>3. QED BY <2>1, <2>2 DEF Published
<1>4. ASSUME NEW e \in returned, RetryItem(e)
      PROVE  HostInv' /\ \A d \in returned : Published(d)
  <2>1. /\ execution' = Append(execution, e) /\ returned' = returned \ {e}
        /\ pending = NoStart /\ UNCHANGED <<attempts, pending, nextAttempt>>
    BY <1>4 DEF RetryItem, starts
  <2>2. execution \in Seq(Event) /\ e \in Event
    BY <1>1 DEF TypeOK
  <2>3. e \in ToSet(execution')
    BY <2>1, <2>2, ToSetAppend
  <2>4. QED BY <2>1, <2>3 DEF HostInv, Listing, HeldStartReturned, Published
<1>5. CASE Restarts
  <2>1. restarts' # restarts
    BY <1>1, <1>5 DEF Restarts, Restart, TypeOK
  <2>2. QED BY <1>5, <2>1, RestartLists DEF Restarts
<1>6. QED BY <1>2, <1>3, <1>4, <1>5 DEF Answer, RetryExecutionEvent

(* A step of a patient host keeps HostInv and loses no item.               *)
LEMMA PatientKeeps ==
  ASSUME IInv, HostInv, [PatientNext]_vars
  PROVE  /\ HostInv'
         /\ restarts' = restarts =>
              \A e \in (returned \cup { Started(a) : a \in {pending} \ {NoStart} }) : Published(e)
<1>1. pending # NoStart => returned = {Started(pending)}
  BY DEF HostInv, HeldStartReturned
<1>2. returned \cup { Started(a) : a \in {pending} \ {NoStart} } = returned
  BY <1>1
<1>3. CASE returned = {} /\ Next
  BY <1>2, <1>3, CallLists
<1>4. CASE Answer
  BY <1>2, <1>4, AnswerLists
<1>5. CASE UNCHANGED vars
  <2>1. UNCHANGED <<attempts, pending, nextAttempt, returned>>
    BY <1>5 DEF vars, starts, stream
  <2>2. QED BY <1>2, <2>1 DEF HostInv, Listing, HeldStartReturned, Published
<1>6. QED BY <1>3, <1>4, <1>5 DEF PatientNext

LEMMA PatientInvariant == PatientSpec => [](IInv /\ HostInv)
<1>1. Init => HostInv
  BY DEF Init, HostInv, Listing, HeldStartReturned
<1>2. [PatientNext]_vars => [Next]_vars
  BY PatientSteps
<1>3. IInv /\ [PatientNext]_vars => IInv'
  BY <1>2, NextKeeps
<1>4. IInv /\ HostInv /\ [PatientNext]_vars => HostInv'
  BY PatientKeeps
<1>5. Init => IInv
  BY InitHolds
<1>6. QED BY <1>1, <1>3, <1>4, <1>5, PTL DEF PatientSpec

(* attempts() lists every admitted attempt in creation order under a       *)
(* patient host, through backpressure at any point and through restarts.   *)
THEOREM PatientAttemptsListed == PatientSpec => []AllAttemptsListed
<1>1. ASSUME IInv, HostInv
      PROVE  AllAttemptsListed
  <2>1. /\ attempts \in Seq(TaskAttempt) /\ Len(attempts) \in Nat
        /\ pending \in TaskAttempt \cup {NoStart} /\ nextAttempt \in Nat
    BY <1>1, BoundsAssumption DEF IInv, TypeOK
  <2>2. /\ Len(durable.admissions) = nextAttempt - 1
        /\ \A n \in 1..Len(durable.admissions) : durable.admissions[n].attempt = n
    BY <1>1 DEF IInv, AttemptsAreNumbered
  <2>3. Listing
    BY <1>1 DEF HostInv
  <2>4. CASE pending = NoStart
    <3>1. attempts \o <<>> = attempts
      BY <2>1
    <3>2. QED BY <2>1, <2>2, <2>3, <2>4, <3>1 DEF Listing, AllAttemptsListed
  <2>5. CASE pending # NoStart
    <3>1. PICK z : z = attempts \o <<pending>>
      OBVIOUS
    <3>2. /\ Len(z) = Len(attempts) + 1 /\ z[Len(attempts) + 1] = pending
          /\ \A i \in 1..Len(attempts) : z[i] = attempts[i]
      BY <2>1, <2>5, <3>1
    <3>3. \A i \in 1..Len(z) : z[i].attempt = i
      <4>1. SUFFICES ASSUME NEW i \in 1..Len(z) PROVE z[i].attempt = i
        OBVIOUS
      <4>2. CASE i \in 1..Len(attempts)
        BY <2>3, <3>2, <4>2 DEF Listing
      <4>3. CASE i = Len(attempts) + 1
        BY <2>3, <2>5, <3>2, <4>3 DEF Listing
      <4>4. QED BY <2>1, <3>2, <4>2, <4>3
    <3>4. Len(z) = Len(durable.admissions)
      BY <2>2, <2>3, <2>5, <3>2 DEF Listing
    <3>5. QED BY <2>2, <2>5, <3>1, <3>3, <3>4 DEF AllAttemptsListed
  <2>6. QED BY <2>4, <2>5
<1>2. QED BY <1>1, PatientInvariant, PTL

(* The lifecycle stream is lossless to a patient host: while the process   *)
(* lives, a rejected item leaves its hands, and a held start the runtime,  *)
(* only into the stream.                                                   *)
THEOREM PatientLosesNothing == PatientSpec => RejectedItemsArePublished
<1>1. ASSUME IInv, HostInv, [PatientNext]_vars
      PROVE  [ restarts' = restarts =>
                 \A e \in (returned \cup { Started(a) : a \in {pending} \ {NoStart} }) :
                   \/ e \in ToSet(execution')
                   \/ e \in returned'
                   \/ pending' # NoStart /\ Started(pending') = e ]_vars
  BY <1>1, PatientKeeps DEF Published
<1>2. QED BY <1>1, PatientInvariant, PTL DEF PatientSpec, RejectedItemsArePublished
=============================================================================
