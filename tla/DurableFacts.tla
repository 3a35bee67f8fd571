---------------------------- MODULE DurableFacts ----------------------------
(***************************************************************************)
(* The durable facts of one run (crates/workflow-recovery/src/durable.rs)  *)
(* as a value, and what apply_mutation accepts and does.                   *)
(*                                                                         *)
(* A map whose insertions are guarded by contains_key is the set of its    *)
(* records: that a key occurs once is a property, not a data type.  Where  *)
(* its order is read, admission_history or dispatch_history stands for it. *)
(* task_operations is the projection of intents on (task, operation).      *)
(***************************************************************************)
EXTENDS Integers, Sequences, FiniteSets

CONSTANTS
  Run,           \* run identities
  Task,          \* workflow tasks
  Operation,     \* logical external operations
  Attempt,       \* attempt identities
  Capabilities,  \* lists of capability replay identities
  NoOperation,   \* operation_id: None
  NoAttempt      \* attempt_id: None

ASSUME NothingAssumption == NoOperation \notin Operation /\ NoAttempt \notin Attempt

Semantics    == {"Idempotent", "NonIdempotent"}
KnownOutcome == {"Succeeded", "Failed"}

Admission    == [run : Run, task : Task, attempt : Attempt,
                 operation : Operation \cup {NoOperation}, capabilities : Capabilities]
Intent       == [task : Task, operation : Operation, semantics : Semantics]
Cancellation == [run : Run, task : Task, operation : Operation \cup {NoOperation},
                 attempt : Attempt \cup {NoAttempt}]
Dispatch     == [operation : Operation, attempt : Attempt]
Outcome      == [operation : Operation, attempt : Attempt, outcome : KnownOutcome]

AdmitAttempt(f)       == [kind |-> "AdmitAttempt", fact |-> f]
RecordIntent(f)       == [kind |-> "RecordIntent", fact |-> f]
RecordCancellation(f) == [kind |-> "RecordCancellation", fact |-> f]
RecordDispatch(f)     == [kind |-> "RecordDispatch", fact |-> f]
RecordOutcome(f)      == [kind |-> "RecordOutcome", fact |-> f]

DurableMutation ==
  [kind : {"AdmitAttempt"}, fact : Admission]
    \cup [kind : {"RecordIntent"}, fact : Intent]
    \cup [kind : {"RecordCancellation"}, fact : Cancellation]
    \cup [kind : {"RecordDispatch"}, fact : Dispatch]
    \cup [kind : {"RecordOutcome"}, fact : Outcome]

(* The facts of a run; its revision and idempotency table are DurableStore's. *)
FactSet == [admissions : Seq(Admission), intents : SUBSET Intent,
            cancellations : SUBSET Cancellation, dispatches : Seq(Dispatch),
            outcomes : SUBSET Outcome]

NoFacts == [admissions |-> <<>>, intents |-> {}, cancellations |-> {},
            dispatches |-> <<>>, outcomes |-> {}]

-----------------------------------------------------------------------------
AdmissionSet(s)   == { s.admissions[i] : i \in 1..Len(s.admissions) }
DispatchSet(s)    == { s.dispatches[i] : i \in 1..Len(s.dispatches) }
Admitted(s, a)    == \E f \in AdmissionSet(s) : f.attempt = a
Dispatched(s, a)  == \E d \in DispatchSet(s) : d.attempt = a
Cancelled(s, t)   == \E c \in s.cancellations : c.task = t

(* The mutations whose facts s holds.                                      *)
AllMutations(s) ==
  { AdmitAttempt(f) : f \in AdmissionSet(s) }
    \cup { RecordIntent(f) : f \in s.intents }
    \cup { RecordCancellation(f) : f \in s.cancellations }
    \cup { RecordDispatch(f) : f \in DispatchSet(s) }
    \cup { RecordOutcome(f) : f \in s.outcomes }

AdmitAccepted(s, run, f) ==
  /\ f.run = run
  /\ ~Admitted(s, f.attempt)

IntentAccepted(s, f) ==
  \/ f \in s.intents
  \/ \A i \in s.intents : i.operation # f.operation /\ i.task # f.task

CancellationRepeated(s, run, f) ==
  /\ f.run = run
  /\ f.operation # NoOperation =>
       \E i \in s.intents : i.task = f.task /\ i.operation = f.operation
  /\ f.attempt # NoAttempt =>
       \E a \in AdmissionSet(s) :
         a.attempt = f.attempt /\ a.task = f.task /\ a.operation = f.operation

CancellationAccepted(s, run, f) ==
  /\ f.run = run
  /\ \/ f \in s.cancellations
     \/ /\ ~Cancelled(s, f.task)
        /\ f.operation # NoOperation =>
             \E i \in s.intents : i.task = f.task /\ i.operation = f.operation
        /\ f.attempt # NoAttempt =>
             \E a \in AdmissionSet(s) :
               a.attempt = f.attempt /\ a.task = f.task /\ a.operation = f.operation

DispatchAttemptAgain(s, f) ==
  \E i \in s.intents, a \in AdmissionSet(s) :
    /\ i.operation = f.operation
    /\ a.attempt = f.attempt /\ a.operation = f.operation /\ a.task = i.task
    /\ ~Cancelled(s, a.task)

DispatchCancelled(s, f) ==
  /\ \E i \in s.intents, a \in AdmissionSet(s) :
       /\ i.operation = f.operation
       /\ a.attempt = f.attempt /\ a.operation = f.operation /\ a.task = i.task
  /\ ~Dispatched(s, f.attempt)

DispatchAccepted(s, f) ==
  /\ \E i \in s.intents, a \in AdmissionSet(s) :
       /\ i.operation = f.operation
       /\ a.attempt = f.attempt
       /\ a.operation = f.operation
       /\ i.task = a.task
       /\ ~Cancelled(s, a.task)
  /\ ~Dispatched(s, f.attempt)

OutcomeOverwritten(s, f) ==
  /\ \E a \in AdmissionSet(s) : a.attempt = f.attempt /\ a.operation = f.operation
  /\ \E d \in DispatchSet(s) : d.attempt = f.attempt /\ d.operation = f.operation

OutcomeAccepted(s, f) ==
  /\ \E a \in AdmissionSet(s) : a.attempt = f.attempt /\ a.operation = f.operation
  /\ \E d \in DispatchSet(s) : d.attempt = f.attempt /\ d.operation = f.operation
  /\ \A o \in s.outcomes : o.attempt = f.attempt => o.outcome = f.outcome

MutationAccepted(s, run, m) ==
  \/ m.kind = "AdmitAttempt"       /\ AdmitAccepted(s, run, m.fact)
  \/ m.kind = "RecordIntent"       /\ IntentAccepted(s, m.fact)
  \/ m.kind = "RecordCancellation" /\ CancellationAccepted(s, run, m.fact)
  \/ m.kind = "RecordDispatch"     /\ DispatchAccepted(s, m.fact)
  \/ m.kind = "RecordOutcome"      /\ OutcomeAccepted(s, m.fact)

(* An accepted repetition of an intent, a cancellation or an outcome adds  *)
(* the same record again, which changes nothing.                           *)
ApplyMutation(s, m) ==
  CASE m.kind = "AdmitAttempt"       -> [s EXCEPT !.admissions = Append(@, m.fact)]
    [] m.kind = "RecordIntent"       -> [s EXCEPT !.intents = @ \cup {m.fact}]
    [] m.kind = "RecordCancellation" -> [s EXCEPT !.cancellations = @ \cup {m.fact}]
    [] m.kind = "RecordDispatch"     -> [s EXCEPT !.dispatches = Append(@, m.fact)]
    [] m.kind = "RecordOutcome"      -> [s EXCEPT !.outcomes = @ \cup {m.fact}]

-----------------------------------------------------------------------------
(* The positions of an operation's dispatches in the history.  The latest  *)
(* owns its recovery; the outcome of an older attempt is history.          *)
DispatchesOf(s, o) == { n \in 1..Len(s.dispatches) : s.dispatches[n].operation = o }

LatestDispatch(s, o) ==
  s.dispatches[CHOOSE n \in DispatchesOf(s, o) : \A m \in DispatchesOf(s, o) : m <= n]

HasIntent(s, o) == \E i \in s.intents : i.operation = o

OutcomesOfLatest(s, o) == { r \in s.outcomes : r.attempt = LatestDispatch(s, o).attempt }

EffectState(s, o) ==
  CASE ~HasIntent(s, o) -> "NotPrepared"
    [] HasIntent(s, o) /\ DispatchesOf(s, o) = {} -> "Prepared"
    [] HasIntent(s, o) /\ DispatchesOf(s, o) # {} ->
         IF OutcomesOfLatest(s, o) = {} THEN "OutcomeUnknown"
         ELSE (CHOOSE r \in OutcomesOfLatest(s, o) : TRUE).outcome

-----------------------------------------------------------------------------
(* Identities are used once: an attempt is admitted once and dispatched    *)
(* once, a task owns one operation and an operation one task, an attempt   *)
(* has one outcome and a task one cancellation.                            *)
IdentitiesUsedOnce(s) ==
  /\ \A i, j \in 1..Len(s.admissions) :
       s.admissions[i].attempt = s.admissions[j].attempt => i = j
  /\ \A i, j \in s.intents : i.task = j.task \/ i.operation = j.operation => i = j
  /\ \A i, j \in 1..Len(s.dispatches) :
       s.dispatches[i].attempt = s.dispatches[j].attempt => i = j
  /\ \A o, p \in s.outcomes : o.attempt = p.attempt => o = p
  /\ \A c, d \in s.cancellations : c.task = d.task => c = d

(* A dispatch belongs to an admitted attempt of the operation's own task,  *)
(* an outcome to a dispatch of its operation, and a cancellation names     *)
(* only an operation and an attempt of the cancelled task.                 *)
Lineage(s) ==
  /\ \A d \in DispatchSet(s) :
       \E i \in s.intents, a \in AdmissionSet(s) :
         /\ i.operation = d.operation
         /\ a.attempt = d.attempt
         /\ a.operation = d.operation
         /\ a.task = i.task
  /\ \A o \in s.outcomes :
       \E d \in DispatchSet(s) : d.attempt = o.attempt /\ d.operation = o.operation
  /\ \A c \in s.cancellations :
       /\ c.operation # NoOperation =>
            \E i \in s.intents : i.task = c.task /\ i.operation = c.operation
       /\ c.attempt # NoAttempt =>
            \E a \in AdmissionSet(s) :
              a.attempt = c.attempt /\ a.task = c.task /\ a.operation = c.operation
=============================================================================
