--------------------------- MODULE EffectProtocol ---------------------------
(***************************************************************************)
(* What the runtime promises the world outside about external operations:  *)
(* each belongs to one task, an attempt of it is dispatched before its     *)
(* outcome is known, a second one only if it is idempotent, none after its *)
(* task was cancelled; and a task is completed on its operation's success. *)
(* There is no process, no store and no restart here, except that          *)
(* completions, which are not durable, may be forgotten.                   *)
(***************************************************************************)
CONSTANTS Task, Operation, Attempt

VARIABLES
  intents,     \* the prepared operations, each with its task and semantics
  dispatched,  \* the attempts that were dispatched, each for an operation
  outcome,     \* what is known of each operation's latest dispatch
  cancelled,   \* the cancelled tasks
  completed    \* the completed tasks

Intent == [task : Task, operation : Operation, semantics : {"Idempotent", "NonIdempotent"}]

Init ==
  /\ intents = {}
  /\ dispatched = {}
  /\ outcome = [o \in Operation |-> "Unknown"]
  /\ cancelled = {}
  /\ completed \subseteq Task

Dispatched(o) == \E d \in dispatched : d.operation = o

Prepare(i) ==
  /\ i.task \notin completed
  /\ \A k \in intents : k.task # i.task /\ k.operation # i.operation
  /\ intents' = intents \cup {i}
  /\ UNCHANGED <<cancelled, completed, dispatched, outcome>>

Dispatch(i, n) ==
  /\ i.task \notin cancelled
  /\ outcome[i.operation] = "Unknown"
  /\ Dispatched(i.operation) => i.semantics = "Idempotent"
  /\ \A d \in dispatched : d.attempt # n
  /\ dispatched' = dispatched \cup {[operation |-> i.operation, attempt |-> n]}
  /\ UNCHANGED <<intents, cancelled, completed, outcome>>

(* The first report on the latest dispatch.  No later one counts, and a    *)
(* report on an earlier dispatch never does.                               *)
Report(i, r) ==
  /\ Dispatched(i.operation)
  /\ outcome[i.operation] = "Unknown"
  /\ outcome' = [outcome EXCEPT ![i.operation] = r]
  /\ UNCHANGED <<intents, cancelled, completed, dispatched>>

Cancel(t) ==
  /\ cancelled' = cancelled \cup {t}
  /\ UNCHANGED <<intents, completed, dispatched, outcome>>

(* A cancelled task is completed only if its operation succeeded before.   *)
Complete(t) ==
  /\ \A i \in intents : i.task = t => outcome[i.operation] = "Succeeded"
  /\ t \notin cancelled \/ \E i \in intents : i.task = t
  /\ completed' = completed \cup {t}
  /\ UNCHANGED <<intents, cancelled, dispatched, outcome>>

Forget ==
  /\ completed' \subseteq completed
  /\ UNCHANGED <<intents, cancelled, dispatched, outcome>>

Next ==
  \/ Forget
  \/ \E t \in Task : Cancel(t) \/ Complete(t)
  \/ \E i \in intents, n \in Attempt : Dispatch(i, n)
  \/ \E i \in intents, r \in {"Succeeded", "Failed"} : Report(i, r)
  \/ \E i \in Intent : Prepare(i)

vars == <<intents, cancelled, completed, dispatched, outcome>>

Spec == Init /\ [][Next]_vars
=============================================================================
