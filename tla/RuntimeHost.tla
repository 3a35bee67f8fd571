---------------------------- MODULE RuntimeHost ----------------------------
(***************************************************************************)
(* Hosts that drive RuntimeCore.  RuntimeCore!Next lets a host call        *)
(* anything at any time.  A patient host, which the tests of runtime-core  *)
(* and graph-lab follow, answers ExecutionBackpressure before it calls     *)
(* anything else: it drains the stream and retries the rejected item.      *)
(***************************************************************************)
EXTENDS RuntimeCore

Answer == DrainExecutionEvents \/ RetryExecutionEvent \/ Restarts

PatientNext ==
  \/ returned = {} /\ Next
  \/ returned # {} /\ Answer

PatientSpec == Init /\ [][PatientNext]_vars

(* A host that keeps stepping, drains, retries, dispatches what step has   *)
(* prepared and sooner or later learns the outcome of the latest dispatch. *)
(* It owes the runtime nothing else: it may also configure, retry, cancel, *)
(* recover, or restart at any moment.                                      *)
StepAgain     == returned = {} /\ Step
Launch(o)     == returned = {} /\ \E n \in Attempt : DispatchAdmitted(o, n)
Conclude(o)   == /\ returned = {}
                 /\ EffectState(journal, o) = "OutcomeUnknown"
                 /\ \E f \in Outcome :
                      /\ f.operation = o
                      /\ f.attempt = LatestDispatch(journal, o).attempt
                      /\ RecordEffectOutcome(f)

FairSpec ==
  /\ PatientSpec
  /\ WF_vars(StepAgain)
  /\ WF_vars(DrainExecutionEvents)
  /\ WF_vars(RetryExecutionEvent)
  /\ \A o \in Operation : WF_vars(Launch(o)) /\ WF_vars(Conclude(o))

-----------------------------------------------------------------------------
(* attempts() returns all attempts in creation order: the ones admitted,   *)
(* except that a start which is still pending comes last.                  *)
AllAttemptsListed ==
  LET listed == attempts \o (IF pending = NoStart THEN <<>> ELSE <<pending>>)
  IN /\ Len(listed) = Len(durable.admissions)
     /\ \A i \in 1..Len(listed) : listed[i].attempt = durable.admissions[i].attempt

(* Lossless: while the process lives, a rejected item leaves the host's    *)
(* hands, and a held start the runtime, only into the stream.              *)
RejectedItemsArePublished ==
  [][ restarts' = restarts =>
        \A e \in (returned \cup { Started(a) : a \in {pending} \ {NoStart} }) :
          \/ e \in ToSet(execution')
          \/ e \in returned'
          \/ pending' # NoStart /\ Started(pending') = e ]_vars

-----------------------------------------------------------------------------
(* MaxAttempts is this model's, not the runtime's.                         *)
AttemptsRemain == nextAttempt <= MaxAttempts

(* No intent takes the operation that another task is configured with.     *)
OperationsUnshared ==
  \A i \in durable.intents, t \in Task :
    config[t].effect # NoEffect /\ config[t].effect.operation = i.operation => t = i.task

Undisturbed ==
  /\ AttemptsRemain
  /\ OperationsUnshared
  /\ cancelled = {}
  /\ \A o \in Operation : EffectState(durable, o) # "Failed"
  /\ \A t \in Task : PinsAvailable([config |-> config, scope |-> scope], t)

(* Without failures, cancellations and missing providers a run under a     *)
(* fair host completes every task, through backpressure, retries,          *)
(* restarts, and providers and configurations that change.                 *)
EveryTaskCompletes ==
  []Undisturbed => <>[](workflow.completed = workflow.tasks)
=============================================================================
