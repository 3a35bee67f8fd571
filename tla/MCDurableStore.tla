--------------------------- MODULE MCDurableStore ---------------------------
(***************************************************************************)
(* DurableStore with two clients and a menu of requests that compete for   *)
(* attempts, tasks, operations and keys.                                   *)
(***************************************************************************)
EXTENDS DurableStore

CONSTANTS r1, r2, t1, t2, o1, o2, a1, a2, c1, c2, none

Admit(t, a, o)  == AdmitAttempt([run |-> r1, task |-> t, attempt |-> a,
                               operation |-> o, capabilities |-> none])
Prepare(t, o)     == RecordIntent([task |-> t, operation |-> o, semantics |-> "Idempotent"])
Cancel(t, o, a)  == RecordCancellation([run |-> r1, task |-> t, operation |-> o, attempt |-> a])
Launch(o, a)     == RecordDispatch([operation |-> o, attempt |-> a])
Report(o, a, x)  == RecordOutcome([operation |-> o, attempt |-> a, outcome |-> x])

Req(k, ms) == [run |-> r1, key |-> k, mutations |-> ms]

(* Commits a runtime makes, the same in other batches, the same key with   *)
(* other mutations, and batches whose last mutation contradicts the rest.  *)
MCRequests ==
  { Req("intent", <<Prepare(t1, o1)>>),
    Req("intent", <<Prepare(t2, o2)>>),
    Req("admit1", <<Admit(t1, a1, o1)>>),
    Req("admit1", <<Admit(t2, a1, NoOperation)>>),
    Req("dispatch1", <<Launch(o1, a1)>>),
    Req("first", <<Prepare(t1, o1), Admit(t1, a1, o1), Launch(o1, a1)>>),
    Req("retry", <<Admit(t1, a2, o1), Launch(o1, a2)>>),
    Req("retry", <<Admit(t1, a2, o1), Launch(o1, a2), Report(o1, a2, "Failed")>>),
    Req("other", <<Prepare(t2, o2), Admit(t2, a2, o2), Launch(o1, a2)>>),
    Req("outcome1", <<Report(o1, a1, "Succeeded")>>),
    Req("late1", <<Report(o1, a1, "Failed")>>),
    Req("outcome2", <<Report(o1, a2, "Succeeded")>>),
    Req("cancel", <<Cancel(t1, o1, a1)>>),
    Req("cancel", <<Cancel(t1, NoOperation, NoAttempt)>>),
    Req("drop", <<Cancel(t2, NoOperation, NoAttempt), Prepare(t2, o1)>>),
    [run |-> r2, key |-> "admit1", mutations |-> <<Admit(t1, a1, o1)>>],
    [run |-> r2, key |-> "intent", mutations |-> <<Prepare(t1, o2)>>] }

MCKeys == { q.key : q \in MCRequests }
=============================================================================
