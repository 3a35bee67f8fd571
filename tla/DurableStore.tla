---------------------------- MODULE DurableStore ----------------------------
(***************************************************************************)
(* InMemoryDurableStore: atomic compare-and-swap commits of mutation       *)
(* batches, deduplicated by idempotency key (durable.rs).                  *)
(*                                                                         *)
(* Clients hold a revision they read or were given, which other clients'   *)
(* commits make stale; a reply can be lost, and a client may send the same *)
(* request again at any time.  commit() works on a clone of the run: the   *)
(* clone, the request and the number of mutations applied are variables,   *)
(* so that a batch that fails half-way is visible.  &mut self excludes     *)
(* every other call while a commit is in progress.                         *)
(***************************************************************************)
EXTENDS DurableFacts

CONSTANTS
  Client,       \* callers of the store
  Key,          \* idempotency keys
  Requests,     \* what clients may submit: [run, key, mutations]
  MaxRevision,  \* the last representable StoreRevision (u64::MAX in the code)
  NoRequest     \* no commit in progress

ASSUME RequestsAssumption ==
  Requests \subseteq [run : Run, key : Key, mutations : Seq(DurableMutation)]
ASSUME RevisionAssumption == MaxRevision \in Nat

VARIABLES
  created,      \* runs that exist
  facts,        \* facts of each run
  revision,     \* revision of each run
  idempotency,  \* idempotency table of each run: {[key, mutations, revision]}
  seen,         \* the revision each client would pass as expected_revision
  pending,      \* the commit in progress
  candidate,    \* its clone of the run's facts
  applied       \* how many of its mutations the clone has taken

store == <<created, facts, revision, idempotency>>
call  == <<pending, candidate, applied>>
vars  == <<store, seen, call>>

Idle == pending = NoRequest

Init ==
  /\ created = {}
  /\ facts = [r \in Run |-> NoFacts]
  /\ revision = [r \in Run |-> 0]
  /\ idempotency = [r \in Run |-> {}]
  /\ seen = [c \in Client |-> [r \in Run |-> 0]]
  /\ pending = NoRequest
  /\ candidate = NoFacts
  /\ applied = 0

Learn(c, r) == seen' = [seen EXCEPT ![c][r] = revision'[r]]

(* A reply with the run's revision reaches the client or is lost.          *)
Reply(c, r) == Learn(c, r) \/ UNCHANGED seen

CreateRun(c, r) ==
  /\ Idle
  /\ r \notin created
  /\ created' = created \cup {r}
  /\ UNCHANGED <<facts, revision, idempotency, call>>
  /\ Reply(c, r)

LoadRun(c, r) ==
  /\ Idle
  /\ r \in created
  /\ UNCHANGED <<store, call>>
  /\ Learn(c, r)

Replayed(q) == \E e \in idempotency[q.run] : e.key = q.key /\ e.mutations = q.mutations
KeyUsed(q)  == \E e \in idempotency[q.run] : e.key = q.key

ExpectedAtMost(c, r) == seen[c][r] <= revision[r]

(* StoreRevision::checked_next and the compare of compare-and-swap.        *)
RevisionAvailable(r) == revision[r] < MaxRevision
Expected(c, r)       == seen[c][r] = revision[r]

(* The key is known with the same mutations: nothing changes, and the      *)
(* reply carries the current revision.                                     *)
ReplayCommit(c, q) ==
  /\ Idle
  /\ q.mutations # <<>>
  /\ q.run \in created
  /\ Replayed(q)
  /\ UNCHANGED <<store, call>>
  /\ Reply(c, q.run)

(* The checks before the clone: key, expected revision, next revision.     *)
BeginCommit(c, q) ==
  /\ Idle
  /\ q.mutations # <<>>
  /\ q.run \in created
  /\ ~KeyUsed(q)
  /\ Expected(c, q.run)
  /\ RevisionAvailable(q.run)
  /\ pending' = [client |-> c, request |-> q]
  /\ candidate' = facts[q.run]
  /\ applied' = 0
  /\ UNCHANGED <<store, seen>>

NextMutation == pending.request.mutations[applied + 1]

Unfinished == ~Idle /\ applied < Len(pending.request.mutations)

ApplyNext ==
  /\ Unfinished
  /\ MutationAccepted(candidate, pending.request.run, NextMutation)
  /\ candidate' = ApplyMutation(candidate, NextMutation)
  /\ applied' = applied + 1
  /\ UNCHANGED <<store, seen, pending>>

EndCall ==
  /\ pending' = NoRequest
  /\ candidate' = NoFacts
  /\ applied' = 0

RefuseCommitInPlace ==
  /\ Unfinished
  /\ ~MutationAccepted(candidate, pending.request.run, NextMutation)
  /\ EndCall
  /\ facts' = [facts EXCEPT ![pending.request.run] = candidate]
  /\ UNCHANGED <<created, revision, idempotency, seen>>

(* A mutation is refused: the clone is dropped and the error returned.     *)
RefuseCommit ==
  /\ Unfinished
  /\ ~MutationAccepted(candidate, pending.request.run, NextMutation)
  /\ EndCall
  /\ UNCHANGED <<store, seen>>

(* The clone replaces the run.                                             *)
InstallCommit ==
  /\ ~Idle
  /\ applied = Len(pending.request.mutations)
  /\ LET q == pending.request
         n == revision[q.run] + 1
     IN /\ facts' = [facts EXCEPT ![q.run] = candidate]
        /\ revision' = [revision EXCEPT ![q.run] = n]
        /\ idempotency' = [idempotency EXCEPT ![q.run] = @ \cup
             {[key |-> q.key, mutations |-> q.mutations, revision |-> n]}]
        /\ Reply(pending.client, q.run)
  /\ EndCall
  /\ UNCHANGED created

Next ==
  \/ \E c \in Client, r \in Run : CreateRun(c, r) \/ LoadRun(c, r)
  \/ \E c \in Client, q \in Requests : ReplayCommit(c, q) \/ BeginCommit(c, q)
  \/ ApplyNext
  \/ RefuseCommit
  \/ InstallCommit

Spec == Init /\ [][Next]_vars

-----------------------------------------------------------------------------
Request == [run : Run, key : Key, mutations : Seq(DurableMutation)]
Commit  == [key : Key, mutations : Seq(DurableMutation), revision : Nat]

(* Type invariant of the store, its clients and the commit in progress.    *)
TypeOK ==
  /\ created \subseteq Run
  /\ facts \in [Run -> FactSet]
  /\ revision \in [Run -> 0..MaxRevision]
  /\ idempotency \in [Run -> SUBSET Commit]
  /\ seen \in [Client -> [Run -> Nat]]
  /\ pending \in [client : Client, request : Requests] \cup {NoRequest}
  /\ candidate \in FactSet
  /\ applied \in Nat

(* Whatever batches stale, retrying and conflicting clients submit, in     *)
(* whatever order, the durable facts of a run stay a history recovery can  *)
(* rely on: every attempt traceable to its task, no identity used twice.   *)
FactsAreConsistent ==
  \A r \in Run : IdentitiesUsedOnce(facts[r]) /\ Lineage(facts[r])

FirstMutations(ms, n) == { ms[i] : i \in 1..n }

CommittedMutations(r) ==
  UNION { FirstMutations(e.mutations, Len(e.mutations)) : e \in idempotency[r] }

(* A run's facts are the mutations of its recorded commits: a batch that   *)
(* failed half-way left nothing, and a recorded one is there to its end.   *)
FactsAreCommits ==
  \A r \in Run : AllMutations(facts[r]) = CommittedMutations(r)

(* The idempotency table numbers the commits 1..revision, one key each, so *)
(* that no retry is applied a second time and no revision is skipped.      *)
CommitsAreNumbered ==
  \A r \in Run :
    /\ { e.revision : e \in idempotency[r] } = 1..revision[r]
    /\ \A e, f \in idempotency[r] :
         e.key = f.key \/ e.revision = f.revision => e = f

(* Once a task is cancelled no step dispatches its operation any more, not *)
(* even for an attempt admitted before, and no later step withdraws the    *)
(* cancellation.                                                           *)
CancellationStopsDispatch ==
  [][ \A r \in Run : \A c \in facts[r].cancellations :
        /\ c \in facts'[r].cancellations
        /\ \A i \in facts[r].intents : i.task = c.task =>
             DispatchesOf(facts'[r], i.operation) = DispatchesOf(facts[r], i.operation)
    ]_vars

(* A known outcome of the latest dispatch is final until a newer dispatch: *)
(* no late outcome of an older attempt, retry or conflicting report can    *)
(* change the state recovery derives.                                      *)
KnownOutcomeIsFinal ==
  [][ \A r \in Run, o \in Operation :
        /\ EffectState(facts[r], o) \in KnownOutcome
        /\ DispatchesOf(facts'[r], o) = DispatchesOf(facts[r], o)
        => EffectState(facts'[r], o) = EffectState(facts[r], o) ]_vars

-----------------------------------------------------------------------------
CommitOf(r, n) == CHOOSE e \in idempotency[r] : e.revision = n

(* The log a run's idempotency table records.                              *)
LoggedCommits ==
  [r \in Run |-> [n \in 1..revision[r] |->
     [key |-> CommitOf(r, n).key, mutations |-> CommitOf(r, n).mutations]]]

Abstract == INSTANCE CommitLog WITH log <- LoggedCommits

(* The store implements the commit log: each call is one Append, one Sync  *)
(* or nothing to an observer, retries and refused batches included.        *)
ImplementsCommitLog == Abstract!Spec
=============================================================================
