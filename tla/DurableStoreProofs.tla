------------------------ MODULE DurableStoreProofs -------------------------
(***************************************************************************)
(* Proofs about DurableStore, for every set of clients, runs, keys and     *)
(* requests and for batches of every length.                               *)
(***************************************************************************)
EXTENDS DurableStore, DurableFactsProofs, SequenceTheorems

(* The commit in progress: its key is new, its client named the current    *)
(* revision, and its clone is consistent and holds the run's facts and the *)
(* mutations applied so far, nothing else; it follows the run's facts.     *)
CallOK ==
  ~Idle =>
    LET q == pending.request
    IN /\ q.mutations # <<>>
       /\ applied <= Len(q.mutations)
       /\ ~KeyUsed(q)
       /\ revision[q.run] < MaxRevision
       /\ seen[pending.client][q.run] = revision[q.run]
       /\ IdentitiesUsedOnce(candidate)
       /\ Lineage(candidate)
       /\ AllMutations(candidate) =
            AllMutations(facts[q.run]) \cup FirstMutations(q.mutations, applied)
       /\ Follows(facts[q.run], candidate)

(* FactsAreConsistent is not inductive without CallOK: what InstallCommit  *)
(* makes durable is the clone.                                             *)
IInv ==
  /\ TypeOK
  /\ FactsAreConsistent
  /\ FactsAreCommits
  /\ CommitsAreNumbered
  /\ CallOK

LEMMA RequestForm ==
  ASSUME NEW q \in Requests
  PROVE  /\ q.run \in Run /\ q.key \in Key
         /\ q.mutations \in Seq(DurableMutation)
         /\ Len(q.mutations) \in Nat
         /\ \A i \in 1..Len(q.mutations) : q.mutations[i] \in DurableMutation
<1>1. q \in [run : Run, key : Key, mutations : Seq(DurableMutation)]
  BY RequestsAssumption
<1>2. QED BY <1>1

LEMMA NoFactsForm ==
  /\ NoFacts \in FactSet
  /\ AllMutations(NoFacts) = {}
  /\ IdentitiesUsedOnce(NoFacts)
  /\ Lineage(NoFacts)
<1>1. DispatchSet(NoFacts) = {} /\ AdmissionSet(NoFacts) = {}
  BY DEF DispatchSet, AdmissionSet, NoFacts
<1>2. NoFacts \in FactSet
  BY DEF NoFacts, FactSet
<1>3. AllMutations(NoFacts) = {}
  BY <1>1 DEF AllMutations, NoFacts
<1>4. IdentitiesUsedOnce(NoFacts) /\ Lineage(NoFacts)
  BY <1>1 DEF NoFacts, IdentitiesUsedOnce, Lineage
<1>5. QED BY <1>2, <1>3, <1>4

LEMMA InitIInv == Init => IInv
<1> SUFFICES ASSUME Init PROVE IInv
  OBVIOUS
<1>1. TypeOK
  BY NoFactsForm, RevisionAssumption DEF Init, TypeOK
<1>2. FactsAreConsistent
  BY NoFactsForm DEF Init, FactsAreConsistent
<1>3. FactsAreCommits
  BY NoFactsForm DEF Init, FactsAreCommits, CommittedMutations
<1>4. CommitsAreNumbered
  BY DEF Init, CommitsAreNumbered
<1>5. CallOK
  BY DEF Init, CallOK, Idle
<1>6. QED BY <1>1, <1>2, <1>3, <1>4, <1>5 DEF IInv

(* A client learns a revision that exists.                                 *)
LEMMA SeenType ==
  ASSUME TypeOK, NEW c \in Client, NEW r \in Run,
         revision' \in [Run -> 0..MaxRevision], Reply(c, r)
  PROVE  seen' \in [Client -> [Run -> Nat]]
<1>1. revision'[r] \in Nat
  BY RevisionAssumption DEF TypeOK
<1>2. [seen EXCEPT ![c][r] = revision'[r]] \in [Client -> [Run -> Nat]]
  BY <1>1 DEF TypeOK
<1>3. QED BY <1>2 DEF TypeOK, Reply, Learn

(* Steps between commits that leave the facts alone keep the invariant.    *)
LEMMA QuietStep ==
  ASSUME IInv, Idle, created' \subseteq Run,
         UNCHANGED <<facts, revision, idempotency, call>>,
         seen' \in [Client -> [Run -> Nat]]
  PROVE  IInv'
<1> USE DEF IInv, call
<1>1. TypeOK'
  BY DEF TypeOK
<1>2. FactsAreConsistent' /\ FactsAreCommits' /\ CommitsAreNumbered'
  BY DEF FactsAreConsistent, FactsAreCommits, CommittedMutations, CommitsAreNumbered
<1>3. CallOK'
  BY DEF CallOK, Idle
<1>4. QED BY <1>1, <1>2, <1>3

LEMMA BeginStep ==
  ASSUME IInv, NEW c \in Client, NEW q \in Requests, BeginCommit(c, q)
  PROVE  IInv'
<1> USE DEF IInv, BeginCommit, store
<1>1. TypeOK'
  BY RequestForm DEF TypeOK
<1>2. FactsAreConsistent' /\ FactsAreCommits' /\ CommitsAreNumbered'
  BY DEF FactsAreConsistent, FactsAreCommits, CommittedMutations, CommitsAreNumbered
<1>3. pending'.request = q /\ pending'.client = c /\ candidate' = facts[q.run] /\ applied' = 0
  OBVIOUS
<1>4. FirstMutations(q.mutations, 0) = {}
  BY DEF FirstMutations
<1>5. CallOK'
  BY <1>3, <1>4, RequestForm, FollowsItself DEF CallOK, KeyUsed, Expected, RevisionAvailable,
                                  FactsAreConsistent
<1>6. QED BY <1>1, <1>2, <1>5

LEMMA ApplyStep ==
  ASSUME IInv, ApplyNext
  PROVE  IInv'
<1> DEFINE q == pending.request
           m == NextMutation
<1>1. ~Idle /\ pending \in [client : Client, request : Requests] /\ q \in Requests
  BY DEF IInv, TypeOK, ApplyNext, Unfinished, Idle
<1>2. /\ applied \in Nat /\ applied < Len(q.mutations) /\ applied + 1 <= Len(q.mutations)
      /\ m \in DurableMutation
      /\ m = q.mutations[applied + 1]
  BY <1>1, RequestForm DEF IInv, TypeOK, ApplyNext, Unfinished, NextMutation
<1>3. /\ MutationAccepted(candidate, q.run, m)
      /\ candidate' = ApplyMutation(candidate, m)
      /\ applied' = applied + 1
      /\ UNCHANGED <<created, facts, revision, idempotency, seen, pending>>
  BY DEF ApplyNext, store
<1>4. candidate \in FactSet /\ candidate' \in FactSet
  BY <1>2, <1>3, ApplyType DEF IInv, TypeOK
<1>5. TypeOK'
  BY <1>2, <1>3, <1>4 DEF IInv, TypeOK
<1>6. FactsAreConsistent' /\ FactsAreCommits' /\ CommitsAreNumbered'
  BY <1>3 DEF IInv, FactsAreConsistent, FactsAreCommits, CommittedMutations,
              CommitsAreNumbered
<1>7. IdentitiesUsedOnce(candidate') /\ Lineage(candidate')
  BY <1>1, <1>2, <1>3, <1>4, RequestForm, ApplyKeepsConsistency DEF IInv, CallOK
<1>8. AllMutations(candidate') = AllMutations(candidate) \cup {m}
  BY <1>2, <1>3, <1>4, ApplyAdds
<1>9. FirstMutations(q.mutations, applied + 1) = FirstMutations(q.mutations, applied) \cup {m}
  <2>1. 1..(applied + 1) = 1..applied \cup {applied + 1}
    BY <1>2
  <2>2. QED BY <1>2, <2>1 DEF FirstMutations
<1>10. Follows(candidate, candidate')
  <2>1. FactsOK(candidate)
    BY <1>1, <1>4 DEF IInv, CallOK, FactsOK
  <2>2. QED BY <1>1, <1>2, <1>3, <2>1, RequestForm, AppliedFollows
<1>11. Follows(facts[q.run], candidate')
  BY <1>1, <1>10, FollowsOn DEF IInv, CallOK
<1>12. CallOK'
  BY <1>1, <1>2, <1>3, <1>7, <1>8, <1>9, <1>11 DEF IInv, CallOK, KeyUsed, Idle
<1>13. QED BY <1>5, <1>6, <1>12 DEF IInv

LEMMA RefuseStep ==
  ASSUME IInv, RefuseCommit
  PROVE  IInv'
<1> USE DEF IInv, RefuseCommit, EndCall, store
<1>1. TypeOK'
  BY NoFactsForm DEF TypeOK
<1>2. FactsAreConsistent' /\ FactsAreCommits' /\ CommitsAreNumbered'
  BY DEF FactsAreConsistent, FactsAreCommits, CommittedMutations, CommitsAreNumbered
<1>3. CallOK'
  BY DEF CallOK, Idle
<1>4. QED BY <1>1, <1>2, <1>3

(* What InstallCommit does to the run of its request.                      *)
LEMMA InstallForm ==
  ASSUME IInv, InstallCommit, NEW q, q = pending.request,
         NEW n, n = revision[q.run] + 1,
         NEW e, e = [key |-> q.key, mutations |-> q.mutations, revision |-> n]
  PROVE  /\ q \in Requests /\ q.run \in Run /\ pending.client \in Client
         /\ e \in Commit /\ n \in 1..MaxRevision
         /\ \A f \in idempotency[q.run] : f.key # e.key /\ f.revision # n
         /\ revision' = [revision EXCEPT ![q.run] = n]
         /\ facts' = [facts EXCEPT ![q.run] = candidate]
         /\ idempotency' = [idempotency EXCEPT ![q.run] = @ \cup {e}]
<1>1. ~Idle /\ pending \in [client : Client, request : Requests]
  BY DEF IInv, TypeOK, InstallCommit, Idle
<1>2. q \in Requests /\ q.run \in Run /\ pending.client \in Client
  BY <1>1, RequestForm
<1>3. revision[q.run] \in 0..MaxRevision /\ revision[q.run] < MaxRevision
  BY <1>1, <1>2 DEF IInv, TypeOK, CallOK
<1>4. n \in 1..MaxRevision /\ n \in Nat
  BY <1>3, RevisionAssumption
<1>5. e \in Commit
  BY <1>2, <1>4, RequestForm DEF Commit
<1>6. \A f \in idempotency[q.run] : f.key # e.key
  BY <1>1 DEF IInv, CallOK, KeyUsed
<1>7. \A f \in idempotency[q.run] : f.revision # n
  <2>1. \A f \in idempotency[q.run] : f.revision \in 1..revision[q.run]
    BY <1>2 DEF IInv, CommitsAreNumbered
  <2>2. QED BY <1>3, <2>1
<1>8. QED BY <1>2, <1>4, <1>5, <1>6, <1>7 DEF InstallCommit

LEMMA InstallStep ==
  ASSUME IInv, InstallCommit
  PROVE  IInv'
<1>0. PICK q, r, n, e :
        /\ q = pending.request
        /\ r = q.run
        /\ n = revision[r] + 1
        /\ e = [key |-> q.key, mutations |-> q.mutations, revision |-> n]
  OBVIOUS
<1>1. /\ q \in Requests /\ r \in Run /\ pending.client \in Client
      /\ e \in Commit /\ n \in 1..MaxRevision
      /\ \A f \in idempotency[r] : f.key # e.key /\ f.revision # n
      /\ revision' = [revision EXCEPT ![r] = n]
      /\ facts' = [facts EXCEPT ![r] = candidate]
      /\ idempotency' = [idempotency EXCEPT ![r] = @ \cup {e}]
  BY <1>0, InstallForm
<1>2. /\ ~Idle /\ applied = Len(q.mutations) /\ created' = created
      /\ pending' = NoRequest /\ candidate' = NoFacts /\ applied' = 0
      /\ Reply(pending.client, r)
  BY <1>0 DEF InstallCommit, EndCall
<1>3. e.key = q.key /\ e.mutations = q.mutations /\ e.revision = n
  BY <1>0
<1>4. revision' \in [Run -> 0..MaxRevision]
  BY <1>1 DEF IInv, TypeOK
<1>5. seen' \in [Client -> [Run -> Nat]]
  BY <1>1, <1>2, <1>4, SeenType DEF IInv
<1>6. TypeOK'
  BY <1>1, <1>2, <1>4, <1>5, NoFactsForm DEF IInv, TypeOK
<1>7. FactsAreConsistent'
  <2>1. IdentitiesUsedOnce(candidate) /\ Lineage(candidate)
    BY <1>2 DEF IInv, CallOK
  <2>2. facts'[r] = candidate /\ \A x \in Run : x # r => facts'[x] = facts[x]
    BY <1>1 DEF IInv, TypeOK
  <2>3. QED BY <2>1, <2>2 DEF IInv, FactsAreConsistent
<1>8. FactsAreCommits'
  <2>1. CommittedMutations(r)' =
          CommittedMutations(r) \cup FirstMutations(q.mutations, Len(q.mutations))
    <3>1. idempotency'[r] = idempotency[r] \cup {e}
      BY <1>1 DEF IInv, TypeOK
    <3>2. CommittedMutations(r)' =
            UNION { FirstMutations(f.mutations, Len(f.mutations)) : f \in idempotency[r] \cup {e} }
      BY <3>1 DEF CommittedMutations
    <3>3. CommittedMutations(r)' =
            CommittedMutations(r) \cup FirstMutations(e.mutations, Len(e.mutations))
      BY <3>2, Zenon DEF CommittedMutations
    <3>4. QED BY <1>3, <3>3
  <2>2. AllMutations(candidate) =
          AllMutations(facts[r]) \cup FirstMutations(q.mutations, Len(q.mutations))
    BY <1>0, <1>2 DEF IInv, CallOK
  <2>3. \A x \in Run : x # r => /\ CommittedMutations(x)' = CommittedMutations(x)
                                /\ facts'[x] = facts[x]
    BY <1>1 DEF CommittedMutations, IInv, TypeOK
  <2>4. facts'[r] = candidate
    BY <1>1 DEF IInv, TypeOK
  <2>5. AllMutations(candidate) = CommittedMutations(r)'
    BY <1>1, <2>1, <2>2 DEF IInv, FactsAreCommits
  <2>6. ASSUME NEW x \in Run
        PROVE  AllMutations(facts'[x]) = CommittedMutations(x)'
    <3>1. CASE x = r
      BY <2>4, <2>5, <3>1, Zenon
    <3>2. CASE x # r
      BY <2>3, <3>2 DEF IInv, FactsAreCommits
    <3>3. QED BY <3>1, <3>2
  <2>7. QED BY <2>6 DEF FactsAreCommits
<1>9. CommitsAreNumbered'
  <2>1. SUFFICES ASSUME NEW x \in Run
                 PROVE  /\ { f.revision : f \in idempotency'[x] } = 1..revision'[x]
                        /\ \A f, g \in idempotency'[x] :
                             f.key = g.key \/ f.revision = g.revision => f = g
    BY DEF CommitsAreNumbered
  <2>2. CASE x # r
    BY <1>1, <2>2 DEF IInv, TypeOK, CommitsAreNumbered
  <2>3. CASE x = r
    <3>1. idempotency'[x] = idempotency[x] \cup {e} /\ revision'[x] = n
      BY <1>1, <2>3 DEF IInv, TypeOK
    <3>2. n = revision[x] + 1 /\ revision[x] \in Nat
      BY <2>3, <1>0, RevisionAssumption DEF IInv, TypeOK
    <3>3. { f.revision : f \in idempotency[x] } = 1..revision[x]
      BY DEF IInv, CommitsAreNumbered
    <3>4. 1..n = 1..revision[x] \cup {n}
      BY <3>2
    <3>5. { f.revision : f \in idempotency'[x] } = 1..n
      BY <1>3, <3>1, <3>3, <3>4
    <3>6. \A f, g \in idempotency'[x] : f.key = g.key \/ f.revision = g.revision => f = g
      BY <1>1, <1>3, <2>3, <3>1 DEF IInv, CommitsAreNumbered
    <3>7. QED BY <3>1, <3>5, <3>6
  <2>4. QED BY <2>2, <2>3
<1>10. CallOK'
  BY <1>2 DEF CallOK, Idle
<1>11. QED BY <1>6, <1>7, <1>8, <1>9, <1>10 DEF IInv

LEMMA StutterStep ==
  ASSUME IInv, UNCHANGED vars
  PROVE  IInv'
BY DEF IInv, vars, store, call, TypeOK, FactsAreConsistent, FactsAreCommits,
       CommittedMutations, CommitsAreNumbered, CallOK, Idle, KeyUsed

(* Every reachable state of the store satisfies the inductive invariant.   *)
THEOREM StoreInvariant == Spec => []IInv
<1>1. IInv /\ [Next]_vars => IInv'
  <2> SUFFICES ASSUME IInv, [Next]_vars PROVE IInv'
    OBVIOUS
  <2>1. ASSUME NEW c \in Client, NEW r \in Run, CreateRun(c, r)
        PROVE  IInv'
    BY <2>1, SeenType, QuietStep DEF CreateRun, IInv, TypeOK
  <2>2. ASSUME NEW c \in Client, NEW r \in Run, LoadRun(c, r)
        PROVE  IInv'
    BY <2>2, SeenType, QuietStep DEF LoadRun, IInv, TypeOK, store, Reply
  <2>3. ASSUME NEW c \in Client, NEW q \in Requests, ReplayCommit(c, q)
        PROVE  IInv'
    BY <2>3, RequestForm, SeenType, QuietStep DEF ReplayCommit, IInv, TypeOK, store
  <2>4. QED BY <2>1, <2>2, <2>3, BeginStep, ApplyStep, RefuseStep, InstallStep,
               StutterStep DEF Next
<1>2. QED BY InitIInv, <1>1, PTL DEF Spec

(* The variables keep their types.                                         *)
THEOREM TypeCorrect == Spec => []TypeOK
BY StoreInvariant, PTL DEF IInv

(* Every run's facts stay a history recovery can rely on: identities used  *)
(* once, every dispatch, outcome and cancellation with its lineage.        *)
THEOREM FactsStayConsistent == Spec => []FactsAreConsistent
BY StoreInvariant, PTL DEF IInv

(* Commits are all or nothing.                                             *)
THEOREM CommitsAreAtomic == Spec => []FactsAreCommits
BY StoreInvariant, PTL DEF IInv

(* Every revision is one commit and every key is committed at most once.   *)
THEOREM CommitsStayNumbered == Spec => []CommitsAreNumbered
BY StoreInvariant, PTL DEF IInv

-----------------------------------------------------------------------------
(* The facts a step leaves a run with follow those it found: only          *)
(* InstallCommit changes facts, and its clone was built mutation by        *)
(* accepted mutation.                                                      *)
LEMMA StepFollows ==
  ASSUME IInv, [Next]_vars, NEW r \in Run
  PROVE  Follows(facts[r], facts'[r])
<1>1. ASSUME facts' = facts
      PROVE  Follows(facts[r], facts'[r])
  BY <1>1, FollowsItself
<1>2. ASSUME InstallCommit
      PROVE  Follows(facts[r], facts'[r])
  <2>1. Follows(facts[pending.request.run], candidate)
    BY <1>2 DEF IInv, CallOK, InstallCommit
  <2>2. facts'[r] = IF r = pending.request.run THEN candidate ELSE facts[r]
    BY <1>2 DEF InstallCommit, IInv, TypeOK
  <2>3. CASE r = pending.request.run
    BY <2>1, <2>2, <2>3
  <2>4. CASE r # pending.request.run
    BY <2>2, <2>4, FollowsItself
  <2>5. QED BY <2>3, <2>4
<1>3. facts' = facts \/ InstallCommit
  BY DEF Next, vars, store, CreateRun, LoadRun, ReplayCommit, BeginCommit, ApplyNext,
         RefuseCommit
<1>4. QED BY <1>1, <1>2, <1>3

(* Once a task is cancelled its operation is dispatched no more, whatever  *)
(* was admitted before and whoever retries, and no commit of any client    *)
(* withdraws the cancellation (the check of RecordDispatch).               *)
THEOREM CancelledStaysUndispatched == Spec => CancellationStopsDispatch
<1> DEFINE Stops ==
      \A r \in Run : \A c \in facts[r].cancellations :
        /\ c \in facts'[r].cancellations
        /\ \A i \in facts[r].intents : i.task = c.task =>
             DispatchesOf(facts'[r], i.operation) = DispatchesOf(facts[r], i.operation)
<1>1. IInv /\ [Next]_vars => Stops
  BY StepFollows DEF Follows
<1>2. QED BY <1>1, StoreInvariant, PTL DEF Spec, CancellationStopsDispatch

(* The outcome of the latest dispatch, once known, is what every later     *)
(* recovery derives until a newer dispatch: late outcomes of older         *)
(* attempts and conflicting reports change nothing.                        *)
THEOREM KnownOutcomeStays == Spec => KnownOutcomeIsFinal
<1> DEFINE Final ==
      \A r \in Run, o \in Operation :
        /\ EffectState(facts[r], o) \in KnownOutcome
        /\ DispatchesOf(facts'[r], o) = DispatchesOf(facts[r], o)
        => EffectState(facts'[r], o) = EffectState(facts[r], o)
<1>1. IInv /\ [Next]_vars => Final
  BY StepFollows DEF Follows
<1>2. QED BY <1>1, StoreInvariant, PTL DEF Spec, KnownOutcomeIsFinal

-----------------------------------------------------------------------------
(* CommitsAreNumbered makes the commit of each number unique, so that the  *)
(* table of a run reads as a sequence.                                     *)
LogEntry == [key : Key, mutations : Seq(DurableMutation)]

TableIsLog(r) ==
  /\ revision[r] \in Nat
  /\ \A n \in 1..revision[r] : CommitOf(r, n) \in idempotency[r] /\ CommitOf(r, n).revision = n
  /\ \A e \in idempotency[r] : CommitOf(r, e.revision) = e /\ e.revision \in 1..revision[r]
  /\ LoggedCommits[r] \in Seq(LogEntry)
  /\ Len(LoggedCommits[r]) = revision[r]
  /\ \A n \in 1..revision[r] :
       LoggedCommits[r][n] = [key |-> CommitOf(r, n).key,
                              mutations |-> CommitOf(r, n).mutations]

LEMMA TablesAreLogs == IInv => \A r \in Run : TableIsLog(r)
<1> SUFFICES ASSUME IInv, NEW r \in Run PROVE TableIsLog(r)
  OBVIOUS
<1> DEFINE L == [n \in 1..revision[r] |-> [key |-> CommitOf(r, n).key,
                                           mutations |-> CommitOf(r, n).mutations]]
<1>1. revision[r] \in Nat
  BY RevisionAssumption DEF IInv, TypeOK
<1>2. { e.revision : e \in idempotency[r] } = 1..revision[r]
  BY DEF IInv, CommitsAreNumbered
<1>3. \A n \in 1..revision[r] : CommitOf(r, n) \in idempotency[r] /\ CommitOf(r, n).revision = n
  BY <1>2 DEF CommitOf
<1>4. \A e \in idempotency[r] : e.revision \in 1..revision[r]
  BY <1>2
<1>5. \A e \in idempotency[r] : CommitOf(r, e.revision) = e
  BY <1>3, <1>4 DEF IInv, CommitsAreNumbered
<1>6. idempotency[r] \subseteq Commit
  BY DEF IInv, TypeOK
<1>7. LoggedCommits[r] = L
  BY DEF LoggedCommits
<1>8. L \in [1..revision[r] -> LogEntry]
  BY <1>3, <1>6 DEF Commit, LogEntry
<1>9. L \in Seq(LogEntry) /\ Len(L) = revision[r]
  <2> HIDE DEF L
  <2>1. L \in Seq(LogEntry)
    BY <1>1, <1>8, SeqDef, Zenon
  <2>2. DOMAIN L = 1..revision[r] /\ DOMAIN L = 1..Len(L) /\ Len(L) \in Nat
    BY <1>8, <2>1, LenProperties
  <2>3. QED BY <1>1, <2>1, <2>2
<1>10. QED BY <1>1, <1>3, <1>4, <1>5, <1>7, <1>9 DEF TableIsLog

LEMMA TablesAreLogsNext == IInv' => (\A r \in Run : TableIsLog(r))'
BY TablesAreLogs, PTL

(* The log does not move when the table and its revisions do not.          *)
LEMMA SameLog ==
  ASSUME UNCHANGED <<revision, idempotency>>
  PROVE  LoggedCommits' = LoggedCommits
BY DEF LoggedCommits, CommitOf

(* A client told a run's revision is told the length of its log.           *)
LEMMA ReplyIsSync ==
  ASSUME IInv, NEW c \in Client, NEW r \in Run,
         UNCHANGED <<revision, idempotency>>, Reply(c, r)
  PROVE  [Abstract!Next]_(Abstract!vars)
<1>1. LoggedCommits' = LoggedCommits /\ Len(LoggedCommits[r]) = revision[r]
  BY SameLog, TablesAreLogs DEF TableIsLog
<1>2. CASE seen' = seen
  BY <1>1, <1>2 DEF Abstract!vars
<1>3. CASE Learn(c, r)
  <2>1. Abstract!Sync(c, r)
    BY <1>1, <1>3 DEF Learn, Abstract!Sync
  <2>2. QED BY <2>1 DEF Abstract!Next
<1>4. QED BY <1>2, <1>3 DEF Reply

(* InstallCommit puts the commit at the end of the log.                    *)
LEMMA InstallLog ==
  ASSUME IInv, InstallCommit, NEW q, q = pending.request
  PROVE  LoggedCommits' = [LoggedCommits EXCEPT ![q.run] =
               Append(@, [key |-> q.key, mutations |-> q.mutations])]
<1>0. PICK r, n, e :
        /\ r = q.run
        /\ n = revision[r] + 1
        /\ e = [key |-> q.key, mutations |-> q.mutations, revision |-> n]
  OBVIOUS
<1>1. /\ q \in Requests /\ r \in Run /\ e \in Commit
      /\ revision' = [revision EXCEPT ![r] = n]
      /\ idempotency' = [idempotency EXCEPT ![r] = @ \cup {e}]
  BY <1>0, InstallForm
<1>2. e.key = q.key /\ e.mutations = q.mutations /\ e.revision = n
  BY <1>0
<1>3. TableIsLog(r) /\ TableIsLog(r)'
  BY <1>1, TablesAreLogs, TablesAreLogsNext, InstallStep
<1>4. /\ revision[r] \in Nat /\ n = revision[r] + 1 /\ revision'[r] = n
      /\ idempotency'[r] = idempotency[r] \cup {e}
  BY <1>0, <1>1, <1>3 DEF IInv, TypeOK, TableIsLog
<1> DEFINE a == [key |-> q.key, mutations |-> q.mutations]
           old == LoggedCommits[r]
           new == LoggedCommits'[r]
<1>5. a \in LogEntry
  BY <1>1, RequestForm DEF LogEntry
<1>6. /\ old \in Seq(LogEntry) /\ Len(old) = revision[r]
      /\ new \in Seq(LogEntry) /\ Len(new) = n
  BY <1>3, <1>4 DEF TableIsLog
<1>7. new[n] = a
  <2>1. CommitOf(r, n)' = e
    BY <1>2, <1>3, <1>4 DEF TableIsLog
  <2>2. new[n] = [key |-> CommitOf(r, n)'.key, mutations |-> CommitOf(r, n)'.mutations]
    BY <1>3, <1>4 DEF TableIsLog
  <2>3. QED BY <1>2, <2>1, <2>2
<1>8. ASSUME NEW k \in 1..revision[r]
      PROVE  new[k] = old[k]
  <2>1. CommitOf(r, k) \in idempotency[r] /\ CommitOf(r, k).revision = k
    BY <1>3 DEF TableIsLog
  <2>2. CommitOf(r, k)' = CommitOf(r, k)
    BY <1>3, <1>4, <2>1 DEF TableIsLog
  <2>3. new[k] = [key |-> CommitOf(r, k)'.key, mutations |-> CommitOf(r, k)'.mutations]
    BY <1>3, <1>4 DEF TableIsLog
  <2>4. QED BY <1>3, <2>2, <2>3 DEF TableIsLog
<1>9. new = Append(old, a)
  <2> HIDE DEF a, old, new
  <2>1. /\ Append(old, a) \in Seq(LogEntry) /\ Len(Append(old, a)) = n
        /\ \A k \in 1..revision[r] : Append(old, a)[k] = old[k]
        /\ Append(old, a)[n] = a
    BY <1>4, <1>5, <1>6, AppendProperties
  <2>2. \A k \in 1..n : new[k] = Append(old, a)[k]
    BY <1>4, <1>7, <1>8, <2>1
  <2>3. QED BY <1>6, <2>1, <2>2, SeqEqual
<1>10. \A x \in Run : x # r => LoggedCommits'[x] = LoggedCommits[x]
  BY <1>1 DEF LoggedCommits, CommitOf, IInv, TypeOK
<1>11. /\ DOMAIN LoggedCommits = Run /\ DOMAIN LoggedCommits' = Run
       /\ LoggedCommits = [x \in Run |-> LoggedCommits[x]]
       /\ LoggedCommits' = [x \in Run |-> LoggedCommits'[x]]
  BY DEF LoggedCommits
<1>12. QED
  <2> HIDE DEF a
  <2>1. LoggedCommits' = [LoggedCommits EXCEPT ![r] = Append(@, a)]
    BY <1>1, <1>9, <1>10, <1>11
  <2>2. QED BY <1>0, <2>1 DEF a

LEMMA InstallIsAppend ==
  ASSUME IInv, InstallCommit
  PROVE  [Abstract!Next]_(Abstract!vars)
<1>0. PICK q, c : q = pending.request /\ c = pending.client
  OBVIOUS
<1>1. /\ q \in Requests /\ q.run \in Run /\ c \in Client
      /\ revision' = [revision EXCEPT ![q.run] = revision[q.run] + 1]
  BY <1>0, InstallForm
<1>2. /\ q.mutations # <<>> /\ revision[q.run] < MaxRevision
      /\ seen[c][q.run] = revision[q.run] /\ ~KeyUsed(q)
      /\ Reply(c, q.run)
  BY <1>0 DEF IInv, CallOK, InstallCommit
<1>3. TableIsLog(q.run) /\ TableIsLog(q.run)'
  BY <1>1, TablesAreLogs, TablesAreLogsNext, InstallStep
<1>4. Len(LoggedCommits[q.run]) = revision[q.run]
      /\ Len(LoggedCommits'[q.run]) = revision'[q.run]
  BY <1>3 DEF TableIsLog
<1>5. ~Abstract!InLog(q.run, q.key)
  <2> SUFFICES ASSUME NEW i \in 1..revision[q.run], LoggedCommits[q.run][i].key = q.key
               PROVE  FALSE
    BY <1>4 DEF Abstract!InLog
  <2>1. LoggedCommits[q.run][i] = [key |-> CommitOf(q.run, i).key,
                                   mutations |-> CommitOf(q.run, i).mutations]
    BY <1>3 DEF TableIsLog
  <2>2. CommitOf(q.run, i).key = q.key
    BY <2>1
  <2>3. CommitOf(q.run, i) \in idempotency[q.run]
    BY <1>3 DEF TableIsLog
  <2>4. QED BY <1>2, <2>2, <2>3 DEF KeyUsed
<1>6. LoggedCommits' = [LoggedCommits EXCEPT ![q.run] =
               Append(@, [key |-> q.key, mutations |-> q.mutations])]
  BY <1>0, InstallLog
<1>7. Abstract!AppendCommit(c, q)
  BY <1>2, <1>4, <1>5, <1>6 DEF Abstract!AppendCommit, Reply, Learn
<1>8. QED BY <1>1, <1>7 DEF Abstract!Next

(* The store implements the commit log for every client, request and batch *)
(* length: each call is one append, one reply or nothing to an observer.   *)
THEOREM StoreImplementsCommitLog == Spec => ImplementsCommitLog
<1>1. Init => Abstract!Init
  <2> SUFFICES ASSUME Init PROVE Abstract!Init
    OBVIOUS
  <2>1. IInv
    BY InitIInv
  <2>2. \A r \in Run : LoggedCommits[r] = <<>>
    <3> SUFFICES ASSUME NEW r \in Run PROVE LoggedCommits[r] = <<>>
      OBVIOUS
    <3>1. LoggedCommits[r] \in Seq(LogEntry) /\ Len(LoggedCommits[r]) = 0
      BY <2>1, TablesAreLogs DEF TableIsLog, Init
    <3>2. QED BY <3>1, EmptySeq
  <2>3. LoggedCommits = [r \in Run |-> LoggedCommits[r]]
    BY DEF LoggedCommits
  <2>4. LoggedCommits = [r \in Run |-> <<>>]
    BY <2>2, <2>3
  <2>5. QED BY <2>4 DEF Init, Abstract!Init
<1>2. IInv /\ [Next]_vars => [Abstract!Next]_(Abstract!vars)
  <2> SUFFICES ASSUME IInv, [Next]_vars PROVE [Abstract!Next]_(Abstract!vars)
    OBVIOUS
  <2>1. ASSUME UNCHANGED <<revision, idempotency, seen>>
        PROVE  [Abstract!Next]_(Abstract!vars)
    BY <2>1, SameLog DEF Abstract!vars
  <2>2. ASSUME NEW c \in Client, NEW r \in Run, CreateRun(c, r) \/ LoadRun(c, r)
        PROVE  [Abstract!Next]_(Abstract!vars)
    BY <2>2, ReplyIsSync DEF CreateRun, LoadRun, store, Reply
  <2>3. ASSUME NEW c \in Client, NEW q \in Requests, ReplayCommit(c, q)
        PROVE  [Abstract!Next]_(Abstract!vars)
    BY <2>3, RequestForm, ReplyIsSync DEF ReplayCommit, store
  <2>4. ASSUME NEW c \in Client, NEW q \in Requests, BeginCommit(c, q)
        PROVE  [Abstract!Next]_(Abstract!vars)
    BY <2>1, <2>4 DEF BeginCommit, store
  <2>5. QED BY <2>1, <2>2, <2>3, <2>4, InstallIsAppend
            DEF Next, ApplyNext, RefuseCommit, vars, store
<1>3. QED BY <1>1, <1>2, StoreInvariant, PTL DEF Spec, ImplementsCommitLog, Abstract!Spec
=============================================================================
