------------------------ MODULE DurableFactsProofs -------------------------
(***************************************************************************)
(* Proofs about one run's facts, for every set of identities: what         *)
(* apply_mutation does to them, and to the effect states that recovery     *)
(* derives from them; DurableStore and RuntimeCore build on them.          *)
(***************************************************************************)
EXTENDS RecoveryJournal, WellFoundedInduction, TLAPS

(* What each kind of mutation carries.                                     *)
LEMMA DurableMutationForm ==
  ASSUME NEW m \in DurableMutation
  PROVE  \/ m.kind = "AdmitAttempt" /\ m.fact \in Admission
         \/ m.kind = "RecordIntent" /\ m.fact \in Intent
         \/ m.kind = "RecordCancellation" /\ m.fact \in Cancellation
         \/ m.kind = "RecordDispatch" /\ m.fact \in Dispatch
         \/ m.kind = "RecordOutcome" /\ m.fact \in Outcome
BY DEF DurableMutation

(* Appending a record adds it to the records and moves no other.           *)
LEMMA AppendedRecord ==
  ASSUME NEW S, NEW q \in Seq(S), NEW f \in S, NEW z, z = Append(q, f)
  PROVE  /\ z \in Seq(S)
         /\ Len(q) \in Nat /\ Len(z) = Len(q) + 1
         /\ z[Len(q) + 1] = f
         /\ \A i \in 1..Len(q) : z[i] = q[i]
         /\ { z[i] : i \in 1..Len(z) } = { q[i] : i \in 1..Len(q) } \cup {f}
<1>1. /\ z \in Seq(S)
      /\ Len(q) \in Nat /\ Len(z) = Len(q) + 1
      /\ z[Len(q) + 1] = f
      /\ \A i \in 1..Len(q) : z[i] = q[i]
  OBVIOUS
<1>2. 1..(Len(q) + 1) = 1..Len(q) \cup {Len(q) + 1}
  BY <1>1
<1>3. QED BY <1>1, <1>2

(* Appending a record with a new attempt keeps attempts used once.         *)
LEMMA AppendedOnce ==
  ASSUME NEW S, NEW q \in Seq(S), NEW f \in S, NEW z, z = Append(q, f),
         \A i \in 1..Len(q) : q[i].attempt # f.attempt,
         \A i, j \in 1..Len(q) : q[i].attempt = q[j].attempt => i = j
  PROVE  \A i, j \in 1..Len(z) : z[i].attempt = z[j].attempt => i = j
<1> DEFINE n == Len(q)
<1>1. /\ n \in Nat /\ Len(z) = n + 1
      /\ z[n + 1] = f
      /\ \A i \in 1..n : z[i] = q[i]
  BY AppendedRecord
<1>2. SUFFICES ASSUME NEW i \in 1..Len(z), NEW j \in 1..Len(z),
                      z[i].attempt = z[j].attempt
               PROVE  i = j
  OBVIOUS
<1>3. \A k \in 1..Len(z) : k \in 1..n \/ k = n + 1
  BY <1>1
<1>4. CASE i \in 1..n /\ j \in 1..n
  BY <1>1, <1>2, <1>4
<1>5. CASE i = n + 1 /\ j \in 1..n
  BY <1>1, <1>2, <1>5
<1>6. CASE i \in 1..n /\ j = n + 1
  BY <1>1, <1>2, <1>6
<1>7. CASE i = n + 1 /\ j = n + 1
  BY <1>7
<1>8. QED BY <1>3, <1>4, <1>5, <1>6, <1>7

LEMMA AppendedAdmission ==
  ASSUME NEW s \in FactSet, NEW f \in Admission,
         NEW z, z = [s EXCEPT !.admissions = Append(@, f)]
  PROVE  /\ z \in FactSet
         /\ z.admissions = Append(s.admissions, f)
         /\ s.admissions \in Seq(Admission)
         /\ AdmissionSet(z) = AdmissionSet(s) \cup {f}
         /\ z.intents = s.intents /\ z.dispatches = s.dispatches
         /\ z.cancellations = s.cancellations /\ z.outcomes = s.outcomes
<1>1. /\ s.admissions \in Seq(Admission)
      /\ z.admissions = Append(s.admissions, f)
      /\ z.intents = s.intents /\ z.dispatches = s.dispatches
      /\ z.cancellations = s.cancellations /\ z.outcomes = s.outcomes
  BY DEF FactSet
<1>2. z.admissions \in Seq(Admission) /\ AdmissionSet(z) = AdmissionSet(s) \cup {f}
  BY <1>1, AppendedRecord DEF AdmissionSet
<1>3. z \in FactSet
  BY <1>2, <1>1 DEF FactSet
<1>4. QED BY <1>1, <1>2, <1>3

LEMMA AppendedDispatch ==
  ASSUME NEW s \in FactSet, NEW f \in Dispatch,
         NEW z, z = [s EXCEPT !.dispatches = Append(@, f)]
  PROVE  /\ z \in FactSet
         /\ z.dispatches = Append(s.dispatches, f)
         /\ s.dispatches \in Seq(Dispatch)
         /\ DispatchSet(z) = DispatchSet(s) \cup {f}
         /\ z.admissions = s.admissions /\ z.intents = s.intents
         /\ z.cancellations = s.cancellations /\ z.outcomes = s.outcomes
<1>1. /\ s.dispatches \in Seq(Dispatch)
      /\ z.dispatches = Append(s.dispatches, f)
      /\ z.admissions = s.admissions /\ z.intents = s.intents
      /\ z.cancellations = s.cancellations /\ z.outcomes = s.outcomes
  BY DEF FactSet
<1>2. z.dispatches \in Seq(Dispatch) /\ DispatchSet(z) = DispatchSet(s) \cup {f}
  BY <1>1, AppendedRecord DEF DispatchSet
<1>3. z \in FactSet
  BY <1>2, <1>1 DEF FactSet
<1>4. QED BY <1>1, <1>2, <1>3

(* An accepted mutation turns facts into facts.                            *)
LEMMA ApplyType ==
  ASSUME NEW s \in FactSet, NEW m \in DurableMutation
  PROVE  ApplyMutation(s, m) \in FactSet
<1>1. CASE m.kind = "RecordDispatch" /\ m.fact \in Dispatch
  BY <1>1, AppendedDispatch DEF ApplyMutation
<1>2. CASE m.kind = "AdmitAttempt" /\ m.fact \in Admission
  BY <1>2, AppendedAdmission DEF ApplyMutation
<1>3. CASE m.kind = "RecordIntent" /\ m.fact \in Intent
  BY <1>3 DEF ApplyMutation, FactSet
<1>4. CASE m.kind = "RecordCancellation" /\ m.fact \in Cancellation
  BY <1>4 DEF ApplyMutation, FactSet
<1>5. CASE m.kind = "RecordOutcome" /\ m.fact \in Outcome
  BY <1>5 DEF ApplyMutation, FactSet
<1>6. QED BY <1>1, <1>2, <1>3, <1>4, <1>5, DurableMutationForm

(* An accepted mutation keeps every identity used once and every lineage.  *)
LEMMA ApplyKeepsConsistency ==
  ASSUME NEW s \in FactSet, NEW run \in Run, NEW m \in DurableMutation,
         MutationAccepted(s, run, m), IdentitiesUsedOnce(s), Lineage(s)
  PROVE  IdentitiesUsedOnce(ApplyMutation(s, m)) /\ Lineage(ApplyMutation(s, m))
<1> DEFINE z == ApplyMutation(s, m)
           f == m.fact
<1>1. CASE m.kind = "AdmitAttempt" /\ f \in Admission
  <2>1. AdmitAccepted(s, run, f)
    BY <1>1 DEF MutationAccepted
  <2>2. z = [s EXCEPT !.admissions = Append(@, f)]
    BY <1>1 DEF ApplyMutation
  <2> HIDE DEF z
  <2>3. /\ z.admissions = Append(s.admissions, f)
        /\ s.admissions \in Seq(Admission)
        /\ AdmissionSet(z) = AdmissionSet(s) \cup {f}
        /\ z.intents = s.intents /\ z.cancellations = s.cancellations
        /\ z.dispatches = s.dispatches /\ z.outcomes = s.outcomes
    BY <1>1, <2>2, AppendedAdmission
  <2>4. \A i \in 1..Len(s.admissions) : s.admissions[i].attempt # f.attempt
    BY <2>1 DEF AdmitAccepted, Admitted, AdmissionSet
  <2>5. \A i, j \in 1..Len(z.admissions) :
          z.admissions[i].attempt = z.admissions[j].attempt => i = j
    BY <1>1, <2>3, <2>4, AppendedOnce DEF IdentitiesUsedOnce
  <2>6. IdentitiesUsedOnce(z)
    BY <2>3, <2>5 DEF IdentitiesUsedOnce
  <2>7. Lineage(z)
    <3>1. DispatchSet(z) = DispatchSet(s)
      BY <2>3 DEF DispatchSet
    <3>2. QED BY <2>3, <3>1 DEF Lineage
  <2>8. QED BY <2>6, <2>7 DEF z
<1>2. CASE m.kind = "RecordIntent" /\ f \in Intent
  <2>1. IntentAccepted(s, f)
    BY <1>2 DEF MutationAccepted
  <2>2. /\ z.intents = s.intents \cup {f}
        /\ z.admissions = s.admissions /\ z.cancellations = s.cancellations
        /\ z.dispatches = s.dispatches /\ z.outcomes = s.outcomes
    BY <1>2 DEF ApplyMutation, FactSet
  <2>3. IdentitiesUsedOnce(z)
    BY <2>1, <2>2 DEF IdentitiesUsedOnce, IntentAccepted
  <2>4. Lineage(z)
    BY <2>2 DEF Lineage, DispatchSet, AdmissionSet
  <2>5. QED BY <2>3, <2>4
<1>3. CASE m.kind = "RecordCancellation" /\ f \in Cancellation
  <2>1. CancellationAccepted(s, run, f)
    BY <1>3 DEF MutationAccepted
  <2>2. /\ z.cancellations = s.cancellations \cup {f}
        /\ z.admissions = s.admissions /\ z.intents = s.intents
        /\ z.dispatches = s.dispatches /\ z.outcomes = s.outcomes
    BY <1>3 DEF ApplyMutation, FactSet
  <2>3. IdentitiesUsedOnce(z)
    BY <2>1, <2>2 DEF IdentitiesUsedOnce, CancellationAccepted, Cancelled
  <2>4. Lineage(z)
    BY <2>1, <2>2 DEF Lineage, DispatchSet, AdmissionSet, CancellationAccepted
  <2>5. QED BY <2>3, <2>4
<1>4. CASE m.kind = "RecordDispatch" /\ f \in Dispatch
  <2>1. DispatchAccepted(s, f)
    BY <1>4 DEF MutationAccepted
  <2>2. z = [s EXCEPT !.dispatches = Append(@, f)]
    BY <1>4 DEF ApplyMutation
  <2> HIDE DEF z
  <2>3. /\ z.dispatches = Append(s.dispatches, f)
        /\ s.dispatches \in Seq(Dispatch)
        /\ DispatchSet(z) = DispatchSet(s) \cup {f}
        /\ z.admissions = s.admissions /\ z.intents = s.intents
        /\ z.cancellations = s.cancellations /\ z.outcomes = s.outcomes
    BY <1>4, <2>2, AppendedDispatch
  <2>4. \A i \in 1..Len(s.dispatches) : s.dispatches[i].attempt # f.attempt
    BY <2>1 DEF DispatchAccepted, Dispatched, DispatchSet
  <2>5. \A i, j \in 1..Len(z.dispatches) :
          z.dispatches[i].attempt = z.dispatches[j].attempt => i = j
    BY <1>4, <2>3, <2>4, AppendedOnce DEF IdentitiesUsedOnce
  <2>6. IdentitiesUsedOnce(z)
    BY <2>3, <2>5 DEF IdentitiesUsedOnce
  <2>7. Lineage(z)
    BY <2>1, <2>3 DEF Lineage, DispatchAccepted, AdmissionSet
  <2>8. QED BY <2>6, <2>7 DEF z
<1>5. CASE m.kind = "RecordOutcome" /\ f \in Outcome
  <2>1. OutcomeAccepted(s, f)
    BY <1>5 DEF MutationAccepted
  <2>2. /\ z.outcomes = s.outcomes \cup {f}
        /\ z.admissions = s.admissions /\ z.intents = s.intents
        /\ z.cancellations = s.cancellations /\ z.dispatches = s.dispatches
    BY <1>5 DEF ApplyMutation, FactSet
  <2>3. \A o \in s.outcomes : o.attempt = f.attempt => o = f
    <3>1. TAKE o \in s.outcomes
    <3>2. HAVE o.attempt = f.attempt
    <3>3. o \in Outcome
      BY DEF FactSet
    <3>4. o.outcome = f.outcome
      BY <2>1, <3>2 DEF OutcomeAccepted
    <3>5. PICK d \in DispatchSet(s) : d.attempt = f.attempt /\ d.operation = f.operation
      BY <2>1 DEF OutcomeAccepted
    <3>6. PICK e \in DispatchSet(s) : e.attempt = o.attempt /\ e.operation = o.operation
      BY DEF Lineage
    <3>7. d = e
      BY <3>2, <3>5, <3>6 DEF IdentitiesUsedOnce, DispatchSet
    <3>8. QED BY <1>5, <3>2, <3>3, <3>4, <3>5, <3>6, <3>7 DEF Outcome
  <2>4. IdentitiesUsedOnce(z)
    BY <2>2, <2>3 DEF IdentitiesUsedOnce
  <2>5. DispatchSet(z) = DispatchSet(s) /\ AdmissionSet(z) = AdmissionSet(s)
    BY <2>2 DEF DispatchSet, AdmissionSet
  <2>6. \A o \in z.outcomes :
          \E d \in DispatchSet(z) : d.attempt = o.attempt /\ d.operation = o.operation
    <3>1. \E d \in DispatchSet(s) : d.attempt = f.attempt /\ d.operation = f.operation
      BY <2>1 DEF OutcomeAccepted
    <3>2. \A o \in s.outcomes :
            \E d \in DispatchSet(s) : d.attempt = o.attempt /\ d.operation = o.operation
      BY DEF Lineage
    <3> HIDE DEF z, f
    <3>3. QED BY <2>2, <2>5, <3>1, <3>2
  <2>7. Lineage(z)
    <3> HIDE DEF z, f
    <3>1. QED BY <2>2, <2>5, <2>6 DEF Lineage
  <2>8. QED BY <2>4, <2>7
<1>6. QED BY <1>1, <1>2, <1>3, <1>4, <1>5, DurableMutationForm

(* What applying a mutation adds to the facts is that mutation.            *)
LEMMA ApplyAdds ==
  ASSUME NEW s \in FactSet, NEW m \in DurableMutation
  PROVE  AllMutations(ApplyMutation(s, m)) = AllMutations(s) \cup {m}
<1> DEFINE z == ApplyMutation(s, m)
           f == m.fact
           Ad(x) == { AdmitAttempt(g) : g \in AdmissionSet(x) }
           In(x) == { RecordIntent(g) : g \in x.intents }
           Ca(x) == { RecordCancellation(g) : g \in x.cancellations }
           Di(x) == { RecordDispatch(g) : g \in DispatchSet(x) }
           Ou(x) == { RecordOutcome(g) : g \in x.outcomes }
<1>1. /\ AllMutations(s) = Ad(s) \cup In(s) \cup Ca(s) \cup Di(s) \cup Ou(s)
      /\ AllMutations(z) = Ad(z) \cup In(z) \cup Ca(z) \cup Di(z) \cup Ou(z)
  BY DEF AllMutations
<1>2. m = [kind |-> m.kind, fact |-> f]
  BY DEF DurableMutation
<1>3. CASE m.kind = "AdmitAttempt"
  <2>1. /\ AdmissionSet(z) = AdmissionSet(s) \cup {f}
        /\ z.intents = s.intents /\ z.cancellations = s.cancellations
        /\ z.dispatches = s.dispatches /\ z.outcomes = s.outcomes
    <3>1. f \in Admission
      BY <1>3 DEF DurableMutation
    <3>2. QED BY <1>3, <3>1, AppendedAdmission DEF ApplyMutation
  <2>2. m = AdmitAttempt(f)
    BY <1>2, <1>3 DEF AdmitAttempt
  <2> HIDE DEF z, f
  <2>3. Ad(z) = Ad(s) \cup {m}
    BY <2>1, <2>2
  <2>4. In(z) = In(s) /\ Ca(z) = Ca(s) /\ Di(z) = Di(s) /\ Ou(z) = Ou(s)
    BY <2>1 DEF DispatchSet, AdmissionSet
  <2>5. QED BY <1>1, <2>3, <2>4 DEF z
<1>4. CASE m.kind = "RecordIntent"
  <2>1. /\ z.intents = s.intents \cup {f}
        /\ z.admissions = s.admissions /\ z.cancellations = s.cancellations
        /\ z.dispatches = s.dispatches /\ z.outcomes = s.outcomes
    BY <1>4 DEF ApplyMutation, FactSet
  <2>2. m = RecordIntent(f)
    BY <1>2, <1>4 DEF RecordIntent
  <2> HIDE DEF z, f
  <2>3. In(z) = In(s) \cup {m}
    BY <2>1, <2>2
  <2>4. Ad(z) = Ad(s) /\ Ca(z) = Ca(s) /\ Di(z) = Di(s) /\ Ou(z) = Ou(s)
    BY <2>1 DEF DispatchSet, AdmissionSet
  <2>5. QED BY <1>1, <2>3, <2>4 DEF z
<1>5. CASE m.kind = "RecordCancellation"
  <2>1. /\ z.cancellations = s.cancellations \cup {f}
        /\ z.admissions = s.admissions /\ z.intents = s.intents
        /\ z.dispatches = s.dispatches /\ z.outcomes = s.outcomes
    BY <1>5 DEF ApplyMutation, FactSet
  <2>2. m = RecordCancellation(f)
    BY <1>2, <1>5 DEF RecordCancellation
  <2> HIDE DEF z, f
  <2>3. Ca(z) = Ca(s) \cup {m}
    BY <2>1, <2>2
  <2>4. Ad(z) = Ad(s) /\ In(z) = In(s) /\ Di(z) = Di(s) /\ Ou(z) = Ou(s)
    BY <2>1 DEF DispatchSet, AdmissionSet
  <2>5. QED BY <1>1, <2>3, <2>4 DEF z
<1>6. CASE m.kind = "RecordDispatch"
  <2>1. f \in Dispatch
    BY <1>6 DEF DurableMutation
  <2>2. z = [s EXCEPT !.dispatches = Append(@, f)]
    BY <1>6 DEF ApplyMutation
  <2>3. /\ DispatchSet(z) = DispatchSet(s) \cup {f}
        /\ z.admissions = s.admissions /\ z.intents = s.intents
        /\ z.cancellations = s.cancellations /\ z.outcomes = s.outcomes
    BY <2>1, <2>2, AppendedDispatch
  <2>4. m = RecordDispatch(f)
    BY <1>2, <1>6 DEF RecordDispatch
  <2> HIDE DEF z, f
  <2>5. Di(z) = Di(s) \cup {m}
    BY <2>3, <2>4
  <2>6. Ad(z) = Ad(s) /\ In(z) = In(s) /\ Ca(z) = Ca(s) /\ Ou(z) = Ou(s)
    BY <2>3 DEF AdmissionSet
  <2>7. QED BY <1>1, <2>5, <2>6 DEF z
<1>7. CASE m.kind = "RecordOutcome"
  <2>1. /\ z.outcomes = s.outcomes \cup {f}
        /\ z.admissions = s.admissions /\ z.intents = s.intents
        /\ z.cancellations = s.cancellations /\ z.dispatches = s.dispatches
    BY <1>7 DEF ApplyMutation, FactSet
  <2>2. m = RecordOutcome(f)
    BY <1>2, <1>7 DEF RecordOutcome
  <2> HIDE DEF z, f
  <2>3. Ou(z) = Ou(s) \cup {m}
    BY <2>1, <2>2
  <2>4. Ad(z) = Ad(s) /\ In(z) = In(s) /\ Ca(z) = Ca(s) /\ Di(z) = Di(s)
    BY <2>1 DEF DispatchSet, AdmissionSet
  <2>5. QED BY <1>1, <2>3, <2>4 DEF z
<1>8. QED BY <1>3, <1>4, <1>5, <1>6, <1>7, DurableMutationForm

-----------------------------------------------------------------------------
(* Facts as recovery reads them.                                           *)
FactsOK(s) == s \in FactSet /\ IdentitiesUsedOnce(s) /\ Lineage(s)

Changes(s, z, m) ==
  m \in DurableMutation /\ (\E run \in Run : MutationAccepted(s, run, m)) /\ z = ApplyMutation(s, m)

(* An accepted mutation keeps the facts consistent.                        *)
LEMMA ChangeKeepsFacts ==
  ASSUME NEW s, FactsOK(s), NEW m, NEW z, Changes(s, z, m)
  PROVE  FactsOK(z)
BY ApplyType, ApplyKeepsConsistency DEF FactsOK, Changes

(* The journal view of facts derives what the facts derive.                *)
LEMMA ViewDerivesTheSame ==
  ASSUME NEW s, NEW j, j = JournalView(s), NEW o
  PROVE  /\ EffectState(j, o) = EffectState(s, o)
         /\ DispatchesOf(j, o) = DispatchesOf(s, o)
         /\ LatestDispatch(j, o) = LatestDispatch(s, o)
         /\ HasIntent(j, o) <=> HasIntent(s, o)
         /\ TaskOf(j, o) = TaskOf(s, o)
         /\ SemanticsOf(j, o) = SemanticsOf(s, o)
<1>1. j.intents = s.intents /\ j.dispatches = s.dispatches /\ j.outcomes = s.outcomes
  BY DEF JournalView
<1>2. QED
  BY <1>1 DEF EffectState, DispatchesOf, LatestDispatch, HasIntent, TaskOf, SemanticsOf,
              OutcomesOfLatest

(* A nonempty set of numbers has a least element.                          *)
LEMMA LeastExists ==
  ASSUME NEW S \in SUBSET Nat, S # {}
  PROVE  \E m \in S : \A k \in S : m <= k
<1> DEFINE R == OpToRel(<, Nat)
<1>1. IsWellFoundedOn(R, Nat)
  BY NatLessThanWellFounded
<1>2. \A x, y \in Nat : x < y => <<x, y>> \in R
  BY DEF OpToRel
<1> HIDE DEF R
<1>3. PICK m \in S : \A y \in S : ~(<<y, m>> \in R)
  BY <1>1, WFMin
<1>4. ASSUME NEW k \in S
      PROVE  m <= k
  <2>1. m \in Nat /\ k \in Nat
    OBVIOUS
  <2>2. ~(k < m)
    BY <1>2, <1>3, <2>1
  <2>3. QED BY <2>1, <2>2
<1>5. QED BY <1>4

(* A nonempty set of positions has a last one.                             *)
LEMMA LastExists ==
  ASSUME NEW n \in Nat, NEW S \in SUBSET (1..n), S # {}
  PROVE  \E x \in S : \A y \in S : y <= x
<1> DEFINE T == { m \in Nat : \A y \in S : y <= m }
<1>1. n \in T
  OBVIOUS
<1>2. PICK m \in T : \A k \in T : m <= k
  <2>1. T \in SUBSET Nat /\ T # {}
    BY <1>1
  <2> HIDE DEF T
  <2>2. QED BY <2>1, LeastExists
<1>3. m \in S
  <2>1. SUFFICES ASSUME m \notin S PROVE FALSE
    OBVIOUS
  <2>2. PICK y \in S : TRUE
    OBVIOUS
  <2>3. m - 1 \in T
    <3>1. m \in Nat /\ y \in 1..n /\ y <= m /\ y # m
      BY <2>1
    <3>2. \A x \in S : x \in 1..n /\ x <= m /\ x # m
      BY <2>1
    <3>3. QED BY <3>1, <3>2
  <2>4. QED BY <1>2, <2>3
<1>4. QED BY <1>2, <1>3

(* The latest dispatch of an operation is one of its dispatches.           *)
LEMMA LatestIsDispatched ==
  ASSUME NEW s \in FactSet, NEW o, DispatchesOf(s, o) # {}
  PROVE  \E n \in DispatchesOf(s, o) :
           /\ \A k \in DispatchesOf(s, o) : k <= n
           /\ LatestDispatch(s, o) = s.dispatches[n]
           /\ LatestDispatch(s, o) \in DispatchSet(s) /\ LatestDispatch(s, o) \in Dispatch
           /\ LatestDispatch(s, o).operation = o
<1>1. s.dispatches \in Seq(Dispatch) /\ Len(s.dispatches) \in Nat
  BY DEF FactSet
<1>2. DispatchesOf(s, o) \subseteq 1..Len(s.dispatches)
  BY DEF DispatchesOf
<1>3. \E x \in DispatchesOf(s, o) : \A y \in DispatchesOf(s, o) : y <= x
  BY <1>1, <1>2, LastExists
<1>4. PICK n \in DispatchesOf(s, o) :
        /\ \A k \in DispatchesOf(s, o) : k <= n
        /\ n = CHOOSE x \in DispatchesOf(s, o) : \A y \in DispatchesOf(s, o) : y <= x
  BY <1>3
<1>5. LatestDispatch(s, o) = s.dispatches[n]
  BY <1>4 DEF LatestDispatch
<1>6. n \in 1..Len(s.dispatches) /\ s.dispatches[n].operation = o
  BY DEF DispatchesOf
<1>7. s.dispatches[n] \in Dispatch /\ s.dispatches[n] \in DispatchSet(s)
  BY <1>1, <1>6 DEF DispatchSet
<1>8. QED BY <1>4, <1>5, <1>6, <1>7

(* An effect is in one of five states, and in NotPrepared without intent.  *)
LEMMA StatesOfAnEffect ==
  ASSUME NEW s \in FactSet, NEW o
  PROVE  /\ EffectState(s, o) \in
              {"NotPrepared", "Prepared", "OutcomeUnknown", "Succeeded", "Failed"}
         /\ HasIntent(s, o) <=> EffectState(s, o) # "NotPrepared"
         /\ HasIntent(s, o) =>
              (DispatchesOf(s, o) = {} <=> EffectState(s, o) = "Prepared")
<1>1. CASE ~HasIntent(s, o)
  BY <1>1 DEF EffectState
<1>2. CASE HasIntent(s, o) /\ DispatchesOf(s, o) = {}
  BY <1>2 DEF EffectState
<1>3. CASE HasIntent(s, o) /\ DispatchesOf(s, o) # {} /\ OutcomesOfLatest(s, o) = {}
  BY <1>3 DEF EffectState
<1>4. CASE HasIntent(s, o) /\ DispatchesOf(s, o) # {} /\ OutcomesOfLatest(s, o) # {}
  <2>1. PICK r \in OutcomesOfLatest(s, o) : r = CHOOSE x \in OutcomesOfLatest(s, o) : TRUE
    BY <1>4
  <2>2. EffectState(s, o) = r.outcome
    BY <1>4, <2>1 DEF EffectState
  <2>3. r.outcome \in {"Succeeded", "Failed"}
    BY DEF OutcomesOfLatest, FactSet, Outcome, KnownOutcome
  <2>4. QED BY <1>4, <2>2, <2>3
<1>5. QED BY <1>1, <1>2, <1>3, <1>4

(* What a change that touches no effect leaves as it is.                   *)
SameEffects(s, z) ==
  z.intents = s.intents /\ z.dispatches = s.dispatches /\ z.outcomes = s.outcomes

LEMMA SameEffectsSameStates ==
  ASSUME NEW s, NEW z, SameEffects(s, z), NEW o
  PROVE  /\ EffectState(z, o) = EffectState(s, o)
         /\ DispatchesOf(z, o) = DispatchesOf(s, o)
BY DEF SameEffects, EffectState, DispatchesOf, LatestDispatch, HasIntent, OutcomesOfLatest

LEMMA AdmitChange ==
  ASSUME NEW s \in FactSet, NEW f \in Admission,
         NEW z, z = ApplyMutation(s, AdmitAttempt(f))
  PROVE  /\ SameEffects(s, z) /\ z.cancellations = s.cancellations
         /\ z.admissions = Append(s.admissions, f)
         /\ AdmissionSet(z) = AdmissionSet(s) \cup {f}
         /\ AdmitAttempt(f) \in DurableMutation
<1>1. AdmitAttempt(f) \in DurableMutation
  BY DEF AdmitAttempt, DurableMutation
<1>2. z = [s EXCEPT !.admissions = Append(@, f)]
  BY DEF AdmitAttempt, ApplyMutation
<1>3. QED BY <1>1, <1>2, AppendedAdmission DEF SameEffects

LEMMA CancelChange ==
  ASSUME NEW s \in FactSet, NEW f \in Cancellation,
         NEW z, z = ApplyMutation(s, RecordCancellation(f))
  PROVE  /\ SameEffects(s, z) /\ z.admissions = s.admissions
         /\ z.cancellations = s.cancellations \cup {f}
         /\ RecordCancellation(f) \in DurableMutation
BY DEF RecordCancellation, DurableMutation, ApplyMutation, FactSet, SameEffects

(* An intent leaves the states of all other operations.                    *)
LEMMA IntentChange ==
  ASSUME NEW s \in FactSet, NEW f \in Intent,
         NEW z, z = ApplyMutation(s, RecordIntent(f))
  PROVE  /\ z.intents = s.intents \cup {f}
         /\ z.admissions = s.admissions /\ z.cancellations = s.cancellations
         /\ z.dispatches = s.dispatches /\ z.outcomes = s.outcomes
         /\ RecordIntent(f) \in DurableMutation
         /\ \A o : DispatchesOf(z, o) = DispatchesOf(s, o)
         /\ \A o : HasIntent(s, o) => EffectState(z, o) = EffectState(s, o)
<1>1. /\ z.intents = s.intents \cup {f}
      /\ z.admissions = s.admissions /\ z.cancellations = s.cancellations
      /\ z.dispatches = s.dispatches /\ z.outcomes = s.outcomes
      /\ RecordIntent(f) \in DurableMutation
  BY DEF RecordIntent, DurableMutation, ApplyMutation, FactSet
<1>2. ASSUME NEW o PROVE DispatchesOf(z, o) = DispatchesOf(s, o)
  BY <1>1 DEF DispatchesOf
<1>3. ASSUME NEW o, HasIntent(s, o) PROVE EffectState(z, o) = EffectState(s, o)
  <2>1. HasIntent(z, o)
    BY <1>1, <1>3 DEF HasIntent
  <2>2. LatestDispatch(z, o) = LatestDispatch(s, o)
    BY <1>1, <1>2 DEF LatestDispatch
  <2>3. OutcomesOfLatest(z, o) = OutcomesOfLatest(s, o)
    BY <1>1, <2>2 DEF OutcomesOfLatest
  <2>4. QED BY <1>2, <1>3, <2>1, <2>3 DEF EffectState
<1>4. QED BY <1>1, <1>2, <1>3

(* A dispatch is the latest of its operation and leaves all others.        *)
LEMMA DispatchChange ==
  ASSUME NEW s \in FactSet, NEW f \in Dispatch,
         NEW z, z = ApplyMutation(s, RecordDispatch(f))
  PROVE  /\ z.dispatches = Append(s.dispatches, f)
         /\ z.admissions = s.admissions /\ z.cancellations = s.cancellations
         /\ z.intents = s.intents /\ z.outcomes = s.outcomes
         /\ RecordDispatch(f) \in DurableMutation
         /\ DispatchesOf(z, f.operation) =
              DispatchesOf(s, f.operation) \cup {Len(s.dispatches) + 1}
         /\ \A o : o # f.operation => /\ DispatchesOf(z, o) = DispatchesOf(s, o)
                                      /\ EffectState(z, o) = EffectState(s, o)
<1>1. RecordDispatch(f) \in DurableMutation
  BY DEF RecordDispatch, DurableMutation
<1>2. z = [s EXCEPT !.dispatches = Append(@, f)]
  BY DEF RecordDispatch, ApplyMutation
<1>3. /\ z \in FactSet
      /\ z.dispatches = Append(s.dispatches, f) /\ s.dispatches \in Seq(Dispatch)
      /\ z.admissions = s.admissions /\ z.cancellations = s.cancellations
      /\ z.intents = s.intents /\ z.outcomes = s.outcomes
  BY <1>2, AppendedDispatch
<1> DEFINE n == Len(s.dispatches)
<1>4. /\ n \in Nat /\ Len(z.dispatches) = n + 1
      /\ z.dispatches[n + 1] = f
      /\ \A i \in 1..n : z.dispatches[i] = s.dispatches[i]
  BY <1>3, AppendedRecord
<1>5. 1..(n + 1) = 1..n \cup {n + 1}
  BY <1>4
<1>6. DispatchesOf(z, f.operation) = DispatchesOf(s, f.operation) \cup {n + 1}
  BY <1>4, <1>5 DEF DispatchesOf
<1>7. ASSUME NEW o, o # f.operation
      PROVE  DispatchesOf(z, o) = DispatchesOf(s, o)
  BY <1>4, <1>5, <1>7 DEF DispatchesOf
<1>8. ASSUME NEW o, o # f.operation
      PROVE  EffectState(z, o) = EffectState(s, o)
  <2>1. HasIntent(z, o) <=> HasIntent(s, o)
    BY <1>3 DEF HasIntent
  <2>2. DispatchesOf(z, o) = DispatchesOf(s, o)
    BY <1>7, <1>8
  <2>3. CASE DispatchesOf(s, o) = {}
    BY <2>1, <2>2, <2>3 DEF EffectState
  <2>4. CASE DispatchesOf(s, o) # {}
    <3>1. \E x \in DispatchesOf(s, o) : \A y \in DispatchesOf(s, o) : y <= x
      BY <2>4, LatestIsDispatched
    <3>2. (CHOOSE x \in DispatchesOf(s, o) : \A y \in DispatchesOf(s, o) : y <= x) \in 1..n
      BY <3>1 DEF DispatchesOf
    <3>3. LatestDispatch(z, o) = LatestDispatch(s, o)
      BY <1>4, <2>2, <3>2 DEF LatestDispatch
    <3>4. OutcomesOfLatest(z, o) = OutcomesOfLatest(s, o)
      BY <1>3, <3>3 DEF OutcomesOfLatest
    <3>5. QED BY <2>1, <2>2, <3>4 DEF EffectState
  <2>5. QED BY <2>3, <2>4
<1>9. QED BY <1>1, <1>3, <1>6, <1>7, <1>8

(* An outcome leaves every known state as it is.                           *)
LEMMA OutcomeChange ==
  ASSUME NEW s, FactsOK(s), NEW f \in Outcome, OutcomeAccepted(s, f),
         NEW z, z = ApplyMutation(s, RecordOutcome(f))
  PROVE  /\ z.outcomes = s.outcomes \cup {f}
         /\ z.admissions = s.admissions /\ z.cancellations = s.cancellations
         /\ z.intents = s.intents /\ z.dispatches = s.dispatches
         /\ RecordOutcome(f) \in DurableMutation
         /\ \A o : DispatchesOf(z, o) = DispatchesOf(s, o)
         /\ \A o : EffectState(s, o) \in KnownOutcome => EffectState(z, o) = EffectState(s, o)
<1>1. /\ z.outcomes = s.outcomes \cup {f}
      /\ z.admissions = s.admissions /\ z.cancellations = s.cancellations
      /\ z.intents = s.intents /\ z.dispatches = s.dispatches
      /\ RecordOutcome(f) \in DurableMutation
  BY DEF FactsOK, RecordOutcome, DurableMutation, ApplyMutation, FactSet
<1>2. ASSUME NEW o PROVE DispatchesOf(z, o) = DispatchesOf(s, o)
  BY <1>1 DEF DispatchesOf
<1>3. ASSUME NEW o, EffectState(s, o) \in KnownOutcome
      PROVE  EffectState(z, o) = EffectState(s, o)
  <2>1. s \in FactSet
    BY DEF FactsOK
  <2>2. HasIntent(s, o) /\ DispatchesOf(s, o) # {} /\ OutcomesOfLatest(s, o) # {}
    BY <1>3 DEF EffectState, KnownOutcome
  <2>3. LatestDispatch(z, o) = LatestDispatch(s, o) /\ HasIntent(z, o)
    BY <1>1, <1>2, <2>2 DEF LatestDispatch, HasIntent
  <2>4. f \notin s.outcomes => \A r \in OutcomesOfLatest(s, o) : r.attempt # f.attempt
    <3>1. SUFFICES ASSUME NEW r \in OutcomesOfLatest(s, o), r.attempt = f.attempt
                   PROVE  r = f
      BY DEF OutcomesOfLatest
    <3>2. r \in s.outcomes /\ r \in Outcome
      BY <2>1 DEF OutcomesOfLatest, FactSet
    <3>3. r.outcome = f.outcome
      BY <3>1, <3>2 DEF OutcomeAccepted
    <3>4. PICK d \in DispatchSet(s) : d.attempt = r.attempt /\ d.operation = r.operation
      BY <3>2 DEF FactsOK, Lineage
    <3>5. PICK e \in DispatchSet(s) : e.attempt = f.attempt /\ e.operation = f.operation
      BY DEF OutcomeAccepted
    <3>6. d = e
      BY <3>1, <3>4, <3>5 DEF FactsOK, IdentitiesUsedOnce, DispatchSet
    <3>7. QED BY <3>1, <3>2, <3>3, <3>4, <3>5, <3>6 DEF Outcome
  <2>5. OutcomesOfLatest(z, o) = OutcomesOfLatest(s, o)
    BY <1>1, <2>2, <2>3, <2>4 DEF OutcomesOfLatest
  <2>6. QED BY <1>2, <2>2, <2>3, <2>5 DEF EffectState
<1>4. QED BY <1>1, <1>2, <1>3

-----------------------------------------------------------------------------
(* What an observer of operation o knows of its latest dispatch.           *)
OutcomeSeen(s, o) ==
  IF EffectState(s, o) \in KnownOutcome THEN EffectState(s, o) ELSE "Unknown"

(* The intent of a new operation shows no outcome: nothing was dispatched. *)
LEMMA IntentSeen ==
  ASSUME NEW s, FactsOK(s), NEW f \in Intent, \A k \in s.intents : k.operation # f.operation,
         NEW z, z = ApplyMutation(s, RecordIntent(f)), NEW o
  PROVE  OutcomeSeen(z, o) = OutcomeSeen(s, o)
<1>1. /\ s \in FactSet /\ z.intents = s.intents \cup {f}
      /\ DispatchesOf(z, o) = DispatchesOf(s, o)
      /\ HasIntent(s, o) => EffectState(z, o) = EffectState(s, o)
  BY IntentChange DEF FactsOK
<1>2. CASE HasIntent(s, o)
  BY <1>1, <1>2 DEF OutcomeSeen
<1>3. CASE ~HasIntent(s, o)
  <2>1. EffectState(s, o) \notin KnownOutcome
    BY <1>3 DEF EffectState, KnownOutcome
  <2>2. DispatchesOf(s, o) = {}
    <3>1. SUFFICES ASSUME NEW n \in DispatchesOf(s, o) PROVE HasIntent(s, o)
      BY <1>3
    <3>2. s.dispatches[n] \in DispatchSet(s) /\ s.dispatches[n].operation = o
      BY DEF DispatchesOf, DispatchSet
    <3>3. QED BY <3>2 DEF FactsOK, Lineage, HasIntent
  <2>3. EffectState(z, o) \in {"NotPrepared", "Prepared"}
    BY <1>1, <2>2 DEF EffectState
  <2>4. QED BY <2>1, <2>3 DEF OutcomeSeen, KnownOutcome
<1>4. QED BY <1>2, <1>3

(* A dispatch that follows no known outcome shows none: the dispatched     *)
(* attempt is a new one, on which nobody has reported.                     *)
LEMMA DispatchSeen ==
  ASSUME NEW s, FactsOK(s), NEW f \in Dispatch, DispatchAccepted(s, f),
         EffectState(s, f.operation) \notin KnownOutcome,
         NEW z, z = ApplyMutation(s, RecordDispatch(f)), NEW o
  PROVE  OutcomeSeen(z, o) = OutcomeSeen(s, o)
<1>1. /\ s \in FactSet
      /\ z.dispatches = Append(s.dispatches, f) /\ z.outcomes = s.outcomes
      /\ DispatchesOf(z, f.operation) =
           DispatchesOf(s, f.operation) \cup {Len(s.dispatches) + 1}
      /\ o # f.operation => EffectState(z, o) = EffectState(s, o)
  BY DispatchChange DEF FactsOK
<1>2. CASE o # f.operation
  BY <1>1, <1>2 DEF OutcomeSeen
<1>3. CASE o = f.operation
  <2>1. PICK n : n = Len(s.dispatches)
    OBVIOUS
  <2>2. n \in Nat /\ z.dispatches[n + 1] = f
    BY <1>1, <2>1, AppendedRecord DEF FactSet
  <2>3. DispatchesOf(s, o) \subseteq 1..n
    BY <2>1 DEF DispatchesOf
  <2>4. LatestDispatch(z, o) = f
    <3>1. DispatchesOf(z, o) = DispatchesOf(s, o) \cup {n + 1}
      BY <1>1, <1>3, <2>1
    <3>2. \A k \in DispatchesOf(z, o) : k <= n + 1 /\ (n + 1 <= k => k = n + 1)
      BY <2>2, <2>3, <3>1
    <3>3. (CHOOSE k \in DispatchesOf(z, o) : \A m \in DispatchesOf(z, o) : m <= k) = n + 1
      BY <3>1, <3>2
    <3>4. QED BY <2>2, <3>3 DEF LatestDispatch
  <2>5. OutcomesOfLatest(z, o) = {}
    <3>1. SUFFICES ASSUME NEW r \in s.outcomes, r.attempt = f.attempt PROVE FALSE
      BY <1>1, <2>4 DEF OutcomesOfLatest
    <3>2. \E d \in DispatchSet(s) : d.attempt = f.attempt
      BY <3>1 DEF FactsOK, Lineage
    <3>3. QED BY <3>2 DEF DispatchAccepted, Dispatched
  <2>6. EffectState(z, o) \in {"NotPrepared", "Prepared", "OutcomeUnknown"}
    BY <2>5 DEF EffectState
  <2>7. QED BY <1>3, <2>6 DEF OutcomeSeen, KnownOutcome
<1>4. QED BY <1>2, <1>3

(* A report shows on its own operation only, and there only if it is the   *)
(* first on the latest dispatch.                                           *)
LEMMA ReportSeen ==
  ASSUME NEW s, FactsOK(s), NEW f \in Outcome, OutcomeAccepted(s, f),
         NEW z, z = ApplyMutation(s, RecordOutcome(f)), NEW o
  PROVE  \/ OutcomeSeen(z, o) = OutcomeSeen(s, o)
         \/ /\ o = f.operation
            /\ OutcomeSeen(s, o) = "Unknown" /\ OutcomeSeen(z, o) = f.outcome
<1>1. /\ s \in FactSet /\ z.outcomes = s.outcomes \cup {f}
      /\ z.intents = s.intents /\ z.dispatches = s.dispatches
      /\ DispatchesOf(z, o) = DispatchesOf(s, o)
      /\ EffectState(s, o) \in KnownOutcome => EffectState(z, o) = EffectState(s, o)
  BY OutcomeChange DEF FactsOK
<1>2. CASE EffectState(s, o) \in KnownOutcome
  BY <1>1, <1>2 DEF OutcomeSeen
<1>3. CASE ~HasIntent(s, o) \/ DispatchesOf(s, o) = {}
  <2>1. EffectState(z, o) = EffectState(s, o)
    BY <1>1, <1>3 DEF EffectState, HasIntent
  <2>2. QED BY <2>1 DEF OutcomeSeen
<1>4. CASE EffectState(s, o) \notin KnownOutcome /\ HasIntent(s, o) /\ DispatchesOf(s, o) # {}
  <2>1. PICK d : d = LatestDispatch(s, o)
    OBVIOUS
  <2>2. d \in DispatchSet(s) /\ d.operation = o
    BY <1>1, <1>4, <2>1, LatestIsDispatched
  <2>3. HasIntent(z, o) /\ LatestDispatch(z, o) = d
    BY <1>1, <1>4, <2>1 DEF HasIntent, LatestDispatch
  <2>4. OutcomesOfLatest(s, o) = {}
    <3>1. EffectState(s, o) \in
            {"NotPrepared", "Prepared", "OutcomeUnknown", "Succeeded", "Failed"}
      BY <1>1, StatesOfAnEffect
    <3>2. SUFFICES ASSUME OutcomesOfLatest(s, o) # {} PROVE FALSE
      OBVIOUS
    <3>3. PICK r \in OutcomesOfLatest(s, o) : r = CHOOSE x \in OutcomesOfLatest(s, o) : TRUE
      BY <3>2
    <3>4. EffectState(s, o) = r.outcome
      BY <1>4, <3>2, <3>3 DEF EffectState
    <3>5. r.outcome \in KnownOutcome
      BY <1>1 DEF OutcomesOfLatest, FactSet, Outcome
    <3>6. QED BY <1>4, <3>4, <3>5
  <2>5. CASE f.attempt # d.attempt
    <3>1. OutcomesOfLatest(z, o) = {}
      BY <1>1, <2>1, <2>3, <2>4, <2>5 DEF OutcomesOfLatest
    <3>2. EffectState(z, o) = "OutcomeUnknown"
      BY <1>1, <1>4, <2>3, <3>1 DEF EffectState
    <3>3. QED BY <1>4, <3>2 DEF OutcomeSeen, KnownOutcome
  <2>6. CASE f.attempt = d.attempt
    <3>1. PICK e \in DispatchSet(s) : e.attempt = f.attempt /\ e.operation = f.operation
      BY DEF OutcomeAccepted
    <3>2. e = d
      BY <2>2, <2>6, <3>1 DEF FactsOK, IdentitiesUsedOnce, DispatchSet
    <3>3. OutcomesOfLatest(z, o) = {f}
      BY <1>1, <2>1, <2>3, <2>4, <2>6 DEF OutcomesOfLatest
    <3>4. (CHOOSE x \in {f} : TRUE) = f
      OBVIOUS
    <3>5. EffectState(z, o) = f.outcome
      BY <1>1, <1>4, <2>3, <3>3, <3>4 DEF EffectState
    <3>6. f.outcome \in KnownOutcome
      BY DEF Outcome
    <3>7. QED BY <1>4, <2>2, <3>1, <3>2, <3>5, <3>6 DEF OutcomeSeen
  <2>7. QED BY <2>5, <2>6
<1>5. QED BY <1>2, <1>3, <1>4

-----------------------------------------------------------------------------
(* What the facts s owe the workflow w: a task that owns an operation is   *)
(* known, and completed only on the operation's known success; and a       *)
(* non-idempotent operation is dispatched at most once.                    *)
CompletedOnSuccess(w, s) ==
  \A i \in s.intents :
    /\ i.task \in w.tasks
    /\ i.task \in w.completed => EffectState(s, i.operation) = "Succeeded"

UnsafeOnce(s) ==
  \A i \in s.intents :
    i.semantics = "NonIdempotent" => \A m, n \in DispatchesOf(s, i.operation) : m = n

Consistent(w, s) == FactsOK(s) /\ CompletedOnSuccess(w, s) /\ UnsafeOnce(s)

(* The intent of an operation is unique, so TaskOf and SemanticsOf are its *)
(* task and its semantics.                                                 *)
LEMMA TheIntent ==
  ASSUME NEW s, IdentitiesUsedOnce(s), NEW i \in s.intents
  PROVE  TaskOf(s, i.operation) = i.task /\ SemanticsOf(s, i.operation) = i.semantics
<1>1. (CHOOSE k \in s.intents : k.operation = i.operation) = i
  BY DEF IdentitiesUsedOnce
<1>2. QED BY <1>1 DEF TaskOf, SemanticsOf

(* Facts that change no effect keep what they owe the workflow.            *)
LEMMA SameEffectsConsistent ==
  ASSUME NEW w, NEW s, Consistent(w, s), NEW z, FactsOK(z), SameEffects(s, z)
  PROVE  Consistent(w, z)
BY SameEffectsSameStates DEF Consistent, CompletedOnSuccess, UnsafeOnce, SameEffects

LEMMA AdmitConsistent ==
  ASSUME NEW w, NEW s, Consistent(w, s), NEW f \in Admission, ~Admitted(s, f.attempt),
         NEW z, z = ApplyMutation(s, AdmitAttempt(f))
  PROVE  /\ Consistent(w, z) /\ SameEffects(s, z)
         /\ z.cancellations = s.cancellations
         /\ z.admissions = Append(s.admissions, f)
         /\ AdmissionSet(z) = AdmissionSet(s) \cup {f}
<1>1. s \in FactSet
  BY DEF Consistent, FactsOK
<1>2. /\ SameEffects(s, z) /\ z.cancellations = s.cancellations
      /\ z.admissions = Append(s.admissions, f)
      /\ AdmissionSet(z) = AdmissionSet(s) \cup {f}
      /\ AdmitAttempt(f) \in DurableMutation
  BY <1>1, AdmitChange
<1>3. f.run \in Run /\ MutationAccepted(s, f.run, AdmitAttempt(f))
  BY DEF Admission, MutationAccepted, AdmitAttempt, AdmitAccepted
<1>4. FactsOK(z)
  BY <1>2, <1>3, ChangeKeepsFacts DEF Changes, Consistent
<1>5. QED BY <1>2, <1>4, SameEffectsConsistent

LEMMA CancelConsistent ==
  ASSUME NEW w, NEW s, Consistent(w, s), NEW f \in Cancellation,
         CancellationAccepted(s, f.run, f),
         NEW z, z = ApplyMutation(s, RecordCancellation(f))
  PROVE  /\ Consistent(w, z) /\ SameEffects(s, z)
         /\ z.cancellations = s.cancellations \cup {f}
         /\ z.admissions = s.admissions
<1>1. s \in FactSet
  BY DEF Consistent, FactsOK
<1>2. /\ SameEffects(s, z) /\ z.cancellations = s.cancellations \cup {f}
      /\ z.admissions = s.admissions
      /\ RecordCancellation(f) \in DurableMutation
  BY <1>1, CancelChange
<1>3. f.run \in Run /\ MutationAccepted(s, f.run, RecordCancellation(f))
  BY DEF Cancellation, MutationAccepted, RecordCancellation
<1>4. FactsOK(z)
  BY <1>2, <1>3, ChangeKeepsFacts DEF Changes, Consistent
<1>5. QED BY <1>2, <1>4, SameEffectsConsistent

(* The intent of an unfinished task: a new operation was never dispatched, *)
(* because a dispatch has an intent.                                       *)
LEMMA IntentConsistent ==
  ASSUME NEW run \in Run,
         NEW w, NEW s, Consistent(w, s), NEW f \in Intent, IntentAccepted(s, f),
         f.task \in w.tasks, f.task \notin w.completed,
         NEW z, z = ApplyMutation(s, RecordIntent(f))
  PROVE  /\ Consistent(w, z)
         /\ z.intents = s.intents \cup {f}
         /\ z.admissions = s.admissions /\ z.cancellations = s.cancellations
         /\ z.dispatches = s.dispatches /\ z.outcomes = s.outcomes
         /\ \A o : DispatchesOf(z, o) = DispatchesOf(s, o)
<1>1. s \in FactSet
  BY DEF Consistent, FactsOK
<1>2. /\ z.intents = s.intents \cup {f}
      /\ z.admissions = s.admissions /\ z.cancellations = s.cancellations
      /\ z.dispatches = s.dispatches /\ z.outcomes = s.outcomes
      /\ RecordIntent(f) \in DurableMutation
      /\ \A o : DispatchesOf(z, o) = DispatchesOf(s, o)
      /\ \A o : HasIntent(s, o) => EffectState(z, o) = EffectState(s, o)
  BY <1>1, IntentChange
<1>3. FactsOK(z)
  <2>1. MutationAccepted(s, run, RecordIntent(f))
    BY DEF MutationAccepted, RecordIntent
  <2>2. QED BY <1>2, <2>1, ChangeKeepsFacts DEF Changes, Consistent
<1>4. CompletedOnSuccess(w, z)
  <2>1. \A i \in s.intents : HasIntent(s, i.operation)
    BY DEF HasIntent
  <2>2. QED BY <1>2, <2>1 DEF CompletedOnSuccess, Consistent
<1>5. UnsafeOnce(z)
  <2>1. \A i \in s.intents : i.semantics = "NonIdempotent" =>
          \A m, n \in DispatchesOf(z, i.operation) : m = n
    BY <1>2 DEF Consistent, UnsafeOnce
  <2>2. f \in s.intents \/ DispatchesOf(z, f.operation) = {}
    <3>1. SUFFICES ASSUME f \notin s.intents, NEW n \in DispatchesOf(s, f.operation)
                   PROVE  FALSE
      BY <1>2
    <3>2. s.dispatches[n] \in DispatchSet(s) /\ s.dispatches[n].operation = f.operation
      BY DEF DispatchesOf, DispatchSet
    <3>3. \E i \in s.intents : i.operation = f.operation
      BY <3>2 DEF Consistent, FactsOK, Lineage
    <3>4. QED BY <3>1, <3>3 DEF IntentAccepted
  <2>3. QED BY <1>2, <2>1, <2>2 DEF UnsafeOnce
<1>6. QED BY <1>2, <1>3, <1>4, <1>5 DEF Consistent

(* A dispatch of an operation that is Prepared, or whose outcome is        *)
(* unknown and that is idempotent: its task is not completed, and a        *)
(* non-idempotent one has no dispatch yet.                                 *)
LEMMA DispatchConsistent ==
  ASSUME NEW run \in Run,
         NEW w, NEW s, Consistent(w, s), NEW f \in Dispatch, DispatchAccepted(s, f),
         \/ EffectState(s, f.operation) = "Prepared"
         \/ /\ EffectState(s, f.operation) = "OutcomeUnknown"
            /\ SemanticsOf(s, f.operation) = "Idempotent",
         NEW z, z = ApplyMutation(s, RecordDispatch(f))
  PROVE  /\ Consistent(w, z)
         /\ z.dispatches = Append(s.dispatches, f)
         /\ z.admissions = s.admissions /\ z.cancellations = s.cancellations
         /\ z.intents = s.intents /\ z.outcomes = s.outcomes
         /\ \A o : o # f.operation => DispatchesOf(z, o) = DispatchesOf(s, o)
<1>1. s \in FactSet /\ IdentitiesUsedOnce(s)
  BY DEF Consistent, FactsOK
<1>2. /\ z.dispatches = Append(s.dispatches, f)
      /\ z.admissions = s.admissions /\ z.cancellations = s.cancellations
      /\ z.intents = s.intents /\ z.outcomes = s.outcomes
      /\ RecordDispatch(f) \in DurableMutation
      /\ DispatchesOf(z, f.operation) = DispatchesOf(s, f.operation) \cup {Len(s.dispatches) + 1}
      /\ \A o : o # f.operation => /\ DispatchesOf(z, o) = DispatchesOf(s, o)
                                   /\ EffectState(z, o) = EffectState(s, o)
  BY <1>1, DispatchChange
<1>3. FactsOK(z)
  <2>1. MutationAccepted(s, run, RecordDispatch(f))
    BY DEF MutationAccepted, RecordDispatch
  <2>2. QED BY <1>2, <2>1, ChangeKeepsFacts DEF Changes, Consistent
<1>4. CompletedOnSuccess(w, z)
  <2>1. SUFFICES ASSUME NEW i \in s.intents
                 PROVE  /\ i.task \in w.tasks
                        /\ i.task \in w.completed => EffectState(z, i.operation) = "Succeeded"
    BY <1>2 DEF CompletedOnSuccess
  <2>2. /\ i.task \in w.tasks
        /\ i.task \in w.completed => EffectState(s, i.operation) = "Succeeded"
    BY DEF Consistent, CompletedOnSuccess
  <2>3. CASE i.operation = f.operation
    BY <2>2, <2>3
  <2>4. CASE i.operation # f.operation
    BY <1>2, <2>2, <2>4
  <2>5. QED BY <2>3, <2>4
<1>5. UnsafeOnce(z)
  <2>1. SUFFICES ASSUME NEW i \in s.intents, i.semantics = "NonIdempotent"
                 PROVE  \A m, n \in DispatchesOf(z, i.operation) : m = n
    BY <1>2 DEF UnsafeOnce
  <2>2. CASE i.operation = f.operation
    <3>1. SemanticsOf(s, f.operation) # "Idempotent"
      BY <1>1, <2>1, <2>2, TheIntent
    <3>2. HasIntent(s, f.operation)
      BY <2>2 DEF HasIntent
    <3>3. DispatchesOf(s, f.operation) = {}
      BY <1>1, <3>1, <3>2, StatesOfAnEffect
    <3>4. QED BY <1>2, <2>2, <3>3
  <2>3. CASE i.operation # f.operation
    BY <1>2, <2>1, <2>3 DEF Consistent, UnsafeOnce
  <2>4. QED BY <2>2, <2>3
<1>6. QED BY <1>2, <1>3, <1>4, <1>5 DEF Consistent

LEMMA OutcomeConsistent ==
  ASSUME NEW run \in Run,
         NEW w, NEW s, Consistent(w, s), NEW f \in Outcome, OutcomeAccepted(s, f),
         NEW z, z = ApplyMutation(s, RecordOutcome(f))
  PROVE  /\ Consistent(w, z)
         /\ z.outcomes = s.outcomes \cup {f}
         /\ z.admissions = s.admissions /\ z.cancellations = s.cancellations
         /\ z.intents = s.intents /\ z.dispatches = s.dispatches
         /\ \A o : DispatchesOf(z, o) = DispatchesOf(s, o)
<1>1. /\ z.outcomes = s.outcomes \cup {f}
      /\ z.admissions = s.admissions /\ z.cancellations = s.cancellations
      /\ z.intents = s.intents /\ z.dispatches = s.dispatches
      /\ RecordOutcome(f) \in DurableMutation
      /\ \A o : DispatchesOf(z, o) = DispatchesOf(s, o)
      /\ \A o : EffectState(s, o) \in KnownOutcome => EffectState(z, o) = EffectState(s, o)
  BY OutcomeChange DEF Consistent
<1>2. FactsOK(z)
  <2>1. MutationAccepted(s, run, RecordOutcome(f))
    BY DEF MutationAccepted, RecordOutcome
  <2>2. QED BY <1>1, <2>1, ChangeKeepsFacts DEF Changes, Consistent
<1>3. CompletedOnSuccess(w, z)
  BY <1>1 DEF CompletedOnSuccess, Consistent, KnownOutcome
<1>4. UnsafeOnce(z)
  BY <1>1 DEF UnsafeOnce, Consistent
<1>5. QED BY <1>1, <1>2, <1>3, <1>4 DEF Consistent

(* Recovery, which reads a view of the facts, meets no contradiction, and  *)
(* completes only on a known success.                                      *)
LEMMA ConsistentRecovery ==
  ASSUME NEW w, NEW s, Consistent(w, s), NEW j, j = JournalView(s), NEW i \in s.intents
  PROVE  /\ RecoveryAction(w.tasks, w.completed, j, i.operation) # "InvariantViolation"
         /\ RecoveryAction(w.tasks, w.completed, j, i.operation) = "CompleteWithoutReexecution"
              => EffectState(s, i.operation) = "Succeeded"
<1>1. TaskOf(j, i.operation) = i.task
  BY TheIntent, ViewDerivesTheSame DEF Consistent, FactsOK
<1>2. HasIntent(s, i.operation)
  BY DEF HasIntent
<1>3. EffectState(s, i.operation) \in {"Prepared", "OutcomeUnknown", "Succeeded", "Failed"}
  BY <1>2, StatesOfAnEffect DEF Consistent, FactsOK
<1>4. EffectState(j, i.operation) = EffectState(s, i.operation)
  BY ViewDerivesTheSame
<1>5. ~(i.task \notin w.tasks \/ (i.task \in w.completed /\ EffectState(s, i.operation) # "Succeeded"))
  BY DEF Consistent, CompletedOnSuccess
<1>6. QED BY <1>1, <1>3, <1>4, <1>5 DEF RecoveryAction
-----------------------------------------------------------------------------
(* What later facts z owe earlier facts s: nothing recorded is taken back, *)
(* a cancelled task's operation is dispatched no more, and a known outcome *)
(* stays known until the operation is dispatched again.                    *)
Follows(s, z) ==
  /\ s.intents \subseteq z.intents /\ s.cancellations \subseteq z.cancellations
  /\ \A o : DispatchesOf(s, o) \subseteq DispatchesOf(z, o)
  /\ \A c \in s.cancellations, i \in s.intents :
       i.task = c.task => DispatchesOf(z, i.operation) = DispatchesOf(s, i.operation)
  /\ \A o : /\ EffectState(s, o) \in KnownOutcome
            /\ DispatchesOf(z, o) = DispatchesOf(s, o)
            => EffectState(z, o) = EffectState(s, o)

LEMMA FollowsItself ==
  ASSUME NEW s
  PROVE  Follows(s, s)
BY DEF Follows

LEMMA FollowsOn ==
  ASSUME NEW s, NEW x, NEW z, Follows(s, x), Follows(x, z)
  PROVE  Follows(s, z)
<1>1. s.intents \subseteq z.intents /\ s.cancellations \subseteq z.cancellations
  BY DEF Follows
<1>2. ASSUME NEW o
      PROVE  /\ DispatchesOf(s, o) \subseteq DispatchesOf(x, o)
             /\ DispatchesOf(x, o) \subseteq DispatchesOf(z, o)
  BY DEF Follows
<1>3. ASSUME NEW c \in s.cancellations, NEW i \in s.intents, i.task = c.task
      PROVE  DispatchesOf(z, i.operation) = DispatchesOf(s, i.operation)
  <2>1. c \in x.cancellations /\ i \in x.intents
    BY DEF Follows
  <2>2. DispatchesOf(x, i.operation) = DispatchesOf(s, i.operation)
    BY <1>3 DEF Follows
  <2>3. DispatchesOf(z, i.operation) = DispatchesOf(x, i.operation)
    BY <1>3, <2>1 DEF Follows
  <2>4. QED BY <2>2, <2>3
<1>4. ASSUME NEW o, EffectState(s, o) \in KnownOutcome, DispatchesOf(z, o) = DispatchesOf(s, o)
      PROVE  EffectState(z, o) = EffectState(s, o)
  <2>1. DispatchesOf(x, o) = DispatchesOf(s, o)
    BY <1>2, <1>4
  <2>2. EffectState(x, o) = EffectState(s, o)
    BY <1>4, <2>1 DEF Follows
  <2>3. EffectState(z, o) = EffectState(x, o)
    BY <1>4, <2>1, <2>2 DEF Follows
  <2>4. QED BY <2>2, <2>3
<1>5. QED BY <1>1, <1>2, <1>3, <1>4 DEF Follows

(* An accepted mutation is such a step: a dispatch is accepted only for an *)
(* operation whose task is not cancelled, and that task owns it alone.     *)
LEMMA AppliedFollows ==
  ASSUME NEW s, FactsOK(s), NEW run \in Run, NEW m \in DurableMutation,
         MutationAccepted(s, run, m)
  PROVE  Follows(s, ApplyMutation(s, m))
<1> DEFINE z == ApplyMutation(s, m)
           f == m.fact
<1>1. s \in FactSet
  BY DEF FactsOK
<1>2. m = [kind |-> m.kind, fact |-> f]
  BY DEF DurableMutation
<1>3. CASE m.kind = "AdmitAttempt" /\ f \in Admission
  <2>1. SameEffects(s, z) /\ z.cancellations = s.cancellations
    BY <1>1, <1>2, <1>3, AdmitChange DEF AdmitAttempt
  <2> HIDE DEF z
  <2>2. QED BY <2>1, SameEffectsSameStates DEF Follows, SameEffects, z
<1>4. CASE m.kind = "RecordCancellation" /\ f \in Cancellation
  <2>1. SameEffects(s, z) /\ z.cancellations = s.cancellations \cup {f}
    BY <1>1, <1>2, <1>4, CancelChange DEF RecordCancellation
  <2> HIDE DEF z
  <2>2. QED BY <2>1, SameEffectsSameStates DEF Follows, SameEffects, z
<1>5. CASE m.kind = "RecordIntent" /\ f \in Intent
  <2>1. /\ z.intents = s.intents \cup {f} /\ z.cancellations = s.cancellations
        /\ \A o : DispatchesOf(z, o) = DispatchesOf(s, o)
        /\ \A o : HasIntent(s, o) => EffectState(z, o) = EffectState(s, o)
    BY <1>1, <1>2, <1>5, IntentChange DEF RecordIntent
  <2>2. \A o : EffectState(s, o) \in KnownOutcome => HasIntent(s, o)
    BY <1>1, StatesOfAnEffect DEF KnownOutcome
  <2> HIDE DEF z
  <2>3. QED BY <2>1, <2>2 DEF Follows, z
<1>6. CASE m.kind = "RecordDispatch" /\ f \in Dispatch
  <2>1. /\ z.intents = s.intents /\ z.cancellations = s.cancellations
        /\ DispatchesOf(z, f.operation) =
             DispatchesOf(s, f.operation) \cup {Len(s.dispatches) + 1}
        /\ \A o : o # f.operation => /\ DispatchesOf(z, o) = DispatchesOf(s, o)
                                     /\ EffectState(z, o) = EffectState(s, o)
    BY <1>1, <1>2, <1>6, DispatchChange DEF RecordDispatch
  <2>2. Len(s.dispatches) + 1 \notin DispatchesOf(s, f.operation)
    BY <1>1 DEF DispatchesOf, FactSet
  <2>3. PICK i \in s.intents : i.operation = f.operation /\ ~Cancelled(s, i.task)
    BY <1>6 DEF MutationAccepted, DispatchAccepted
  <2>4. \A c \in s.cancellations, k \in s.intents : k.task = c.task => k.operation # f.operation
    BY <2>3 DEF FactsOK, IdentitiesUsedOnce, Cancelled
  <2> HIDE DEF z, f
  <2>5. DispatchesOf(z, f.operation) # DispatchesOf(s, f.operation)
    BY <2>1, <2>2
  <2>6. \A o : DispatchesOf(s, o) \subseteq DispatchesOf(z, o)
    BY <2>1
  <2>7. QED BY <2>1, <2>4, <2>5, <2>6 DEF Follows, z
<1>7. CASE m.kind = "RecordOutcome" /\ f \in Outcome
  <2>1. OutcomeAccepted(s, f)
    BY <1>7 DEF MutationAccepted
  <2>2. /\ z.intents = s.intents /\ z.cancellations = s.cancellations
        /\ \A o : DispatchesOf(z, o) = DispatchesOf(s, o)
        /\ \A o : EffectState(s, o) \in KnownOutcome => EffectState(z, o) = EffectState(s, o)
    BY <1>2, <1>7, <2>1, OutcomeChange DEF RecordOutcome
  <2> HIDE DEF z
  <2>3. QED BY <2>2 DEF Follows, z
<1>8. QED BY <1>3, <1>4, <1>5, <1>6, <1>7, DurableMutationForm
=============================================================================
