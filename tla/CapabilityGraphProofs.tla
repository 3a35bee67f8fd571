----------------------- MODULE CapabilityGraphProofs -----------------------
(***************************************************************************)
(* Proofs about CapabilityResolver and CapabilityScope, for every set of   *)
(* capabilities, callers and definitions, graphs and trees of any shape    *)
(* and any number of publications.                                         *)
(***************************************************************************)
EXTENDS CapabilityScope, CapabilityResolver, SequenceTheorems, WellFoundedInduction, TLAPS

(* Part 1: the resolver.                                                   *)
-----------------------------------------------------------------------------
(* The stack of visit() calls: the active capabilities, each required by   *)
(* the one below it, with nothing of their loops forgotten.                *)
StackIsActive ==
  /\ IsInjective(active_path)
  /\ \A c \in Capabilities :
       states[c] = "Active" <=> \E i \in DOMAIN active_path : active_path[i] = c

PathIsAWalk ==
  \A i \in DOMAIN active_path :
    /\ active_path[i] \in DOMAIN definitions
    /\ i < Len(active_path) => active_path[i + 1] \in definitions[active_path[i]]

LoopsAreKept ==
  \A i \in DOMAIN active_path :
    /\ pending[active_path[i]] \subseteq definitions[active_path[i]]
    /\ \A d \in definitions[active_path[i]] \ pending[active_path[i]] :
         states[d] = "Done" \/ (i < Len(active_path) /\ d = active_path[i + 1])

OrderIsDone ==
  /\ IsInjective(construction_order)
  /\ \A c \in Capabilities :
       states[c] = "Done" <=> \E i \in DOMAIN construction_order : construction_order[i] = c

DependenciesFirst ==
  \A i \in DOMAIN construction_order :
    /\ construction_order[i] \in DOMAIN definitions
    /\ \A d \in definitions[construction_order[i]] :
         \E j \in 1..(i - 1) : construction_order[j] = d

KeysRemain ==
  /\ keys \subseteq DOMAIN definitions
  /\ \A c \in DOMAIN definitions \ keys : states[c] # "None"

Traversal ==
  /\ StackIsActive /\ PathIsAWalk /\ LoopsAreKept
  /\ OrderIsDone /\ DependenciesFirst /\ KeysRemain

ResolverInv ==
  /\ ResolverTypeOK
  /\ outcome = "Running" => Traversal
  /\ ResolutionIsExact

-----------------------------------------------------------------------------
LEMMA GraphForm ==
  ASSUME NEW g
  PROVE  g \in Graph <=>
           /\ g = [c \in DOMAIN g |-> g[c]]
           /\ DOMAIN g \subseteq Capabilities
           /\ \A c \in DOMAIN g : g[c] \subseteq Capabilities
<1>1. ASSUME g \in Graph
      PROVE  /\ g = [c \in DOMAIN g |-> g[c]]
             /\ DOMAIN g \subseteq Capabilities
             /\ \A c \in DOMAIN g : g[c] \subseteq Capabilities
  <2>1. PICK D \in SUBSET Capabilities : g \in [D -> SUBSET Capabilities]
    BY <1>1 DEF Graph
  <2>2. QED BY <2>1
<1>2. ASSUME g = [c \in DOMAIN g |-> g[c]], DOMAIN g \subseteq Capabilities,
             \A c \in DOMAIN g : g[c] \subseteq Capabilities
      PROVE  g \in Graph
  <2>1. g \in [DOMAIN g -> SUBSET Capabilities] /\ DOMAIN g \in SUBSET Capabilities
    BY <1>2
  <2>2. QED BY <2>1 DEF Graph
<1>3. QED BY <1>1, <1>2

(* A set of naturals has a least element.                                  *)
LEMMA LeastExists ==
  ASSUME NEW S \in SUBSET Nat, S # {}
  PROVE  \E m \in S : \A k \in S : m <= k
<1> DEFINE R == OpToRel(<, Nat)
<1>1. IsWellFoundedOn(R, Nat)
  BY NatLessThanWellFounded
<1>2. \A x, y \in Nat : x < y => <<x, y>> \in R
  BY DEF OpToRel
<1> HIDE DEF R
<1>3. PICK m \in S : \A y \in S : ~(<<y, m>> \in R)
  BY <1>1, WFMin
<1>4. ASSUME NEW k \in S
      PROVE  m <= k
  <2>1. m \in Nat /\ k \in Nat
    OBVIOUS
  <2>2. ~(k < m)
    BY <1>2, <1>3, <2>1
  <2>3. QED BY <2>1, <2>2
<1>5. QED BY <1>4

LEMMA LeastIsFirst ==
  ASSUME NEW S \in SUBSET Capabilities, S # {}
  PROVE  Least(S) \in S
<1>1. \E m \in S : \A k \in S : m <= k
  BY CapabilitiesAssumption, LeastExists
<1>2. QED BY <1>1 DEF Least

(* A graph with a dependency-first order of all its capabilities can be    *)
(* constructed: in any set the one that comes first waits on none of it.   *)
LEMMA OrderedIsResolvable ==
  ASSUME definitions \in Graph, construction_order \in Seq(Capabilities),
         DependenciesFirst, ToSet(construction_order) = DOMAIN definitions
  PROVE  Resolvable(definitions)
<1>1. DOMAIN construction_order = 1..Len(construction_order) /\ Len(construction_order) \in Nat
  OBVIOUS
<1>2. \A c \in DOMAIN definitions : \E i \in DOMAIN construction_order : construction_order[i] = c
  BY DEF ToSet
<1>3. \A i \in DOMAIN construction_order : construction_order[i] \in DOMAIN definitions
  BY DEF ToSet
<1>4. \A c \in DOMAIN definitions : definitions[c] \subseteq DOMAIN definitions
  BY <1>1, <1>2, <1>3 DEF DependenciesFirst
<1>5. ASSUME NEW S \in SUBSET DOMAIN definitions, S # {}
      PROVE  \E c \in S : definitions[c] \cap S = {}
  <2> DEFINE I == { i \in DOMAIN construction_order : construction_order[i] \in S }
  <2>1. I # {} /\ I \subseteq Nat
    BY <1>1, <1>2, <1>5
  <2>2. PICK m \in I : \A k \in I : m <= k
    BY <2>1, LeastExists
  <2>3. m \in 1..Len(construction_order)
    BY <1>1
  <2>4. ASSUME NEW j \in 1..(m - 1) PROVE construction_order[j] \notin S
    <3>1. j \in DOMAIN construction_order /\ j < m
      BY <1>1, <2>3
    <3>2. QED BY <1>1, <2>2, <2>3, <3>1
  <2>6. definitions[construction_order[m]] \cap S = {}
    BY <2>4 DEF DependenciesFirst
  <2>7. QED BY <2>6
<1>6. QED BY <1>4, <1>5 DEF Resolvable, Acyclic

(* Capabilities each of which waits on another of them cannot be           *)
(* constructed.                                                            *)
LEMMA WaitingIsNotResolvable ==
  ASSUME NEW S \in SUBSET DOMAIN definitions, S # {}, \A c \in S : definitions[c] \cap S # {}
  PROVE  ~Resolvable(definitions)
BY DEF Resolvable, Acyclic

-----------------------------------------------------------------------------
(* The steps of the traversal.                                             *)
LEMMA EnterStep ==
  ASSUME ResolverTypeOK, Traversal, UNCHANGED <<definitions, construction_order>>,
         NEW c \in DOMAIN definitions, states[c] = "None",
         NEW remaining \in [Capabilities -> SUBSET Capabilities],
         states' = [states EXCEPT ![c] = "Active"],
         active_path' = Append(active_path, c),
         pending' = [remaining EXCEPT ![c] = definitions[c]],
         keys \ {c} \subseteq keys', keys' \subseteq keys,
         \A i \in DOMAIN active_path :
           /\ remaining[active_path[i]] \subseteq pending[active_path[i]]
           /\ i < Len(active_path) => remaining[active_path[i]] = pending[active_path[i]]
           /\ i = Len(active_path) =>
                /\ remaining[active_path[i]] = pending[active_path[i]] \ {c}
                /\ c \in pending[active_path[i]]
  PROVE  Traversal'
<1> DEFINE n == Len(active_path)
<1>0. /\ definitions \in Graph /\ active_path \in Seq(Capabilities)
      /\ states \in [Capabilities -> {"None", "Active", "Done"}]
  BY DEF ResolverTypeOK
<1>1. c \in Capabilities /\ definitions[c] \subseteq Capabilities
  BY <1>0, GraphForm
<1>2. /\ n = Len(active_path) /\ n \in Nat /\ DOMAIN active_path = 1..n /\ DOMAIN active_path' = 1..(n + 1)
      /\ Len(active_path') = n + 1 /\ active_path'[n + 1] = c
      /\ \A i \in 1..n : active_path'[i] = active_path[i] /\ active_path[i] \in Capabilities
  BY <1>0, <1>1
<1> HIDE DEF n
<1>3. \A i \in 1..n : active_path[i] # c /\ states[active_path[i]] = "Active"
  BY <1>2 DEF Traversal, StackIsActive
<1>4. \A d \in Capabilities : states'[d] = IF d = c THEN "Active" ELSE states[d]
  BY <1>0
<1>5. StackIsActive'
  <2>1. IsInjective(active_path)'
    BY <1>2, <1>3 DEF Traversal, StackIsActive, IsInjective
  <2>2. ASSUME NEW d \in Capabilities
        PROVE  states'[d] = "Active" <=> \E i \in DOMAIN active_path' : active_path'[i] = d
    BY <1>2, <1>4 DEF Traversal, StackIsActive
  <2>3. QED BY <2>1, <2>2 DEF StackIsActive
<1>6. PathIsAWalk'
  BY <1>2 DEF Traversal, PathIsAWalk, LoopsAreKept
<1>7. LoopsAreKept'
  <2>1. ASSUME NEW i \in 1..n
        PROVE  /\ pending'[active_path'[i]] \subseteq definitions[active_path'[i]]
               /\ \A d \in definitions[active_path'[i]] \ pending'[active_path'[i]] :
                    states'[d] = "Done" \/ (i < n + 1 /\ d = active_path'[i + 1])
    <3>1. pending'[active_path'[i]] = remaining[active_path[i]]
      BY <1>2, <1>3
    <3>2. active_path[i] \in DOMAIN definitions /\ definitions[active_path[i]] \subseteq Capabilities
      BY <1>0, <1>2, GraphForm DEF Traversal, PathIsAWalk
    <3>3. CASE i < n
      BY <1>2, <1>4, <3>1, <3>2, <3>3 DEF Traversal, LoopsAreKept
    <3>4. CASE i = n
      BY <1>2, <1>4, <3>1, <3>2, <3>4 DEF Traversal, LoopsAreKept
    <3>5. QED BY <1>2, <3>3, <3>4
  <2>2. pending'[c] = definitions[c]
    BY <1>1
  <2>3. QED BY <1>2, <2>1, <2>2 DEF LoopsAreKept
<1>8. OrderIsDone' /\ DependenciesFirst'
  BY <1>4 DEF Traversal, OrderIsDone, DependenciesFirst
<1>9. KeysRemain'
  BY <1>0, <1>4, GraphForm DEF Traversal, KeysRemain
<1>10. QED BY <1>5, <1>6, <1>7, <1>8, <1>9 DEF Traversal

LEMMA SkipStep ==
  ASSUME ResolverTypeOK, Traversal, UNCHANGED <<definitions, construction_order, states, active_path>>,
         NEW c \in Capabilities, states[c] = "Done",
         keys \ {c} \subseteq keys', keys' \subseteq keys,
         \A i \in DOMAIN active_path :
           /\ pending'[active_path[i]] \subseteq pending[active_path[i]]
           /\ pending[active_path[i]] \ {c} \subseteq pending'[active_path[i]]
  PROVE  Traversal'
<1>1. LoopsAreKept'
  BY DEF Traversal, LoopsAreKept
<1>2. KeysRemain'
  BY DEF Traversal, KeysRemain
<1>3. StackIsActive' /\ PathIsAWalk' /\ OrderIsDone' /\ DependenciesFirst'
  BY DEF Traversal, StackIsActive, PathIsAWalk, OrderIsDone, DependenciesFirst
<1>4. QED BY <1>1, <1>2, <1>3 DEF Traversal

LEMMA ReturnStep ==
  ASSUME ResolverTypeOK, Traversal, VisitReturns
  PROVE  ResolverTypeOK' /\ Traversal'
<1> DEFINE n == Len(active_path)
           m == Len(construction_order)
<1>0. /\ definitions \in Graph /\ active_path \in Seq(Capabilities)
      /\ construction_order \in Seq(Capabilities)
      /\ states \in [Capabilities -> {"None", "Active", "Done"}]
  BY DEF ResolverTypeOK
<1>1. n = Len(active_path) /\ n \in Nat \ {0} /\ DOMAIN active_path = 1..n /\ Top = active_path[n]
  BY <1>0 DEF VisitReturns, Top, Last
<1>2. Top \in Capabilities /\ Top \in DOMAIN definitions /\ definitions[Top] \subseteq Capabilities
  <2>1. n \in DOMAIN active_path /\ active_path[n] \in Capabilities
    BY <1>0, <1>1
  <2>2. active_path[n] \in DOMAIN definitions
    BY <2>1 DEF Traversal, PathIsAWalk
  <2>3. QED BY <1>0, <1>1, <2>1, <2>2, GraphForm
<1>3. /\ active_path' \in Seq(Capabilities) /\ Len(active_path') = n - 1
      /\ DOMAIN active_path' = 1..(n - 1)
      /\ \A i \in 1..(n - 1) : active_path'[i] = active_path[i]
  <2>1. active_path' = SubSeq(active_path, 1, n - 1)
    BY DEF VisitReturns, Front
  <2>2. QED BY <1>0, <1>1, <2>1
<1>4. /\ m = Len(construction_order)
      /\ construction_order' \in Seq(Capabilities) /\ Len(construction_order') = m + 1 /\ m \in Nat
      /\ DOMAIN construction_order = 1..m /\ DOMAIN construction_order' = 1..(m + 1)
      /\ construction_order'[m + 1] = Top
      /\ \A i \in 1..m : construction_order'[i] = construction_order[i]
                         /\ construction_order[i] \in Capabilities
  BY <1>0, <1>2 DEF VisitReturns
<1> HIDE DEF n, m
<1>5. \A d \in Capabilities : states'[d] = IF d = Top THEN "Done" ELSE states[d]
  BY <1>0 DEF VisitReturns
<1>6. ResolverTypeOK'
  BY <1>2, <1>3, <1>4 DEF VisitReturns, ResolverTypeOK
<1>7. states[Top] = "Active" /\ \A i \in 1..(n - 1) : active_path[i] # Top
  BY <1>1, <1>2 DEF Traversal, StackIsActive, IsInjective
<1>8. \A d \in definitions[Top] : states[d] = "Done"
  BY <1>1 DEF Traversal, LoopsAreKept, VisitReturns
<1>9. StackIsActive'
  <2>1. IsInjective(active_path)'
    BY <1>1, <1>3 DEF Traversal, StackIsActive, IsInjective
  <2>2. ASSUME NEW d \in Capabilities
        PROVE  states'[d] = "Active" <=> \E i \in DOMAIN active_path' : active_path'[i] = d
    <3>1. CASE d = Top
      BY <1>1, <1>3, <1>5, <1>7, <3>1
    <3>2. CASE d # Top
      <4>1. \A i \in 1..n : active_path[i] = d => i \in 1..(n - 1)
        BY <1>1, <3>2
      <4>2. QED BY <1>1, <1>3, <1>5, <3>2, <4>1 DEF Traversal, StackIsActive
    <3>3. QED BY <3>1, <3>2
  <2>3. QED BY <2>1, <2>2 DEF StackIsActive
<1>10. PathIsAWalk'
  <2>1. ASSUME NEW i \in 1..(n - 1)
        PROVE  /\ active_path[i] \in DOMAIN definitions
               /\ i < n - 1 => active_path[i + 1] \in definitions[active_path[i]]
    <3>1. i \in DOMAIN active_path /\ (i < n - 1 => i < Len(active_path))
      BY <1>1
    <3>2. QED BY <3>1 DEF Traversal, PathIsAWalk
  <2>2. definitions' = definitions
    BY DEF VisitReturns
  <2>3. \A i \in 1..(n - 1) : i < n - 1 => i + 1 \in 1..(n - 1)
    BY <1>1
  <2>4. QED BY <1>3, <2>1, <2>2, <2>3 DEF PathIsAWalk
<1>11. LoopsAreKept'
  <2>1. ASSUME NEW i \in 1..(n - 1), NEW d \in definitions[active_path[i]] \ pending[active_path[i]]
        PROVE  states'[d] = "Done" \/ (i < n - 1 /\ d = active_path'[i + 1])
    <3>1. d \in Capabilities
      BY <1>0, <1>1, GraphForm DEF Traversal, PathIsAWalk
    <3>2. states[d] = "Done" \/ (i < n /\ d = active_path[i + 1])
      BY <1>1 DEF Traversal, LoopsAreKept
    <3>3. CASE states[d] = "Done"
      BY <1>5, <3>1, <3>3
    <3>4. CASE i < n /\ d = active_path[i + 1]
      <4>1. CASE i = n - 1
        BY <1>1, <1>5, <3>1, <3>4, <4>1
      <4>2. CASE i < n - 1
        BY <1>1, <1>3, <3>4, <4>2
      <4>3. QED BY <1>1, <4>1, <4>2
    <3>5. QED BY <3>2, <3>3, <3>4
  <2>2. \A i \in 1..(n - 1) : pending[active_path[i]] \subseteq definitions[active_path[i]]
    BY <1>1 DEF Traversal, LoopsAreKept
  <2>3. pending' = pending /\ definitions' = definitions
    BY DEF VisitReturns
  <2>4. QED BY <1>3, <2>1, <2>2, <2>3 DEF LoopsAreKept
<1>12. OrderIsDone'
  <2>1. \A i \in 1..m : construction_order[i] # Top
    BY <1>2, <1>4, <1>7 DEF Traversal, OrderIsDone
  <2>2. IsInjective(construction_order)'
    BY <1>4, <2>1 DEF Traversal, OrderIsDone, IsInjective
  <2>3. ASSUME NEW d \in Capabilities
        PROVE  states'[d] = "Done" <=> \E i \in DOMAIN construction_order' : construction_order'[i] = d
    <3>1. CASE d = Top
      BY <1>4, <1>5, <3>1
    <3>2. CASE d # Top
      BY <1>4, <1>5, <3>2 DEF Traversal, OrderIsDone
    <3>3. QED BY <3>1, <3>2
  <2>4. QED BY <2>2, <2>3 DEF OrderIsDone
<1>13. DependenciesFirst'
  <2>1. definitions' = definitions
    BY DEF VisitReturns
  <2>2. ASSUME NEW d \in definitions[Top] PROVE \E j \in 1..m : construction_order'[j] = d
    BY <1>2, <1>4, <1>8 DEF Traversal, OrderIsDone
  <2>3. ASSUME NEW i \in 1..m
        PROVE  /\ construction_order'[i] \in DOMAIN definitions
               /\ \A d \in definitions[construction_order'[i]] :
                    \E j \in 1..(i - 1) : construction_order'[j] = d
    BY <1>4 DEF Traversal, DependenciesFirst
  <2>4. QED BY <1>2, <1>4, <2>1, <2>2, <2>3 DEF DependenciesFirst
<1>14. KeysRemain'
  BY <1>0, <1>5, GraphForm DEF Traversal, KeysRemain, VisitReturns
<1>15. QED BY <1>6, <1>9, <1>10, <1>11, <1>12, <1>13, <1>14 DEF Traversal
(* What a cycle error names is a cycle.                                    *)
LEMMA CycleStep ==
  ASSUME ResolverTypeOK, Traversal, active_path # <<>>, definitions' = definitions,
         NEW d \in pending[Top], d \in DOMAIN definitions, states[d] = "Active",
         witness' = ErrorPath(d)
  PROVE  ~Resolvable(definitions) /\ witness' \in Seq(Capabilities) /\ WitnessIsCycle'
<1> DEFINE n == Len(active_path)
           k == CHOOSE i \in DOMAIN active_path : active_path[i] = d
           slice == SubSeq(active_path, k, n)
           m == n - k + 1
<1>0. /\ definitions \in Graph /\ active_path \in Seq(Capabilities)
      /\ d \in Capabilities
  BY GraphForm DEF ResolverTypeOK
<1>1. n = Len(active_path) /\ n \in Nat \ {0} /\ DOMAIN active_path = 1..n /\ Top = active_path[n]
  BY <1>0 DEF Top, Last
<1>2. k \in 1..n /\ active_path[k] = d
  <2>1. \E i \in DOMAIN active_path : active_path[i] = d
    BY <1>0 DEF Traversal, StackIsActive
  <2>2. QED BY <1>1, <2>1
<1>3. witness' = slice \o <<d>>
  BY DEF ErrorPath
<1> HIDE DEF n, k
<1>4. /\ slice \in Seq(Capabilities) /\ Len(slice) = m /\ m \in Nat \ {0}
      /\ \A i \in 1..m : slice[i] = active_path[k + i - 1] /\ k + i - 1 \in 1..n
  BY <1>0, <1>1, <1>2
<1>5. slice[1] = d /\ slice[m] = Top
  BY <1>1, <1>2, <1>4
<1>6. m = Len(slice)
  BY <1>4
<1> HIDE DEF slice, m
<1>7. /\ witness' \in Seq(Capabilities) /\ Len(witness') = m + 1 /\ witness'[m + 1] = d
      /\ \A i \in 1..m : witness'[i] = slice[i]
  BY <1>0, <1>3, <1>4
<1>8. Front(witness)' = slice
  <2>1. Front(witness)' = SubSeq(witness', 1, m)
    BY <1>4, <1>7 DEF Front
  <2>2. /\ SubSeq(witness', 1, m) \in Seq(Capabilities) /\ Len(SubSeq(witness', 1, m)) = m
        /\ \A i \in 1..m : SubSeq(witness', 1, m)[i] = witness'[i]
    BY <1>4, <1>7
  <2>3. QED BY <1>4, <1>7, <2>1, <2>2, SeqEqual
<1>9. d \in definitions[Top]
  <2>1. n \in DOMAIN active_path
    BY <1>1
  <2>2. QED BY <1>1, <2>1 DEF Traversal, LoopsAreKept
<1>10. /\ \A i \in 1..n : active_path[i] \in DOMAIN definitions
       /\ \A i \in 1..n : i < n => active_path[i + 1] \in definitions[active_path[i]]
  BY <1>1 DEF Traversal, PathIsAWalk
<1>11. ASSUME NEW i \in 1..m
       PROVE  witness'[i] \in DOMAIN definitions /\ witness'[i + 1] \in definitions[witness'[i]]
  <2>1. CASE i = m
    <3>1. witness'[m] = Top /\ witness'[m + 1] = d
      BY <1>4, <1>5, <1>7
    <3>2. Top \in DOMAIN definitions
      <4>1. n \in 1..n
        BY <1>1
      <4>2. QED BY <1>1, <1>10, <4>1
    <3>3. QED BY <1>9, <2>1, <3>1, <3>2
  <2>2. CASE i < m
    <3>1. /\ i + 1 \in 1..m /\ k + i - 1 \in 1..n /\ k + (i + 1) - 1 = (k + i - 1) + 1
          /\ (k + i - 1) + 1 \in 1..n /\ k + i - 1 < n
      BY <1>1, <1>2, <1>4, <2>2
    <3>2. slice[i + 1] = active_path[(k + i - 1) + 1]
      BY <1>4, <3>1
    <3>3. slice[i] = active_path[k + i - 1]
      BY <1>4
    <3>4. witness'[i] = slice[i] /\ witness'[i + 1] = slice[i + 1]
      BY <1>7, <3>1
    <3>5. /\ active_path[k + i - 1] \in DOMAIN definitions
          /\ active_path[(k + i - 1) + 1] \in definitions[active_path[k + i - 1]]
      BY <1>0, <1>10, <3>1
    <3>6. QED BY <3>2, <3>3, <3>4, <3>5
  <2>3. QED BY <1>4, <2>1, <2>2
<1>12. IsInjective(slice)
  <2>1. ASSUME NEW i \in 1..m, NEW j \in 1..m, slice[i] = slice[j] PROVE i = j
    <3>1. k + i - 1 = k + j - 1
      BY <1>1, <1>4, <2>1 DEF Traversal, StackIsActive, IsInjective
    <3>2. QED BY <1>2, <3>1
  <2>2. DOMAIN slice = 1..m
    BY <1>4
  <2>3. QED BY <2>1, <2>2 DEF IsInjective
<1>13. WitnessIsCycle'
  <2>1. Len(witness') > 1 /\ witness'[1] = witness'[Len(witness')] /\ Len(witness') - 1 = m
    BY <1>4, <1>5, <1>7
  <2>2. QED BY <1>8, <1>11, <1>12, <2>1 DEF WitnessIsCycle
<1>14. ~Resolvable(definitions)
  <2> DEFINE S == { witness'[i] : i \in 1..m }
  <2>1. S \subseteq DOMAIN definitions /\ S # {}
    <3>1. 1 \in 1..m
      BY <1>4
    <3>2. witness'[1] \in S
      BY <3>1
    <3>3. QED BY <1>11, <3>2
  <2>2. ASSUME NEW i \in 1..m PROVE witness'[i + 1] \in S
    <3>1. i + 1 \in 1..m \/ i + 1 = m + 1
      BY <1>4
    <3>2. 1 \in 1..m /\ witness'[m + 1] = witness'[1]
      BY <1>4, <1>5, <1>7
    <3>3. QED BY <3>1, <3>2
  <2>3. \A c \in S : definitions[c] \cap S # {}
    BY <1>11, <2>2
  <2> HIDE DEF S
  <2>4. QED BY <2>1, <2>3, WaitingIsNotResolvable
<1>15. QED BY <1>7, <1>13, <1>14

-----------------------------------------------------------------------------
LEMMA FreshForm ==
  ASSUME ResolverTypeOK, NEW K \in SUBSET DOMAIN definitions', definitions' \in Graph, Fresh(K),
         outcome' \in {"Idle", "Running"}, K = IF outcome' = "Idle" THEN {} ELSE DOMAIN definitions'
  PROVE  ResolverInv'
<1>1. ResolverTypeOK'
  BY GraphForm DEF ResolverTypeOK, Fresh
<1>2. outcome' = "Running" => Traversal'
  BY <1>1, GraphForm DEF Fresh, Traversal, StackIsActive, PathIsAWalk, LoopsAreKept, OrderIsDone,
     DependenciesFirst, KeysRemain, IsInjective, ResolverTypeOK
<1>3. ResolutionIsExact'
  BY DEF ResolutionIsExact
<1>4. QED BY <1>1, <1>2, <1>3 DEF ResolverInv

LEMMA CallerStep ==
  ASSUME ResolverInv,
         \/ \E d \in Definition : Insert(d)
         \/ \E consumer, dependency \in Capabilities : Require(consumer, dependency)
         \/ Resolve
  PROVE  ResolverInv'
<1>1. ResolverTypeOK /\ definitions \in Graph
  BY DEF ResolverInv, ResolverTypeOK
<1>2. ASSUME NEW d \in Definition, Insert(d) PROVE ResolverInv'
  <2>1. d.id \in Capabilities /\ d.dependencies \subseteq Capabilities
    BY DEF Definition
  <2>2. definitions' \in Graph
    BY <1>1, <1>2, <2>1, GraphForm DEF Insert, WithCandidate
  <2>3. QED BY <1>1, <1>2, <2>2, FreshForm DEF Insert
<1>3. ASSUME NEW consumer \in Capabilities, NEW dependency \in Capabilities,
             Require(consumer, dependency)
      PROVE  ResolverInv'
  <2>1. definitions' \in Graph
    BY <1>1, <1>3, GraphForm DEF Require
  <2>2. QED BY <1>1, <1>3, <2>1, FreshForm DEF Require
<1>4. CASE Resolve
  BY <1>1, <1>4, FreshForm DEF Resolve
<1>5. QED BY <1>2, <1>3, <1>4

LEMMA VisitKeyStep ==
  ASSUME ResolverInv, VisitKey
  PROVE  ResolverInv'
<1> DEFINE c == Least(keys)
<1>1. ResolverTypeOK /\ Traversal /\ outcome = "Running" /\ definitions \in Graph
  BY DEF ResolverInv, VisitKey, ResolverTypeOK
<1>2. c \in keys /\ c \in DOMAIN definitions /\ c \in Capabilities /\ definitions[c] \subseteq Capabilities
  <2>1. keys \subseteq DOMAIN definitions /\ DOMAIN definitions \subseteq Capabilities
    BY <1>1, GraphForm DEF Traversal, KeysRemain
  <2>2. c \in keys
    BY <2>1, LeastIsFirst DEF VisitKey
  <2>3. QED BY <1>1, <2>1, <2>2, GraphForm
<1> HIDE DEF c
<1>3. /\ active_path = <<>> /\ keys' = keys \ {c} /\ Visit(c, pending)
      /\ UNCHANGED <<definitions, construction_order>>
  BY DEF VisitKey, c
<1>4. states[c] # "Active" /\ DOMAIN active_path = {}
  BY <1>1, <1>2, <1>3 DEF Traversal, StackIsActive
<1>5. /\ pending \in [Capabilities -> SUBSET Capabilities]
      /\ states \in [Capabilities -> {"None", "Active", "Done"}]
      /\ active_path \in Seq(Capabilities)
  BY <1>1 DEF ResolverTypeOK
<1>6. outcome' = outcome /\ UNCHANGED witness
  BY <1>3, <1>4 DEF Visit
<1>7. ResolverTypeOK'
  <2>1. pending' \in [Capabilities -> SUBSET Capabilities]
        /\ states' \in [Capabilities -> {"None", "Active", "Done"}]
    BY <1>2, <1>3, <1>4, <1>5 DEF Visit
  <2>2. active_path' \in Seq(Capabilities)
    <3>1. active_path' = active_path \/ active_path' = Append(active_path, c)
      BY <1>3, <1>4 DEF Visit
    <3>2. QED BY <1>2, <1>5, <3>1
  <2>3. keys' \in SUBSET Capabilities
    BY <1>1, <1>3 DEF ResolverTypeOK
  <2>4. QED BY <1>1, <1>3, <1>6, <2>1, <2>2, <2>3 DEF ResolverTypeOK
<1>8. Traversal'
  <2>1. CASE states[c] = "Done"
    BY <1>1, <1>2, <1>3, <1>4, <2>1, SkipStep DEF Visit
  <2>2. CASE states[c] = "None"
    BY <1>1, <1>2, <1>3, <1>4, <1>5, <2>2, EnterStep DEF Visit
  <2>3. QED BY <1>2, <1>4, <1>5, <2>1, <2>2
<1>9. QED BY <1>1, <1>6, <1>7, <1>8 DEF ResolverInv, ResolutionIsExact

LEMMA VisitDependencyStep ==
  ASSUME ResolverInv, VisitDependency
  PROVE  ResolverInv'
<1> DEFINE d == Least(pending[Top])
           n == Len(active_path)
<1>1. ResolverTypeOK /\ Traversal /\ outcome = "Running" /\ definitions \in Graph
  BY DEF ResolverInv, VisitDependency, ResolverTypeOK
<1>2. /\ pending \in [Capabilities -> SUBSET Capabilities]
      /\ states \in [Capabilities -> {"None", "Active", "Done"}]
      /\ active_path \in Seq(Capabilities) /\ active_path # <<>>
  BY <1>1 DEF ResolverTypeOK, VisitDependency
<1>3. /\ n = Len(active_path) /\ n \in Nat \ {0} /\ DOMAIN active_path = 1..n
      /\ Top = active_path[n] /\ Top \in Capabilities
  BY <1>2 DEF Top, Last
<1>4. /\ Top \in DOMAIN definitions /\ pending[Top] \subseteq definitions[Top]
      /\ pending[Top] \in SUBSET Capabilities /\ pending[Top] # {}
  <2>1. n \in DOMAIN active_path
    BY <1>3
  <2>2. QED BY <1>1, <1>2, <1>3, <2>1 DEF Traversal, PathIsAWalk, LoopsAreKept, VisitDependency
<1>5. d \in pending[Top] /\ d \in Capabilities
  BY <1>4, LeastIsFirst
<1>6. \A i \in 1..n : i < n => active_path[i] # Top
  BY <1>1, <1>3 DEF Traversal, StackIsActive, IsInjective
<1> HIDE DEF d, n
<1>7. UNCHANGED <<definitions, keys, construction_order>>
  BY DEF VisitDependency
<1>8. CASE d \notin DOMAIN definitions
  <2>1. /\ outcome' = "MissingDependency" /\ witness' = <<Top, d>>
        /\ UNCHANGED <<states, active_path, pending>>
    BY <1>8 DEF VisitDependency, d
  <2>2. ResolverTypeOK'
    BY <1>1, <1>3, <1>5, <1>7, <2>1 DEF ResolverTypeOK
  <2>3. WitnessIsMissing' /\ ~Resolvable(definitions)'
    BY <1>4, <1>5, <1>7, <1>8, <2>1 DEF WitnessIsMissing, Resolvable
  <2>4. QED BY <2>1, <2>2, <2>3 DEF ResolverInv, ResolutionIsExact
<1>9. CASE d \in DOMAIN definitions
  <2>1. Visit(d, Remaining(d))
    BY <1>9 DEF VisitDependency, d
  <2>2. /\ Remaining(d) \in [Capabilities -> SUBSET Capabilities]
        /\ \A c \in Capabilities :
             Remaining(d)[c] = IF c = Top THEN pending[c] \ {d} ELSE pending[c]
    BY <1>2, <1>3 DEF Remaining
  <2>3. \A i \in 1..n : active_path[i] \in Capabilities
    BY <1>2, <1>3
  <2>4. CASE states[d] = "Active"
    <3>1. /\ outcome' = "Cycle" /\ witness' = ErrorPath(d) /\ pending' = Remaining(d)
          /\ UNCHANGED <<states, active_path>>
      BY <2>1, <2>4 DEF Visit
    <3>2. ~Resolvable(definitions) /\ witness' \in Seq(Capabilities) /\ WitnessIsCycle'
      BY <1>1, <1>2, <1>5, <1>7, <1>9, <2>4, <3>1, CycleStep
    <3>3. ResolverTypeOK'
      BY <1>1, <1>7, <2>2, <3>1, <3>2 DEF ResolverTypeOK
    <3>4. QED BY <1>7, <3>1, <3>2, <3>3 DEF ResolverInv, ResolutionIsExact
  <2>5. CASE states[d] = "Done"
    <3>1. pending' = Remaining(d) /\ UNCHANGED <<outcome, witness, states, active_path>>
      BY <2>1, <2>5 DEF Visit
    <3>2. \A i \in DOMAIN active_path :
           /\ pending'[active_path[i]] \subseteq pending[active_path[i]]
           /\ pending[active_path[i]] \ {d} \subseteq pending'[active_path[i]]
      BY <1>3, <2>2, <2>3, <3>1
    <3>3. Traversal'
      BY <1>1, <1>5, <1>7, <2>5, <3>1, <3>2, SkipStep
    <3>4. ResolverTypeOK'
      BY <1>1, <1>7, <2>2, <3>1 DEF ResolverTypeOK
    <3>5. QED BY <1>1, <3>1, <3>3, <3>4 DEF ResolverInv, ResolutionIsExact
  <2>6. CASE states[d] = "None"
    <3>1. /\ states' = [states EXCEPT ![d] = "Active"] /\ active_path' = Append(active_path, d)
          /\ pending' = [Remaining(d) EXCEPT ![d] = definitions[d]]
          /\ UNCHANGED <<outcome, witness>>
      BY <2>1, <2>6 DEF Visit
    <3>2. \A i \in DOMAIN active_path :
           /\ Remaining(d)[active_path[i]] \subseteq pending[active_path[i]]
           /\ i < Len(active_path) => Remaining(d)[active_path[i]] = pending[active_path[i]]
           /\ i = Len(active_path) =>
                /\ Remaining(d)[active_path[i]] = pending[active_path[i]] \ {d}
                /\ d \in pending[active_path[i]]
      BY <1>3, <1>5, <1>6, <2>2, <2>3
    <3>3. Traversal'
      BY <1>1, <1>7, <1>9, <2>2, <2>6, <3>1, <3>2, EnterStep
    <3>4. ResolverTypeOK'
      <4>1. definitions[d] \in SUBSET Capabilities
        BY <1>1, <1>9, GraphForm
      <4>2. active_path' \in Seq(Capabilities) /\ pending' \in [Capabilities -> SUBSET Capabilities]
            /\ states' \in [Capabilities -> {"None", "Active", "Done"}]
        BY <1>2, <1>5, <2>2, <3>1, <4>1
      <4>3. QED BY <1>1, <1>7, <3>1, <4>2 DEF ResolverTypeOK
    <3>5. QED BY <1>1, <3>1, <3>3, <3>4 DEF ResolverInv, ResolutionIsExact
  <2>7. QED BY <1>2, <1>5, <2>4, <2>5, <2>6
<1>10. QED BY <1>8, <1>9

LEMMA ResolveReturnsStep ==
  ASSUME ResolverInv, ResolveReturns
  PROVE  ResolverInv'
<1>1. ResolverTypeOK /\ Traversal /\ outcome = "Running" /\ definitions \in Graph
      /\ construction_order \in Seq(Capabilities)
      /\ states \in [Capabilities -> {"None", "Active", "Done"}]
  BY DEF ResolverInv, ResolveReturns, ResolverTypeOK
<1>2. ResolverTypeOK' /\ UNCHANGED <<definitions, construction_order>> /\ outcome' = "Ok"
  BY <1>1 DEF ResolverTypeOK, ResolveReturns, locals
<1>3. ToSet(construction_order) = DOMAIN definitions
  <2>1. ASSUME NEW c \in DOMAIN definitions PROVE c \in ToSet(construction_order)
    <3>1. c \in Capabilities
      BY <1>1, GraphForm
    <3>2. states[c] # "None" /\ states[c] # "Active"
      BY <1>1, <3>1 DEF ResolveReturns, Traversal, KeysRemain, StackIsActive
    <3>3. states[c] = "Done"
      BY <1>1, <3>1, <3>2
    <3>4. QED BY <1>1, <3>1, <3>3 DEF Traversal, OrderIsDone, ToSet
  <2>2. QED BY <1>1, <2>1 DEF Traversal, DependenciesFirst, ToSet
<1>4. Resolvable(definitions)
  BY <1>1, <1>3, OrderedIsResolvable DEF Traversal
<1>5. \A i, j \in DOMAIN construction_order :
        construction_order[j] \in definitions[construction_order[i]] => j < i
  <2>1. ASSUME NEW i \in DOMAIN construction_order, NEW j \in DOMAIN construction_order,
               construction_order[j] \in definitions[construction_order[i]]
        PROVE  j < i
    <3>1. PICK h \in 1..(i - 1) : construction_order[h] = construction_order[j]
      BY <1>1, <2>1 DEF Traversal, DependenciesFirst
    <3>2. h \in DOMAIN construction_order /\ h < i
      BY <1>1
    <3>3. h = j
      BY <1>1, <3>1, <3>2 DEF Traversal, OrderIsDone, IsInjective
    <3>4. QED BY <3>2, <3>3
  <2>2. QED BY <2>1
<1>6. \A i, j \in DOMAIN TeardownOrder :
        TeardownOrder[j] \in definitions[TeardownOrder[i]] => i < j
  <2> DEFINE m == Len(construction_order)
  <2>1. m \in Nat /\ DOMAIN construction_order = 1..m
    BY <1>1
  <2>2. DOMAIN TeardownOrder = 1..m
        /\ \A i \in 1..m : TeardownOrder[i] = construction_order[m - i + 1] /\ m - i + 1 \in 1..m
    BY <2>1 DEF TeardownOrder, Reverse
  <2> HIDE DEF m
  <2>3. ASSUME NEW i \in 1..m, NEW j \in 1..m, TeardownOrder[j] \in definitions[TeardownOrder[i]]
        PROVE  i < j
    <3>1. m - j + 1 < m - i + 1
      BY <1>5, <2>1, <2>2, <2>3
    <3>2. QED BY <2>1, <3>1
  <2>4. QED BY <2>2, <2>3
<1>7. OrderIsConstructible
  BY <1>1, <1>3, <1>5, <1>6 DEF OrderIsConstructible, Traversal, OrderIsDone
<1>8. OrderIsConstructible'
  BY <1>2, <1>7 DEF OrderIsConstructible, TeardownOrder
<1>9. QED BY <1>2, <1>4, <1>8 DEF ResolverInv, ResolutionIsExact

THEOREM ResolverInvariant == ResolverSpec => []ResolverInv
<1>1. ResolverInit => ResolverInv
  <2> SUFFICES ASSUME ResolverInit PROVE ResolverInv
    OBVIOUS
  <2>1. definitions \in Graph
    BY GraphForm DEF ResolverInit
  <2>2. ResolverTypeOK
    BY <2>1 DEF ResolverInit, ResolverTypeOK
  <2>3. QED BY <2>2 DEF ResolverInit, ResolverInv, ResolutionIsExact
<1>2. ResolverInv /\ [ResolverNext]_resolverVars => ResolverInv'
  <2> SUFFICES ASSUME ResolverInv, [ResolverNext]_resolverVars PROVE ResolverInv'
    OBVIOUS
  <2>1. CASE VisitReturns
    BY <2>1, ReturnStep DEF ResolverInv, ResolutionIsExact, VisitReturns
  <2>2. CASE UNCHANGED resolverVars
    BY <2>2 DEF resolverVars, locals, ResolverInv, ResolverTypeOK, Traversal, StackIsActive,
       PathIsAWalk, LoopsAreKept, OrderIsDone, DependenciesFirst, KeysRemain, ResolutionIsExact,
       OrderIsConstructible, TeardownOrder, WitnessIsCycle, WitnessIsMissing
  <2>3. QED BY <2>1, <2>2, CallerStep, VisitKeyStep, VisitDependencyStep, ResolveReturnsStep
        DEF ResolverNext, Traverse
<1>3. QED BY <1>1, <1>2, PTL DEF ResolverSpec

(* resolve() answers Ok exactly for the graphs that can be constructed, in *)
(* an order that constructs them, and every cycle or missing dependency it *)
(* names is one (resolver.rs: resolve, visit, teardown_order).             *)
THEOREM ResolverIsExact == ResolverSpec => []ResolutionIsExact
<1>1. ResolverInv => ResolutionIsExact
  BY DEF ResolverInv
<1>2. QED BY <1>1, ResolverInvariant, PTL

(* Part 2: scopes.                                                         *)
-----------------------------------------------------------------------------
(* Paths: every scope is on its own, the paths of the scopes on a path are *)
(* parts of it, and of two scopes on a path one is above the other.        *)
PathsAreChains ==
  \A s \in Scopes :
    /\ s \in path[s] /\ path[s] \subseteq 1..s
    /\ \A t \in path[s] : path[t] \subseteq path[s]
    /\ \A t, u \in path[s] : t \in path[u] \/ u \in path[t]

(* What a construction in progress was handed, and where its lookup is.    *)
HoldsAncestors(p) ==
  /\ \A c \in DOMAIN p.snapshot :
       LET h == published[p.snapshot[c]]
       IN h.id = c /\ h.scope \in path[p.scope]
  /\ p.walk # NoWalk => p.walk.at \in path[p.scope]

CallsHoldAncestors == \A k \in Callers : calls[k] # Idle => HoldsAncestors(calls[k])

GenerationsAreBounded == \A e \in EntryIds : published[e].generation <= e

IInv ==
  /\ TypeOK
  /\ PathsAreChains
  /\ TeardownIsTotal
  /\ OwnershipIsWellFounded
  /\ CallsHoldAncestors
  /\ GenerationsAreBounded

-----------------------------------------------------------------------------
LEMMA SnapshotForm ==
  ASSUME NEW n \in Nat, NEW f
  PROVE  f \in Snapshots(n) <=>
           /\ f = [c \in DOMAIN f |-> f[c]]
           /\ DOMAIN f \subseteq Capabilities
           /\ \A c \in DOMAIN f : f[c] \in 1..n
<1>1. ASSUME f \in Snapshots(n)
      PROVE  /\ f = [c \in DOMAIN f |-> f[c]]
             /\ DOMAIN f \subseteq Capabilities
             /\ \A c \in DOMAIN f : f[c] \in 1..n
  <2>1. PICK D \in SUBSET Capabilities : f \in [D -> 1..n]
    BY <1>1 DEF Snapshots
  <2>2. QED BY <2>1
<1>2. ASSUME f = [c \in DOMAIN f |-> f[c]], DOMAIN f \subseteq Capabilities,
             \A c \in DOMAIN f : f[c] \in 1..n
      PROVE  f \in Snapshots(n)
  <2>1. f \in [DOMAIN f -> 1..n] /\ DOMAIN f \in SUBSET Capabilities
    BY <1>2
  <2>2. QED BY <2>1 DEF Snapshots
<1>3. QED BY <1>1, <1>2

LEMMA SnapshotsGrow ==
  ASSUME NEW n \in Nat, NEW m \in Nat, n <= m
  PROVE  Snapshots(n) \subseteq Snapshots(m)
<1>1. ASSUME NEW f \in Snapshots(n) PROVE f \in Snapshots(m)
  <2>1. PICK D \in SUBSET Capabilities : f \in [D -> 1..n]
    BY DEF Snapshots
  <2>2. f \in [D -> 1..m]
    BY <2>1
  <2>3. QED BY <2>2 DEF Snapshots
<1>2. QED BY <1>1

(* The types, with names to cite.                                          *)
LEMMA TypeFacts ==
  ASSUME TypeOK
  PROVE  /\ Len(path) \in Nat /\ Len(published) \in Nat
         /\ Scopes = DOMAIN path /\ EntryIds = DOMAIN published
         /\ \A s \in Scopes : s \in Nat \ {0} /\ path[s] \in SUBSET (1..MaxScopes)
         /\ \A e \in EntryIds :
              /\ e \in Nat \ {0}
              /\ published[e] \in Publication
         /\ \A s \in Scopes, c \in Capabilities : entries[s][c] \in Nat
         /\ \A s \in Scopes : \A c \in Local(s) :
              /\ c \in Capabilities
              /\ entries[s][c] \in EntryIds
              /\ published[entries[s][c]].scope = s
              /\ published[entries[s][c]].id = c
         /\ \A k \in Callers : calls[k] = Idle \/ calls[k] \in Call
<1> USE DEF TypeOK
<1>1. Len(path) \in Nat /\ Len(published) \in Nat
  OBVIOUS
<1>2. Scopes = DOMAIN path /\ EntryIds = DOMAIN published
  BY DEF Scopes, EntryIds
<1>3. \A s \in Scopes : s \in Nat \ {0} /\ path[s] \in SUBSET (1..MaxScopes)
  BY DEF Scopes
<1>4. \A e \in EntryIds : e \in Nat \ {0} /\ published[e] \in Publication
  BY DEF EntryIds
<1>5. \A s \in Scopes, c \in Capabilities : entries[s][c] \in Nat
  BY <1>1
<1>6. ASSUME NEW s \in Scopes, NEW c \in Local(s)
      PROVE  /\ c \in Capabilities
             /\ entries[s][c] \in EntryIds
             /\ published[entries[s][c]].scope = s
             /\ published[entries[s][c]].id = c
  BY <1>1 DEF Local, EntryIds, NoEntry
<1>7. \A k \in Callers : calls[k] = Idle \/ calls[k] \in Call
  OBVIOUS
<1>8. QED BY <1>1, <1>2, <1>3, <1>4, <1>5, <1>6, <1>7

LEMMA CallForm ==
  ASSUME TypeOK, NEW k \in Callers, calls[k] # Idle
  PROVE  /\ calls[k] = [scope |-> calls[k].scope, definition |-> calls[k].definition,
                        expected |-> calls[k].expected, seen |-> calls[k].seen,
                        snapshot |-> calls[k].snapshot, walk |-> calls[k].walk]
         /\ calls[k].scope \in Scopes
         /\ calls[k].definition \in Definitions
         /\ calls[k].definition.id \in Capabilities
         /\ calls[k].definition.dependencies \in SUBSET Capabilities
         /\ calls[k].expected \in 0..MaxEntries
         /\ calls[k].seen \in 0..Len(published)
         /\ calls[k].snapshot \in Snapshots(Len(published))
         /\ calls[k].walk \in [at : Scopes, id : Capabilities] \cup {NoWalk}
<1>1. calls[k] \in Call
  BY TypeFacts
<1>2. calls[k].definition \in Definition
  BY <1>1, ScopeAssumption DEF Call
<1>3. QED BY <1>1, <1>2 DEF Call, Definition

(* What a lookup finds was published for that capability, at or above.     *)
LEMMA GetFacts ==
  ASSUME TypeOK, NEW s \in Scopes, NEW c \in Capabilities
  PROVE  /\ Get(s, c) \in 0..Len(published)
         /\ Get(s, c) # NoEntry =>
              /\ Get(s, c) \in EntryIds
              /\ published[Get(s, c)].id = c
              /\ published[Get(s, c)].scope \in path[s]
              /\ \E t \in Scopes : FoundIn(s, t, c) /\ Get(s, c) = entries[t][c]
<1>1. CASE \E t \in Scopes : FoundIn(s, t, c)
  <2>1. PICK t : t \in Scopes /\ FoundIn(s, t, c) /\ Get(s, c) = entries[t][c]
    BY <1>1 DEF Get
  <2>2. t \in path[s] /\ c \in Local(t)
    BY <2>1 DEF FoundIn
  <2>3. QED BY <2>1, <2>2, TypeFacts DEF EntryIds
<1>2. CASE ~\E t \in Scopes : FoundIn(s, t, c)
  BY <1>2, TypeFacts DEF Get, NoEntry
<1>3. QED BY <1>1, <1>2

-----------------------------------------------------------------------------
LEMMA InitIInv == Init => IInv
<1> SUFFICES ASSUME Init PROVE IInv
  OBVIOUS
<1>1. Len(path) = 1 /\ Len(published) = 0 /\ Scopes = {1} /\ EntryIds = {} /\ path[1] = {1}
  BY DEF Init, Scopes, EntryIds, Root
<1>2. Local(1) = {} /\ Open(1)
  BY DEF Init, Local, Open
<1>3. TypeOK
  <2>1. path \in Seq(SUBSET (1..MaxScopes)) /\ Len(path) \in 1..MaxScopes
    BY <1>1, ScopeAssumption DEF Init, Root
  <2>2. lifecycle \in [Scopes -> Lifecycle]
    BY <1>1 DEF Init, Lifecycle
  <2>3. entries \in [Scopes -> [Capabilities -> 0..Len(published)]]
    BY <1>1 DEF Init, NoEntry
  <2>4. published \in Seq(Publication) /\ Len(published) <= MaxEntries
    BY <1>1, ScopeAssumption DEF Init
  <2>5. \A s \in Scopes : \A c \in Local(s) :
          published[entries[s][c]].scope = s /\ published[entries[s][c]].id = c
    BY <1>1, <1>2
  <2>6. calls \in [Callers -> Call \cup {Idle}] /\ poisoned \in BOOLEAN
    BY DEF Init
  <2>7. QED BY <2>1, <2>2, <2>3, <2>4, <2>5, <2>6 DEF TypeOK
<1>4. PathsAreChains
  BY <1>1 DEF PathsAreChains
<1>5. TeardownIsTotal
  BY <1>1, <1>2 DEF TeardownIsTotal
<1>6. OwnershipIsWellFounded /\ GenerationsAreBounded
  BY <1>1 DEF OwnershipIsWellFounded, GenerationsAreBounded
<1>7. CallsHoldAncestors
  BY DEF CallsHoldAncestors, Init
<1>8. QED BY <1>3, <1>4, <1>5, <1>6, <1>7 DEF IInv

-----------------------------------------------------------------------------
(* Steps of a caller that publish nothing.                                 *)
LEMMA CallStep ==
  ASSUME IInv, UNCHANGED <<path, lifecycle, entries, published, poisoned>>,
         NEW k \in Callers, NEW p \in Call \cup {Idle}, calls' = [calls EXCEPT ![k] = p],
         p # Idle => HoldsAncestors(p)
  PROVE  IInv'
<1> USE DEF IInv
<1>1. TypeOK'
  <2>1. Call' = Call /\ Publication' = Publication /\ Scopes' = Scopes
        /\ \A s : Local(s)' = Local(s)
    BY DEF Call, Publication, Scopes, Local
  <2>2. calls' \in [Callers -> Call \cup {Idle}]
    BY DEF TypeOK
  <2>3. QED BY <2>1, <2>2 DEF TypeOK
<1>2. PathsAreChains' /\ TeardownIsTotal' /\ OwnershipIsWellFounded' /\ GenerationsAreBounded'
  BY DEF PathsAreChains, TeardownIsTotal, OwnershipIsWellFounded, GenerationsAreBounded,
         Scopes, EntryIds, Local, Open
<1>3. CallsHoldAncestors'
  BY DEF CallsHoldAncestors, HoldsAncestors, TypeOK
<1>4. QED BY <1>1, <1>2, <1>3

LEMMA BeginPublishStep ==
  ASSUME IInv, NEW k \in Callers, NEW s \in Scopes, NEW d \in Definitions, BeginPublish(k, s, d)
  PROVE  IInv'
<1> DEFINE snapshot == [c \in d.dependencies |-> Get(s, c)]
           p == [scope |-> s, definition |-> d, expected |-> LocalGeneration(s, d.id),
                 seen |-> entries[s][d.id], snapshot |-> snapshot, walk |-> NoWalk]
<1>1. d.id \in Capabilities /\ d.dependencies \in SUBSET Capabilities
  BY ScopeAssumption DEF Definition
<1>2. TypeOK
  BY DEF IInv
<1>3. LocalGeneration(s, d.id) \in 0..MaxEntries
  BY <1>1, <1>2, TypeFacts, ScopeAssumption DEF LocalGeneration, Publication, New
<1>3a. entries[s][d.id] \in 0..Len(published)
  BY <1>1, <1>2 DEF TypeOK
<1>4. \A c \in d.dependencies :
        /\ snapshot[c] \in EntryIds
        /\ published[snapshot[c]].id = c /\ published[snapshot[c]].scope \in path[s]
  BY <1>1, <1>2, GetFacts DEF BeginPublish
<1>5. snapshot \in Snapshots(Len(published))
  <2>1. \A c \in d.dependencies : snapshot[c] \in 1..Len(published)
    BY <1>4 DEF EntryIds
  <2>2. snapshot \in [d.dependencies -> 1..Len(published)]
    <3> HIDE DEF snapshot
    <3>1. DOMAIN snapshot = d.dependencies /\ snapshot = [c \in d.dependencies |-> snapshot[c]]
      BY DEF snapshot
    <3>2. QED BY <2>1, <3>1
  <2>3. QED BY <1>1, <2>2 DEF Snapshots
<1>6. p \in Call
  BY <1>3, <1>3a, <1>5 DEF Call
<1>7. HoldsAncestors(p)
  BY <1>4 DEF HoldsAncestors
<1>8. QED BY <1>6, <1>7, CallStep DEF BeginPublish

LEMMA BeginLoadStep ==
  ASSUME IInv, NEW k \in Callers, NEW s \in Scopes, NEW d \in Definitions, BeginLoad(k, s, d)
  PROVE  IInv'
<1> DEFINE nothing == [c \in {} |-> NoEntry]
           p == [scope |-> s, definition |-> d, expected |-> New, seen |-> NoEntry,
                 snapshot |-> nothing, walk |-> NoWalk]
<1>1. nothing \in Snapshots(Len(published))
  BY SnapshotForm, TypeFacts DEF IInv
<1>2. p \in Call
  BY <1>1, ScopeAssumption, TypeFacts DEF Call, New, NoEntry, IInv
<1>3. HoldsAncestors(p)
  BY DEF HoldsAncestors
<1>4. QED BY <1>2, <1>3, CallStep DEF BeginLoad

(* A lookup moves: the rest of the call stays as it is.                    *)
LEMMA WalkStep ==
  ASSUME IInv, UNCHANGED <<path, lifecycle, entries, published, poisoned>>,
         NEW k \in Callers, calls[k] # Idle,
         NEW u \in Scopes, NEW c \in Capabilities, u \in path[calls[k].scope],
         calls' = [calls EXCEPT ![k].walk = [at |-> u, id |-> c]]
  PROVE  IInv'
<1> DEFINE q == calls[k]
           w == [at |-> u, id |-> c]
           p == [scope |-> q.scope, definition |-> q.definition, expected |-> q.expected,
                 seen |-> q.seen, snapshot |-> q.snapshot, walk |-> w]
<1>1. TypeOK
  BY DEF IInv
<1>2. /\ q = [scope |-> q.scope, definition |-> q.definition, expected |-> q.expected,
              seen |-> q.seen, snapshot |-> q.snapshot, walk |-> q.walk]
      /\ q.scope \in Scopes /\ q.definition \in Definitions /\ q.expected \in 0..MaxEntries
      /\ q.seen \in 0..Len(published)
      /\ q.snapshot \in Snapshots(Len(published))
  BY <1>1, CallForm
<1>3. p \in Call
  BY <1>2 DEF Call
<1>4. HoldsAncestors(p)
  BY DEF IInv, CallsHoldAncestors, HoldsAncestors
<1>5. calls' = [calls EXCEPT ![k] = p]
  <2>1. calls' = [calls EXCEPT ![k] = [q EXCEPT !.walk = w]]
    OBVIOUS
  <2>2. [q EXCEPT !.walk = w] = p
    BY <1>2
  <2>3. QED BY <2>1, <2>2
<1> HIDE DEF p
<1>6. QED BY <1>3, <1>4, <1>5, CallStep

LEMMA BeginLookupStep ==
  ASSUME IInv, NEW k \in Callers, NEW c \in Capabilities, BeginLookup(k, c)
  PROVE  IInv'
<1>1. calls[k] # Idle /\ calls[k].scope \in Scopes
  BY CallForm DEF IInv, BeginLookup
<1>2. calls[k].scope \in path[calls[k].scope]
  BY <1>1 DEF IInv, PathsAreChains
<1>3. QED BY <1>1, <1>2, WalkStep DEF BeginLookup

(* Where a lookup in progress stands.                                      *)
LEMMA WalkForm ==
  ASSUME IInv, NEW k \in Callers, Walking(k)
  PROVE  /\ calls[k] # Idle /\ calls[k].scope \in Scopes
         /\ calls[k].walk.at \in Scopes /\ calls[k].walk.id \in Capabilities
         /\ calls[k].walk.at \in path[calls[k].scope]
         /\ path[calls[k].walk.at] \subseteq path[calls[k].scope]
         /\ path[calls[k].scope] \subseteq Scopes
<1>1. calls[k] # Idle /\ calls[k].walk # NoWalk
  BY DEF Walking
<1>2. calls[k].scope \in Scopes /\ calls[k].walk \in [at : Scopes, id : Capabilities]
  BY <1>1, CallForm DEF IInv
<1>3. calls[k].walk.at \in path[calls[k].scope]
  BY <1>1 DEF IInv, CallsHoldAncestors, HoldsAncestors
<1>4. path[calls[k].scope] \subseteq Scopes
  <2>1. path[calls[k].scope] \subseteq 1..calls[k].scope
    BY <1>2 DEF IInv, PathsAreChains
  <2>2. QED BY <1>2, <2>1, TypeFacts DEF IInv, Scopes
<1>5. QED BY <1>1, <1>2, <1>3, <1>4 DEF IInv, PathsAreChains

LEMMA LookupAsksParentStep ==
  ASSUME IInv, NEW k \in Callers, LookupAsksParent(k)
  PROVE  IInv'
<1>1. Walking(k)
  BY DEF LookupAsksParent
<1>2. PICK p \in path[calls[k].walk.at] :
        calls' = [calls EXCEPT ![k].walk = [at |-> p, id |-> calls[k].walk.id]]
  BY DEF LookupAsksParent
<1>3. p \in path[calls[k].scope] /\ p \in Scopes
  BY <1>1, WalkForm
<1>4. UNCHANGED <<path, lifecycle, entries, published, poisoned>>
  BY DEF LookupAsksParent
<1>5. QED BY <1>1, <1>2, <1>3, <1>4, WalkForm, WalkStep

LEMMA LookupFindsStep ==
  ASSUME IInv, NEW k \in Callers, LookupFinds(k)
  PROVE  IInv'
<1> DEFINE q == calls[k]
           u == q.walk.at
           c == q.walk.id
           snapshot == [x \in DOMAIN q.snapshot \cup {c} |->
                         IF x = c THEN entries[u][x] ELSE q.snapshot[x]]
           p == [scope |-> q.scope, definition |-> q.definition, expected |-> q.expected,
                 seen |-> q.seen, snapshot |-> snapshot, walk |-> NoWalk]
<1>1. TypeOK /\ Walking(k) /\ Len(published) \in Nat /\ c \in Local(u)
  BY TypeFacts DEF IInv, LookupFinds
<1>2. /\ q # Idle /\ u \in Scopes /\ c \in Capabilities /\ u \in path[q.scope]
  BY <1>1, WalkForm
<1>3. /\ q = [scope |-> q.scope, definition |-> q.definition, expected |-> q.expected,
              seen |-> q.seen, snapshot |-> q.snapshot, walk |-> q.walk]
      /\ q.scope \in Scopes /\ q.definition \in Definitions /\ q.expected \in 0..MaxEntries
      /\ q.seen \in 0..Len(published)
      /\ q.snapshot \in Snapshots(Len(published))
  BY <1>1, <1>2, CallForm
<1>4. /\ entries[u][c] \in EntryIds
      /\ published[entries[u][c]].id = c /\ published[entries[u][c]].scope \in path[q.scope]
  BY <1>1, <1>2, TypeFacts
<1>5. /\ DOMAIN q.snapshot \subseteq Capabilities
      /\ \A x \in DOMAIN q.snapshot : q.snapshot[x] \in 1..Len(published)
  BY <1>1, <1>3, SnapshotForm
<1>6. /\ \A x \in DOMAIN q.snapshot : published[q.snapshot[x]].id = x
                                     /\ published[q.snapshot[x]].scope \in path[q.scope]
  BY <1>2 DEF IInv, CallsHoldAncestors, HoldsAncestors
<1>7. calls' = [calls EXCEPT ![k] = [[q EXCEPT !.walk = NoWalk] EXCEPT !.snapshot = snapshot]]
  BY DEF LookupFinds
<1>8. UNCHANGED <<path, lifecycle, entries, published, poisoned>>
  BY DEF LookupFinds
<1> HIDE DEF u, c
<1>9. /\ DOMAIN snapshot = DOMAIN q.snapshot \cup {c}
      /\ snapshot = [x \in DOMAIN snapshot |-> snapshot[x]]
      /\ \A x \in DOMAIN snapshot :
           snapshot[x] = IF x = c THEN entries[u][c] ELSE q.snapshot[x]
  OBVIOUS
<1> HIDE DEF snapshot
<1>10. snapshot \in Snapshots(Len(published))
  <2>1. DOMAIN snapshot \subseteq Capabilities
    BY <1>2, <1>5, <1>9
  <2>2. \A x \in DOMAIN snapshot : snapshot[x] \in 1..Len(published)
    BY <1>4, <1>5, <1>9 DEF EntryIds
  <2>3. QED BY <1>1, <1>9, <2>1, <2>2, SnapshotForm
<1>11. p \in Call
  BY <1>3, <1>10 DEF Call
<1>12. HoldsAncestors(p)
  BY <1>4, <1>6, <1>9 DEF HoldsAncestors
<1>13. calls' = [calls EXCEPT ![k] = p]
  <2> HIDE DEF q
  <2>1. PICK r : r = [q EXCEPT !.walk = NoWalk]
    OBVIOUS
  <2>2. r = [scope |-> q.scope, definition |-> q.definition, expected |-> q.expected,
             seen |-> q.seen, snapshot |-> q.snapshot, walk |-> NoWalk]
    BY <1>3, <2>1
  <2>3. [r EXCEPT !.snapshot = snapshot] = p
    BY <2>2
  <2>4. calls' = [calls EXCEPT ![k] = [r EXCEPT !.snapshot = snapshot]]
    BY <1>7, <2>1
  <2>5. QED BY <2>3, <2>4
<1> HIDE DEF p
<1>14. QED BY <1>8, <1>11, <1>12, <1>13, CallStep

LEMMA AbandonStep ==
  ASSUME IInv, NEW k \in Callers, Abandon(k)
  PROVE  IInv'
BY CallStep DEF Abandon

(* Steps that only close scopes and take entries away: what stays open     *)
(* stays below open scopes, and what closes is empty.                      *)
LEMMA CloseStep ==
  ASSUME IInv, UNCHANGED <<path, published, calls>>, poisoned' \in BOOLEAN,
         lifecycle' \in [Scopes -> Lifecycle],
         entries' \in [Scopes -> [Capabilities -> 0..Len(published)]],
         \A s \in Scopes, c \in Capabilities :
           entries'[s][c] = entries[s][c] \/ entries'[s][c] = NoEntry,
         \A s \in Scopes : lifecycle'[s] = "Open" => lifecycle[s] = "Open",
         \A s \in Scopes : lifecycle'[s] # "Open" /\ lifecycle[s] = "Open" =>
           /\ \A c \in Capabilities : entries'[s][c] = NoEntry
           /\ \A u \in Scopes : s \in path[u] => lifecycle'[u] # "Open"
  PROVE  IInv'
<1> USE DEF IInv
<1>1. Scopes' = Scopes /\ EntryIds' = EntryIds /\ Call' = Call /\ Publication' = Publication
  BY DEF Scopes, EntryIds, Call, Publication
<1>2. \A s \in Scopes : Local(s)' \subseteq Local(s)
                         /\ \A c \in Local(s)' : entries'[s][c] = entries[s][c]
  BY DEF Local
<1>3. TypeOK'
  BY <1>1, <1>2 DEF TypeOK
<1>4. PathsAreChains' /\ OwnershipIsWellFounded' /\ GenerationsAreBounded' /\ CallsHoldAncestors'
  BY <1>1 DEF PathsAreChains, OwnershipIsWellFounded, GenerationsAreBounded, CallsHoldAncestors,
              HoldsAncestors
<1>5. TeardownIsTotal'
  <2>1. ASSUME NEW s \in Scopes, ~Open(s)' PROVE Local(s)' = {}
    BY <2>1, <1>2, <1>1 DEF TeardownIsTotal, Open, Local
  <2>2. ASSUME NEW s \in Scopes, Open(s)', NEW t \in path[s] PROVE Open(t)'
    <3>1. t \in Scopes
      BY TypeFacts DEF PathsAreChains, Scopes
    <3>2. Open(s) /\ Open(t)
      BY <2>2 DEF TeardownIsTotal, Open
    <3>3. QED BY <2>2, <3>1, <3>2 DEF Open
  <2>3. QED BY <1>1, <2>1, <2>2 DEF TeardownIsTotal
<1>6. QED BY <1>3, <1>4, <1>5

LEMMA WithdrawStep ==
  ASSUME IInv, NEW e \in EntryIds, Withdraw(e)
  PROVE  IInv'
<1> DEFINE s == published[e].scope
           c == published[e].id
<1>1. s \in Scopes /\ c \in Capabilities
  BY TypeFacts DEF IInv, Publication
<1>2. entries' = [entries EXCEPT ![s][c] = NoEntry]
  BY DEF Withdraw
<1>3. entries' \in [Scopes -> [Capabilities -> 0..Len(published)]]
  BY <1>1, <1>2 DEF IInv, TypeOK, NoEntry
<1>4. \A t \in Scopes, x \in Capabilities :
        entries'[t][x] = entries[t][x] \/ entries'[t][x] = NoEntry
  BY <1>1, <1>2 DEF IInv, TypeOK
<1>5. lifecycle' \in [Scopes -> Lifecycle] /\ poisoned' \in BOOLEAN
  BY DEF IInv, TypeOK, Withdraw
<1>6. UNCHANGED <<path, lifecycle, published, calls>>
  BY DEF Withdraw
<1>7. QED BY <1>3, <1>4, <1>5, <1>6, CloseStep

LEMMA DropStep ==
  ASSUME IInv, NEW s \in Scopes, Drop(s)
  PROVE  IInv'
<1>1. TypeOK /\ lifecycle \in [Scopes -> Lifecycle]
      /\ entries \in [Scopes -> [Capabilities -> 0..Len(published)]]
  BY DEF IInv, TypeOK
<1>2. lifecycle' \in [Scopes -> Lifecycle] /\ poisoned' \in BOOLEAN
  BY <1>1 DEF Drop, Lifecycle, TypeOK
<1>3. entries' \in [Scopes -> [Capabilities -> 0..Len(published)]]
  BY <1>1, TypeFacts DEF Drop, NoEntry
<1>4. \A t \in Scopes, c \in Capabilities :
        entries'[t][c] = entries[t][c] \/ entries'[t][c] = NoEntry
  BY <1>1 DEF Drop
<1>5. \A t \in Scopes : lifecycle'[t] = "Open" => lifecycle[t] = "Open"
  BY <1>1 DEF Drop
<1>6. ASSUME NEW t \in Scopes, lifecycle'[t] # "Open", lifecycle[t] = "Open"
      PROVE  /\ \A c \in Capabilities : entries'[t][c] = NoEntry
             /\ \A u \in Scopes : t \in path[u] => lifecycle'[u] # "Open"
  <2>1. t = s
    BY <1>1, <1>6 DEF Drop
  <2>2. \A u \in Scopes : s \in path[u] => u = s \/ lifecycle[u] = "Dropped"
    BY DEF Drop, Below
  <2>3. QED BY <1>1, <2>1, <2>2 DEF Drop
<1>7. UNCHANGED <<path, published, calls>>
  BY DEF Drop
<1>8. QED BY <1>2, <1>3, <1>4, <1>5, <1>6, <1>7, CloseStep

(* Closing a set of scopes that has every open scope below its members.    *)
LEMMA ClosedBelowStep ==
  ASSUME IInv, NEW S \in SUBSET Scopes,
         UNCHANGED <<path, published, calls>>, poisoned' \in BOOLEAN,
         entries' = Emptied(S),
         lifecycle' \in [Scopes -> Lifecycle],
         \A t \in Scopes : t \in S  => lifecycle'[t] # "Open",
         \A t \in Scopes : t \notin S => lifecycle'[t] = lifecycle[t],
         \A t \in S, u \in Scopes : t \in path[u] /\ Open(u) => u \in S
  PROVE  IInv'
<1>1. entries \in [Scopes -> [Capabilities -> 0..Len(published)]] /\ Len(published) \in Nat
  BY TypeFacts DEF IInv, TypeOK
<1>2. entries' \in [Scopes -> [Capabilities -> 0..Len(published)]]
  BY <1>1 DEF Emptied, NoEntry
<1>3. \A t \in Scopes, c \in Capabilities :
        entries'[t][c] = entries[t][c] \/ entries'[t][c] = NoEntry
  BY <1>1 DEF Emptied
<1>4. \A t \in S, c \in Capabilities : entries'[t][c] = NoEntry
  BY <1>1 DEF Emptied
<1>5. ASSUME NEW t \in Scopes, lifecycle'[t] = "Open" PROVE lifecycle[t] = "Open"
  BY <1>5
<1>6. ASSUME NEW t \in Scopes, lifecycle'[t] # "Open", lifecycle[t] = "Open"
      PROVE  /\ \A c \in Capabilities : entries'[t][c] = NoEntry
             /\ \A u \in Scopes : t \in path[u] => lifecycle'[u] # "Open"
  <2>1. t \in S
    BY <1>6
  <2>2. ASSUME NEW u \in Scopes, t \in path[u] PROVE lifecycle'[u] # "Open"
    BY <2>1, <2>2, <1>5 DEF Open
  <2>3. QED BY <1>4, <2>1, <2>2
<1>7. QED BY <1>2, <1>3, <1>5, <1>6, CloseStep

LEMMA TargetsAreClosedBelow ==
  ASSUME IInv, NEW s \in Scopes, NEW t \in Targets(s), NEW u \in Scopes, t \in path[u], Open(u)
  PROVE  u \in Targets(s)
<1>1. t \in Scopes /\ s \in path[t]
  BY DEF Targets, Below, IInv, PathsAreChains
<1>2. s \in path[u]
  BY <1>1 DEF IInv, PathsAreChains
<1>3. QED BY <1>2 DEF Targets, Below, Open

LEMMA TeardownStep ==
  ASSUME IInv, NEW s \in Scopes, Teardown(s)
  PROVE  IInv'
<1>1. Targets(s) \in SUBSET Scopes
  BY DEF Targets, Below
<1>2. lifecycle' \in [Scopes -> Lifecycle] /\ poisoned' \in BOOLEAN
  BY DEF Teardown, IInv, TypeOK, Lifecycle
<1>3. /\ \A t \in Scopes : t \in Targets(s) => lifecycle'[t] # "Open"
      /\ \A t \in Scopes : t \notin Targets(s) => lifecycle'[t] = lifecycle[t]
  BY DEF Teardown
<1>4. UNCHANGED <<path, published, calls>> /\ entries' = Emptied(Targets(s))
  BY DEF Teardown
<1>5. QED BY <1>1, <1>2, <1>3, <1>4, TargetsAreClosedBelow, ClosedBelowStep

LEMMA TeardownPanicsStep ==
  ASSUME IInv, NEW s \in Scopes, TeardownPanics(s)
  PROVE  IInv'
<1>1. PICK p \in Targets(s) :
        LET before == { t \in Targets(s) : Precedes(t, p) }
        IN /\ poisoned' = TRUE
           /\ lifecycle' = [t \in Scopes |-> IF t \in before THEN "Closed"
                                             ELSE IF t = p THEN "Closing" ELSE lifecycle[t]]
           /\ entries' = Emptied(Unwound(before, p))
           /\ UNCHANGED <<path, published, calls>>
  BY DEF TeardownPanics
<1> DEFINE before == { t \in Targets(s) : Precedes(t, p) }
           S == before \cup {p}
<1>2. Targets(s) \subseteq Scopes
  BY DEF Targets, Below
<1>3. S \in SUBSET Scopes /\ p \in Scopes
  BY <1>2
<1>4. lifecycle' \in [Scopes -> Lifecycle] /\ poisoned' \in BOOLEAN
  BY <1>1 DEF IInv, TypeOK, Lifecycle
<1>5. /\ \A t \in Scopes : t \in S => lifecycle'[t] # "Open"
      /\ \A t \in Scopes : t \notin S => lifecycle'[t] = lifecycle[t]
  BY <1>1
<1>6. ASSUME NEW t \in S, NEW u \in Scopes, t \in path[u], Open(u)
      PROVE  u \in S
  <2>1. u \in Targets(s)
    BY <1>6, TargetsAreClosedBelow
  <2>2. t \in Scopes /\ u \in path[u] /\ path[t] \subseteq path[u]
    BY <1>3, <1>6 DEF IInv, PathsAreChains
  <2>3. CASE t = p
    BY <2>1, <2>2, <2>3, <1>6 DEF Precedes
  <2>4. CASE t # p /\ p \in path[t] \ {t}
    BY <2>1, <2>2, <2>4 DEF Precedes
  <2>5. CASE \E a \in path[t], b \in path[p] : a < b /\ path[a] \ {a} = path[b] \ {b}
    BY <2>1, <2>2, <2>5 DEF Precedes
  <2>6. QED BY <1>6, <2>3, <2>4, <2>5 DEF Precedes
<1>7. entries' = Emptied(S)
  BY <1>1 DEF Unwound
<1>8. UNCHANGED <<path, published, calls>>
  BY <1>1
<1> HIDE DEF S
<1>9. QED BY <1>3, <1>4, <1>5, <1>6, <1>7, <1>8, ClosedBelowStep

(* Appending to a table kept for the scopes 1..n. *)
LEMMA AppendedTable ==
  ASSUME NEW n \in Nat, NEW S, NEW f \in [1..n -> S], NEW x \in S
  PROVE  /\ Append(f, x) \in [1..(n + 1) -> S]
         /\ \A i \in 1..n : Append(f, x)[i] = f[i]
         /\ Append(f, x)[n + 1] = x
<1>1. f \in Seq(S)
  BY SeqDef
<1>2. Len(f) = n
  BY <1>1, LenProperties
<1>3. Append(f, x) \in Seq(S) /\ Len(Append(f, x)) = n + 1
  BY <1>1, <1>2
<1>4. Append(f, x) \in [1..(n + 1) -> S]
  BY <1>3, LenProperties
<1>5. \A i \in 1..n : Append(f, x)[i] = f[i]
  BY <1>1, <1>2
<1>6. Append(f, x)[n + 1] = x
  BY <1>1, <1>2
<1>7. QED BY <1>4, <1>5, <1>6

LEMMA ChildStep ==
  ASSUME IInv, NEW s \in Scopes, Child(s)
  PROVE  IInv'
<1> USE DEF IInv
<1>0. PICK new : new = Len(path) + 1
  OBVIOUS
<1>1. Len(path) \in Nat /\ Len(published) \in Nat /\ Scopes = 1..Len(path) /\ new <= MaxScopes
      /\ MaxScopes \in Nat /\ new = Len(path) + 1
  BY <1>0, TypeFacts, ScopeAssumption DEF Child, Scopes
<1>2. path \in Seq(SUBSET (1..MaxScopes)) /\ path[s] \in SUBSET (1..MaxScopes)
  BY TypeFacts DEF TypeOK
<1>3. /\ path' \in Seq(SUBSET (1..MaxScopes)) /\ Len(path') = new
      /\ \A t \in Scopes : path'[t] = path[t]
      /\ path'[new] = path[s] \cup {new}
  BY <1>1, <1>2 DEF Child
<1>4. Scopes' = Scopes \cup {new} /\ new \notin Scopes /\ EntryIds' = EntryIds
  BY <1>1, <1>3 DEF Scopes, Child, EntryIds
<1>5. /\ lifecycle' \in [Scopes' -> Lifecycle]
      /\ \A t \in Scopes : lifecycle'[t] = lifecycle[t]
      /\ lifecycle'[new] = ChildLifecycle(s)
  <2>1. lifecycle \in [1..Len(path) -> Lifecycle]
    BY <1>1 DEF TypeOK
  <2>2. ChildLifecycle(s) \in Lifecycle
    BY DEF ChildLifecycle, Lifecycle
  <2>3. lifecycle' = Append(lifecycle, ChildLifecycle(s))
    BY DEF Child
  <2>4. Scopes' = 1..(Len(path) + 1)
    BY <1>1, <1>3 DEF Scopes
  <2>5. QED BY <1>1, <2>1, <2>2, <2>3, <2>4, AppendedTable
<1>6. /\ entries' \in [Scopes' -> [Capabilities -> 0..Len(published)]]
      /\ \A t \in Scopes : entries'[t] = entries[t]
      /\ entries'[new] = [c \in Capabilities |-> NoEntry]
  <2> DEFINE none == [c \in Capabilities |-> NoEntry]
             tables == [Capabilities -> 0..Len(published)]
  <2>1. entries \in [1..Len(path) -> tables]
    BY <1>1 DEF TypeOK
  <2>2. none \in tables
    BY <1>1 DEF NoEntry
  <2>3. entries' = Append(entries, none)
    BY DEF Child
  <2>4. Scopes' = 1..(Len(path) + 1)
    BY <1>1, <1>3 DEF Scopes
  <2> HIDE DEF none, tables
  <2>5. /\ entries' \in [1..(Len(path) + 1) -> tables]
        /\ \A t \in 1..Len(path) : entries'[t] = entries[t]
        /\ entries'[Len(path) + 1] = none
    BY <1>1, <2>1, <2>2, <2>3, AppendedTable
  <2>6. QED BY <1>1, <2>4, <2>5 DEF none, tables
<1>7. Local(new)' = {} /\ \A t \in Scopes : Local(t)' = Local(t)
  BY <1>6 DEF Local
<1>8. Publication \subseteq Publication' /\ Call \subseteq Call'
  BY <1>4 DEF Publication, Call, Child
<1>9. UNCHANGED <<published, calls, poisoned>>
  BY DEF Child
<1>10. TypeOK'
  <2>1. published' \in Seq(Publication')
    BY <1>8, <1>9 DEF TypeOK
  <2>2. calls' \in [Callers -> Call' \cup {Idle}]
    BY <1>8, <1>9 DEF TypeOK
  <2>3. \A t \in Scopes' : \A c \in Local(t)' :
          published'[entries'[t][c]].scope = t /\ published'[entries'[t][c]].id = c
    BY <1>4, <1>6, <1>7, <1>9 DEF TypeOK
  <2>4. QED BY <1>1, <1>3, <1>5, <1>6, <1>9, <2>1, <2>2, <2>3 DEF TypeOK
<1>11. PathsAreChains'
  <2>1. path[s] \subseteq Scopes
    BY <1>1 DEF PathsAreChains
  <2>2. ASSUME NEW t \in Scopes
        PROVE  /\ path'[t] = path[t] /\ path[t] \subseteq Scopes
    BY <1>1, <1>3 DEF PathsAreChains
  <2>3. ASSUME NEW t \in Scopes
        PROVE  /\ t \in path'[t] /\ path'[t] \subseteq 1..t
               /\ \A u \in path'[t] : path'[u] \subseteq path'[t]
               /\ \A u, v \in path'[t] : u \in path'[v] \/ v \in path'[u]
    BY <2>2 DEF PathsAreChains
  <2>4. /\ new \in path'[new] /\ path'[new] \subseteq 1..new
        /\ \A u \in path'[new] : path'[u] \subseteq path'[new]
        /\ \A u, v \in path'[new] : u \in path'[v] \/ v \in path'[u]
    BY <1>1, <1>3, <2>1, <2>2 DEF PathsAreChains
  <2>5. QED BY <1>4, <2>3, <2>4 DEF PathsAreChains
<1>12. TeardownIsTotal'
  <2>1. \A t \in Scopes : Open(t)' <=> Open(t)
    BY <1>5 DEF Open
  <2>2. Open(new)' => Open(s)
    BY <1>5 DEF Open, ChildLifecycle
  <2>3. \A t \in Scopes : path[t] \subseteq Scopes
    BY <1>1 DEF PathsAreChains
  <2>4. QED BY <1>3, <1>4, <1>7, <2>1, <2>2, <2>3 DEF TeardownIsTotal
<1>13. OwnershipIsWellFounded' /\ GenerationsAreBounded'
  BY <1>3, <1>4, <1>9, TypeFacts DEF OwnershipIsWellFounded, GenerationsAreBounded, Publication
<1>14. CallsHoldAncestors'
  BY <1>3, <1>9, CallForm DEF CallsHoldAncestors, HoldsAncestors
<1>15. QED BY <1>10, <1>11, <1>12, <1>13, <1>14

(* A publication: what is appended, and the slot it fills.                 *)
LEMMA PublishFacts ==
  ASSUME IInv, NEW k \in Callers, FinishPublish(k)
  PROVE  LET p == calls[k]
             c == p.definition.id
             n == Len(published)
         IN /\ n \in Nat /\ n + 1 <= MaxEntries
            /\ p.scope \in Scopes /\ Open(p.scope) /\ c \in Capabilities
            /\ LocalGeneration(p.scope, c) = p.expected
            /\ NextGeneration(p.scope, c) \in 1..(n + 1)
            /\ p.snapshot \in Snapshots(n) /\ DOMAIN p.snapshot = p.definition.dependencies
            /\ Len(published') = n + 1
            /\ \A e \in 1..n : published'[e] = published[e]
            /\ published'[n + 1] =
                 [scope |-> p.scope, id |-> c, dependencies |-> p.definition.dependencies,
                  generation |-> NextGeneration(p.scope, c), snapshot |-> p.snapshot]
            /\ published' \in Seq(Publication')
            /\ \A t \in Scopes, x \in Capabilities :
                 entries'[t][x] = IF t = p.scope /\ x = c THEN n + 1 ELSE entries[t][x]
<1> DEFINE p == calls[k]
           c == p.definition.id
           n == Len(published)
           new == [scope |-> p.scope, id |-> c, dependencies |-> p.definition.dependencies,
                   generation |-> NextGeneration(p.scope, c), snapshot |-> p.snapshot]
<1>1. n \in Nat /\ n < MaxEntries /\ MaxEntries \in Nat /\ calls[k] # Idle
  BY TypeFacts, ScopeAssumption DEF IInv, FinishPublish, Resolved
<1>2. /\ p.scope \in Scopes /\ c \in Capabilities /\ p.snapshot \in Snapshots(n)
      /\ p.definition.dependencies \in SUBSET Capabilities /\ p.expected \in 0..MaxEntries
  BY <1>1, CallForm DEF IInv
<1>3. Open(p.scope) /\ LocalGeneration(p.scope, c) = p.expected
  BY DEF FinishPublish, Admitted, CheckExpectation
<1>4. DOMAIN p.snapshot = p.definition.dependencies
  BY DEF FinishPublish, Resolved
<1>5. NextGeneration(p.scope, c) \in 1..(n + 1)
  <2>1. CASE c \in Local(p.scope)
    <3>1. entries[p.scope][c] \in 1..n
      BY <1>2, <2>1, TypeFacts DEF IInv, EntryIds
    <3>2. published[entries[p.scope][c]].generation <= entries[p.scope][c]
      BY <3>1 DEF IInv, GenerationsAreBounded, EntryIds
    <3> DEFINE e == entries[p.scope][c]
               g == published[e].generation
    <3>3. LocalGeneration(p.scope, c) = g
      BY <2>1 DEF LocalGeneration
    <3>4. g = p.expected
      BY <1>3, <3>3
    <3> HIDE DEF p, c, n, e, g
    <3>5. g \in 0..MaxEntries
      BY <1>2, <3>4
    <3>6. e \in 1..n /\ g <= e
      BY <3>1, <3>2 DEF e, g
    <3>7. g \in 0..n
      BY <1>1, <3>5, <3>6
    <3>8. QED BY <1>1, <3>3, <3>7 DEF NextGeneration
  <2>2. CASE c \notin Local(p.scope)
    BY <1>1, <2>2 DEF NextGeneration, LocalGeneration, New
  <2>3. QED BY <2>1, <2>2
<1>6. published' = Append(published, new) /\ UNCHANGED path
  BY DEF FinishPublish
<1>7. published \in Seq(Publication)
  BY DEF IInv, TypeOK
<1>8. Len(published') = n + 1 /\ (\A e \in 1..n : published'[e] = published[e])
      /\ published'[n + 1] = new
  <2> HIDE DEF new
  <2>1. QED BY <1>6, <1>7
<1>9. published' \in Seq(Publication')
  <2>1. Snapshots(n) \subseteq Snapshots(n + 1)
    BY <1>1, SnapshotsGrow
  <2>2. Publication' =
          [scope : Scopes, id : Capabilities, dependencies : SUBSET Capabilities,
           generation : 1..MaxEntries, snapshot : Snapshots(n + 1)]
    <3>1. Scopes' = Scopes
      BY <1>6 DEF Scopes
    <3>2. Snapshots(Len(published))' = Snapshots(n + 1)
      BY <1>8 DEF Snapshots
    <3>3. QED BY <3>1, <3>2 DEF Publication
  <2>3. Publication \subseteq Publication'
    BY <2>1, <2>2 DEF Publication
  <2>4. new \in Publication'
    BY <1>1, <1>2, <1>5, <2>1, <2>2
  <2> HIDE DEF new
  <2>5. published \in Seq(Publication')
    BY <1>7, <2>3
  <2>6. QED BY <1>6, <2>4, <2>5
<1>10. ASSUME NEW t \in Scopes, NEW x \in Capabilities
       PROVE  entries'[t][x] = IF t = p.scope /\ x = c THEN n + 1 ELSE entries[t][x]
  <2>1. entries \in [Scopes -> [Capabilities -> 0..n]]
    BY DEF IInv, TypeOK
  <2>2. entries' = [entries EXCEPT ![p.scope][c] = n + 1]
    BY DEF FinishPublish
  <2>3. QED BY <1>2, <2>1, <2>2
<1>11. QED BY <1>1, <1>2, <1>3, <1>4, <1>5, <1>8, <1>9, <1>10

LEMMA FinishPublishStep ==
  ASSUME IInv, NEW k \in Callers, FinishPublish(k)
  PROVE  IInv'
<1> USE DEF IInv
<1> DEFINE p == calls[k]
<1>0. PICK n : n = Len(published)
  OBVIOUS
<1>1. PICK s, c : s = p.scope /\ c = p.definition.id
  OBVIOUS
<1>2. /\ n \in Nat /\ n + 1 <= MaxEntries /\ MaxEntries \in Nat
      /\ s \in Scopes /\ Open(s) /\ c \in Capabilities
      /\ p.snapshot \in Snapshots(n) /\ DOMAIN p.snapshot = p.definition.dependencies
      /\ Len(published') = n + 1
      /\ \A e \in 1..n : published'[e] = published[e]
  BY <1>0, <1>1, PublishFacts, ScopeAssumption
<1>3. /\ published'[n + 1].scope = s /\ published'[n + 1].id = c
      /\ published'[n + 1].dependencies = p.definition.dependencies
      /\ published'[n + 1].generation \in 1..(n + 1)
      /\ published'[n + 1].snapshot = p.snapshot
      /\ published' \in Seq(Publication')
  <2>1. /\ published'[Len(published) + 1] =
             [scope |-> p.scope, id |-> p.definition.id,
              dependencies |-> p.definition.dependencies,
              generation |-> NextGeneration(p.scope, p.definition.id), snapshot |-> p.snapshot]
        /\ NextGeneration(p.scope, p.definition.id) \in 1..(Len(published) + 1)
        /\ published' \in Seq(Publication')
    BY PublishFacts
  <2>2. QED BY <1>0, <1>1, <2>1
<1>4. \A t \in Scopes, x \in Capabilities :
        entries'[t][x] = IF t = s /\ x = c THEN n + 1 ELSE entries[t][x]
  <2>1. \A t \in Scopes, x \in Capabilities :
          entries'[t][x] = IF t = p.scope /\ x = p.definition.id
                           THEN Len(published) + 1 ELSE entries[t][x]
    BY PublishFacts
  <2>2. QED BY <1>0, <1>1, <2>1
<1>5. /\ UNCHANGED <<path, lifecycle, poisoned>>
      /\ \A j \in Callers : calls'[j] = IF j = k THEN Idle ELSE calls[j]
      /\ DOMAIN calls' = Callers
  BY DEF FinishPublish, TypeOK
<1>6. /\ Scopes' = Scopes /\ EntryIds = 1..n /\ EntryIds' = 1..(n + 1)
      /\ \A t \in Scopes : Open(t)' <=> Open(t)
  BY <1>0, <1>2, <1>5 DEF Scopes, EntryIds, Open
<1>7. \A t \in Scopes : Local(t)' = IF t = s THEN Local(t) \cup {c} ELSE Local(t)
  BY <1>2, <1>4 DEF Local, NoEntry
<1>8. Snapshots(n) \subseteq Snapshots(n + 1) /\ Snapshots(Len(published))' = Snapshots(n + 1)
  BY <1>2, SnapshotsGrow DEF Snapshots
<1>9. TypeOK'
  <2>1. entries' \in [Scopes' -> [Capabilities -> 0..Len(published')]]
    <3>1. entries \in [Scopes -> [Capabilities -> 0..n]]
      BY <1>0 DEF TypeOK
    <3>2. entries' = [entries EXCEPT ![s][c] = n + 1]
      BY <1>0, <1>1 DEF FinishPublish
    <3>3. QED BY <1>2, <1>6, <3>1, <3>2
  <2>2. ASSUME NEW t \in Scopes, NEW x \in Local(t)'
        PROVE  published'[entries'[t][x]].scope = t /\ published'[entries'[t][x]].id = x
    <3>1. CASE t = s /\ x = c
      BY <1>2, <1>3, <1>4, <3>1
    <3>2. CASE ~(t = s /\ x = c)
      <4>1. x \in Local(t) /\ x \in Capabilities
        BY <1>7, <3>2 DEF Local
      <4>2. entries[t][x] \in 1..n /\ entries'[t][x] = entries[t][x]
        BY <1>4, <1>6, <3>2, <4>1, TypeFacts
      <4>3. QED BY <1>2, <4>1, <4>2, TypeFacts
    <3>3. QED BY <3>1, <3>2
  <2>3. calls' \in [Callers -> Call' \cup {Idle}]
    <3>1. Call' = [scope : Scopes, definition : Definitions, expected : 0..MaxEntries,
                   seen : 0..(n + 1), snapshot : Snapshots(n + 1),
                   walk : [at : Scopes, id : Capabilities] \cup {NoWalk}]
      BY <1>2, <1>6, <1>8 DEF Call
    <3>2. Call \subseteq Call'
      <4>1. 0..n \subseteq 0..(n + 1)
        BY <1>2
      <4>2. QED BY <1>0, <1>8, <3>1, <4>1 DEF Call
    <3>3. calls' = [calls EXCEPT ![k] = Idle] /\ calls \in [Callers -> Call \cup {Idle}]
      BY DEF FinishPublish, TypeOK
    <3>4. QED BY <3>2, <3>3
  <2>4. QED BY <1>2, <1>3, <1>5, <1>6, <2>1, <2>2, <2>3 DEF TypeOK
<1>10. PathsAreChains'
  BY <1>5, <1>6 DEF PathsAreChains
<1>11. TeardownIsTotal'
  <2>1. \A t \in Scopes : path[t] \subseteq Scopes
    BY TypeFacts DEF PathsAreChains, Scopes
  <2>2. \A t \in Scopes : ~Open(t)' => Local(t)' = {}
    BY <1>2, <1>6, <1>7 DEF TeardownIsTotal
  <2>3. \A t \in Scopes : Open(t)' => \A u \in path[t] : Open(u)'
    BY <1>6, <2>1 DEF TeardownIsTotal
  <2>4. QED BY <1>5, <1>6, <2>2, <2>3 DEF TeardownIsTotal
<1>12. GenerationsAreBounded'
  BY <1>2, <1>3, <1>6 DEF GenerationsAreBounded
<1>13. \A x \in DOMAIN p.snapshot :
         /\ p.snapshot[x] \in 1..n
         /\ published[p.snapshot[x]].id = x
         /\ published[p.snapshot[x]].scope \in path[s]
  <2>1. calls[k] # Idle
    BY DEF FinishPublish, Resolved
  <2>2. QED BY <1>1, <1>2, <2>1, SnapshotForm DEF CallsHoldAncestors, HoldsAncestors
<1>14. OwnershipIsWellFounded'
  <2>1. ASSUME NEW e \in 1..n
        PROVE  /\ DOMAIN published'[e].snapshot = published'[e].dependencies
               /\ \A x \in published'[e].dependencies :
                    /\ published'[e].snapshot[x] < e
                    /\ published'[published'[e].snapshot[x]].id = x
                    /\ published'[published'[e].snapshot[x]].scope \in path'[published'[e].scope]
    <3>1. published[e] \in Publication /\ published[e].snapshot \in Snapshots(n)
      BY <1>0, <1>6, TypeFacts DEF Publication
    <3>2. \A x \in DOMAIN published[e].snapshot : published[e].snapshot[x] \in 1..n
      BY <1>2, <3>1, SnapshotForm
    <3>3. QED BY <1>2, <1>5, <1>6, <3>2 DEF OwnershipIsWellFounded
  <2>2. /\ DOMAIN published'[n + 1].snapshot = published'[n + 1].dependencies
        /\ \A x \in published'[n + 1].dependencies :
             /\ published'[n + 1].snapshot[x] < n + 1
             /\ published'[published'[n + 1].snapshot[x]].id = x
             /\ published'[published'[n + 1].snapshot[x]].scope \in path'[published'[n + 1].scope]
    BY <1>2, <1>3, <1>5, <1>13
  <2>3. QED BY <1>2, <1>6, <2>1, <2>2 DEF OwnershipIsWellFounded
<1>15. CallsHoldAncestors'
  <2>1. ASSUME NEW j \in Callers, calls'[j] # Idle
        PROVE  /\ \A x \in DOMAIN calls'[j].snapshot :
                    /\ published'[calls'[j].snapshot[x]].id = x
                    /\ published'[calls'[j].snapshot[x]].scope \in path'[calls'[j].scope]
               /\ calls'[j].walk # NoWalk => calls'[j].walk.at \in path'[calls'[j].scope]
    <3>1. calls'[j] = calls[j] /\ calls[j] # Idle
      BY <1>5, <2>1
    <3>2. \A x \in DOMAIN calls[j].snapshot : calls[j].snapshot[x] \in 1..n
      BY <1>0, <1>2, <3>1, CallForm, SnapshotForm
    <3>3. QED BY <1>2, <1>5, <3>1, <3>2 DEF CallsHoldAncestors, HoldsAncestors
  <2>2. QED BY <2>1 DEF CallsHoldAncestors, HoldsAncestors
<1>16. QED BY <1>9, <1>10, <1>11, <1>12, <1>14, <1>15

LEMMA StutterStep ==
  ASSUME IInv, UNCHANGED vars
  PROVE  IInv'
<1> USE DEF IInv, vars
<1>1. Scopes' = Scopes /\ EntryIds' = EntryIds /\ Call' = Call /\ Publication' = Publication
      /\ \A t : Local(t)' = Local(t) /\ Open(t)' = Open(t)
  BY DEF Scopes, EntryIds, Call, Publication, Local, Open
<1>2. TypeOK'
  BY <1>1 DEF TypeOK
<1>3. PathsAreChains' /\ TeardownIsTotal' /\ OwnershipIsWellFounded' /\ GenerationsAreBounded'
  BY <1>1 DEF PathsAreChains, TeardownIsTotal, OwnershipIsWellFounded, GenerationsAreBounded
<1>4. CallsHoldAncestors'
  BY DEF CallsHoldAncestors, HoldsAncestors
<1>5. QED BY <1>2, <1>3, <1>4

(* Every reachable state of the tree satisfies the inductive invariant.    *)
THEOREM ScopeInvariant == Spec => []IInv
<1>1. IInv /\ [Next]_vars => IInv'
  <2> SUFFICES ASSUME IInv, [Next]_vars PROVE IInv'
    OBVIOUS
  <2>1. ASSUME NEW k \in Callers \ Fibers, NEW s \in Scopes, NEW d \in Definitions,
               BeginPublish(k, s, d)
        PROVE  IInv'
    BY <2>1, BeginPublishStep
  <2>2. ASSUME NEW k \in Fibers, NEW s \in Scopes, NEW d \in Definitions, BeginLoad(k, s, d)
        PROVE  IInv'
    BY <2>2, ScopeAssumption, BeginLoadStep
  <2>3. ASSUME NEW k \in Fibers,
               \/ \E c \in Capabilities : BeginLookup(k, c)
               \/ LookupFinds(k) \/ LookupAsksParent(k)
        PROVE  IInv'
    BY <2>3, ScopeAssumption, BeginLookupStep, LookupFindsStep, LookupAsksParentStep
  <2>4. ASSUME NEW k \in Callers, Abandon(k) \/ FinishPublish(k)
        PROVE  IInv'
    BY <2>4, AbandonStep, FinishPublishStep
  <2>5. ASSUME NEW e \in EntryIds, Withdraw(e)
        PROVE  IInv'
    BY <2>5, WithdrawStep
  <2>6. ASSUME NEW s \in Scopes, Child(s) \/ Drop(s) \/ Teardown(s) \/ TeardownPanics(s)
        PROVE  IInv'
    BY <2>6, ChildStep, DropStep, TeardownStep, TeardownPanicsStep
  <2>7. QED BY <2>1, <2>2, <2>3, <2>4, <2>5, <2>6, StutterStep DEF Next
<1>2. QED BY InitIInv, <1>1, PTL DEF Spec

(* The variables keep their types, and an entry is the publication of its  *)
(* own scope and capability.                                               *)
THEOREM ScopeTypes == Spec => []TypeOK
BY ScopeInvariant, PTL DEF IInv

(* A scope that is not open holds nothing, and nothing below it is open.   *)
THEOREM ScopeTeardown == Spec => []TeardownIsTotal
BY ScopeInvariant, PTL DEF IInv

(* Pinned handles lead upwards in the tree and backwards in time.          *)
THEOREM ScopeOwnership == Spec => []OwnershipIsWellFounded
BY ScopeInvariant, PTL DEF IInv

-----------------------------------------------------------------------------
(* The steps that publish.                                                 *)

LEMMA OnlyFinishPublishes ==
  ASSUME IInv, [Next]_vars, NEW e \in 1..MaxEntries, Publishes(e)
  PROVE  \E k \in Callers :
           /\ FinishPublish(k) /\ e = Len(published) + 1
           /\ published'[e] =
                [scope |-> calls[k].scope, id |-> calls[k].definition.id,
                 dependencies |-> calls[k].definition.dependencies,
                 generation |-> NextGeneration(calls[k].scope, calls[k].definition.id),
                 snapshot |-> calls[k].snapshot]
<1>1. Len(published) \in Nat /\ Len(published') # Len(published)
  BY TypeFacts, ScopeAssumption DEF IInv, Publishes
<1>2. published' # published
  BY <1>1
<1>3. \E k \in Callers : FinishPublish(k)
  BY <1>2 DEF Next, vars, BeginPublish, BeginLoad, BeginLookup, LookupFinds,
              LookupAsksParent, Abandon, Withdraw, Child, Drop, Teardown, TeardownPanics
<1>4. e = Len(published) + 1
  BY <1>1, ScopeAssumption DEF Publishes
<1>5. PICK k \in Callers : FinishPublish(k)
  BY <1>3
<1>6. published'[Len(published) + 1] =
        [scope |-> calls[k].scope, id |-> calls[k].definition.id,
         dependencies |-> calls[k].definition.dependencies,
         generation |-> NextGeneration(calls[k].scope, calls[k].definition.id),
         snapshot |-> calls[k].snapshot]
  BY <1>5, PublishFacts
<1>7. QED BY <1>4, <1>5, <1>6

(* No value is published over a dependency that changed meanwhile.         *)
THEOREM ScopeSnapshot == Spec => SnapshotIsCurrent
<1> DEFINE A == \A e \in 1..MaxEntries : Publishes(e) =>
                  \A c \in published'[e].dependencies :
                    published'[e].snapshot[c] = Get(published'[e].scope, c)
<1>1. IInv /\ [Next]_vars => A
  <2> SUFFICES ASSUME IInv, [Next]_vars, NEW e \in 1..MaxEntries, Publishes(e),
                      NEW c \in published'[e].dependencies
               PROVE  published'[e].snapshot[c] = Get(published'[e].scope, c)
    OBVIOUS
  <2>1. PICK k \in Callers :
          /\ FinishPublish(k)
          /\ published'[e] =
               [scope |-> calls[k].scope, id |-> calls[k].definition.id,
                dependencies |-> calls[k].definition.dependencies,
                generation |-> NextGeneration(calls[k].scope, calls[k].definition.id),
                snapshot |-> calls[k].snapshot]
    BY OnlyFinishPublishes
  <2>2. /\ published'[e].scope = calls[k].scope
        /\ published'[e].dependencies = calls[k].definition.dependencies
        /\ published'[e].snapshot = calls[k].snapshot
    BY <2>1
  <2>3. calls[k].snapshot[c] = Get(calls[k].scope, c)
    BY <2>1, <2>2 DEF FinishPublish, Admitted, SameEntry
  <2>4. QED BY <2>2, <2>3
<1>2. [][A]_vars <=> SnapshotIsCurrent
  BY DEF SnapshotIsCurrent
<1> HIDE DEF A
<1>3. QED BY <1>1, <1>2, ScopeInvariant, PTL DEF Spec

-----------------------------------------------------------------------------
(* Which entry a publication overwrites.                                   *)

(* A call began from an empty slot or from an entry of its slot.           *)
BeganFrom(p) ==
  \/ p.seen = NoEntry /\ p.expected = New
  \/ /\ p.seen \in EntryIds
     /\ published[p.seen].scope = p.scope /\ published[p.seen].id = p.definition.id
     /\ published[p.seen].generation = p.expected

CallsBegan == \A k \in Callers : calls[k] # Idle => BeganFrom(calls[k])

(* A slot that is not empty holds the last publication for it.             *)
SlotsHoldTheLatest ==
  \A s \in Scopes : \A c \in Local(s) : \A x \in EntryIds :
    published[x].scope = s /\ published[x].id = c => x <= entries[s][c]

(* The generations of one slot grow until it starts over.                  *)
SeriesGrow ==
  \A x, y \in EntryIds :
    /\ x < y /\ ~StartedOver(x, y)
    /\ published[x].scope = published[y].scope /\ published[x].id = published[y].id
    => published[x].generation < published[y].generation

SlotInv == CallsBegan /\ SlotsHoldTheLatest /\ SeriesGrow

(* Steps that publish nothing only take entries away, or begin a call.     *)
LEMMA QuietStep ==
  ASSUME SlotInv, UNCHANGED published,
         \A s \in Scopes' : \A c \in Local(s)' :
           s \in Scopes /\ c \in Local(s) /\ entries'[s][c] = entries[s][c],
         \A k \in Callers : calls'[k] # Idle => BeganFrom(calls'[k])
  PROVE  SlotInv'
<1>1. EntryIds' = EntryIds
  BY DEF EntryIds
<1>2. CallsBegan'
  BY <1>1 DEF CallsBegan, BeganFrom
<1>3. SlotsHoldTheLatest'
  BY <1>1 DEF SlotInv, SlotsHoldTheLatest
<1>4. SeriesGrow'
  BY <1>1 DEF SlotInv, SeriesGrow, StartedOver
<1>5. QED BY <1>2, <1>3, <1>4 DEF SlotInv

(* A step that changes one call and nothing else.                          *)
LEMMA QuietCallStep ==
  ASSUME IInv, SlotInv, UNCHANGED <<path, entries, published>>,
         NEW k \in Callers, NEW p, calls' = [calls EXCEPT ![k] = p],
         p # Idle => BeganFrom(p)
  PROVE  SlotInv'
<1>1. \A j \in Callers : calls'[j] # Idle => BeganFrom(calls'[j])
  BY DEF IInv, TypeOK, SlotInv, CallsBegan
<1>2. Scopes' = Scopes /\ \A s : Local(s)' = Local(s)
  BY DEF Scopes, Local
<1>3. QED BY <1>1, <1>2, QuietStep

(* A lookup leaves what the call began from as it is.                      *)
LEMMA LookupKeepsOrigin ==
  ASSUME IInv, SlotInv, UNCHANGED <<path, entries, published>>,
         NEW k \in Callers, calls[k] # Idle, NEW p,
         calls' = [calls EXCEPT ![k] = p],
         p.scope = calls[k].scope, p.definition = calls[k].definition,
         p.expected = calls[k].expected, p.seen = calls[k].seen
  PROVE  SlotInv'
<1>1. BeganFrom(p)
  BY DEF SlotInv, CallsBegan, BeganFrom
<1>2. QED BY <1>1, QuietCallStep

LEMMA QuietBeginPublish ==
  ASSUME IInv, SlotInv, NEW k \in Callers, NEW s \in Scopes, NEW d \in Definitions,
         BeginPublish(k, s, d)
  PROVE  SlotInv'
<1> DEFINE p == [scope |-> s, definition |-> d, expected |-> LocalGeneration(s, d.id),
                 seen |-> entries[s][d.id],
                 snapshot |-> [c \in d.dependencies |-> Get(s, c)], walk |-> NoWalk]
<1>1. d.id \in Capabilities
  BY ScopeAssumption DEF Definition
<1>2. BeganFrom(p)
  <2>1. CASE d.id \in Local(s)
    <3>1. /\ entries[s][d.id] \in EntryIds
          /\ published[entries[s][d.id]].scope = s /\ published[entries[s][d.id]].id = d.id
      BY <2>1, TypeFacts DEF IInv
    <3>2. LocalGeneration(s, d.id) = published[entries[s][d.id]].generation
      BY <2>1 DEF LocalGeneration
    <3>3. QED BY <3>1, <3>2 DEF BeganFrom
  <2>2. CASE d.id \notin Local(s)
    BY <1>1, <2>2 DEF Local, LocalGeneration, BeganFrom
  <2>3. QED BY <2>1, <2>2
<1>3. calls' = [calls EXCEPT ![k] = p] /\ UNCHANGED <<path, entries, published>>
  BY DEF BeginPublish
<1> HIDE DEF p
<1>4. QED BY <1>2, <1>3, QuietCallStep

LEMMA QuietBeginLoad ==
  ASSUME IInv, SlotInv, NEW k \in Callers, NEW s \in Scopes, NEW d \in Definitions,
         BeginLoad(k, s, d)
  PROVE  SlotInv'
<1> DEFINE p == [scope |-> s, definition |-> d, expected |-> New, seen |-> NoEntry,
                 snapshot |-> [c \in {} |-> NoEntry], walk |-> NoWalk]
<1>1. BeganFrom(p)
  BY DEF BeganFrom
<1>2. calls' = [calls EXCEPT ![k] = p] /\ UNCHANGED <<path, entries, published>>
  BY DEF BeginLoad
<1> HIDE DEF p
<1>3. QED BY <1>1, <1>2, QuietCallStep

LEMMA QuietLookup ==
  ASSUME IInv, SlotInv, NEW k \in Callers,
         \/ \E c \in Capabilities : BeginLookup(k, c)
         \/ LookupFinds(k) \/ LookupAsksParent(k)
  PROVE  SlotInv'
<1> DEFINE q == calls[k]
<1>1. /\ q # Idle /\ UNCHANGED <<path, entries, published>>
      /\ \/ \E w : calls' = [calls EXCEPT ![k] = [q EXCEPT !.walk = w]]
         \/ \E w, f : calls' = [calls EXCEPT ![k] =
                                 [[q EXCEPT !.walk = w] EXCEPT !.snapshot = f]]
  <2>1. CASE \E c \in Capabilities : BeginLookup(k, c)
    BY <2>1 DEF BeginLookup
  <2>2. CASE LookupFinds(k)
    BY <2>2 DEF LookupFinds, Walking
  <2>3. CASE LookupAsksParent(k)
    BY <2>3 DEF LookupAsksParent, Walking
  <2>4. QED BY <2>1, <2>2, <2>3
<1>2. q = [scope |-> q.scope, definition |-> q.definition, expected |-> q.expected,
           seen |-> q.seen, snapshot |-> q.snapshot, walk |-> q.walk]
  BY <1>1, CallForm DEF IInv
<1>3. ASSUME NEW r, NEW w, r = [q EXCEPT !.walk = w]
      PROVE  /\ r = [scope |-> q.scope, definition |-> q.definition, expected |-> q.expected,
                     seen |-> q.seen, snapshot |-> q.snapshot, walk |-> w]
             /\ calls' = [calls EXCEPT ![k] = r] => SlotInv'
  <2> HIDE DEF q
  <2>1. r = [scope |-> q.scope, definition |-> q.definition, expected |-> q.expected,
             seen |-> q.seen, snapshot |-> q.snapshot, walk |-> w]
    BY <1>2, <1>3
  <2>2. /\ r.scope = q.scope /\ r.definition = q.definition
        /\ r.expected = q.expected /\ r.seen = q.seen
    BY <2>1
  <2>3. QED BY <1>1, <2>1, <2>2, LookupKeepsOrigin DEF q
<1>4. ASSUME NEW w, NEW f,
             calls' = [calls EXCEPT ![k] = [[q EXCEPT !.walk = w] EXCEPT !.snapshot = f]]
      PROVE  SlotInv'
  <2> HIDE DEF q
  <2>1. PICK r : r = [q EXCEPT !.walk = w]
    OBVIOUS
  <2>2. PICK v : v = [r EXCEPT !.snapshot = f]
    OBVIOUS
  <2>3. r = [scope |-> q.scope, definition |-> q.definition, expected |-> q.expected,
             seen |-> q.seen, snapshot |-> q.snapshot, walk |-> w]
    BY <1>3, <2>1
  <2>4. /\ v.scope = q.scope /\ v.definition = q.definition
        /\ v.expected = q.expected /\ v.seen = q.seen
    BY <2>2, <2>3
  <2>5. calls' = [calls EXCEPT ![k] = v]
    BY <1>4, <2>1, <2>2
  <2>6. QED BY <1>1, <2>4, <2>5, LookupKeepsOrigin DEF q
<1>5. CASE \E w : calls' = [calls EXCEPT ![k] = [q EXCEPT !.walk = w]]
  <2>1. PICK w : calls' = [calls EXCEPT ![k] = [q EXCEPT !.walk = w]]
    BY <1>5
  <2> HIDE DEF q
  <2>2. PICK r : r = [q EXCEPT !.walk = w]
    OBVIOUS
  <2>3. QED BY <1>3, <2>1, <2>2
<1> HIDE DEF q
<1>6. QED BY <1>1, <1>4, <1>5

LEMMA QuietClosing ==
  ASSUME IInv, SlotInv,
         \/ \E e \in EntryIds : Withdraw(e)
         \/ \E s \in Scopes : Child(s) \/ Drop(s) \/ Teardown(s) \/ TeardownPanics(s)
  PROVE  SlotInv'
<1> DEFINE Shrinks == \A s \in Scopes' : \A c \in Local(s)' :
                        s \in Scopes /\ c \in Local(s) /\ entries'[s][c] = entries[s][c]
<1>1. UNCHANGED <<published, calls>>
  BY DEF Withdraw, Child, Drop, Teardown, TeardownPanics
<1>2. \A k \in Callers : calls'[k] # Idle => BeganFrom(calls'[k])
  BY <1>1 DEF SlotInv, CallsBegan
<1>3. Shrinks
  <2>1. entries \in [Scopes -> [Capabilities -> 0..Len(published)]]
    BY DEF IInv, TypeOK
  <2>2. ASSUME NEW e \in EntryIds, Withdraw(e) PROVE Shrinks
    <3>1. Scopes' = Scopes /\ published[e].scope \in Scopes /\ published[e].id \in Capabilities
      BY <2>2, TypeFacts DEF IInv, Publication, Withdraw, Scopes
    <3>2. entries' = [entries EXCEPT ![published[e].scope][published[e].id] = NoEntry]
      BY <2>2 DEF Withdraw
    <3>3. QED BY <2>1, <3>1, <3>2 DEF Local
  <2>3. ASSUME NEW s \in Scopes, Child(s) PROVE Shrinks
    <3>1. Len(path) \in Nat /\ Len(path') = Len(path) + 1
      BY <2>3, TypeFacts DEF IInv, TypeOK, Child
    <3>2. entries \in [1..Len(path) -> [Capabilities -> 0..Len(published)]]
      BY <2>1 DEF Scopes
    <3>3. [c \in Capabilities |-> NoEntry] \in [Capabilities -> 0..Len(published)]
      BY TypeFacts DEF IInv, NoEntry
    <3>4. /\ \A t \in 1..Len(path) : entries'[t] = entries[t]
          /\ entries'[Len(path) + 1] = [c \in Capabilities |-> NoEntry]
      BY <2>3, <3>1, <3>2, <3>3, AppendedTable DEF Child
    <3>5. QED BY <3>1, <3>4 DEF Scopes, Local
  <2>4. ASSUME NEW s \in Scopes, Drop(s) PROVE Shrinks
    BY <2>1, <2>4 DEF Drop, Local, Scopes
  <2>5. ASSUME NEW S, UNCHANGED path, entries' = Emptied(S) PROVE Shrinks
    BY <2>1, <2>5 DEF Emptied, Local, Scopes
  <2>6. ASSUME NEW s \in Scopes, Teardown(s) PROVE Shrinks
    BY <2>5, <2>6 DEF Teardown
  <2>7. ASSUME NEW s \in Scopes, TeardownPanics(s) PROVE Shrinks
    BY <2>5, <2>7 DEF TeardownPanics
  <2>8. QED BY <2>2, <2>3, <2>4, <2>6, <2>7
<1>4. QED BY <1>1, <1>2, <1>3, QuietStep

(* The publication takes the slot over and carries its series on, or it    *)
(* starts one in an empty slot.                                            *)
LEMMA PublishKeepsSlots ==
  ASSUME IInv, SlotInv, NEW k \in Callers, FinishPublish(k)
  PROVE  SlotInv'
<1> DEFINE p == calls[k]
<1>0. PICK n, s, c, g : /\ n = Len(published) /\ s = p.scope /\ c = p.definition.id
                        /\ g = NextGeneration(s, c)
  OBVIOUS
<1>1. /\ n \in Nat /\ s \in Scopes /\ c \in Capabilities
      /\ Len(published') = n + 1
      /\ \A e \in 1..n : published'[e] = published[e]
      /\ published'[n + 1].scope = s /\ published'[n + 1].id = c
      /\ published'[n + 1].generation = g
      /\ \A t \in Scopes, x \in Capabilities :
           entries'[t][x] = IF t = s /\ x = c THEN n + 1 ELSE entries[t][x]
  <2>1. /\ Len(published) \in Nat /\ p.scope \in Scopes /\ p.definition.id \in Capabilities
        /\ Len(published') = Len(published) + 1
        /\ \A e \in 1..Len(published) : published'[e] = published[e]
        /\ published'[Len(published) + 1] =
             [scope |-> p.scope, id |-> p.definition.id,
              dependencies |-> p.definition.dependencies,
              generation |-> NextGeneration(p.scope, p.definition.id), snapshot |-> p.snapshot]
        /\ \A t \in Scopes, x \in Capabilities :
             entries'[t][x] = IF t = p.scope /\ x = p.definition.id
                              THEN Len(published) + 1 ELSE entries[t][x]
    BY PublishFacts
  <2> HIDE DEF p
  <2>2. QED BY <1>0, <2>1
<1>2. /\ EntryIds = 1..n /\ EntryIds' = 1..(n + 1) /\ Scopes' = Scopes
      /\ \A e \in 1..n : published[e].generation \in Nat
  BY <1>0, <1>1, TypeFacts, ScopeAssumption DEF IInv, EntryIds, Scopes, FinishPublish, Publication
<1>3. CallsBegan'
  <2>1. ASSUME NEW j \in Callers, calls'[j] # Idle PROVE BeganFrom(calls[j])'
    <3>1. calls'[j] = calls[j] /\ calls[j] # Idle
      BY <2>1 DEF FinishPublish, IInv, TypeOK
    <3>2. BeganFrom(calls[j])
      BY <3>1 DEF SlotInv, CallsBegan
    <3>3. CASE calls[j].seen = NoEntry /\ calls[j].expected = New
      BY <3>1, <3>3 DEF BeganFrom
    <3>4. CASE calls[j].seen \in EntryIds
      <4>1. calls[j].seen \in 1..n /\ calls[j].seen \in 1..(n + 1)
        BY <1>1, <1>2, <3>4
      <4>2. published'[calls[j].seen] = published[calls[j].seen]
        BY <1>1, <4>1
      <4>3. \/ calls[j].seen = NoEntry /\ calls[j].expected = New
            \/ /\ published[calls[j].seen].scope = calls[j].scope
               /\ published[calls[j].seen].id = calls[j].definition.id
               /\ published[calls[j].seen].generation = calls[j].expected
        BY <3>2 DEF BeganFrom
      <4>4. QED BY <1>2, <3>1, <4>1, <4>2, <4>3 DEF BeganFrom
    <3>5. QED BY <3>2, <3>3, <3>4 DEF BeganFrom
  <2>2. QED BY <2>1 DEF CallsBegan
<1>4. SlotsHoldTheLatest'
  <2>1. ASSUME NEW t \in Scopes, NEW x \in Local(t)', NEW y \in 1..(n + 1),
               published'[y].scope = t, published'[y].id = x
        PROVE  y <= entries'[t][x]
    <3>1. x \in Capabilities
      BY DEF Local
    <3>2. CASE t = s /\ x = c
      BY <1>1, <3>2
    <3>3. CASE ~(t = s /\ x = c)
      <4>1. y \in 1..n /\ published'[y] = published[y]
        BY <1>1, <2>1, <3>3
      <4>2. entries'[t][x] = entries[t][x] /\ x \in Local(t)
        BY <1>1, <3>1, <3>3 DEF Local
      <4>3. QED BY <1>2, <2>1, <4>1, <4>2 DEF SlotInv, SlotsHoldTheLatest
    <3>4. QED BY <3>2, <3>3
  <2>2. QED BY <1>2, <2>1 DEF SlotsHoldTheLatest
<1>5. SeriesGrow'
  <2>1. ASSUME NEW x \in 1..(n + 1), NEW y \in 1..(n + 1), x < y, ~StartedOver(x, y)',
               published'[x].scope = published'[y].scope, published'[x].id = published'[y].id
        PROVE  published'[x].generation < published'[y].generation
    <3>0. x \in 1..n /\ published'[x] = published[x]
      BY <1>1, <2>1
    <3>1. \A z \in (x + 1)..y : ~(/\ published'[z].scope = published'[y].scope
                                  /\ published'[z].id = published'[y].id
                                  /\ published'[z].generation = 1)
      BY <2>1 DEF StartedOver
    <3>2. CASE y \in 1..n
      <4>1. published'[y] = published[y] /\ \A z \in (x + 1)..y : z \in 1..n
        BY <1>1, <3>0, <3>2
      <4>2. ~StartedOver(x, y)
        BY <1>1, <3>1, <4>1 DEF StartedOver
      <4>3. QED BY <1>2, <2>1, <3>0, <3>2, <4>1, <4>2 DEF SlotInv, SeriesGrow
    <3>3. CASE y = n + 1
      <4>1. c \in Local(s)
        <5>1. n + 1 \in (x + 1)..y
          BY <1>1, <3>0, <3>3
        <5>2. g # 1
          BY <1>1, <3>1, <3>3, <5>1
        <5>3. QED BY <1>0, <5>2 DEF NextGeneration, LocalGeneration, New
      <4>2. PICK b : b = entries[s][c]
        OBVIOUS
      <4>3. /\ b \in 1..n /\ published[b].scope = s /\ published[b].id = c
            /\ g = published[b].generation + 1
        <5>1. b \in 1..n /\ published[b].scope = s /\ published[b].id = c
          BY <1>1, <1>2, <4>1, <4>2, TypeFacts DEF IInv
        <5>2. LocalGeneration(s, c) = published[b].generation
          BY <4>1, <4>2 DEF LocalGeneration
        <5>3. QED BY <1>0, <5>1, <5>2 DEF NextGeneration
      <4>4. x <= b
        BY <1>1, <1>2, <2>1, <3>0, <3>3, <4>1, <4>2 DEF SlotInv, SlotsHoldTheLatest
      <4>5. published[x].generation <= published[b].generation
        <5>1. CASE x = b
          BY <1>2, <4>3, <5>1
        <5>2. CASE x < b
          <6>1. \A z \in (x + 1)..b : z \in 1..n /\ z \in (x + 1)..y /\ published'[z] = published[z]
            BY <1>1, <3>0, <3>3, <4>3
          <6>2. ~StartedOver(x, b)
            BY <1>1, <3>1, <3>3, <4>3, <6>1 DEF StartedOver
          <6>3. published[x].generation < published[b].generation
            BY <1>1, <1>2, <2>1, <3>0, <3>3, <4>3, <5>2, <6>2 DEF SlotInv, SeriesGrow
          <6>4. QED BY <1>2, <3>0, <4>3, <6>3
        <5>3. QED BY <3>0, <4>3, <4>4, <5>1, <5>2
      <4>6. QED BY <1>1, <1>2, <3>0, <3>3, <4>3, <4>5
    <3>4. QED BY <1>1, <3>2, <3>3
  <2>2. QED BY <1>2, <2>1 DEF SeriesGrow
<1>6. QED BY <1>3, <1>4, <1>5 DEF SlotInv

LEMMA SlotInvariant == Spec => []SlotInv
<1>1. Init => SlotInv
  <2> SUFFICES ASSUME Init PROVE SlotInv
    OBVIOUS
  <2>1. EntryIds = {} /\ \A k \in Callers : calls[k] = Idle
    BY DEF Init, EntryIds
  <2>2. QED BY <2>1 DEF SlotInv, CallsBegan, SlotsHoldTheLatest, SeriesGrow
<1>2. IInv /\ SlotInv /\ [Next]_vars => SlotInv'
  <2> SUFFICES ASSUME IInv, SlotInv, [Next]_vars PROVE SlotInv'
    OBVIOUS
  <2>1. ASSUME NEW k \in Callers \ Fibers, NEW s \in Scopes, NEW d \in Definitions,
               BeginPublish(k, s, d)
        PROVE  SlotInv'
    BY <2>1, QuietBeginPublish
  <2>2. ASSUME NEW k \in Fibers, NEW s \in Scopes, NEW d \in Definitions, BeginLoad(k, s, d)
        PROVE  SlotInv'
    BY <2>2, ScopeAssumption, QuietBeginLoad
  <2>3. ASSUME NEW k \in Fibers,
               \/ \E c \in Capabilities : BeginLookup(k, c)
               \/ LookupFinds(k) \/ LookupAsksParent(k)
        PROVE  SlotInv'
    BY <2>3, ScopeAssumption, QuietLookup
  <2>4. ASSUME NEW k \in Callers, Abandon(k)
        PROVE  SlotInv'
    BY <2>4, QuietCallStep DEF Abandon
  <2>5. ASSUME NEW k \in Callers, FinishPublish(k)
        PROVE  SlotInv'
    BY <2>5, PublishKeepsSlots
  <2>6. ASSUME \/ \E e \in EntryIds : Withdraw(e)
               \/ \E s \in Scopes : Child(s) \/ Drop(s) \/ Teardown(s) \/ TeardownPanics(s)
        PROVE  SlotInv'
    BY <2>6, QuietClosing
  <2>7. CASE UNCHANGED vars
    <3>1. Scopes' = Scopes /\ UNCHANGED <<published, calls>> /\ \A s : Local(s)' = Local(s)
          /\ UNCHANGED entries
      BY <2>7 DEF vars, Scopes, Local
    <3>2. \A k \in Callers : calls'[k] # Idle => BeganFrom(calls'[k])
      BY <3>1 DEF SlotInv, CallsBegan
    <3>3. QED BY <3>1, <3>2, QuietStep
  <2>8. QED BY <2>1, <2>2, <2>3, <2>4, <2>5, <2>6, <2>7 DEF Next
<1>3. QED BY <1>1, <1>2, ScopeInvariant, PTL DEF Spec

(* A publication overwrites the entry its caller began from, or an empty   *)
(* slot if it began from one, unless that entry was withdrawn meanwhile    *)
(* and the slot filled anew; and it carries a later generation.            *)
THEOREM ScopeLostUpdate == Spec => LostUpdateNeedsWithdrawal
<1> DEFINE A == \A e \in 1..MaxEntries : Publishes(e) =>
                  /\ Overwritten(e) # NoEntry =>
                       published[Overwritten(e)].generation < published'[e].generation
                  /\ \E k \in Callers :
                       /\ Publisher(k)
                       /\ \/ Overwritten(e) = calls[k].seen
                          \/ /\ NoEntry \notin {calls[k].seen, Overwritten(e)}
                             /\ StartedOver(calls[k].seen, Overwritten(e))
<1>1. IInv /\ SlotInv /\ [Next]_vars => A
  <2> SUFFICES ASSUME IInv, SlotInv, [Next]_vars, NEW e \in 1..MaxEntries, Publishes(e)
               PROVE  /\ Overwritten(e) # NoEntry =>
                           published[Overwritten(e)].generation < published'[e].generation
                      /\ \E k \in Callers :
                           /\ Publisher(k)
                           /\ \/ Overwritten(e) = calls[k].seen
                              \/ /\ NoEntry \notin {calls[k].seen, Overwritten(e)}
                                 /\ StartedOver(calls[k].seen, Overwritten(e))
    OBVIOUS
  <2>1. PICK k \in Callers :
          /\ FinishPublish(k)
          /\ published'[e] =
               [scope |-> calls[k].scope, id |-> calls[k].definition.id,
                dependencies |-> calls[k].definition.dependencies,
                generation |-> NextGeneration(calls[k].scope, calls[k].definition.id),
                snapshot |-> calls[k].snapshot]
    BY OnlyFinishPublishes
  <2>2. PICK s, c, a, b, x : /\ s = calls[k].scope /\ c = calls[k].definition.id
                             /\ a = calls[k].seen /\ b = entries[s][c]
                             /\ x = calls[k].expected
    OBVIOUS
  <2>3. Overwritten(e) = b /\ published'[e].generation = NextGeneration(s, c)
    BY <2>1, <2>2 DEF Overwritten
  <2>4. calls[k] # Idle /\ calls'[k] = Idle
    BY <2>1 DEF FinishPublish, Resolved, IInv, TypeOK
  <2>5. s \in Scopes /\ c \in Capabilities /\ b \in Nat /\ LocalGeneration(s, c) = x
    <3>1. s \in Scopes /\ c \in Capabilities /\ LocalGeneration(s, c) = x
      BY <2>1, <2>2, PublishFacts
    <3>2. QED BY <2>2, <3>1, TypeFacts DEF IInv
  <2>6. \/ a = NoEntry /\ x = New
        \/ /\ a \in EntryIds /\ published[a].scope = s /\ published[a].id = c
           /\ published[a].generation = x
    BY <2>2, <2>4 DEF SlotInv, CallsBegan, BeganFrom
  <2>7. \A y \in EntryIds : y \in Nat \ {0} /\ published[y].generation \in Nat \ {0}
    BY TypeFacts, ScopeAssumption DEF IInv, Publication
  <2>8. CASE c \in Local(s)
    <3>1. /\ b \in EntryIds /\ b # NoEntry /\ published[b].scope = s /\ published[b].id = c
          /\ x = published[b].generation
      BY <2>2, <2>5, <2>8, TypeFacts DEF IInv, LocalGeneration, Local
    <3>2. published[b].generation < NextGeneration(s, c)
      BY <2>5, <2>7, <3>1 DEF NextGeneration
    <3>3. a \in EntryIds /\ published[a].scope = s /\ published[a].id = c
          /\ published[a].generation = published[b].generation
      BY <2>6, <2>7, <3>1 DEF New
    <3>4. a <= b
      BY <2>2, <2>5, <2>8, <3>3 DEF SlotInv, SlotsHoldTheLatest
    <3>5. a # b => StartedOver(a, b)
      BY <2>7, <3>1, <3>3, <3>4 DEF SlotInv, SeriesGrow
    <3>6. NoEntry \notin {a, b}
      BY <2>7, <3>1, <3>3 DEF NoEntry
    <3>7. QED BY <2>2, <2>3, <2>4, <3>2, <3>5, <3>6 DEF Publisher
  <2>9. CASE c \notin Local(s)
    <3>1. b = NoEntry /\ x = New
      BY <2>2, <2>5, <2>9 DEF Local, LocalGeneration
    <3>2. a = NoEntry
      BY <2>6, <2>7, <3>1 DEF New
    <3>3. QED BY <2>2, <2>3, <2>4, <3>1, <3>2 DEF Publisher
  <2>10. QED BY <2>8, <2>9
<1>2. [][A]_vars <=> LostUpdateNeedsWithdrawal
  BY DEF LostUpdateNeedsWithdrawal
<1> HIDE DEF A
<1>3. QED BY <1>1, <1>2, ScopeInvariant, SlotInvariant, PTL DEF Spec

-----------------------------------------------------------------------------
(* A lookup ends in one scope only.                                        *)
LEMMA GetOfFound ==
  ASSUME IInv, NEW s \in Scopes, NEW t \in Scopes, NEW c \in Capabilities, FoundIn(s, t, c)
  PROVE  Get(s, c) = entries[t][c]
<1>1. ASSUME NEW u \in Scopes, FoundIn(s, u, c)
      PROVE  u = t
  <2>1. t \in path[u] \/ u \in path[t]
    BY <1>1 DEF FoundIn, IInv, PathsAreChains
  <2>2. QED BY <1>1, <2>1 DEF FoundIn
<1>2. (CHOOSE u \in Scopes : FoundIn(s, u, c)) = t
  BY <1>1
<1>3. QED BY <1>2 DEF Get

(* What a publication changes in a view that sees the new entry: the       *)
(* candidate's definition, and nothing else.                               *)
LEMMA SeenByCandidate ==
  ASSUME IInv, IInv', NEW k \in Callers, FinishPublish(k), NEW t \in Scopes,
         NEW x \in Capabilities, Get(t, x)' = Len(published) + 1
  PROVE  LET s == calls[k].scope
             d == calls[k].definition
         IN /\ x = d.id /\ s \in path[t]
            /\ CandidateAffects(s, t, d.id)
            /\ VisibleGraph(t)' = WithCandidate(VisibleGraph(t), d)
<1>0. PICK s, d, n : s = calls[k].scope /\ d = calls[k].definition /\ n = Len(published)
  OBVIOUS
<1>1. /\ n \in Nat /\ s \in Scopes /\ Open(s) /\ d.id \in Capabilities
      /\ \A e \in 1..n : published'[e] = published[e]
  BY <1>0, PublishFacts
<1>2. published'[n + 1].dependencies = d.dependencies
  <2>1. published'[Len(published) + 1] =
          [scope |-> calls[k].scope, id |-> calls[k].definition.id,
           dependencies |-> calls[k].definition.dependencies,
           generation |-> NextGeneration(calls[k].scope, calls[k].definition.id),
           snapshot |-> calls[k].snapshot]
    BY PublishFacts
  <2>2. QED BY <1>0, <2>1
<1>3. \A u \in Scopes, c \in Capabilities :
        entries'[u][c] = IF u = s /\ c = d.id THEN n + 1 ELSE entries[u][c]
  <2>1. \A u \in Scopes, c \in Capabilities :
          entries'[u][c] = IF u = calls[k].scope /\ c = calls[k].definition.id
                           THEN Len(published) + 1 ELSE entries[u][c]
    BY PublishFacts
  <2>2. QED BY <1>0, <2>1
<1>4. /\ path' = path /\ Scopes' = Scopes
      /\ \A u \in Scopes : Open(u)' <=> Open(u)
  BY DEF FinishPublish, Scopes, Open
<1>5. \A u \in Scopes : Local(u)' = IF u = s THEN Local(u) \cup {d.id} ELSE Local(u)
  BY <1>1, <1>3 DEF Local, NoEntry
<1>6. \A u \in Scopes, c \in Capabilities : entries[u][c] \in 0..n
  BY <1>0 DEF IInv, TypeOK
<1>7. path[t] \subseteq Scopes
  BY TypeFacts DEF IInv, PathsAreChains, Scopes
<1>8. ASSUME NEW c \in Capabilities, Get(t, c)' # NoEntry
      PROVE  \E u \in Scopes : FoundIn(t, u, c)' /\ Get(t, c)' = entries'[u][c]
  BY <1>4, <1>8 DEF Get
<1>9. PICK u \in Scopes : FoundIn(t, u, x)' /\ n + 1 = entries'[u][x]
  BY <1>0, <1>1, <1>8 DEF NoEntry
<1>10. u = s /\ x = d.id
  BY <1>1, <1>3, <1>6, <1>9
<1>11. /\ s \in path[t]
       /\ \A v \in path[t] : s \in path[v] => Open(v) /\ (v # s => d.id \notin Local(v))
  BY <1>4, <1>5, <1>7, <1>9, <1>10 DEF FoundIn
<1>12. CandidateAffects(s, t, d.id)
  BY <1>11 DEF CandidateAffects
<1>13. ASSUME NEW c \in Capabilities, c # d.id
       PROVE  Get(t, c)' = Get(t, c)
  <2>1. \A v \in Scopes : FoundIn(t, v, c)' <=> FoundIn(t, v, c)
    BY <1>4, <1>5, <1>7, <1>13 DEF FoundIn
  <2>2. CASE \E v \in Scopes : FoundIn(t, v, c)
    <3>1. PICK v \in Scopes : FoundIn(t, v, c)' /\ Get(t, c)' = entries'[v][c]
      BY <1>4, <2>1, <2>2 DEF Get
    <3>2. Get(t, c) = entries[v][c]
      BY <2>1, <3>1, GetOfFound
    <3>3. QED BY <1>3, <1>13, <3>1, <3>2
  <2>3. CASE ~\E v \in Scopes : FoundIn(t, v, c)
    BY <1>4, <2>1, <2>3 DEF Get
  <2>4. QED BY <2>2, <2>3
<1>14. VisibleGraph(t)' = WithCandidate(VisibleGraph(t), d)
  <2> DEFINE seen   == { c \in Capabilities : Get(t, c) # NoEntry }
             before == [c \in seen |-> published[Get(t, c)].dependencies]
  <2>1. \A c \in Capabilities : Get(t, c) \in 0..n
    BY <1>0, GetFacts DEF IInv
  <2>2. \A c \in Capabilities : Get(t, c)' # NoEntry <=> c \in seen \cup {d.id}
    BY <1>0, <1>1, <1>10, <1>13 DEF NoEntry
  <2>3. \A c \in seen \cup {d.id} :
          published'[Get(t, c)'].dependencies = IF c = d.id THEN d.dependencies ELSE before[c]
    <3>1. ASSUME NEW c \in seen, c # d.id
          PROVE  published'[Get(t, c)'].dependencies = published[Get(t, c)].dependencies
      BY <1>1, <1>13, <2>1, <3>1 DEF NoEntry
    <3>2. published'[Get(t, d.id)'].dependencies = d.dependencies
      BY <1>0, <1>2, <1>10
    <3>3. QED BY <3>1, <3>2
  <2>4. VisibleGraph(t)' = [c \in seen \cup {d.id} |-> published'[Get(t, c)'].dependencies]
    BY <1>1, <2>2 DEF VisibleGraph
  <2>5. WithCandidate(VisibleGraph(t), d) =
          [c \in seen \cup {d.id} |-> IF c = d.id THEN d.dependencies ELSE before[c]]
    BY DEF VisibleGraph, WithCandidate
  <2>6. QED BY <2>3, <2>4, <2>5
<1>15. QED BY <1>0, <1>10, <1>11, <1>12, <1>14

(* Every open scope that sees a new entry has a resolvable view.           *)
THEOREM ScopeAdmission == Spec => PublicationIsAdmitted
<1> DEFINE A == \A e \in 1..MaxEntries : Publishes(e) =>
                  \A s \in Scopes, c \in Capabilities :
                    Open(s) /\ Get(s, c)' = e => Resolvable(VisibleGraph(s)')
<1>1. IInv /\ IInv' /\ [Next]_vars => A
  <2> SUFFICES ASSUME IInv, IInv', [Next]_vars, NEW e \in 1..MaxEntries, Publishes(e),
                      NEW t \in Scopes, NEW c \in Capabilities, Open(t), Get(t, c)' = e
               PROVE  Resolvable(VisibleGraph(t)')
    OBVIOUS
  <2>1. PICK k \in Callers : FinishPublish(k) /\ e = Len(published) + 1
    BY OnlyFinishPublishes
  <2>2. PICK s, d : s = calls[k].scope /\ d = calls[k].definition
    OBVIOUS
  <2>3. /\ s \in path[t]
        /\ CandidateAffects(s, t, d.id)
        /\ VisibleGraph(t)' = WithCandidate(VisibleGraph(t), d)
    BY <2>1, <2>2, SeenByCandidate
  <2>4. Admitted(calls[k])
    BY <2>1 DEF FinishPublish
  <2>5. CASE t = s
    BY <2>2, <2>3, <2>4, <2>5 DEF Admitted
  <2>6. CASE t # s
    <3>1. t \in Below(s)
      BY <2>3, <2>6 DEF Below, Open
    <3>2. QED BY <2>2, <2>3, <2>4, <3>1 DEF Admitted, ValidateDescendantAdmission
  <2>7. QED BY <2>5, <2>6
<1>2. [][A]_vars <=> PublicationIsAdmitted
  BY DEF PublicationIsAdmitted
<1> HIDE DEF A
<1>3. QED BY <1>1, <1>2, ScopeInvariant, PTL DEF Spec

=============================================================================
