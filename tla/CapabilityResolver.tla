------------------------ MODULE CapabilityResolver ------------------------
(***************************************************************************)
(* CapabilityGraph of crates/capability-graph/src/resolver.rs: a caller    *)
(* builds it with insert and require and resolves it.  The depth-first     *)
(* traversal of resolve() goes step by step: the stack of visit() calls is *)
(* active_path, each with the dependencies its loop has still to visit.    *)
(***************************************************************************)
EXTENDS CapabilityGraph, SequencesExt

VARIABLES
  definitions,         \* the graph
  outcome,             \* "Idle", "Running", or what resolve() returned
  witness,             \* what the error names
  keys,                \* the identifiers resolve() has still to visit
  states,              \* states[c]: a VisitState, "None" when the map has none
  active_path,         \* the capabilities whose visit() has not returned
  pending,             \* pending[c]: the dependencies c's visit() has still to go through
  construction_order

locals == <<keys, states, active_path, pending, construction_order>>
resolverVars == <<definitions, outcome, witness, locals>>

Least(S) == CHOOSE c \in S : \A d \in S : c <= d

Top == Last(active_path)

WholeActivePath(c) == active_path \o <<c>>

ErrorPath(c) ==
  SubSeq(active_path, CHOOSE i \in DOMAIN active_path : active_path[i] = c, Len(active_path)) \o <<c>>

Fresh(K) ==
  /\ keys' = K /\ states' = [c \in Capabilities |-> "None"] /\ active_path' = <<>>
  /\ pending' = [c \in Capabilities |-> {}] /\ construction_order' = <<>>
  /\ witness' = <<>>

ResolverInit ==
  /\ definitions = [c \in {} |-> {}]
  /\ outcome = "Idle" /\ witness = <<>> /\ keys = {}
  /\ states = [c \in Capabilities |-> "None"] /\ active_path = <<>>
  /\ pending = [c \in Capabilities |-> {}] /\ construction_order = <<>>

(* What resolve() returned says nothing of a graph changed since.          *)
Insert(d) ==
  /\ outcome # "Running"
  /\ definitions' = WithCandidate(definitions, d)
  /\ outcome' = "Idle" /\ Fresh({})

(* require() refuses an unregistered consumer or dependency.               *)
Require(consumer, dependency) ==
  /\ outcome # "Running"
  /\ {consumer, dependency} \subseteq DOMAIN definitions
  /\ definitions' = [definitions EXCEPT ![consumer] = @ \cup {dependency}]
  /\ outcome' = "Idle" /\ Fresh({})

Resolve ==
  /\ outcome # "Running"
  /\ outcome' = "Running" /\ Fresh(DOMAIN definitions)
  /\ UNCHANGED definitions

-----------------------------------------------------------------------------
(* visit() of a registered capability; remaining is what the loops of the  *)
(* other calls have still to do.                                           *)
Visit(c, remaining) ==
  \/ /\ states[c] = "Done"
     /\ pending' = remaining
     /\ UNCHANGED <<outcome, witness, states, active_path>>
  \/ /\ states[c] = "Active"
     /\ outcome' = "Cycle" /\ witness' = ErrorPath(c)
     /\ pending' = remaining
     /\ UNCHANGED <<states, active_path>>
  \/ /\ states[c] = "None"
     /\ states' = [states EXCEPT ![c] = "Active"]
     /\ active_path' = Append(active_path, c)
     /\ pending' = [remaining EXCEPT ![c] = definitions[c]]
     /\ UNCHANGED <<outcome, witness>>

VisitKey ==
  /\ outcome = "Running" /\ active_path = <<>> /\ keys # {}
  /\ keys' = keys \ {Least(keys)}
  /\ Visit(Least(keys), pending)
  /\ UNCHANGED <<definitions, construction_order>>

SameRemaining(d) == pending
Remaining(d)     == [pending EXCEPT ![Top] = @ \ {d}]

VisitDependency ==
  /\ outcome = "Running" /\ active_path # <<>> /\ pending[Top] # {}
  /\ LET d == Least(pending[Top])
     IN IF d \in DOMAIN definitions THEN Visit(d, Remaining(d))
        ELSE /\ outcome' = "MissingDependency" /\ witness' = <<Top, d>>
             /\ UNCHANGED <<states, active_path, pending>>
  /\ UNCHANGED <<definitions, keys, construction_order>>

VisitReturns ==
  /\ outcome = "Running" /\ active_path # <<>> /\ pending[Top] = {}
  /\ active_path' = Front(active_path)
  /\ states' = [states EXCEPT ![Top] = "Done"]
  /\ construction_order' = Append(construction_order, Top)
  /\ UNCHANGED <<definitions, outcome, witness, keys, pending>>

ResolveReturns ==
  /\ outcome = "Running" /\ active_path = <<>> /\ keys = {}
  /\ outcome' = "Ok"
  /\ UNCHANGED <<definitions, witness, locals>>

TeardownOrder == Reverse(construction_order)

Traverse == VisitKey \/ VisitDependency \/ VisitReturns \/ ResolveReturns

ResolverNext ==
  \/ \E d \in Definition : Insert(d)
  \/ \E consumer, dependency \in Capabilities : Require(consumer, dependency)
  \/ Resolve
  \/ Traverse

(* A thread that has called resolve() goes on with it.                     *)
ResolverSpec ==
  ResolverInit /\ [][ResolverNext]_resolverVars /\ WF_resolverVars(Traverse)

-----------------------------------------------------------------------------
ResolverTypeOK ==
  /\ definitions \in Graph
  /\ outcome \in {"Idle", "Running", "Ok", "Cycle", "MissingDependency"}
  /\ witness \in Seq(Capabilities)
  /\ keys \in SUBSET Capabilities
  /\ states \in [Capabilities -> {"None", "Active", "Done"}]
  /\ active_path \in Seq(Capabilities)
  /\ pending \in [Capabilities -> SUBSET Capabilities]
  /\ construction_order \in Seq(Capabilities)

(* The traversal succeeds exactly on the graphs that can be constructed,   *)
(* and then lists every capability once, each after all that it requires;  *)
(* teardown order takes every dependent away before what it requires.      *)
(* Otherwise its witness is true: a cycle error is a closed walk along     *)
(* declared requirements that repeats no other capability, and a missing-  *)
(* dependency error names a requirement of a registered capability that is *)
(* not registered.                                                         *)
OrderIsConstructible ==
  /\ ToSet(construction_order) = DOMAIN definitions /\ IsInjective(construction_order)
  /\ \A i, j \in DOMAIN construction_order :
       construction_order[j] \in definitions[construction_order[i]] => j < i
  /\ \A i, j \in DOMAIN TeardownOrder :
       TeardownOrder[j] \in definitions[TeardownOrder[i]] => i < j

WitnessIsCycle ==
  /\ Len(witness) > 1 /\ witness[1] = witness[Len(witness)]
  /\ \A i \in 1..(Len(witness) - 1) :
       witness[i] \in DOMAIN definitions /\ witness[i + 1] \in definitions[witness[i]]
  /\ IsInjective(Front(witness))

WitnessIsMissing ==
  witness[1] \in DOMAIN definitions /\ witness[2] \in definitions[witness[1]] \ DOMAIN definitions

ResolutionIsExact ==
  /\ outcome = "Ok" => Resolvable(definitions) /\ OrderIsConstructible
  /\ outcome = "Cycle" => ~Resolvable(definitions) /\ WitnessIsCycle
  /\ outcome = "MissingDependency" => ~Resolvable(definitions) /\ WitnessIsMissing

(* resolve() returns on every graph, however cyclic: no capability is      *)
(* entered twice and no dependency is visited twice from the same call.    *)
ResolveAnswers == (outcome = "Running") ~> (outcome \notin {"Idle", "Running"})
=============================================================================
