-------------------------- MODULE CapabilityGraph --------------------------
(***************************************************************************)
(* The value of crates/capability-graph/src/resolver.rs: definitions by    *)
(* capability, each the set of capabilities it requires, and which of such *)
(* graphs resolve() accepts.                                               *)
(***************************************************************************)
EXTENDS Integers, Sequences, FiniteSets

CONSTANT Capabilities  \* identifiers, ordered as a BTreeMap orders them

ASSUME CapabilitiesAssumption == Capabilities \subseteq Nat

(* CapabilityDefinition: what is required to construct a capability.       *)
Definition == [id : Capabilities, dependencies : SUBSET Capabilities]

Graph == UNION { [D -> SUBSET Capabilities] : D \in SUBSET Capabilities }

(* CapabilityGraph::insert: a later definition replaces an earlier one.    *)
WithCandidate(g, d) ==
  [c \in DOMAIN g \cup {d.id} |-> IF c = d.id THEN d.dependencies ELSE g[c]]

(* No set of definitions waits only on itself.                             *)
Acyclic(g) ==
  \A S \in SUBSET DOMAIN g : S # {} => \E c \in S : g[c] \cap S = {}

(* resolve() succeeds: every requirement is defined, and none is circular. *)
Resolvable(g) ==
  /\ \A c \in DOMAIN g : g[c] \subseteq DOMAIN g
  /\ Acyclic(g)
=============================================================================
