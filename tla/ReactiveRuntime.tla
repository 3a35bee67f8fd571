-------------------------- MODULE ReactiveRuntime --------------------------
(***************************************************************************)
(* The reactive coordinator (crates/capability-graph/src/reactive.rs) over *)
(* the fibers of CapabilityFiber.  Mutations and reconciliations have one  *)
(* owner (docs/runtime/M2-C1-reactive-runtime.md), so the coordinator does *)
(* one operation at a time; fibers are called and run in between.          *)
(***************************************************************************)
EXTENDS CapabilityFiber

CONSTANT MaxOperations  \* bound: operations of the coordinator

ASSUME CoordinatorAssumption == MaxOperations \in Nat

VARIABLES
  watched,     \* the fibers registered with the coordinator
  coord,       \* the operation under way: its place and locals
  operations,  \* operations begun
  quiet,       \* history: no fiber was called since the operation began, none busy then
  bound        \* history: fibers active on the retired entry when it was withdrawn

rvars == <<fvars, watched, coord, operations, quiet, bound>>

NoFiber == 0

(* todo: the fibers a loop has still to visit.  subject: the one whose     *)
(* call is awaited.                                                        *)
Idle == [at |-> "Idle", fibers |-> {}, todo |-> {}, subject |-> NoFiber, again |-> FALSE,
         loading |-> FALSE, retired |-> NoEntry, identities |-> [f \in Fibers |-> NoEntry],
         affected |-> {}, bindings |-> [f \in Fibers |-> None]]

Standing(place) == coord.at = place
Lowest(f)       == \A g \in coord.todo : f <= g   \* snapshot_fibers sorts by FiberId
Pins(b)         == { b[c] : c \in DOMAIN b } \ {NoEntry}

-----------------------------------------------------------------------------
(* An operation begins.                                                    *)
Begins(operation) ==
  /\ Standing("Idle") /\ operations < MaxOperations
  /\ operations' = operations + 1
  /\ coord' = [operation EXCEPT !.fibers = watched, !.todo = watched]
  /\ quiet' = (updating = {} /\ \A f \in Fibers : transition[f] = <<>>)
  /\ UNCHANGED <<fiber, flags, transition, drive, registered, outside, watched>>

Pass == [Idle EXCEPT !.at = "Comparing"]

Reconcile              == Begins(Pass) /\ UNCHANGED <<scope, bound>>
ProvideAndReconcile(c) == Begins(Pass) /\ Provide(c) /\ UNCHANGED bound

Holds(f, e) == State(f) = "Active" /\ e \in Pins(fiber[f].epoch)

WithdrawAndReconcile(c) ==
  /\ entries[c] # NoEntry
  /\ Begins([Idle EXCEPT !.at = "Identifying", !.retired = entries[c]])
  /\ entries' = [entries EXCEPT ![c] = NoEntry]
  /\ bound' = { f \in watched : Holds(f, entries[c]) }
  /\ UNCHANGED published

Watch(f) ==
  /\ f \notin watched /\ watched' = watched \cup {f}
  /\ UNCHANGED <<fvars, coord, operations, quiet, bound>>

-----------------------------------------------------------------------------
(* reconcile: passes over the watched fibers until one drives nothing.     *)
Skip(f) == coord' = [coord EXCEPT !.todo = @ \ {f}] /\ UNCHANGED transition

Driven(f, kind, detached, place) ==
  /\ Enqueue(f, kind, "coordinator", detached)
  /\ coord' = [coord EXCEPT !.at = place, !.todo = @ \ {f}, !.subject = f, !.again = TRUE]

NeedsWithoutProvider(f) ==
  CASE State(f) = "Active"    -> Current(f) # fiber[f].epoch
    [] State(f) = "Loading"   -> Current(f) # fiber[f].loading
    [] State(f) = "Pending"   -> Requires(f) # {}
    [] State(f) = "Unloading" -> TRUE
    [] OTHER                  -> FALSE
NeedsReconciliation(f) ==
  CASE State(f) = "Active"    -> Current(f) # fiber[f].epoch
    [] State(f) = "Loading"   -> Current(f) # fiber[f].loading
    [] State(f) = "Pending"   -> Requires(f) # {} /\ Satisfied(f)
    [] State(f) = "Unloading" -> TRUE
    [] OTHER                  -> FALSE

Compare(f) ==
  /\ Standing("Comparing") /\ Lowest(f)
  /\ \/ NeedsReconciliation(f) /\ Driven(f, "start", NoEntry, "Driving")
     \/ ~NeedsReconciliation(f) /\ Skip(f)

OnePass   == Idle
NextPass  ==
  IF coord.again THEN [Pass EXCEPT !.fibers = watched, !.todo = watched] ELSE Idle

EndPass ==
  /\ Standing("Comparing") /\ coord.todo = {}
  /\ coord' = NextPass
  /\ UNCHANGED transition

(* The call the coordinator awaits has returned.                           *)
Returned(place, next) ==
  /\ Standing(place)
  /\ LET line == transition[coord.subject]
     IN \A i \in 1..Len(line) : line[i].by # "coordinator"
  /\ coord' = [coord EXCEPT !.at = next, !.subject = NoFiber]
  /\ UNCHANGED transition

-----------------------------------------------------------------------------
(* withdraw_and_reconcile reads the fibers one by one, and of each the     *)
(* epoch before the loading binding.  First who provides what.             *)
Identify(f) ==
  /\ Standing("Identifying") /\ Lowest(f)
  /\ coord' = [coord EXCEPT !.identities[f] = fiber[f].handle, !.todo = @ \ {f}]
  /\ UNCHANGED transition

ProvidersOf(b) == { p \in coord.fibers : coord.identities[p] \in Pins(b) }

(* withdrawal_closure: who provides or pins the retired entry, then until  *)
(* nothing changes who pins what one of those provides.                    *)
Hit(b) ==
  \/ Standing("Direct") /\ coord.retired \in Pins(b)
  \/ Standing("Transitive") /\ ProvidersOf(b) \cap coord.affected # {}

Consider(f, b) ==
  /\ coord' = [coord EXCEPT
       !.todo = @ \ {f}, !.loading = FALSE,
       !.affected = IF Hit(b) THEN @ \cup {f} ELSE @,
       !.again = @ \/ (Standing("Transitive") /\ Hit(b)),
       !.bindings[f] = IF Standing("Ordering") THEN b ELSE @]
  /\ UNCHANGED transition

Passed(f) == \/ Standing("Transitive") /\ f \in coord.affected
             \/ Standing("Ordering") /\ f \notin coord.affected

ProvidesRetired(f) == Standing("Direct") /\ fiber[f].handle = coord.retired

Scanning == coord.at \in {"Direct", "Transitive", "Ordering"}

ReadEpoch(f) ==
  /\ Scanning /\ Lowest(f) /\ ~coord.loading
  /\ \/ Passed(f) /\ Skip(f)
     \/ /\ ProvidesRetired(f)
        /\ coord' = [coord EXCEPT !.todo = @ \ {f}, !.affected = @ \cup {f}]
        /\ UNCHANGED transition
     \/ /\ ~Passed(f) /\ ~ProvidesRetired(f)
        /\ IF fiber[f].epoch # None THEN Consider(f, fiber[f].epoch)
           ELSE coord' = [coord EXCEPT !.loading = TRUE] /\ UNCHANGED transition

ReadLoading(f) == Scanning /\ Lowest(f) /\ coord.loading /\ Consider(f, fiber[f].loading)

(* dependency_depth: the longest way up through providers that are also    *)
(* affected, each of them once on the way.                                 *)
Above(g) == (ProvidersOf(coord.bindings[g]) \cap coord.affected) \ {g}

Greatest(S) == CHOOSE m \in S : \A n \in S : n <= m

Depths(above) ==
  LET depth[visiting \in SUBSET Fibers] ==
        [g \in Fibers |->
          IF g \in visiting \/ above[g] = {} THEN 0
          ELSE 1 + Greatest({ depth[visiting \cup {g}][p] : p \in above[g] })]
  IN depth

Depth(f) == Depths([g \in Fibers |-> Above(g)])[{}][f]

(* Deepest first, then by FiberId.                                         *)
ShallowerFirst(f, g) == Depth(f) < Depth(g) \/ (Depth(f) = Depth(g) /\ f < g)
DeeperFirst(f, g)    == Depth(f) > Depth(g) \/ (Depth(f) = Depth(g) /\ f < g)

Deepest(f) == \A g \in coord.todo \ {f} : DeeperFirst(f, g)

EndScan ==
  /\ coord.todo = {}
  /\ \/ Standing("Identifying") /\ coord' = [coord EXCEPT !.at = "Direct", !.todo = coord.fibers]
     \/ Standing("Direct") /\ coord' = [coord EXCEPT !.at = "Transitive", !.todo = coord.fibers]
     \/ /\ Standing("Transitive")
        /\ coord' = [coord EXCEPT !.at = IF coord.again THEN @ ELSE "Ordering",
                                  !.again = FALSE, !.todo = coord.fibers]
     \/ /\ Standing("Ordering")
        /\ coord' = [coord EXCEPT !.at = "Draining", !.todo = coord.affected]
  /\ UNCHANGED transition

(* The affected are deactivated in that order, each awaited.               *)
Drain(f) ==
  /\ Standing("Draining") /\ Deepest(f)
  /\ Driven(f, "deactivate",
            IF fiber[f].handle = coord.retired THEN coord.retired ELSE NoEntry, "Awaiting")

(* The guard is dropped: provider_finalized.                               *)
Finalize ==
  /\ Standing("Draining") /\ coord.todo = {}
  /\ coord' = Idle
  /\ UNCHANGED transition

-----------------------------------------------------------------------------
CoordinatorStep ==
  /\ \/ \E f \in coord.todo :
          Compare(f) \/ Identify(f) \/ ReadEpoch(f) \/ ReadLoading(f) \/ Drain(f)
     \/ Returned("Driving", "Comparing") \/ EndPass
     \/ EndScan \/ Returned("Awaiting", "Draining") \/ Finalize
  /\ UNCHANGED <<scope, fiber, flags, drive, registered, outside, watched, operations, quiet, bound>>

Operation ==
  \/ Reconcile
  \/ \E c \in Providers : ProvideAndReconcile(c)
  \/ \E c \in Capabilities : WithdrawAndReconcile(c)
  \/ \E f \in Fibers : Watch(f)

Init ==
  /\ FiberInit
  /\ watched = {} /\ coord = Idle /\ operations = 0 /\ quiet = TRUE /\ bound = {}

Next ==
  \/ Operation \/ CoordinatorStep
  \/ /\ FiberCall \/ \E f \in Fibers : RestartUpdated(f)
     /\ quiet' = FALSE
     /\ UNCHANGED <<watched, coord, operations, bound>>
  \/ /\ \E f \in Fibers : FiberStep(f) \/ RegisterEffect(f)
     /\ UNCHANGED <<watched, coord, operations, quiet, bound>>

Spec == Init /\ [][Next]_rvars /\ FiberFairness /\ WF_rvars(CoordinatorStep)

-----------------------------------------------------------------------------
(* One call of reconcile reaches the fixpoint, whatever order the fibers   *)
(* are compared in: when it returns, and nobody else called a fiber, none  *)
(* that is watched could be active and is not, or is active on a provider  *)
(* that is no longer the one it sees (docs/runtime/M2-C1: a reconciliation *)
(* call reaches a stable fixpoint).                                        *)
ReconcileReachesFixpoint ==
  [][ Standing("Comparing") /\ coord'.at = "Idle" /\ quiet =>
        \A f \in coord.fibers :
          \/ State(f) = "Active" /\ fiber[f].epoch = Current(f)
          \/ State(f) = "Pending" /\ (Requires(f) = {} \/ ~Satisfied(f))
          \/ State(f) \in {"Failed", "Disposed"} ]_rvars

(* The provider outlives those that use it: with nobody else calling, no   *)
(* fiber is deactivated while a watched one is active on what it provides, *)
(* and when the guard of the retired entry is dropped no fiber that was    *)
(* active on it when it was withdrawn still is, whoever calls it then.     *)
DependentsQuiesceFirst ==
  [][ /\ quiet => \A f \in coord.fibers :
           /\ fiber[f].handle # NoEntry /\ fiber'[f].handle = NoEntry
           /\ Call(f).kind = "deactivate"
           => \A g \in coord.fibers : ~Holds(g, fiber[f].handle)
      /\ Standing("Draining") /\ coord'.at = "Idle" =>
           \A f \in bound : ~Holds(f, coord.retired) ]_rvars

(* The coordinator always comes back: passes end, and no fiber it waits    *)
(* for waits for it.                                                       *)
CoordinatorReturns == ~Standing("Idle") ~> Standing("Idle")

(* reactive.rs on provider_finalized: affected reactive dependents were    *)
(* quiesced.                                                               *)
FinalizedMeansQuiesced ==
  [][ Standing("Draining") /\ coord'.at = "Idle" =>
        \A f \in coord.fibers : ~Holds(f, coord.retired) ]_rvars
=============================================================================
