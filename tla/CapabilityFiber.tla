-------------------------- MODULE CapabilityFiber --------------------------
(***************************************************************************)
(* Plugin fibers on one open scope (crates/capability-graph/src/           *)
(* semantic.rs): what CapabilityFiber does between two awaits is one step  *)
(* here, and between the steps of a fiber other tasks call it, other       *)
(* fibers run, and providers come and go.                                  *)
(***************************************************************************)
EXTENDS CapabilityGraph

CONSTANTS
  Fibers,      \* FiberIds, ordered
  Plugin,      \* Plugin[f]: the definition f publishes when it is active
  Providers,   \* capabilities without requirements that the application provides
  MaxEntries,  \* bound: publications after which the application provides no more
  MaxCalls     \* bound: start, restart, update and dispose calls

ASSUME FiberAssumption ==
  /\ Fibers \subseteq Nat \ {0}
  /\ Capabilities \subseteq Nat \ {0}
  /\ Plugin \in [Fibers -> Definition]
  /\ Providers \subseteq Capabilities
  /\ MaxEntries \in Nat /\ MaxCalls \in Nat

VARIABLES
  entries,     \* entries[c]: the entry of c in the scope, or 0
  published,   \* every publication, at the index that is its EntryId
  fiber,       \* fiber[f]: its fields
  dispose_requested, force_reload,  \* its flags, set before the lock is taken
  updating,    \* fibers whose update has stored the config and not restarted yet
  transition,  \* transition[f]: the calls on its transition lock, the holder first
  drive,       \* drive[f]: where the holder stands, and its locals
  registered,  \* PluginRuntime::fibers
  calls        \* fiber calls made by the application

scope   == <<entries, published>>
flags   == <<dispose_requested, force_reload>>
outside == <<updating, calls>>
fvars   == <<scope, fiber, flags, transition, drive, registered, outside>>

NoEntry == 0
None    == [c \in {0} |-> NoEntry]

Rest == [at |-> "Waiting", force |-> FALSE, binding |-> None, made |-> FALSE, entry |-> NoEntry]

-----------------------------------------------------------------------------
(* The scope, every step under its topology lock.                          *)
Visible == [c \in { x \in Capabilities : entries[x] # NoEntry } |-> published[entries[c]].dependencies]

Publish(d, pins, by) ==
  /\ Resolvable(WithCandidate(Visible, d))
  /\ published' = Append(published,
       [id |-> d.id, dependencies |-> d.dependencies, pins |-> pins, by |-> by,
        generation |-> IF entries[d.id] = NoEntry THEN 1 ELSE published[entries[d.id]].generation + 1])
  /\ entries' = [entries EXCEPT ![d.id] = Len(published) + 1]

(* provide or replace, by the application.                                 *)
Provide(c) ==
  /\ Len(published) < MaxEntries
  /\ Publish([id |-> c, dependencies |-> {}], [x \in {} |-> NoEntry], 0)

(* withdraw of whatever has the generation of entry e.                     *)
Withdrawable(e) ==
  LET c == published[e].id
  IN entries[c] # NoEntry /\ published[entries[c]].generation = published[e].generation

Without(e) == [entries EXCEPT ![published[e].id] = NoEntry]

-----------------------------------------------------------------------------
(* What a fiber requires, and what it would be bound to now.               *)
Requires(f)  == Plugin[f].dependencies
Satisfied(f) == \A c \in Requires(f) : entries[c] # NoEntry
Current(f)   == IF Satisfied(f) THEN [c \in Requires(f) |-> entries[c]] ELSE None

State(f)     == fiber[f].state
At(f, place) == drive[f].at = place
Call(f)      == Head(transition[f])
Goto(f, place)     == drive' = [drive EXCEPT ![f].at = place]
SetState(f, state) == fiber' = [fiber EXCEPT ![f].state = state]

(* The holder returns: the next in line takes the lock.                    *)
Return(f) ==
  /\ transition' = [transition EXCEPT ![f] = Tail(@)]
  /\ drive' = [drive EXCEPT ![f] = Rest]

BeginUnloadReleasing(f, binding) ==
  /\ SetState(f, "Unloading")
  /\ drive' = [drive EXCEPT ![f].at = "Releasing", ![f].binding = binding]
  /\ UNCHANGED transition
BeginUnload(f, binding) ==
  /\ SetState(f, "Unloading")
  /\ drive' = [drive EXCEPT ![f].at = "Unloading", ![f].binding = binding]
  /\ UNCHANGED transition

(* The lock is taken: drive up to its loop, dispose, or                    *)
(* deactivate_for_withdrawal.                                              *)
RefusedPending(f) ==
  CASE Call(f).kind = "dispose"    -> State(f) \in {"Pending", "Disposed"}
    [] Call(f).kind = "deactivate" -> State(f) \notin {"Active", "Failed"}
    [] Call(f).kind = "start"      -> dispose_requested[f] \/ State(f) = "Failed"
    [] Call(f).kind = "restart"    -> dispose_requested[f]
Refused(f) ==
  CASE Call(f).kind = "dispose"    -> State(f) = "Disposed"
    [] Call(f).kind = "deactivate" -> State(f) \notin {"Active", "Failed"}
    [] Call(f).kind = "start"      -> dispose_requested[f] \/ State(f) = "Failed"
    [] Call(f).kind = "restart"    -> dispose_requested[f]

Begin(f) ==
  /\ transition[f] # <<>> /\ At(f, "Waiting")
  /\ \/ Refused(f) /\ Return(f) /\ UNCHANGED <<fiber, force_reload>>
     \/ /\ ~Refused(f) /\ Call(f).kind \in {"dispose", "deactivate"}
        /\ BeginUnload(f, None) /\ UNCHANGED force_reload
     \/ /\ ~Refused(f) /\ Call(f).kind \in {"start", "restart"}
        /\ drive' = [drive EXCEPT ![f].at = "Resolving",
                                  ![f].force = Call(f).kind = "restart" \/ force_reload[f]]
        /\ force_reload' = [force_reload EXCEPT ![f] = FALSE]
        /\ UNCHANGED <<fiber, transition>>
  /\ UNCHANGED <<scope, dispose_requested, registered, outside>>

-----------------------------------------------------------------------------
(* The loop of drive.                                                      *)
SameTarget(f)    == State(f) = "Active" /\ fiber[f].epoch = Current(f)
ActiveMatches(f) == ~drive[f].force /\ SameTarget(f)

Resolve(f) ==
  /\ At(f, "Resolving")
  /\ \/ ~Satisfied(f) /\ State(f) = "Active" /\ BeginUnload(f, None)
     \/ ~Satisfied(f) /\ State(f) # "Active" /\ SetState(f, "Pending") /\ Return(f)
     \/ Satisfied(f) /\ ActiveMatches(f) /\ Return(f) /\ UNCHANGED fiber
     \/ /\ Satisfied(f) /\ ~ActiveMatches(f) /\ State(f) \in {"Active", "Failed"}
        /\ BeginUnload(f, Current(f))
     \/ /\ Satisfied(f) /\ State(f) \notin {"Active", "Failed"}
        /\ IF dispose_requested[f] THEN Return(f)
           ELSE /\ drive' = [drive EXCEPT ![f].at = "Entering", ![f].binding = Current(f)]
                /\ UNCHANGED transition
        /\ UNCHANGED fiber
  /\ UNCHANGED <<scope, flags, registered, outside>>

EnterLoading(f) ==
  /\ At(f, "Entering")
  /\ fiber' = [fiber EXCEPT ![f].state = "Loading", ![f].loaded = fiber[f].config, ![f].effects = FALSE,
                            ![f].loading = drive[f].binding]
  /\ Goto(f, "Constructing")
  /\ UNCHANGED <<scope, flags, transition, registered, outside>>

(* The factory returns; it may have registered effects.                    *)
Construct(f) ==
  /\ At(f, "Constructing")
  /\ \E made, effects \in BOOLEAN :
       /\ fiber' = [fiber EXCEPT ![f].effects = effects]
       /\ drive' = [drive EXCEPT ![f].at = "Returned", ![f].made = made]
  /\ UNCHANGED <<scope, flags, transition, registered, outside>>

StaleRequest(f) == dispose_requested[f] \/ force_reload[f]
Stale(f)        == dispose_requested[f] \/ force_reload[f] \/ Current(f) # drive[f].binding

Decide(f) ==
  /\ At(f, "Returned")
  /\ Goto(f, IF Stale(f) THEN "Discarding" ELSE IF drive[f].made THEN "Publishing" ELSE "Failing")
  /\ UNCHANGED <<scope, fiber, flags, transition, registered, outside>>

(* A stale load ends: the effects are disposed of, and unless the fiber is *)
(* to go the loop goes round.                                              *)
UnwoundLeaking(f, state) == fiber' = [fiber EXCEPT ![f].state = state, ![f].loading = None]
Unwound(f, state) ==
  fiber' = [fiber EXCEPT ![f].state = state, ![f].effects = FALSE, ![f].loading = None]

Discard(f) ==
  /\ At(f, "Discarding")
  /\ force_reload' = [force_reload EXCEPT ![f] = FALSE]
  /\ \/ /\ ~dispose_requested[f]
        /\ Unwound(f, "Pending") /\ Goto(f, "Resolving")
        /\ UNCHANGED transition
     \/ /\ dispose_requested[f] /\ Return(f)
        /\ Unwound(f, IF drive[f].made THEN State(f) ELSE "Disposed")
  /\ UNCHANGED <<scope, dispose_requested, registered, outside>>

(* provide_value: the requirements once more, then the admission of a new  *)
(* publication.                                                            *)
AnyBinding(f)  == Satisfied(f)
SameBinding(f) == Current(f) = drive[f].binding

(* The first requirement that differs is another entry: DependencyChanged. *)
Changed(f) ==
  \E c \in Requires(f) :
    /\ entries[c] \notin {NoEntry, drive[f].binding[c]}
    /\ \A x \in Requires(f) : x < c => entries[x] = drive[f].binding[x]

Admit(f) ==
  /\ SameBinding(f) /\ entries[Plugin[f].id] = NoEntry
  /\ Publish(Plugin[f], drive[f].binding, f)
  /\ drive' = [drive EXCEPT ![f].at = "Handing", ![f].entry = Len(published) + 1]

Refuse(f) ==
  /\ ~(SameBinding(f) /\ entries[Plugin[f].id] = NoEntry /\ Resolvable(WithCandidate(Visible, Plugin[f])))
  /\ Goto(f, IF Changed(f) THEN "Retrying" ELSE "Failing")
  /\ UNCHANGED scope

ProvideValue(f) ==
  /\ At(f, "Publishing")
  /\ Admit(f) \/ Refuse(f)
  /\ UNCHANGED <<fiber, flags, transition, registered, outside>>

Retry(f) ==
  /\ At(f, "Retrying")
  /\ Unwound(f, "Pending") /\ Goto(f, "Resolving")
  /\ UNCHANGED <<scope, flags, transition, registered, outside>>

Fail(f) ==
  /\ At(f, "Failing")
  /\ Unwound(f, "Failed") /\ Return(f)
  /\ UNCHANGED <<scope, flags, registered, outside>>

SetHandle(f) ==
  /\ At(f, "Handing")
  /\ fiber' = [fiber EXCEPT ![f].handle = drive[f].entry] /\ Goto(f, "Committing")
  /\ UNCHANGED <<scope, flags, transition, registered, outside>>

Commit(f) ==
  /\ At(f, "Committing")
  /\ fiber' = [fiber EXCEPT ![f].state = "Active", ![f].epoch = drive[f].binding,
                            ![f].loading = None]
  /\ Return(f)
  /\ UNCHANGED <<scope, flags, registered, outside>>

-----------------------------------------------------------------------------
(* unload: the effects, then the handle, then the rest.                    *)
DisposeEffects(f) ==
  /\ At(f, "Unloading")
  /\ fiber' = [fiber EXCEPT ![f].effects = FALSE] /\ Goto(f, "Releasing")
  /\ UNCHANGED <<scope, flags, transition, registered, outside>>

(* An entry the coordinator detached is not removed again, and one that is *)
(* gone, or has another generation, is left alone.                         *)
Release(f) ==
  LET e == fiber[f].handle
  IN /\ At(f, "Releasing")
     /\ entries' = IF e # NoEntry /\ e # Call(f).detached /\ Withdrawable(e)
                   THEN Without(e) ELSE entries
     /\ fiber' = [fiber EXCEPT ![f].handle = NoEntry] /\ Goto(f, "Settling")
     /\ UNCHANGED <<published, flags, transition, registered, outside>>

Settle(f) ==
  LET disposes == Call(f).kind = "dispose"
      drives   == Call(f).kind \in {"start", "restart"}
  IN /\ At(f, "Settling")
     /\ fiber' = [fiber EXCEPT ![f].state = IF disposes THEN "Disposed" ELSE "Pending",
                               ![f].epoch = None, ![f].loading = None, ![f].effects = FALSE]
     /\ registered' = IF disposes THEN registered \ {f} ELSE registered
     /\ IF drives /\ drive[f].binding # None /\ ~dispose_requested[f]
        THEN Goto(f, "Resolving") /\ UNCHANGED transition
        ELSE Return(f)
     /\ UNCHANGED <<scope, flags, outside>>

FiberStep(f) ==
  \/ Begin(f) \/ Resolve(f) \/ EnterLoading(f) \/ Construct(f) \/ Decide(f) \/ Discard(f)
  \/ ProvideValue(f) \/ Retry(f) \/ Fail(f) \/ SetHandle(f) \/ Commit(f)
  \/ DisposeEffects(f) \/ Release(f) \/ Settle(f)

-----------------------------------------------------------------------------
(* What the application calls.                                             *)
Enqueue(f, kind, by, detached) ==
  transition' = [transition EXCEPT ![f] = Append(@, [kind |-> kind, by |-> by, detached |-> detached])]

Start(f) ==
  /\ Enqueue(f, "start", "caller", NoEntry)
  /\ UNCHANGED <<scope, fiber, flags, drive, registered, updating>>

Restart(f) ==
  /\ State(f) # "Disposed"
  /\ force_reload' = [force_reload EXCEPT ![f] = TRUE]
  /\ Enqueue(f, "restart", "caller", NoEntry)
  /\ UNCHANGED <<scope, fiber, dispose_requested, drive, registered, updating>>

Update(f) ==
  /\ State(f) # "Disposed" /\ f \notin updating
  /\ fiber' = [fiber EXCEPT ![f].config = @ + 1]
  /\ updating' = updating \cup {f}
  /\ UNCHANGED <<scope, flags, transition, drive, registered>>

Dispose(f) ==
  /\ dispose_requested' = [dispose_requested EXCEPT ![f] = TRUE]
  /\ Enqueue(f, "dispose", "caller", NoEntry)
  /\ UNCHANGED <<scope, fiber, force_reload, drive, registered, updating>>

FiberCall ==
  /\ calls < MaxCalls /\ calls' = calls + 1
  /\ \E f \in Fibers : Start(f) \/ Restart(f) \/ Update(f) \/ Dispose(f)

(* update goes on to restart.                                              *)
RestartUpdated(f) ==
  /\ f \in updating /\ updating' = updating \ {f}
  /\ IF State(f) = "Disposed" THEN UNCHANGED <<force_reload, transition>>
     ELSE /\ force_reload' = [force_reload EXCEPT ![f] = TRUE]
          /\ Enqueue(f, "restart", "caller", NoEntry)
  /\ UNCHANGED <<scope, fiber, dispose_requested, drive, registered, calls>>

RegisterEffect(f) ==
  /\ State(f) = "Active"
  /\ fiber' = [fiber EXCEPT ![f].effects = TRUE]
  /\ UNCHANGED <<scope, flags, transition, drive, registered, outside>>

(* Raw mutations of the scope.                                             *)
ScopeCall ==
  /\ \/ \E c \in Providers : Provide(c)
     \/ \E c \in Capabilities : /\ entries[c] # NoEntry
                                /\ entries' = [entries EXCEPT ![c] = NoEntry]
                                /\ UNCHANGED published
  /\ UNCHANGED <<fiber, flags, transition, drive, registered, outside>>

FiberInit ==
  /\ entries = [c \in Capabilities |-> NoEntry] /\ published = <<>>
  /\ fiber = [f \in Fibers |-> [state |-> "Pending", config |-> 0, loaded |-> 0, handle |-> NoEntry,
                               epoch |-> None, loading |-> None, effects |-> FALSE]]
  /\ dispose_requested = [f \in Fibers |-> FALSE] /\ force_reload = [f \in Fibers |-> FALSE]
  /\ updating = {} /\ calls = 0 /\ registered = Fibers
  /\ transition = [f \in Fibers |-> <<>>] /\ drive = [f \in Fibers |-> Rest]

FiberNext ==
  \/ FiberCall \/ ScopeCall
  \/ \E f \in Fibers : FiberStep(f) \/ RestartUpdated(f) \/ RegisterEffect(f)

(* Factories, disposers and the tasks that await a call run to their end.  *)
FiberFairness == \A f \in Fibers : WF_fvars(FiberStep(f)) /\ WF_fvars(RestartUpdated(f))

FiberSpec == FiberInit /\ [][FiberNext]_fvars /\ FiberFairness

-----------------------------------------------------------------------------
FiberState == {"Pending", "Loading", "Active", "Failed", "Unloading", "Disposed"}
Place == {"Waiting", "Resolving", "Entering", "Constructing", "Returned", "Discarding",
          "Publishing", "Retrying", "Failing", "Handing", "Committing",
          "Unloading", "Releasing", "Settling"}
EntryIds == 1..Len(published)

Bindings(n)     == (UNION { [D -> 1..n] : D \in SUBSET Capabilities }) \cup {None}
Publication(n)  == [id : Capabilities, dependencies : SUBSET Capabilities, pins : Bindings(n),
                    by : Nat, generation : Nat \ {0}]
FiberRecord(n)  == [state : FiberState, config : Nat, loaded : Nat, handle : 0..n,
                    epoch : Bindings(n), loading : Bindings(n), effects : BOOLEAN]
DriveRecord(n)  == [at : Place, force : BOOLEAN, binding : Bindings(n), made : BOOLEAN, entry : 0..n]
CallRecord(n)   == [kind : {"start", "restart", "dispose", "deactivate"},
                    by : {"caller", "coordinator"}, detached : 0..n]

(* Types.                                                                  *)
FiberTypeOK ==
  /\ published \in Seq(Publication(Len(published)))
  /\ entries \in [Capabilities -> 0..Len(published)]
  /\ fiber \in [Fibers -> FiberRecord(Len(published))]
  /\ drive \in [Fibers -> DriveRecord(Len(published))]
  /\ transition \in [Fibers -> Seq(CallRecord(Len(published)))]
  /\ dispose_requested \in [Fibers -> BOOLEAN] /\ force_reload \in [Fibers -> BOOLEAN]
  /\ updating \subseteq Fibers /\ registered \subseteq Fibers /\ calls \in 0..MaxCalls

(* Nothing is left behind.  A fiber that is pending, failed or disposed    *)
(* has no effects, and a load never starts over the undisposed effects of  *)
(* an earlier one, whose owner it would overwrite.  A publication that a   *)
(* fiber made and the scope still shows is the one in the hands of that    *)
(* fiber, or on its way there (semantic.rs: drive, unload, dispose).       *)
NothingIsOrphaned ==
  /\ \A f \in Fibers :
       /\ fiber[f].effects => State(f) \in {"Loading", "Active", "Unloading"}
       /\ At(f, "Entering") => ~fiber[f].effects
  /\ \A c \in Capabilities : entries[c] # NoEntry =>
       LET f == published[entries[c]].by
       IN f \in Fibers => \/ fiber[f].handle = entries[c]
                          \/ At(f, "Handing") /\ drive[f].entry = entries[c]

(* What an active fiber says it is bound to is what its value was built    *)
(* from, and with the latest config once its calls are over, even if they  *)
(* raced a load (semantic.rs: update, restart, the stale load).            *)
ActiveIsCommitted ==
  \A f \in Fibers : State(f) = "Active" =>
    /\ fiber[f].handle # NoEntry /\ fiber[f].loading = None
    /\ published[fiber[f].handle].by = f
    /\ published[fiber[f].handle].pins = fiber[f].epoch
    /\ transition[f] = <<>> /\ f \notin updating => fiber[f].loaded = fiber[f].config

(* A fiber publishes only what was built from the providers it sees at     *)
(* that very moment; a load that went stale, or whose fiber is asked to    *)
(* reload before it was looked at, never becomes visible (docs/runtime/    *)
(* M2-C1-reactive-runtime.md: a stale asynchronous transition cannot       *)
(* publish).                                                               *)
ActivationIsCurrent ==
  [][ \A f \in Fibers :
        /\ At(f, "Handing")' /\ ~At(f, "Handing") =>
             \A c \in Requires(f) : published'[entries'[Plugin[f].id]].pins[c] = entries'[c]
        /\ At(f, "Publishing")' => ~At(f, "Discarding") /\ (At(f, "Publishing") \/ ~StaleRequest(f)) ]_fvars

(* A handle is let go of only when the effects are disposed of, and being  *)
(* disposed is final: no later call and no load under way brings a         *)
(* disposed fiber back, or leaves it with a value, a binding or an effect. *)
CleanupIsOrdered ==
  [][ \A f \in Fibers :
        /\ fiber[f].handle # NoEntry /\ fiber'[f].handle = NoEntry => ~fiber[f].effects
        /\ State(f)' = "Disposed" =>
             /\ fiber'[f].handle = NoEntry /\ ~fiber'[f].effects
             /\ fiber'[f].epoch = None /\ fiber'[f].loading = None
        /\ State(f) = "Disposed" => State(f)' = "Disposed" ]_fvars

(* A fiber that is asked to go is disposed, whatever it is doing then and  *)
(* whatever it is asked next.                                              *)
DisposeCompletes ==
  \A f \in Fibers : dispose_requested[f] ~> State(f) = "Disposed"
=============================================================================
