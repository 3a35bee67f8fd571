---------------------- MODULE ReactiveRuntimeProofs ----------------------
(***************************************************************************)
(* The coordinator is safe for any fibers, plugins and capabilities: what  *)
(* it does to fibers is within what CapabilityFiber is proved to bear, and *)
(* what it has read of them stays true as long as nobody else calls them.  *)
(***************************************************************************)
EXTENDS ReactiveRuntime, CapabilityFiberProofs, WellFoundedInduction

(* Where the coordinator may stand, and what it carries along.             *)
CoordPlace == {"Idle", "Comparing", "Driving", "Identifying", "Direct", "Transitive", "Ordering",
               "Draining", "Awaiting"}

CoordRecord(n) ==
  [at : CoordPlace, fibers : SUBSET Fibers, todo : SUBSET Fibers, subject : Fibers \cup {NoFiber},
   again : BOOLEAN, loading : BOOLEAN, retired : 0..n, identities : [Fibers -> 0..n],
   affected : SUBSET Fibers, bindings : [Fibers -> Bindings(n)]]

CoordTypeOK ==
  /\ watched \subseteq Fibers /\ coord \in CoordRecord(Len(published)) /\ operations \in Nat
  /\ quiet \in BOOLEAN /\ bound \subseteq Fibers

Calling     == coord.at \in {"Driving", "Awaiting"}
Withdrawing == coord.at \in {"Identifying", "Direct", "Transitive", "Ordering", "Draining", "Awaiting"}
Closing     == coord.at \in {"Ordering", "Draining", "Awaiting"}

(* What the coordinator goes over are fibers it knows; what it drove makes *)
(* it pass once more.                                                      *)
Listed ==
  /\ coord.todo \subseteq coord.fibers /\ coord.affected \subseteq coord.fibers
  /\ Calling => coord.subject \in coord.fibers
  /\ coord.at \in {"Draining", "Awaiting"} => coord.todo \subseteq coord.affected
  /\ Standing("Awaiting") => coord.subject \in coord.affected
  /\ coord.loading => Scanning /\ coord.todo # {}
  /\ Standing("Driving") => coord.again

(* It calls one fiber at a time, and while it is quiet it is the only one  *)
(* that calls.                                                             *)
CoordCalls ==
  \A f \in Fibers : \A i \in 1..Len(transition[f]) :
    /\ transition[f][i].by = "coordinator" =>
         /\ Calling /\ f = coord.subject
         /\ transition[f][i].kind = IF Standing("Awaiting") THEN "deactivate" ELSE "start"
    /\ transition[f][i].kind = "deactivate" => transition[f][i].by = "coordinator"
    /\ quiet => transition[f][i].by = "coordinator"

RetiredGone == Withdrawing => coord.retired # NoEntry /\ Gone(coord.retired)

(* Entries are published in the order in which they depend on each other.  *)
PinsOlder == \A e \in EntryIds : \A x \in Pins(published[e].pins) : x < e

CoordInv == IInv /\ Detached /\ CoordTypeOK /\ Listed /\ CoordCalls /\ RetiredGone /\ PinsOlder

(* A fiber that was active on the retired entry is still to be deactivated *)
(* as long as it is, and no load brings it back to that entry.             *)
Waits(f) == \E i \in 1..Len(transition[f]) : transition[f][i].by = "coordinator"

LetGo ==
  Withdrawing => \A f \in bound :
    /\ f \in coord.fibers
    /\ drive[f].at \in Loads \cup {"Entering"} => coord.retired \notin Pins(drive[f].binding)
    /\ Holds(f, coord.retired) =>
         /\ Standing("Direct") =>
              f \in coord.affected \/ (f \in coord.todo /\ ~(coord.loading /\ Lowest(f)))
         /\ coord.at \in {"Transitive", "Ordering"} => f \in coord.affected
         /\ Standing("Draining") => f \in coord.todo
         /\ Standing("Awaiting") => f \in coord.todo \/ (f = coord.subject /\ Waits(f))

(* A pass that drove nothing leaves nothing that needs it behind.          *)
Compared ==
  quiet /\ Standing("Comparing") /\ ~coord.again =>
    \A f \in coord.fibers \ coord.todo : ~NeedsReconciliation(f)

(* What a quiet withdrawal has read is what there is, but for the fibers   *)
(* that it has deactivated.                                                *)
Identified ==
  \A p \in coord.fibers : fiber[p].handle # NoEntry =>
    coord.identities[p] = fiber[p].handle \/ (Standing("Identifying") /\ p \in coord.todo)

Unread ==
  /\ coord.loading => \A f \in coord.todo : Lowest(f) => fiber[f].epoch = None
  /\ ~Closing => \A g \in Fibers : coord.bindings[g] = None
  /\ Closing => \A g \in Fibers : \A e \in Pins(coord.bindings[g]) : e < coord.identities[g]

Closed ==
  Closing \/ (Standing("Transitive") /\ ~coord.again) =>
    \A g \in coord.fibers \ coord.affected :
      \/ Standing("Transitive") /\ g \in coord.todo
      \/ ProvidersOf(fiber[g].epoch) \cap coord.affected = {}

Ordered ==
  Closing => \A g \in coord.affected : State(g) = "Active" =>
    /\ coord.bindings[g] = fiber[g].epoch \/ (Standing("Ordering") /\ g \in coord.todo)
    /\ Standing("Draining") => g \in coord.todo
    /\ Standing("Awaiting") => g \in coord.todo \/ (g = coord.subject /\ transition[g] # <<>>)

Deepening == Standing("Awaiting") => \A g \in coord.todo \ {coord.subject} : DeeperFirst(coord.subject, g)

Quiesced == quiet /\ Withdrawing => Identified /\ Unread /\ Closed /\ Ordered /\ Deepening

-----------------------------------------------------------------------------
(* Types.                                                                  *)
LEMMA CoordRecordsGrow ==
  ASSUME NEW m \in Nat, NEW n \in Nat, m <= n
  PROVE  CoordRecord(m) \subseteq CoordRecord(n)
<1>1. Bindings(m) \subseteq Bindings(n) /\ 0..m \subseteq 0..n
  BY BindingsGrow
<1>2. [Fibers -> Bindings(m)] \subseteq [Fibers -> Bindings(n)] /\ [Fibers -> 0..m] \subseteq [Fibers -> 0..n]
  BY <1>1
<1> QED BY <1>1, <1>2 DEF CoordRecord

LEMMA IdleType ==
  ASSUME NEW n \in Nat
  PROVE  Idle \in CoordRecord(n) /\ Pass \in CoordRecord(n)
<1>1. [f \in Fibers |-> NoEntry] \in [Fibers -> 0..n] /\ [f \in Fibers |-> None] \in [Fibers -> Bindings(n)]
  BY DEF NoEntry, Bindings
<1>2. Idle \in CoordRecord(n)
  BY <1>1 DEF Idle, CoordRecord, CoordPlace, NoFiber, NoEntry
<1>3. [Idle EXCEPT !.at = "Comparing"] \in CoordRecord(n)
  BY <1>2 DEF CoordRecord, CoordPlace
<1> QED BY <1>2, <1>3 DEF Pass

(* The pins of a binding are entries.                                      *)
LEMMA PinsFacts ==
  ASSUME NEW n \in Nat, NEW b \in Bindings(n)
  PROVE  Pins(b) \subseteq 1..n /\ Pins(None) = {}
<1>1. Pins(None) = {}
  BY DEF Pins, None
<1>2. ASSUME NEW D \in SUBSET Capabilities, b \in [D -> 1..n]
      PROVE  Pins(b) \subseteq 1..n
  BY <1>2 DEF Pins
<1> QED BY <1>1, <1>2 DEF Bindings

(* The coordinator calls a fiber, with nothing or with what has left the   *)
(* scope.                                                                  *)
Calls(f, kind, detached) ==
  /\ Enqueue(f, kind, "coordinator", detached)
  /\ kind \in {"start", "deactivate"} /\ detached \in 0..Len(published) /\ Gone(detached)
  /\ UNCHANGED <<scope, fiber, flags, drive, registered, outside>>

Aside == <<scope, fiber, flags, drive, registered, outside, watched, operations, quiet, bound>>

LEMMA CoordinatorCalls ==
  ASSUME CoordInv, CoordinatorStep
  PROVE  \/ UNCHANGED fvars
         \/ \E f \in Fibers : \E kind, detached : Calls(f, kind, detached)
<1>1. UNCHANGED Aside
  BY DEF CoordinatorStep, Aside
<1>2. transition' = transition => UNCHANGED fvars
  BY <1>1 DEF Aside, fvars, scope, flags, outside
<1>3. coord.todo \subseteq Fibers /\ NoEntry \in 0..Len(published) /\ coord.retired \in 0..Len(published)
  BY DEF CoordInv, CoordTypeOK, CoordRecord, IInv, FiberTypeOK, NoEntry
<1>4. ASSUME NEW f \in coord.todo, Compare(f)
      PROVE  UNCHANGED fvars \/ \E kind, detached : Calls(f, kind, detached)
  <2>1. CASE Skip(f)
    BY <1>2, <2>1 DEF Skip
  <2>2. CASE Driven(f, "start", NoEntry, "Driving")
    BY <1>1, <1>3, <2>2 DEF Driven, Calls, Gone, Aside
  <2> QED BY <1>4, <2>1, <2>2 DEF Compare
<1>5. ASSUME NEW f \in coord.todo, Identify(f) \/ ReadEpoch(f) \/ ReadLoading(f)
      PROVE  UNCHANGED fvars
  BY <1>2, <1>5 DEF Identify, ReadEpoch, ReadLoading, Skip, Consider
<1>6. ASSUME NEW f \in coord.todo, Drain(f)
      PROVE  \E kind, detached : Calls(f, kind, detached)
  <2>1. Gone(coord.retired)
    BY <1>6 DEF CoordInv, RetiredGone, Withdrawing, Drain, Standing
  <2>2. PICK detached \in {coord.retired, NoEntry} : Enqueue(f, "deactivate", "coordinator", detached)
    BY <1>6 DEF Drain, Driven
  <2> QED BY <1>1, <1>3, <2>1, <2>2 DEF Calls, Gone, Aside
<1>7. ASSUME \/ Returned("Driving", "Comparing") \/ EndPass \/ EndScan
             \/ Returned("Awaiting", "Draining") \/ Finalize
      PROVE  UNCHANGED fvars
  BY <1>2, <1>7 DEF Returned, EndPass, EndScan, Finalize
<1> QED BY <1>3, <1>4, <1>5, <1>6, <1>7 DEF CoordinatorStep

LEMMA FibersAndCalls ==
  ASSUME CoordInv, [Next]_rvars
  PROVE  \/ [FiberNext]_fvars
         \/ \E f \in Fibers : \E kind, detached : Calls(f, kind, detached)
<1>1. ASSUME Operation PROVE [FiberNext]_fvars
  <2>1. ASSUME NEW operation, Begins(operation), UNCHANGED scope PROVE UNCHANGED fvars
    BY <2>1 DEF Begins, fvars, flags, outside
  <2>2. CASE Reconcile
    BY <2>1, <2>2 DEF Reconcile
  <2>3. ASSUME NEW c \in Providers, ProvideAndReconcile(c) PROVE ScopeCall
    BY <2>3 DEF ProvideAndReconcile, Begins, ScopeCall
  <2>4. ASSUME NEW c \in Capabilities, WithdrawAndReconcile(c) PROVE ScopeCall
    BY <2>4 DEF WithdrawAndReconcile, Begins, ScopeCall
  <2>5. ASSUME NEW f \in Fibers, Watch(f) PROVE UNCHANGED fvars
    BY <2>5 DEF Watch
  <2> QED BY <1>1, <2>2, <2>3, <2>4, <2>5 DEF Operation, FiberNext
<1>2. CASE CoordinatorStep
  BY <1>2, CoordinatorCalls
<1>3. CASE UNCHANGED rvars
  BY <1>3 DEF rvars
<1> QED BY <1>1, <1>2, <1>3 DEF Next, FiberNext

-----------------------------------------------------------------------------
(* What the coordinator does keeps the fibers safe.                        *)
LEMMA CallsKeep ==
  ASSUME CoordInv, NEW f \in Fibers, NEW kind, NEW detached, Calls(f, kind, detached)
  PROVE  IInv' /\ Detached'
<1>0. FiberTypeOK /\ IInv /\ Detached
  BY DEF CoordInv, IInv
<1>1. /\ kind \in {"start", "restart", "dispose", "deactivate"} /\ kind # "dispose"
      /\ detached \in 0..Len(published)
      /\ Enqueue(f, kind, "coordinator", detached) /\ Gone(detached)
      /\ UNCHANGED <<scope, fiber, drive, registered>>
      /\ force_reload' = force_reload /\ calls' = calls
      /\ dispose_requested' = dispose_requested /\ updating' = updating
  BY DEF Calls, flags, outside
<1>2. IInv'
  BY <1>0, <1>1, EnqueueStep DEF FiberTypeOK
<1>3. Detached'
  <2> SUFFICES ASSUME NEW g \in Fibers, NEW i \in 1..Len(transition'[g])
               PROVE  Gone(transition[g][i].detached)'
    BY DEF Detached
  <2>1. entries' = entries
    BY <1>1 DEF scope
  <2>2. CASE g # f
    <3>1. transition'[g] = transition[g]
      BY <1>0, <1>1, <2>2 DEF Enqueue, FiberTypeOK
    <3> QED BY <1>0, <2>1, <3>1 DEF Detached, Gone
  <2>3. CASE g = f
    <3>1. /\ Len(transition'[f]) = Len(transition[f]) + 1 /\ Len(transition[f]) \in Nat
          /\ \A j \in 1..Len(transition[f]) : transition'[f][j] = transition[f][j]
          /\ transition'[f][Len(transition[f]) + 1].detached = detached
      BY <1>0, <1>1, EnqueueFacts
    <3>2. CASE i \in 1..Len(transition[f])
      BY <1>0, <2>1, <2>3, <3>1, <3>2 DEF Detached, Gone
    <3>3. CASE i = Len(transition[f]) + 1
      BY <1>1, <2>1, <2>3, <3>1, <3>3 DEF Gone
    <3> QED BY <2>3, <3>1, <3>2, <3>3
  <2> QED BY <2>2, <2>3
<1> QED BY <1>2, <1>3

LEMMA FibersKeep ==
  ASSUME CoordInv, [Next]_rvars
  PROVE  IInv' /\ Detached' /\ Fewer
<1>1. IInv /\ Detached /\ FiberTypeOK
  BY DEF CoordInv, IInv
<1>2. CASE [FiberNext]_fvars
  <2>1. Fewer /\ \A g \in Fibers : Older(g)
    BY <1>1, <1>2, FiberTraffic
  <2>2. Detached'
    BY <1>1, <2>1, DetachedKept
  <2> QED BY <1>1, <1>2, <2>1, <2>2, FiberNextStep
<1>3. ASSUME NEW f \in Fibers, NEW kind, NEW detached, Calls(f, kind, detached)
      PROVE  IInv' /\ Detached' /\ Fewer
  BY <1>3, CallsKeep DEF Calls, scope, Fewer
<1> QED BY <1>2, <1>3, FibersAndCalls

(* Publications: one at most, and it pins what was there before.           *)
Publishes ==
  \/ published' = published
  \/ \E d \in Definition, pins \in Bindings(Len(published)), by \in Nat : Publish(d, pins, by)

LEMMA FibersPublish ==
  ASSUME IInv, [FiberNext]_fvars
  PROVE  Publishes
<1>1. FiberTypeOK
  BY DEF IInv
<1>2. ASSUME NEW f \in Fibers, FiberStep(f) PROVE Publishes
  <2>1. CASE ProvideValue(f)
    <3>1. CASE Admit(f)
      <4>1. /\ drive[f].binding \in Bindings(Len(published)) /\ Plugin[f] \in Definition /\ f \in Nat
            /\ Publish(Plugin[f], drive[f].binding, f)
        BY <1>1, <3>1, TypeFacts, FiberAssumption DEF Admit, DriveRecord
      <4> QED BY <4>1 DEF Publishes
    <3> QED BY <2>1, <3>1 DEF ProvideValue, Refuse, scope, Publishes
  <2>2. CASE Begin(f) \/ Resolve(f) \/ EnterLoading(f) \/ Construct(f) \/ Decide(f) \/ Discard(f)
    BY <2>2 DEF Begin, Resolve, EnterLoading, Construct, Decide, Discard, scope, Publishes
  <2>3. CASE Retry(f) \/ Fail(f) \/ SetHandle(f) \/ Commit(f) \/ DisposeEffects(f) \/ Release(f) \/ Settle(f)
    BY <2>3 DEF Retry, Fail, SetHandle, Commit, DisposeEffects, Release, Settle, scope, Publishes
  <2> QED BY <1>2, <2>1, <2>2, <2>3 DEF FiberStep
<1>3. CASE ScopeCall
  <2>1. ASSUME NEW c \in Providers, Provide(c) PROVE Publishes
    <3>1. [id |-> c, dependencies |-> {}] \in Definition
      BY FiberAssumption DEF Definition
    <3>2. [x \in {} |-> NoEntry] \in Bindings(Len(published))
      <4>1. [x \in {} |-> NoEntry] \in [{} -> 1..Len(published)]
        OBVIOUS
      <4> QED BY <4>1 DEF Bindings
    <3> QED BY <2>1, <3>1, <3>2 DEF Provide, Publishes
  <2> QED BY <1>3, <2>1 DEF ScopeCall, Publishes
<1>4. CASE FiberCall \/ \E f \in Fibers : RestartUpdated(f) \/ RegisterEffect(f)
  BY <1>4 DEF FiberCall, Start, Restart, Update, Dispose, RestartUpdated, RegisterEffect, scope, Publishes
<1>5. CASE UNCHANGED fvars
  BY <1>5 DEF fvars, scope, Publishes
<1> QED BY <1>2, <1>3, <1>4, <1>5 DEF FiberNext

LEMMA PublicationsGrow ==
  ASSUME CoordInv, [Next]_rvars
  PROVE  Grows /\ PinsOlder' /\ Len(published) \in Nat /\ Len(published') \in Nat
<1>1. FiberTypeOK /\ IInv /\ Len(published) \in Nat /\ PinsOlder
  BY DEF CoordInv, IInv, FiberTypeOK
<1>2. Publishes
  BY <1>1, FibersAndCalls, FibersPublish DEF Calls, scope, Publishes
<1>3. CASE published' = published
  BY <1>1, <1>3 DEF Grows, PinsOlder, EntryIds
<1>4. ASSUME NEW d \in Definition, NEW pins \in Bindings(Len(published)), NEW by \in Nat, Publish(d, pins, by)
      PROVE  Grows /\ PinsOlder' /\ Len(published') \in Nat
  <2>1. /\ Len(published') = Len(published) + 1 /\ Grows
        /\ published'[Len(published) + 1].pins = pins
    BY <1>1, <1>4, PublishFacts
  <2>2. Pins(pins) \subseteq 1..Len(published)
    BY <1>1, PinsFacts
  <2>3. ASSUME NEW e \in 1..Len(published'), NEW x \in Pins(published'[e].pins) PROVE x < e
    <3>1. CASE e = Len(published) + 1
      BY <1>1, <2>1, <2>2, <2>3, <3>1
    <3>2. CASE e \in 1..Len(published)
      BY <1>1, <2>1, <2>3, <3>2 DEF Grows, PinsOlder, EntryIds
    <3> QED BY <1>1, <2>1, <3>1, <3>2
  <2> QED BY <1>1, <2>1, <2>3 DEF PinsOlder, EntryIds
<1> QED BY <1>1, <1>2, <1>3, <1>4 DEF Publishes

-----------------------------------------------------------------------------
(* The coordinator keeps to its places and to the fibers it knows.         *)
Placing == coord' \in CoordRecord(Len(published)) /\ Listed'

LEMMA VisitPlacing ==
  ASSUME CoordInv, NEW f \in coord.todo,
         Compare(f) \/ Identify(f) \/ ReadEpoch(f) \/ ReadLoading(f) \/ Drain(f)
  PROVE  Placing
<1>0. /\ coord \in CoordRecord(Len(published)) /\ Listed /\ f \in Fibers /\ f \in coord.fibers
      /\ fiber[f] \in FiberRecord(Len(published))
  BY DEF CoordInv, CoordTypeOK, CoordRecord, Listed, IInv, FiberTypeOK
<1>1. ASSUME Skip(f), Standing("Comparing") \/ Scanning, ~coord.loading PROVE Placing
  BY <1>0, <1>1 DEF Placing, Skip, Listed, Calling, Scanning, Standing, CoordRecord
<1>2. ASSUME NEW kind, NEW detached, NEW place, Driven(f, kind, detached, place),
             \/ Standing("Comparing") /\ place = "Driving"
             \/ Standing("Draining") /\ place = "Awaiting"
      PROVE  Placing
  BY <1>0, <1>2 DEF Placing, Driven, Listed, Calling, Scanning, Standing, CoordRecord, CoordPlace
<1>3. CASE Identify(f)
  <2>1. fiber[f].handle \in 0..Len(published)
    BY <1>0 DEF FiberRecord
  <2> QED BY <1>0, <1>3, <2>1 DEF Placing, Identify, Listed, Calling, Scanning, Standing, CoordRecord
<1>4. ASSUME NEW b \in Bindings(Len(published)), Consider(f, b), Scanning
      PROVE  Placing
  <2>1. /\ coord' \in CoordRecord(Len(published)) /\ coord'.at = coord.at /\ coord'.fibers = coord.fibers
        /\ ~coord'.loading
    BY <1>0, <1>4 DEF Consider, CoordRecord
  <2>2. coord'.todo = coord.todo \ {f} /\ coord'.affected \in {coord.affected, coord.affected \cup {f}}
    BY <1>0, <1>4 DEF Consider, CoordRecord
  <2> QED BY <1>0, <1>4, <2>1, <2>2 DEF Placing, Listed, Calling, Scanning, Standing
<1>5. CASE ReadEpoch(f)
  <2>1. CASE coord' = [coord EXCEPT !.todo = @ \ {f}, !.affected = @ \cup {f}]
    BY <1>0, <1>5, <2>1 DEF Placing, ReadEpoch, Listed, Calling, Scanning, Standing, CoordRecord
  <2>2. CASE coord' = [coord EXCEPT !.loading = TRUE]
    BY <1>0, <1>5, <2>2 DEF Placing, ReadEpoch, Listed, Calling, Scanning, Standing, CoordRecord
  <2>3. fiber[f].epoch \in Bindings(Len(published))
    BY <1>0 DEF FiberRecord
  <2> QED BY <1>1, <1>4, <1>5, <2>1, <2>2, <2>3 DEF ReadEpoch
<1>6. CASE ReadLoading(f)
  <2>1. fiber[f].loading \in Bindings(Len(published))
    BY <1>0 DEF FiberRecord
  <2> QED BY <1>4, <1>6, <2>1 DEF ReadLoading
<1>7. CASE Compare(f) \/ Drain(f)
  <2>1. Standing("Comparing") => ~coord.loading
    BY <1>0 DEF Listed, Scanning, Standing
  <2> QED BY <1>1, <1>2, <1>7, <2>1 DEF Compare, Drain
<1> QED BY <1>3, <1>5, <1>6, <1>7

LEMMA TurnPlacing ==
  ASSUME CoordInv,
         \/ Returned("Driving", "Comparing") \/ Returned("Awaiting", "Draining")
         \/ EndPass \/ EndScan \/ Finalize
  PROVE  Placing
<1>0. /\ coord \in CoordRecord(Len(published)) /\ Listed /\ watched \subseteq Fibers
      /\ Len(published) \in Nat
  BY DEF CoordInv, CoordTypeOK, IInv, FiberTypeOK
<1>1. Idle \in CoordRecord(Len(published)) /\ Pass \in CoordRecord(Len(published))
  BY <1>0, IdleType
<1>2. CASE coord' = Idle
  BY <1>1, <1>2 DEF Placing, Idle, Listed, Calling, Scanning, Standing
<1>3. CASE coord' = [Pass EXCEPT !.fibers = watched, !.todo = watched]
  <2>1. Pass.at = "Comparing" /\ Pass.affected = {} /\ ~Pass.loading
    BY DEF Pass, Idle
  <2>2. /\ coord' \in CoordRecord(Len(published)) /\ coord'.at = "Comparing" /\ coord'.affected = {}
        /\ ~coord'.loading /\ coord'.fibers = watched /\ coord'.todo = watched
    BY <1>0, <1>1, <1>3, <2>1 DEF CoordRecord
  <2> QED BY <2>2 DEF Placing, Listed, Calling, Scanning, Standing
<1>4. ASSUME NEW place, NEW next, Returned(place, next),
             \/ place = "Driving" /\ next = "Comparing"
             \/ place = "Awaiting" /\ next = "Draining"
      PROVE  Placing
  BY <1>0, <1>4 DEF Placing, Returned, Listed, Calling, Scanning, Standing, CoordRecord, CoordPlace
<1>5. CASE EndScan
  <2>1. coord.todo = {} /\ ~coord.loading
    BY <1>0, <1>5 DEF EndScan, Listed
  <2>2. ASSUME NEW place \in {"Direct", "Transitive", "Ordering"}, NEW again \in BOOLEAN,
               coord' = [coord EXCEPT !.at = place, !.again = again, !.todo = coord.fibers]
        PROVE  Placing
    <3>1. /\ coord' \in CoordRecord(Len(published)) /\ coord'.at = place /\ coord'.fibers = coord.fibers
          /\ coord'.todo = coord.fibers /\ coord'.affected = coord.affected
          /\ coord'.loading = coord.loading
      BY <1>0, <2>2 DEF CoordRecord, CoordPlace
    <3> QED BY <1>0, <2>1, <3>1 DEF Placing, Listed, Calling, Scanning, Standing
  <2>3. ASSUME NEW place \in {"Direct", "Transitive"},
               coord' = [coord EXCEPT !.at = place, !.todo = coord.fibers]
        PROVE  Placing
    <3>1. /\ coord' \in CoordRecord(Len(published)) /\ coord'.at = place /\ coord'.fibers = coord.fibers
          /\ coord'.todo = coord.fibers /\ coord'.affected = coord.affected
          /\ coord'.loading = coord.loading
      BY <1>0, <2>3 DEF CoordRecord, CoordPlace
    <3> QED BY <1>0, <2>1, <3>1 DEF Placing, Listed, Calling, Scanning, Standing
  <2>4. CASE coord' = [coord EXCEPT !.at = "Draining", !.todo = coord.affected]
    BY <1>0, <2>1, <2>4 DEF Placing, Listed, Calling, Scanning, Standing, CoordRecord, CoordPlace
  <2> QED BY <1>5, <2>2, <2>3, <2>4 DEF EndScan, Standing
<1> QED BY <1>2, <1>3, <1>4, <1>5 DEF EndPass, NextPass, Finalize

LEMMA CoordTypes ==
  ASSUME CoordInv, [Next]_rvars
  PROVE  CoordTypeOK' /\ Listed'
<1>0. CoordTypeOK /\ Listed /\ IInv /\ Len(published) \in Nat /\ Len(published') \in Nat
      /\ Len(published) <= Len(published')
  BY PublicationsGrow DEF CoordInv, Grows
<1>1. CoordRecord(Len(published)) \subseteq CoordRecord(Len(published'))
  BY <1>0, CoordRecordsGrow
<1>2. ASSUME coord' = coord, UNCHANGED <<operations, bound>>,
             watched' \subseteq Fibers, quiet' \in BOOLEAN
      PROVE  CoordTypeOK' /\ Listed'
  BY <1>0, <1>1, <1>2 DEF CoordTypeOK, Listed, Calling, Scanning, Standing
<1>3. ASSUME NEW operation \in CoordRecord(Len(published)), operation.affected = {}, ~operation.loading,
             operation.at \in {"Comparing", "Identifying"}, Begins(operation), bound' \subseteq Fibers
      PROVE  CoordTypeOK' /\ Listed'
  <2>1. /\ coord' \in CoordRecord(Len(published)) /\ coord'.at = operation.at /\ coord'.affected = {}
        /\ ~coord'.loading /\ coord'.fibers = watched /\ coord'.todo = watched
    BY <1>0, <1>3 DEF Begins, CoordTypeOK, CoordRecord
  <2> QED BY <1>0, <1>1, <1>3, <2>1 DEF Begins, CoordTypeOK, Listed, Calling, Scanning, Standing
<1>4. /\ Pass \in CoordRecord(Len(published)) /\ Pass.affected = {} /\ ~Pass.loading
      /\ Pass.at = "Comparing"
  BY <1>0, IdleType DEF Pass, Idle
<1>5. NoEntry \in 0..Len(published) /\ \A c \in Capabilities : entries[c] \in 0..Len(published)
  BY <1>0 DEF NoEntry, IInv, FiberTypeOK
<1>6. CASE Operation
  <2>1. CASE Reconcile
    BY <1>0, <1>3, <1>4, <1>5, <2>1 DEF Reconcile, CoordTypeOK
  <2>2. ASSUME NEW c \in Providers, ProvideAndReconcile(c) PROVE CoordTypeOK' /\ Listed'
    BY <1>0, <1>3, <1>4, <1>5, <2>2 DEF ProvideAndReconcile, CoordTypeOK
  <2>3. ASSUME NEW c \in Capabilities, WithdrawAndReconcile(c) PROVE CoordTypeOK' /\ Listed'
    <3>1. Idle \in CoordRecord(Len(published)) /\ Idle.affected = {} /\ ~Idle.loading
      BY <1>0, IdleType DEF Idle
    <3>2. PICK operation : operation = [Idle EXCEPT !.at = "Identifying", !.retired = entries[c]]
      OBVIOUS
    <3>3. /\ operation \in CoordRecord(Len(published)) /\ operation.affected = {} /\ ~operation.loading
          /\ operation.at = "Identifying"
      BY <1>5, <3>1, <3>2 DEF CoordRecord, CoordPlace
    <3> QED BY <1>0, <1>3, <2>3, <3>2, <3>3 DEF WithdrawAndReconcile, CoordTypeOK
  <2>4. ASSUME NEW f \in Fibers, Watch(f) PROVE CoordTypeOK' /\ Listed'
    BY <1>0, <1>2, <2>4 DEF Watch, CoordTypeOK
  <2> QED BY <1>6, <2>1, <2>2, <2>3, <2>4 DEF Operation
<1>7. CASE CoordinatorStep
  <2>1. Placing
    BY <1>7, VisitPlacing, TurnPlacing DEF CoordinatorStep
  <2> QED BY <1>0, <1>1, <1>7, <2>1 DEF CoordinatorStep, Placing, CoordTypeOK
<1>8. CASE UNCHANGED rvars
  BY <1>0, <1>2, <1>8 DEF rvars, CoordTypeOK
<1>9. CASE /\ quiet' \in {FALSE, quiet} /\ UNCHANGED <<watched, coord, operations, bound>>
  BY <1>0, <1>2, <1>9 DEF CoordTypeOK
<1> QED BY <1>6, <1>7, <1>8, <1>9 DEF Next

-----------------------------------------------------------------------------
(* Who calls a fiber, and when.                                            *)
(* While the coordinator awaits nobody there are no calls of its own.      *)
LEMMA CoordAbsent ==
  ASSUME CoordInv
  PROVE  /\ ~Calling => \A f \in Fibers : ~Waits(f)
         /\ \A f \in Fibers : f # coord.subject => ~Waits(f)
         /\ quiet /\ ~Calling => \A f \in Fibers : transition[f] = <<>>
         /\ quiet => \A f \in Fibers : f # coord.subject => transition[f] = <<>>
<1>1. CoordCalls
  BY DEF CoordInv
<1>2. \A f \in Fibers : transition[f] # <<>> => 1 \in 1..Len(transition[f])
  BY TypeFacts DEF CoordInv, IInv
<1> QED BY <1>1, <1>2 DEF CoordCalls, Waits

LEMMA CoordCallsTurn ==
  ASSUME CoordInv, CoordinatorStep, coord' \in CoordRecord(Len(published))
  PROVE  CoordCalls'
<1>0. /\ FiberTypeOK /\ CoordCalls /\ coord \in CoordRecord(Len(published))
      /\ \A f \in Fibers : ~Waits(f) => \A i \in 1..Len(transition[f]) : transition[f][i].by = "caller"
  BY CallFacts DEF CoordInv, CoordTypeOK, IInv, Waits
<1>1. quiet' = quiet
  BY DEF CoordinatorStep
<1>2. ASSUME transition' = transition, \A f \in Fibers : ~Waits(f) PROVE CoordCalls'
  <2>1. \A f \in Fibers : \A i \in 1..Len(transition'[f]) :
          transition'[f][i].by = "caller" /\ transition'[f][i].kind # "deactivate" /\ ~quiet'
    BY <1>0, <1>1, <1>2 DEF CoordCalls
  <2> QED BY <2>1 DEF CoordCalls
<1>3. ASSUME NEW f \in coord.todo, Compare(f) \/ Identify(f) \/ ReadEpoch(f) \/ ReadLoading(f) \/ Drain(f)
      PROVE  CoordCalls'
  <2>1. ~Calling /\ f \in Fibers
    BY <1>0, <1>3 DEF Compare, Identify, ReadEpoch, ReadLoading, Drain, Standing, Scanning, Calling, CoordRecord
  <2>2. \A g \in Fibers : ~Waits(g)
    BY <2>1, CoordAbsent
  <2>3. ASSUME NEW kind \in {"start", "deactivate"}, NEW detached, NEW place,
               Driven(f, kind, detached, place),
               detached \in 0..Len(published),
               \/ place = "Driving" /\ kind = "start"
               \/ place = "Awaiting" /\ kind = "deactivate"
        PROVE  CoordCalls'
    <3> SUFFICES ASSUME NEW g \in Fibers, NEW i \in 1..Len(transition'[g])
                 PROVE  /\ transition'[g][i].by = "coordinator" =>
                             /\ Calling' /\ g = coord'.subject
                             /\ transition'[g][i].kind = IF Standing("Awaiting")' THEN "deactivate" ELSE "start"
                        /\ transition'[g][i].kind = "deactivate" => transition'[g][i].by = "coordinator"
                        /\ quiet' => transition'[g][i].by = "coordinator"
      BY DEF CoordCalls
    <3>1. coord'.at = place /\ coord'.subject = f
      BY <1>0, <2>3 DEF Driven, CoordRecord
    <3>2. ASSUME NEW j \in 1..Len(transition[g])
          PROVE  /\ transition[g][j].by = "caller" /\ transition[g][j].kind # "deactivate" /\ ~quiet
      BY <1>0, <2>2 DEF CoordCalls
    <3>3. CASE g = f
      <4>1. /\ Len(transition'[f]) = Len(transition[f]) + 1 /\ Len(transition[f]) \in Nat
            /\ \A j \in 1..Len(transition[f]) : transition'[f][j] = transition[f][j]
            /\ transition'[f][Len(transition[f]) + 1].kind = kind
            /\ transition'[f][Len(transition[f]) + 1].by = "coordinator"
        BY <1>0, <2>1, <2>3, EnqueueFacts DEF Driven
      <4>2. CASE i \in 1..Len(transition[f])
        BY <1>1, <3>2, <3>3, <4>1, <4>2
      <4>3. CASE i = Len(transition[f]) + 1
        BY <2>3, <3>1, <3>3, <4>1, <4>3 DEF Calling, Standing
      <4> QED BY <3>3, <4>1, <4>2, <4>3
    <3>4. CASE g # f
      <4>1. transition'[g] = transition[g]
        BY <1>0, <2>1, <2>3, <3>4 DEF Driven, Enqueue, FiberTypeOK
      <4> QED BY <1>1, <3>2, <4>1
    <3> QED BY <3>3, <3>4
  <2>4. NoEntry \in 0..Len(published) /\ coord.retired \in 0..Len(published)
    BY <1>0, <2>1, TypeFacts DEF CoordRecord
  <2>5. CASE Drain(f)
    BY <2>3, <2>4, <2>5 DEF Drain
  <2>6. CASE Compare(f)
    BY <1>2, <2>2, <2>3, <2>4, <2>6 DEF Compare, Skip
  <2> QED BY <1>2, <1>3, <2>2, <2>5, <2>6 DEF Identify, ReadEpoch, ReadLoading, Skip, Consider
<1>4. ASSUME NEW place, NEW next, Returned(place, next)
      PROVE  CoordCalls'
  <2>1. \A f \in Fibers : ~Waits(f)
    BY <1>4, CoordAbsent DEF Returned, Waits
  <2> QED BY <1>2, <1>4, <2>1 DEF Returned
<1>5. CASE EndPass \/ EndScan \/ Finalize
  <2>1. ~Calling /\ transition' = transition
    BY <1>5 DEF EndPass, EndScan, Finalize, Standing, Calling
  <2> QED BY <1>2, <2>1, CoordAbsent
<1> QED BY <1>3, <1>4, <1>5 DEF CoordinatorStep

LEMMA CoordCallsKept ==
  ASSUME CoordInv, [Next]_rvars, CoordTypeOK'
  PROVE  CoordCalls'
<1>0. FiberTypeOK /\ IInv /\ CoordCalls /\ CoordTypeOK
  BY DEF CoordInv, IInv
<1> DEFINE Fit(f, call) ==
      /\ call.by = "coordinator" =>
           /\ Calling /\ f = coord.subject
           /\ call.kind = IF Standing("Awaiting") THEN "deactivate" ELSE "start"
      /\ call.kind = "deactivate" => call.by = "coordinator"
      /\ quiet' => call.by = "coordinator"
<1>1. ASSUME \A f \in Fibers : \A i \in 1..Len(transition'[f]) : Fit(f, transition'[f][i]), coord' = coord
      PROVE  CoordCalls'
  BY <1>1 DEF CoordCalls, Calling, Standing
<1>2. ASSUME quiet' => quiet, NEW f \in Fibers, NEW i \in 1..Len(transition[f]) PROVE Fit(f, transition[f][i])
  BY <1>0, <1>2 DEF CoordCalls
<1>3. ASSUME quiet' => quiet, NEW f \in Fibers, NEW call, Was(f, call) PROVE Fit(f, call)
  BY <1>2, <1>3 DEF Was
<1>4. ASSUME \A f \in Fibers : Returning(f), coord' = coord, quiet' => quiet
      PROVE  CoordCalls'
  <2>1. ASSUME NEW f \in Fibers, NEW i \in 1..Len(transition'[f]) PROVE Fit(f, transition'[f][i])
    <3>1. Was(f, transition'[f][i])
      BY <1>4 DEF Returning
    <3> HIDE DEF Fit
    <3> QED BY <1>4, <1>3, <3>1
  <2> QED BY <1>4, <1>1, <2>1
<1>5. ASSUME \A f \in Fibers : Older(f), coord' = coord, ~quiet'
      PROVE  CoordCalls'
  <2>1. ASSUME NEW f \in Fibers, NEW i \in 1..Len(transition'[f]) PROVE Fit(f, transition'[f][i])
    <3>1. CASE transition'[f][i].by = "caller" /\ transition'[f][i].kind # "deactivate"
      BY <1>5, <3>1
    <3>2. CASE Was(f, transition'[f][i])
      <4> HIDE DEF Fit
      <4> QED BY <1>5, <1>3, <3>2
    <3> QED BY <1>5, <3>1, <3>2 DEF Older
  <2> QED BY <1>5, <1>1, <2>1
<1> HIDE DEF Fit
<1>6. transition' = transition => \A f \in Fibers : Returning(f)
  BY DEF Returning, Was
<1>7. CASE Operation
  <2>1. ASSUME NEW operation, Begins(operation) PROVE CoordCalls'
    <3>1. \A f \in Fibers : \A i \in 1..Len(transition'[f]) :
            transition'[f][i].by = "caller" /\ transition'[f][i].kind # "deactivate"
      BY <1>0, <2>1, CallFacts DEF Begins, CoordCalls, Calling, Standing
    <3>2. quiet' => \A f \in Fibers : transition'[f] = <<>>
      BY <2>1 DEF Begins
    <3> QED BY <3>1, <3>2 DEF CoordCalls
  <2>2. ASSUME NEW f \in Fibers, Watch(f) PROVE CoordCalls'
    <3>1. transition' = transition /\ coord' = coord /\ quiet' = quiet
      BY <2>2 DEF Watch, fvars
    <3> QED BY <1>4, <1>6, <3>1
  <2> QED BY <1>7, <2>1, <2>2 DEF Operation, Reconcile, ProvideAndReconcile, WithdrawAndReconcile
<1>8. CASE CoordinatorStep
  <2>1. coord' \in CoordRecord(Len(published))
    BY <1>8, VisitPlacing, TurnPlacing DEF CoordinatorStep, Placing
  <2> QED BY <1>8, <2>1, CoordCallsTurn
<1>9. CASE /\ FiberCall \/ \E f \in Fibers : RestartUpdated(f)
           /\ quiet' = FALSE
           /\ UNCHANGED <<watched, coord, operations, bound>>
  BY <1>0, <1>5, <1>9, FiberTraffic DEF FiberNext
<1>10. ASSUME NEW f \in Fibers, FiberStep(f), coord' = coord, quiet' = quiet PROVE CoordCalls'
  BY <1>0, <1>4, <1>10, FiberStepTraffic
<1>11. ASSUME NEW f \in Fibers, RegisterEffect(f), coord' = coord, quiet' = quiet PROVE CoordCalls'
  BY <1>4, <1>6, <1>11 DEF RegisterEffect
<1>12. CASE UNCHANGED rvars
  BY <1>4, <1>6, <1>12 DEF rvars, fvars
<1> QED BY <1>7, <1>8, <1>9, <1>10, <1>11, <1>12 DEF Next

(* The retired entry: one operation retires it, and it does not return.    *)
LEMMA CoordinatorGoesOn ==
  ASSUME CoordInv, CoordinatorStep
  PROVE  Withdrawing' => Withdrawing /\ coord'.retired = coord.retired
<1>0. coord \in CoordRecord(Len(published))
  BY DEF CoordInv, CoordTypeOK
<1>1. ASSUME NEW f \in coord.todo, Compare(f) \/ Identify(f) \/ ReadEpoch(f) \/ ReadLoading(f) \/ Drain(f)
      PROVE  Withdrawing' => Withdrawing /\ coord'.retired = coord.retired
  <2>1. CASE Compare(f)
    BY <1>0, <2>1 DEF Compare, Skip, Driven, Withdrawing, Standing, CoordRecord
  <2>2. CASE Identify(f) \/ ReadEpoch(f) \/ ReadLoading(f)
    BY <1>0, <2>2 DEF Identify, ReadEpoch, ReadLoading, Skip, Consider, Scanning, Withdrawing, Standing, CoordRecord
  <2>3. CASE Drain(f)
    BY <1>0, <2>3 DEF Drain, Driven, Withdrawing, Standing, CoordRecord
  <2> QED BY <1>1, <2>1, <2>2, <2>3
<1>2. CASE Returned("Driving", "Comparing") \/ Returned("Awaiting", "Draining") \/ EndScan
  BY <1>0, <1>2 DEF Returned, EndScan, Withdrawing, Standing, CoordRecord
<1>3. CASE EndPass \/ Finalize
  <2>1. Pass \in CoordRecord(0) /\ Pass.at = "Comparing" /\ Idle.at = "Idle"
    BY IdleType DEF Pass, Idle
  <2>2. [Pass EXCEPT !.fibers = watched, !.todo = watched].at = "Comparing"
    BY <2>1 DEF CoordRecord
  <2>3. coord'.at \in {"Idle", "Comparing"}
    BY <1>3, <2>1, <2>2 DEF EndPass, Finalize, NextPass
  <2> QED BY <2>3 DEF Withdrawing
<1> QED BY <1>1, <1>2, <1>3 DEF CoordinatorStep

LEMMA RetiredGoneKept ==
  ASSUME CoordInv, [Next]_rvars
  PROVE  RetiredGone'
<1>0. FiberTypeOK /\ IInv /\ coord \in CoordRecord(Len(published)) /\ Len(published) \in Nat
      /\ coord.retired \in 0..Len(published) /\ RetiredGone /\ Fewer
  BY FibersKeep DEF CoordInv, CoordTypeOK, IInv, FiberTypeOK, CoordRecord
<1>1. ASSUME Withdrawing' => Withdrawing /\ coord'.retired = coord.retired PROVE RetiredGone'
  <2> SUFFICES ASSUME Withdrawing' PROVE (coord.retired # NoEntry /\ Gone(coord.retired))'
    BY DEF RetiredGone
  <2>1. coord.retired # NoEntry /\ Gone(coord.retired)
    BY <1>0, <1>1 DEF RetiredGone
  <2>2. \A c \in Capabilities : entries'[c] # coord.retired
    BY <1>0, <2>1 DEF Gone, Fewer
  <2> QED BY <1>1, <2>1, <2>2 DEF Gone
<1>2. CASE coord' = coord
  BY <1>1, <1>2 DEF Withdrawing
<1>3. CASE Operation
  <2>1. CASE Reconcile \/ \E c \in Providers : ProvideAndReconcile(c)
    <3>1. coord'.at = "Comparing"
      BY <2>1 DEF Reconcile, ProvideAndReconcile, Begins, Pass, Idle
    <3> QED BY <3>1 DEF RetiredGone, Withdrawing
  <2>2. ASSUME NEW c \in Capabilities, WithdrawAndReconcile(c) PROVE RetiredGone'
    <3>1. coord'.retired = entries[c] /\ entries[c] # NoEntry
      BY <2>2 DEF WithdrawAndReconcile, Begins, Idle
    <3>2. \A x \in Capabilities : entries[x] = entries[c] => x = c
      BY <1>0, <3>1 DEF IInv, Shown
    <3>3. entries' = [entries EXCEPT ![c] = NoEntry] /\ entries \in [Capabilities -> 0..Len(published)]
      BY <1>0, <2>2 DEF WithdrawAndReconcile, FiberTypeOK
    <3>4. \A x \in Capabilities : entries'[x] # entries[c]
      BY <3>1, <3>2, <3>3
    <3> QED BY <3>1, <3>4 DEF RetiredGone, Gone
  <2>3. ASSUME NEW f \in Fibers, Watch(f) PROVE RetiredGone'
    BY <1>2, <2>3 DEF Watch
  <2> QED BY <1>3, <2>1, <2>2, <2>3 DEF Operation
<1>4. CASE CoordinatorStep
  BY <1>1, <1>4, CoordinatorGoesOn
<1> QED BY <1>2, <1>3, <1>4 DEF Next, rvars

LEMMA CoordInvariant == Spec => []CoordInv
<1>1. Init => CoordInv
  <2> SUFFICES ASSUME Init PROVE CoordInv
    OBVIOUS
  <2>1. IInv /\ FiberInit /\ Len(published) \in Nat
    BY FiberInitStep DEF Init, IInv, FiberTypeOK
  <2>2. /\ \A f \in Fibers : transition[f] = <<>>
        /\ published = <<>> /\ coord = Idle /\ coord.at = "Idle"
    BY <2>1 DEF Init, FiberInit, Idle
  <2>3. Detached /\ CoordCalls /\ RetiredGone /\ PinsOlder
    BY <2>2 DEF Detached, CoordCalls, RetiredGone, Withdrawing, PinsOlder, EntryIds
  <2>4. CoordTypeOK
    BY <2>1, <2>2, IdleType DEF Init, CoordTypeOK
  <2>5. Listed
    BY <2>2 DEF Listed, Calling, Standing, Idle
  <2> QED BY <2>1, <2>3, <2>4, <2>5 DEF CoordInv
<1>2. CoordInv /\ [Next]_rvars => CoordInv'
  BY FibersKeep, CoordTypes, CoordCallsKept, RetiredGoneKept, PublicationsGrow DEF CoordInv
<1> QED BY <1>1, <1>2, PTL DEF Spec

-----------------------------------------------------------------------------
(* A step begins an operation, is the coordinator's, or leaves it alone.   *)
Withdrawals == { [Idle EXCEPT !.at = "Identifying", !.retired = entries[c]] : c \in Capabilities }

LEMMA Phases ==
  ASSUME CoordInv, [Next]_rvars
  PROVE  \/ \E operation \in {Pass} \cup Withdrawals : Begins(operation)
         \/ CoordinatorStep /\ ~Standing("Idle") /\ quiet' = quiet /\ bound' = bound
         \/ coord' = coord /\ (quiet' => quiet) /\ bound' = bound
<1>1. CASE Operation
  BY <1>1 DEF Operation, Reconcile, ProvideAndReconcile, WithdrawAndReconcile, Watch, Withdrawals
<1>2. CASE CoordinatorStep
  BY <1>2 DEF CoordinatorStep, Compare, Identify, ReadEpoch, ReadLoading, Drain, Returned, EndPass, EndScan,
     Finalize, Scanning, Standing
<1>3. CASE UNCHANGED rvars
  BY <1>3 DEF rvars
<1> QED BY <1>1, <1>2, <1>3 DEF Next

LEMMA BeginsFacts ==
  ASSUME CoordInv, NEW operation \in {Pass} \cup Withdrawals, Begins(operation)
  PROVE  /\ coord' = [operation EXCEPT !.fibers = watched, !.todo = watched]
         /\ coord'.at = operation.at /\ operation.at \in {"Comparing", "Identifying"}
         /\ coord'.fibers = watched /\ coord'.todo = watched /\ ~coord'.loading
         /\ coord'.retired = operation.retired /\ coord'.affected = {}
         /\ coord'.bindings = [f \in Fibers |-> None]
<1>1. /\ Idle \in CoordRecord(Len(published)) /\ Pass \in CoordRecord(Len(published))
      /\ Len(published) \in Nat /\ \A c \in Capabilities : entries[c] \in 0..Len(published)
  BY IdleType DEF CoordInv, IInv, FiberTypeOK
<1>2. /\ operation \in CoordRecord(Len(published)) /\ operation.at \in {"Comparing", "Identifying"}
      /\ ~operation.loading /\ operation.affected = {} /\ operation.bindings = [f \in Fibers |-> None]
  <2>1. CASE operation = Pass
    BY <1>1, <2>1 DEF Pass, Idle
  <2>2. ASSUME NEW c \in Capabilities, operation = [Idle EXCEPT !.at = "Identifying", !.retired = entries[c]]
        PROVE  /\ operation \in CoordRecord(Len(published)) /\ operation.at = "Identifying"
               /\ ~operation.loading /\ operation.affected = {}
               /\ operation.bindings = [f \in Fibers |-> None]
    <3>1. Idle.bindings = [f \in Fibers |-> None] /\ Idle.affected = {} /\ ~Idle.loading
      BY DEF Idle
    <3> QED BY <1>1, <2>2, <3>1 DEF CoordRecord, CoordPlace
  <2> QED BY <2>1, <2>2 DEF Withdrawals
<1>3. watched \in SUBSET Fibers
  BY DEF CoordInv, CoordTypeOK
<1> QED BY <1>2, <1>3 DEF Begins, CoordRecord

(* What a turn of a scan keeps, and where it goes.                         *)
Read == <<coord.fibers, coord.affected, coord.identities, coord.bindings, coord.retired>>

LEMMA EndScanFacts ==
  ASSUME CoordInv, EndScan
  PROVE  /\ coord.todo = {} /\ ~coord.loading /\ ~coord'.loading /\ UNCHANGED Read
         /\ \/ Standing("Identifying") /\ coord'.at = "Direct" /\ coord'.todo = coord.fibers
            \/ Standing("Direct") /\ coord'.at = "Transitive" /\ coord'.todo = coord.fibers
            \/ Standing("Transitive") /\ coord.again /\ coord'.at = "Transitive" /\ coord'.todo = coord.fibers
            \/ Standing("Transitive") /\ ~coord.again /\ coord'.at = "Ordering" /\ coord'.todo = coord.fibers
            \/ Standing("Ordering") /\ coord'.at = "Draining" /\ coord'.todo = coord.affected
<1>0. coord \in CoordRecord(Len(published)) /\ Listed
  BY DEF CoordInv, CoordTypeOK
<1>1. coord.todo = {} /\ ~coord.loading
  BY <1>0 DEF EndScan, Listed
<1>2. CASE Standing("Identifying") \/ Standing("Direct")
  BY <1>0, <1>1, <1>2 DEF EndScan, Standing, CoordRecord, Read
<1>3. CASE Standing("Transitive") /\ coord' = [coord EXCEPT !.at = IF coord.again THEN @ ELSE "Ordering",
                                                         !.again = FALSE, !.todo = coord.fibers]
  <2>1. CASE coord.again
    BY <1>0, <1>1, <1>3, <2>1 DEF Standing, CoordRecord, Read
  <2>2. CASE ~coord.again
    BY <1>0, <1>1, <1>3, <2>2 DEF Standing, CoordRecord, Read
  <2> QED BY <2>1, <2>2
<1>4. CASE Standing("Ordering")
  BY <1>0, <1>1, <1>4 DEF EndScan, Standing, CoordRecord, Read
<1> QED BY <1>2, <1>3, <1>4 DEF EndScan

(* While the coordinator is the only one that calls, nothing moves but the *)
(* fiber that it awaits.                                                   *)
Still ==
  /\ entries' = entries /\ drive' = drive
  /\ \A g \in Fibers : /\ State(g)' = State(g) /\ fiber'[g].epoch = fiber[g].epoch
                       /\ fiber'[g].loading = fiber[g].loading /\ fiber'[g].handle = fiber[g].handle

LEMMA QuietStep ==
  ASSUME CoordInv, [Next]_rvars, quiet, quiet', ~Standing("Idle")
  PROVE  \/ Still /\ coord' = coord /\ transition' = transition
         \/ Still /\ CoordinatorStep
         \/ FiberStep(coord.subject) /\ coord' = coord /\ Calling /\ coord.subject \in Fibers
<1>0. IInv /\ fiber \in [Fibers -> FiberRecord(Len(published))]
  BY DEF CoordInv, IInv, FiberTypeOK
<1>1. CASE Operation
  <2>1. PICK f \in Fibers : Watch(f)
    BY <1>1 DEF Operation, Reconcile, ProvideAndReconcile, WithdrawAndReconcile, Begins
  <2> QED BY <2>1 DEF Watch, Still, fvars, scope, State
<1>2. CASE CoordinatorStep
  BY <1>2 DEF CoordinatorStep, scope, Still, State
<1>3. ASSUME NEW f \in Fibers, FiberStep(f), coord' = coord
      PROVE  FiberStep(coord.subject) /\ coord' = coord /\ Calling /\ coord.subject \in Fibers
  <2>1. transition[f] # <<>>
    BY <1>0, <1>3, FiberStepTurns DEF Turns
  <2> QED BY <1>3, <2>1, CoordAbsent
<1>4. ASSUME NEW f \in Fibers, RegisterEffect(f), coord' = coord
      PROVE  Still /\ transition' = transition
  BY <1>0, <1>4 DEF RegisterEffect, Still, State, scope, FiberRecord
<1>5. CASE UNCHANGED rvars
  BY <1>5 DEF rvars, fvars, scope, Still, State
<1> QED BY <1>1, <1>2, <1>3, <1>4, <1>5 DEF Next

(* A fiber that nobody calls is at rest.                                   *)
LEMMA AtRest ==
  ASSUME CoordInv, NEW f \in Fibers, transition[f] = <<>>
  PROVE  /\ At(f, "Waiting") /\ State(f) \in {"Pending", "Active", "Failed", "Disposed"}
         /\ fiber[f].epoch # None => State(f) = "Active"
         /\ fiber[f].handle # NoEntry => State(f) = "Active"
         /\ fiber[f].loading = None
<1>1. Local(f) /\ 1..Len(transition[f]) = {}
  BY DEF CoordInv, IInv
<1>2. At(f, "Waiting")
  BY <1>1 DEF Local, Placed
<1>3. State(f) \in {"Pending", "Active", "Failed", "Disposed"}
  BY <1>1, <1>2 DEF Local, Placed, Asked
<1> QED BY <1>1, <1>2, <1>3 DEF Local, Held, At, Loads, Unloads

-----------------------------------------------------------------------------
(* Reconciliation: what a pass has gone over and not driven stays right    *)
(* until the pass is over.                                                 *)
LEMMA ComparedKept ==
  ASSUME CoordInv, Compared, [Next]_rvars
  PROVE  Compared'
<1> SUFFICES ASSUME quiet', Standing("Comparing")', ~coord'.again
             PROVE  \A f \in coord'.fibers \ coord'.todo : ~NeedsReconciliation(f)'
  BY DEF Compared
<1>0. /\ coord \in CoordRecord(Len(published)) /\ Listed /\ watched \subseteq Fibers
      /\ Len(published) \in Nat
  BY DEF CoordInv, CoordTypeOK, IInv, FiberTypeOK
<1>1. ASSUME NEW operation \in {Pass} \cup Withdrawals, Begins(operation)
      PROVE  coord'.fibers \ coord'.todo = {}
  BY <1>1, BeginsFacts
<1>2. ASSUME Still, NEW f \in Fibers PROVE NeedsReconciliation(f)' <=> NeedsReconciliation(f)
  <2>1. Current(f)' = Current(f) /\ Requires(f)' = Requires(f) /\ Satisfied(f)' = Satisfied(f)
    BY <1>2 DEF Still, Current, Requires, Satisfied
  <2> QED BY <1>2, <2>1 DEF NeedsReconciliation, Still
<1>3. CASE coord' = coord /\ quiet
  <2>1. Still
    BY <1>3, QuietStep DEF Calling, Standing
  <2> QED BY <1>0, <1>2, <1>3, <2>1 DEF Compared, Standing, CoordRecord
<1>4. CASE CoordinatorStep /\ quiet /\ ~Standing("Idle")
  <2>0. Still
    BY <1>4 DEF CoordinatorStep, scope, Still, State
  <2>1. ASSUME NEW f \in coord.todo, Compare(f) PROVE \A g \in coord'.fibers \ coord'.todo : ~NeedsReconciliation(g)
    <3>1. Standing("Comparing") /\ ~NeedsReconciliation(f) /\ coord' = [coord EXCEPT !.todo = @ \ {f}]
      BY <1>0, <2>1 DEF Compare, Driven, Skip, Standing, CoordRecord
    <3>2. coord'.fibers = coord.fibers /\ coord'.todo = coord.todo \ {f} /\ coord'.again = coord.again
      BY <1>0, <3>1 DEF CoordRecord
    <3> QED BY <1>4, <3>1, <3>2 DEF Compared
  <2>2. ASSUME NEW f \in coord.todo, Identify(f) \/ ReadEpoch(f) \/ ReadLoading(f) \/ Drain(f) PROVE FALSE
    BY <1>0, <2>2 DEF Identify, ReadEpoch, ReadLoading, Drain, Driven, Skip, Consider, Scanning, Standing, CoordRecord
  <2>3. ASSUME Returned("Driving", "Comparing") PROVE FALSE
    BY <1>0, <2>3 DEF Returned, Listed, CoordRecord
  <2>4. ASSUME Returned("Awaiting", "Draining") \/ EndScan \/ Finalize PROVE FALSE
    <3>1. coord'.at = "Comparing"
      BY DEF Standing
    <3>2. CASE Returned("Awaiting", "Draining")
      BY <1>0, <3>1, <3>2 DEF Returned, CoordRecord
    <3>3. CASE EndScan
      BY <3>1, <3>3, EndScanFacts
    <3>4. CASE Finalize
      BY <3>1, <3>4 DEF Finalize, Idle
    <3> QED BY <2>4, <3>2, <3>3, <3>4
  <2>5. ASSUME EndPass PROVE coord'.fibers \ coord'.todo = {}
    <3>1. coord' # Idle
      BY DEF Idle, Standing
    <3>2. coord' = [Pass EXCEPT !.fibers = watched, !.todo = watched] /\ Pass \in CoordRecord(Len(published))
      BY <1>0, <2>5, <3>1, IdleType DEF EndPass, NextPass
    <3> QED BY <1>0, <3>2 DEF CoordRecord
  <2>6. \A g \in coord'.fibers \ coord'.todo : ~NeedsReconciliation(g)
    BY <1>4, <2>1, <2>2, <2>3, <2>4, <2>5 DEF CoordinatorStep
  <2>7. coord'.fibers \subseteq Fibers
    BY CoordTypes DEF CoordTypeOK, CoordRecord
  <2> QED BY <1>2, <2>0, <2>6, <2>7
<1> QED BY <1>1, <1>3, <1>4, Phases

(* One call of reconcile reaches the fixpoint, for any fibers, plugins and *)
(* order of steps in between.                                              *)
THEOREM ReconcileSettles == Spec => ReconcileReachesFixpoint
<1>1. Init => Compared
  BY DEF Init, Compared, Standing, Idle
<1>2. CoordInv /\ Compared /\ [Next]_rvars => Compared'
  BY ComparedKept
<1>3. ASSUME CoordInv, Compared, [Next]_rvars
      PROVE  [ Standing("Comparing") /\ coord'.at = "Idle" /\ quiet =>
                 \A f \in coord.fibers :
                   \/ State(f) = "Active" /\ fiber[f].epoch = Current(f)
                   \/ State(f) = "Pending" /\ (Requires(f) = {} \/ ~Satisfied(f))
                   \/ State(f) \in {"Failed", "Disposed"} ]_rvars
  <2> SUFFICES ASSUME Standing("Comparing"), coord'.at = "Idle", quiet, NEW f \in coord.fibers
               PROVE  \/ State(f) = "Active" /\ fiber[f].epoch = Current(f)
                      \/ State(f) = "Pending" /\ (Requires(f) = {} \/ ~Satisfied(f))
                      \/ State(f) \in {"Failed", "Disposed"}
    OBVIOUS
  <2>0. coord \in CoordRecord(Len(published)) /\ f \in Fibers /\ Len(published) \in Nat
    BY <1>3 DEF CoordInv, CoordTypeOK, CoordRecord, IInv, FiberTypeOK
  <2>1. CoordinatorStep
    BY <1>3, Phases, BeginsFacts DEF Standing
  <2>2. EndPass
    <3>1. ASSUME NEW g \in coord.todo, Compare(g) PROVE FALSE
      BY <2>0, <3>1 DEF Compare, Skip, Driven, Standing, CoordRecord
    <3>2. ASSUME EndScan \/ Returned("Driving", "Comparing") \/ Returned("Awaiting", "Draining") \/ Finalize
          PROVE  FALSE
      BY <1>3, <3>2, EndScanFacts DEF Returned, Finalize, Standing
    <3> QED BY <2>1, <3>1, <3>2 DEF CoordinatorStep, Identify, ReadEpoch, ReadLoading, Drain, Scanning, Standing
  <2>3. coord.todo = {} /\ ~coord.again
    <3>1. Pass \in CoordRecord(Len(published)) /\ Pass.at = "Comparing"
      BY <2>0, IdleType DEF Pass, Idle
    <3>2. [Pass EXCEPT !.fibers = watched, !.todo = watched].at = "Comparing"
      BY <3>1 DEF CoordRecord
    <3> QED BY <2>2, <3>2 DEF EndPass, NextPass
  <2>4. ~NeedsReconciliation(f)
    BY <1>3, <2>3 DEF Compared
  <2>5. State(f) \in {"Pending", "Active", "Failed", "Disposed"}
    BY <1>3, <2>0, CoordAbsent, AtRest DEF Calling, Standing
  <2> QED BY <2>4, <2>5 DEF NeedsReconciliation
<1> QED BY <1>1, <1>2, <1>3, CoordInvariant, PTL DEF Spec, ReconcileReachesFixpoint

-----------------------------------------------------------------------------
(* What a scan makes of one fiber: it looks at its loading binding next,   *)
(* passes it, takes it as the provider, or considers the binding b.        *)
Postponed(g) ==
  /\ ~coord.loading /\ fiber[g].epoch = None /\ ~Passed(g)
  /\ coord'.loading /\ UNCHANGED <<coord.todo, coord.affected, coord.bindings, coord.again>>
Passing(g) == ~coord.loading /\ Passed(g) /\ UNCHANGED <<coord.affected, coord.bindings, coord.again>>
Retiring(g) ==
  /\ Standing("Direct") /\ coord'.affected = coord.affected \cup {g}
  /\ UNCHANGED <<coord.bindings, coord.again>>
Considered(g, b) ==
  /\ IF coord.loading THEN b = fiber[g].loading ELSE b = fiber[g].epoch /\ b # None /\ ~Passed(g)
  /\ coord'.affected = IF Hit(b) THEN coord.affected \cup {g} ELSE coord.affected
  /\ coord'.again = (coord.again \/ (Standing("Transitive") /\ Hit(b)))
  /\ coord'.bindings = [coord.bindings EXCEPT ![g] = IF Standing("Ordering") THEN b ELSE @]

LEMMA ReadFacts ==
  ASSUME CoordInv, NEW g \in coord.todo, ReadEpoch(g) \/ ReadLoading(g)
  PROVE  /\ Scanning /\ Lowest(g) /\ g \in Fibers
         /\ UNCHANGED <<coord.at, coord.fibers, coord.retired, coord.identities>>
         /\ \/ Postponed(g)
            \/ /\ ~coord'.loading /\ coord'.todo = coord.todo \ {g}
               /\ Passing(g) \/ Retiring(g) \/ \E b \in Bindings(Len(published)) : Considered(g, b)
<1>0. /\ coord \in CoordRecord(Len(published)) /\ g \in Fibers
      /\ fiber[g].epoch \in Bindings(Len(published)) /\ fiber[g].loading \in Bindings(Len(published))
  BY TypeFacts DEF CoordInv, CoordTypeOK, CoordRecord, IInv, FiberRecord
<1> USE DEF Standing
<1>1. Scanning /\ Lowest(g)
  BY DEF ReadEpoch, ReadLoading
<1> DEFINE Fixed == UNCHANGED <<coord.at, coord.fibers, coord.retired, coord.identities>>
           Done  == ~coord'.loading /\ coord'.todo = coord.todo \ {g}
<1>2. ASSUME NEW b \in Bindings(Len(published)), Consider(g, b),
             IF coord.loading THEN b = fiber[g].loading ELSE b = fiber[g].epoch /\ b # None /\ ~Passed(g)
      PROVE  Fixed /\ Done /\ Considered(g, b)
  BY <1>0, <1>2 DEF Consider, Considered, CoordRecord
<1>3. CASE ReadLoading(g)
  BY <1>0, <1>1, <1>2, <1>3 DEF ReadLoading
<1>4. CASE ReadEpoch(g)
  <2>1. CASE Passed(g) /\ Skip(g)
    BY <1>0, <1>1, <1>4, <2>1 DEF ReadEpoch, Skip, Passing, CoordRecord
  <2>2. CASE ProvidesRetired(g) /\ coord' = [coord EXCEPT !.todo = @ \ {g}, !.affected = @ \cup {g}]
    BY <1>0, <1>1, <1>4, <2>2 DEF ReadEpoch, ProvidesRetired, Retiring, CoordRecord
  <2>3. CASE ~Passed(g) /\ fiber[g].epoch = None /\ coord' = [coord EXCEPT !.loading = TRUE]
    BY <1>0, <1>1, <1>4, <2>3 DEF ReadEpoch, Postponed, CoordRecord
  <2>4. CASE ~Passed(g) /\ fiber[g].epoch # None /\ Consider(g, fiber[g].epoch)
    BY <1>0, <1>1, <1>2, <1>4, <2>4 DEF ReadEpoch
  <2> QED BY <1>4, <2>1, <2>2, <2>3, <2>4 DEF ReadEpoch
<1> QED BY <1>3, <1>4

LEMMA DrainFacts ==
  ASSUME CoordInv, NEW g \in coord.todo, Drain(g)
  PROVE  /\ Standing("Draining") /\ Deepest(g) /\ coord'.at = "Awaiting" /\ g \in Fibers
         /\ coord'.todo = coord.todo \ {g} /\ coord'.subject = g /\ UNCHANGED Read
         /\ coord'.loading = coord.loading /\ transition'[g] # <<>> /\ Waits(g)'
<1>0. coord \in CoordRecord(Len(published)) /\ g \in Fibers /\ RetiredGone /\ FiberTypeOK
  BY DEF CoordInv, CoordTypeOK, CoordRecord, IInv
<1>1. PICK detached \in {coord.retired, NoEntry} : Driven(g, "deactivate", detached, "Awaiting")
  BY DEF Drain
<1>2. detached \in 0..Len(published) /\ Gone(detached)
  BY <1>0, TypeFacts DEF CoordRecord, RetiredGone, Withdrawing, Drain, Standing, Gone
<1>3. /\ Len(transition'[g]) = Len(transition[g]) + 1 /\ Len(transition[g]) \in Nat
      /\ transition'[g] # <<>>
      /\ transition'[g][Len(transition[g]) + 1].by = "coordinator"
  BY <1>0, <1>1, <1>2, EnqueueFacts DEF Driven
<1>4. Len(transition[g]) + 1 \in 1..Len(transition'[g])
  BY <1>3
<1>5. Waits(g)'
  BY <1>3, <1>4 DEF Waits
<1>6. /\ coord'.at = "Awaiting" /\ coord'.todo = coord.todo \ {g} /\ coord'.subject = g
      /\ coord'.loading = coord.loading /\ UNCHANGED Read
  BY <1>0, <1>1 DEF Driven, CoordRecord, Read
<1> QED BY <1>0, <1>3, <1>5, <1>6 DEF Drain

-----------------------------------------------------------------------------
(* What has left the scope is in no binding that a fiber takes up.         *)
LEMMA GoneUnseen ==
  ASSUME FiberTypeOK, NEW f \in Fibers, NEW e, e # NoEntry, Gone(e)
  PROVE  e \notin Pins(Current(f))
BY TypeFacts DEF Current, Pins, None, Gone

(* A step that is not the coordinator's brings no fiber to the retired     *)
(* entry, and takes no call of the coordinator from one that stays active. *)
Unbound(f) == drive[f].at \in Loads \cup {"Entering"} => coord.retired \notin Pins(drive[f].binding)

LEMMA FiberLetsGo ==
  ASSUME CoordInv, [Next]_rvars, ~CoordinatorStep, coord' = coord, Withdrawing,
         NEW f \in Fibers, Unbound(f)
  PROVE  /\ Unbound(f)'
         /\ Holds(f, coord.retired)' => Holds(f, coord.retired)
         /\ Standing("Awaiting") /\ Holds(f, coord.retired)' /\ Waits(f) => Waits(f)'
<1> DEFINE Goal == /\ Unbound(f)'
                   /\ Holds(f, coord.retired)' => Holds(f, coord.retired)
                   /\ Standing("Awaiting") /\ Holds(f, coord.retired)' /\ Waits(f) => Waits(f)'
<1>0. /\ FiberTypeOK /\ IInv /\ CoordCalls /\ coord.retired # NoEntry /\ Gone(coord.retired)
      /\ fiber \in [Fibers -> FiberRecord(Len(published))] /\ transition[f] \in Seq(CallRecord(Len(published)))
  BY TypeFacts DEF CoordInv, IInv, RetiredGone, FiberTypeOK
<1>1. ASSUME drive'[f] = drive[f], fiber'[f].state = fiber[f].state, fiber'[f].epoch = fiber[f].epoch,
             Waits(f) => Waits(f)'
      PROVE  Goal
  BY <1>1 DEF Unbound, Holds, State
<1>2. transition'[f] = transition[f] => (Waits(f) => Waits(f)')
  BY DEF Waits
<1>3. CASE FiberStep(f)
  <2>1. Turns(f)
    BY <1>0, <1>3, FiberStepTurns
  <2>2. coord.retired \notin Pins(Current(f))
    BY <1>0, GoneUnseen
  <2>3. Unbound(f)'
    BY <2>1, <2>2 DEF Turns, Unbound
  <2>4. Holds(f, coord.retired)' => Holds(f, coord.retired)
    BY <2>1 DEF Turns, Unbound, Holds, At, Loads, State
  <2>5. ASSUME Standing("Awaiting"), Holds(f, coord.retired)', Waits(f) PROVE Waits(f)'
    <3>1. CASE transition'[f] = transition[f]
      BY <1>2, <2>5, <3>1
    <3>2. CASE transition'[f] = Tail(transition[f]) /\ (Call(f).kind = "deactivate" => State(f)' # "Active")
      <4>1. PICK i \in 1..Len(transition[f]) : transition[f][i].by = "coordinator"
        BY <2>5 DEF Waits
      <4>2. transition[f][i].kind = "deactivate"
        BY <1>0, <2>5, <4>1 DEF CoordCalls
      <4>3. i # 1
        BY <1>0, <2>5, <3>2, <4>2 DEF Holds, Call
      <4>4. i - 1 \in 1..Len(transition'[f]) /\ transition'[f][i - 1] = transition[f][i]
        BY <1>0, <3>2, <4>1, <4>3
      <4> QED BY <4>1, <4>4 DEF Waits
    <3> QED BY <2>1, <3>1, <3>2 DEF Turns
  <2> QED BY <2>3, <2>4, <2>5
<1>4. ASSUME NEW g \in Fibers \ {f}, FiberStep(g) PROVE Goal
  BY <1>0, <1>1, <1>2, <1>4, OthersMove
<1>5. ASSUME NEW g \in Fibers, RegisterEffect(g) PROVE Goal
  <2>1. /\ drive' = drive /\ transition' = transition
        /\ fiber'[f].state = fiber[f].state /\ fiber'[f].epoch = fiber[f].epoch
    BY <1>0, <1>5 DEF RegisterEffect, FiberRecord
  <2> QED BY <1>1, <1>2, <2>1
<1>6. ASSUME NEW g \in Fibers, NEW kind \in {"start", "restart", "dispose"},
             Enqueue(g, kind, "caller", NoEntry)
      PROVE  Waits(f) => Waits(f)'
  <2>1. CASE g = f
    <3>1. \A i \in 1..Len(transition[f]) : i \in 1..Len(transition'[f]) /\ transition'[f][i] = transition[f][i]
      BY <1>0, <1>6, <2>1, EnqueueFacts, TypeFacts
    <3> QED BY <3>1 DEF Waits
  <2>2. CASE g # f
    BY <1>0, <1>2, <1>6, <2>2 DEF Enqueue, FiberTypeOK
  <2> QED BY <2>1, <2>2
<1>7. CASE FiberCall
  <2>1. PICK g \in Fibers : Start(g) \/ Restart(g) \/ Update(g) \/ Dispose(g)
    BY <1>7 DEF FiberCall
  <2>2. CASE Update(g)
    <3>1. /\ drive' = drive /\ transition' = transition
          /\ fiber'[f].state = fiber[f].state /\ fiber'[f].epoch = fiber[f].epoch
      BY <1>0, <2>2 DEF Update, FiberRecord
    <3> QED BY <1>1, <1>2, <3>1
  <2>3. CASE Start(g) \/ Restart(g) \/ Dispose(g)
    <3>1. drive' = drive /\ fiber' = fiber
      BY <2>3 DEF Start, Restart, Dispose
    <3>2. \E kind \in {"start", "restart", "dispose"} : Enqueue(g, kind, "caller", NoEntry)
      BY <2>3 DEF Start, Restart, Dispose
    <3> QED BY <1>1, <1>6, <3>1, <3>2
  <2> QED BY <2>1, <2>2, <2>3
<1>8. ASSUME NEW g \in Fibers, RestartUpdated(g) PROVE Goal
  <2>1. drive' = drive /\ fiber' = fiber
    BY <1>8 DEF RestartUpdated
  <2>2. transition' = transition \/ Enqueue(g, "restart", "caller", NoEntry)
    BY <1>8 DEF RestartUpdated
  <2> QED BY <1>1, <1>2, <1>6, <2>1, <2>2
<1>9. CASE Operation
  <2>1. UNCHANGED <<fiber, drive, transition>>
    BY <1>9 DEF Operation, Reconcile, ProvideAndReconcile, WithdrawAndReconcile, Begins, Watch, fvars
  <2> QED BY <1>1, <1>2, <2>1
<1>10. CASE UNCHANGED rvars
  BY <1>1, <1>2, <1>10 DEF rvars, fvars
<1> QED BY <1>3, <1>4, <1>5, <1>7, <1>8, <1>9, <1>10 DEF Next

LetGoOf(f) ==
  /\ f \in coord.fibers /\ Unbound(f)
  /\ Holds(f, coord.retired) =>
       /\ Standing("Direct") =>
            f \in coord.affected \/ (f \in coord.todo /\ ~(coord.loading /\ Lowest(f)))
       /\ coord.at \in {"Transitive", "Ordering"} => f \in coord.affected
       /\ Standing("Draining") => f \in coord.todo
       /\ Standing("Awaiting") => f \in coord.todo \/ (f = coord.subject /\ Waits(f))

LEMMA LetGoForm == LetGo <=> (Withdrawing => \A f \in bound : LetGoOf(f))
BY DEF LetGo, LetGoOf, Unbound

(* The coordinator finds everyone who holds the retired entry, and calls   *)
(* them all.                                                               *)
LEMMA CoordinatorLetsGo ==
  ASSUME CoordInv, CoordinatorStep, Withdrawing', NEW f \in Fibers, LetGoOf(f)
  PROVE  LetGoOf(f)'
<1>0. /\ coord \in CoordRecord(Len(published)) /\ Listed /\ Withdrawing /\ coord'.retired = coord.retired
      /\ fiber' = fiber /\ drive' = drive /\ IInv
      /\ Len(published) \in Nat
  BY CoordinatorGoesOn DEF CoordInv, CoordTypeOK, CoordinatorStep, IInv, FiberTypeOK
<1> DEFINE Found ==
      /\ Standing("Direct") => f \in coord.affected \/ (f \in coord.todo /\ ~(coord.loading /\ Lowest(f)))
      /\ coord.at \in {"Transitive", "Ordering"} => f \in coord.affected
      /\ Standing("Draining") => f \in coord.todo
      /\ Standing("Awaiting") => f \in coord.todo \/ (f = coord.subject /\ Waits(f))
<1>1. Holds(f, coord.retired)' <=> Holds(f, coord.retired)
  BY <1>0 DEF Holds, State
<1>2. Unbound(f)'
  BY <1>0 DEF LetGoOf, Unbound
<1>3. SUFFICES coord'.fibers = coord.fibers /\ (Holds(f, coord.retired) /\ Found => Found')
  BY <1>1, <1>2 DEF LetGoOf
<1>4. Holds(f, coord.retired) => fiber[f].epoch # None /\ coord.retired \in Pins(fiber[f].epoch)
  BY <1>0, PinsFacts, TypeFacts DEF Holds, IInv
<1> USE DEF Standing
<1>5. ASSUME NEW g \in coord.todo, Identify(g)
      PROVE  coord'.fibers = coord.fibers /\ Found'
  BY <1>0, <1>5 DEF Identify, CoordRecord
<1>6. ASSUME NEW g \in coord.todo, ReadEpoch(g) \/ ReadLoading(g)
      PROVE  coord'.fibers = coord.fibers /\ (Holds(f, coord.retired) /\ Found => Found')
  <2>1. /\ Scanning /\ Lowest(g) /\ g \in Fibers
        /\ UNCHANGED <<coord.at, coord.fibers, coord.retired, coord.identities>>
        /\ coord.affected \subseteq coord'.affected
    BY <1>6, ReadFacts DEF Postponed, Passing, Retiring, Considered
  <2>2. ASSUME Holds(f, coord.retired), Found, coord.at = "Direct", f \notin coord'.affected
        PROVE  f \in coord'.todo /\ ~(coord'.loading /\ Lowest(f)')
    <3>1. f \in coord.todo /\ ~(coord.loading /\ Lowest(f)) /\ f \notin coord.affected
      BY <2>1, <2>2
    <3>2. f = g => ~coord.loading
      BY <2>1, <3>1
    <3>3. ~Passed(f)
      BY <2>2 DEF Passed
    <3>4. f # g
      <4>1. f = g => ~Postponed(g) /\ ~Passing(g) /\ ~Retiring(g)
        BY <1>4, <2>2, <3>3 DEF Postponed, Passing, Retiring
      <4>2. ASSUME f = g, NEW b, Considered(g, b) PROVE FALSE
        BY <1>4, <2>2, <3>2, <4>2 DEF Considered, Hit
      <4> QED BY <1>6, <4>1, <4>2, ReadFacts
    <3>5. ~(f <= g /\ g <= f)
      BY <2>1, <3>4, FiberAssumption
    <3>6. CASE Postponed(g)
      <4>1. ~Lowest(f)
        BY <2>1, <3>1, <3>5 DEF Lowest
      <4> QED BY <3>1, <3>6, <4>1 DEF Postponed, Lowest
    <3>7. CASE ~coord'.loading /\ coord'.todo = coord.todo \ {g}
      BY <3>1, <3>4, <3>7
    <3> QED BY <1>6, <3>6, <3>7, ReadFacts
  <2> QED BY <2>1, <2>2 DEF Scanning
<1>7. ASSUME NEW g \in coord.todo, Drain(g)
      PROVE  coord'.fibers = coord.fibers /\ (Found => Found')
  BY <1>7, DrainFacts DEF Read
<1>8. CASE Returned("Awaiting", "Draining")
  <2>1. ~Waits(coord.subject)
    BY <1>8 DEF Returned, Waits
  <2>2. coord'.fibers = coord.fibers /\ coord'.todo = coord.todo /\ coord.at = "Awaiting" /\ coord'.at = "Draining"
    BY <1>0, <1>8 DEF Returned, CoordRecord
  <2> QED BY <2>1, <2>2
<1>9. CASE EndScan
  <2>1. coord'.fibers = coord.fibers /\ coord'.affected = coord.affected /\ ~coord'.loading /\ f \in coord.fibers
    BY <1>9, EndScanFacts DEF Read, LetGoOf
  <2> QED BY <1>9, <2>1, EndScanFacts
<1>10. ASSUME \/ \E g \in coord.todo : Compare(g)
              \/ EndPass \/ Finalize \/ Returned("Driving", "Comparing")
       PROVE  FALSE
  <2>1. coord.at # "Comparing" /\ coord.at # "Driving"
    BY <1>0 DEF Withdrawing
  <2>2. CASE Finalize
    BY <2>2 DEF Finalize, Idle, Withdrawing
  <2> QED BY <1>10, <2>1, <2>2 DEF Compare, EndPass, Returned
<1> QED BY <1>5, <1>6, <1>7, <1>8, <1>9, <1>10 DEF CoordinatorStep

LEMMA LetGoKept ==
  ASSUME CoordInv, LetGo, [Next]_rvars
  PROVE  LetGo'
<1> SUFFICES ASSUME Withdrawing', NEW f \in bound' PROVE LetGoOf(f)'
  BY DEF LetGo, LetGoOf, Unbound, Withdrawing, Holds, Standing, State, Lowest, Waits
<1>0. IInv /\ watched \subseteq Fibers /\ bound \subseteq Fibers /\ CoordTypeOK'
  BY CoordTypes DEF CoordInv, CoordTypeOK
<1>1. CASE Operation
  <2>1. ASSUME NEW c \in Capabilities, WithdrawAndReconcile(c) PROVE LetGoOf(f)'
    <3>1. PICK operation : operation = [Idle EXCEPT !.at = "Identifying", !.retired = entries[c]]
      OBVIOUS
    <3>2. coord'.at = "Identifying" /\ coord'.fibers = watched
      <4>1. operation \in {Pass} \cup Withdrawals /\ Begins(operation)
        BY <2>1, <3>1 DEF WithdrawAndReconcile, Withdrawals
      <4>2. operation.at = "Identifying"
        BY <3>1 DEF Idle
      <4> QED BY <4>1, <4>2, BeginsFacts
    <3>3. f \in watched /\ State(f) = "Active"
      BY <2>1 DEF WithdrawAndReconcile, Holds
    <3>4. drive'[f].at \notin Loads \cup {"Entering"}
      <4>1. Placed(f) /\ drive' = drive
        BY <1>0, <2>1, <3>3 DEF WithdrawAndReconcile, Begins, IInv, Local
      <4> QED BY <3>3, <4>1 DEF Placed, At, State, Loads
    <3> QED BY <3>2, <3>3, <3>4 DEF LetGoOf, Unbound, Standing
  <2>2. CASE Reconcile \/ \E c \in Providers : ProvideAndReconcile(c)
    <3>1. Begins(Pass) /\ Pass.at = "Comparing"
      BY <2>2 DEF Reconcile, ProvideAndReconcile, Pass, Idle
    <3>2. coord'.at = "Comparing"
      BY <3>1, BeginsFacts
    <3> QED BY <3>2 DEF Withdrawing
  <2>3. ASSUME NEW g \in Fibers, Watch(g) PROVE LetGoOf(f)'
    <3>1. UNCHANGED <<fiber, drive, transition, coord, bound>>
      BY <2>3 DEF Watch, fvars
    <3>2. LetGoOf(f)
      BY <3>1, LetGoForm DEF Withdrawing
    <3> QED BY <3>1, <3>2 DEF LetGoOf, Unbound, Holds, State, Standing, Lowest, Waits
  <2> QED BY <1>1, <2>1, <2>2, <2>3 DEF Operation
<1>2. CASE CoordinatorStep
  <2>1. Withdrawing /\ bound' = bound
    BY <1>2, CoordinatorGoesOn DEF CoordinatorStep
  <2>2. LetGoOf(f) /\ f \in Fibers
    BY <1>0, <2>1, LetGoForm
  <2> QED BY <1>2, <2>2, CoordinatorLetsGo
<1>3. CASE ~Operation /\ ~CoordinatorStep
  <2>1. coord' = coord /\ bound' = bound
    BY <1>3 DEF Next, rvars
  <2>2. Withdrawing /\ LetGoOf(f) /\ f \in Fibers
    BY <1>0, <2>1, LetGoForm DEF Withdrawing
  <2>3. /\ Unbound(f)'
        /\ Holds(f, coord.retired)' => Holds(f, coord.retired)
        /\ Standing("Awaiting") /\ Holds(f, coord.retired)' /\ Waits(f) => Waits(f)'
    BY <1>3, <2>1, <2>2, FiberLetsGo DEF LetGoOf
  <2> QED BY <2>1, <2>2, <2>3 DEF LetGoOf, Standing, Lowest
<1> QED BY <1>1, <1>2, <1>3

-----------------------------------------------------------------------------
(* The depth of a fiber, where nothing is above itself.                    *)
LEMMA LeastExists ==
  ASSUME NEW S \in SUBSET Nat, S # {}
  PROVE  \E m \in S : \A k \in S : m <= k
<1> DEFINE R == OpToRel(<, Nat)
<1>1. IsWellFoundedOn(R, Nat)
  BY NatLessThanWellFounded
<1>2. \A x, y \in Nat : x < y => <<x, y>> \in R
  BY DEF OpToRel
<1> HIDE DEF R
<1>3. PICK m \in S : \A y \in S : ~(<<y, m>> \in R)
  BY <1>1, WFMin
<1>4. \A k \in S : ~(k < m) /\ k \in Nat /\ m \in Nat
  BY <1>2, <1>3
<1> QED BY <1>4

LEMMA GreatestFacts ==
  ASSUME NEW k \in Nat, NEW S \in SUBSET (0..k), S # {}
  PROVE  Greatest(S) \in S /\ \A n \in S : n <= Greatest(S)
<1> DEFINE Uppers == { b \in Nat : \A n \in S : n <= b }
<1>1. k \in Uppers /\ Uppers \in SUBSET Nat
  OBVIOUS
<1>2. PICK m \in Uppers : \A b \in Uppers : m <= b
  BY <1>1, LeastExists
<1>3. m \in S
  <2> SUFFICES ASSUME m \notin S PROVE FALSE
    OBVIOUS
  <2>1. m \in Nat /\ \A n \in S : n \in Nat /\ n < m
    BY <1>2
  <2>2. m # 0
    <3>1. PICK n \in S : TRUE
      OBVIOUS
    <3> QED BY <2>1, <3>1
  <2>3. m - 1 \in Nat
    BY <2>1, <2>2
  <2>4. \A n \in S : n <= m - 1
    BY <2>1
  <2>5. m - 1 \in Uppers /\ ~(m <= m - 1)
    BY <2>1, <2>3, <2>4
  <2> QED BY <1>2, <2>5
<1>4. \E x \in S : \A n \in S : n <= x
  BY <1>2, <1>3
<1> QED BY <1>4 DEF Greatest

Below(above, depth, visiting, g) == { depth[visiting \cup {g}][p] : p \in above[g] }
DepthAt(above, depth, visiting, g) ==
  IF g \in visiting \/ above[g] = {} THEN 0 ELSE 1 + Greatest(Below(above, depth, visiting, g))
Deepens(above, depth) ==
  depth = [visiting \in SUBSET Fibers |-> [g \in Fibers |-> DepthAt(above, depth, visiting, g)]]

(* The ways up end, as every one of their fibers has a lower rank.         *)
Ranked(above, rank, n) ==
  /\ above \in [Fibers -> SUBSET Fibers] /\ n \in Nat /\ rank \in [Fibers -> 0..n]
  /\ \A g \in Fibers : \A p \in above[g] : rank[p] < rank[g]

(* Depth right up to the rank k.                                           *)
DeepTo(above, rank, k, depth) ==
  /\ depth \in [SUBSET Fibers -> [Fibers -> Nat]]
  /\ \A visiting \in SUBSET Fibers, g \in Fibers : rank[g] <= k =>
       depth[visiting][g] = DepthAt(above, depth, visiting, g) /\ depth[visiting][g] <= k

LEMMA DeepBase ==
  ASSUME NEW above, NEW rank, NEW n, Ranked(above, rank, n)
  PROVE  \E depth : DeepTo(above, rank, 0, depth)
<1> DEFINE D == [visiting \in SUBSET Fibers |-> [g \in Fibers |-> 0]]
<1>1. \A g \in Fibers : rank[g] <= 0 => above[g] = {}
  BY DEF Ranked
<1>2. DeepTo(above, rank, 0, D)
  BY <1>1 DEF DeepTo, DepthAt
<1> QED BY <1>2

LEMMA DeepStep ==
  ASSUME NEW above, NEW rank, NEW n, Ranked(above, rank, n), NEW k \in Nat,
         NEW depth, DeepTo(above, rank, k, depth)
  PROVE  \E next : DeepTo(above, rank, k + 1, next)
<1> DEFINE Next1(visiting, g) == IF rank[g] <= k THEN depth[visiting][g]
                                ELSE IF rank[g] = k + 1 THEN DepthAt(above, depth, visiting, g) ELSE 0
           D == [visiting \in SUBSET Fibers |-> [g \in Fibers |-> Next1(visiting, g)]]
<1>0. \A g \in Fibers : rank[g] \in Nat /\ above[g] \in SUBSET Fibers
  BY DEF Ranked
<1>1. ASSUME NEW visiting \in SUBSET Fibers, NEW g \in Fibers, rank[g] <= k + 1
      PROVE  /\ DepthAt(above, D, visiting, g) = DepthAt(above, depth, visiting, g)
             /\ DepthAt(above, depth, visiting, g) \in 0..(k + 1)
  <2>1. ASSUME NEW p \in above[g]
        PROVE  /\ D[visiting \cup {g}][p] = depth[visiting \cup {g}][p]
               /\ depth[visiting \cup {g}][p] \in 0..k
    <3>1. p \in Fibers /\ rank[p] <= k /\ visiting \cup {g} \in SUBSET Fibers
      BY <1>0, <1>1 DEF Ranked
    <3> QED BY <3>1 DEF DeepTo
  <2> HIDE DEF D
  <2>2. Below(above, D, visiting, g) = Below(above, depth, visiting, g)
    BY <2>1 DEF Below
  <2>3. Below(above, depth, visiting, g) \in SUBSET (0..k)
    BY <2>1 DEF Below
  <2>4. above[g] # {} => Below(above, depth, visiting, g) # {}
    BY DEF Below
  <2>5. above[g] # {} => Greatest(Below(above, depth, visiting, g)) \in 0..k
    BY <2>3, <2>4, GreatestFacts
  <2> QED BY <2>2, <2>5 DEF DepthAt
<1>2. ASSUME NEW visiting \in SUBSET Fibers, NEW g \in Fibers
      PROVE  /\ D[visiting][g] \in Nat
             /\ rank[g] <= k + 1 =>
                  D[visiting][g] = DepthAt(above, D, visiting, g) /\ D[visiting][g] <= k + 1
  <2>1. D[visiting][g] = Next1(visiting, g)
    OBVIOUS
  <2>2. depth[visiting][g] \in Nat
        /\ (rank[g] <= k => depth[visiting][g] = DepthAt(above, depth, visiting, g) /\ depth[visiting][g] <= k)
    BY DEF DeepTo
  <2>3. CASE rank[g] <= k
    <3>1. D[visiting][g] = depth[visiting][g] /\ rank[g] <= k + 1
      BY <1>0, <2>1, <2>3
    <3> HIDE DEF D
    <3> QED BY <1>1, <2>2, <2>3, <3>1
  <2>4. CASE rank[g] = k + 1
    <3>1. D[visiting][g] = DepthAt(above, depth, visiting, g) /\ rank[g] <= k + 1
      BY <1>0, <2>1, <2>4
    <3> HIDE DEF D
    <3> QED BY <1>1, <2>4, <3>1
  <2>5. CASE ~(rank[g] <= k + 1)
    <3>1. ~(rank[g] <= k) /\ rank[g] # k + 1
      BY <1>0, <2>5
    <3>2. D[visiting][g] = 0
      BY <2>1, <3>1
    <3> QED BY <2>5, <3>2
  <2> QED BY <1>0, <2>3, <2>4, <2>5
<1>3. D = [visiting \in SUBSET Fibers |-> D[visiting]] /\ \A visiting \in SUBSET Fibers :
        D[visiting] = [g \in Fibers |-> D[visiting][g]]
  OBVIOUS
<1> HIDE DEF D
<1>4. D \in [SUBSET Fibers -> [Fibers -> Nat]]
  BY <1>2, <1>3
<1> QED BY <1>2, <1>4 DEF DeepTo

LEMMA DepthExists ==
  ASSUME NEW above, NEW rank, NEW n, Ranked(above, rank, n)
  PROVE  Deepens(above, Depths(above))
<1> DEFINE S == { k \in Nat : ~\E depth : DeepTo(above, rank, k, depth) }
<1>1. S = {}
  <2> SUFFICES ASSUME S # {} PROVE FALSE
    OBVIOUS
  <2>1. PICK m \in S : \A k \in S : m <= k
    BY LeastExists
  <2>2. m # 0
    BY <2>1, DeepBase
  <2>3. m - 1 \in Nat /\ m - 1 \notin S
    BY <2>1, <2>2
  <2>4. PICK depth : DeepTo(above, rank, m - 1, depth)
    BY <2>3
  <2>5. \E next : DeepTo(above, rank, (m - 1) + 1, next)
    BY <2>3, <2>4, DeepStep
  <2> QED BY <2>1, <2>5
<1>2. PICK depth : DeepTo(above, rank, n, depth)
  BY <1>1 DEF Ranked
<1>3. Deepens(above, depth)
  <2>1. \A visiting \in SUBSET Fibers, g \in Fibers : depth[visiting][g] = DepthAt(above, depth, visiting, g)
    BY <1>2 DEF Ranked, DeepTo
  <2>2. \A visiting \in SUBSET Fibers :
          depth[visiting] = [g \in Fibers |-> DepthAt(above, depth, visiting, g)]
    BY <1>2, <2>1 DEF DeepTo
  <2> QED BY <1>2, <2>2 DEF Deepens, DeepTo
<1>4. Depths(above) = CHOOSE d : Deepens(above, d)
  BY DEF Depths, Deepens, DepthAt, Below
<1> QED BY <1>3, <1>4

(* Which fibers a way has passed makes no difference to a fiber below all  *)
(* of them.                                                                *)
LEMMA DepthApart ==
  ASSUME NEW above, NEW rank, NEW n, Ranked(above, rank, n), NEW depth, Deepens(above, depth)
  PROVE  \A g \in Fibers : \A visiting \in SUBSET Fibers :
           (\A x \in visiting : rank[g] < rank[x]) =>
             depth[visiting][g] = depth[{}][g] /\ depth[{}][g] \in 0..rank[g]
<1> DEFINE Right(g) == \A visiting \in SUBSET Fibers :
                         (\A x \in visiting : rank[g] < rank[x]) =>
                           depth[visiting][g] = depth[{}][g] /\ depth[{}][g] \in 0..rank[g]
           S == { k \in Nat : \E g \in Fibers : rank[g] = k /\ ~Right(g) }
<1>0. \A g \in Fibers : rank[g] \in Nat /\ above[g] \in SUBSET Fibers
  BY DEF Ranked
<1>1. S = {}
  <2> SUFFICES ASSUME S # {} PROVE FALSE
    OBVIOUS
  <2>1. PICK m \in S : \A k \in S : m <= k
    BY LeastExists
  <2>2. PICK g \in Fibers : rank[g] = m /\ ~Right(g)
    BY <2>1
  <2>3. \A p \in above[g] : p \in Fibers /\ rank[p] < rank[g] /\ Right(p)
    <3> SUFFICES ASSUME NEW p \in above[g] PROVE p \in Fibers /\ rank[p] < rank[g] /\ Right(p)
      OBVIOUS
    <3>1. p \in Fibers /\ rank[p] < rank[g] /\ rank[p] \in Nat /\ m \in Nat
      BY <1>0, <2>1 DEF Ranked
    <3>2. rank[p] \notin S
      BY <2>1, <2>2, <3>1
    <3> HIDE DEF Right
    <3> QED BY <3>1, <3>2
  <2>4. ASSUME NEW visiting \in SUBSET Fibers, \A x \in visiting : rank[g] < rank[x]
        PROVE  depth[visiting][g] = depth[{}][g] /\ depth[{}][g] \in 0..rank[g]
    <3>0. rank[g] \in Nat /\ g \notin visiting
      BY <1>0, <2>4
    <3>1. ASSUME NEW v \in {visiting, {}}, NEW p \in above[g]
          PROVE  depth[v \cup {g}][p] = depth[{}][p] /\ depth[{}][p] \in 0..(rank[g] - 1)
      <4>1. p \in Fibers /\ rank[p] < rank[g] /\ rank[p] \in Nat /\ v \cup {g} \in SUBSET Fibers
        BY <1>0, <2>3, <3>1
      <4>2. \A x \in v \cup {g} : rank[p] < rank[x]
        BY <1>0, <2>4, <3>0, <4>1
      <4>3. depth[v \cup {g}][p] = depth[{}][p] /\ depth[{}][p] \in 0..rank[p]
        BY <2>3, <4>1, <4>2
      <4> QED BY <3>0, <4>1, <4>3
    <3>2. Below(above, depth, visiting, g) = Below(above, depth, {}, g)
      BY <3>1 DEF Below
    <3>3. /\ depth[visiting][g] = DepthAt(above, depth, visiting, g)
          /\ depth[{}][g] = DepthAt(above, depth, {}, g)
      BY DEF Deepens
    <3>4. DepthAt(above, depth, {}, g) \in 0..rank[g]
      <4>1. CASE above[g] = {}
        BY <3>0, <4>1 DEF DepthAt
      <4>2. CASE above[g] # {}
        <5>1. PICK p \in above[g] : TRUE
          BY <4>2
        <5>2. rank[g] - 1 \in Nat
          BY <1>0, <2>3, <3>0, <5>1
        <5>3. Below(above, depth, {}, g) \in SUBSET (0..(rank[g] - 1))
          BY <3>1 DEF Below
        <5>4. Below(above, depth, {}, g) # {}
          BY <4>2 DEF Below
        <5>5. Greatest(Below(above, depth, {}, g)) \in 0..(rank[g] - 1)
          BY <5>2, <5>3, <5>4, GreatestFacts
        <5> QED BY <3>0, <4>2, <5>5 DEF DepthAt
      <4> QED BY <4>1, <4>2
    <3> QED BY <3>0, <3>2, <3>3, <3>4 DEF DepthAt
  <2> QED BY <2>2, <2>4
<1>2. ASSUME NEW g \in Fibers PROVE Right(g)
  <2> HIDE DEF Right
  <2> QED BY <1>0, <1>1
<1> QED BY <1>2

(* A fiber is deeper than everyone above it.                               *)
LEMMA DepthGrows ==
  ASSUME NEW above, NEW rank, NEW n, Ranked(above, rank, n), NEW g \in Fibers, NEW p \in above[g]
  PROVE  /\ Depths(above)[{}][g] \in Nat /\ Depths(above)[{}][p] \in Nat
         /\ Depths(above)[{}][p] < Depths(above)[{}][g]
<1> DEFINE depth == Depths(above)
<1>1. Deepens(above, depth)
  BY DepthExists
<1> HIDE DEF depth
<1>2. /\ p \in Fibers /\ rank[p] < rank[g] /\ rank[p] \in Nat /\ rank[g] \in Nat /\ rank[g] - 1 \in Nat
      /\ above[g] \in SUBSET Fibers
  BY DEF Ranked
<1>3. \A q \in Fibers : depth[{}][q] \in 0..rank[q]
  BY <1>1, DepthApart
<1>4. ASSUME NEW q \in above[g] PROVE depth[{} \cup {g}][q] = depth[{}][q] /\ depth[{}][q] \in 0..(rank[g] - 1)
  <2>1. q \in Fibers /\ rank[q] < rank[g] /\ rank[q] \in Nat
    BY <1>2 DEF Ranked
  <2>2. depth[{} \cup {g}][q] = depth[{}][q] /\ depth[{}][q] \in 0..rank[q]
    BY <1>1, <2>1, DepthApart
  <2> QED BY <1>2, <2>1, <2>2
<1>5. Below(above, depth, {}, g) \in SUBSET (0..(rank[g] - 1)) /\ depth[{}][p] \in Below(above, depth, {}, g)
  BY <1>4 DEF Below
<1>6. depth[{}][p] <= Greatest(Below(above, depth, {}, g)) /\ Greatest(Below(above, depth, {}, g)) \in 0..(rank[g] - 1)
  BY <1>2, <1>5, GreatestFacts
<1>7. depth[{}][g] = 1 + Greatest(Below(above, depth, {}, g))
  BY <1>1 DEF Deepens, DepthAt
<1> QED BY <1>2, <1>3, <1>6, <1>7 DEF depth

-----------------------------------------------------------------------------
(* A quiet withdrawal: what it has read stays what there is.               *)
QuietRead == Identified /\ Unread /\ Closed /\ Ordered /\ Deepening

LEMMA ReadKept ==
  ASSUME UNCHANGED Read, NEW f, NEW g
  PROVE  /\ DeeperFirst(f, g)' <=> DeeperFirst(f, g)
         /\ \A b : ProvidersOf(b)' = ProvidersOf(b)
<1>1. \A b : ProvidersOf(b)' = ProvidersOf(b)
  BY DEF Read, ProvidersOf, Pins
<1>2. [x \in Fibers |-> Above(x)]' = [x \in Fibers |-> Above(x)]
  BY DEF Read, Above, ProvidersOf, Pins
<1>3. Depth(f)' = Depth(f) /\ Depth(g)' = Depth(g)
  BY <1>2 DEF Depth
<1> QED BY <1>1, <1>3 DEF DeeperFirst

(* Nothing moves, or the fiber awaited is deactivated.                     *)
LEMMA QuietFibers ==
  ASSUME CoordInv, QuietRead, [Next]_rvars, quiet, quiet', Withdrawing, coord' = coord, ~CoordinatorStep
  PROVE  QuietRead'
<1>0. IInv /\ FiberTypeOK /\ Listed /\ CoordCalls /\ coord \in CoordRecord(Len(published))
  BY DEF CoordInv, IInv, CoordTypeOK
<1>1. ASSUME NEW g \in Fibers
      PROVE  /\ fiber'[g].handle \in {fiber[g].handle, NoEntry}
             /\ fiber'[g].epoch \in {fiber[g].epoch, None}
             /\ State(g)' = "Active" => State(g) = "Active" /\ fiber'[g].epoch = fiber[g].epoch
             /\ State(g)' = "Active" => transition'[g] = transition[g]
             /\ ~Standing("Awaiting") => fiber'[g].epoch = fiber[g].epoch
  <2>1. CASE Still /\ transition' = transition
    BY <2>1 DEF Still, State
  <2>2. CASE FiberStep(coord.subject) /\ Calling /\ coord.subject \in Fibers
    <3>0. Standing("Awaiting")
      BY <2>2 DEF Calling, Withdrawing, Standing
    <3>1. CASE g # coord.subject
      BY <1>0, <2>2, <3>0, <3>1, OthersMove DEF State
    <3>2. CASE g = coord.subject
      <4>1. Turns(g)
        BY <1>0, <2>2, <3>2, FiberStepTurns
      <4>2. 1 \in 1..Len(transition[g])
        BY <1>0, <4>1, TypeFacts DEF Turns
      <4>3. Call(g).kind = "deactivate"
        BY <1>0, <3>0, <4>1, <4>2 DEF CoordCalls, Call
      <4>4. drive[g].at \notin Loads
        BY <1>0, <4>3 DEF IInv, Local, Placed
      <4> QED BY <3>0, <4>1, <4>3, <4>4 DEF Turns, At, Loads
    <3> QED BY <3>1, <3>2
  <2> QED BY <2>1, <2>2, QuietStep DEF Withdrawing, Standing
<1>2. Standing("Awaiting") => ~coord.loading
  BY <1>0 DEF Listed, Scanning, Standing
<1>3. coord.fibers \subseteq Fibers /\ coord.affected \subseteq Fibers /\ coord.todo \subseteq Fibers
  BY <1>0 DEF CoordRecord
<1>4. Pins(None) = {}
  BY DEF Pins, None
<1>5. \A b : ProvidersOf(b)' = ProvidersOf(b)
  BY DEF ProvidersOf, Pins
<1>6. ProvidersOf(None) = {}
  BY <1>4 DEF ProvidersOf
<1>7. Identified'
  BY <1>1, <1>3 DEF QuietRead, Identified, Standing
<1>8. Unread'
  BY <1>1, <1>2, <1>3 DEF QuietRead, Unread, Closing, Lowest
<1>9. Closed'
  <2> SUFFICES ASSUME Closing \/ (Standing("Transitive") /\ ~coord.again), NEW g \in coord.fibers \ coord.affected,
                      ~(Standing("Transitive") /\ g \in coord.todo)
               PROVE  ProvidersOf(fiber'[g].epoch) \cap coord.affected = {}
    BY <1>5 DEF Closed, Closing, Standing
  <2>1. ProvidersOf(fiber[g].epoch) \cap coord.affected = {}
    BY DEF QuietRead, Closed
  <2> QED BY <1>1, <1>3, <1>6, <2>1
<1>10. Ordered'
  <2> SUFFICES ASSUME Closing, NEW g \in coord.affected, State(g)' = "Active"
               PROVE  /\ coord.bindings[g] = fiber'[g].epoch \/ (Standing("Ordering") /\ g \in coord.todo)
                      /\ Standing("Draining") => g \in coord.todo
                      /\ Standing("Awaiting") => g \in coord.todo \/ (g = coord.subject /\ transition'[g] # <<>>)
    BY DEF Ordered, Closing, Standing
  <2>1. State(g) = "Active" /\ fiber'[g].epoch = fiber[g].epoch /\ transition'[g] = transition[g]
    BY <1>1, <1>3
  <2> QED BY <2>1 DEF QuietRead, Ordered
<1>11. Deepening'
  BY ReadKept DEF QuietRead, Deepening, Read, Standing
<1> QED BY <1>7, <1>8, <1>9, <1>10, <1>11 DEF QuietRead

(* In a quiet scan every fiber is at rest.                                 *)
LEMMA QuietScan ==
  ASSUME CoordInv, quiet, ~Calling, NEW g \in Fibers
  PROVE  /\ fiber[g].loading = None
         /\ fiber[g].epoch # None =>
              State(g) = "Active" /\ fiber[g].handle # NoEntry
              /\ \A e \in Pins(fiber[g].epoch) : e < fiber[g].handle
<1>1. fiber[g].loading = None /\ (fiber[g].epoch # None => State(g) = "Active")
  BY CoordAbsent, AtRest
<1>2. ASSUME State(g) = "Active"
      PROVE  fiber[g].handle # NoEntry /\ \A e \in Pins(fiber[g].epoch) : e < fiber[g].handle
  <2>1. Mine(fiber[g].handle, g, fiber[g].epoch)
    BY <1>2 DEF CoordInv, IInv, Local, Bound
  <2> QED BY <2>1 DEF Mine, CoordInv, PinsOlder, EntryIds, NoEntry
<1> QED BY <1>1, <1>2

LEMMA QuietReading ==
  ASSUME CoordInv, QuietRead, CoordinatorStep, quiet, NEW g \in coord.todo, ReadEpoch(g) \/ ReadLoading(g)
  PROVE  QuietRead'
<1>0. /\ coord \in CoordRecord(Len(published)) /\ Listed /\ fiber' = fiber /\ transition' = transition
      /\ Identified /\ Unread /\ Closed /\ Ordered
  BY DEF CoordInv, CoordTypeOK, CoordinatorStep, QuietRead, ReadEpoch, ReadLoading, Skip, Consider
<1>1. /\ Scanning /\ Lowest(g) /\ g \in Fibers /\ g \in coord.fibers
      /\ coord'.at = coord.at /\ coord'.fibers = coord.fibers /\ coord'.retired = coord.retired
      /\ coord'.identities = coord.identities
      /\ coord'.todo \subseteq coord.todo /\ coord.todo \ {g} \subseteq coord'.todo
  BY <1>0, ReadFacts DEF Postponed, Listed
<1>2. /\ \A b : ProvidersOf(b)' = ProvidersOf(b)
      /\ coord.fibers \subseteq Fibers /\ coord.affected \subseteq Fibers /\ ~Calling
      /\ coord.bindings \in [Fibers -> Bindings(Len(published))]
  BY <1>0, <1>1 DEF ProvidersOf, Pins, CoordRecord, Scanning, Calling
<1>3. Pins(None) = {} /\ ProvidersOf(None) = {}
  BY DEF Pins, None, ProvidersOf
<1>4. fiber[g].loading = None /\ (coord.loading => fiber[g].epoch = None)
  BY <1>0, <1>1, <1>2, QuietScan DEF Unread
<1>5. ASSUME NEW b, Considered(g, b)
      PROVE  /\ b = fiber[g].epoch
             /\ coord'.bindings = [coord.bindings EXCEPT ![g] = IF Standing("Ordering") THEN b ELSE @]
             /\ coord'.affected = IF Hit(b) THEN coord.affected \cup {g} ELSE coord.affected
             /\ coord'.again = (coord.again \/ (Standing("Transitive") /\ Hit(b)))
  BY <1>4, <1>5 DEF Considered
<1>6. \/ UNCHANGED <<coord.bindings, coord.again>> /\ coord'.affected \in {coord.affected, coord.affected \cup {g}}
      \/ \E b : Considered(g, b)
  BY ReadFacts DEF Postponed, Passing, Retiring
<1>7. Identified'
  BY <1>0, <1>1 DEF Identified, Standing, Scanning
<1>8. Unread'
  <2>1. coord'.loading => \A f \in coord'.todo : Lowest(f)' => fiber[f].epoch = None
    <3> SUFFICES ASSUME coord'.loading, NEW f \in coord'.todo, Lowest(f)' PROVE fiber[f].epoch = None
      OBVIOUS
    <3>1. Postponed(g)
      BY ReadFacts
    <3>2. f <= g /\ g <= f /\ f \in Nat /\ g \in Nat
      BY <1>0, <1>1, <3>1, FiberAssumption DEF Lowest, Postponed, CoordRecord
    <3> QED BY <3>1, <3>2 DEF Postponed
  <2>2. ASSUME NEW h \in Fibers
        PROVE  /\ ~Closing => coord'.bindings[h] = None
               /\ Closing => \A e \in Pins(coord'.bindings[h]) : e < coord.identities[h]
    <3>1. CASE coord'.bindings[h] = coord.bindings[h]
      BY <1>0, <3>1 DEF Unread
    <3>2. CASE coord'.bindings[h] # coord.bindings[h]
      <4>1. h = g /\ Standing("Ordering") /\ coord'.bindings[h] = fiber[g].epoch
        BY <1>2, <1>5, <1>6, <3>2
      <4>2. CASE fiber[g].epoch = None
        BY <1>3, <4>1, <4>2 DEF Closing, Standing
      <4>3. CASE fiber[g].epoch # None
        <5>1. coord.identities[g] = fiber[g].handle
          BY <1>0, <1>1, <1>2, <4>1, <4>3, QuietScan DEF Identified, Standing
        <5> QED BY <1>1, <1>2, <4>1, <4>3, <5>1, QuietScan DEF Closing, Standing
      <4> QED BY <4>2, <4>3
    <3> QED BY <3>1, <3>2
  <2> QED BY <1>0, <1>1, <2>1, <2>2 DEF Unread, Closing
<1>9. Closed'
  <2> SUFFICES ASSUME Standing("Ordering") \/ (Standing("Transitive") /\ ~coord'.again),
                      NEW h \in coord.fibers \ coord'.affected,
                      ~(Standing("Transitive") /\ h \in coord'.todo)
               PROVE  ProvidersOf(fiber[h].epoch) \cap coord'.affected = {}
    BY <1>0, <1>1, <1>2 DEF Closed, Closing, Standing, Scanning
  <2>1. ~Retiring(g)
    BY DEF Retiring, Standing
  <2>2. /\ coord'.affected = coord.affected /\ (Standing("Transitive") => ~coord.again)
        /\ \A b : Considered(g, b) => Standing("Ordering") \/ ~Hit(b)
    <3>1. CASE \E b : Considered(g, b)
      BY <1>5, <3>1 DEF Hit, Standing
    <3>2. CASE ~\E b : Considered(g, b)
      <4>1. Postponed(g) \/ Passing(g)
        BY <2>1, <3>2, ReadFacts
      <4> QED BY <3>2, <4>1 DEF Postponed, Passing, Standing
    <3> QED BY <3>1, <3>2
  <2>3. CASE ~(Standing("Transitive") /\ h \in coord.todo)
    BY <1>0, <2>2, <2>3 DEF Closed, Closing, Standing
  <2>4. CASE Standing("Transitive") /\ h \in coord.todo
    <3>1. h = g /\ ~Postponed(g) /\ ~Passing(g)
      BY <1>1, <2>2, <2>4 DEF Postponed, Passing, Passed, Standing
    <3>2. PICK b : Considered(g, b)
      BY <2>1, <3>1, ReadFacts
    <3>3. b = fiber[g].epoch /\ ~Hit(b)
      BY <1>5, <2>2, <2>4, <3>2 DEF Standing
    <3> QED BY <2>2, <2>4, <3>1, <3>3 DEF Hit
  <2> QED BY <2>3, <2>4
<1>10. Ordered'
  <2> SUFFICES ASSUME Standing("Ordering"), NEW h \in coord'.affected, State(h) = "Active"
               PROVE  coord'.bindings[h] = fiber[h].epoch \/ h \in coord'.todo
    BY <1>0, <1>1 DEF Ordered, Closing, Standing, Scanning, State
  <2>1. ~Retiring(g)
    BY DEF Retiring, Standing
  <2>2. coord'.affected = coord.affected
    <3>1. CASE \E b : Considered(g, b)
      BY <1>5, <3>1 DEF Hit, Standing
    <3> QED BY <2>1, <3>1, ReadFacts DEF Postponed, Passing
  <2>3. CASE h \in coord.todo
    <3>1. CASE h # g
      BY <1>1, <2>3, <3>1
    <3>2. CASE h = g
      <4>1. ~Passing(g)
        BY <2>2, <3>2 DEF Passing, Passed, Standing
      <4>2. Postponed(g) => h \in coord'.todo
        BY <2>3 DEF Postponed
      <4>3. ASSUME NEW b, Considered(g, b) PROVE coord'.bindings[h] = fiber[h].epoch
        BY <1>1, <1>2, <1>5, <3>2, <4>3
      <4> QED BY <2>1, <4>1, <4>2, <4>3, ReadFacts
    <3> QED BY <3>1, <3>2
  <2>4. CASE h \notin coord.todo
    <3>1. coord.bindings[h] = fiber[h].epoch
      BY <1>0, <2>2, <2>4 DEF Ordered, Closing, Standing
    <3>2. coord'.bindings[h] = coord.bindings[h]
      BY <1>2, <1>5, <1>6, <2>4
    <3> QED BY <3>1, <3>2
  <2> QED BY <2>3, <2>4
<1>11. Deepening'
  BY <1>1 DEF Deepening, Standing, Scanning
<1> QED BY <1>7, <1>8, <1>9, <1>10, <1>11 DEF QuietRead

LEMMA QuietTurns ==
  ASSUME CoordInv, QuietRead, CoordinatorStep, quiet, Withdrawing'
  PROVE  QuietRead'
<1>0. /\ coord \in CoordRecord(Len(published)) /\ Listed /\ fiber' = fiber /\ Withdrawing
      /\ Identified /\ Unread /\ Closed /\ Ordered /\ Deepening
  BY CoordinatorGoesOn DEF CoordInv, CoordTypeOK, CoordinatorStep, QuietRead
<1>1. coord.affected \subseteq coord.fibers /\ coord.fibers \subseteq Fibers
  BY <1>0 DEF Listed, CoordRecord
<1>2. Pins(None) = {}
  BY DEF Pins, None
<1>3. ASSUME NEW g \in coord.todo, Identify(g) PROVE QuietRead'
  <2>1. /\ coord.at = "Identifying" /\ coord'.at = "Identifying" /\ g \in Fibers /\ ~coord.loading /\ ~coord'.loading
        /\ coord'.identities = [coord.identities EXCEPT ![g] = fiber[g].handle]
        /\ coord'.todo = coord.todo \ {g} /\ coord'.fibers = coord.fibers /\ coord'.bindings = coord.bindings
    BY <1>0, <1>3 DEF Identify, Listed, Scanning, Standing, CoordRecord
  <2>2. \A p \in Fibers : coord'.identities[p] = IF p = g THEN fiber[g].handle ELSE coord.identities[p]
    BY <1>0, <2>1 DEF CoordRecord
  <2>3. Identified'
    BY <1>0, <1>1, <2>1, <2>2 DEF Identified, Standing
  <2> QED BY <1>0, <2>1, <2>3 DEF QuietRead, Unread, Closed, Ordered, Deepening, Closing, Standing
<1>4. CASE EndScan
  <2>1. /\ coord.todo = {} /\ ~coord.loading /\ ~coord'.loading /\ UNCHANGED Read
        /\ coord'.fibers = coord.fibers /\ coord'.affected = coord.affected /\ coord'.bindings = coord.bindings
        /\ coord'.identities = coord.identities /\ \A b : ProvidersOf(b)' = ProvidersOf(b)
    BY <1>4, EndScanFacts, ReadKept DEF Read
  <2>2. Identified'
    BY <1>0, <2>1 DEF Identified, Standing
  <2>3. Unread'
    <3>1. Closing' /\ ~Closing => \A g \in Fibers : Pins(coord'.bindings[g]) = {}
      BY <1>0, <1>2, <2>1 DEF Unread
    <3>2. ~Closing' => ~Closing
      BY <1>4, EndScanFacts DEF Closing, Standing
    <3> QED BY <1>0, <2>1, <3>1, <3>2 DEF Unread
  <2>4. Closed'
    BY <1>0, <1>4, <2>1, EndScanFacts DEF Closed, Closing, Standing
  <2>5. Ordered'
    BY <1>0, <1>1, <1>4, <2>1, EndScanFacts DEF Ordered, Closing, Standing, State
  <2>6. Deepening'
    BY <1>4, EndScanFacts DEF Deepening, Standing
  <2> QED BY <2>2, <2>3, <2>4, <2>5, <2>6 DEF QuietRead
<1>5. ASSUME NEW g \in coord.todo, Drain(g) PROVE QuietRead'
  <2>1. /\ coord.at = "Draining" /\ coord'.at = "Awaiting" /\ Deepest(g) /\ UNCHANGED Read
        /\ coord'.fibers = coord.fibers /\ coord'.affected = coord.affected /\ coord'.bindings = coord.bindings
        /\ coord'.identities = coord.identities /\ \A b : ProvidersOf(b)' = ProvidersOf(b)
        /\ coord'.todo = coord.todo \ {g} /\ coord'.subject = g /\ transition'[g] # <<>>
        /\ coord'.loading = coord.loading /\ ~coord.loading
    BY <1>0, <1>5, DrainFacts, ReadKept DEF Read, Standing, Listed, Scanning
  <2>2. Identified' /\ Unread' /\ Closed' /\ Ordered'
    BY <1>0, <2>1 DEF Identified, Unread, Closed, Ordered, Closing, Standing, State
  <2>3. Deepening'
    BY <2>1, ReadKept DEF Deepening, Deepest
  <2> QED BY <2>2, <2>3 DEF QuietRead
<1>6. CASE Returned("Awaiting", "Draining")
  <2>1. /\ coord.at = "Awaiting" /\ coord'.at = "Draining" /\ UNCHANGED Read
        /\ coord'.fibers = coord.fibers /\ coord'.affected = coord.affected /\ coord'.bindings = coord.bindings
        /\ coord'.identities = coord.identities /\ coord'.todo = coord.todo
        /\ coord'.loading = coord.loading /\ ~coord.loading /\ ~Waits(coord.subject)
        /\ coord.subject \in Fibers /\ transition' = transition
    BY <1>0, <1>1, <1>6 DEF Returned, Read, Listed, Scanning, Calling, Standing, Waits, CoordRecord
  <2>2. transition[coord.subject] = <<>>
    <3>1. \A i \in 1..Len(transition[coord.subject]) : FALSE
      BY <2>1 DEF CoordInv, CoordCalls, Waits
    <3> QED BY <2>1, <3>1, TypeFacts DEF CoordInv, IInv
  <2>3. \A b : ProvidersOf(b)' = ProvidersOf(b)
    BY <2>1, ReadKept
  <2> QED BY <1>0, <2>1, <2>2, <2>3 DEF QuietRead, Identified, Unread, Closed, Ordered, Deepening, Closing, Standing, State
<1>7. ASSUME \/ \E g \in coord.todo : Compare(g)
             \/ EndPass \/ Finalize \/ Returned("Driving", "Comparing")
      PROVE  FALSE
  <2>1. coord.at # "Comparing" /\ coord.at # "Driving"
    BY <1>0 DEF Withdrawing
  <2>2. CASE Finalize
    BY <2>2 DEF Finalize, Idle, Withdrawing
  <2> QED BY <1>7, <2>1, <2>2 DEF Compare, EndPass, Returned, Standing
<1> QED BY <1>3, <1>4, <1>5, <1>6, <1>7, QuietReading DEF CoordinatorStep

LEMMA QuiescedKept ==
  ASSUME CoordInv, Quiesced, [Next]_rvars
  PROVE  Quiesced'
<1> SUFFICES ASSUME quiet', Withdrawing' PROVE QuietRead'
  BY DEF Quiesced, QuietRead
<1>1. ASSUME NEW operation \in {Pass} \cup Withdrawals, Begins(operation)
      PROVE  QuietRead'
  <2>1. /\ coord'.at \in {"Comparing", "Identifying"} /\ coord'.fibers = watched /\ coord'.todo = watched
        /\ ~coord'.loading /\ coord'.bindings = [f \in Fibers |-> None]
    BY <1>1, BeginsFacts
  <2>2. coord'.at = "Identifying"
    BY <2>1 DEF Withdrawing
  <2> QED BY <2>1, <2>2 DEF QuietRead, Identified, Unread, Closed, Ordered, Deepening, Closing, Standing
<1>2. CASE CoordinatorStep
  <2>1. quiet /\ Withdrawing
    BY <1>2, CoordinatorGoesOn DEF CoordinatorStep
  <2> QED BY <1>2, <2>1, QuietTurns DEF Quiesced, QuietRead
<1>3. CASE ~CoordinatorStep /\ coord' = coord /\ quiet
  BY <1>3, QuietFibers DEF Quiesced, QuietRead, Withdrawing
<1> QED BY <1>1, <1>2, <1>3, Phases

-----------------------------------------------------------------------------
(* Who provides is older than who uses, so the ways up end.                *)
LEMMA AboveIsRanked ==
  ASSUME CoordInv, Unread, Closing
  PROVE  Ranked([g \in Fibers |-> Above(g)], coord.identities, Len(published))
<1>1. /\ coord \in CoordRecord(Len(published)) /\ Len(published) \in Nat
  BY DEF CoordInv, CoordTypeOK, IInv, FiberTypeOK
<1>2. \A g \in Fibers : Above(g) \in SUBSET Fibers /\ \A p \in Above(g) : coord.identities[p] < coord.identities[g]
  BY <1>1 DEF Above, ProvidersOf, Unread, CoordRecord
<1> QED BY <1>1, <1>2 DEF Ranked, CoordRecord

(* Who provides what an active fiber is bound to is not deactivated.       *)
LEMMA ProvidersWait ==
  ASSUME CoordInv, Quiesced, quiet, NEW f \in coord.fibers, NEW g \in coord.fibers,
         transition[f] # <<>>, Call(f).kind = "deactivate", fiber[f].handle # NoEntry, State(f) # "Active",
         Holds(g, fiber[f].handle)
  PROVE  FALSE
<1>0. /\ coord \in CoordRecord(Len(published)) /\ Listed /\ coord.fibers \subseteq Fibers /\ CoordCalls
      /\ coord.affected \subseteq Fibers
  BY DEF CoordInv, CoordTypeOK, CoordRecord
<1>1. 1 \in 1..Len(transition[f])
  BY <1>0, TypeFacts DEF CoordInv, IInv
<1>2. /\ transition[f][1].kind = "deactivate" /\ transition[f][1].by = "coordinator"
      /\ Calling /\ f = coord.subject /\ Standing("Awaiting")
  BY <1>0, <1>1 DEF CoordCalls, Call
<1>3. Withdrawing /\ Closing /\ f \in coord.affected
  BY <1>0, <1>2 DEF Withdrawing, Closing, Listed, Standing
<1>4. Identified /\ Unread /\ Closed /\ Ordered /\ Deepening
  BY <1>3 DEF Quiesced
<1>5. coord.identities[f] = fiber[f].handle
  BY <1>2, <1>4 DEF Identified, Standing
<1>6. State(g) = "Active" /\ f \in ProvidersOf(fiber[g].epoch) /\ f # g
  BY <1>5 DEF Holds, ProvidersOf
<1>7. g \in coord.affected
  BY <1>2, <1>3, <1>4, <1>6 DEF Closed, Standing
<1>8. coord.bindings[g] = fiber[g].epoch /\ g \in coord.todo \ {coord.subject}
  BY <1>2, <1>3, <1>4, <1>6, <1>7 DEF Ordered, Standing
<1>9. DeeperFirst(f, g) /\ f \in Above(g)
  BY <1>2, <1>3, <1>4, <1>6, <1>8 DEF Deepening, Above
<1>10. Depth(f) \in Nat /\ Depth(g) \in Nat /\ Depth(f) < Depth(g)
  <2>1. Ranked([x \in Fibers |-> Above(x)], coord.identities, Len(published))
    BY <1>3, <1>4, AboveIsRanked
  <2>2. [x \in Fibers |-> Above(x)][g] = Above(g) /\ g \in Fibers
    BY <1>0
  <2> QED BY <1>9, <2>1, <2>2, DepthGrows DEF Depth
<1> QED BY <1>9, <1>10 DEF DeeperFirst

(* A handle is dropped by the fiber itself, after it has stopped being     *)
(* active.                                                                 *)
LEMMA HandleDropped ==
  ASSUME CoordInv, [Next]_rvars, NEW f \in Fibers, fiber[f].handle # NoEntry, fiber'[f].handle = NoEntry
  PROVE  transition[f] # <<>> /\ State(f) # "Active"
<1>0. IInv /\ fiber \in [Fibers -> FiberRecord(Len(published))]
  BY DEF CoordInv, IInv, FiberTypeOK
<1>1. FiberStep(f)
  <2>1. ASSUME NEW g \in Fibers \ {f}, FiberStep(g) PROVE FALSE
    BY <1>0, <2>1, OthersMove
  <2>2. ASSUME NEW g \in Fibers, RegisterEffect(g) \/ Update(g) PROVE FALSE
    BY <1>0, <2>2 DEF RegisterEffect, Update, FiberRecord
  <2>3. fiber' # fiber
    OBVIOUS
  <2>4. ~FiberCall
    BY <2>2, <2>3 DEF FiberCall, Start, Restart, Dispose
  <2>5. ~Operation /\ ~CoordinatorStep /\ ~UNCHANGED rvars /\ \A g \in Fibers : ~RestartUpdated(g)
    BY <2>3 DEF Operation, Reconcile, ProvideAndReconcile, WithdrawAndReconcile, Begins, Watch, CoordinatorStep,
       rvars, fvars, RestartUpdated
  <2> QED BY <2>1, <2>2, <2>4, <2>5 DEF Next
<1>2. At(f, "Releasing")
  <2>1. ~(Begin(f) \/ Resolve(f) \/ EnterLoading(f) \/ Construct(f) \/ Decide(f) \/ ProvideValue(f))
    BY <1>0 DEF Begin, Resolve, EnterLoading, Construct, Decide, ProvideValue, BeginUnload, SetState, FiberRecord
  <2>2. ~(Discard(f) \/ Retry(f) \/ Fail(f) \/ Commit(f) \/ DisposeEffects(f) \/ Settle(f))
    BY <1>0 DEF Discard, Retry, Fail, Unwound, Commit, DisposeEffects, Settle, FiberRecord
  <2>3. ~SetHandle(f)
    BY <1>0 DEF SetHandle, IInv, Local, Held, Placed, At, State, Loads
  <2> QED BY <1>1, <2>1, <2>2, <2>3 DEF FiberStep, Release
<1> QED BY <1>0, <1>2 DEF IInv, Local, Placed, At, State, Unloads

(* The provider outlives those that use it, for any fibers, plugins and    *)
(* dependencies between them.                                              *)
THEOREM DependentsGoFirst == Spec => DependentsQuiesceFirst
<1>1. Init => LetGo /\ Quiesced
  BY DEF Init, LetGo, Quiesced, Withdrawing, Idle
<1>2. CoordInv /\ LetGo /\ Quiesced /\ [Next]_rvars => LetGo' /\ Quiesced'
  BY LetGoKept, QuiescedKept
<1>3. ASSUME CoordInv, LetGo, Quiesced, [Next]_rvars
      PROVE  [ /\ quiet => \A f \in coord.fibers :
                    /\ fiber[f].handle # NoEntry /\ fiber'[f].handle = NoEntry
                    /\ Call(f).kind = "deactivate"
                    => \A g \in coord.fibers : ~Holds(g, fiber[f].handle)
               /\ Standing("Draining") /\ coord'.at = "Idle" =>
                    \A f \in bound : ~Holds(f, coord.retired) ]_rvars
  <2>0. /\ coord \in CoordRecord(Len(published)) /\ coord.fibers \subseteq Fibers /\ IInv /\ bound \subseteq Fibers
    BY <1>3 DEF CoordInv, CoordTypeOK, CoordRecord
  <2>1. ASSUME quiet, NEW f \in coord.fibers, fiber[f].handle # NoEntry, fiber'[f].handle = NoEntry,
               Call(f).kind = "deactivate", NEW g \in coord.fibers
        PROVE  ~Holds(g, fiber[f].handle)
    <3>1. transition[f] # <<>> /\ State(f) # "Active"
      BY <1>3, <2>0, <2>1, HandleDropped
    <3> QED BY <1>3, <2>1, <3>1, ProvidersWait
  <2>2. ASSUME Standing("Draining"), coord'.at = "Idle", NEW f \in bound
        PROVE  ~Holds(f, coord.retired)
    <3>1. CoordinatorStep
      BY <1>3, <2>2, Phases, BeginsFacts DEF Standing
    <3>2. coord.todo = {}
      <4>1. ASSUME NEW g \in coord.todo, Drain(g) PROVE FALSE
        BY <1>3, <2>2, <4>1, DrainFacts
      <4> QED BY <2>2, <3>1, <4>1 DEF CoordinatorStep, Compare, Identify, ReadEpoch, ReadLoading, Scanning,
            Returned, EndPass, EndScan, Finalize, Standing
    <3>3. LetGoOf(f)
      BY <1>3, <2>2, LetGoForm DEF Withdrawing, Standing
    <3> QED BY <2>2, <3>2, <3>3 DEF LetGoOf
  <2> QED BY <2>1, <2>2
<1> QED BY <1>1, <1>2, <1>3, CoordInvariant, PTL DEF Spec, DependentsQuiesceFirst

-----------------------------------------------------------------------------
(* What the fibers promise they keep under a coordinator that calls,       *)
(* deactivates and detaches them.                                          *)
LEMMA CoordinatedMoves ==
  ASSUME CoordInv, [Next]_rvars, NEW f \in Fibers
  PROVE  Moves(f)
<1>1. CASE [FiberNext]_fvars
  BY <1>1, NextMoves DEF CoordInv
<1>2. ASSUME NEW g \in Fibers, NEW kind, NEW detached, Calls(g, kind, detached) PROVE Moves(f)
  BY <1>2, MovesAside DEF Calls
<1> QED BY <1>1, <1>2, FibersAndCalls

(* With a coordinator too, nothing is left behind and an active fiber is   *)
(* what it says.                                                           *)
THEOREM CoordinatedFibers == Spec => [](NothingIsOrphaned /\ ActiveIsCommitted)
<1>1. CoordInv => NothingIsOrphaned /\ ActiveIsCommitted
  BY Unorphaned, Committed DEF CoordInv
<1> QED BY <1>1, CoordInvariant, PTL

(* With a coordinator too, fibers publish only what is current, and clean  *)
(* up before they let go.                                                  *)
THEOREM CoordinatedSteps == Spec => ActivationIsCurrent /\ CleanupIsOrdered
<1>1. CoordInv /\ CoordInv' /\ [Next]_rvars => Activates /\ Cleans
  BY CoordinatedMoves, ActivationMoves, CleanupMoves DEF CoordInv
<1> QED BY <1>1, CoordInvariant, PTL DEF Spec, ActivationIsCurrent, CleanupIsOrdered, Activates, Cleans
=============================================================================
