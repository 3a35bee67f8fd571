---------------------- MODULE CapabilityFiberProofs ----------------------
(***************************************************************************)
(* CapabilityFiber is safe for any fibers, plugins, capabilities and       *)
(* bounds: what a fiber holds is decided by its state and by where the     *)
(* holder of its transition lock stands.                                   *)
(***************************************************************************)
EXTENDS CapabilityFiber, TLAPS

Loads   == {"Constructing", "Returned", "Discarding", "Publishing", "Retrying", "Failing",
            "Handing", "Committing"}
Unloads == {"Unloading", "Releasing", "Settling"}

(* State and place go together; nobody drives a fiber without a call.      *)
Placed(f) ==
  /\ At(f, "Waiting") => \/ State(f) \in {"Pending", "Active", "Failed"}
                         \/ State(f) \in {"Loading", "Disposed"} /\ dispose_requested[f]
  /\ At(f, "Resolving") => State(f) \in {"Pending", "Active", "Failed"}
  /\ At(f, "Entering") => State(f) = "Pending"
  /\ drive[f].at \in Loads => State(f) = "Loading"
  /\ drive[f].at \in Unloads => State(f) = "Unloading"
  /\ ~At(f, "Waiting") => transition[f] # <<>>
  /\ drive[f].at \in Loads \cup {"Resolving", "Entering"} => Call(f).kind \in {"start", "restart"}

(* A restart under way is forced, and who asked for disposal still waits   *)
(* for it.                                                                 *)
Asked(f) ==
  /\ \A i \in 1..Len(transition[f]) : transition[f][i].kind = "dispose" => dispose_requested[f]
  /\ dispose_requested[f] =>
       \/ State(f) = "Disposed"
       \/ \E i \in 1..Len(transition[f]) : transition[f][i].kind = "dispose"
  /\ ~At(f, "Waiting") /\ Call(f).kind = "restart" => drive[f].force

(* What is left of a load or of an active fiber, and where.                *)
Held(f) ==
  /\ fiber[f].effects => \/ State(f) = "Active"
                         \/ drive[f].at \in Loads \cup {"Unloading"}
  /\ fiber[f].handle # NoEntry => \/ State(f) = "Active"
                                  \/ drive[f].at \in {"Committing", "Unloading", "Releasing"}
  /\ fiber[f].epoch # None => State(f) = "Active" \/ drive[f].at \in Unloads
  /\ fiber[f].loading # None => drive[f].at \in Loads

(* Entry e was published by f over the binding b.                          *)
Mine(e, f, b) == e \in EntryIds /\ published[e].by = f /\ published[e].pins = b

Bound(f) ==
  /\ drive[f].at \in Loads \cup {"Entering"} => drive[f].binding \in [Requires(f) -> EntryIds]
  /\ At(f, "Handing") => Mine(drive[f].entry, f, drive[f].binding)
  /\ At(f, "Committing") => Mine(fiber[f].handle, f, drive[f].binding)
  /\ State(f) = "Active" => Mine(fiber[f].handle, f, fiber[f].epoch)

(* Whoever changed the config is still to restart the fiber.               *)
Restarting(f, from) ==
  \E i \in 1..Len(transition[f]) : i >= from /\ transition[f][i].kind = "restart"

Fresh(f) ==
  fiber[f].loaded # fiber[f].config =>
    /\ drive[f].at \in Loads => f \in updating \/ Restarting(f, 2)
    /\ State(f) = "Active" => f \in updating \/ dispose_requested[f] \/ Restarting(f, 1)

Local(f) == Placed(f) /\ Asked(f) /\ Held(f) /\ Bound(f) /\ Fresh(f)

Shown ==
  \A c \in Capabilities : entries[c] # NoEntry =>
    /\ published[entries[c]].id = c
    /\ \A f \in Fibers : published[entries[c]].by = f =>
         \/ fiber[f].handle = entries[c]
         \/ At(f, "Handing") /\ drive[f].entry = entries[c]

IInv == FiberTypeOK /\ Shown /\ \A f \in Fibers : Local(f)

(* What a caller has detached has left the scope, for good.                *)
Gone(e) == e = NoEntry \/ \A c \in Capabilities : entries[c] # e

Detached ==
  \A f \in Fibers : \A i \in 1..Len(transition[f]) : Gone(transition[f][i].detached)

-----------------------------------------------------------------------------
(* Types.                                                                  *)
LEMMA BindingsGrow ==
  ASSUME NEW m \in Nat, NEW n \in Nat, m <= n
  PROVE  Bindings(m) \subseteq Bindings(n)
<1> SUFFICES ASSUME NEW b \in Bindings(m), b # None PROVE b \in Bindings(n)
  BY DEF Bindings
<1>1. PICK D \in SUBSET Capabilities : b \in [D -> 1..m]
  BY DEF Bindings
<1>2. b \in [D -> 1..n]
  BY <1>1
<1> QED BY <1>2 DEF Bindings

LEMMA RecordsGrow ==
  ASSUME NEW m \in Nat, NEW n \in Nat, m <= n
  PROVE  /\ Publication(m) \subseteq Publication(n)
         /\ FiberRecord(m) \subseteq FiberRecord(n)
         /\ DriveRecord(m) \subseteq DriveRecord(n)
         /\ CallRecord(m) \subseteq CallRecord(n)
<1>1. Bindings(m) \subseteq Bindings(n) /\ 0..m \subseteq 0..n
  BY BindingsGrow
<1> QED BY <1>1 DEF Publication, FiberRecord, DriveRecord, CallRecord

LEMMA TypeFacts ==
  ASSUME FiberTypeOK, NEW f \in Fibers
  PROVE  /\ Len(published) \in Nat
         /\ fiber[f] \in FiberRecord(Len(published))
         /\ drive[f] \in DriveRecord(Len(published))
         /\ transition[f] \in Seq(CallRecord(Len(published)))
         /\ NoEntry \in 0..Len(published) /\ None \in Bindings(Len(published))
         /\ Rest \in DriveRecord(Len(published))
         /\ Requires(f) \in SUBSET Capabilities /\ Plugin[f].id \in Capabilities
<1>1. Len(published) \in Nat
  BY DEF FiberTypeOK
<1>2. NoEntry \in 0..Len(published) /\ None \in Bindings(Len(published))
  BY <1>1 DEF NoEntry, Bindings
<1>3. Rest \in DriveRecord(Len(published))
  BY <1>2 DEF Rest, DriveRecord, Place
<1>4. Requires(f) \in SUBSET Capabilities /\ Plugin[f].id \in Capabilities
  BY FiberAssumption DEF Requires, Definition
<1> QED BY <1>1, <1>2, <1>3, <1>4 DEF FiberTypeOK

LEMMA CallFacts ==
  ASSUME FiberTypeOK, NEW f \in Fibers, NEW i \in 1..Len(transition[f])
  PROVE  /\ transition[f][i].kind \in {"start", "restart", "dispose", "deactivate"}
         /\ transition[f][i].by \in {"caller", "coordinator"}
         /\ transition[f][i].detached \in 0..Len(published) /\ Len(published) \in Nat
<1>1. transition[f][i] \in CallRecord(Len(published)) /\ Len(published) \in Nat
  BY TypeFacts
<1> QED BY <1>1 DEF CallRecord

LEMMA CurrentType ==
  ASSUME FiberTypeOK, NEW f \in Fibers
  PROVE  /\ Current(f) \in Bindings(Len(published))
         /\ Satisfied(f) => Current(f) \in [Requires(f) -> EntryIds] /\ Current(f) # None
<1>1. Requires(f) \in SUBSET Capabilities /\ Len(published) \in Nat
  BY TypeFacts
<1>2. ASSUME Satisfied(f) PROVE Current(f) \in [Requires(f) -> EntryIds]
  BY <1>1, <1>2 DEF Current, Satisfied, FiberTypeOK, NoEntry, EntryIds
<1>3. ASSUME Satisfied(f) PROVE Current(f) # None
  <2>1. DOMAIN Current(f) = Requires(f) /\ DOMAIN None = {0}
    BY <1>3 DEF Current, None
  <2>2. 0 \notin Requires(f)
    BY <1>1, FiberAssumption
  <2> QED BY <2>1, <2>2
<1>4. Current(f) \in Bindings(Len(published))
  BY <1>1, <1>2 DEF Current, Bindings, EntryIds
<1> QED BY <1>2, <1>3, <1>4

(* Publications are only ever added.                                       *)
Grows == /\ Len(published) <= Len(published)'
         /\ \A e \in EntryIds : published'[e] = published[e]

(* A step that leaves a fiber alone keeps what is said of it.              *)
Kept(g) ==
  /\ fiber'[g] = fiber[g] /\ drive'[g] = drive[g] /\ transition'[g] = transition[g]
  /\ dispose_requested'[g] = dispose_requested[g]
  /\ g \in updating' <=> g \in updating

LEMMA KeptLocal ==
  ASSUME FiberTypeOK, FiberTypeOK', Grows, NEW g \in Fibers, Local(g), Kept(g)
  PROVE  Local(g)'
<1>0. EntryIds \subseteq EntryIds' /\ Requires(g)' = Requires(g)
  BY DEF Grows, EntryIds, FiberTypeOK, Requires
<1>1. Placed(g)'
  BY DEF Local, Kept, Placed, At, State, Call
<1>2. Asked(g)'
  BY DEF Local, Kept, Asked, At, State, Call
<1>3. Held(g)'
  BY DEF Local, Kept, Held, At, State
<1>4. Bound(g)'
  <2>1. \A e, b : Mine(e, g, b) => Mine(e, g, b)'
    BY <1>0 DEF Mine, Grows
  <2>2. \A b : b \in [Requires(g) -> EntryIds] => b \in [Requires(g) -> EntryIds]'
    BY <1>0
  <2> QED BY <2>1, <2>2 DEF Local, Kept, Bound, At, State
<1>5. Fresh(g)'
  BY DEF Local, Kept, Fresh, State, Restarting
<1> QED BY <1>1, <1>2, <1>3, <1>4, <1>5 DEF Local

(* What the scope shows stays in hand when entries only leave the scope.   *)
LEMMA KeptShown ==
  ASSUME FiberTypeOK, FiberTypeOK', Grows, Shown,
         \A c \in Capabilities : entries'[c] = NoEntry \/ entries'[c] = entries[c],
         \A c \in Capabilities, f \in Fibers :
           entries'[c] # NoEntry =>
             /\ fiber[f].handle = entries[c] => fiber'[f].handle = entries[c]
             /\ At(f, "Handing") /\ drive[f].entry = entries[c] =>
                  \/ fiber'[f].handle = entries[c]
                  \/ At(f, "Handing")' /\ drive'[f].entry = entries[c]
  PROVE  Shown'
<1> SUFFICES ASSUME NEW c \in Capabilities, entries'[c] # NoEntry
             PROVE  /\ published'[entries'[c]].id = c
                    /\ \A f \in Fibers : published'[entries'[c]].by = f =>
                         \/ fiber'[f].handle = entries'[c]
                         \/ At(f, "Handing")' /\ drive'[f].entry = entries'[c]
  BY DEF Shown
<1>1. entries'[c] = entries[c] /\ entries[c] \in EntryIds
  BY DEF FiberTypeOK, EntryIds, NoEntry
<1>2. published'[entries'[c]] = published[entries[c]]
  BY <1>1 DEF Grows
<1> QED BY <1>1, <1>2 DEF Shown

-----------------------------------------------------------------------------
(* A step that concerns one fiber and adds no publication.                 *)
LEMMA LocalStep ==
  ASSUME IInv, NEW f \in Fibers,
         published' = published,
         entries' \in [Capabilities -> 0..Len(published)],
         \A c \in Capabilities : entries'[c] = NoEntry \/ entries'[c] = entries[c],
         fiber' = [fiber EXCEPT ![f] = fiber'[f]],
         drive' = [drive EXCEPT ![f] = drive'[f]],
         transition' = [transition EXCEPT ![f] = transition'[f]],
         dispose_requested' \in [Fibers -> BOOLEAN],
         \A g \in Fibers \ {f} : dispose_requested'[g] = dispose_requested[g],
         force_reload' \in [Fibers -> BOOLEAN],
         updating' \subseteq Fibers, updating' \ {f} = updating \ {f},
         registered' \subseteq Fibers, calls' \in 0..MaxCalls,
         fiber'[f] \in FiberRecord(Len(published)),
         drive'[f] \in DriveRecord(Len(published)),
         transition'[f] \in Seq(CallRecord(Len(published))),
         Placed(f)', Asked(f)', Held(f)', Bound(f)', Fresh(f)',
         \A c \in Capabilities : entries'[c] # NoEntry =>
           /\ fiber[f].handle = entries[c] => fiber'[f].handle = entries[c]
           /\ At(f, "Handing") /\ drive[f].entry = entries[c] =>
                \/ fiber'[f].handle = entries[c]
                \/ At(f, "Handing")' /\ drive'[f].entry = entries[c]
  PROVE  IInv'
<1>1. FiberTypeOK
  BY DEF IInv
<1>2. FiberTypeOK'
  <2>1. fiber' \in [Fibers -> FiberRecord(Len(published))]
    BY <1>1 DEF FiberTypeOK
  <2>2. drive' \in [Fibers -> DriveRecord(Len(published))]
    BY <1>1 DEF FiberTypeOK
  <2>3. transition' \in [Fibers -> Seq(CallRecord(Len(published)))]
    BY <1>1 DEF FiberTypeOK
  <2>4. /\ Publication(Len(published))' = Publication(Len(published))
        /\ FiberRecord(Len(published))' = FiberRecord(Len(published))
        /\ DriveRecord(Len(published))' = DriveRecord(Len(published))
        /\ CallRecord(Len(published))' = CallRecord(Len(published))
    BY DEF Publication, FiberRecord, DriveRecord, CallRecord, Bindings
  <2> QED BY <1>1, <2>1, <2>2, <2>3, <2>4 DEF FiberTypeOK
<1>3. Grows
  BY <1>1 DEF Grows, FiberTypeOK
<1>4. \A g \in Fibers \ {f} : Kept(g)
  BY <1>1 DEF Kept, FiberTypeOK
<1>5. \A g \in Fibers : Local(g)'
  <2>1. \A g \in Fibers \ {f} : Local(g)'
    BY <1>1, <1>2, <1>3, <1>4, KeptLocal DEF IInv
  <2> QED BY <2>1 DEF Local
<1>6. Shown'
  <2>1. ASSUME NEW c \in Capabilities, NEW g \in Fibers, entries'[c] # NoEntry
        PROVE  /\ fiber[g].handle = entries[c] => fiber'[g].handle = entries[c]
               /\ At(g, "Handing") /\ drive[g].entry = entries[c] =>
                    \/ fiber'[g].handle = entries[c]
                    \/ At(g, "Handing")' /\ drive'[g].entry = entries[c]
    <3>1. CASE g = f
      BY <3>1, <2>1
    <3>2. CASE g # f
      BY <3>2, <1>4 DEF Kept, At
    <3> QED BY <3>1, <3>2
  <2>2. Shown
    BY DEF IInv
  <2> HIDE DEF FiberTypeOK, Grows, Shown, At
  <2> QED BY <1>1, <1>2, <1>3, <2>1, <2>2, KeptShown
<1> QED BY <1>2, <1>5, <1>6 DEF IInv

(* The call that holds the lock returns.                                   *)
LEMMA ReturnFacts ==
  ASSUME FiberTypeOK, NEW f \in Fibers, transition[f] # <<>>, Return(f)
  PROVE  /\ transition' = [transition EXCEPT ![f] = transition'[f]]
         /\ transition'[f] \in Seq(CallRecord(Len(published)))
         /\ drive' = [drive EXCEPT ![f] = drive'[f]] /\ drive'[f] = Rest
         /\ \A i \in 1..Len(transition'[f]) :
              i + 1 \in 2..Len(transition[f]) /\ transition'[f][i] = transition[f][i + 1]
         /\ \A i \in 2..Len(transition[f]) :
              i - 1 \in 1..Len(transition'[f]) /\ transition'[f][i - 1] = transition[f][i]
<1>1. transition[f] \in Seq(CallRecord(Len(published)))
  BY TypeFacts
<1>2. transition'[f] = Tail(transition[f]) /\ drive'[f] = Rest
  BY DEF Return, FiberTypeOK
<1>3. Tail(transition[f]) \in Seq(CallRecord(Len(published)))
  BY <1>1
<1>4. /\ Len(Tail(transition[f])) = Len(transition[f]) - 1
      /\ \A i \in 1..(Len(transition[f]) - 1) : Tail(transition[f])[i] = transition[f][i + 1]
  BY <1>1
<1>5. Len(transition[f]) \in Nat
  BY <1>1
<1> QED BY <1>2, <1>3, <1>4, <1>5 DEF Return, FiberTypeOK

LEMMA ReturnAsked ==
  ASSUME IInv, NEW f \in Fibers, transition[f] # <<>>, Return(f),
         dispose_requested'[f] = dispose_requested[f],
         State(f) = "Disposed" => State(f)' = "Disposed",
         Call(f).kind = "dispose" => State(f)' = "Disposed"
  PROVE  Asked(f)' /\ At(f, "Waiting")'
<1>1. FiberTypeOK /\ Asked(f)
  BY DEF IInv, Local
<1>2. At(f, "Waiting")'
  BY <1>1, ReturnFacts DEF At, Rest
<1>3. \A i \in 1..Len(transition'[f]) : transition'[f][i].kind = "dispose" => dispose_requested'[f]
  <2> SUFFICES ASSUME NEW i \in 1..Len(transition'[f])
               PROVE  transition'[f][i].kind = "dispose" => dispose_requested[f]
    OBVIOUS
  <2>1. i + 1 \in 2..Len(transition[f]) /\ transition'[f][i] = transition[f][i + 1]
    BY <1>1, ReturnFacts
  <2>2. i + 1 \in 1..Len(transition[f])
    BY <1>1, <2>1, TypeFacts
  <2> QED BY <1>1, <2>1, <2>2 DEF Asked
<1>4. ASSUME dispose_requested[f], State(f)' # "Disposed"
      PROVE  \E i \in 1..Len(transition'[f]) : transition'[f][i].kind = "dispose"
  <2>1. PICK i \in 1..Len(transition[f]) : transition[f][i].kind = "dispose"
    BY <1>1, <1>4 DEF Asked
  <2>2. i # 1
    BY <2>1, <1>4 DEF Call
  <2>3. i \in 2..Len(transition[f])
    BY <2>2, <1>1, TypeFacts
  <2> QED BY <2>1, <2>3, <1>1, ReturnFacts
<1>5. dispose_requested'[f] => \/ State(f)' = "Disposed"
                                \/ \E i \in 1..Len(transition'[f]) : transition'[f][i].kind = "dispose"
  BY <1>4
<1> QED BY <1>2, <1>3, <1>5 DEF Asked

-----------------------------------------------------------------------------
(* The steps of a fiber, one lemma each.                                   *)
LEMMA UnloadBegins ==
  ASSUME IInv, NEW f \in Fibers, NEW b \in Bindings(Len(published)), BeginUnload(f, b),
         drive[f].at \in {"Waiting", "Resolving"}, transition[f] # <<>>,
         State(f) # "Disposed", Call(f).kind = "restart" => drive[f].force,
         force_reload' \in [Fibers -> BOOLEAN],
         UNCHANGED <<scope, dispose_requested, registered, outside>>
  PROVE  IInv'
<1>0. FiberTypeOK /\ Local(f)
  BY DEF IInv
<1>1. /\ fiber'[f] = [fiber[f] EXCEPT !.state = "Unloading"]
      /\ drive'[f] = [drive[f] EXCEPT !.at = "Unloading", !.binding = b]
      /\ transition' = transition
  BY <1>0 DEF BeginUnload, SetState, FiberTypeOK
<1>2. /\ fiber'[f] \in FiberRecord(Len(published)) /\ drive'[f] \in DriveRecord(Len(published))
      /\ transition'[f] \in Seq(CallRecord(Len(published)))
  BY <1>0, <1>1, TypeFacts DEF FiberRecord, DriveRecord, FiberState, Place
<1>3. /\ State(f)' = "Unloading" /\ fiber'[f].handle = fiber[f].handle
      /\ fiber'[f].epoch = fiber[f].epoch /\ fiber'[f].loading = fiber[f].loading
      /\ drive'[f].at = "Unloading" /\ drive'[f].force = drive[f].force
  BY <1>0, <1>1, TypeFacts DEF FiberRecord, DriveRecord, State
<1>4. Placed(f)'
  BY <1>0, <1>1, <1>3 DEF Placed, At, State, Loads, Unloads, Call
<1>5. Asked(f)'
  BY <1>0, <1>1, <1>3 DEF Asked, Call, At, Local, Placed
<1>6. Held(f)'
  BY <1>0, <1>3 DEF Local, Held, At, State, Loads, Unloads
<1>7. Bound(f)' /\ Fresh(f)'
  BY <1>3 DEF Bound, Fresh, At, Loads
<1>8. /\ fiber' = [fiber EXCEPT ![f] = fiber'[f]] /\ drive' = [drive EXCEPT ![f] = drive'[f]]
      /\ transition' = [transition EXCEPT ![f] = transition'[f]]
  BY <1>0, <1>1 DEF BeginUnload, SetState, FiberTypeOK
<1>9. ~At(f, "Handing")
  BY DEF At
<1> QED BY <1>0, <1>2, <1>3, <1>4, <1>5, <1>6, <1>7, <1>8, <1>9, LocalStep
        DEF scope, outside, FiberTypeOK

(* A call that returns and leaves the fiber as it is.                      *)
LEMMA ReturnStep ==
  ASSUME IInv, NEW f \in Fibers, transition[f] # <<>>, Return(f),
         drive[f].at \in {"Waiting", "Resolving"},
         Call(f).kind = "dispose" => State(f) = "Disposed",
         Call(f).kind = "restart" /\ State(f) = "Active" => dispose_requested[f],
         force_reload' \in [Fibers -> BOOLEAN],
         UNCHANGED <<scope, fiber, dispose_requested, registered, outside>>
  PROVE  IInv'
<1>0. FiberTypeOK /\ Local(f)
  BY DEF IInv
<1>1. Asked(f)' /\ At(f, "Waiting")'
  BY ReturnAsked DEF State
<1>2. drive'[f] \in DriveRecord(Len(published)) /\ drive'[f].at = "Waiting"
  <2>1. drive'[f] = Rest
    BY <1>0, ReturnFacts
  <2>2. Rest \in DriveRecord(Len(published))
    BY <1>0, TypeFacts
  <2>3. Rest.at = "Waiting"
    BY DEF Rest
  <2> QED BY <2>1, <2>2, <2>3
<1>3. Placed(f)'
  BY <1>0, <1>2 DEF Local, Placed, At, State, Loads, Unloads
<1>4. Held(f)'
  BY <1>0, <1>2 DEF Local, Held, At, State, Loads, Unloads
<1>5. Bound(f)'
  BY <1>0, <1>2 DEF Local, Bound, At, State, Loads, Unloads, Mine, EntryIds, scope
<1>6. Fresh(f)'
  <2>1. SUFFICES ASSUME fiber[f].loaded # fiber[f].config, State(f) = "Active", f \notin updating,
                        ~dispose_requested[f]
                 PROVE  Restarting(f, 1)'
    BY <1>2 DEF Fresh, Loads, State, outside
  <2>2. PICK i \in 1..Len(transition[f]) : transition[f][i].kind = "restart"
    BY <1>0, <2>1 DEF Local, Fresh, Restarting
  <2>3. i # 1
    BY <2>1, <2>2 DEF Call
  <2>4. i \in 2..Len(transition[f])
    BY <1>0, <2>3, TypeFacts
  <2>5. i - 1 \in 1..Len(transition'[f]) /\ transition'[f][i - 1] = transition[f][i]
    BY <1>0, <2>4, ReturnFacts
  <2> QED BY <2>2, <2>5 DEF Restarting
<1>7. fiber' = [fiber EXCEPT ![f] = fiber'[f]] /\ fiber'[f] \in FiberRecord(Len(published))
  BY <1>0, TypeFacts DEF FiberTypeOK
<1>8. ~At(f, "Handing")
  BY DEF At
<1>9. /\ transition' = [transition EXCEPT ![f] = transition'[f]]
      /\ transition'[f] \in Seq(CallRecord(Len(published)))
      /\ drive' = [drive EXCEPT ![f] = drive'[f]]
  BY <1>0, ReturnFacts
<1> QED BY <1>0, <1>1, <1>2, <1>3, <1>4, <1>5, <1>6, <1>7, <1>8, <1>9, LocalStep
        DEF scope, outside, FiberTypeOK

LEMMA BeginStep ==
  ASSUME IInv, NEW f \in Fibers, Begin(f)
  PROVE  IInv'
<1>0. FiberTypeOK /\ Local(f)
  BY DEF IInv
<1>1. /\ UNCHANGED <<scope, dispose_requested, registered, outside>>
      /\ drive[f].at = "Waiting" /\ transition[f] # <<>>
  BY DEF Begin, At
<1>2. Call(f).kind \in {"start", "restart", "dispose", "deactivate"}
  <2>1. 1 \in 1..Len(transition[f])
    BY <1>0, <1>1, TypeFacts
  <2> QED BY <1>0, <2>1, CallFacts DEF Call
<1>3. force_reload \in [Fibers -> BOOLEAN]
  BY <1>0 DEF FiberTypeOK
<1>4. CASE Refused(f) /\ Return(f) /\ UNCHANGED <<fiber, force_reload>>
  <2>1. Call(f).kind = "dispose" => State(f) = "Disposed"
    BY <1>4 DEF Refused
  <2>2. Call(f).kind = "restart" => dispose_requested[f]
    BY <1>4 DEF Refused
  <2> QED BY <1>1, <1>3, <1>4, <2>1, <2>2, ReturnStep
<1>5. CASE /\ ~Refused(f) /\ Call(f).kind \in {"dispose", "deactivate"}
           /\ BeginUnload(f, None) /\ UNCHANGED force_reload
  <2>1. State(f) # "Disposed" /\ Call(f).kind # "restart"
    BY <1>2, <1>5 DEF Refused
  <2> QED BY <1>0, <1>1, <1>3, <1>5, <2>1, UnloadBegins, TypeFacts
<1>6. CASE /\ ~Refused(f) /\ Call(f).kind \in {"start", "restart"}
           /\ drive' = [drive EXCEPT ![f].at = "Resolving",
                                     ![f].force = Call(f).kind = "restart" \/ force_reload[f]]
           /\ force_reload' = [force_reload EXCEPT ![f] = FALSE]
           /\ UNCHANGED <<fiber, transition>>
  <2>1. ~dispose_requested[f] /\ State(f) \in {"Pending", "Active", "Failed"}
    BY <1>0, <1>1, <1>6 DEF Refused, Local, Placed, At
  <2>2. drive'[f] = [drive[f] EXCEPT !.at = "Resolving",
                                     !.force = Call(f).kind = "restart" \/ force_reload[f]]
    BY <1>0, <1>6 DEF FiberTypeOK
  <2>3. /\ drive'[f] \in DriveRecord(Len(published)) /\ drive'[f].at = "Resolving"
        /\ Call(f).kind = "restart" => drive'[f].force
    BY <1>0, <1>3, <2>2, TypeFacts DEF DriveRecord, Place
  <2>4. force_reload' \in [Fibers -> BOOLEAN]
    BY <1>3, <1>6
  <2>5. Placed(f)'
    BY <1>1, <1>6, <2>1, <2>3 DEF Placed, At, State, Loads, Unloads, Call
  <2>6. Asked(f)'
    BY <1>0, <1>1, <1>6, <2>3 DEF Local, Asked, At, State, Call
  <2>7. Held(f)'
    BY <1>0, <1>1, <1>6, <2>3 DEF Local, Held, At, State, Loads, Unloads
  <2>8. Bound(f)'
    BY <1>0, <1>1, <1>6, <2>3 DEF Local, Bound, At, State, Loads, Mine, EntryIds, scope
  <2>9. Fresh(f)'
    BY <1>0, <1>1, <1>6, <2>3 DEF Local, Fresh, At, State, Loads, outside, Restarting
  <2>10. /\ fiber' = [fiber EXCEPT ![f] = fiber'[f]] /\ fiber'[f] \in FiberRecord(Len(published))
         /\ transition' = [transition EXCEPT ![f] = transition'[f]]
         /\ transition'[f] \in Seq(CallRecord(Len(published)))
         /\ drive' = [drive EXCEPT ![f] = drive'[f]]
    BY <1>0, <1>6, TypeFacts DEF FiberTypeOK
  <2>11. ~At(f, "Handing")
    BY <1>1 DEF At
  <2> QED BY <1>0, <1>1, <1>6, <2>3, <2>4, <2>5, <2>6, <2>7, <2>8, <2>9, <2>10, <2>11, LocalStep
          DEF scope, outside, FiberTypeOK
<1> QED BY <1>1, <1>4, <1>5, <1>6 DEF Begin

(* A call that returns from a fiber that is left with nothing.             *)
LEMMA EndStep ==
  ASSUME IInv, NEW f \in Fibers, transition[f] # <<>>, Return(f),
         drive[f].at \in {"Resolving", "Discarding", "Failing", "Settling"}, State(f) # "Active",
         fiber' = [fiber EXCEPT ![f] = fiber'[f]], fiber'[f] \in FiberRecord(Len(published)),
         fiber'[f].handle = fiber[f].handle, fiber'[f].effects = FALSE,
         fiber'[f].epoch = None, fiber'[f].loading = None,
         \/ State(f)' \in {"Pending", "Failed"}
         \/ State(f)' \in {"Loading", "Disposed"} /\ dispose_requested[f],
         Call(f).kind = "dispose" => State(f)' = "Disposed",
         force_reload' \in [Fibers -> BOOLEAN], registered' \subseteq Fibers,
         UNCHANGED <<scope, dispose_requested, outside>>
  PROVE  IInv'
<1>0. FiberTypeOK /\ Local(f)
  BY DEF IInv
<1>1. Asked(f)' /\ At(f, "Waiting")'
  <2>1. State(f) # "Disposed"
    BY <1>0 DEF Local, Placed, At, State, Loads, Unloads
  <2> QED BY <2>1, ReturnAsked
<1>2. drive'[f] \in DriveRecord(Len(published)) /\ drive'[f].at = "Waiting"
  <2>1. drive'[f] = Rest
    BY <1>0, ReturnFacts
  <2>2. Rest \in DriveRecord(Len(published))
    BY <1>0, TypeFacts
  <2>3. Rest.at = "Waiting"
    BY DEF Rest
  <2> QED BY <2>1, <2>2, <2>3
<1>3. fiber[f].handle = NoEntry
  BY <1>0 DEF Local, Held, State
<1>4. Placed(f)'
  BY <1>2 DEF Placed, At, State, Loads, Unloads
<1>5. Held(f)'
  BY <1>3 DEF Held
<1>6. Bound(f)' /\ Fresh(f)'
  BY <1>2 DEF Bound, Fresh, At, State, Loads
<1>7. /\ transition' = [transition EXCEPT ![f] = transition'[f]]
      /\ transition'[f] \in Seq(CallRecord(Len(published)))
      /\ drive' = [drive EXCEPT ![f] = drive'[f]]
  BY <1>0, ReturnFacts
<1>8. ~At(f, "Handing")
  BY DEF At
<1> QED BY <1>0, <1>1, <1>2, <1>3, <1>4, <1>5, <1>6, <1>7, <1>8, LocalStep
        DEF scope, outside, FiberTypeOK

(* The loop goes round with a fiber that is left with nothing.             *)
LEMMA LoopStep ==
  ASSUME IInv, NEW f \in Fibers, Goto(f, "Resolving"),
         drive[f].at \in {"Discarding", "Retrying", "Settling"},
         Call(f).kind \in {"start", "restart"},
         fiber' = [fiber EXCEPT ![f] = fiber'[f]], fiber'[f] \in FiberRecord(Len(published)),
         fiber'[f].handle = fiber[f].handle, fiber'[f].effects = FALSE,
         fiber'[f].epoch = None, fiber'[f].loading = None, State(f)' = "Pending",
         force_reload' \in [Fibers -> BOOLEAN], registered' \subseteq Fibers,
         UNCHANGED <<scope, dispose_requested, transition, outside>>
  PROVE  IInv'
<1>0. FiberTypeOK /\ Local(f)
  BY DEF IInv
<1>1. drive'[f] = [drive[f] EXCEPT !.at = "Resolving"]
  BY <1>0 DEF Goto, FiberTypeOK
<1>2. /\ drive'[f] \in DriveRecord(Len(published)) /\ drive'[f].at = "Resolving"
      /\ drive'[f].force = drive[f].force
  BY <1>0, <1>1, TypeFacts DEF DriveRecord, Place
<1>3. fiber[f].handle = NoEntry /\ State(f) # "Disposed" /\ transition[f] # <<>> /\ ~At(f, "Waiting")
  BY <1>0 DEF Local, Held, Placed, At, State, Loads, Unloads
<1>4. Placed(f)'
  BY <1>2, <1>3 DEF Placed, At, State, Loads, Unloads, Call
<1>5. Asked(f)'
  BY <1>0, <1>2, <1>3 DEF Local, Asked, At, Call, State
<1>6. Held(f)'
  BY <1>3 DEF Held
<1>7. Bound(f)' /\ Fresh(f)'
  BY <1>2 DEF Bound, Fresh, At, State, Loads
<1>8. /\ transition' = [transition EXCEPT ![f] = transition'[f]]
      /\ transition'[f] \in Seq(CallRecord(Len(published)))
      /\ drive' = [drive EXCEPT ![f] = drive'[f]]
  BY <1>0, <1>1, TypeFacts DEF FiberTypeOK, Goto
<1>9. ~At(f, "Handing")
  BY DEF At
<1> QED BY <1>0, <1>2, <1>3, <1>4, <1>5, <1>6, <1>7, <1>8, <1>9, LocalStep
        DEF scope, outside, FiberTypeOK

LEMMA ResolveStep ==
  ASSUME IInv, NEW f \in Fibers, Resolve(f)
  PROVE  IInv'
<1>0. FiberTypeOK /\ Local(f)
  BY DEF IInv
<1>1. /\ UNCHANGED <<scope, dispose_requested, registered, outside>> /\ force_reload' = force_reload
      /\ force_reload' \in [Fibers -> BOOLEAN] /\ drive[f].at = "Resolving"
  BY <1>0 DEF Resolve, At, flags, FiberTypeOK
<1>2. /\ transition[f] # <<>> /\ Call(f).kind \in {"start", "restart"}
      /\ State(f) \in {"Pending", "Active", "Failed"}
      /\ Call(f).kind = "restart" => drive[f].force
  BY <1>0, <1>1 DEF Local, Placed, Asked, At
<1>3. Current(f) \in Bindings(Len(published)) /\ None \in Bindings(Len(published))
  BY <1>0, CurrentType, TypeFacts
<1>4. ASSUME NEW b \in Bindings(Len(published)), BeginUnload(f, b)
      PROVE  IInv'
  BY <1>1, <1>2, <1>4, UnloadBegins
<1>5. CASE State(f) # "Active" /\ SetState(f, "Pending") /\ Return(f)
  <2>1. fiber'[f] = [fiber[f] EXCEPT !.state = "Pending"]
    BY <1>0, <1>5 DEF SetState, FiberTypeOK
  <2>2. fiber[f].effects = FALSE /\ fiber[f].epoch = None /\ fiber[f].loading = None
    BY <1>0, <1>1, <1>5, TypeFacts DEF Local, Held, State, Loads, Unloads, FiberRecord
  <2>3. /\ fiber' = [fiber EXCEPT ![f] = fiber'[f]] /\ fiber'[f] \in FiberRecord(Len(published))
        /\ fiber'[f].handle = fiber[f].handle /\ fiber'[f].effects = FALSE
        /\ fiber'[f].epoch = None /\ fiber'[f].loading = None /\ State(f)' = "Pending"
    BY <1>0, <1>5, <2>1, <2>2, TypeFacts DEF SetState, FiberTypeOK, FiberRecord, FiberState, State
  <2>4. registered' \subseteq Fibers
    BY <1>0, <1>1 DEF FiberTypeOK
  <2> QED BY <1>1, <1>2, <1>5, <2>3, <2>4, EndStep
<1>6. CASE ActiveMatches(f) /\ Return(f) /\ UNCHANGED fiber
  BY <1>1, <1>2, <1>6, ReturnStep DEF ActiveMatches
<1>7. CASE /\ Satisfied(f) /\ State(f) \notin {"Active", "Failed"} /\ UNCHANGED fiber
           /\ dispose_requested[f] /\ Return(f)
  BY <1>1, <1>2, <1>7, ReturnStep
<1>8. CASE /\ Satisfied(f) /\ State(f) \notin {"Active", "Failed"} /\ UNCHANGED <<fiber, transition>>
           /\ drive' = [drive EXCEPT ![f].at = "Entering", ![f].binding = Current(f)]
  <2>1. drive'[f] = [drive[f] EXCEPT !.at = "Entering", !.binding = Current(f)]
    BY <1>0, <1>8 DEF FiberTypeOK
  <2>2. /\ drive'[f] \in DriveRecord(Len(published)) /\ drive'[f].at = "Entering"
        /\ drive'[f].force = drive[f].force /\ drive'[f].binding = Current(f)
    BY <1>0, <1>3, <2>1, TypeFacts DEF DriveRecord, Place
  <2>3. drive'[f].binding \in [Requires(f) -> EntryIds]
    BY <1>0, <1>8, <2>2, CurrentType
  <2>4. State(f)' = "Pending"
    BY <1>2, <1>8 DEF State
  <2>5. Placed(f)'
    BY <1>2, <1>8, <2>2, <2>4 DEF Placed, At, Loads, Unloads, Call
  <2>6. Asked(f)'
    BY <1>0, <1>1, <1>2, <1>8, <2>2 DEF Local, Asked, At, Call, State
  <2>7. Held(f)'
    BY <1>0, <1>1, <1>8, <2>2, <2>4 DEF Local, Held, State, Loads, Unloads
  <2>8. Bound(f)' /\ Fresh(f)'
    BY <1>1, <2>2, <2>3, <2>4 DEF Bound, Fresh, At, Loads, EntryIds, scope, Requires
  <2>9. /\ fiber' = [fiber EXCEPT ![f] = fiber'[f]] /\ fiber'[f] \in FiberRecord(Len(published))
        /\ transition' = [transition EXCEPT ![f] = transition'[f]]
        /\ transition'[f] \in Seq(CallRecord(Len(published)))
        /\ drive' = [drive EXCEPT ![f] = drive'[f]]
    BY <1>0, <1>8, TypeFacts DEF FiberTypeOK
  <2>10. ~At(f, "Handing")
    BY <1>1 DEF At
  <2> QED BY <1>0, <1>1, <1>8, <2>2, <2>5, <2>6, <2>7, <2>8, <2>9, <2>10, LocalStep
          DEF scope, outside, FiberTypeOK
<1> QED BY <1>3, <1>4, <1>5, <1>6, <1>7, <1>8 DEF Resolve

(* The holder moves on within a load, whose binding stays what it was.     *)
LEMMA LoadStep ==
  ASSUME IInv, NEW f \in Fibers,
         drive[f].at \in (Loads \cup {"Entering"}) \ {"Handing", "Committing"},
         drive' = [drive EXCEPT ![f] = drive'[f]], drive'[f] \in DriveRecord(Len(published)),
         drive'[f].at \in Loads \ {"Handing", "Committing"},
         drive'[f].force = drive[f].force, drive'[f].binding = drive[f].binding,
         fiber' = [fiber EXCEPT ![f] = fiber'[f]], fiber'[f] \in FiberRecord(Len(published)),
         State(f)' = "Loading", fiber'[f].handle = fiber[f].handle, fiber'[f].epoch = fiber[f].epoch,
         \/ fiber'[f].loaded = fiber'[f].config
         \/ /\ fiber'[f].loaded = fiber[f].loaded /\ fiber'[f].config = fiber[f].config
            /\ ~At(f, "Entering"),
         UNCHANGED <<scope, flags, transition, registered, outside>>
  PROVE  IInv'
<1>0. FiberTypeOK /\ Local(f)
  BY DEF IInv
<1>1. /\ transition[f] # <<>> /\ Call(f).kind \in {"start", "restart"} /\ ~At(f, "Waiting")
      /\ State(f) \in {"Pending", "Loading"} /\ fiber[f].epoch = None
      /\ fiber[f].handle = NoEntry /\ ~At(f, "Handing")
  BY <1>0 DEF Local, Placed, Held, At, State, Loads, Unloads
<1>2. Placed(f)'
  BY <1>1 DEF Placed, At, Loads, Unloads, Call
<1>3. Asked(f)'
  BY <1>0, <1>1 DEF Local, Asked, Call, State, At, flags
<1>4. Held(f)'
  BY <1>1 DEF Held, At
<1>5. Bound(f)'
  BY <1>0 DEF Local, Bound, At, Loads, Mine, EntryIds, scope, Requires
<1>6. Fresh(f)'
  BY <1>0 DEF Local, Fresh, At, Loads, Restarting, outside
<1>7. /\ transition' = [transition EXCEPT ![f] = transition'[f]]
      /\ transition'[f] \in Seq(CallRecord(Len(published)))
  BY <1>0, TypeFacts DEF FiberTypeOK
<1>8. /\ published' = published /\ entries' = entries /\ dispose_requested' = dispose_requested
      /\ force_reload' = force_reload /\ updating' = updating /\ registered' = registered
      /\ calls' = calls
  BY DEF scope, flags, outside
<1>9. /\ entries' \in [Capabilities -> 0..Len(published)] /\ dispose_requested' \in [Fibers -> BOOLEAN]
      /\ force_reload' \in [Fibers -> BOOLEAN] /\ updating' \subseteq Fibers
      /\ registered' \subseteq Fibers /\ calls' \in 0..MaxCalls
  BY <1>0, <1>8 DEF FiberTypeOK
<1> QED BY <1>1, <1>2, <1>3, <1>4, <1>5, <1>6, <1>7, <1>8, <1>9, LocalStep

LEMMA EnterLoadingStep ==
  ASSUME IInv, NEW f \in Fibers, EnterLoading(f)
  PROVE  IInv'
<1>0. FiberTypeOK
  BY DEF IInv
<1>1. /\ fiber'[f] = [fiber[f] EXCEPT !.state = "Loading", !.loaded = fiber[f].config,
                                      !.effects = FALSE, !.loading = drive[f].binding]
      /\ drive'[f] = [drive[f] EXCEPT !.at = "Constructing"] /\ drive[f].at = "Entering"
  BY <1>0 DEF EnterLoading, Goto, At, FiberTypeOK
<1>2. /\ fiber'[f] \in FiberRecord(Len(published)) /\ State(f)' = "Loading"
      /\ fiber'[f].handle = fiber[f].handle /\ fiber'[f].epoch = fiber[f].epoch
      /\ fiber'[f].loaded = fiber'[f].config
  <2>1. fiber[f] \in FiberRecord(Len(published)) /\ drive[f].binding \in Bindings(Len(published))
    BY <1>0, TypeFacts DEF DriveRecord
  <2>2. "Loading" \in FiberState
    BY DEF FiberState
  <2> DEFINE r == [state |-> "Loading", config |-> fiber[f].config, loaded |-> fiber[f].config,
                   handle |-> fiber[f].handle, epoch |-> fiber[f].epoch,
                   loading |-> drive[f].binding, effects |-> FALSE]
  <2>3. fiber'[f] = r
    BY <1>1, <2>1 DEF FiberRecord
  <2>4. r \in FiberRecord(Len(published))
    BY <2>1, <2>2 DEF FiberRecord
  <2> QED BY <2>3, <2>4 DEF State
<1>3. /\ drive'[f] \in DriveRecord(Len(published)) /\ drive'[f].at = "Constructing"
      /\ drive'[f].force = drive[f].force /\ drive'[f].binding = drive[f].binding
  BY <1>0, <1>1, TypeFacts DEF DriveRecord, Place
<1>4. /\ fiber' = [fiber EXCEPT ![f] = fiber'[f]] /\ drive' = [drive EXCEPT ![f] = drive'[f]]
      /\ UNCHANGED <<scope, flags, transition, registered, outside>>
  BY <1>0 DEF EnterLoading, Goto, FiberTypeOK
<1>5. /\ drive[f].at \in (Loads \cup {"Entering"}) \ {"Handing", "Committing"}
      /\ drive'[f].at \in Loads \ {"Handing", "Committing"}
  BY <1>1, <1>3 DEF Loads
<1> QED BY <1>2, <1>3, <1>4, <1>5, LoadStep

LEMMA ConstructStep ==
  ASSUME IInv, NEW f \in Fibers, Construct(f)
  PROVE  IInv'
<1>0. FiberTypeOK /\ Local(f)
  BY DEF IInv
<1>1. PICK made \in BOOLEAN, effects \in BOOLEAN :
         /\ fiber' = [fiber EXCEPT ![f].effects = effects]
         /\ drive' = [drive EXCEPT ![f].at = "Returned", ![f].made = made]
  BY DEF Construct
<1>2. /\ fiber'[f] = [fiber[f] EXCEPT !.effects = effects]
      /\ drive'[f] = [drive[f] EXCEPT !.at = "Returned", !.made = made]
      /\ drive[f].at = "Constructing" /\ UNCHANGED <<scope, flags, transition, registered, outside>>
  BY <1>0, <1>1 DEF Construct, At, FiberTypeOK
<1>3. State(f) = "Loading"
  BY <1>0, <1>2 DEF Local, Placed, Loads
<1>4. /\ fiber'[f] \in FiberRecord(Len(published)) /\ State(f)' = "Loading"
      /\ fiber'[f].handle = fiber[f].handle /\ fiber'[f].epoch = fiber[f].epoch
      /\ fiber'[f].loaded = fiber[f].loaded /\ fiber'[f].config = fiber[f].config
  BY <1>0, <1>2, <1>3, TypeFacts DEF FiberRecord, State
<1>5. /\ drive'[f] \in DriveRecord(Len(published)) /\ drive'[f].at = "Returned"
      /\ drive'[f].force = drive[f].force /\ drive'[f].binding = drive[f].binding
  BY <1>0, <1>2, TypeFacts DEF DriveRecord, Place
<1>6. fiber' = [fiber EXCEPT ![f] = fiber'[f]] /\ drive' = [drive EXCEPT ![f] = drive'[f]]
  BY <1>0, <1>1 DEF FiberTypeOK
<1> QED BY <1>2, <1>4, <1>5, <1>6, LoadStep DEF Loads, At

(* Where to go next is decided, and nothing else.                          *)
LEMMA GotoStep ==
  ASSUME IInv, NEW f \in Fibers, NEW place \in {"Discarding", "Publishing", "Retrying", "Failing"},
         drive[f].at \in {"Returned", "Publishing"}, Goto(f, place),
         UNCHANGED <<scope, fiber, flags, transition, registered, outside>>
  PROVE  IInv'
<1>0. FiberTypeOK /\ Local(f)
  BY DEF IInv
<1>1. drive'[f] = [drive[f] EXCEPT !.at = place] /\ drive' = [drive EXCEPT ![f] = drive'[f]]
  BY <1>0 DEF Goto, FiberTypeOK
<1>2. /\ drive'[f] \in DriveRecord(Len(published)) /\ drive'[f].at = place
      /\ drive'[f].force = drive[f].force /\ drive'[f].binding = drive[f].binding
  BY <1>0, <1>1, TypeFacts DEF DriveRecord, Place
<1>3. State(f)' = "Loading"
  BY <1>0 DEF Local, Placed, Loads, State
<1>4. fiber' = [fiber EXCEPT ![f] = fiber'[f]] /\ fiber'[f] \in FiberRecord(Len(published))
  BY <1>0, TypeFacts DEF FiberTypeOK
<1> QED BY <1>1, <1>2, <1>3, <1>4, LoadStep DEF Loads, At

LEMMA DecideStep ==
  ASSUME IInv, NEW f \in Fibers, Decide(f)
  PROVE  IInv'
BY GotoStep DEF Decide, At

LEMMA UnwoundFacts ==
  ASSUME FiberTypeOK, NEW f \in Fibers, NEW state \in FiberState, Unwound(f, state)
  PROVE  /\ fiber' = [fiber EXCEPT ![f] = fiber'[f]] /\ fiber'[f] \in FiberRecord(Len(published))
         /\ fiber'[f].handle = fiber[f].handle /\ fiber'[f].epoch = fiber[f].epoch
         /\ fiber'[f].effects = FALSE /\ fiber'[f].loading = None /\ State(f)' = state
<1>1. /\ fiber'[f] = [fiber[f] EXCEPT !.state = state, !.effects = FALSE, !.loading = None]
      /\ fiber' = [fiber EXCEPT ![f] = fiber'[f]]
  BY DEF Unwound, FiberTypeOK
<1> QED BY <1>1, TypeFacts DEF FiberRecord, State

LEMMA DiscardStep ==
  ASSUME IInv, NEW f \in Fibers, Discard(f)
  PROVE  IInv'
<1>0. FiberTypeOK /\ Local(f)
  BY DEF IInv
<1>1. /\ drive[f].at = "Discarding" /\ force_reload' \in [Fibers -> BOOLEAN]
      /\ UNCHANGED <<scope, dispose_requested, registered, outside>> /\ registered' \subseteq Fibers
  BY <1>0 DEF Discard, At, FiberTypeOK
<1>2. /\ transition[f] # <<>> /\ Call(f).kind \in {"start", "restart"}
      /\ fiber[f].epoch = None /\ State(f) = "Loading"
  BY <1>0, <1>1 DEF Local, Placed, Held, At, State, Loads, Unloads
<1>3. CASE Unwound(f, "Pending") /\ Goto(f, "Resolving") /\ UNCHANGED transition
  BY <1>0, <1>1, <1>2, <1>3, UnwoundFacts, LoopStep DEF FiberState
<1>4. CASE dispose_requested[f] /\ Return(f) /\ Unwound(f, IF drive[f].made THEN State(f) ELSE "Disposed")
  <2> DEFINE state == IF drive[f].made THEN State(f) ELSE "Disposed"
  <2>1. state \in {"Loading", "Disposed"} /\ state \in FiberState
    BY <1>2 DEF FiberState
  <2>2. Unwound(f, state)
    BY <1>4
  <2> HIDE DEF state
  <2>3. State(f)' \in {"Loading", "Disposed"}
    BY <1>0, <2>1, <2>2, UnwoundFacts
  <2> QED BY <1>0, <1>1, <1>2, <1>4, <2>1, <2>2, <2>3, UnwoundFacts, EndStep
<1> QED BY <1>3, <1>4 DEF Discard

LEMMA RetryStep ==
  ASSUME IInv, NEW f \in Fibers, Retry(f)
  PROVE  IInv'
<1>0. FiberTypeOK /\ Local(f)
  BY DEF IInv
<1>1. /\ drive[f].at = "Retrying" /\ force_reload' \in [Fibers -> BOOLEAN] /\ registered' \subseteq Fibers
      /\ UNCHANGED <<scope, dispose_requested, transition, registered, outside>>
      /\ Unwound(f, "Pending") /\ Goto(f, "Resolving")
  BY <1>0 DEF Retry, At, flags, FiberTypeOK
<1>2. Call(f).kind \in {"start", "restart"} /\ fiber[f].epoch = None
  BY <1>0, <1>1 DEF Local, Placed, Held, At, State, Loads, Unloads
<1> QED BY <1>0, <1>1, <1>2, UnwoundFacts, LoopStep DEF FiberState

LEMMA FailStep ==
  ASSUME IInv, NEW f \in Fibers, Fail(f)
  PROVE  IInv'
<1>0. FiberTypeOK /\ Local(f)
  BY DEF IInv
<1>1. /\ drive[f].at = "Failing" /\ force_reload' \in [Fibers -> BOOLEAN] /\ registered' \subseteq Fibers
      /\ UNCHANGED <<scope, dispose_requested, registered, outside>>
      /\ Unwound(f, "Failed") /\ Return(f)
  BY <1>0 DEF Fail, At, flags, FiberTypeOK
<1>2. /\ transition[f] # <<>> /\ Call(f).kind \in {"start", "restart"}
      /\ fiber[f].epoch = None /\ State(f) = "Loading"
  BY <1>0, <1>1 DEF Local, Placed, Held, At, State, Loads, Unloads
<1> QED BY <1>0, <1>1, <1>2, UnwoundFacts, EndStep DEF FiberState

LEMMA SetHandleStep ==
  ASSUME IInv, NEW f \in Fibers, SetHandle(f)
  PROVE  IInv'
<1>0. FiberTypeOK /\ Local(f)
  BY DEF IInv
<1>1. /\ fiber'[f] = [fiber[f] EXCEPT !.handle = drive[f].entry]
      /\ drive'[f] = [drive[f] EXCEPT !.at = "Committing"] /\ drive[f].at = "Handing"
      /\ fiber' = [fiber EXCEPT ![f] = fiber'[f]] /\ drive' = [drive EXCEPT ![f] = drive'[f]]
  BY <1>0 DEF SetHandle, Goto, At, FiberTypeOK
<1>2. /\ fiber'[f] \in FiberRecord(Len(published)) /\ fiber'[f].state = fiber[f].state
      /\ fiber'[f].handle = drive[f].entry /\ fiber'[f].epoch = fiber[f].epoch
      /\ fiber'[f].loaded = fiber[f].loaded /\ fiber'[f].config = fiber[f].config
      /\ drive'[f] \in DriveRecord(Len(published)) /\ drive'[f].at = "Committing"
      /\ drive'[f].force = drive[f].force /\ drive'[f].binding = drive[f].binding
  BY <1>0, <1>1, TypeFacts DEF FiberRecord, DriveRecord, Place
<1>3. /\ published' = published /\ entries' = entries /\ dispose_requested' = dispose_requested
      /\ force_reload' = force_reload /\ updating' = updating /\ registered' = registered
      /\ calls' = calls /\ transition' = transition
  BY DEF SetHandle, scope, flags, outside
<1>4. /\ entries' \in [Capabilities -> 0..Len(published)] /\ dispose_requested' \in [Fibers -> BOOLEAN]
      /\ force_reload' \in [Fibers -> BOOLEAN] /\ updating' \subseteq Fibers
      /\ registered' \subseteq Fibers /\ calls' \in 0..MaxCalls
      /\ transition' = [transition EXCEPT ![f] = transition'[f]]
      /\ transition'[f] \in Seq(CallRecord(Len(published)))
  BY <1>0, <1>3, TypeFacts DEF FiberTypeOK
<1>5. State(f) = "Loading" /\ transition[f] # <<>> /\ Call(f).kind \in {"start", "restart"}
  BY <1>0, <1>1 DEF Local, Placed, At, Loads
<1>6. fiber[f].handle = NoEntry /\ fiber[f].epoch = None
  BY <1>0, <1>1, <1>5 DEF Local, Held, State, Unloads
<1>7. Placed(f)'
  BY <1>2, <1>3, <1>5 DEF Placed, At, State, Loads, Unloads, Call
<1>8. Asked(f)'
  BY <1>0, <1>1, <1>2, <1>3, <1>5 DEF Local, Asked, At, State, Call
<1>9. Held(f)'
  BY <1>2, <1>6 DEF Held, Loads
<1>10. Bound(f)'
  BY <1>0, <1>1, <1>2, <1>3, <1>5 DEF Local, Bound, At, State, Loads, Mine, EntryIds, Requires
<1>11. Fresh(f)'
  BY <1>0, <1>1, <1>2, <1>3, <1>5 DEF Local, Fresh, At, State, Loads, Restarting
<1> QED BY <1>1, <1>2, <1>3, <1>4, <1>6, <1>7, <1>8, <1>9, <1>10, <1>11, LocalStep

LEMMA CommitStep ==
  ASSUME IInv, NEW f \in Fibers, Commit(f)
  PROVE  IInv'
<1>0. FiberTypeOK /\ Local(f)
  BY DEF IInv
<1>1. /\ fiber'[f] = [fiber[f] EXCEPT !.state = "Active", !.epoch = drive[f].binding, !.loading = None]
      /\ drive[f].at = "Committing" /\ fiber' = [fiber EXCEPT ![f] = fiber'[f]] /\ Return(f)
  BY <1>0 DEF Commit, At, FiberTypeOK
<1>2. /\ fiber'[f] \in FiberRecord(Len(published)) /\ fiber'[f].state = "Active"
      /\ fiber'[f].handle = fiber[f].handle /\ fiber'[f].epoch = drive[f].binding
      /\ fiber'[f].loaded = fiber[f].loaded /\ fiber'[f].config = fiber[f].config
      /\ fiber'[f].loading = None
  BY <1>0, <1>1, TypeFacts DEF FiberRecord, DriveRecord, FiberState
<1>3. /\ published' = published /\ entries' = entries /\ dispose_requested' = dispose_requested
      /\ force_reload' = force_reload /\ updating' = updating /\ registered' = registered
      /\ calls' = calls
  BY DEF Commit, scope, flags, outside
<1>4. /\ State(f) = "Loading" /\ transition[f] # <<>> /\ Call(f).kind \in {"start", "restart"}
      /\ ~At(f, "Handing")
  BY <1>0, <1>1 DEF Local, Placed, At, Loads
<1>5. /\ entries' \in [Capabilities -> 0..Len(published)] /\ dispose_requested' \in [Fibers -> BOOLEAN]
      /\ force_reload' \in [Fibers -> BOOLEAN] /\ updating' \subseteq Fibers
      /\ registered' \subseteq Fibers /\ calls' \in 0..MaxCalls
      /\ transition' = [transition EXCEPT ![f] = transition'[f]]
      /\ transition'[f] \in Seq(CallRecord(Len(published)))
      /\ drive' = [drive EXCEPT ![f] = drive'[f]] /\ drive'[f] = Rest
  BY <1>0, <1>1, <1>3, <1>4, ReturnFacts DEF FiberTypeOK
<1>6. Rest.at = "Waiting" /\ Rest \in DriveRecord(Len(published))
  BY <1>0, TypeFacts DEF Rest
<1>7. Asked(f)'
  BY <1>1, <1>3, <1>4, ReturnAsked
<1>8. Placed(f)'
  BY <1>2, <1>5, <1>6 DEF Placed, At, State, Loads, Unloads
<1>9. Held(f)'
  BY <1>2 DEF Held, State
<1>10. Bound(f)'
  BY <1>0, <1>1, <1>2, <1>3, <1>5, <1>6 DEF Local, Bound, At, State, Loads, Mine, EntryIds
<1>11. Fresh(f)'
  <2>1. SUFFICES ASSUME fiber[f].loaded # fiber[f].config, f \notin updating
                 PROVE  Restarting(f, 1)'
    BY <1>2, <1>3, <1>5, <1>6 DEF Fresh, Loads
  <2>2. PICK i \in 1..Len(transition[f]) : i >= 2 /\ transition[f][i].kind = "restart"
    BY <1>0, <1>1, <2>1 DEF Local, Fresh, Restarting, Loads
  <2>3. i \in 2..Len(transition[f])
    BY <1>0, <2>2, TypeFacts
  <2>4. i - 1 \in 1..Len(transition'[f]) /\ transition'[f][i - 1] = transition[f][i]
    BY <1>0, <1>1, <1>4, <2>3, ReturnFacts
  <2> QED BY <2>2, <2>4 DEF Restarting
<1> QED BY <1>1, <1>2, <1>3, <1>4, <1>5, <1>6, <1>7, <1>8, <1>9, <1>10, <1>11, LocalStep

LEMMA DisposeEffectsStep ==
  ASSUME IInv, NEW f \in Fibers, DisposeEffects(f)
  PROVE  IInv'
<1>0. FiberTypeOK /\ Local(f)
  BY DEF IInv
<1>1. /\ fiber'[f] = [fiber[f] EXCEPT !.effects = FALSE]
      /\ drive'[f] = [drive[f] EXCEPT !.at = "Releasing"] /\ drive[f].at = "Unloading"
      /\ fiber' = [fiber EXCEPT ![f] = fiber'[f]] /\ drive' = [drive EXCEPT ![f] = drive'[f]]
  BY <1>0 DEF DisposeEffects, Goto, At, FiberTypeOK
<1>2. /\ fiber'[f] \in FiberRecord(Len(published)) /\ fiber'[f].state = fiber[f].state
      /\ fiber'[f].handle = fiber[f].handle /\ fiber'[f].effects = FALSE
      /\ fiber'[f].loading = fiber[f].loading
      /\ drive'[f] \in DriveRecord(Len(published)) /\ drive'[f].at = "Releasing"
      /\ drive'[f].force = drive[f].force
  BY <1>0, <1>1, TypeFacts DEF FiberRecord, DriveRecord, Place
<1>3. /\ published' = published /\ entries' = entries /\ dispose_requested' = dispose_requested
      /\ force_reload' = force_reload /\ updating' = updating /\ registered' = registered
      /\ calls' = calls /\ transition' = transition
  BY DEF DisposeEffects, scope, flags, outside
<1>4. /\ entries' \in [Capabilities -> 0..Len(published)] /\ dispose_requested' \in [Fibers -> BOOLEAN]
      /\ force_reload' \in [Fibers -> BOOLEAN] /\ updating' \subseteq Fibers
      /\ registered' \subseteq Fibers /\ calls' \in 0..MaxCalls
      /\ transition' = [transition EXCEPT ![f] = transition'[f]]
      /\ transition'[f] \in Seq(CallRecord(Len(published)))
  BY <1>0, <1>3, TypeFacts DEF FiberTypeOK
<1>5. State(f) = "Unloading" /\ transition[f] # <<>> /\ fiber[f].loading = None /\ ~At(f, "Handing")
  BY <1>0, <1>1 DEF Local, Placed, Held, At, Loads, Unloads
<1>6. Placed(f)'
  BY <1>2, <1>3, <1>5 DEF Placed, At, State, Loads, Unloads
<1>7. Asked(f)'
  BY <1>0, <1>1, <1>2, <1>3, <1>5 DEF Local, Asked, At, State, Call
<1>8. Held(f)' /\ Bound(f)' /\ Fresh(f)'
  BY <1>2, <1>5 DEF Held, Bound, Fresh, At, State, Loads, Unloads
<1> QED BY <1>1, <1>2, <1>3, <1>4, <1>5, <1>6, <1>7, <1>8, LocalStep

(* What a fiber held is not in the scope any more when it lets go of it.   *)
LEMMA ReleaseStep ==
  ASSUME IInv, Detached, NEW f \in Fibers, Release(f)
  PROVE  IInv'
<1> DEFINE e == fiber[f].handle
<1>0. FiberTypeOK /\ Local(f) /\ Shown
  BY DEF IInv
<1>1. /\ fiber'[f] = [fiber[f] EXCEPT !.handle = NoEntry]
      /\ drive'[f] = [drive[f] EXCEPT !.at = "Settling"] /\ drive[f].at = "Releasing"
      /\ fiber' = [fiber EXCEPT ![f] = fiber'[f]] /\ drive' = [drive EXCEPT ![f] = drive'[f]]
  BY <1>0 DEF Release, Goto, At, FiberTypeOK
<1>2. /\ fiber'[f] \in FiberRecord(Len(published)) /\ fiber'[f].state = fiber[f].state
      /\ fiber'[f].handle = NoEntry /\ fiber'[f].effects = fiber[f].effects
      /\ fiber'[f].loading = fiber[f].loading
      /\ drive'[f] \in DriveRecord(Len(published)) /\ drive'[f].at = "Settling"
      /\ drive'[f].force = drive[f].force
  BY <1>0, <1>1, TypeFacts DEF FiberRecord, DriveRecord, Place
<1>3. /\ published' = published /\ dispose_requested' = dispose_requested
      /\ force_reload' = force_reload /\ updating' = updating /\ registered' = registered
      /\ calls' = calls /\ transition' = transition
      /\ entries' = IF e # NoEntry /\ e # Call(f).detached /\ Withdrawable(e) THEN Without(e) ELSE entries
  BY DEF Release, flags, outside
<1>4. /\ dispose_requested' \in [Fibers -> BOOLEAN]
      /\ force_reload' \in [Fibers -> BOOLEAN] /\ updating' \subseteq Fibers
      /\ registered' \subseteq Fibers /\ calls' \in 0..MaxCalls
      /\ transition' = [transition EXCEPT ![f] = transition'[f]]
      /\ transition'[f] \in Seq(CallRecord(Len(published)))
  BY <1>0, <1>3, TypeFacts DEF FiberTypeOK
<1>5. /\ State(f) = "Unloading" /\ transition[f] # <<>> /\ ~At(f, "Handing")
      /\ fiber[f].loading = None /\ fiber[f].effects = FALSE
  <2>1. fiber[f].effects \in BOOLEAN
    BY <1>0, TypeFacts DEF FiberRecord
  <2> QED BY <1>0, <1>1, <2>1 DEF Local, Placed, Held, At, State, Loads, Unloads
<1>6. Gone(Call(f).detached)
  <2>1. 1 \in 1..Len(transition[f])
    BY <1>0, <1>5, TypeFacts
  <2> QED BY <2>1 DEF Detached, Call
<1>7. /\ entries' \in [Capabilities -> 0..Len(published)]
      /\ \A c \in Capabilities : entries'[c] = NoEntry \/ entries'[c] = entries[c]
      /\ e # NoEntry /\ e # Call(f).detached /\ Withdrawable(e) => entries'[published[e].id] = NoEntry
  <2>1. entries \in [Capabilities -> 0..Len(published)] /\ NoEntry \in 0..Len(published)
    BY <1>0, TypeFacts DEF FiberTypeOK
  <2>2. CASE e # NoEntry /\ e # Call(f).detached /\ Withdrawable(e)
    <3>1. entries' = Without(e)
      BY <1>3, <2>2
    <3>2. published[e].id \in Capabilities
      <4>1. published[e] \in Publication(Len(published))
        BY <1>0, <2>2, TypeFacts DEF FiberTypeOK, FiberRecord, NoEntry
      <4> QED BY <4>1 DEF Publication
    <3> QED BY <2>1, <3>1, <3>2 DEF Without
  <2>3. CASE ~(e # NoEntry /\ e # Call(f).detached /\ Withdrawable(e))
    BY <1>3, <2>1, <2>3
  <2> QED BY <2>2, <2>3
<1>8. ASSUME NEW c \in Capabilities, entries'[c] # NoEntry
      PROVE  e # entries[c]
  <2>1. SUFFICES ASSUME e = entries[c] PROVE FALSE
    OBVIOUS
  <2>2. entries[c] # NoEntry
    BY <1>7, <1>8
  <2>3. published[e].id = c
    BY <1>0, <2>1, <2>2 DEF Shown
  <2>4. Withdrawable(e)
    BY <2>1, <2>2, <2>3 DEF Withdrawable
  <2>5. e # Call(f).detached
    BY <1>6, <2>1, <2>2 DEF Gone
  <2> QED BY <1>7, <1>8, <2>1, <2>2, <2>3, <2>4, <2>5
<1>9. Placed(f)'
  BY <1>2, <1>3, <1>5 DEF Placed, At, State, Loads, Unloads
<1>10. Asked(f)'
  BY <1>0, <1>1, <1>2, <1>3, <1>5 DEF Local, Asked, At, State, Call
<1>11. Held(f)' /\ Bound(f)' /\ Fresh(f)'
  BY <1>2, <1>5 DEF Held, Bound, Fresh, At, State, Loads, Unloads
<1> QED BY <1>1, <1>2, <1>3, <1>4, <1>5, <1>7, <1>8, <1>9, <1>10, <1>11, LocalStep

LEMMA SettleStep ==
  ASSUME IInv, NEW f \in Fibers, Settle(f)
  PROVE  IInv'
<1> DEFINE state == IF Call(f).kind = "dispose" THEN "Disposed" ELSE "Pending"
<1>0. FiberTypeOK /\ Local(f)
  BY DEF IInv
<1>1. /\ fiber' = [fiber EXCEPT ![f] = fiber'[f]]
      /\ fiber'[f] = [fiber[f] EXCEPT !.state = state, !.epoch = None, !.loading = None, !.effects = FALSE]
      /\ drive[f].at = "Settling"
  BY <1>0 DEF Settle, At, FiberTypeOK
<1>2. state \in FiberState
  BY DEF FiberState
<1>3. /\ fiber'[f] \in FiberRecord(Len(published)) /\ fiber'[f].handle = fiber[f].handle
      /\ fiber'[f].epoch = None /\ fiber'[f].loading = None /\ fiber'[f].effects = FALSE
      /\ State(f)' = state
  <2> HIDE DEF state
  <2> QED BY <1>0, <1>1, <1>2, TypeFacts DEF FiberRecord, State
<1>4. /\ UNCHANGED <<scope, dispose_requested, outside>> /\ force_reload' \in [Fibers -> BOOLEAN]
      /\ registered' \subseteq Fibers
  BY <1>0 DEF Settle, flags, FiberTypeOK
<1>5. transition[f] # <<>> /\ State(f) # "Active"
  BY <1>0, <1>1 DEF Local, Placed, At, State, Loads, Unloads
<1>6. Call(f).kind = "dispose" => dispose_requested[f]
  <2>1. 1 \in 1..Len(transition[f])
    BY <1>0, <1>5, TypeFacts
  <2> QED BY <1>0, <2>1 DEF Local, Asked, Call
<1>7. CASE Return(f)
  BY <1>1, <1>3, <1>4, <1>5, <1>6, <1>7, EndStep
<1>8. CASE Call(f).kind \in {"start", "restart"} /\ Goto(f, "Resolving") /\ UNCHANGED transition
  BY <1>1, <1>3, <1>4, <1>8, LoopStep
<1> QED BY <1>7, <1>8 DEF Settle

-----------------------------------------------------------------------------
(* A publication goes to the end of the list, and into the scope.          *)
LEMMA PublishFacts ==
  ASSUME FiberTypeOK, NEW d \in Definition, NEW pins \in Bindings(Len(published)), NEW by \in Nat,
         Publish(d, pins, by)
  PROVE  /\ Len(published)' = Len(published) + 1 /\ Grows
         /\ published' \in Seq(Publication(Len(published) + 1))
         /\ published'[Len(published) + 1].id = d.id
         /\ published'[Len(published) + 1].by = by
         /\ published'[Len(published) + 1].pins = pins
         /\ entries' = [entries EXCEPT ![d.id] = Len(published) + 1]
         /\ entries' \in [Capabilities -> 0..(Len(published) + 1)]
<1> DEFINE n == Len(published)
           generation == IF entries[d.id] = NoEntry THEN 1 ELSE published[entries[d.id]].generation + 1
           r == [id |-> d.id, dependencies |-> d.dependencies, pins |-> pins, by |-> by,
                 generation |-> generation]
<1>1. n \in Nat /\ published \in Seq(Publication(n)) /\ entries \in [Capabilities -> 0..n]
  BY DEF FiberTypeOK
<1>2. d.id \in Capabilities /\ d.dependencies \in SUBSET Capabilities
  BY DEF Definition
<1>3. generation \in Nat \ {0}
  <2>1. entries[d.id] # NoEntry => published[entries[d.id]] \in Publication(n)
    BY <1>1, <1>2 DEF NoEntry
  <2> QED BY <2>1 DEF Publication
<1>4. Publication(n) \subseteq Publication(n + 1) /\ Bindings(n) \subseteq Bindings(n + 1)
  BY <1>1, RecordsGrow, BindingsGrow
<1>5. r \in Publication(n + 1)
  <2> HIDE DEF generation
  <2> QED BY <1>2, <1>3, <1>4 DEF Publication
<1>6. published' = Append(published, r) /\ entries' = [entries EXCEPT ![d.id] = n + 1]
  BY DEF Publish
<1>7. r.id = d.id /\ r.by = by /\ r.pins = pins
  OBVIOUS
<1> HIDE DEF r
<1>8. published \in Seq(Publication(n + 1))
  BY <1>1, <1>4
<1>9. /\ published' \in Seq(Publication(n + 1)) /\ Len(published') = n + 1
      /\ published'[n + 1] = r /\ \A e \in 1..n : published'[e] = published[e]
  BY <1>5, <1>6, <1>8
<1>10. entries' \in [Capabilities -> 0..(n + 1)]
  BY <1>1, <1>2, <1>6
<1> QED BY <1>1, <1>6, <1>7, <1>9, <1>10 DEF Grows, EntryIds

(* The types of everything else grow with the list.                        *)
LEMMA PublishTypes ==
  ASSUME FiberTypeOK, NEW d \in Definition, NEW pins \in Bindings(Len(published)), NEW by \in Nat,
         Publish(d, pins, by),
         fiber' = fiber, drive' \in [Fibers -> DriveRecord(Len(published) + 1)],
         UNCHANGED <<flags, transition, registered, outside>>
  PROVE  FiberTypeOK'
<1> DEFINE n == Len(published)
<1>1. n \in Nat /\ n + 1 \in Nat /\ n <= n + 1
  BY DEF FiberTypeOK
<1>2. FiberRecord(n) \subseteq FiberRecord(n + 1) /\ CallRecord(n) \subseteq CallRecord(n + 1)
  BY <1>1, RecordsGrow
<1>3. fiber' \in [Fibers -> FiberRecord(n + 1)]
  BY <1>2 DEF FiberTypeOK
<1>4. Seq(CallRecord(n)) \subseteq Seq(CallRecord(n + 1))
  BY <1>2
<1>5. transition' \in [Fibers -> Seq(CallRecord(n + 1))]
  BY <1>4 DEF FiberTypeOK
<1>6. Len(published)' = n + 1
  BY PublishFacts
<1>7. /\ Publication(Len(published))' = Publication(n + 1)
      /\ FiberRecord(Len(published))' = FiberRecord(n + 1)
      /\ DriveRecord(Len(published))' = DriveRecord(n + 1)
      /\ CallRecord(Len(published))' = CallRecord(n + 1)
  BY <1>6 DEF Publication, FiberRecord, DriveRecord, CallRecord, Bindings
<1>8. published' \in Seq(Publication(n + 1)) /\ entries' \in [Capabilities -> 0..(n + 1)]
  BY PublishFacts
<1>9. /\ dispose_requested' \in [Fibers -> BOOLEAN] /\ force_reload' \in [Fibers -> BOOLEAN]
      /\ updating' \subseteq Fibers /\ registered' \subseteq Fibers /\ calls' \in 0..MaxCalls
  BY DEF FiberTypeOK, flags, outside
<1>10. drive' \in [Fibers -> DriveRecord(n + 1)]
  OBVIOUS
<1> HIDE DEF n
<1> QED BY <1>3, <1>5, <1>6, <1>7, <1>8, <1>9, <1>10 DEF FiberTypeOK

LEMMA PublishShown ==
  ASSUME IInv, NEW d \in Definition, NEW pins \in Bindings(Len(published)), NEW by \in Nat,
         Publish(d, pins, by), fiber' = fiber,
         \A g \in Fibers : At(g, "Handing") => At(g, "Handing")' /\ drive'[g].entry = drive[g].entry,
         \A g \in Fibers : by = g => At(g, "Handing")' /\ drive'[g].entry = Len(published) + 1
  PROVE  Shown'
<1>0. FiberTypeOK /\ Shown
  BY DEF IInv
<1>1. d.id \in Capabilities
  BY DEF Definition
<1> SUFFICES ASSUME NEW c \in Capabilities, entries'[c] # NoEntry
             PROVE  /\ published'[entries'[c]].id = c
                    /\ \A f \in Fibers : published'[entries'[c]].by = f =>
                         \/ fiber'[f].handle = entries'[c]
                         \/ At(f, "Handing")' /\ drive'[f].entry = entries'[c]
  BY DEF Shown
<1>2. CASE c = d.id
  <2>1. entries'[c] = Len(published) + 1
    BY <1>0, <1>1, <1>2, PublishFacts DEF FiberTypeOK
  <2> QED BY <1>0, <1>2, <2>1, PublishFacts
<1>3. CASE c # d.id
  <2>1. entries'[c] = entries[c] /\ entries[c] \in EntryIds
    BY <1>0, <1>3, PublishFacts DEF FiberTypeOK, EntryIds, NoEntry
  <2>2. published'[entries'[c]] = published[entries[c]]
    BY <1>0, <2>1, PublishFacts DEF Grows
  <2> QED BY <1>0, <2>1, <2>2 DEF Shown
<1> QED BY <1>2, <1>3

LEMMA ProvideValueStep ==
  ASSUME IInv, NEW f \in Fibers, ProvideValue(f)
  PROVE  IInv'
<1> DEFINE n == Len(published)
<1>0. FiberTypeOK /\ Local(f)
  BY DEF IInv
<1>1. drive[f].at = "Publishing" /\ UNCHANGED <<fiber, flags, transition, registered, outside>>
  BY DEF ProvideValue, At
<1>2. CASE Refuse(f)
  BY <1>1, <1>2, GotoStep DEF Refuse
<1>3. CASE Admit(f)
  <2>1. /\ drive[f].binding \in Bindings(n) /\ Plugin[f] \in Definition /\ f \in Nat
        /\ Publish(Plugin[f], drive[f].binding, f)
        /\ drive' = [drive EXCEPT ![f].at = "Handing", ![f].entry = n + 1]
    BY <1>0, <1>3, TypeFacts, FiberAssumption DEF Admit, DriveRecord
  <2>2. drive'[f] = [drive[f] EXCEPT !.at = "Handing", !.entry = n + 1]
    BY <1>0, <2>1 DEF FiberTypeOK
  <2>3. /\ n \in Nat /\ Bindings(n) \subseteq Bindings(n + 1)
        /\ DriveRecord(n) \subseteq DriveRecord(n + 1)
    BY <1>0, RecordsGrow, BindingsGrow DEF FiberTypeOK
  <2>4. /\ drive'[f] \in DriveRecord(n + 1) /\ drive'[f].at = "Handing" /\ drive'[f].entry = n + 1
        /\ drive'[f].force = drive[f].force /\ drive'[f].binding = drive[f].binding
    <3>1. drive[f] \in DriveRecord(n + 1) /\ n + 1 \in 0..(n + 1)
      BY <1>0, <2>3, TypeFacts
    <3> QED BY <2>2, <3>1 DEF DriveRecord, Place
  <2>5. \A g \in Fibers \ {f} : drive'[g] = drive[g]
    BY <1>0, <2>1 DEF FiberTypeOK
  <2>6. drive' \in [Fibers -> DriveRecord(n + 1)]
    <3>1. drive \in [Fibers -> DriveRecord(n + 1)]
      BY <1>0, <2>3 DEF FiberTypeOK
    <3> QED BY <2>1, <2>4, <3>1
  <2> HIDE DEF n
  <2>7. FiberTypeOK'
    BY <1>0, <1>1, <2>1, <2>6, PublishTypes DEF n
  <2>8. Shown'
    <3>1. ~At(f, "Handing") /\ At(f, "Handing")'
      BY <1>1, <2>4 DEF At
    <3>2. \A g \in Fibers : At(g, "Handing") => At(g, "Handing")' /\ drive'[g].entry = drive[g].entry
      BY <2>5, <3>1 DEF At
    <3> QED BY <1>1, <2>1, <2>4, <3>1, <3>2, PublishShown DEF n
  <2>9. /\ Grows /\ published'[n + 1].by = f /\ published'[n + 1].pins = drive[f].binding
        /\ Len(published)' = n + 1
    BY <1>0, <2>1, PublishFacts DEF n
  <2>10. /\ State(f) = "Loading" /\ transition[f] # <<>> /\ Call(f).kind \in {"start", "restart"}
         /\ fiber[f].handle = NoEntry /\ fiber[f].epoch = None
    BY <1>0, <1>1 DEF Local, Placed, Held, At, State, Loads, Unloads
  <2>11. Placed(f)'
    BY <1>1, <2>4, <2>10 DEF Placed, At, State, Loads, Unloads, Call
  <2>12. Asked(f)'
    BY <1>0, <1>1, <2>4, <2>10 DEF Local, Asked, At, State, Call, flags
  <2>13. Held(f)'
    BY <1>1, <2>4, <2>10 DEF Held, Loads
  <2>14. Bound(f)'
    <3>1. drive'[f].binding \in [Requires(f) -> EntryIds]
      BY <1>0, <1>1, <2>4 DEF Local, Bound, At, Loads
    <3>2. EntryIds \subseteq EntryIds' /\ n + 1 \in EntryIds'
      BY <2>3, <2>9 DEF EntryIds, Grows, n
    <3>3. drive'[f].binding \in [Requires(f) -> EntryIds]'
      BY <3>1, <3>2 DEF Requires
    <3>4. /\ drive'[f].entry \in EntryIds' /\ published'[drive'[f].entry].by = f
          /\ published'[drive'[f].entry].pins = drive'[f].binding
      BY <2>4, <2>9, <3>2
    <3>5. State(f)' # "Active" /\ ~At(f, "Committing")'
      BY <1>1, <2>4, <2>10 DEF State, At
    <3> QED BY <3>3, <3>4, <3>5 DEF Bound, Mine
  <2>15. Fresh(f)'
    BY <1>0, <1>1, <2>4, <2>10 DEF Local, Fresh, At, State, Loads, Restarting, outside
  <2>16. \A g \in Fibers \ {f} : Kept(g)
    BY <1>1, <2>5 DEF Kept, flags, outside
  <2>17. \A g \in Fibers \ {f} : Local(g)'
    BY <1>0, <2>7, <2>9, <2>16, KeptLocal DEF IInv
  <2> QED BY <2>7, <2>8, <2>11, <2>12, <2>13, <2>14, <2>15, <2>17 DEF IInv, Local
<1> QED BY <1>2, <1>3 DEF ProvideValue

-----------------------------------------------------------------------------
(* What the application does.                                              *)
LEMMA EnqueueFacts ==
  ASSUME FiberTypeOK, NEW f \in Fibers, NEW kind \in {"start", "restart", "dispose", "deactivate"},
         NEW by \in {"caller", "coordinator"}, NEW detached \in 0..Len(published),
         Enqueue(f, kind, by, detached)
  PROVE  /\ transition' = [transition EXCEPT ![f] = transition'[f]]
         /\ transition'[f] \in Seq(CallRecord(Len(published)))
         /\ Len(transition'[f]) = Len(transition[f]) + 1 /\ Len(transition[f]) \in Nat
         /\ transition'[f] # <<>>
         /\ transition[f] # <<>> => Call(f)' = Call(f) /\ Len(transition[f]) >= 1
         /\ \A i \in 1..Len(transition[f]) :
              i \in 1..Len(transition'[f]) /\ transition'[f][i] = transition[f][i]
         /\ transition'[f][Len(transition[f]) + 1].kind = kind
         /\ transition'[f][Len(transition[f]) + 1].by = by
         /\ transition'[f][Len(transition[f]) + 1].detached = detached
<1> DEFINE call == [kind |-> kind, by |-> by, detached |-> detached]
<1>1. transition[f] \in Seq(CallRecord(Len(published))) /\ call \in CallRecord(Len(published))
  BY TypeFacts DEF CallRecord
<1>2. transition' = [transition EXCEPT ![f] = Append(transition[f], call)]
  BY DEF Enqueue
<1>3. call.kind = kind /\ call.by = by /\ call.detached = detached
  OBVIOUS
<1> HIDE DEF call
<1>4. transition'[f] = Append(transition[f], call) /\ transition' = [transition EXCEPT ![f] = transition'[f]]
  BY <1>2 DEF FiberTypeOK
<1>5. /\ Append(transition[f], call) \in Seq(CallRecord(Len(published)))
      /\ Len(Append(transition[f], call)) = Len(transition[f]) + 1
      /\ Append(transition[f], call)[Len(transition[f]) + 1] = call
      /\ \A i \in 1..Len(transition[f]) : Append(transition[f], call)[i] = transition[f][i]
      /\ Len(transition[f]) \in Nat
  BY <1>1
<1>6. transition'[f] # <<>> /\ (transition[f] # <<>> => Len(transition[f]) >= 1)
  BY <1>1, <1>4, <1>5
<1>7. transition[f] # <<>> => Head(transition'[f]) = Head(transition[f])
  BY <1>1, <1>4, <1>5, <1>6
<1> QED BY <1>3, <1>4, <1>5, <1>6, <1>7 DEF Call

LEMMA EnqueueStep ==
  ASSUME IInv, NEW f \in Fibers, NEW kind \in {"start", "restart", "dispose", "deactivate"},
         NEW by \in {"caller", "coordinator"}, NEW detached \in 0..Len(published),
         Enqueue(f, kind, by, detached),
         UNCHANGED <<scope, fiber, drive, registered>>,
         force_reload' \in [Fibers -> BOOLEAN], calls' \in 0..MaxCalls,
         dispose_requested' = IF kind = "dispose" THEN [dispose_requested EXCEPT ![f] = TRUE]
                              ELSE dispose_requested,
         updating' = updating \/ (updating' = updating \ {f} /\ kind = "restart")
  PROVE  IInv'
<1> DEFINE m == Len(transition[f]) + 1
<1>0. FiberTypeOK /\ Local(f)
  BY DEF IInv
<1>1. /\ m \in Nat \ {0} /\ m \in 1..Len(transition'[f]) /\ transition'[f][m].kind = kind
      /\ \A i \in 1..Len(transition[f]) :
           i \in 1..Len(transition'[f]) /\ transition'[f][i] = transition[f][i]
      /\ \A i \in 1..Len(transition'[f]) : i \in 1..Len(transition[f]) \/ i = m
      /\ transition[f] # <<>> => m >= 2
  BY <1>0, EnqueueFacts
<1> HIDE DEF m
<1>2. /\ dispose_requested' \in [Fibers -> BOOLEAN]
      /\ \A g \in Fibers \ {f} : dispose_requested'[g] = dispose_requested[g]
      /\ dispose_requested[f] => dispose_requested'[f]
      /\ dispose_requested'[f] => dispose_requested[f] \/ kind = "dispose"
      /\ kind = "dispose" => dispose_requested'[f]
  BY <1>0 DEF FiberTypeOK
<1>3. transition'[f] # <<>> /\ (transition[f] # <<>> => Call(f)' = Call(f))
  BY <1>0, EnqueueFacts
<1>4. Placed(f)'
  BY <1>0, <1>2, <1>3 DEF Local, Placed, At, State, Loads, Unloads
<1>5. Asked(f)'
  <2>1. \A i \in 1..Len(transition'[f]) : transition'[f][i].kind = "dispose" => dispose_requested'[f]
    BY <1>0, <1>1, <1>2 DEF Local, Asked
  <2>2. dispose_requested'[f] =>
          \/ State(f)' = "Disposed"
          \/ \E i \in 1..Len(transition'[f]) : transition'[f][i].kind = "dispose"
    BY <1>0, <1>1, <1>2 DEF Local, Asked, State
  <2>3. ~At(f, "Waiting")' /\ Call(f)'.kind = "restart" => drive'[f].force
    BY <1>0, <1>3 DEF Local, Placed, Asked, At
  <2> QED BY <2>1, <2>2, <2>3 DEF Asked
<1>6. Held(f)' /\ Bound(f)'
  BY <1>0 DEF Local, Held, Bound, At, State, Mine, EntryIds, Requires, scope
<1>7. Fresh(f)'
  <2>1. SUFFICES ASSUME fiber[f].loaded # fiber[f].config
                 PROVE  /\ drive[f].at \in Loads => f \in updating' \/ Restarting(f, 2)'
                        /\ State(f) = "Active" => \/ f \in updating' \/ dispose_requested'[f]
                                                  \/ Restarting(f, 1)'
    BY DEF Fresh, State
  <2>2. f \in updating => f \in updating' \/ kind = "restart"
    OBVIOUS
  <2>3. ASSUME drive[f].at \in Loads PROVE f \in updating' \/ Restarting(f, 2)'
    <3>1. m >= 2
      BY <1>0, <1>1, <2>3 DEF Local, Placed, At, Loads
    <3>2. CASE f \in updating
      BY <1>1, <2>2, <3>1, <3>2 DEF Restarting
    <3>3. CASE Restarting(f, 2)
      BY <1>1, <3>3 DEF Restarting
    <3> QED BY <1>0, <2>1, <2>3, <3>2, <3>3 DEF Local, Fresh
  <2>4. ASSUME State(f) = "Active"
        PROVE  f \in updating' \/ dispose_requested'[f] \/ Restarting(f, 1)'
    <3>1. CASE f \in updating
      BY <1>1, <2>2, <3>1 DEF Restarting
    <3>2. CASE Restarting(f, 1)
      BY <1>1, <3>2 DEF Restarting
    <3> QED BY <1>0, <1>2, <2>1, <2>4, <3>1, <3>2 DEF Local, Fresh
  <2> QED BY <2>3, <2>4
<1>8. /\ published' = published /\ entries' = entries /\ registered' = registered
      /\ entries' \in [Capabilities -> 0..Len(published)] /\ registered' \subseteq Fibers
      /\ updating' \subseteq Fibers /\ updating' \ {f} = updating \ {f}
      /\ fiber' = [fiber EXCEPT ![f] = fiber'[f]] /\ fiber'[f] \in FiberRecord(Len(published))
      /\ drive' = [drive EXCEPT ![f] = drive'[f]] /\ drive'[f] \in DriveRecord(Len(published))
  BY <1>0, TypeFacts DEF scope, FiberTypeOK
<1>9. /\ transition' = [transition EXCEPT ![f] = transition'[f]]
      /\ transition'[f] \in Seq(CallRecord(Len(published)))
  BY <1>0, EnqueueFacts
<1>10. fiber'[f] = fiber[f] /\ drive'[f] = drive[f]
  OBVIOUS
<1> QED BY <1>2, <1>4, <1>5, <1>6, <1>7, <1>8, <1>9, <1>10, LocalStep DEF At

LEMMA FiberCallStep ==
  ASSUME IInv, FiberCall
  PROVE  IInv'
<1>0. FiberTypeOK
  BY DEF IInv
<1>1. /\ calls' \in 0..MaxCalls /\ force_reload \in [Fibers -> BOOLEAN]
      /\ NoEntry \in 0..Len(published)
  BY <1>0, FiberAssumption DEF FiberCall, FiberTypeOK, NoEntry
<1>2. PICK f \in Fibers : Start(f) \/ Restart(f) \/ Update(f) \/ Dispose(f)
  BY DEF FiberCall
<1>3. CASE Start(f)
  BY <1>1, <1>3, EnqueueStep DEF Start, flags
<1>4. CASE Restart(f)
  <2>1. force_reload' \in [Fibers -> BOOLEAN]
    BY <1>1, <1>4 DEF Restart
  <2> QED BY <1>1, <1>4, <2>1, EnqueueStep DEF Restart
<1>5. CASE Dispose(f)
  BY <1>1, <1>5, EnqueueStep DEF Dispose
<1>6. CASE Update(f)
  <2>1. /\ fiber' = [fiber EXCEPT ![f] = fiber'[f]]
        /\ fiber'[f] = [fiber[f] EXCEPT !.config = fiber[f].config + 1]
        /\ updating' = updating \cup {f} /\ UNCHANGED <<scope, flags, transition, drive, registered>>
    BY <1>0, <1>6 DEF Update, FiberTypeOK
  <2>2. fiber[f] \in FiberRecord(Len(published)) /\ fiber[f].config + 1 \in Nat
    BY <1>0, TypeFacts DEF FiberRecord
  <2>3. /\ fiber'[f] \in FiberRecord(Len(published)) /\ fiber'[f].state = fiber[f].state
        /\ fiber'[f].handle = fiber[f].handle /\ fiber'[f].effects = fiber[f].effects
        /\ fiber'[f].epoch = fiber[f].epoch /\ fiber'[f].loading = fiber[f].loading
    BY <2>1, <2>2 DEF FiberRecord
  <2>4. Local(f)
    BY DEF IInv
  <2>5. Placed(f)' /\ Asked(f)' /\ Held(f)'
    BY <2>1, <2>3, <2>4 DEF Local, Placed, Asked, Held, At, State, Call, flags
  <2>6. Bound(f)' /\ Fresh(f)'
    BY <2>1, <2>3, <2>4 DEF Local, Bound, Fresh, At, State, Mine, EntryIds, Requires, scope
  <2>7. /\ published' = published /\ entries' = entries /\ registered' = registered
        /\ dispose_requested' = dispose_requested /\ force_reload' = force_reload
        /\ drive' = drive /\ transition' = transition
    BY <2>1 DEF scope, flags
  <2>8. /\ entries' \in [Capabilities -> 0..Len(published)] /\ registered' \subseteq Fibers
        /\ updating' \subseteq Fibers /\ updating' \ {f} = updating \ {f}
        /\ dispose_requested' \in [Fibers -> BOOLEAN] /\ force_reload' \in [Fibers -> BOOLEAN]
        /\ drive' = [drive EXCEPT ![f] = drive'[f]] /\ drive'[f] \in DriveRecord(Len(published))
        /\ transition' = [transition EXCEPT ![f] = transition'[f]]
        /\ transition'[f] \in Seq(CallRecord(Len(published)))
    BY <1>0, <2>1, <2>7, TypeFacts DEF FiberTypeOK
  <2> QED BY <1>1, <2>1, <2>3, <2>5, <2>6, <2>7, <2>8, LocalStep DEF At
<1> QED BY <1>2, <1>3, <1>4, <1>5, <1>6

LEMMA RestartUpdatedStep ==
  ASSUME IInv, NEW f \in Fibers, RestartUpdated(f)
  PROVE  IInv'
<1>0. FiberTypeOK /\ Local(f)
  BY DEF IInv
<1>1. /\ calls' \in 0..MaxCalls /\ force_reload \in [Fibers -> BOOLEAN]
      /\ UNCHANGED <<scope, fiber, dispose_requested, drive, registered>>
      /\ f \in updating /\ updating' = updating \ {f} /\ NoEntry \in 0..Len(published)
  BY <1>0 DEF RestartUpdated, FiberTypeOK, NoEntry
<1>2. CASE Enqueue(f, "restart", "caller", NoEntry) /\ force_reload' = [force_reload EXCEPT ![f] = TRUE]
  <2>1. force_reload' \in [Fibers -> BOOLEAN]
    BY <1>1, <1>2
  <2> QED BY <1>1, <1>2, <2>1, EnqueueStep
<1>3. CASE State(f) = "Disposed" /\ UNCHANGED <<force_reload, transition>>
  <2>1. Placed(f)' /\ Asked(f)' /\ Held(f)' /\ Bound(f)'
    BY <1>0, <1>1, <1>3
       DEF Local, Placed, Asked, Held, Bound, At, State, Call, Mine, EntryIds, Requires, scope
  <2>2. Fresh(f)'
    BY <1>0, <1>1, <1>3 DEF Local, Placed, Fresh, At, State, Loads
  <2>3. /\ published' = published /\ entries' = entries /\ registered' = registered
        /\ dispose_requested' = dispose_requested /\ force_reload' = force_reload
        /\ drive' = drive /\ transition' = transition /\ fiber' = fiber
    BY <1>1, <1>3 DEF scope
  <2>4. /\ entries' \in [Capabilities -> 0..Len(published)] /\ registered' \subseteq Fibers
        /\ updating' \subseteq Fibers /\ updating' \ {f} = updating \ {f}
        /\ dispose_requested' \in [Fibers -> BOOLEAN] /\ force_reload' \in [Fibers -> BOOLEAN]
        /\ drive' = [drive EXCEPT ![f] = drive'[f]] /\ drive'[f] \in DriveRecord(Len(published))
        /\ fiber' = [fiber EXCEPT ![f] = fiber'[f]] /\ fiber'[f] \in FiberRecord(Len(published))
        /\ transition' = [transition EXCEPT ![f] = transition'[f]]
        /\ transition'[f] \in Seq(CallRecord(Len(published)))
    BY <1>0, <1>1, <2>3, TypeFacts DEF FiberTypeOK
  <2> QED BY <1>1, <2>1, <2>2, <2>3, <2>4, LocalStep DEF At
<1> QED BY <1>2, <1>3 DEF RestartUpdated

LEMMA RegisterEffectStep ==
  ASSUME IInv, NEW f \in Fibers, RegisterEffect(f)
  PROVE  IInv'
<1>0. FiberTypeOK /\ Local(f)
  BY DEF IInv
<1>1. /\ fiber' = [fiber EXCEPT ![f] = fiber'[f]] /\ State(f) = "Active"
      /\ fiber'[f] = [fiber[f] EXCEPT !.effects = TRUE]
      /\ UNCHANGED <<scope, flags, transition, drive, registered, outside>>
  BY <1>0 DEF RegisterEffect, FiberTypeOK
<1>2. /\ fiber'[f] \in FiberRecord(Len(published)) /\ fiber'[f].state = fiber[f].state
      /\ fiber'[f].handle = fiber[f].handle /\ fiber'[f].loaded = fiber[f].loaded
      /\ fiber'[f].config = fiber[f].config
      /\ fiber'[f].epoch = fiber[f].epoch /\ fiber'[f].loading = fiber[f].loading
  BY <1>0, <1>1, TypeFacts DEF FiberRecord
<1>3. /\ published' = published /\ entries' = entries /\ registered' = registered
      /\ dispose_requested' = dispose_requested /\ force_reload' = force_reload
      /\ drive' = drive /\ transition' = transition /\ updating' = updating /\ calls' = calls
  BY <1>1 DEF scope, flags, outside
<1>4. /\ entries' \in [Capabilities -> 0..Len(published)] /\ registered' \subseteq Fibers
      /\ updating' \subseteq Fibers /\ calls' \in 0..MaxCalls
      /\ dispose_requested' \in [Fibers -> BOOLEAN] /\ force_reload' \in [Fibers -> BOOLEAN]
      /\ drive' = [drive EXCEPT ![f] = drive'[f]] /\ drive'[f] \in DriveRecord(Len(published))
      /\ transition' = [transition EXCEPT ![f] = transition'[f]]
      /\ transition'[f] \in Seq(CallRecord(Len(published)))
  BY <1>0, <1>3, TypeFacts DEF FiberTypeOK
<1>5. Placed(f)' /\ Asked(f)' /\ Held(f)'
  BY <1>0, <1>1, <1>2, <1>3 DEF Local, Placed, Asked, Held, At, State, Call
<1>6. Bound(f)' /\ Fresh(f)'
  BY <1>0, <1>2, <1>3 DEF Local, Bound, Fresh, At, State, Mine, EntryIds, Requires, Restarting
<1> QED BY <1>1, <1>2, <1>3, <1>4, <1>5, <1>6, LocalStep DEF At

LEMMA ScopeCallStep ==
  ASSUME IInv, ScopeCall
  PROVE  IInv'
<1>0. FiberTypeOK /\ Shown
  BY DEF IInv
<1>1. UNCHANGED <<fiber, flags, transition, drive, registered, outside>>
  BY DEF ScopeCall
<1>2. \A g \in Fibers : Kept(g)
  BY <1>1 DEF Kept, flags, outside
<1>3. ASSUME FiberTypeOK', Grows, Shown' PROVE IInv'
  BY <1>0, <1>2, <1>3, KeptLocal DEF IInv
<1>4. ASSUME NEW c \in Providers, Provide(c) PROVE IInv'
  <2> DEFINE d == [id |-> c, dependencies |-> {}]
             none == [x \in {} |-> NoEntry]
             n == Len(published)
  <2>1. d \in Definition
    BY FiberAssumption DEF Definition
  <2>2. none \in Bindings(n)
    <3>1. none \in [{} -> 1..n]
      OBVIOUS
    <3> QED BY <3>1 DEF Bindings
  <2>3. Publish(d, none, 0)
    BY <1>4 DEF Provide
  <2>4. drive' \in [Fibers -> DriveRecord(n + 1)]
    <3>1. DriveRecord(n) \subseteq DriveRecord(n + 1)
      BY <1>0, RecordsGrow DEF FiberTypeOK
    <3> QED BY <1>0, <1>1, <3>1 DEF FiberTypeOK
  <2>5. 0 \notin Fibers /\ 0 \in Nat
    BY FiberAssumption
  <2> HIDE DEF d, none, n
  <2>6. FiberTypeOK' /\ Grows
    BY <1>0, <1>1, <2>1, <2>2, <2>3, <2>4, <2>5, PublishTypes, PublishFacts DEF n
  <2>7. Shown'
    BY <1>1, <2>1, <2>2, <2>3, <2>5, PublishShown DEF n, At
  <2> QED BY <1>3, <2>6, <2>7
<1>5. ASSUME NEW c \in Capabilities, entries' = [entries EXCEPT ![c] = NoEntry], published' = published
      PROVE  IInv'
  <2>1. entries' \in [Capabilities -> 0..Len(published)]
    BY <1>0, <1>5, TypeFacts DEF FiberTypeOK, NoEntry
  <2>2. FiberTypeOK'
    <3>1. /\ Publication(Len(published))' = Publication(Len(published))
          /\ FiberRecord(Len(published))' = FiberRecord(Len(published))
          /\ DriveRecord(Len(published))' = DriveRecord(Len(published))
          /\ CallRecord(Len(published))' = CallRecord(Len(published))
      BY <1>5 DEF Publication, FiberRecord, DriveRecord, CallRecord, Bindings
    <3> QED BY <1>0, <1>1, <1>5, <2>1, <3>1 DEF FiberTypeOK, flags, outside
  <2>3. Grows
    BY <1>0, <1>5 DEF Grows, FiberTypeOK
  <2>4. \A x \in Capabilities : entries'[x] = NoEntry \/ entries'[x] = entries[x]
    BY <1>0, <1>5 DEF FiberTypeOK
  <2>5. Shown'
    BY <1>0, <1>1, <2>2, <2>3, <2>4, KeptShown DEF At
  <2> QED BY <1>3, <2>2, <2>3, <2>5
<1> QED BY <1>4, <1>5 DEF ScopeCall

-----------------------------------------------------------------------------
LEMMA FiberInitStep == FiberInit => IInv
<1> SUFFICES ASSUME FiberInit PROVE IInv
  OBVIOUS
<1>1. published = <<>> /\ Len(published) = 0 /\ \A c \in Capabilities : entries[c] = NoEntry
  BY DEF FiberInit
<1>2. None \in Bindings(0) /\ NoEntry \in 0..0
  BY DEF Bindings, NoEntry
<1>3. FiberTypeOK
  <2>1. Rest \in DriveRecord(0)
    BY <1>2 DEF Rest, DriveRecord, Place
  <2>2. \A f \in Fibers : fiber[f] \in FiberRecord(0)
    BY <1>2 DEF FiberInit, FiberRecord, FiberState
  <2>3. fiber \in [Fibers -> FiberRecord(0)] /\ drive \in [Fibers -> DriveRecord(0)]
    BY <2>1, <2>2 DEF FiberInit
  <2>4. /\ transition \in [Fibers -> Seq(CallRecord(0))] /\ published \in Seq(Publication(0))
        /\ entries \in [Capabilities -> 0..0]
    BY <1>2 DEF FiberInit
  <2>5. /\ dispose_requested \in [Fibers -> BOOLEAN] /\ force_reload \in [Fibers -> BOOLEAN]
        /\ updating \subseteq Fibers /\ registered \subseteq Fibers /\ calls \in 0..MaxCalls
    BY FiberAssumption DEF FiberInit
  <2> QED BY <1>1, <2>3, <2>4, <2>5 DEF FiberTypeOK
<1>4. Shown
  BY <1>1 DEF Shown
<1>5. ASSUME NEW f \in Fibers PROVE Local(f)
  <2>1. /\ State(f) = "Pending" /\ fiber[f].handle = NoEntry /\ fiber[f].effects = FALSE
        /\ fiber[f].epoch = None /\ fiber[f].loading = None /\ fiber[f].loaded = fiber[f].config
        /\ drive[f].at = "Waiting" /\ Len(transition[f]) = 0 /\ dispose_requested[f] = FALSE
    BY DEF FiberInit, State, Rest
  <2> QED BY <2>1 DEF Local, Placed, Asked, Held, Bound, Fresh, At, Loads, Unloads
<1> QED BY <1>3, <1>4, <1>5 DEF IInv

LEMMA FiberNextStep == IInv /\ Detached /\ [FiberNext]_fvars => IInv'
<1> SUFFICES ASSUME IInv, Detached, [FiberNext]_fvars PROVE IInv'
  OBVIOUS
<1>1. CASE FiberCall
  BY <1>1, FiberCallStep
<1>2. CASE ScopeCall
  BY <1>2, ScopeCallStep
<1>3. ASSUME NEW f \in Fibers, FiberStep(f) PROVE IInv'
  BY <1>3, BeginStep, ResolveStep, EnterLoadingStep, ConstructStep, DecideStep, DiscardStep,
     ProvideValueStep, RetryStep, FailStep, SetHandleStep, CommitStep, DisposeEffectsStep,
     ReleaseStep, SettleStep DEF FiberStep
<1>4. ASSUME NEW f \in Fibers, RestartUpdated(f) \/ RegisterEffect(f) PROVE IInv'
  BY <1>4, RestartUpdatedStep, RegisterEffectStep
<1>5. CASE UNCHANGED fvars
  <2>1. /\ published' = published /\ entries' = entries /\ registered' = registered /\ fiber' = fiber
        /\ dispose_requested' = dispose_requested /\ force_reload' = force_reload
        /\ drive' = drive /\ transition' = transition /\ updating' = updating /\ calls' = calls
    BY <1>5 DEF fvars, scope, flags, outside
  <2>2. FiberTypeOK
    BY DEF IInv
  <2>3. FiberTypeOK'
    <3>1. /\ Publication(Len(published))' = Publication(Len(published))
          /\ FiberRecord(Len(published))' = FiberRecord(Len(published))
          /\ DriveRecord(Len(published))' = DriveRecord(Len(published))
          /\ CallRecord(Len(published))' = CallRecord(Len(published))
      BY <2>1 DEF Publication, FiberRecord, DriveRecord, CallRecord, Bindings
    <3> QED BY <2>1, <2>2, <3>1 DEF FiberTypeOK
  <2>4. Grows
    BY <2>1, <2>2 DEF Grows, FiberTypeOK
  <2>5. \A g \in Fibers : Local(g)'
    BY <2>1, <2>2, <2>3, <2>4, KeptLocal DEF IInv, Kept
  <2>6. Shown'
    BY <2>1 DEF IInv, Shown, At
  <2> QED BY <2>3, <2>5, <2>6 DEF IInv
<1> QED BY <1>1, <1>2, <1>3, <1>4, <1>5 DEF FiberNext

-----------------------------------------------------------------------------
(* Entries only leave the scope or are new, and calls were there before or *)
(* are callers' own, without an entry.                                     *)
Fewer == \A c \in Capabilities : entries'[c] \in {NoEntry, entries[c], Len(published) + 1}
Was(f, call) == \E j \in 1..Len(transition[f]) : call = transition[f][j]
Older(f) ==
  \A i \in 1..Len(transition'[f]) :
    \/ /\ transition'[f][i].detached = NoEntry /\ transition'[f][i].by = "caller"
       /\ transition'[f][i].kind # "deactivate"
    \/ Was(f, transition'[f][i])

LEMMA GoneStays ==
  ASSUME Fewer, NEW e \in 0..Len(published), Len(published) \in Nat, Gone(e)
  PROVE  Gone(e)'
BY DEF Fewer, Gone

LEMMA DetachedKept ==
  ASSUME FiberTypeOK, Detached, Fewer, \A f \in Fibers : Older(f)
  PROVE  Detached'
<1> SUFFICES ASSUME NEW f \in Fibers, NEW i \in 1..Len(transition'[f])
             PROVE  Gone(transition[f][i].detached)'
  BY DEF Detached
<1>1. CASE transition'[f][i].detached = NoEntry
  BY <1>1 DEF Gone
<1>2. ASSUME NEW j \in 1..Len(transition[f]), transition'[f][i] = transition[f][j]
      PROVE  Gone(transition[f][i].detached)'
  <2>1. transition[f][j].detached \in 0..Len(published) /\ Len(published) \in Nat
    BY CallFacts
  <2>2. Gone(transition[f][j].detached)
    BY DEF Detached
  <2> QED BY <1>2, <2>1, <2>2 DEF Gone, Fewer
<1>3. Older(f)
  OBVIOUS
<1> QED BY <1>1, <1>2, <1>3 DEF Older, Was

Returning(f) == \A i \in 1..Len(transition'[f]) : Was(f, transition'[f][i])

LEMMA FiberStepTraffic ==
  ASSUME IInv, NEW f \in Fibers, FiberStep(f)
  PROVE  Fewer /\ \A g \in Fibers : Returning(g)
<1>0. FiberTypeOK /\ entries \in [Capabilities -> 0..Len(published)]
  BY DEF IInv, FiberTypeOK
<1>1. \A g \in Fibers : transition'[g] = transition[g] => Returning(g)
  BY DEF Returning, Was
<1>2. ASSUME transition[f] # <<>>, Return(f) PROVE \A g \in Fibers : Returning(g)
  <2>1. Returning(f)
    <3>1. \A i \in 1..Len(transition'[f]) :
            i + 1 \in 2..Len(transition[f]) /\ transition'[f][i] = transition[f][i + 1]
      BY <1>0, <1>2, ReturnFacts
    <3>2. \A i \in 1..Len(transition'[f]) : i + 1 \in 1..Len(transition[f])
      BY <1>0, <3>1, TypeFacts
    <3> QED BY <3>1, <3>2 DEF Returning, Was
  <2>2. \A g \in Fibers \ {f} : transition'[g] = transition[g]
    BY <1>0, <1>2 DEF Return, FiberTypeOK
  <2> QED BY <1>1, <2>1, <2>2
<1>3. ~At(f, "Waiting") => transition[f] # <<>>
  BY DEF IInv, Local, Placed
<1>4. entries' = entries => Fewer
  BY DEF Fewer
<1>5. CASE Begin(f)
  BY <1>1, <1>2, <1>4, <1>5 DEF Begin, BeginUnload, scope
<1>6. CASE Resolve(f)
  <2>1. At(f, "Resolving") /\ entries' = entries /\ (transition' = transition \/ Return(f))
    BY <1>6 DEF Resolve, BeginUnload, scope
  <2> QED BY <1>1, <1>2, <1>3, <1>4, <2>1 DEF At
<1>7. CASE EnterLoading(f) \/ Construct(f) \/ Decide(f) \/ Retry(f) \/ SetHandle(f) \/ DisposeEffects(f)
  <2>1. entries' = entries /\ transition' = transition
    BY <1>7 DEF EnterLoading, Construct, Decide, Retry, SetHandle, DisposeEffects, scope
  <2> QED BY <1>1, <1>4, <2>1
<1>8. CASE Discard(f) \/ Fail(f) \/ Commit(f) \/ Settle(f)
  <2>1. /\ drive[f].at # "Waiting" /\ entries' = entries
        /\ transition' = transition \/ Return(f)
    BY <1>8 DEF Discard, Fail, Commit, Settle, scope, At
  <2> QED BY <1>1, <1>2, <1>3, <1>4, <2>1 DEF At
<1>9. CASE ProvideValue(f)
  <2>1. transition' = transition
    BY <1>9 DEF ProvideValue
  <2>2. Fewer
    <3>1. CASE Admit(f)
      <4>1. entries' = [entries EXCEPT ![Plugin[f].id] = Len(published) + 1]
        BY <3>1 DEF Admit, Publish
      <4> QED BY <1>0, <4>1 DEF Fewer
    <3>2. CASE Refuse(f)
      BY <1>4, <3>2 DEF Refuse, scope
    <3> QED BY <1>9, <3>1, <3>2 DEF ProvideValue
  <2> QED BY <1>1, <2>1, <2>2
<1>10. CASE Release(f)
  <2>1. transition' = transition
    BY <1>10 DEF Release
  <2>2. entries' = entries \/ \E e : entries' = Without(e)
    BY <1>10 DEF Release
  <2>3. Fewer
    BY <1>0, <2>2 DEF Fewer, Without
  <2> QED BY <1>1, <2>1, <2>3
<1> QED BY <1>5, <1>6, <1>7, <1>8, <1>9, <1>10 DEF FiberStep

LEMMA EnqueueTraffic ==
  ASSUME FiberTypeOK, NEW f \in Fibers, NEW kind \in {"start", "restart", "dispose"},
         Enqueue(f, kind, "caller", NoEntry)
  PROVE  \A g \in Fibers : Older(g)
<1>1. Older(f)
  <2>1. NoEntry \in 0..Len(published)
    BY TypeFacts
  <2>2. /\ Len(transition'[f]) = Len(transition[f]) + 1 /\ Len(transition[f]) \in Nat
        /\ \A i \in 1..Len(transition[f]) : transition'[f][i] = transition[f][i]
        /\ transition'[f][Len(transition[f]) + 1].detached = NoEntry
        /\ transition'[f][Len(transition[f]) + 1].by = "caller"
        /\ transition'[f][Len(transition[f]) + 1].kind # "deactivate"
    BY <2>1, EnqueueFacts
  <2>3. \A i \in 1..Len(transition'[f]) : i \in 1..Len(transition[f]) \/ i = Len(transition[f]) + 1
    BY <2>2
  <2> QED BY <2>2, <2>3 DEF Older, Was
<1>2. \A g \in Fibers \ {f} : transition'[g] = transition[g]
  BY DEF Enqueue, FiberTypeOK
<1> QED BY <1>1, <1>2 DEF Older, Was

LEMMA FiberTraffic ==
  ASSUME IInv, [FiberNext]_fvars
  PROVE  Fewer /\ \A g \in Fibers : Older(g)
<1>0. FiberTypeOK /\ entries \in [Capabilities -> 0..Len(published)]
  BY DEF IInv, FiberTypeOK
<1>1. transition' = transition => \A g \in Fibers : Older(g)
  BY DEF Older, Was
<1>2. entries' = entries => Fewer
  BY DEF Fewer
<1>3. CASE FiberCall
  <2>1. PICK f \in Fibers : Start(f) \/ Restart(f) \/ Update(f) \/ Dispose(f)
    BY <1>3 DEF FiberCall
  <2>2. entries' = entries
    BY <2>1 DEF Start, Restart, Update, Dispose, scope
  <2>3. \A g \in Fibers : Older(g)
    BY <1>0, <1>1, <2>1, EnqueueTraffic DEF Start, Restart, Update, Dispose
  <2> QED BY <1>2, <2>2, <2>3
<1>4. CASE ScopeCall
  <2>1. transition' = transition
    BY <1>4 DEF ScopeCall
  <2>2. ASSUME NEW c \in Providers, Provide(c) PROVE Fewer
    <3>1. entries' = [entries EXCEPT ![c] = Len(published) + 1]
      BY <2>2 DEF Provide, Publish
    <3> QED BY <1>0, <3>1 DEF Fewer
  <2>3. ASSUME NEW c \in Capabilities, entries' = [entries EXCEPT ![c] = NoEntry] PROVE Fewer
    BY <1>0, <2>3 DEF Fewer
  <2> QED BY <1>1, <1>4, <2>1, <2>2, <2>3 DEF ScopeCall
<1>5. ASSUME NEW f \in Fibers, RestartUpdated(f) PROVE Fewer /\ \A g \in Fibers : Older(g)
  BY <1>0, <1>1, <1>2, <1>5, EnqueueTraffic DEF RestartUpdated, scope
<1>6. ASSUME NEW f \in Fibers, RegisterEffect(f) PROVE Fewer /\ \A g \in Fibers : Older(g)
  BY <1>1, <1>2, <1>6 DEF RegisterEffect, scope
<1>7. CASE UNCHANGED fvars
  BY <1>1, <1>2, <1>7 DEF fvars, scope
<1>8. ASSUME NEW f \in Fibers, FiberStep(f) PROVE Fewer /\ \A g \in Fibers : Older(g)
  BY <1>8, FiberStepTraffic DEF Older, Returning
<1> QED BY <1>3, <1>4, <1>5, <1>6, <1>7, <1>8 DEF FiberNext

LEMMA FiberInvariant == FiberSpec => [](IInv /\ Detached)
<1>1. FiberInit => Detached
  BY DEF FiberInit, Detached
<1>2. IInv /\ Detached /\ [FiberNext]_fvars => Detached'
  BY FiberTraffic, DetachedKept DEF IInv
<1> QED BY <1>1, <1>2, FiberInitStep, FiberNextStep, PTL DEF FiberSpec

-----------------------------------------------------------------------------
(* What a step can do to a fiber, as far as the action properties go.      *)
Moves(f) ==
  /\ At(f, "Handing")' => At(f, "Handing") \/ (At(f, "Publishing") /\ Admit(f))
  /\ At(f, "Publishing")' => At(f, "Publishing") \/ (At(f, "Returned") /\ ~Stale(f))
  /\ fiber[f].handle # NoEntry /\ fiber'[f].handle = NoEntry => ~fiber[f].effects
  /\ State(f) = "Disposed" => State(f)' = "Disposed"

LEMMA MovesAside ==
  ASSUME NEW f \in Fibers, drive'[f] = drive[f],
         fiber'[f].handle = fiber[f].handle, fiber'[f].state = fiber[f].state
  PROVE  Moves(f)
BY DEF Moves, At, State

LEMMA FiberStepMoves ==
  ASSUME IInv, NEW f \in Fibers, FiberStep(f)
  PROVE  Moves(f)
<1>0. FiberTypeOK /\ Local(f)
  BY DEF IInv
<1>1. fiber \in [Fibers -> FiberRecord(Len(published))] /\ drive \in [Fibers -> DriveRecord(Len(published))]
  BY <1>0 DEF FiberTypeOK
<1>2. /\ fiber[f] \in FiberRecord(Len(published)) /\ drive[f] \in DriveRecord(Len(published))
      /\ State(f) = "Disposed" => drive[f].at = "Waiting" /\ dispose_requested[f]
      /\ drive[f].at = "Releasing" => ~fiber[f].effects
  BY <1>0, <1>1 DEF Local, Placed, Held, At, State, Loads, Unloads, DriveRecord, Place
<1>3. Return(f) => drive'[f].at = "Waiting"
  BY <1>1 DEF Return, Rest
<1>4. \A place : Goto(f, place) => drive'[f].at = place
  BY <1>1, <1>2 DEF Goto, DriveRecord
<1>5. CASE Begin(f)
  <2>1. transition[f] # <<>> /\ drive[f].at = "Waiting"
    BY <1>5 DEF Begin, At
  <2>2. Call(f).kind \in {"start", "restart", "dispose", "deactivate"}
    <3>1. 1 \in 1..Len(transition[f])
      BY <1>0, <2>1, TypeFacts
    <3> QED BY <1>0, <3>1, CallFacts DEF Call
  <2>3. State(f) = "Disposed" => Refused(f)
    BY <1>2, <2>2 DEF Refused
  <2>4. drive'[f].at \in {"Waiting", "Resolving", "Unloading"} /\ fiber'[f].handle = fiber[f].handle
    BY <1>1, <1>2, <1>3, <1>5 DEF Begin, BeginUnload, SetState, DriveRecord, FiberRecord
  <2>5. State(f) = "Disposed" => State(f)' = "Disposed"
    BY <1>5, <2>3 DEF Begin, State
  <2> QED BY <2>4, <2>5 DEF Moves, At
<1>6. CASE Resolve(f)
  <2>1. /\ drive'[f].at \in {"Waiting", "Entering", "Unloading"} /\ fiber'[f].handle = fiber[f].handle
        /\ drive[f].at = "Resolving"
    BY <1>1, <1>2, <1>3, <1>6 DEF Resolve, BeginUnload, SetState, At, DriveRecord, FiberRecord
  <2> QED BY <1>2, <2>1 DEF Moves, At
<1>7. CASE EnterLoading(f) \/ Construct(f)
  <2>1. /\ drive'[f].at \in {"Constructing", "Returned"} /\ fiber'[f].handle = fiber[f].handle
        /\ drive[f].at # "Waiting"
    BY <1>1, <1>2, <1>4, <1>7 DEF EnterLoading, Construct, At, DriveRecord, FiberRecord
  <2> QED BY <1>2, <2>1 DEF Moves, At
<1>8. CASE Decide(f)
  <2>1. /\ drive'[f].at \in {"Discarding", "Publishing", "Failing"} /\ fiber' = fiber
        /\ drive[f].at = "Returned" /\ (drive'[f].at = "Publishing" => ~Stale(f))
    BY <1>4, <1>8 DEF Decide, At
  <2> QED BY <1>2, <2>1 DEF Moves, At
<1>9. CASE Discard(f) \/ Retry(f) \/ Fail(f)
  <2>1. /\ drive'[f].at \in {"Waiting", "Resolving"} /\ fiber'[f].handle = fiber[f].handle
        /\ drive[f].at # "Waiting"
    BY <1>1, <1>2, <1>3, <1>4, <1>9 DEF Discard, Retry, Fail, Unwound, At, FiberRecord
  <2> QED BY <1>2, <2>1 DEF Moves, At
<1>10. CASE ProvideValue(f)
  <2>1. /\ drive'[f].at \in {"Retrying", "Failing"} \/ (Admit(f) /\ drive'[f].at = "Handing")
        /\ fiber' = fiber /\ drive[f].at = "Publishing"
    BY <1>1, <1>2, <1>4, <1>10 DEF ProvideValue, Admit, Refuse, At, DriveRecord
  <2> QED BY <1>2, <2>1 DEF Moves, At
<1>11. CASE SetHandle(f)
  <2>1. /\ drive'[f].at = "Committing" /\ fiber'[f].handle = drive[f].entry
        /\ drive[f].at = "Handing"
    BY <1>1, <1>2, <1>4, <1>11 DEF SetHandle, At, FiberRecord
  <2>2. drive[f].entry # NoEntry
    BY <1>0, <2>1 DEF Local, Bound, Mine, At, EntryIds, NoEntry
  <2> QED BY <1>2, <2>1, <2>2 DEF Moves, At
<1>12. CASE Commit(f) \/ Settle(f)
  <2>1. /\ drive'[f].at \in {"Waiting", "Resolving"} /\ fiber'[f].handle = fiber[f].handle
        /\ drive[f].at # "Waiting"
    BY <1>1, <1>2, <1>3, <1>4, <1>12 DEF Commit, Settle, At, FiberRecord
  <2> QED BY <1>2, <2>1 DEF Moves, At
<1>13. CASE DisposeEffects(f)
  <2>1. /\ drive'[f].at = "Releasing" /\ fiber'[f].handle = fiber[f].handle /\ drive[f].at = "Unloading"
    BY <1>1, <1>2, <1>4, <1>13 DEF DisposeEffects, At, FiberRecord
  <2> QED BY <1>2, <2>1 DEF Moves, At
<1>14. CASE Release(f)
  <2>1. drive'[f].at = "Settling" /\ drive[f].at = "Releasing"
    BY <1>4, <1>14 DEF Release, At
  <2> QED BY <1>2, <2>1 DEF Moves, At
<1> QED BY <1>5, <1>6, <1>7, <1>8, <1>9, <1>10, <1>11, <1>12, <1>13, <1>14 DEF FiberStep

LEMMA OthersMove ==
  ASSUME IInv, NEW f \in Fibers, NEW g \in Fibers \ {f}, FiberStep(g)
  PROVE  drive'[f] = drive[f] /\ fiber'[f] = fiber[f] /\ transition'[f] = transition[f]
<1> DEFINE Alone == drive'[f] = drive[f] /\ fiber'[f] = fiber[f] /\ transition'[f] = transition[f]
<1>1. /\ fiber \in [Fibers -> FiberRecord(Len(published))] /\ drive \in [Fibers -> DriveRecord(Len(published))]
      /\ transition \in [Fibers -> Seq(CallRecord(Len(published)))]
  BY DEF IInv, FiberTypeOK
<1>2. /\ Return(g) => drive'[f] = drive[f] /\ transition'[f] = transition[f]
      /\ \A place : Goto(g, place) => drive'[f] = drive[f]
      /\ \A b : BeginUnload(g, b) => Alone
      /\ \A state : SetState(g, state) => fiber'[f] = fiber[f]
      /\ \A state : Unwound(g, state) => fiber'[f] = fiber[f]
  BY <1>1 DEF Return, Goto, BeginUnload, SetState, Unwound
<1>3. Begin(g) => Alone
  BY <1>1, <1>2 DEF Begin
<1>4. Resolve(g) => Alone
  BY <1>1, <1>2 DEF Resolve
<1>5. EnterLoading(g) \/ Construct(g) \/ Decide(g) => Alone
  BY <1>1, <1>2 DEF EnterLoading, Construct, Decide
<1>6. Discard(g) \/ Retry(g) \/ Fail(g) => Alone
  BY <1>2 DEF Discard, Retry, Fail
<1>7. ProvideValue(g) => Alone
  BY <1>1, <1>2 DEF ProvideValue, Admit, Refuse
<1>8. SetHandle(g) \/ Commit(g) \/ Settle(g) => Alone
  BY <1>1, <1>2 DEF SetHandle, Commit, Settle
<1>9. DisposeEffects(g) \/ Release(g) => Alone
  BY <1>1, <1>2 DEF DisposeEffects, Release
<1> QED BY <1>3, <1>4, <1>5, <1>6, <1>7, <1>8, <1>9 DEF FiberStep

(* What a step of a fiber does to its bindings and to its call.            *)
Turns(f) ==
  /\ State(f)' = "Active" => \/ State(f) = "Active" /\ fiber'[f].epoch = fiber[f].epoch
                             \/ At(f, "Committing") /\ fiber'[f].epoch = drive[f].binding
  /\ fiber'[f].epoch \in {fiber[f].epoch, None} \/ At(f, "Committing")
  /\ fiber'[f].handle \in {fiber[f].handle, NoEntry} \/ At(f, "Handing")
  /\ drive'[f].at \in Loads \cup {"Entering"} =>
       \/ drive[f].at \in Loads \cup {"Entering"} /\ drive'[f].binding = drive[f].binding
       \/ Satisfied(f) /\ drive'[f].binding = Current(f)
  /\ \/ transition'[f] = transition[f]
     \/ transition'[f] = Tail(transition[f]) /\ (Call(f).kind = "deactivate" => State(f)' # "Active")
  /\ transition[f] # <<>>

LEMMA FiberStepTurns ==
  ASSUME IInv, NEW f \in Fibers, FiberStep(f)
  PROVE  Turns(f)
<1>0. FiberTypeOK /\ Local(f)
  BY DEF IInv
<1>1. /\ fiber \in [Fibers -> FiberRecord(Len(published))] /\ drive \in [Fibers -> DriveRecord(Len(published))]
      /\ transition \in [Fibers -> Seq(CallRecord(Len(published)))]
  BY <1>0 DEF FiberTypeOK
<1>2. /\ fiber[f] \in FiberRecord(Len(published)) /\ drive[f] \in DriveRecord(Len(published))
      /\ drive[f].at \in Loads => State(f) = "Loading"
      /\ drive[f].at = "Entering" => State(f) = "Pending"
      /\ drive[f].at \in Unloads => State(f) = "Unloading"
      /\ drive[f].at \in Loads \cup {"Resolving", "Entering"} => Call(f).kind # "deactivate"
      /\ drive[f].at # "Waiting" => transition[f] # <<>>
  BY <1>0, <1>1 DEF Local, Placed, At, State
<1>3. Return(f) => drive'[f].at = "Waiting" /\ transition'[f] = Tail(transition[f])
  BY <1>1 DEF Return, Rest
<1>4. \A place : Goto(f, place) => drive'[f].at = place /\ drive'[f].binding = drive[f].binding
  BY <1>1, <1>2 DEF Goto, DriveRecord
<1>5. \A b : BeginUnload(f, b) => /\ drive'[f].at = "Unloading" /\ transition'[f] = transition[f]
                                  /\ fiber'[f].state = "Unloading" /\ fiber'[f].epoch = fiber[f].epoch
                                  /\ fiber'[f].handle = fiber[f].handle
  BY <1>1, <1>2 DEF BeginUnload, SetState, DriveRecord, FiberRecord
<1>6. \A state : Unwound(f, state) => /\ fiber'[f].state = state /\ fiber'[f].epoch = fiber[f].epoch
                                      /\ fiber'[f].handle = fiber[f].handle
  BY <1>1, <1>2 DEF Unwound, FiberRecord
<1>7. CASE Begin(f)
  <2>1. transition[f] # <<>> /\ drive[f].at = "Waiting"
    BY <1>7 DEF Begin, At
  <2>2. CASE Refused(f) /\ Return(f) /\ UNCHANGED <<fiber, force_reload>>
    <3>1. Call(f).kind = "deactivate" => State(f) # "Active"
      BY <2>2 DEF Refused
    <3> QED BY <1>3, <2>1, <2>2, <3>1 DEF Turns, State, Loads
  <2>3. CASE BeginUnload(f, None)
    BY <1>5, <2>1, <2>3 DEF Turns, State, Loads
  <2>4. CASE \E force : /\ drive' = [drive EXCEPT ![f].at = "Resolving", ![f].force = force]
                        /\ UNCHANGED <<fiber, transition>>
    <3>1. drive'[f].at = "Resolving"
      BY <1>1, <1>2, <2>4 DEF DriveRecord
    <3> QED BY <2>1, <2>4, <3>1 DEF Turns, State, Loads
  <2> QED BY <1>7, <2>2, <2>3, <2>4 DEF Begin
<1>8. CASE Resolve(f)
  <2>1. drive[f].at = "Resolving"
    BY <1>8 DEF Resolve, At
  <2>2. CASE BeginUnload(f, None) \/ BeginUnload(f, Current(f))
    BY <1>2, <1>5, <2>1, <2>2 DEF Turns, State, Loads
  <2>3. CASE SetState(f, "Pending") /\ Return(f)
    <3>1. /\ fiber'[f].state = "Pending" /\ fiber'[f].epoch = fiber[f].epoch
          /\ fiber'[f].handle = fiber[f].handle
      BY <1>1, <1>2, <2>3 DEF SetState, FiberRecord
    <3> QED BY <1>2, <1>3, <2>1, <2>3, <3>1 DEF Turns, State, Loads
  <2>4. CASE Return(f) /\ UNCHANGED fiber
    BY <1>2, <1>3, <2>1, <2>4 DEF Turns, State, Loads
  <2>5. CASE /\ Satisfied(f) /\ UNCHANGED <<fiber, transition>>
             /\ drive' = [drive EXCEPT ![f].at = "Entering", ![f].binding = Current(f)]
    <3>1. drive'[f].at = "Entering" /\ drive'[f].binding = Current(f)
      BY <1>1, <1>2, <2>5 DEF DriveRecord
    <3> QED BY <1>2, <2>1, <2>5, <3>1 DEF Turns, State, Loads
  <2> QED BY <1>8, <2>2, <2>3, <2>4, <2>5 DEF Resolve
<1>9. CASE EnterLoading(f) \/ Construct(f)
  <2>1. /\ fiber'[f].state = "Loading" /\ fiber'[f].epoch = fiber[f].epoch
        /\ fiber'[f].handle = fiber[f].handle /\ drive'[f].binding = drive[f].binding
        /\ drive[f].at \in {"Entering", "Constructing"} /\ transition' = transition
    BY <1>1, <1>2, <1>4, <1>9 DEF EnterLoading, Construct, At, State, DriveRecord, FiberRecord, Loads
  <2> QED BY <1>2, <2>1 DEF Turns, State, Loads
<1>10. CASE Decide(f) \/ ProvideValue(f)
  <2>1. /\ fiber' = fiber /\ transition' = transition /\ drive[f].at \in {"Returned", "Publishing"}
        /\ drive'[f].binding = drive[f].binding
    BY <1>1, <1>2, <1>4, <1>10 DEF Decide, ProvideValue, Admit, Refuse, At, DriveRecord
  <2> QED BY <1>2, <2>1 DEF Turns, State, Loads
<1>11. CASE Discard(f) \/ Retry(f) \/ Fail(f)
  <2>1. /\ drive[f].at \in {"Discarding", "Retrying", "Failing"}
        /\ drive'[f].at \in {"Resolving", "Waiting"}
        /\ fiber'[f].epoch = fiber[f].epoch /\ fiber'[f].handle = fiber[f].handle
        /\ fiber'[f].state # "Active"
        /\ transition' = transition \/ Return(f)
    BY <1>2, <1>3, <1>4, <1>6, <1>11 DEF Discard, Retry, Fail, At, State, Loads
  <2> QED BY <1>2, <1>3, <2>1 DEF Turns, State, Loads
<1>12. CASE SetHandle(f)
  <2>1. /\ fiber'[f].state = "Loading" /\ fiber'[f].epoch = fiber[f].epoch /\ drive[f].at = "Handing"
        /\ drive'[f].binding = drive[f].binding /\ transition' = transition
    BY <1>1, <1>2, <1>4, <1>12 DEF SetHandle, At, State, FiberRecord, Loads
  <2> QED BY <1>2, <2>1 DEF Turns, At, State, Loads
<1>13. CASE Commit(f)
  <2>1. /\ fiber'[f].epoch = drive[f].binding /\ fiber'[f].handle = fiber[f].handle
        /\ drive[f].at = "Committing" /\ Return(f)
    BY <1>1, <1>2, <1>13 DEF Commit, At, FiberRecord
  <2> QED BY <1>2, <1>3, <2>1 DEF Turns, At, State, Loads
<1>14. CASE DisposeEffects(f) \/ Release(f)
  <2>1. /\ fiber'[f].state = "Unloading" /\ fiber'[f].epoch = fiber[f].epoch
        /\ fiber'[f].handle \in {fiber[f].handle, NoEntry} /\ transition' = transition
        /\ drive[f].at \in Unloads /\ drive'[f].at \in {"Releasing", "Settling"}
    BY <1>1, <1>2, <1>4, <1>14 DEF DisposeEffects, Release, At, State, FiberRecord, Unloads
  <2> QED BY <1>2, <2>1 DEF Turns, State, Loads, Unloads
<1>15. CASE Settle(f)
  <2>1. /\ fiber'[f].state # "Active" /\ fiber'[f].epoch = None /\ fiber'[f].handle = fiber[f].handle
        /\ drive[f].at = "Settling" /\ drive'[f].at \in {"Resolving", "Waiting"}
        /\ transition' = transition \/ Return(f)
    BY <1>1, <1>2, <1>3, <1>4, <1>15 DEF Settle, At, FiberRecord
  <2> QED BY <1>2, <1>3, <2>1 DEF Turns, State, Loads, Unloads
<1> QED BY <1>7, <1>8, <1>9, <1>10, <1>11, <1>12, <1>13, <1>14, <1>15 DEF FiberStep

LEMMA NextMoves ==
  ASSUME IInv, [FiberNext]_fvars, NEW f \in Fibers
  PROVE  Moves(f)
<1>1. fiber \in [Fibers -> FiberRecord(Len(published))]
  BY DEF IInv, FiberTypeOK
<1>2. ASSUME NEW g \in Fibers, FiberStep(g) PROVE Moves(f)
  BY <1>2, FiberStepMoves, OthersMove, MovesAside
<1>3. ASSUME NEW g \in Fibers, RegisterEffect(g) PROVE Moves(f)
  <2>1. drive'[f] = drive[f] /\ fiber'[f].handle = fiber[f].handle /\ fiber'[f].state = fiber[f].state
    BY <1>1, <1>3 DEF RegisterEffect, FiberRecord
  <2> QED BY <2>1, MovesAside
<1>4. ASSUME NEW g \in Fibers, Update(g) PROVE Moves(f)
  <2>1. drive'[f] = drive[f] /\ fiber'[f].handle = fiber[f].handle /\ fiber'[f].state = fiber[f].state
    BY <1>1, <1>4 DEF Update, FiberRecord
  <2> QED BY <2>1, MovesAside
<1>5. ASSUME drive' = drive, fiber' = fiber PROVE Moves(f)
  BY <1>5, MovesAside
<1>6. CASE FiberCall
  BY <1>4, <1>5, <1>6 DEF FiberCall, Start, Restart, Dispose
<1>7. CASE ScopeCall \/ UNCHANGED fvars \/ \E g \in Fibers : RestartUpdated(g)
  BY <1>5, <1>7 DEF ScopeCall, RestartUpdated, fvars
<1> QED BY <1>2, <1>3, <1>6, <1>7 DEF FiberNext

-----------------------------------------------------------------------------
(* What the invariant and the moves of a fiber say of the properties.      *)
LEMMA Unorphaned ==
  ASSUME IInv
  PROVE  NothingIsOrphaned
<1>1. ASSUME NEW f \in Fibers
      PROVE  /\ fiber[f].effects => State(f) \in {"Loading", "Active", "Unloading"}
             /\ At(f, "Entering") => ~fiber[f].effects
  BY DEF IInv, Local, Placed, Held, At, State, Loads, Unloads
<1>2. ASSUME NEW c \in Capabilities, entries[c] # NoEntry, published[entries[c]].by \in Fibers
      PROVE  \/ fiber[published[entries[c]].by].handle = entries[c]
             \/ /\ At(published[entries[c]].by, "Handing")
                /\ drive[published[entries[c]].by].entry = entries[c]
  BY <1>2 DEF IInv, Shown
<1> QED BY <1>1, <1>2 DEF NothingIsOrphaned

LEMMA Committed ==
  ASSUME IInv
  PROVE  ActiveIsCommitted
<1>1. SUFFICES ASSUME NEW f \in Fibers, State(f) = "Active"
               PROVE  /\ fiber[f].handle # NoEntry /\ fiber[f].loading = None
                      /\ published[fiber[f].handle].by = f
                      /\ published[fiber[f].handle].pins = fiber[f].epoch
                      /\ transition[f] = <<>> /\ f \notin updating => fiber[f].loaded = fiber[f].config
  BY DEF ActiveIsCommitted
<1>2. FiberTypeOK /\ Local(f)
  BY DEF IInv
<1>3. Mine(fiber[f].handle, f, fiber[f].epoch)
  BY <1>1, <1>2 DEF Local, Bound
<1>4. fiber[f].loading = None
  BY <1>1, <1>2 DEF Local, Held, Placed
<1>5. ASSUME transition[f] = <<>>, f \notin updating PROVE fiber[f].loaded = fiber[f].config
  <2>1. 1..Len(transition[f]) = {}
    BY <1>5
  <2>2. ~dispose_requested[f]
    BY <1>1, <1>2, <2>1 DEF Local, Asked
  <2>3. ~Restarting(f, 1)
    BY <2>1 DEF Restarting
  <2> QED BY <1>1, <1>2, <1>5, <2>2, <2>3 DEF Local, Fresh
<1> QED BY <1>3, <1>4, <1>5 DEF Mine, EntryIds, NoEntry

Activates ==
  \A f \in Fibers :
    /\ At(f, "Handing")' /\ ~At(f, "Handing") =>
         \A c \in Requires(f) : published'[entries'[Plugin[f].id]].pins[c] = entries'[c]
    /\ At(f, "Publishing")' => ~At(f, "Discarding") /\ (At(f, "Publishing") \/ ~StaleRequest(f))

LEMMA ActivationMoves ==
  ASSUME IInv, \A f \in Fibers : Moves(f)
  PROVE  Activates
<1> SUFFICES ASSUME NEW f \in Fibers
             PROVE  /\ At(f, "Handing")' /\ ~At(f, "Handing") =>
                         \A c \in Requires(f) : published'[entries'[Plugin[f].id]].pins[c] = entries'[c]
                    /\ At(f, "Publishing")' =>
                         ~At(f, "Discarding") /\ (At(f, "Publishing") \/ ~StaleRequest(f))
  BY DEF Activates
<1>1. Moves(f)
  OBVIOUS
<1>2. ASSUME At(f, "Publishing"), Admit(f), NEW c \in Requires(f)
      PROVE  published'[entries'[Plugin[f].id]].pins[c] = entries'[c]
  <2>0. FiberTypeOK /\ c \in Capabilities /\ Plugin[f].id \in Capabilities
    BY TypeFacts DEF IInv
  <2>1. /\ drive[f].binding \in Bindings(Len(published)) /\ Plugin[f] \in Definition /\ f \in Nat
        /\ Publish(Plugin[f], drive[f].binding, f)
        /\ Current(f) = drive[f].binding /\ entries[Plugin[f].id] = NoEntry
    BY <1>2, <2>0, TypeFacts, FiberAssumption DEF Admit, SameBinding, DriveRecord
  <2>2. Satisfied(f)
    <3>1. drive[f].binding \in [Requires(f) -> EntryIds]
      BY <1>2 DEF IInv, Local, Bound, Loads, At
    <3>2. DOMAIN None = {0} /\ 0 \notin Requires(f)
      BY <2>0, FiberAssumption, TypeFacts DEF None
    <3> QED BY <2>1, <3>1, <3>2 DEF Current
  <2>3. entries[c] # NoEntry /\ Current(f)[c] = entries[c]
    BY <2>2 DEF Satisfied, Current
  <2>4. /\ published'[Len(published) + 1].pins = drive[f].binding
        /\ entries' = [entries EXCEPT ![Plugin[f].id] = Len(published) + 1]
    BY <2>0, <2>1, PublishFacts
  <2>5. entries'[c] = entries[c] /\ entries'[Plugin[f].id] = Len(published) + 1
    BY <2>0, <2>1, <2>3, <2>4 DEF FiberTypeOK
  <2> QED BY <2>1, <2>3, <2>4, <2>5
<1> QED BY <1>1, <1>2 DEF Moves, At, Stale, StaleRequest

Cleans ==
  \A f \in Fibers :
    /\ fiber[f].handle # NoEntry /\ fiber'[f].handle = NoEntry => ~fiber[f].effects
    /\ State(f)' = "Disposed" =>
         /\ fiber'[f].handle = NoEntry /\ ~fiber'[f].effects
         /\ fiber'[f].epoch = None /\ fiber'[f].loading = None
    /\ State(f) = "Disposed" => State(f)' = "Disposed"

LEMMA CleanupMoves ==
  ASSUME IInv, IInv', \A f \in Fibers : Moves(f)
  PROVE  Cleans
<1> SUFFICES ASSUME NEW f \in Fibers
             PROVE  /\ fiber[f].handle # NoEntry /\ fiber'[f].handle = NoEntry => ~fiber[f].effects
                    /\ State(f)' = "Disposed" =>
                         /\ fiber'[f].handle = NoEntry /\ ~fiber'[f].effects
                         /\ fiber'[f].epoch = None /\ fiber'[f].loading = None
                    /\ State(f) = "Disposed" => State(f)' = "Disposed"
  BY DEF Cleans
<1>1. Moves(f)
  OBVIOUS
<1>2. State(f)' = "Disposed" =>
        /\ fiber'[f].handle = NoEntry /\ ~fiber'[f].effects
        /\ fiber'[f].epoch = None /\ fiber'[f].loading = None
  BY DEF IInv, Local, Placed, Held, At, State, Loads, Unloads
<1> QED BY <1>1, <1>2 DEF Moves

-----------------------------------------------------------------------------
(* Fibers keep their types, under any calls and any traffic in the scope.  *)
THEOREM FiberTypes == FiberSpec => []FiberTypeOK
<1>1. IInv => FiberTypeOK
  BY DEF IInv
<1> QED BY <1>1, FiberInvariant, PTL

(* No effect outlives its fiber or its load, and every publication of a    *)
(* fiber that is in the scope is in the hands of that fiber.               *)
THEOREM FiberNothingOrphaned == FiberSpec => []NothingIsOrphaned
BY FiberInvariant, Unorphaned, PTL

(* An active fiber is bound to what its value was built from, and has the  *)
(* latest config once nobody is left to restart it.                        *)
THEOREM FiberCommitted == FiberSpec => []ActiveIsCommitted
BY FiberInvariant, Committed, PTL

(* What a fiber publishes was built from what it sees when it publishes.   *)
THEOREM FiberActivation == FiberSpec => ActivationIsCurrent
<1>1. IInv /\ [FiberNext]_fvars => Activates
  BY NextMoves, ActivationMoves
<1> QED BY <1>1, FiberInvariant, PTL DEF FiberSpec, ActivationIsCurrent, Activates

(* Effects go before the handle does, and a disposed fiber stays disposed, *)
(* with nothing left.                                                      *)
THEOREM FiberCleanup == FiberSpec => CleanupIsOrdered
<1>1. IInv /\ IInv' /\ [FiberNext]_fvars => Cleans
  BY NextMoves, CleanupMoves
<1> QED BY <1>1, FiberInvariant, PTL DEF FiberSpec, CleanupIsOrdered, Cleans
=============================================================================
