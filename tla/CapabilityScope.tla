-------------------------- MODULE CapabilityScope --------------------------
(***************************************************************************)
(* A tree of capability scopes (crates/capability-graph/src/runtime.rs).   *)
(* Scopes of one tree share a topology lock: what a caller does while it   *)
(* holds the lock is one action here, and what it does between two         *)
(* acquisitions (running a constructor) is where other callers step in.    *)
(***************************************************************************)
EXTENDS CapabilityGraph, SequencesExt

CONSTANTS
  Callers,      \* threads and tasks that publish
  Fibers,       \* the callers that are fibers: they publish with provide_value
  Definitions,  \* the definitions they publish
  MaxScopes,    \* bound: scopes ever created, the root included
  MaxEntries    \* bound: publications

ASSUME ScopeAssumption ==
  /\ Fibers \subseteq Callers
  /\ Definitions \subseteq Definition
  /\ MaxScopes \in Nat \ {0}
  /\ MaxEntries \in Nat

VARIABLES
  path,       \* path[s]: s and the scopes its parent pointers lead to, numbered as created
  lifecycle,  \* lifecycle[s]
  entries,    \* entries[s][c]: the EntryId published for c in s, or 0
  published,  \* every publication, at the index that is its EntryId
  calls,      \* a caller's publication under construction
  poisoned    \* a caller panicked while it held the topology lock

vars == <<path, lifecycle, entries, published, calls, poisoned>>

Root     == 1
NoEntry  == 0
New      == 0   \* PublishExpectation::New; Replace(g) is g
Idle     == [scope |-> 0]
NoWalk   == [at |-> 0]
Scopes   == 1..Len(path)
EntryIds == 1..Len(published)

Lifecycle == {"Open", "Closing", "Closed", "Dropped"}
Open(s)   == lifecycle[s] = "Open"
Local(s)  == { c \in Capabilities : entries[s][c] # NoEntry }

-----------------------------------------------------------------------------
(* Visibility.                                                             *)

Below(s) == { t \in Scopes \ {s} : s \in path[t] /\ lifecycle[t] # "Dropped" }

FoundAnywhere(s, t, c) == Open(s) /\ Open(t) /\ c \in Local(t)

(* Scope::get from s ends in t: every scope from s up to t is open, and t  *)
(* is the first with a local entry.                                        *)
FoundIn(s, t, c) ==
  /\ t \in path[s]
  /\ c \in Local(t)
  /\ \A u \in path[s] : t \in path[u] => Open(u) /\ (u # t => c \notin Local(u))

Get(s, c) ==
  IF \E t \in Scopes : FoundIn(s, t, c)
  THEN entries[CHOOSE t \in Scopes : FoundIn(s, t, c)][c]
  ELSE NoEntry

VisibleGraph(s) ==
  [c \in { c \in Capabilities : Get(s, c) # NoEntry } |-> published[Get(s, c)].dependencies]

LocalGeneration(s, c) ==
  IF c \in Local(s) THEN published[entries[s][c]].generation ELSE New

-----------------------------------------------------------------------------
(* Publication.                                                            *)

CheckLifecycleOnly(s, c, expected)  == Open(s)
CheckGenerationOnly(s, c, expected) == LocalGeneration(s, c) = expected
CheckExpectation(s, c, expected)    == Open(s) /\ LocalGeneration(s, c) = expected

(* candidate_affects: no open scope between hides the candidate.           *)
CandidateAffects(s, t, c) ==
  \A u \in path[t] : s \in path[u] /\ u # s => Open(u) /\ c \notin Local(u)

NoDescendantAdmission(s, d) == TRUE
ValidateDescendantAdmission(s, d) ==
  \A t \in Below(s) :
    Open(t) /\ CandidateAffects(s, t, d.id) => Resolvable(WithCandidate(VisibleGraph(t), d))

SameGeneration(s, snapshot, c) ==
  /\ Get(s, c) # NoEntry
  /\ published[Get(s, c)].generation = published[snapshot[c]].generation

(* Generation and entry id both compared; the id alone settles it.         *)
SameEntry(s, snapshot, c) == Get(s, c) = snapshot[c]

Resolved(k) == calls[k] # Idle /\ DOMAIN calls[k].snapshot = calls[k].definition.dependencies

(* Phase 1 of publish, under the read lock: `provide` when the slot is     *)
(* empty, `replace` with the generation found there otherwise.  A caller   *)
(* that expects another generation is turned away with nothing changed.    *)
(* `seen`, the entry the caller begins from, is kept for the properties:   *)
(* no guard reads it.                                                      *)
BeginPublish(k, s, d) ==
  LET snapshot == [c \in d.dependencies |-> Get(s, c)]
      expected == LocalGeneration(s, d.id)
  IN /\ ~poisoned /\ calls[k] = Idle
     /\ CheckExpectation(s, d.id, expected)
     /\ Resolvable(WithCandidate(VisibleGraph(s), d))
     /\ \A c \in d.dependencies : snapshot[c] # NoEntry
     /\ calls' = [calls EXCEPT ![k] =
          [scope |-> s, definition |-> d, expected |-> expected, seen |-> entries[s][d.id],
           snapshot |-> snapshot, walk |-> NoWalk]]
     /\ UNCHANGED <<path, lifecycle, entries, published, poisoned>>

(* A fiber loads: it looks its requirements up one by one with no lock     *)
(* held, and will publish with provide_value.                              *)
BeginLoad(k, s, d) ==
  /\ calls[k] = Idle /\ lifecycle[s] # "Dropped"
  /\ calls' = [calls EXCEPT ![k] =
       [scope |-> s, definition |-> d, expected |-> New, seen |-> NoEntry,
        snapshot |-> [c \in {} |-> NoEntry], walk |-> NoWalk]]
  /\ UNCHANGED <<path, lifecycle, entries, published, poisoned>>

(* Scope::get without the lock: is the scope open, has it an entry, then   *)
(* the same of its parent.  The walk stands at a scope it saw open.        *)
BeginLookup(k, c) ==
  /\ calls[k] # Idle /\ calls[k].walk = NoWalk
  /\ c \in calls[k].definition.dependencies \ DOMAIN calls[k].snapshot
  /\ Open(calls[k].scope)
  /\ calls' = [calls EXCEPT ![k].walk = [at |-> calls[k].scope, id |-> c]]
  /\ UNCHANGED <<path, lifecycle, entries, published, poisoned>>

Walking(k) == calls[k] # Idle /\ calls[k].walk # NoWalk

LookupFinds(k) ==
  LET w == calls[k].walk
  IN /\ Walking(k) /\ w.id \in Local(w.at)
     /\ calls' = [calls EXCEPT
          ![k].walk = NoWalk,
          ![k].snapshot = [x \in DOMAIN @ \cup {w.id} |->
                            IF x = w.id THEN entries[w.at][x] ELSE @[x]]]
     /\ UNCHANGED <<path, lifecycle, entries, published, poisoned>>

LookupAsksParent(k) ==
  LET w == calls[k].walk
  IN /\ Walking(k) /\ w.id \notin Local(w.at)
     /\ \E p \in path[w.at] \ {w.at} :
          /\ path[p] = path[w.at] \ {w.at} /\ Open(p)
          /\ calls' = [calls EXCEPT ![k].walk = [at |-> p, id |-> w.id]]
     /\ UNCHANGED <<path, lifecycle, entries, published, poisoned>>

(* A lookup ends at a scope that is closed or at the root with nothing,    *)
(* the construction fails, provide_value's own comparison fails, the       *)
(* publication is refused, or the lock is poisoned: nothing is published.  *)
Abandon(k) ==
  /\ calls[k] # Idle
  /\ calls' = [calls EXCEPT ![k] = Idle]
  /\ UNCHANGED <<path, lifecycle, entries, published, poisoned>>

(* publish_preconstructed under the write lock.                            *)
Admitted(p) ==
  /\ \A c \in p.definition.dependencies : SameEntry(p.scope, p.snapshot, c)
  /\ ValidateDescendantAdmission(p.scope, p.definition)
  /\ CheckExpectation(p.scope, p.definition.id, p.expected)
  /\ Resolvable(WithCandidate(VisibleGraph(p.scope), p.definition))

NextGeneration(s, c) == LocalGeneration(s, c) + 1

FinishPublish(k) ==
  LET p == calls[k]
      c == p.definition.id
  IN /\ ~poisoned /\ Resolved(k)
     /\ Len(published) < MaxEntries
     /\ Admitted(p)
     /\ published' = Append(published,
          [scope |-> p.scope, id |-> c, dependencies |-> p.definition.dependencies,
           generation |-> NextGeneration(p.scope, c), snapshot |-> p.snapshot])
     /\ entries' = [entries EXCEPT ![p.scope][c] = Len(published) + 1]
     /\ calls' = [calls EXCEPT ![k] = Idle]
     /\ UNCHANGED <<path, lifecycle, poisoned>>

-----------------------------------------------------------------------------
(* Withdrawal, with the generation of a handle e its holder kept.          *)

WithdrawAccepted(e) ==
  LET h == published[e]
  IN ~poisoned /\ Open(h.scope) /\ h.id \in Local(h.scope)
     /\ LocalGeneration(h.scope, h.id) = h.generation

Withdraw(e) ==
  /\ WithdrawAccepted(e)
  /\ entries' = [entries EXCEPT ![published[e].scope][published[e].id] = NoEntry]
  /\ UNCHANGED <<path, lifecycle, published, calls, poisoned>>

-----------------------------------------------------------------------------
(* The tree.                                                               *)

ChildLifecycle(s) == IF Open(s) THEN "Open" ELSE "Closed"

Child(s) ==
  /\ ~poisoned /\ Len(path) < MaxScopes /\ lifecycle[s] # "Dropped"
  /\ path' = Append(path, path[s] \cup {Len(path) + 1})
  /\ lifecycle' = Append(lifecycle, ChildLifecycle(s))
  /\ entries' = Append(entries, [c \in Capabilities |-> NoEntry])
  /\ UNCHANGED <<published, calls, poisoned>>

(* The last handle of a scope goes away: no child and no caller holds it.  *)
(* Its entries go with it; nothing is torn down and no lock is taken.      *)
Drop(s) ==
  /\ s # Root /\ lifecycle[s] # "Dropped" /\ Below(s) = {}
  /\ \A k \in Callers : calls[k].scope # s
  /\ lifecycle' = [lifecycle EXCEPT ![s] = "Dropped"]
  /\ entries' = [entries EXCEPT ![s] = [c \in Capabilities |-> NoEntry]]
  /\ UNCHANGED <<path, published, calls, poisoned>>

(* runtime_graph: the local definitions, then for every other capability   *)
(* the definition first met in a walk of the exact handles they pin.       *)
Ascending(S) == SetToSortSeq(S, <)

Walked(s) ==
  LET current == { entries[s][c] : c \in Local(s) }
      pinned(e) == LET D == Ascending(published[e].dependencies)
                   IN [i \in 1..Len(D) |-> published[e].snapshot[D[i]]]
      insert_snapshot[e \in EntryIds] ==
        IF e \in current THEN <<>>
        ELSE <<e>> \o FlattenSeq([i \in 1..Len(pinned(e)) |-> insert_snapshot[pinned(e)[i]]])
      below(e) == FlattenSeq([i \in 1..Len(pinned(e)) |-> insert_snapshot[pinned(e)[i]]])
      L == Ascending(Local(s))
  IN FlattenSeq([i \in 1..Len(L) |-> below(entries[s][L[i]])])

RuntimeGraph(s) ==
  LET w == Walked(s)
      First(c) == CHOOSE i \in 1..Len(w) : /\ published[w[i]].id = c
                                            /\ \A j \in 1..(i - 1) : published[w[j]].id # c
  IN [c \in Local(s) \cup { published[w[i]].id : i \in 1..Len(w) } |->
       IF c \in Local(s) THEN published[entries[s][c]].dependencies
       ELSE published[w[First(c)]].dependencies]

Plannable(s) == Resolvable(RuntimeGraph(s))

(* collect_descendants_child_first: children in the order they were made.  *)
Precedes(t, u) ==
  \/ u \in path[t] \ {t}
  \/ \E a \in path[t], b \in path[u] : a < b /\ path[a] \ {a} = path[b] \ {b}

Targets(s) == { t \in Below(s) \cup {s} : Open(t) }

Emptied(S) ==
  [t \in Scopes |-> IF t \in S THEN [c \in Capabilities |-> NoEntry] ELSE entries[t]]

Teardown(s) ==
  /\ ~poisoned /\ lifecycle[s] # "Dropped" /\ Targets(s) # {}
  /\ \A t \in Targets(s) : Plannable(t)
  /\ lifecycle' = [t \in Scopes |-> IF t \in Targets(s) THEN "Closed" ELSE lifecycle[t]]
  /\ entries' = Emptied(Targets(s))
  /\ UNCHANGED <<path, published, calls, poisoned>>

Unwound(before, p) == before \cup {p}

(* No order for the scope p: the `expect` panics.  The scopes before p are *)
(* closed, p stays Closing, and all their entries are lost in the unwind.  *)
TeardownPanics(s) ==
  \E p \in Targets(s) :
    LET before == { t \in Targets(s) : Precedes(t, p) }
    IN /\ ~poisoned /\ lifecycle[s] # "Dropped"
       /\ ~Plannable(p) /\ \A t \in before : Plannable(t)
       /\ poisoned' = TRUE
       /\ lifecycle' = [t \in Scopes |-> IF t \in before THEN "Closed"
                                         ELSE IF t = p THEN "Closing" ELSE lifecycle[t]]
       /\ entries' = Emptied(Unwound(before, p))
       /\ UNCHANGED <<path, published, calls>>

-----------------------------------------------------------------------------
Init ==
  /\ path = << {Root} >>
  /\ lifecycle = <<"Open">>
  /\ entries = << [c \in Capabilities |-> NoEntry] >>
  /\ published = <<>>
  /\ calls = [k \in Callers |-> Idle]
  /\ poisoned = FALSE

Next ==
  \/ \E k \in Callers \ Fibers, s \in Scopes, d \in Definitions : BeginPublish(k, s, d)
  \/ \E k \in Fibers, s \in Scopes, d \in Definitions : BeginLoad(k, s, d)
  \/ \E k \in Fibers, c \in Capabilities : BeginLookup(k, c)
  \/ \E k \in Fibers : LookupFinds(k) \/ LookupAsksParent(k)
  \/ \E k \in Callers : Abandon(k) \/ FinishPublish(k)
  \/ \E e \in EntryIds : Withdraw(e)
  \/ \E s \in Scopes : Child(s) \/ Drop(s) \/ Teardown(s) \/ TeardownPanics(s)

Spec == Init /\ [][Next]_vars
-----------------------------------------------------------------------------
(* Types; an entry is the publication of its own scope and capability.     *)
Snapshots(n) == UNION { [D -> 1..n] : D \in SUBSET Capabilities }

Publication ==
  [scope : Scopes, id : Capabilities, dependencies : SUBSET Capabilities,
   generation : 1..MaxEntries, snapshot : Snapshots(Len(published))]

Call ==
  [scope : Scopes, definition : Definitions, expected : 0..MaxEntries,
   seen : 0..Len(published), snapshot : Snapshots(Len(published)),
   walk : [at : Scopes, id : Capabilities] \cup {NoWalk}]

TypeOK ==
  /\ path \in Seq(SUBSET (1..MaxScopes)) /\ Len(path) \in 1..MaxScopes
  /\ lifecycle \in [Scopes -> Lifecycle]
  /\ entries \in [Scopes -> [Capabilities -> 0..Len(published)]]
  /\ published \in Seq(Publication) /\ Len(published) <= MaxEntries
  /\ \A s \in Scopes : \A c \in Local(s) :
       published[entries[s][c]].scope = s /\ published[entries[s][c]].id = c
  /\ calls \in [Callers -> Call \cup {Idle}]
  /\ poisoned \in BOOLEAN

(* Teardown is total: a scope that is no longer open publishes nothing,    *)
(* not even what was under construction when it closed, and no descendant  *)
(* of it is open, not even one created while it was closing (runtime.rs:   *)
(* child, check_expectation_locked, teardown).                             *)
TeardownIsTotal ==
  /\ \A s \in Scopes : ~Open(s) => Local(s) = {}
  /\ \A s \in Scopes : Open(s) => \A t \in path[s] : Open(t)

(* The exact handles an entry pins are those of the capabilities it        *)
(* requires, published in its own scope or above, and all older than it:   *)
(* ownership never leads to a sibling scope and never back to the entry,   *)
(* so the reference counts that run cleanup can reach zero (runtime.rs:    *)
(* resolve_dependencies, publish_preconstructed).                          *)
OwnershipIsWellFounded ==
  \A e \in EntryIds :
    LET p == published[e]
    IN /\ DOMAIN p.snapshot = p.dependencies
       /\ \A c \in p.dependencies :
            /\ p.snapshot[c] < e
            /\ published[p.snapshot[c]].id = c
            /\ published[p.snapshot[c]].scope \in path[p.scope]

(* The step that publishes e. *)
Publishes(e) == Len(published') = e /\ Len(published) = e - 1

(* No value is published over a dependency that changed while it was being *)
(* constructed: at the step that publishes it, every handle it was built   *)
(* from is still what its scope sees (runtime.rs:551-574).                 *)
SnapshotIsCurrent ==
  [][ \A e \in 1..MaxEntries : Publishes(e) =>
        \A c \in published'[e].dependencies :
          published'[e].snapshot[c] = Get(published'[e].scope, c) ]_vars

(* A publication leaves a constructible view behind: in every open scope   *)
(* that now sees the new entry, however far below and whatever it defines  *)
(* itself, all requirements are met and none is circular (runtime.rs:      *)
(* validate_descendant_admission, publish_preconstructed).                 *)
PublicationIsAdmitted ==
  [][ \A e \in 1..MaxEntries : Publishes(e) =>
        \A s \in Scopes, c \in Capabilities :
          Open(s) /\ Get(s, c)' = e => Resolvable(VisibleGraph(s)') ]_vars

(* Who published in this step, and the entry whose place e takes.          *)
Publisher(k)   == calls[k] # Idle /\ calls'[k] = Idle
Overwritten(e)  == entries[published'[e].scope][published'[e].id]

(* After a, its slot was emptied and filled anew, at b or before it.       *)
StartedOver(a, b) ==
  \E x \in (a + 1)..b : /\ published[x].scope = published[b].scope
                         /\ published[x].id = published[b].id
                         /\ published[x].generation = 1

(* A lost update needs a withdrawal: who publishes overwrites the very     *)
(* entry it began from, or an empty slot if it began from one, however     *)
(* many callers construct for the slot.  The exception is that its own     *)
(* entry was withdrawn meanwhile and the slot filled anew, from which on   *)
(* generations are those of a new series, and the code, which compares     *)
(* nothing else, cannot tell (it says otherwise at runtime.rs:404-407).    *)
(* Within a series they grow, so that only an empty slot starts one        *)
(* (runtime.rs: check_expectation_locked, publish_preconstructed).         *)
LostUpdateNeedsWithdrawal ==
  [][ \A e \in 1..MaxEntries : Publishes(e) =>
        /\ Overwritten(e) # NoEntry =>
             published[Overwritten(e)].generation < published'[e].generation
        /\ \E k \in Callers :
             /\ Publisher(k)
             /\ \/ Overwritten(e) = calls[k].seen
                \/ /\ NoEntry \notin {calls[k].seen, Overwritten(e)}
                   /\ StartedOver(calls[k].seen, Overwritten(e)) ]_vars

(* What the documentation of Generation, remove_local and replace promises *)
(* (definition.rs:100, runtime.rs:459, docs/research/results/E02R): the    *)
(* holder of a handle whose generation is accepted removes its own entry.  *)
StaleHandleIsRejected ==
  \A e \in EntryIds :
    WithdrawAccepted(e) => entries[published[e].scope][published[e].id] = e

(* The assertion in runtime_teardown_order: published capability topology  *)
(* remains valid during teardown.                                          *)
TeardownIsPlannable == \A s \in Scopes : Open(s) => Plannable(s)
=============================================================================
