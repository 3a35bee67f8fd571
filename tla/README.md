# Verification of Kernis graph-core

This directory holds TLA+ specifications of the Rust workspace in this
repository, the TLC configurations that check them on small instances, and
TLAPS proofs of the properties that matter most. Paths such as
`crates/runtime-core/src/lib.rs` are relative to the repository root.

## 1. The system

Kernis runs a *workflow* (a DAG of tasks planned incrementally) against
*capabilities* (values published in scopes) and *external effects* (operations
whose outcome may be unknown after a crash). One process owns everything; the
durable store is an in-memory adapter handed over to the next process.

| part | state it keeps | operations | interacts with |
|---|---|---|---|
| `kernis-core` | – | identifiers, `Revision::checked_next` | all |
| `workflow-graph` | topology (tasks, edges), topology revision, mutation log; completion facts and their log | `apply_batch` (compare-and-swap on the revision, atomic), `complete`, `ready_tasks`, `replay*` | planners, the runtime |
| `workflow-recovery::durable` | per run: admissions, intents, cancellations, dispatches, outcomes, histories, revision, idempotency table | `create_run`, `load_run`, `commit` (compare-and-swap, deduplicated, all or nothing) | the runtime; the next process |
| `workflow-recovery::journal` | intents, dispatches and their order per operation, outcomes | `persist_intent/dispatch/outcome`, `state`, `from_durable_state` | local view of the store in the runtime |
| `workflow-recovery::recovery` | – | `classify_recovery(workflow, journal, operation)` | runtime |
| `runtime-core` | the workflow, the journal and cancellation views, task configurations, attempts with pinned capabilities, a held start, the attempt counter, three observation streams | `start_run`, `restore_run`, `configure_task`, `apply_workflow_mutation`, `record_effect_intent`, `dispatch_effect`, `record_effect_outcome`, `recover`, `cancel_task`, `step`, `run_until_blocked`, `drain_*`, `retry_execution_event` | all of the above, and the host |
| `execution-stream` | bounded lossless, coalescing and lossy buffers; sequencer; consumer-side tracker | `try_push`/`push`, `pop`, `emit`, `observe` | runtime (producer), host (consumer) |
| `capability-graph` | definitions; resolver; scopes with entries, generations and snapshots; contexts, plugin registry, fibers; the reactive coordinator | `provide`, `replace`, `withdraw`, `get`, `child`, teardown; fiber `start/update/dispose`; `reconcile`, `withdraw_and_reconcile` | runtime (pins handles), plugins |
| `graph-lab` | – | a demo host | runtime |

What is hard about it:

* *Staleness.* Planners hold snapshots, clients hold revisions, runtimes hold
  views. Completions do not advance the topology revision; an idempotent replay
  answers with the current head instead of the revision of the commit.
* *Crashes.* A runtime call makes up to two commits, changes a local view, the
  workflow and a stream, in this order; the process may end between any two.
* *Backpressure.* The lifecycle stream is bounded and lossless: a call may fail
  after its commits, and hand the event back to the host.
* *Unknown outcomes.* A dispatch without outcome may or may not have happened.
* *Order.* Late outcomes of older attempts, replay of two logs in an order in
  which they were not written, cancellation racing admission and dispatch.
* *Concurrency.* Capability construction runs outside the topology lock; fibers
  load asynchronously while they are notified, updated or disposed.

`PROJECT.json` lists the hazards at their lines, with the properties about them.

What makes each part correct, in a sentence:

* workflow graph: completed work never rests on unfinished work, the topology is
  a DAG, a revision names one topology, and the two logs reproduce the aggregate;
* durable store: the facts of a run are a log of whole commits, each applied once
  by a client that had seen everything before it, and those facts stay a history
  recovery can rely on;
* runtime: an unsafe effect reaches the outside at most once, a known outcome is
  never dispatched again, cancelled work stays undone, views never contradict
  the store, a restart decides as the dead process would have, and no lifecycle
  event is lost to a host that answers backpressure;
* capability scopes: a publication is built against the dependencies it is
  published with; a stale handle or generation never changes a newer entry;
  teardown follows dependencies;
* fibers: what an active fiber says it is bound to is what its value was built
  from; a load that went stale never becomes visible; effects are disposed of
  before the value goes, nothing is left behind, and a disposal always completes;
* reactive coordinator: every operation returns, `reconcile` in a fixpoint, and
  dependents are quiesced before what they use;
* execution stream: a consumer can tell from the sequences exactly what it has
  lost, and coalescing never loses the newest value of a key.

## 2. Modules

| module | models | what its state and actions are |
|---|---|---|
| `WorkflowTopology` | the graph as a value (`apply_mutation`, the cycle search, `ready_tasks`) | operators only; used by the two modules below and by `RuntimeCore` |
| `WorkflowGraph` | `WorkflowGraph` and its planners | `tasks`, `dependencies`, `completed`, `completionLog`, `revision`, `mutationLog` are the fields; `snapshot` is what each planner read last; actions `ReadTopology`, `ApplyBatch`, `Complete` |
| `WorkflowReplay` | `replay_from`, `replay_with_facts`; `apply_batch` as a loop | recursive functions along the logs and along a batch, compared with the state and with the set form of `WorkflowGraph` |
| `DurableFacts` | `DurableRunState` and `apply_mutation` as a value | operators: what each mutation needs and adds, the derived effect state |
| `CommitLog` | *abstract*: what a store promises | one log per run; append at the end, once per key |
| `DurableStore` | `InMemoryDurableStore` and its clients | `commit` is `BeginCommit`, one `ApplyNext` per mutation, then `InstallCommit` or `RefuseCommit`; `ReplayCommit` is the idempotent answer; replies may be lost |
| `RecoveryJournal` | `DurableJournal`, `from_durable_state`, `classify_recovery` | operators on the journal value |
| `RuntimeCore` | `Runtime` and its restart | one action per call and outcome of the call; see below |
| `EffectProtocol` | *abstract*: what a runtime promises about external operations | the intents, dispatches, latest outcomes, cancellations and completions an observer sees; actions `Prepare`, `Dispatch`, `Report`, `Cancel`, `Complete`, `Forget`, without process, store or restart |
| `RuntimeHost` | hosts that drive the runtime | the patient and the fair host, and the properties about hosts |
| `CapabilityGraph` | `CapabilityGraph` as a value | operators: a candidate added, and which graphs can be constructed |
| `CapabilityResolver` | `insert`, `require` and the traversal of `resolve` | `definitions`, and the locals of `resolve` and `visit`: `keys`, `states`, `active_path`, `pending` (what the loop of each call on the path has still to do), `construction_order`; see below |
| `CapabilityScope` | `Scope`: a tree of capability scopes and its callers | see below |
| `CapabilityFiber` | `CapabilityFiber` and the scope under it | see below |
| `ReactiveRuntime` | `ReactiveCapabilityRuntime` over those fibers | see below |
| `ExecutionStream` | `StreamSequencer`, the three buffers, `SequenceTracker` | `sequencer`, `buffer` and `last` are theirs; `held` is what producers have in their hands; actions `Emit`, `Push`, `Pop` with `observe` |
| `MC*` | instances for TLC | constants, menus of batches, requests and setups |
| `*Proofs` | theorems | see section 5 |

`RuntimeCore` composes the graph value (`Workflow == INSTANCE WorkflowTopology`),
the facts and the journal. Its actions:

* `ConfigureTask`, `ChangeScope`, `ApplyWorkflowMutation`: what a host supplies.
* `RecordEffectIntent`, `RecordEffectOutcome`, `CancelTask`, `Recover`: the calls
  of these names, commit, view, workflow and event in one step, as `&mut self`
  makes them one step for everybody else.
* `dispatch_effect` is `DispatchAdmitted` when the attempt exists, and
  `DispatchNew` when it has to be admitted; a full stream ends the call between
  the two commits.
* `step` is split by what it finds: a held start (`StepHeld`), a plain task
  (`StepPlainNew`, `StepPlainAgain`), a configured effect without intent
  (`StepIntent`, with its failure after the intent was committed), an intent
  without attempt (`StepAdmit`), a known success (`StepSucceeded`).
* `DrainExecutionEvents`, `RetryExecutionEvent`: the host's side of the stream.
* `Restart`: the process ends between two calls and the host restores the run
  from the store with a setup and a workflow whose completions may be older. The
  steps between two commits of one call are visible too, because each early
  return leaves exactly the state a crash at that point would leave durable.

`RuntimeCore` implements `EffectProtocol` (`Protocol`, `ImplementsEffectProtocol`) under
a mapping that reads the store's facts, not the process's views of them: an
operation's outcome is the one of its latest dispatch (`LatestOutcomes`), and an
admission is nothing. A restart is nothing too, or a `Forget` of completions, which
are not durable. `Dispatch` there is the one rule that the code spreads over the
guards of `dispatch_effect`, the scheduler, the views and the store.

`CapabilityResolver` runs the recursion of `visit` as the stack it is: entering a
capability (`Visit`) pushes it on `active_path`, its call goes through `pending`
with `VisitDependency` and ends with `VisitReturns`; the loop of `resolve` is
`VisitKey` and `ResolveReturns`. A dependency that is done, active or unknown is a
disjunct each, as it is an arm of the `match` or the check before the call.

`CapabilityScope` has the whole tree in its variables: `path[s]` (the scope and
its ancestors), `lifecycle[s]`, `entries[s]`, every publication ever made at the
index that is its `EntryId`, and the constructions in progress. What the code does
while it holds the topology lock is one action; between two of them others step in:

* `publish` (`provide` and `replace`) is `BeginPublish` under the read lock, the
  constructor, then `FinishPublish` (`publish_preconstructed` under the write
  lock) or `Abandon`. The call keeps in `seen` the entry found in its slot when it
  began; only the properties read it, as the code keeps the generation alone.
* A fiber (`semantic.rs`) is `BeginLoad`, one lookup per requirement with no lock
  held, then `FinishPublish` through `provide_value`. The lookup is `Scope::get` as
  a walk: `BeginLookup` at the fiber's scope, `LookupFinds` where it has a local
  entry, else `LookupAsksParent`; anybody may step in between. So it can answer with
  an entry that is shadowed when it answers (one published below it after the walk
  has passed); `SnapshotIsCurrent` says that no such answer gets published.
* `Withdraw` (`withdraw`, `remove_local`) by anyone who kept a handle; `Child`;
  `Drop` of the last handle of a scope; `Teardown`, and `TeardownPanics` where the
  `expect` of `runtime_teardown_order` fails: it leaves the lock poisoned, the
  scopes before it closed and one scope closing for ever.

`CapabilityFiber` cuts the asynchronous code of `semantic.rs` at its awaits and
locks. `transition[f]` is the queue on the transition lock of fiber `f`, the call
that holds it first; `drive[f]` is where that call stands, with its locals
(`force`, `binding`, the value made, the entry published); `fiber[f]` has the
fields; `dispose_requested` and `force_reload` are set by calls that do not hold
the lock. `Begin` is a call taking the lock. The loop of `drive` is `Resolve`,
`EnterLoading`, `Construct` (the factory, which may register effects and may
fail), `Decide` (is the load stale?), `Discard`, `ProvideValue`, `Retry`, `Fail`,
`SetHandle`, `Commit`; `unload` is `DisposeEffects`, `Release`, `Settle`. The
application calls `Start`, `Restart`, `Update` (which restarts in a step of its
own, `RestartUpdated`), `Dispose` and `RegisterEffect`, and changes the scope with
`ScopeCall`.

`ReactiveRuntime` extends it with the coordinator, whose operations are `Watch`,
`Reconcile`, `ProvideAndReconcile` and `WithdrawAndReconcile`. A reconciliation
goes over the watched fibers with `Compare`, awaits the calls it makes
(`Returned`), and `EndPass` decides on another pass. A withdrawal reads the fibers
one by one: `Identify` (who provides what), `ReadEpoch` and `ReadLoading` in three
scans (direct dependents, transitive ones, bindings for the order), `EndScan`,
then `Drain` deactivates the affected and `Finalize` drops the guard of the
retired entry. All raw scope mutations go through the coordinator here, as its
documentation demands; fibers are called by anyone.

Abstractions, and why they are sound for what is checked:

* Calls that fail before changing anything are no steps.
* A map guarded by `contains_key` is a set of records; that a key occurs once is
  then something to check (`IdentitiesUsedOnce`), not something given. Histories
  whose order is read are sequences.
* `RuntimeCore` leaves the store's revision and idempotency table out: the
  runtime is the only writer, and derives each key from the fact it commits.
  `DurableStore` models both for arbitrary clients.
* Because the admission has just been committed, the dispatch that follows it
  in `dispatch_effect` cannot be refused; the model still states its guard.
* Attempt identities are the numbers they are built from. Sequence numbers,
  progress and telemetry events, error texts and the tasks' names are left out.
* In `RuntimeCore` a scope is the replay identity of the provider that a lookup
  finds, or none; `CapabilityScope` is the scope itself.
* The walk of `Scope::get` is at a scope that it saw open: to ask whether the next
  scope is open is part of the step that leads to it. A scope never opens again, so
  what was open when the code asks was open a moment earlier; and a walk that is
  told otherwise ends the load, which it may at any time (`Abandon`).
* Generations and entry identities do not run out (`GenerationExhausted`); the
  values of capabilities and their cleanup are left out.
* Fibers live in one open scope and one context: no isolation, no interception,
  no injected values, no removal of a definition from the `CapabilityRegistry`.
* A fiber resolves its requirements in one step, where the code reads them one
  after the other without a lock (`CapabilityScope` has those reads one by one);
  `provide_value`'s own check and the admission are one step, as are the reads
  of `needs_reconciliation`. Each is followed in the code by a comparison that
  repeats the lookup, under the lock for a publication.
* `Settle` joins the two state changes at the end of an unload that disposes.
  `requested_epoch`, errors and cleanup errors are only reported, never read.
* The coordinator does one operation at a time, because its methods await each
  other's effects and their documentation gives them one owner.
* Futures run to their end. A caller that drops one halfway is not modelled; see
  section 3.

## 3. Runs

| run | instance | shows |
|---|---|---|
| `workflow` | 3 tasks, 2 planners, every batch of one or two mutations, revisions up to 4, symmetry | completion, DAG, revision and replay properties under stale planners |
| `store` | 2 runs, 2 clients, 17 requests that compete for tasks, operations, attempts and keys, revisions up to 4 | consistency, atomicity, numbering, finality, and `DurableStore` implements `CommitLog` |
| `effects` | 2 tasks, 2 operations of either semantics, 2 attempts, 2 restarts, stream capacity 1 | `RuntimeCore` implements `EffectProtocol`; unsafe effects once; cancellations final; events follow facts; views mirror the store, facts stay rebuildable, recovery never contradicted |
| `host` | 2 tasks, 1 operation, 1 capability with a provider or none and a configuration that changes, 3 attempts, 1 restart, fair patient host | every attempt listed in creation order with the capabilities it was admitted with, no lifecycle event lost, every task completes |
| `resolver` | every graph over 3 capabilities, visited step by step | `resolve` always returns, succeeds exactly on constructible graphs, orders them rightly, and its errors name a true cycle or gap |
| `scopes` | a consumer, two providers that may require each other, 2 callers of which one a fiber, 2 scopes, 5 publications (`Focus`) | nothing is published late, over changed dependencies, or into a view that cannot be constructed; an update its caller has not seen is overwritten only if the entry it saw was withdrawn; ownership has no cycle; no closed scope keeps an entry, even when planning its teardown panics |
| `stream` | 2 streams, 2 keys, each policy, patient and impatient producers, capacity 2, sequences up to 3 | trackers report exactly the losses; the newest item of a key survives |
| `fibers` | 2 fibers in a chain, whose first requirement the application may provide, 2 calls, 3 publications before the application stops providing | nothing stale is published, nothing orphaned, an active fiber is what it says, cleanup is ordered, every disposal completes |
| `reactive` | the same chain, 3 operations of the coordinator, 1 call by others | `reconcile` ends in a fixpoint, dependents quiesce first, every operation returns |
| `scope_teardown` | the same definitions, 1 caller, 1 scope, 5 publications | **violated**: the graph that teardown resolves may be circular, and teardown panics |
| `scope_stale` | 2 capabilities, 1 caller, 2 scopes, 4 publications | **violated**: a stale handle withdraws a later entry of the same generation |
| `finalized` | as `reactive`, 2 operations | **violated**: a fiber is active on a provider that was reported as finalized |

Type invariants are proved (section 5) and not repeated in the runs.

The violated properties quote documentation of the code; `findings` in
`PROJECT.json` has the lines. More divergences were met and have no run of their
own:

* `attempts()` (`runtime-core/src/lib.rs:973`) "Returns all attempts in
  deterministic creation order", but an attempt whose dispatch met backpressure
  is in the durable facts and not in that list once the held start is replaced.
  A host that answers backpressure first never gets there (`AllAttemptsListed`).
* `step` (`runtime-core/src/lib.rs:776`) "Executes deterministic ready work until
  no further automatic step is possible", but looks at the first ready task only:
  while that one waits for an outcome or a provider, later plain tasks wait too.
* `persist_dispatch` (`journal.rs:231`) accepts a dispatch after a known outcome
  although its comment says that it rejects it. The runtime never makes such a
  call: `Dispatch` of `EffectProtocol` has the guard, and `RuntimeKnownOutcome` is
  the theorem.
* `retry_execution_event` (`runtime-core/src/lib.rs:818`) publishes the held start
  and drops the item it was given whenever a start is pending. A patient host
  never has both (`RejectedItemsArePublished`).
* `replace` (`capability-graph/src/runtime.rs:404-407`) says that the final
  publication "compares the generation again under the topology lock. A stale
  constructor therefore returns ReplacementConflict and cannot change the current
  entry." It can, for the reason `scope_stale` shows: the slot holds entry 1 at
  generation 1, one caller begins to `replace` it and another to `provide`; entry 1
  is withdrawn, the `provide` publishes entry 2, at generation 1 again, and the
  `replace` finds the generation it expects and overwrites entry 2, which its
  caller never saw. `LostUpdateNeedsWithdrawal` says that this is the only way:
  without a withdrawal of the entry a caller began from, it overwrites that entry
  or is refused. The exception occurs in `scopes`; without it the property fails
  there.
* `withdraw` does no admission (`capability-graph/src/runtime.rs:500`): removing a
  child's entry may reveal a parent's definition that makes the child's view
  circular. A later publication into such a view is refused.
* A requirement withdrawn between the check for staleness and the publication
  (`semantic.rs:1082`) makes the fiber `Failed` (`Refuse`, `Fail`), and a failed
  fiber is not reconciled when the requirement comes back; one withdrawn a moment
  earlier leaves it `Pending`, which is.
* A fiber that is disposed of while its factory fails on a stale load becomes
  `Disposed` (`semantic.rs:1110`) and stays among the fibers of its plugin
  runtime (`registered`): the `dispose` that follows returns early.
* Unloading removes its entry by generation (`Withdrawable`), so like
  `scope_stale` it may remove the entry of another publisher that reached the
  same generation after the fiber's own was withdrawn.
* A publication that is withdrawn between `ProvideValue` and `Commit` leaves the
  fiber `Active` without a visible entry; its own requirements are unchanged, so
  nothing reconciles it. `ActiveIsCommitted` therefore speaks of the
  publication the fiber made, not of the entry the scope shows.
* A caller that drops the future of `dispose` leaves `dispose_requested` set with
  nobody to act on it, and one that drops `start` leaves a fiber `Loading`
  (`semantic.rs:911`). Fairness assumes that calls run to their end.

How `finalized` comes about: the application provides 1 and fiber 2 starts; while
it stands before its commit, the coordinator withdraws 1 and scans the fibers. It
reads that fiber 2 has no epoch; fiber 2 commits, which moves its binding from
`loading` to `epoch`; the coordinator reads that it has no loading binding. Fiber 2
is not among the affected, and is `Active` on entry 1 when the report says
`provider_finalized`. A later `reconcile` would unload it, and those who were
active when the entry was withdrawn are never missed (`DependentsQuiesceFirst`).

How `scope_teardown` comes about, by accepted calls only: provide 3; provide 2,
which requires 3; provide 1, which requires 2; replace 2 by one that requires
nothing; replace 3 by one that requires 2; withdraw 2. The entry for 1 still pins
the first 2, which required 3, and 3 now requires 2: teardown merges the two.

Why the bounds suffice. Three tasks give a chain, a fork, a join and a cycle of
length three; two planners are enough for one to be stale, and four revisions
for a stale planner to be behind by more than one. In the store the requests are
chosen in conflicting pairs (one key with other mutations, one attempt for two
tasks, an outcome twice, a dispatch after a cancellation), and four revisions hold
an admission, an intent, a dispatch and what becomes of it; longer histories are
left to the proofs. Two attempts allow a
dispatch, a retry and a late outcome of the first, three one more of each;
capacity one makes every call meet a full stream, an empty one, and (for a plain
task, which emits two events) one that fills half-way; two restarts in `effects`
make the second restore start from facts of a restored process (`host`, whose
liveness pays for each, has one). Three capabilities give a cycle
that is entered from outside it, a dependency that is shared, and a gap behind
either. Two scopes are the fewest
in which one shadows the other; three publications are the fewest in which a
parent's publication can spoil a child's view, or in which an unseen entry can be
overwritten, and five those in which teardown
can panic. `Focus` follows that long scenario with few callers: past two
publications at most one of them is busy (the second only while there is just the
root), and past three there is no second scope. More callers and scopes, and trees
of any depth, are left to the proofs.

Two fibers in a chain are the fewest in which one rests on the application and
the other on a fiber; their identifiers run against the dependencies, so that an
order by identifier is not by chance the right one. Two calls let a disposal or a restart
meet each place of a load, and a second call the unload of the first; three
publications of the application before it stops let a provider be replaced while
what it replaced is still in use. Three operations of the coordinator are a
provision, a withdrawal and a reconciliation after it; its `Focus` counts the one
call by others among the three. Two streams and two keys
share a buffer of two, so that it fills with other keys; sequences end at three,
where the sequencer is exhausted.

Bounds are named: `MaxRevision`, `MaxAttempts`, `MaxRestarts`, `Capacity`,
`MaxScopes`, `MaxEntries`, `MaxCalls`, `MaxOperations`, `MaxSequence`, `Focus`. `MaxRevision` is also the code's own limit (`u64::MAX`), so the
behaviour at the limit is checked, not cut off; so is `MaxSequence`.

`CHECK_DEADLOCK FALSE` but for `resolver`: a run that is complete, or out of attempts or
revisions, may stop.

## 4. Fairness

Safety properties use no fairness. `FairSpec` of `RuntimeHost` is a host that
answers backpressure before anything else (as the tests and `graph-lab` do), and
weakly fairly keeps calling `step`, drains the stream, retries rejected items,
dispatches what `step` has prepared, and learns the outcome of the latest
dispatch. Nothing in the runtime acts on its own, so all fairness is the host's;
weak fairness is enough because every one of these calls stays possible until it
is made. No fairness is assumed of restarts, cancellations, configuration,
recovery calls or retries of dispatches. `EveryTaskCompletes` further assumes
that no effect fails and nothing is cancelled, because both block a task for
good, that the required providers are there, that no intent takes an operation
configured for another task, and that the model has attempts left.

`FiberFairness` is weak fairness of the steps of each fiber (`FiberStep`) and of
an `update` that goes on to restart: factories and disposers return, and the
tasks that await a call are polled until it does, which is what an executor gives
a task that was spawned or is awaited. The lock of `tokio` serves waiting tasks in
order, so the queue needs no more than weak fairness. `ReactiveRuntime` adds weak
fairness of `CoordinatorStep` for the same reason. Nothing is assumed of calls,
of providers or of coordinator operations: `DisposeCompletes` and
`CoordinatorReturns` hold whatever is called, and the bounds on calls are what
keeps a fiber from being restarted for ever.

## 5. Proofs

TLAPS proves the following for every value of the constants. Each proof module
begins with the facts it needs, states its inductive invariant as a conjunction
of named parts, has one lemma per action, and ends with the theorems.

*Workflow graph* (`WorkflowGraphProofs`): type correctness, `CompletionClosed`,
`CompletionOrdered`, `TopologyIsDag`, `UnfinishedWorkIsReady`,
`RevisionNamesTopology` and `HistoryIsFrozen`, for any sets of tasks and planners
and batches of any length. Assumptions: batches are sequences of mutations and
`MaxRevision` is a natural number. The inductive invariant joins these
properties: that `apply_batch` keeps completions closed needs that a batch edits
only unfinished tasks, the log's order needs closedness, and progress follows
from the acyclicity of the final candidate: the unfinished tasks are a set in
which some task waits on none of the others.

*Replay* (in `WorkflowGraphProofs`): `SetFormIsTheLoop` and
`ReplayReproducesWorkflow`. The loops of the code are recursive functions on
`0..n`. What such a function returns is found by naming a function that has the
right value at 0 and passes it on from each number to the next; the two agree,
because the numbers where they differ have no least one (`AgreeStepwise`). For
the loop of `apply_batch` that function is the prefix of the batch in set form
(`Prefix`), one step of which is one call of `apply_mutation` (`ApplyInLoop`). For the topology log it exists for
every reachable log (`LogReplays`, an invariant of its own: a record is replayed on
a graph without completions, which refuses no more than the one it was written
on). The completion log replays on the final topology because a completed task
gets no new prerequisite, so all of them are among the completions before it.

*Durable facts* (`DurableFactsProofs`): an accepted mutation keeps the type,
the uniqueness of identities and the lineage of facts, and adds exactly itself;
it follows the facts it finds (`Follows`: cancellations stay, a cancelled task's
operations gain no dispatch, a known outcome stays); what it does to the derived
effect states; and that it keeps what the facts owe the workflow (`Consistent`:
a completed task knows its operation's success, an unsafe operation has at most
one dispatch).

*Durable store* (`DurableStoreProofs`): type correctness, `FactsAreConsistent`,
`FactsAreCommits`, `CommitsAreNumbered` (proved only, as is
`AttemptsAreNumbered` below), the action properties `CancellationStopsDispatch` and
`KnownOutcomeIsFinal`, and the refinement `ImplementsCommitLog`, for any clients,
runs, requests and lengths of batches. None of these is inductive alone, because
what `InstallCommit` makes durable is the clone; `CallOK` says of the commit in
progress that its key is new, its client named the head, and its clone is
consistent, follows the run's facts, and holds them and the mutations applied so
far. The refinement reads a run's table of keys as a sequence (`TablesAreLogs`):
that is a function at all because commits are numbered 1 to the revision, each
number and each key once. `InstallCommit` then is one append, a reply is a reply
(of the commit's revision or, when a commit is replayed, the head's), and
everything else leaves the sequence alone.

*Runtime* (`RuntimeCoreProofs`): type correctness, `ViewsMirrorStore`,
`FactsStayRebuildable`, `AttemptsAreNumbered`, `UnsafeEffectDispatchedOnce`,
`RecoveryNeverContradicted`, `EventsFollowFacts`, `AttemptsKeepTheirPins`, and
the action properties `KnownOutcomeStopsDispatch` and `CancelledWorkStaysUndone`,
for any tasks, operations, setups, batches and capacity, and any number of
attempts and restarts. Assumptions: those named in `RuntimeCore` (the menus have
their types, `NoStart`, `NoEffect` and `Missing` are no values, attempts are
numbered from 1). The inductive invariant `IInv` joins these properties and adds
`CompletedOnSuccess`: without it a dispatch could follow a completion, and
recovery would meet a contradiction. The guards of a call read the views, so
nothing is inductive without `ViewsMirrorStore`; that a new attempt is fresh in
the store needs `AttemptsAreNumbered`; that an unsafe operation in the state
`Prepared` has no dispatch needs that its intent is unique. Each action is shown to
be a `FactsStep`, which also bounds the dispatches and completions it may add;
both action properties follow from that.

*Effect protocol* (in `RuntimeCoreProofs`): the refinement
`ImplementsEffectProtocol` (`RuntimeImplementsProtocol`), from the same assumptions.
Every action is a step of the protocol or shows an observer nothing (`SeenAs`); there
is a lemma per kind of step. What one commit shows is settled on the facts
(`DurableFactsProofs`): the intent of a new operation shows no outcome because a
dispatch has an intent (`IntentSeen`); a dispatch takes no outcome back because the
attempt is new, so that nobody has reported on it (`DispatchSeen`); a report shows on
its own operation only, and there only as the first on the latest dispatch
(`ReportSeen`). The guards of the protocol then come from `IInv`: the views decide as
the facts would, and a completion rests on a success by `CompletedOnSuccess`.
`KnownOutcomeStopsDispatch` and `CompletionOrdered` of the workflow graph are proved
and in no run: the protocol says the first, and a replay of a log that is not in order
fails (`ReplayReproducesWorkflow`).

*Patient host* (in `RuntimeCoreProofs`, about `PatientSpec` of `RuntimeHost`):
`AllAttemptsListed` and `RejectedItemsArePublished`. `HostInv` adds to `IInv` that
the listed attempts are numbered as they stand and the held start is the one number
that is missing at their end (`Listing`), and that a held start is in the hands of a host that has not
answered yet (`HeldStartReturned`); while it has not, it makes no call that could
replace that start. Fairness plays no part in either.

*Resolver* (`CapabilityGraphProofs`): `ResolutionIsExact`, for any capabilities
(natural numbers, of which only the order is used) and any graph. `ResolverInv` says
of a traversal under way that the active capabilities are the path, each once and
each required by the one before it (`StackIsActive`, `PathIsAWalk`); that what a call
on the path has gone through is done, but for the dependency it is in
(`LoopsAreKept`); that what is done is the order, with every dependency earlier in it
(`OrderIsDone`, `DependenciesFirst`); and that what is not to be visited any more has
been (`KeysRemain`). Success is then right because in any set of capabilities the one
first in the order waits on none of them (`OrderedIsResolvable`), and a cycle error
because the capabilities of its path wait on each other (`CycleStep`). This is what
entitles `CapabilityScope` to use `Resolvable` for the resolver's verdict.

*Capability scopes* (in `CapabilityGraphProofs`): type correctness,
`TeardownIsTotal`, `OwnershipIsWellFounded`, and the action properties
`SnapshotIsCurrent`, `LostUpdateNeedsWithdrawal` and `PublicationIsAdmitted`, for any
capabilities, definitions, callers and fibers, trees of any shape and any number
of publications. Assumptions: capabilities are natural numbers (an order is all
that is used), fibers are callers, `MaxScopes` is positive. The inductive invariant
adds that paths are chains, closed under their members (so a lookup ends in one
scope only, `GetOfFound`), that a construction in progress holds handles of
ancestors only and has its lookup stand at one of them, and that a generation never
exceeds its entry's number.
`PublicationIsAdmitted` rests on `SeenByCandidate`: a scope that sees the new
entry is one that `candidate_affects` selects, and its view changes by exactly
the candidate. `LostUpdateNeedsWithdrawal` needs a second invariant, `SlotInv`: a
call began from an empty slot or from an entry of its slot with the generation it
expects, a slot holds the last publication for it, and between two publications for
a slot the generation grows unless the slot started over in between. So an entry of
the same generation as the one the caller saw is that one, or comes after a
withdrawal. Teardown needs that the scopes it closes are closed under open
descendants, and, when it panics, that the child-first order reaches every
descendant before the scope that stays behind.

*Execution stream* (`ExecutionStreamProofs`): type correctness, `GapsAreLosses`
and `NewestSurvives`, for any streams, keys, capacity and last sequence number.
The inductive invariant says that items carry numbers that were given out, that
each item is in one place only, and that what a tracker has passed is delivered
or missed (`PassedIsMissed`, `SeenIsPassed`). Behind patient producers it adds
that a stream's pending items are in order and that every number given out is
held, pending, delivered or lost: without the last two a gap could be an item
that is still to come.

*Fibers* (`CapabilityFiberProofs`): type correctness, `NothingIsOrphaned`,
`ActiveIsCommitted`, and the action properties `ActivationIsCurrent` and
`CleanupIsOrdered`, for any fibers, plugins, capabilities and bounds. Assumption:
`FiberAssumption` (fibers and capabilities are positive numbers, plugins are
definitions). The inductive invariant joins the types and `Shown` (an entry that
is visible and was made by a fiber is in its hands) with four facts about each
fiber that tie its fields to the place where the holder of its lock stands:
`Placed` (which states a place allows), `Asked` (which call may stand where),
`Held` (where it has a handle and effects) and `Bound` (where its bindings are);
and `Fresh`, that a fiber whose calls are over has loaded its latest config; and
`Detached`, that an entry a call is to detach has left the scope. The queue on the
transition lock is why a step of one fiber leaves these facts about the others
alone (`OthersMove`), so each action is looked at for its own fiber only.
`FiberStepTraffic` and `FiberStepTurns` say what a step does to the queue, to the
state and to the handle of its fiber, for those who await it.

*Coordinator* (`ReactiveRuntimeProofs`): `ReconcileReachesFixpoint` and
`DependentsQuiesceFirst`, for any number of fibers and calls and dependencies of any
shape; and that the four properties of fibers hold with a coordinator as well
(`CoordinatedFibers`, `CoordinatedSteps`): a step of the coordinator changes
nothing of a fiber but its queue. `CoordInv` is the fibers' invariant with: the
fibers a loop has still to visit are known ones (`Listed`); the coordinator has one
call in one queue, of the kind its place says, and while it is quiet there is no
other (`CoordCalls`); the retired entry is gone from the scope for good
(`RetiredGone`); and a publication pins older ones only (`PinsOlder`).

* The fixpoint: in a quiet pass that has driven nothing so far, no fiber that was
  passed needs to be driven (`Compared`), since without calls a fiber at rest
  stays there.
* Whoever calls meanwhile (`LetGo`): a fiber that was active on the retired entry
  at its withdrawal is, as long as it still is, in `todo` or `affected` at each place
  of the three scans and of the draining, and no load brings it back to that entry.
  A fiber that was *loading* then has no place in this invariant: that is the run
  `finalized`.
* With nobody else calling (`Quiesced`): who provides what is what was read
  (`Identified`), the affected are closed under using what an affected fiber
  provides (`Closed`), the order was computed from the bindings that still hold
  (`Ordered`), and what is still to be deactivated comes later in that order than
  the fiber being deactivated (`Deepening`). So a user of that fiber would have to
  be deeper than it and is not.
* `Depth` carries a set of visited fibers, as the code does against cycles. It is
  well defined (`DepthExists`) because who provides is older than who uses it
  (`PinsOlder`), so ways up through providers end, and a function that is right up to one rank can be
  continued to the next; for the same reason the set never
  cuts a way short (`DepthApart`), and a user is deeper by one at least than each of
  its providers (`DepthGrows`). Such an argument by induction is made with least
  elements of sets of numbers (`LeastExists`): the library's induction theorems take
  an operator, which no installed prover can instantiate.

Only model-checked: liveness (`EveryTaskCompletes`, `DisposeCompletes`,
`CoordinatorReturns`, `ResolveAnswers`; out of the prover's reach), and the three
violated properties. Every safety property of a passing run is proved.

## 6. Not modelled, and the plan

Parts of the code that are not modelled, in the order in which they would be
worth adding:

1. The lifetime of instances: cleanup runs once, after the last handle is gone,
   dependents first.
2. Contexts that isolate, intercept or inject, nested effect scopes,
   `CapabilityRegistry::remove`, and futures that are dropped halfway. A fiber of
   `CapabilityFiber` sees one scope only.
3. An abstract versioned register per scope and capability that
   `CapabilityScope` implements between two withdrawals (after one, generations
   start again; see `scope_stale`).

Not planned: formatting and validation of identifiers, the texts of errors and
recovery reasons, telemetry and progress observations, which touch no other
state, and `graph-lab`'s printing.
