# Verification of the AI Development OS core

TLA+ models, model-checking runs and TLAPS proofs for the packages of the
AI Development OS monorepo (`packages/*/src`, TypeScript). The models are
translated from the source; where a document and the source differ, the model
follows the source and section 3 says so.

## 1. The system and its parts

The repository is a set of libraries that will be composed into a desktop
application which plans a piece of work as a graph of tasks, chooses a model
provider for each task, runs it in a managed worktree and stores what happened.
No scheduler, API or desktop package exists yet: what is there is the domain
kernel, the durable stores, the provider adapters, the router and the planning
pipeline, each a state machine or a pure function behind a port.

| Component | State it keeps | Operations | What makes it hard | Correct when |
| --- | --- | --- | --- | --- |
| `task-graph` | tasks, statuses, blockers, outcome, version, event sequence | add, link, seal, start, wait, resume, succeed, fail, cancel, hydrate | recursive blocking in one walk, restart from a snapshot, safe-integer limits, re-entrant clock | a snapshot always hydrates, no task is stuck, settled tasks never change |
| `domain` budget account | reservations (held, committed, released, cancelled), version, status | reserve, commit, release, cancel, cancel account | idempotent replays, over-commit, cancellation with work in flight | held and committed never exceed the hard limit when reserving; a reservation settles once |
| `persistence` ports and outbox logic | outbox message status, lease, attempts; migration plan; cursors | claim, acknowledge, retry, dead-letter | lease expiry racing a late acknowledgement, worker crash, backwards clock | a terminal message never changes; two live leases never overlap; every message settles |
| `persistence-memory`, `persistence-sqlite` | aggregates, events, outbox, artifacts, FIFO mutex, session gates, closed flag | transact, create, update, append, enqueue, put, close | callbacks interleave at awaits, rollback, stale contexts, crash between statements | transactions are atomic and isolated; every request is served |
| `telemetry-ledger` | observations, stream heads, ledger version in an aggregate | record, reconcile | optimistic conflicts, duplicates, out-of-order observations | an observation is recorded once; totals are monotone |
| `artifact-store`, `artifact-store-local` | temporary and published content files, calls under way | write, open, delete, stat, cleanup, close | crash or loss of power between write, sync and link; concurrent writers of one digest | a published key always has its bytes; nothing half-written is visible; a success stands |
| `secrets`, `secrets-memory` | seeded secrets, revocation, audit | resolve, revoke, close | material scoped to a callback, revocation while in use | revoked or closed material is never handed out |
| `providers` | operation state, event queue, result | emit, cancel, finish, iterate | terminal event exactly once, cancel racing completion, slow consumers | one terminal event, sequence without gaps, result agrees with the stream |
| `router` | circuit states; the decision a caller holds | transition a circuit, route, admit a probe | duplicate, late and out-of-order outcomes; evidence that goes stale while a decision is held | an outcome counts once; probes keep their distance; a decision is valid exactly while its evidence is |
| `policy`, `config` | none (pure) | evaluate, resolve layers, plan change | rule precedence, fail-closed defaults | deny wins; same input, same decision |
| `process-broker` | calls and duplex sessions, leases, output and event buffers, the write queue | execute, open, write, read, end input, cancel, close | deadline, lease, cancellation and output limits racing the exit; sessions opened while closing | nothing runs unwatched, the sandbox goes last, one outcome that is delivered |
| `workspace` | snapshots, worktrees, leases, refs | discover, snapshot, open, commit, dispose | crash half way, stale worktrees | the user's repository is untouched; worktrees are disposed once |
| `memory` | records, tombstones, versions, idempotency index, journal | append, supersede, decide, tombstone, read, query, close | every call reads, awaits and writes; two writes of one call; retries under a key | a record is superseded once; forgotten is forgotten; no write undoes another |
| `repository-index`, `context`, `prompt-compiler`, `profiler`, `thinker` | immutable snapshots, one guarded invocation | index, pack, compile, profile, think | budgets, ordering and determinism; close racing an invocation | packs fit their budget; one invocation at most |
| `provider-ollama` | capacity slots, residency, queue | acquire, release, load, unload | FIFO fairness, cancelled waiters, residency eviction | slots never exceed capacity; no waiter is lost |
| `provider-openai`, `-openai-compatible`, `-gemini` | HTTP attempts, streams, background responses | start, stream, resume, poll, cancel, close | resuming a stream that replays or skips, cancel racing completion and `close` | every event surfaces once and in order; a cancellation reaches the server; every call settles |
| `provider-claude-code`, `-codex` | session, child process, permission requests, reconciliation | start, steer, approve, cancel, reconcile | CLI exit racing events, approvals after cancel | one terminal event; edits reconciled |
| `provider-gateway`, `provider-catalog` | registry, catalog snapshot | register, select, invoke, close | close during invocation, expired claims | exact target only |
| `provider-testkit` | test doubles | | | not part of the shipped system |

Interactions: the task graph is stored by an application layer through a
`transact` callback (snapshot as an aggregate update, pending events as event
appends) and only then acknowledges its events in memory; telemetry-ledger
uses the persistence port the same way; the router reads ledger, gateway,
catalog and circuit evidence and writes none; coding-agent adapters run their
CLI through the process broker inside a workspace; the thinker compiles a
prompt from a context pack and calls one inference target through the gateway.

## 2. What is modelled now

| Module | Code | Kind |
| --- | --- | --- |
| `TaskGraph` | `task-graph/src/task-graph.ts`, `types.ts` | the whole aggregate |
| `TopologicalWalk` | the heap, sort and walk inside `task-graph.ts` | the algorithms `TaskGraph` states by their results |
| `Outbox` | `persistence/src/outbox-logic.ts` and the outbox parts of both adapters | message state machine with its workers |
| `BudgetAccount` | `domain/src/budget-account.ts`, sums of `budget.ts` | the whole account |
| `PersistenceAdapter` | `persistence/src/adapter-support.ts`, `mutex.ts`, `transact`/`close` of both adapters | concurrency, rollback, closure, process death |
| `StoreOps` | the operations of both adapters' transaction contexts | pure operator `Apply(op, db)` |
| `AtomicStore` | the contract of `persistence/src/ports.ts` | abstract specification |
| `PersistenceStore` | | composes `PersistenceAdapter` with `StoreOps` |
| `ProviderOperation` | `providers/src/operation.ts`, validator of `events.ts` | operation controller, buffer and guarded consumer |
| `OllamaProvider` | `provider-ollama/src/provider.ts`, `capacity.ts`, `transport.ts` | admission, start, pump, cancel, close |
| `ProcessBroker` | `process-broker/src/broker.ts`, `duplex.ts`, `grant.ts`, `output.ts`, the backends | one-shot and duplex processes, leases, close |
| `MemoryStore` | `memory/src/store.ts`, `in-memory-port.ts` | calls that interleave at every port operation |
| `CircuitBreaker` | `router/src/circuit.ts` | the breaker, its events and their delivery |
| `Routing` | `router/src/router.ts`, `candidate.ts` | composes decisions over ageing evidence with `CircuitBreaker` |
| `LocalArtifactStore` | `artifact-store-local/src/local-store.ts` | calls, file system, crashes and losses of power |
| `OpenAiProvider` | `provider-openai/src/provider.ts`, `background.ts` | start, stream, resume, poll, cancel, close |
| `TaskGraphProofs` | | theorems about `TaskGraph` and `TopologicalWalk` |
| `PersistenceProofs` | | theorems about `Outbox`, `PersistenceAdapter` and `StoreOps` |
| `AccountingProofs` | | theorems about `BudgetAccount` and `OllamaProvider`, and sums over finite sets |
| `ProviderProofs` | | theorems about `ProviderOperation` and `OpenAiProvider` |
| `ProcessBrokerProofs`, `MemoryStoreProofs`, `RoutingProofs`, `LocalArtifactStoreProofs` | | theorems about the module they are named after; `RoutingProofs` also about `CircuitBreaker` |
| `MC*` | | model values, small functions and symmetry for TLC |

A definition called the "mutated form" of another is that definition with a
plausible bug in it. None of them is used by a specification; each property of
a run is shown to notice one of them.

### 2.1 `TaskGraph`

One variable per field of the aggregate (`status`, `blockedBy`, `outputs`,
`failure`, `order`, `deps`, timestamps, `version`, `eventSequence`,
`nextOrder`, `sealed`). One action per public mutator: `AddTasks`,
`AddDependency`, `Seal`, `StartTask`, `MarkTaskWaiting`,
`MarkTaskNeedsResolution`, `ResumeTask`, `SucceedTask`, `FailTask`,
`CancelTask`, `CancelRemaining`, and `Hydrate` for a restart from a snapshot.
Every mutator ends in the private reconciliation that the code runs before it
commits; the action contains it (`ReconcilePendingTasks`, `Commit`). A call
that throws changes nothing and is a stuttering step.

The code computes reconciliation with a walk in topological order. `TaskGraph`
says what the walk computes: `Blocks(B, s)` is the set of pending tasks with an
unsuccessful transitive dependency, `Released` the ones whose dependencies all
succeeded. There always is exactly one such set (`ReconciliationDetermined`),
so nothing is left open by saying it that way.

`TopologicalWalk` runs the algorithm, one turn of a loop per step: `Seed` and
`Visit` are a turn of the loop over the tasks and over the dependents, `Pop`
takes the root of the heap, `SiftUp` and `SiftDown` are the loops of
`TaskOrderMinHeap`, of which each step moves one task into the slot `hole`
until `Place` fills it with the task that is `held`; `Reconcile` is a turn of
the walk. Tasks and dependents are met in any order, as the maps of the code
keep the order of insertion. `CommitIsRight` compares what comes out with the
predicates.

The pending events are represented by the number of events a commit adds to
`eventSequence`. Their text, the descriptions of tasks and the acknowledgement
of events (which only empties a list) are left out.

### 2.2 `Outbox`

The stored message (`status`, `leaseOwner`, ticks until it is available and
until its lease ends), the FIFO sequence and, for each worker, the set of
`holds` it believes it has been given. Actions: `Enqueue`, `Claim`,
`Acknowledge`, `ScheduleRetry`, `DeadLetter`, `ReportWithoutEffect`, `Crash`
(a worker restarts under the same owner identifier), `Damage` (a stored text
no longer matches its checksum) and `Tick`. A claim takes the oldest claimable
messages and fails as a whole when one of them is damaged. Time is relative,
so no clock grows; a deadline that has passed is 0 for ever, which is all the
code compares.

### 2.3 `BudgetAccount`

The account is `accountStatus`, `version` and one record per reservation
identifier. All commands are in `Commands`; any may be delivered at any time
and any number of times, with any `expectedVersion`. Two history variables:
`done`, the commands that had an effect, and `working`, the holders that have
not reported. The four token counts and the duration are treated alike by the
code; `units` stands for one of them. Costs have a currency.

### 2.4 `PersistenceAdapter`, `StoreOps`, `AtomicStore`

`PersistenceAdapter` has the mutex queue, the gate of each transaction context,
the nesting guard, the snapshot and the closed flag; `Operate` may be called by
any client that has kept a context, at any time, and is refused by the gate as
in the code. `Backend` chooses the adapter: only SQLite has failing `BEGIN` and
`COMMIT`, a queued `migrationStatus` and a database that survives its process.
`Effect(op, db)` is a parameter, so the proofs hold for every store;
`PersistenceStore` instantiates it with `StoreOps!Apply`.

The refinement mapping to `AtomicStore` is at the end of `PersistenceAdapter`:
the committed store is the snapshot while somebody is inside, and the live
state otherwise; the transaction of the client inside is the pair of the two.
Both adapters write in place, so what an outsider may see is the point.

### 2.5 `ProviderOperation`

The controller an adapter drives and its consumer. `slots`, `head`, `unread`
and `bytes` are the buffer with its lazy compaction; `terminal` and `result`
the two ways an operation ends; `handlers`/`told` the cancel handlers;
`reader`, `expected`, `lastAt`, `seen` the consumer behind
`guardProviderOperation`. What can go wrong outside the controller is modelled
too and noted in `spoiled`: a builder that throws or has the wrong kind, an
observer or a handler that throws, a clock that steps back. `Overflow` is the
path that turns an event without room into a failure.

### 2.6 `OllamaProvider`

Each call of `start()` is a process whose `pc` is the await it stands at:
discovery, the admission queue, the transport, the pump. Code between two
awaits is one action. A settled promise runs its continuation later, so there
is a state between the grant of a lease and the request (`admitted`), between
the response and the registration of the pump (`responded`), and between the
end of the pump and its `finally` (`ending`). `Close` is not atomic either: it
cancels its snapshot of the pumps one by one, closes the capacity manager,
then waits. What validation decides and what the server answers is a choice.
The configuration is chosen in `Init` from the constant `Configurations`.

### 2.7 `ProcessBroker`

`pc` is the await a call of `execute()` or `openDuplexSession()` stands at, from
the admission checks to the disposal of its sandbox; `state` is `ProcessState`.
The stoppers (deadline timer, lease listener, abort listener) are the set
`watch`, so that a stopper that fires before it is registered, or after it was
removed, is a behaviour. `told` is a call of `terminateTree`, `Exit` the child's
end, which is independent of it. A duplex session adds its bounded event queue,
its consumer and the chain of stdin turns (`input`): `pending` turns, the one
that is `busy`, and the bytes that count against the two write limits. `close()`
first terminates the listed sessions, then waits for a snapshot of the calls in
flight, then releases the backend; a session that is being opened meanwhile is
in neither list.

### 2.8 `MemoryStore`

A call is a process whose `pc` names the operation of the durable port it waits
for (`load`, `apply`, `mark`, ...). The port's operation and the code up to the
next one are one step, and any other call may run between two. `apply` is the
compare-and-set of the port with its idempotency index, capacity and journal.
Supersession and deletion are two writes, of the new record and of the mark on
the old one, and the second may find that the first is no longer what it was.
`answer` and `deleted` (what had been deleted when the call began) exist for
`DeletedIsForgotten`.

### 2.9 `CircuitBreaker` and `Routing`

`CircuitBreaker` has the pure transition (`Transition`) with its duplicate and
late checks, and around it calls that succeed or fail and events that are
delivered late, repeatedly, reordered or never. `Routing` extends it with the
router: `Route` ranks the candidates whose evidence is in force and computes
until when the decision is valid; `Dispatch` may come much later and looks at
the circuit again. `suits` stands for all the comparisons that time does not
change.

### 2.10 `LocalArtifactStore`

Files are named after the write that created them. Each file system call is an
await. A killed process leaves the files; a loss of power may also take
directory entries and contents that were not synced: `survivor[k]` is the set
of files the place of key `k` may show afterwards, and `data` the content of a
file, which becomes damaged unless the file was `synced`. `mode` is the
durability mode and whether the platform can sync directories. Writers link
their temporary file to the key's place, or find it taken and verify it.

### 2.11 `OpenAiProvider`

`op[c]` is one call of `start()` with its pump; `remote[c]` the response on the
server, which is external: it completes or fails at any time, ends a stream
early, and a resumed stream begins before or after the event asked for.
`post[c]` is the remote cancellation, a request of its own that may outlive its
operation and that the closing transport cuts off. `Close` cancels the
operations it finds, waits for those it found, and closes the transport.

## 3. The runs

| Run | Question | Bounds, and why they suffice |
| --- | --- | --- |
| `task_graph` | Does any sequence of methods and restarts leave a graph that cannot be loaded, is stuck, or changes the settled? | Three tasks: a chain, a fork and a join, so a failure reaches a task over another one and a task has two blockers. `MaxSequence` 19 leaves 13 of the code's huge range above the reserve, so runs meet the limit. Two clock readings show the order of timestamps. |
| `topological_walk` | Do heap, sort and walk compute what `TaskGraph` says, in an order of their own? | Every graph of four tasks, cycles included, and a depth limit of 3 that both cuts and admits chains; a heap of four, in which a task rises and sinks over two levels. Any statuses a transition may have left before the walk, `cancelled` standing for each unsuccessful one. |
| `outbox` | Are messages lost, taken twice or brought back by late reports? | Two workers; three messages of which two share a key and one may be damaged; a limit of two, so that a batch is full; leases and delays of one tick. |
| `budget_account` | Is headroom spent twice or an effect repeated? | Four identifiers for three places; amounts without a price and in a second currency; limits that two holds reach. |
| `adapter` | Are transactions of the SQLite adapter atomic and isolated on the real store operations, and is every call answered? | Two clients, enough for a kept context, a nested call and a queue behind `close`; each kind of record once, two messages of which one is damaged. |
| `provider_operation` | Do producer, canceller and consumer agree on one end, whatever fails around them? | A buffer of three events and six bytes with two reserved, events of one and three bytes: full by number and full by size both occur, as does compaction (from a head of two). |
| `ollama` | Is capacity exact, first come first served, and does everything end? | Three requests, two of one model; in one configuration the model limit binds and the queue holds one, in the other the byte budget binds and it holds two. |
| `process_broker` | Can a process outlive the reasons to stop it, its sandbox or its result? | One execution or one session beside `close()`: calls of a broker share nothing but the two lists `close()` reads. Output, event queue and both write limits are small enough to overflow. |
| `memory_store` | Can two calls that both read before they write undo each other, or a forgotten record come back? | Two callers, five calls, four records: a supersession in a race with another, a deletion and a retry under the same key; a chain of depth two and a capacity of three, so both limits bind. |
| `routing` | Do late, repeated or lost outcomes mislead the circuit, and is a held decision valid as long as it says? | Three calls and two probes, a threshold of two, one remembered identifier (so a forgotten one is delivered again), a cool-down of two in six instants; a cloud model, a local one and an agent whose evidence goes stale at different instants, with a pin, a deadline and a probe. |
| `artifact_store` | Is there ever half an object, a lost success or a file nobody owns? | Two writers of one content, its deletion and a reader or a cleanup, with one crash or loss of power, in three modes: synced with and without directory syncs, and fast. |
| `openai` | Does a resumed stream lose or repeat an event, a cancellation its response, or `close` a call? | A streaming call, with or without a background response, beside a polling one; three events, one resume, two attempts, one poll: each limit is reached and exceeded. |

The bounds that exist only for checking are `MaxSequence` and `MaxTime` of
`ProviderOperation`, `MaxTime` of `TaskGraph` and `CircuitBreaker`, `MaxDelay`
and `MaxLease` of `Outbox`, `MaxVersion` of `StoreOps`, `MaxChunk` and
`Workloads` of `ProcessBroker`, `MaxCalls` of `MemoryStore`, `MaxCrashes`,
`Modes` and `Workloads` of `LocalArtifactStore`; the other limits are limits of
the code with smaller values. Deadlock checking is off everywhere because each
of these systems may legitimately come to rest (a complete graph, an empty
outbox, a closed adapter, a settled operation). Symmetry is used in
`task_graph`, `budget_account`, `memory_store` and `routing` only, which check
no liveness.

### What the properties say

- `SnapshotRoundTrips`, `ParsesBack`: the rules a loader applies and the
  mutators that produce the data are written separately; whatever sequence of
  calls happened, the loader accepts the result.
- `PendingIsNeverStuck`: every pending task has something that will wake it.
- `CommitIsRight`: the sort refuses a graph for a cycle or its depth exactly
  when it has one or is too deep (`VerdictIsRight`); its order is that of the
  task numbers as far as the dependencies allow, so it does not depend on how
  the graph was built (`LeastFirst`); one pass in that order blocks and frees
  the tasks that the whole graph says (`WalkIsRight`).
- `SettledForGood` (of tasks and of messages), `LeasesExclusive`,
  `EveryMessageSettles`: exclusive as long as reports are made in time; final,
  and never lost, whatever happens.
- `OverrunIsExplained`: use beyond a hard limit is never more than the sum of
  what commits overran their own estimates; concurrent holds cause none.
- `EffectAtMostOnce`: a redelivered command changes nothing.
- `ImplementsAtomicStore`, `JournalHasNoDuplicates`, `ClosedIsQuiet`,
  `EveryCallReturns`: the adapter's contract.
- `GuardAccepts`, `RoomForTheEnd`, `CancelReachesHandlers`, `StreamEnds`: one
  end that always fits, that the guard always accepts and that every reader
  comes to.
- `CapacityIsExact`, `FirstComeFirstServed`, `EveryStartSettles`: a lease is
  given back once on every path, nobody overtakes and nobody is forgotten.
- `NothingRunsUnwatched`, `ReleasedLast`, `StreamsAreWhole`,
  `OutcomeIsDelivered`: a reason to stop that arises while a process is being
  started still stops it; sandbox and backend go after the process; events
  and input are whole and in order; a settled outcome reaches its caller.
- `SupersededOnce`, `ExplicitBeatsInferred`, `DeletedIsForgotten`,
  `NothingIsUndone`: what the read before an await promised still holds when
  the write after it succeeds. `ExplicitBeatsInferred` and `SupersededOnce`
  except a record that was brought back in between: then it does not.
- `CountedOnce`, `CountIsTheRun`, `ProbesAreSpaced`, `ValidityIsExact`: an
  outcome has an effect once although few identifiers are remembered; the
  counter is the length of the run of failures; a failed probe waits again; a
  decision is valid exactly while its evidence is in force.
- `ObjectsAreWhole`, `StoredUntilDeleted`, `NothingIsLeftBehind`,
  `CloseReturns`: what can be read is whole; success means that it is there;
  every temporary file has an owner or a dead process.
- `AnswerIsWhole`, `CancelArrives`, `EveryCallSettles`: replayed and resumed
  events surface once, in order and all; a cancellation reaches the response
  and `close` does not cut it off; retries, resumes and polls come to an end.

### Where code and documents differ

The models do what the code does, so these have no run of their own. Where a
property would contradict the code it is stated with the exception, named in
its comment.

*Persistence and domain*

- A late report can end a newer lease of the same owner: `outbox-logic.ts:75`
  compares the owner only, against `persistence/README.md:99-100`.
  `LeasesExclusive` counts holds until somebody reported late.
- Cancelling an account makes later commits impossible
  (`budget-account.ts:543`) that its comment at 418-419 and
  `domain/README.md:100-101` promise to accept.
- `close` awaited inside a transaction callback never returns
  (`memory-adapter.ts:678`, against `ports.ts:170`); the run leaves it out
  (`CloseInside`), since everything behind it waits for ever too.
- `failTask` accepts a task that is `ready`, `waiting` or `needs_resolution`
  (`task-graph.ts:449`); the design lists fewer transitions
  (`docs/technical-design.md:168-172`).
- `scheduleRetry` accepts an instant in the past (`outbox-logic.ts:102`).
- A replayed `reserve` with its first `expectedVersion` is refused before the
  replay is recognised (`budget-account.ts:348-358`).
- An account without a money limit can hold amounts of two currencies, after
  which every sum over it throws (`budget-account.ts:283`).
- The memory adapter writes a claimed message before it verifies its checksum
  (`adapter-support.ts:12-13`); SQLite verifies first.

*Providers*

- `operation.ts:75-79` says its ordering rules hold by construction; a builder
  that throws, a clock that steps back or an observer that throws breaks them.
- Ollama's queue is looked at on a release or a new request only
  (`capacity.ts:149`): when the waiter at its head gives up, the next one stays
  although it would fit (`provider-ollama/README.md:259-261`). Its `close`
  misses a start in flight (`provider.ts:1130`, README 287-288).
- OpenAI: only a clean end of a background stream is resumed; a broken
  connection fails the operation (`provider-openai/README.md:33`). The
  continuity check looks at the first event of a resumed stream even when it is
  a replay, so a gap behind a replay would pass (`background.ts:121-128`); the
  model's server sends no gap inside a stream. A background operation that
  fails by its deadline or a protocol error leaves its response running. A
  cancellation before the first lifecycle event of a background stream has no
  response id to cancel. A `start()` that overlaps `close()` registers after
  the copy of the operations was taken: it is not cancelled, and its cancel
  request may be cut off (`late` in the model). A resumed stream is not aborted
  when the operation fails, and a signal that is aborted before its listener is
  added does not cancel.

*Process broker*

- A session being opened during `close()` may end after the backend was
  released (`broker.ts:1112` against `process-broker/README.md:134`).
- The broker never releases a lease, although its header says so; a lease that
  runs out is noticed at the next `assertValid` only (`grant.ts:9`).
- The bytes of a chunk that does not fit are partly retained
  (`duplex.ts:140`). A rejected `wait()` of a one-shot call skips the removal
  of its stoppers; a lost connection is reported as a failure.

*Memory*

- Precedence is checked before the write and not again (`store.ts:1169` against
  `memory/README.md:70`): an explicit record that arrives in between by way of
  a deletion can be superseded by an inferred one.
- A supersession or deletion that fails at its second write has already stored
  the new record or the marker (`README:74`, `98`). Two concurrent appends
  under one idempotency key may both reach the port; the second is refused
  rather than replayed. Markers are not counted against the capacity.

*Router*

- The late outcome of a call that began before the circuit opened is taken for
  the probe's when it arrives half-open, and a half-open circuit whose probe's
  outcome is lost stays so (`circuit.ts:278-300`): `ProbesAreSpaced` says no
  more than the code delivers. A count of 1,000,000 failures throws.
- With a deadline the primary becomes infeasible before `validUntil`, by its
  expected latency; the fallbacks' evidence is not part of `validUntil`.

*Artifact store*

- A deduplicating write succeeds before the directory entry it relies on is
  synced (README, Durability): `StoredUntilDeleted` excepts a loss of power for
  it. Deletions and the entries of new shard directories are not synced at all.
- `openRead` and `delete` are not among the calls `close()` waits for, so a
  read stream that is opened meanwhile or never pulled keeps its handle. After
  a loss of power in fast mode a truncated object makes its key unwritable. The
  cleanup report counts files it could not remove.

## 4. Fairness

| Where | Assumed | Why the code justifies it |
| --- | --- | --- |
| `Outbox` | time passes (WF on `Tick`); some worker claims the largest batch whenever it can (WF); a message handed out again and again is in the end acknowledged or dead-lettered (SF) | the dispatcher is not in the repository; this is the part of the contract that a host has to provide. No fairness on enqueueing, crashing or damage. |
| `PersistenceAdapter` | the next holder of the mutex runs (WF on `Serve`); a callback settles (WF on `Ends`) | promise continuations always run. A callback that never settles blocks everyone by design. |
| `ProviderOperation` | the consumer keeps iterating (WF on `Read`) | it is a `for await` loop. None on the producer: an operation need not end. |
| `OllamaProvider` | what a start or a pump does next happens (WF per request on `Advance`); `close` goes on (WF) | continuations run, and every transport request has an absolute timeout. None on admission timeouts, aborts, cancellations or `close`: `EveryStartSettles` holds without their help. |
| `ProcessBroker` | a call goes on (WF per call on `Advance`); a child that was told to stop exits (WF); both steps of `close` (WF) | continuations run; `terminateTree` is the backend's duty to carry out. None on a child that was not told, on the deadline or on any other stopper: a process may run for ever. |
| `LocalArtifactStore` | a write and a cleanup go on (WF per call); `close` notices that nothing is under way (WF) | the file system answers and a source ends or fails. None on readers and deletions, on crashes or on calls of `close`. |
| `OpenAiProvider` | a call goes on (WF per call on `Run`); `close` cancels, waits and closes its transport (WF each) | every request and every stream has an idle timer and a deadline, delays are timers. None on cancellation by the caller or on the progress of a response. |

`MemoryStore`, `CircuitBreaker`, `Routing`, `TaskGraph` and `BudgetAccount` are
checked for safety only. A half-open circuit whose probe was lost does stay
so, and a memory call makes a fixed number of port calls.

## 5. What is proved

All theorems are in the eight `*Proofs` modules, for every value of the constants
that satisfies the named assumption of the module. Every safety property and
every action property that a run checks is also a theorem.

- **`TaskGraphProofs`**
  - `TypeCorrect`, `SnapshotsRoundTrip`, `SequencesSafe`, `PendingNeverStuck`,
    `SettledTasksStay`. The inductive invariant (`GraphInv`) adds to the type
    the facts that tie a status to its dependencies: while planning every task
    is pending with nothing else set; once sealed a pending task has an
    unfinished and no unsuccessful dependency, a ready or later one only
    succeeded dependencies, a blocked one exactly its unsuccessful dependencies
    as blockers. `SnapshotRoundTrips` alone is not inductive: without the last
    facts a transition could leave a task that the loader refuses.
    `PendingNeverStuck` needs a least pending task, which exists because an
    accepted graph has ranks.
  - `ReconciliationDetermined`: whatever the statuses are, there is exactly one
    set of tasks to block. It exists as the intersection of all sets closed
    under blocking; two different ones would differ on a task none of whose
    dependencies they differ on.
  - `CommitsAreRight`, about `TopologicalWalk` for any number of tasks.
    `CommitInv` says of the heap that every task is above its children, except
    around the slot that a loop is about to fill (`HeapInv`), and that it holds
    exactly the tasks that wait (`QueueInv`); of the sort that each degree
    counts the dependencies not met yet (`DegreeInv`), that depths are bounded
    by every ranking (`DepthInv`) and that a waiting task was passed over only
    while a dependency of it was outstanding (`LeastInv`); of the walk that a
    task it has seen is as its dependencies, all seen before, decide
    (`WalkInv`). The parts need each other: that the popped task is the least
    needs the heap to be one, and that a depth was final when it was compared
    with the limit needs the degrees.
- **`PersistenceProofs`**
  - `OutboxTypeCorrect`, `SettledMessagesStay`, `ExclusiveLeases`. The
    invariant is `LeaseBacked`: unless a worker reported late, every unexpired
    hold is the stored lease of its message, with the same time left.
  - `AdapterImplementsAtomicStore`, `ClosedAdapterIsQuiet`, for every `Effect`.
    `HolderInv` says that an active context belongs to the holder of the mutex,
    that only the holder is inside, and that nobody is when the store is
    closed. Each step of the adapter is a step of the abstract store or a
    stutter.
  - `NothingIsStoredTwice`, for an adapter over the operations of `StoreOps`
    (`OverStoreOps` says so): no operation stores an event or an outbox key
    twice (`CallsKeepSound`, one step per operation), and what a rollback
    restores was sound when it was copied.
- **`AccountingProofs`**
  - `TypeCorrect`, `AccountParsesBack`, `CancelledAccountHoldsNothing`,
    `SettledReservationsStay`. `VersionBounded` (each reservation is written at
    most twice) is what keeps the version in its type.
  - `CommandsTakeEffectOnce`: a command that took effect finds its reservation
    settled, its identifier taken or its account cancelled.
  - `HeadroomIsSpentOnce`, about sums over all reservations: a reservation adds
    only what fits at that moment, and a commit replaces an estimate by an
    actual amount, so that only the difference can pass the limit.
  - `OllamaTypeCorrect`, `CapacityIsAccounted`, `WaitersAreServedInOrder`,
    `ClosedManagerAdmitsNobody`, for any requests, models, sizes and
    configurations. `ManagerInv`: the counters are sums over the requests whose
    `pc` holds a lease, every queued request is in the queue exactly once, and
    nobody waits in a closed manager. The counts alone are not inductive; that
    a lease is held by its stage is what rules out a second release.
- **`ProviderProofs`**
  - `TypeCorrect`, `EndFits`, `StreamsPassTheGuard`, `CancellationsAreHeard`,
    `WakeupsAreNotLost`, `FirstTerminalOutcomeWins`. The invariant: a running
    operation keeps the reserve free (`RoomInv`); the terminal event is the
    last in the buffer (`TerminalInv`); a settled result has a terminal event
    (`ResultInv`); numbers in the buffer are consecutive and begin at what the
    validator expects, and times ascend, unless something was spoiled
    (`OrderInv`).
  - `OperationsAreSound`, `AnswersAreWhole`, `CancellationsArrive`, about
    OpenAI, for any number of calls, length of a response and bound on retries.
    `Reading` says that what was surfaced is the beginning of the response up
    to `highest`, and that the next event of the stream is at most one further
    or is still to be compared with it: the continuity check after a resume is
    what keeps that. `Known` says when the response id is known; with
    `ClosingInv` (what `close` has copied, and that it waits for the cancel
    requests of those) a cancellation arrives.
- **`ProcessBrokerProofs`**: `BrokerTypeCorrect`, `ReasonsToStopAreHeeded`,
  `SandboxOutlivesProcess`, `NothingIsLostOrReordered`, for any calls and
  limits. `WatchInv` is the heart: a living child was told to stop, or every
  reason to stop it is still ahead and watched for. It needs `StageInv` (what
  each await says of child, stoppers and sandbox), since stoppers are
  registered after the child was spawned. `StreamInv` numbers the queued events
  by the bytes counted; `InputInv` and `CloseInv` are about stdin turns and
  what `close()` still waits for.
- **`RoutingProofs`**
  - `CircuitTypeCorrect`, `OutcomesCountOnce`, `ProbesKeepTheirDistance`,
    `FailuresAreCounted`. Every step of the router is a step of the circuit or
    leaves it alone, so the theorems are about the breaker wherever it is used.
    The times of applied events increase strictly, which is why an outcome
    counts once even when its identifier was forgotten; the invariant ties the
    last applied event to the stored phase, its `lastAt` and the end of its
    cool-down.
  - `RoutingTypeCorrect`, `DecisionsExpireWithEvidence`. `HeldIsJustified`: a
    held decision was made at an instant at which its primary was feasible; two
    lemmas then say that a candidate once feasible stays so exactly until the
    first of its expiries, and that `validUntil` is that first one.
- **`LocalArtifactStoreProofs`**: `TypeCorrect`, `ObjectsStayWhole`,
  `SuccessesStand`, `NothingStaysBehind`, for any number of writers, readers,
  keys and crashes. `ObjectsStayWhole` needs that a file is synced before it
  can be linked (`Sound`) and that whatever may survive a loss of power at a
  key's place is synced too; `SuccessesStand` that the entries a success
  relies on are among those a loss of power cannot take; `NothingStaysBehind`
  that nothing starts once `close` has begun.
- **`MemoryStoreProofs`**: `NothingComesUndone`, `RecordsAreSupersededOnce`,
  `DeletionsAreForgotten`, `PrecedenceIsKept`, for any callers and requests.
  The invariant `Inv` says what a call knows across an await: what it loaded
  has at most the version that is stored now, and equal versions are equal
  entries. So a write that passes the compare-and-set changes exactly the entry
  its checks were made on. `Backed` adds that a deletion under way has its
  marker stored. `PrecedenceInv` follows a supersession from its check to its
  second write. The first attempt at it failed for a reason: a deletion marker
  can be superseded as well, and brought back as something else by a later
  append, so the property excepts every record that was created twice
  (`NeverBroughtBack`), markers included.

The theorems on `TypeOK`, `SequencesStaySafe`, `CancelledHoldsNothing`,
`SettledForGood` of the account, `NoLostWakeup` and `FirstOutcomeWins` state
properties that no run lists: they were checked by TLC while the invariants
were developed, and are left to the proof now that it stands.

Where an argument is by induction over numbers or over finite sets (sums, the
least element, the earliest expiry), it is made by taking a smallest
counterexample (`WFMin` over the natural numbers), since an induction theorem
that takes a predicate as its parameter cannot be instantiated by the provers.
For the same reason the models have no recursive operator where a theorem is
about it: `TopologicalWalk` takes its loops a step at a time, and the sums are
folds of the community modules, unfolded by `AccountingProofs`.

Only model-checked: liveness (`EveryMessageSettles`, `EveryCallReturns`,
`StreamEnds`, `EveryStartSettles`, `OutcomeIsDelivered`, `CloseReturns`,
`EveryCallSettles`), which the prover does not do under fairness. Nothing
proved here says that the loops of `TopologicalWalk` end.

## 6. What is not modelled

`PROJECT.json` lists every package with the reason. In short: validators,
parsers and digests are pure and enter models as guards; child processes,
servers and the operating system enter as nondeterministic outcomes; the
packages `application`, `scheduler`, `evaluation`, `plugins`, `api`, `desktop`
and `observability` exist in `docs/technical-design.md` only. Not modelled yet
although they keep state: `telemetry-ledger`, `provider-gateway`, `thinker`,
`workspace`, `secrets-memory` and the coding agents (`provider-claude-code`,
`provider-codex`). In the modelled packages: event payloads, names,
descriptions, trace identifiers and usage totals; the catalog, residency calls
and health of Ollama; the broker's audit records, environment and admission
rules; the scopes, authorization and expiry of memory; the router's
comparisons that time does not change and its budget plan; request building,
parsing and cost of OpenAI; literal redaction in the stream transforms of
`artifact-store`; migrations and cursors of the persistence package.

## 7. Plan

1. **Coding agents**: `Workspace` (managed worktrees under crashes: creation,
   lease, cleanup, reclamation; a crash between `mkdir` and the ownership
   marker at `worktree.ts:134` is the open hazard) and `CodingAgent` (session,
   permission, settlement and reconciliation of `provider-claude-code`, then
   `provider-codex`), composed: an operation of `ProviderOperation` over a
   broker process in a workspace.
2. **Ledger and gateway**: `TelemetryLedger` over the abstract `AtomicStore`
   (optimistic conflicts and retries; it implements a set of observations) and
   `Gateway` (preflight, invoke, close).
3. **Planning pipeline**: `Thinker` (one guarded invocation racing close), and
   `ContextPack` and `RepositoryIndex` as folds under budgets with reference
   definitions.
4. **HTTP providers**: `provider-openai-compatible` and `provider-gemini` as
   instances of the streaming part of `OpenAiProvider`.
5. **Proofs**: the invariants of the modules above as they are written; a
   smallest measure for the loops of `TopologicalWalk`; that what
   `OpenAiProvider` surfaces passes the guard of `ProviderOperation`.
