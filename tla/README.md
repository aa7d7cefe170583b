# A TLA+ model of Fireweed

Fireweed is a priority work queue with leased delivery, idempotent requests,
unique secondary indexes and several storage compositions. This directory holds
a model of its core, the TLC configurations that check it on small instances,
and proofs, checked by TLAPS, of the properties that matter for every size.
Paths below are relative to the repository (`src/` in `PROJECT.json`).

## 1. The system

A *queue* holds *work records* (a key, a lifecycle, priority, availability,
attempts, perhaps a lease) and *state records* (collections beside the work).
A caller inserts work, claims a batch under a lease, and commits *groups* of
updates: what to do with claimed work, patches of unclaimed work, state, and
administrative changes. Every request carries an identity. A request whose
answer was lost is sent again and must be answered the same way.

| Part | Source | Role |
|---|---|---|
| Semantic planner | `fireweed-engine/src/queue_planner.rs`, `queue_claim.rs`, `queue_fields.rs` | What an update, an insert and a claim do to rows, as pure functions over a snapshot. Every store calls it. |
| Queue contract | `fireweed-core/src/queue_contract.rs` | Types and validation of requests and results. |
| PostgreSQL queue store | `fireweed-postgres/src/queue_store.rs` | One transaction per operation under the queue's row lock; rows, unique index, sequence head and receipts. |
| In-memory queue store | `fireweed-engine/src/queue_memory.rs` | The same planner under a mutex. |
| Selected administration | `queue_administration*`, `queue_store/administration.rs` | Administrative changes of the records that a query selects. |
| Ownership | `fireweed-engine/src/control_plane.rs`, `ownership.rs`, `async_control_plane.rs`, `port.rs` | Which node serves a queue, and the storage epoch that fences every other. |
| Control planes | `InMemoryControlPlane`, `fireweed-postgres/src/control_plane.rs` | Where the authority record lives. |
| Facade, server | `fireweed/src/lib.rs`, `fireweed-server/src/lib.rs` | Cached sessions, renewal, shutdown, dispatch. |
| Object log | `fireweed-objectlog/src/*` | Segments and a conditional head over an object store. |
| Projections | `fireweed-projection`, `fireweed-relational`, `fireweed-turso` | State applied from the log. |
| Apply coordinator | `fireweed-objectlog/src/async_projection_apply.rs` | Hands committed batches to a projection that lags behind the log; reads wait for it. |
| Commit path | `fireweed-engine/src/async_commit.rs`, `async_composed.rs` | One operation of a queue at a time, in a task detached from its caller. |
| Task dispatcher | `fireweed-server/src/tokio_dispatcher.rs` | Bounded tasks, close and drain. |
| Publication, recovery | `queue_publication.rs`, `queue_recovery.rs`, ... | Published history and cold recovery. |
| Admission | `byte_admission.rs`, `queue_admission.rs`, `fireweed-queue-spool/src/*` | Byte budgets, drain, scratch files and quotas. |
| RESP adapter, tools | `fireweed-resp`, simulators, benches | Wire protocol and tests. |

They interact in three ways. On the *data path* a request reaches a store, which
takes the queue's lock (or appends to its log), lets the planner decide, and
makes rows and receipt durable together. On the *ownership path* a node
acquires the queue at the control plane, moves the storage's epoch, and from
then on stamps each write with that epoch; the storage compares it inside the
write's unit of work. On the *commit path* of the log-composed backends a caller
waits for the queue's permit, submits a job that carries it, reserves a place in
the apply queue, appends, and publishes its batch to the apply worker; admission
bounds the bytes and the operations that are under way, and a drain waits for
all of them. `PROJECT.json` lists every component with its status.

## 2. Modules

| Module | Models | Kind |
|---|---|---|
| `QueuePlanner` | the planner | operators on a snapshot, no state |
| `QueueStore` | the PostgreSQL queue store | state machine over `QueuePlanner` |
| `LeaseTable` | what workers rely on: leases that are granted once and never come back | abstract specification |
| `MCQueueStore` + `.cfg` | | five workloads for TLC, of which a behaviour has one |
| `QueuePlannerProofs` | | lemmas about the planner's operators |
| `QueueStoreProofs` | | types, rows, unique index, sequences, versions; receipts, answers and effects; tokens, exclusive leases, refusals, the lease fence, and that `QueueStore` implements `LeaseTable` |
| `Ownership` | authority, storage epoch, nodes | state machine |
| `MCOwnership` + three `.cfg` | | the violation runs |
| `MCOwnershipWorlds` + `.cfg` | | each kind of authority, of which a behaviour has one |
| `OwnershipProofs` | | fencing across takeover and restart |
| `KeyedGate` | the per-queue gate of the commit path | state machine |
| `KeyLock` | what its users rely on: a lock per key | abstract specification |
| `TaskDispatcher` | the dispatcher | state machine |
| `ComposedBackend` | `submit_operation`, `close`, `drain`: gate and dispatcher together | composition |
| `ComposedBackendProofs` | | the gate: mutual exclusion, the count of waiters, order, and that `KeyedGate` implements `KeyLock`; the same inside the backend; the dispatcher's counts, serial operations, drain |
| `ByteBudget` | `BufferedByteBudget` | state machine |
| `ByteBudgetProofs` | | no failed assertion, conservation, nothing stranded, order per tenant |
| `OperationRuntime` | `QueueAdmission` and the spool's `OperationRuntime` | state machine |
| `OperationRuntimeProofs` | | exact counters, charges under slots, drain |
| `Units`, `UnitsProofs` | | sums of byte counts as cardinalities, and how they move |
| `ApplyCoordinator` | the apply coordinator with commits, cursor, waits and operator | state machine |
| `ApplyCoordinatorProofs` | | one worker; honest high water, nothing forgotten; batches in order |
| `MCByteBudget`, `MCOperationRuntime`, `MCComposedBackend`, `MCApplyCoordinator` + `.cfg` | | instances for TLC |

### 2.1 QueuePlanner and QueueStore

A snapshot is a function from record identities to rows, the owners of the
unique tuples, and the sequence head. A deleted record keeps an inactive row
with its version: that is the planner's `versions` high-water mark and the
store's tombstone row. Bodies, metadata and fields without a unique index do
not influence any decision and are left out. One unique field per collection
stands for all of them. Tokens are numbers, and a token stands for its hash.
Integers keep their width (`MaxU64`, `MaxU32`, `MaxI64` are constants, so the
limits are close enough to be reached).

`QueueStore` has one transaction open at a time, because `queue_row` locks the
queue's row first. `BeginInsert`, `BeginClaim` and `BeginCommit` take the lock.
`ReplayInsert`, `ReplayClaim` and the replay case of `CommitGroup` answer from a
receipt. `InsertItem` and `CommitGroup` plan one item or group, each with its
own sample of the clock, in a view (`planned`, `saved`) that already holds what
came before. `SelectClaim` is the claim query with its lease and tokens.
`CommitInsert`, `CommitClaim`, `CommitBatch` make the view durable and send the
answers; `Rollback` may happen at any point. `Tick` may come between any two
steps. An answer is remembered in `answers` although it may never arrive: the
caller may send the same request, or another content under the same identity,
at any later time.

| Variable | Code |
|---|---|
| `db` | tables of records and unique tuples, the queue's sequence column |
| `receipts` | the requests table (domains insert, claim, commit) |
| `op`, `request`, `planned`, `saved`, `results` | the open transaction |
| `now` | `Clock::now` |
| `issued` | tokens that were stored; those of a rolled-back claim are never seen |
| `answers` | history: what callers were sent |

### 2.2 Ownership

One queue, a set of nodes, the control plane's record (`lease`), the storage's
epoch (`storage`), and per node the acquisition under way (`task`), the renewal
under way (`renewal`), the cached session and the epochs that writes on their
way may carry (`stamps`). Every call to the control plane or to the storage is a
step of its own. The decisions of an acquisition use the time sampled before its
first call, however much later they are made. Nodes crash, callers drop their
acquisitions, storage calls fail, a remote authority loses requests and answers
(`ConfirmLost`, `TryRelease`, `Abandon`, the last case of `Renew`).

The deployments differ in two constants:

| `Plane` | `Exact` | Deployment |
|---|---|---|
| `"bound"` | any | PostgreSQL control plane with the storage's tables in its schema: `bind_storage_epoch_if_present` moves the storage epoch in the acquire transaction. |
| `"durable"` | `TRUE` | PostgreSQL control plane, storage elsewhere, with the trait's own `fence_epoch` (`port.rs`), which fails past its target. |
| `"durable"` | `FALSE` | The same with one of the overrides of `fence_epoch` in the log-composed backends, which do not look again. |
| `"ephemeral"` | any | `InMemoryControlPlane`: it forgets everything on a restart while the storage keeps its epoch. |

The target a node computes from the owner registry (rendezvous hashing over live
heartbeats) is a free choice in `Resolve`: whoever asks may or may not be the
target at that moment, which covers every disagreement about who is live. The
session rules are the facade's: `EpochFenced` and a refused renewal drop it.

### 2.3 The commit path: KeyedGate, TaskDispatcher, ComposedBackend

An acquire of the gate is a future. It registers a waiter on its first poll, is
polled again when its waker fires or for no reason, and may be dropped at any
point, also after a release granted it the key and before it was polled. Each
critical section of the central mutex is one step; `woken` is the executor's list
of tasks to poll. `KeyLock` is the specification the commit path relies on: a set
of pairs of a caller and the key it owns, with `Take`, `GiveBack` and `HandOver`.
The refinement mapping `Pairs` counts a caller as owner from the grant on, since
from then on nobody else can get the key.

The dispatcher has a step for each critical section and for what threads do
outside of it: the spawn of a job, the end of a task, the work on completions
that one thread does for all. `ShutDown` of the runtime drops every task, and
each one that is spawned afterwards. `ComposedBackend` joins the two as
`submit_operation` does: the permit moves into the job, and comes back when the
job ends, is dropped or is refused. `close` shuts the gate and the dispatcher one
after the other, so that callers are between the two.

### 2.4 Admission: ByteBudget, OperationRuntime

`ByteBudget` keeps global and per-tenant charges, the deque of waiters and the
bypass counts that age a large request. `share` and `entries` are the values and the
keys of `tenant_charged`: a key is removed at zero bytes, and an `expect` asks for
it later. `broken` stands for the panics (`expect`) inside the mutex. The deque is the
set `waiters` with `ahead`, those before each. The loops of `grant_waiters` and
`close` are a step per turn: `section` says which loop the thread with the mutex is
in, and until it is through nobody else takes the mutex. `OperationRuntime` follows the counters of a job
through borrowed, merged, grown and owned buffers, drops by whichever owner is
last, and the drainers' arm, check and await. A job's charges are the members of
`Charges` that `JobOf` gives it; `base` and `held` are the bytes under its
reservation and under each charge.

### 2.5 ApplyCoordinator

| Variable | Code |
|---|---|
| `entry`, `id` | `CoordinatorState::entries`: none, `Reserved` or `Ready`, in the order of ids |
| `mark`, `poisoned`, `retries` | `ShardApplyState` |
| `paused`, `running` | the atomics `paused` and `worker_running` |
| `step`, `gen`, `ok`, `open`, `over` | each task of `run_worker`: its place, its generation and result, its join windows |
| `heard` | who was notified since it armed (`Notify::notify_waiters` keeps no permit) |
| `waiter`, `target` | `wait_for_catch_up` and `wait_until_covers` |
| `commit`, `pos` | each commit of `commit_replayable`, and its position |
| `epoch`, `tail`, `cursor` | the log's epoch and end, the projection's cursor |
| `operator`, `left` | `delete_projection` or `rebuild_projection` under way, and the queues still to visit |

A batch has one position, numbered from 1 (0 is none). A commit reserves, appends
(with a position, rejected, or without an answer), publishes and kicks. The
worker's check of `paused`, its selection under the mutex, the projection's
transaction, the settling of its result and both of its ways to stop are steps of
their own. The caps on a generation may end it anywhere; the debt limits are one
depth; a refused reservation changes nothing. A transaction of the projection may
fail with or without its effect. `Quiesced` says whether the operator deletes and
rebuilds on a handle without traffic, which a comment in the code takes for
granted.

## 3. Runs

Each passing run is complete for its constants.

| Run | Instance | States | Properties |
|---|---|---|---|
| `store` | five workloads: one record leased twice under every disposition; administration under every guard against a claim; vectors and batches on the unique index; claims of two records; integers of width 4, 1 and 1 | 537k | `InWidth`, `LoadableRows`, `IsLeaseTable`, `AnswersDurable`, `RefusedClaimsStayRefused`, `UniqueOwnership`, `DistinctSequences`, `VersionsNeverReused`, `LeaseFence`, `ReceiptsBindEffects` |
| `own` | 2 nodes with a bound or a durable plane, or 1 node whose ephemeral plane restarts | 0.9M | `DistinctStamps`, `SupersededFenced`, `MatchedAlone`, `RestartFenced`, `NeverSelfFencedAlone`, `WritesHandOverDurably` |
| `bytes` | 3 callers of 3 tenants, budget 4, tenant limit 3 | 31k | `NothingBroken`, `Conserved`, `NoStrandedCapacity`, `TenantOrder`, `NoStarvation` |
| `admission` | 2 jobs with 2 charges each (the second makes one allocation less), 2 drainers | 94k | `CountersExact`, `ChargesUnderSlots`, `DrainedForGood`, `EveryDrainEnds` |
| `backend` | 4 callers of a queue, or 2 of one and 1 of another, 2 waiters, 1 slot, 1 queued job, a drainer | 43k | `QueuedExact`, `NoOvertaking`, `IsLock`, `JobsCounted`, `NoIdleSlot`, `SerialOperations`, `DrainedForGood`, `EveryOperationEnds`, `DrainsEnd` |
| `apply` | a claim, its completion, a batch of another queue, two waits, up to two faults | 74k | `OneApply`, `HighWaterApplied`, `NoGapWithinEpoch`, `NothingForgotten`, `PublishedApplied`, `EveryWaitEnds` |
| `own_contended` | 2 nodes, durable plane, exact fence | violation | `Matched` |
| `own_shared` | 2 nodes, ephemeral plane | violation | `SupersededFenced` |
| `own_overshoot` | 2 nodes, durable plane, overriding fence | violation | `DistinctStamps` |
| `bytes_zero` | requests of no bytes | violation | `NothingBroken` |
| `apply_fresh` | 2 commits of a queue, no fault | violation | `NoGap` |
| `apply_rebuild` | 2 commits of a queue, a rebuild during traffic | violation | `NothingForgotten` |

What the properties say:

* `InWidth`: no counter or timestamp leaves its integer, at the limits of a
  narrow instance.
* `LoadableRows`: no history writes a row that `validate_snapshot` or
  `validate_raw_work_lease` refuses, which would fail every later operation on
  the record.
* `IsLeaseTable`: the store implements `LeaseTable`. Claims take only records that
  nobody holds, under tokens that were never used, and a lease that has ended never
  comes back. (Also proved: `OneLiveClaim`, no two claims hold current credentials
  for a record; `LeasesHaveReceipts`, each stored token can be got back from a
  receipt; `TerminalNotClaimed`, finished work is not handed out.)
* `RefusedClaimsStayRefused`: a claim that was refused as expired is never
  honoured later, whatever renewals, re-claims or administration follow.
* `AnswersDurable`, `ReceiptsBindEffects`: what a caller was told is what the
  receipt says; receipts never change; rows change only with a new receipt.
* `UniqueOwnership`, `DistinctSequences`, `VersionsNeverReused`, `LeaseFence`: the
  unique index is exactly the active holders; live work has distinct places; a
  version never stands for two states, also across delete and reinsert; a live
  lease is ended by its holder or an administrator who permits it.
* `DistinctStamps`, `SupersededFenced`, `WritesHandOverDurably`: a fence epoch belongs
  to one node, a superseded node's write is refused under a serving owner, and
  accepted writes come in runs of one owner with growing epochs.
* `MatchedAlone`, `NeverSelfFencedAlone`: where no second node advances the
  storage on its way, the serving owner's session carries the storage
  epoch, and a lapse that the owner repairs itself does not fence its writes.
* `RestartFenced`: no session shares its fence epoch with one from before a
  restart of the in-memory plane.
* `NothingBroken`, `Conserved`, `NoStrandedCapacity`, `TenantOrder`,
  `NoStarvation`: no assertion fails under the mutex; charges are those of the
  living permits and grants; nobody who fits is left waiting; a tenant is served
  in order; a large request is not passed for ever by small ones.
* `CountersExact`, `ChargesUnderSlots`, `DrainedForGood`, `EveryDrainEnds`: the
  admission's counters are what the living guards hold; a drain that returned left
  nothing behind, and each drain returns.
* `IsLock`, `NoOvertaking`, `QueuedExact`: the gate implements `KeyLock`, serves in
  order, and its count of waiters does not drift.
* `JobsCounted`, `NoIdleSlot`, `SerialOperations`, `EveryOperationEnds`,
  `DrainsEnd`: completions are neither lost nor counted twice, no job waits for a
  free slot, operations of a queue are serial, and calls and drains end, also when
  the runtime shuts down.
* `OneApply`: one task applies, and `worker_running` is set exactly while it does.
* `HighWaterApplied`: the high water that answers a wait for coverage names what
  the projection has.
* `NoGap`, `NoGapWithinEpoch`: batches reach the projection in log order.
* `NothingForgotten`: a published command is in the projection, or waits for the
  worker, or its queue is poisoned.
* `PublishedApplied`, `EveryWaitEnds`: no kick and no notification is lost, unless
  an operator left apply paused (`Parked`: a delete, or a rebuild that failed).

Why the bounds are enough for the interesting cases. In the store workloads an
identity has several contents, so retries with the same and with another
content happen; the clock runs past two leases; there are enough versions for
claim, loss, re-claim and late disposition. In the ownership runs three epochs
allow an owner, its successor and a contender that is late for both; the clock runs past
a lease once with a bound plane, which allows a takeover, twice with a durable one, which
allows the return too, and three times with one that restarts. Four callers of a gate are an owner, one who was granted, one who waits and
one who is refused; one slot and one queued job make every submit path happen.
Three tenants are needed so that two can keep the third out. Two worker tasks are
one that is about to return and its successor; the scenes of `MCApplyCoordinator`
combine two commits with one fault, one commit with two faults, and waits with
either. `MaxTrouble` bounds faults, new epochs, restarts and operator calls
together. `CHECK_DEADLOCK FALSE` is set where the bounds, or a program that has
nothing left to do, end behaviours. `SYMMETRY` is used for nodes in safety runs
only: nothing names a node.

Fairness. Weak fairness of what goes on by itself once it was started: a woken task
is polled (Tokio's executor), a permit or a guard is dropped by the operation that
holds it, a thread leaves its critical section, the worker goes on, a join window
ends by its timer. Nobody is made to come, to give up, to close, to drain, to
rebuild or to end a deadline, and no fault is bound to happen. In `apply` the
fairness is of the disjunction of all these steps, which is less than fairness of
each. In `bytes` a thread that needs the mutex gets it if it is free again and again
(strong fairness), since `section` keeps it busy between the turns of a loop; a thread
that contends for a lock for a moment is not starved for ever. The store and ownership
runs have no fairness: they check safety.

## 4. Proofs

All theorems hold for every value of the constants that satisfies the named
assumptions: `PlannerAssumption` (disjoint identities, naturals for the widths),
`RequestAssumption` (requests are what the validators let through),
`OwnershipAssumption` (nobody is not a node; the bounds are naturals),
`GateAssumption` (naturals for the limits, and room for the permit itself),
`BackendAssumption` (naturals for the dispatcher's limits, and a slot),
`RuntimeAssumption` (naturals for the limits, and each charge has a job),
`BudgetAssumption` (naturals for sizes and limits, a tenant's within the node's; the
theorems assume `NonEmpty` besides, that no request is for zero bytes, without which
`bytes_zero` refutes the first) and
`ApplyAssumption` (types of the constants; `CoverageHonest`, `PublishedKept` and
`AppliedInOrder` assume `Quiesced` besides, without which `apply_rebuild` refutes
the second).

**Planner** (`QueuePlannerProofs`). Each operator that yields a row yields a
well-typed, loadable one. One step of a group or an insert keeps a snapshot
`Sound`: typed, loadable, the unique index exact, sequences distinct and below
the head. A row that changes gets a greater version (`RowStep`).

**Store** (`QueueStoreProofs`). The inductive invariant is `Shape`: the committed
snapshot *and* the view of the open transaction are `Sound`, tables and
transaction are typed, and `View` says how much of the view may differ from what
is committed. `TypeCorrect`, `RowsLoadable`, `UniqueSafe` and `SequencesSafe`
follow. The view is needed since a property of `db` alone is not inductive: a
commit copies `planned` into it. `Progress` relates the two (a changed row has a
greater version, terminal work is not leased) and gives `VersionsSafe` and
`TerminalSafe`.

**Receipts** (`QueueStoreProofs`, second part). `Bookkeeping` says that the receipts a
transaction sees extend the committed ones, that the results it is about to send
are in them, and that a view without an effective new receipt has the committed
rows. `AnswersSafe` and `EffectsBound` follow.

**Leases** (`QueueStoreProofs`, third part). `LeaseInv` numbers the tokens: those in receipts
were issued, each to one claim, and the open claim holds the ones that come next
(`TokensIssued`); each leased row is backed by a receipt, or by the result of the
claim that is about to commit (`LeasesBacked`); and leased rows are active.
`OneClaimSafe` and `LeasesRecoverable` follow. `RefusedLost` says that a refused
claim has a member that is gone, in `db` and in the view; being gone is stable
because a token is never issued twice, expiry only moves by the holder, and the
clock never steps back: `RefusedSafe`. `FenceSafe` is an action property by cases
over the update kinds.

**Lease table** (`QueueStoreProofs`, fourth part). `StoreIsLeaseTable` maps a record to
the token of its committed row while that lease is `Held`: current in `db`, or renewed
in time by the open transaction. The second case is needed because a batch takes effect
later than the clock sample it was planned with: a lease may run out in `db` while the
transaction that renewed it still holds the queue's lock, and is current again once that
commits. Nobody can look in between. `Taken` says that an open claim takes records whose
lease is over, under tokens above all that were issued, and that any other transaction
keeps or clears the tokens it found. The commit of a claim is then a `Grant`
(`LeasesGranted`), and every other step loses leases or none (`LeasesLost`), since a
token that is gone stays gone.

**Ownership** (`OwnershipProofs`). Three inductive invariants:

* `TightInv`, for bound planes and for durable planes with an exact fence. A node
  *claims* an epoch when it stamps writes with it or holds it in an acquisition.
  Claims never exceed the authority's epoch, and at that epoch belong to its
  owner if it has one (`ClaimsCurrent`); no two nodes claim one epoch
  (`ClaimsDistinct`); what is fenced is the assigned epoch itself
  (`FencesExact`); a serving record's epoch has reached the storage
  (`ServedFenced`); a bound plane keeps both epochs equal (`BoundEqual`); the last
  accepted write carries its owner's stamp (`LastStamped`). It gives
  `StampsDistinct`, `SupersededAreFenced`, `HandOver`, and for a bound plane
  `BoundMatched` and `BoundNeverSelfFenced`.
* `RestartInv`, for ephemeral planes with any number of nodes: the storage is at
  or above every epoch from before a restart, and strictly above as soon as a
  record serves, an acquisition re-affirms a session, or a session stamps. It
  gives `RestartIsFenced`.
* `AloneInv`, for one node (`Alone`) with any authority. The node has a session or an
  acquisition, never both; what either read of the storage is still true; the record
  is the one that the acquisition read, or wrote; and a serving record's epoch has
  reached the storage. It gives `AloneMatched` and, unless the plane is bound,
  `AloneNeverSelfFenced`: a node that lapses re-affirms its lease without moving the
  storage, because the prior record it compares with is its own.

**Gate** (`ComposedBackendProofs`, first part). The inductive invariant `Consistent` says that each
waiter stands once in the line of its key, with the status that goes with it; that
a line belongs to an active key; and that a key is active exactly while one caller
owns it. The lines are needed because a release takes the head of a line for a
waiter that owns nothing. `MutualExclusion` follows, and `GateIsLock`: `Init` maps
to `KeyLock`'s `Init`, and each step to `Take`, `GiveBack`, `HandOver` or a stutter
(`StepRefines`); a poll by a granted caller is a stutter, since it owned the key
already. `CountExact` needs the converse of the lines, that each waiter stands in
one (`Standing`), so that a step that shortens a line takes exactly one member from
the set of waiters, whose cardinality the count is (`Counted`).
`FirstComeFirstServed` compares places before and after a step: only the head of a
line is granted, and the others keep their order.

**Backend** (`ComposedBackendProofs`, second part). A step of the backend is a step of the gate or
leaves it alone (`BackendUsesGate`), which carries the gate's theorems over. For the
dispatcher the invariant `JobsInv` says that `running` is the number of tasks with a
slot plus the completions that wait for the advancing thread, that `outstanding` adds
the line, that the line holds exactly the queued jobs, once each, and is empty while
a slot is free, and that a resolved drain saw the dispatcher closed and empty:
`CountersAgree`, `SlotsAreUsed`, `DrainIsFinal`. `Held` relates the two components:
the permit of a queue is with its accepted operation, or with the caller whose job is
to be submitted or was refused. With the gate's mutual exclusion it gives
`OperationsAreSerial`.

**Admission** (`UnitsProofs`, `OperationRuntimeProofs`). Bytes are counted as cells: `Units` of a
function to naturals has a pair for each byte of each member, so that a sum is a
cardinality, and `UnitsChange` says how it moves when one value does. The invariant
adds to the types what keeps a job alive (`Guards`: its operation and each of its
charges), both counters (`SlotCount`, `ByteCount`, in which a job whose last guard is
in its drop still counts), and that a drain that returned saw no usage after the
close (`Closing`). That later bytes stay zero follows from `Guards`: without a slot
nothing holds a byte. `AdmissionIsExact`,
`ChargesStayUnderSlots` and `RuntimeDrainIsFinal` follow.

**Byte budget** (`ByteBudgetProofs`, with the same cells). The invariant has four
parts: who is not idle has a request (`Callers`); the waiters stand in one order
(`Deque`); the charge of the node and of each tenant is what its permits and granted
waiters hold, within the limits, and a tenant has an entry exactly while it holds
bytes (`Books`); and `NoStrandedCapacity` whenever the mutex is free, nobody waiting
once the budget is closed (`Control`). The entries are why `NonEmpty` is needed: a
holder of zero bytes has none. A turn of a loop is proved like any other step, so
that no induction over the deque is needed. `NeverBroken`, `BytesConserved` and
`NothingStranded` follow; `TenantsInOrder` since only a turn of `grant_waiters`
admits while anyone waits (`Admitting`), and never past one of the same tenant.

**Apply** (`ApplyCoordinatorProofs`). `SingleWorker` is by
cases over the steps that start, keep or stop a task: `OneApply` with the types is
inductive. For `CoverageHonest` and `PublishedKept` the invariant `Inv` adds:
a Ready batch was published and its position is in the log (`Published`); the
generation of a task is of one queue and published, and if its result is positive
the projection has it (`Selected`); while the operator's call is under way no commit
is, no task holds a generation, and visited queues have no entries (`Quiet`); and
what the call has replayed so far (`Recovering`). The last two are needed because a
reset forgets entries: that is only right if nothing was published since the replay.
`AppliedInOrder` adds that positions carry an epoch of the log (`Stamped`). What the
worker selects within the epoch of the high water begins right behind it, and each
batch follows one before it (`RunFollows`), so that no command between is left out
(`RunOrdered`). And nobody touches the selection before it was
applied (`SelectionKept`).

Each invariant was checked with TLC before it was proved.

**Only model-checked.** All liveness (`NoStarvation`, `EveryDrainEnds`,
`EveryOperationEnds`, `DrainsEnd`, `PublishedApplied`, `EveryWaitEnds`): fairness is
outside what the provers do. `InWidth` of the workloads, which `TypeCorrect` states
for the store itself; `MatchedAlone` and `NeverSelfFencedAlone` of the worlds, which
are `BoundMatched`, `AloneMatched` and their companions for the authority itself (with a
second node `own_contended` refutes the first).

## 5. What disagrees with the documentation

* `own_contended`. TD-013 (OWN-1) wants the serving owner's cached fence to match
  the storage. Each `acquire_epoch` in `fence_epoch`'s loop is unconditional, so a
  contender whose lease lapsed while it was stuck between two calls moves the
  storage epoch past the fence of the owner that serves by then, and fails only
  afterwards. Safety is kept (run `own`): the serving owner's next write is
  refused, it drops its session, releases and acquires again. It is an
  availability gap.
* `own_shared`. When several nodes use one in-memory plane in a process, a node
  that re-affirms its lapsed lease and is then overtaken reads the storage epoch
  late, and takes the new owner's fence for its own. The comment in `ownership.rs`
  says that a superseded owner is refused at its commit.
* `own_overshoot`. Four backends override `fence_epoch` without the second
  comparison. A node that is carried past its target by another node reports
  success with an epoch that the authority hands to the next owner: two sessions
  with one stamp. `port.rs` asks for the exact target.

* `bytes_zero`. A permit of zero bytes keeps no accounting entry of its tenant
  alive, so that its drop may find none and panic with the mutex held, against the
  assertion's own message. No caller acquires zero bytes today.
* `apply_fresh`. For a queue without a high water, and across a change of epoch, the
  worker takes the lowest batch that is published, also when an earlier one is still
  on its way. TD-004 asks for strict order. The projection refuses the gap, so
  nothing is applied out of order (`HighWaterApplied`); but the retries follow
  without delay, and poison the queue if they run out before the earlier commit is
  published. Within an epoch of a known high water the order holds
  (`NoGapWithinEpoch`).
* `apply_rebuild`. A comment says that a rebuild runs after admissions were stopped
  and drained; `rebuild` of a live handle stops nothing. A batch that is published
  between the replay of its queue and the last reset is dropped: durable,
  acknowledged, in no queue, nothing poisoned, until the next recovery.

## 6. Assumptions and what is left out

* The wall clock does not step back (CONTRACT-006, F-CLOCK). With one that does,
  `RefusedClaimsStayRefused` and `IsLeaseTable` fail by design of lease expiry.
* PostgreSQL gives the row lock and atomic commit. Its waiting queue has no
  state that matters here.
* The filter of a claim is a fixed set of keys per request; ordering, record
  limit, byte budget (as a cut anywhere after the first record), eligibility and
  the overdue rule are modelled.
* `expired` receipts: no code path writes the column, so receipts do not expire.
* Left out of the store: provisioning (the queue exists), preview, reads and
  statistics, administration of query-selected records.
* Left out of ownership: several queues per node, the registry of owners and
  endpoints, the server's own session table (which keeps a session after
  `EpochFenced` and renews in sweeps), the object log's cached epoch.
* Left out of the coordinator: the start delay of produce batches, the tails kept
  for readers, the transfer of followers (its packer is retired), the second poison
  registry, and what a command does to the projection's rows. The log is the next
  position, a rejection or no answer.
* Left out of admission and dispatch: statistics, and poisoned locks.
* Wire formats, configuration and key layout: data without control.

Components that are not modelled, with the reason, are in `PROJECT.json`. Most of
the repository's lines are tests, tools, wire formats and SQL renderings of the
planner's decisions, which have no interleavings of their own.

## 7. Plan

The order is by risk: what runs concurrently and persists comes first.

1. **Abstract queue.** `LeaseTable` extended by the operations' results, atomic and
   idempotent, as a specification that `queue_memory.rs` is held to as well.
2. **Selected administration** as further actions of `QueueStore`: proposals, the
   selection at commit time, its receipts. Provision and preview with it.
3. **Object log storage**: conditional head publication, the epoch document and
   the per-process epoch cache, crash between segment and head; composed with
   `Ownership` in place of its register, and with `ApplyCoordinator` in place of
   its log.
4. **Server ownership runtime** over `Ownership`: cached session after
   `EpochFenced`, renewal sweep, drain; liveness of re-acquisition under weak
   fairness of the sweep.
5. **Micro-batching and the durable idempotency cache** of the command path.
6. **Reclaim and storage generation** with the log.
7. **Spool worker and quota, change-record sink, density.**
8. **Claim ageing**: a record that always loses the requested order is handed out
   once overdue (liveness with TLC, with fresh work arriving).

New modules keep to the conventions here: constants with named assumptions, one
action per operation, invariants as conjunctions of named parts, no recursion in
modules that proofs use.
