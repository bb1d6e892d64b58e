# Cakemaster in TLA+

Cakemaster is a metadata master for a distributed KV-cache store: clients mount
memory segments, write objects whose replicas live in those segments, and read
objects under leases. The data plane is elsewhere; what can go wrong here is
bookkeeping under concurrency: a replica freed while somebody reads it, a write
of a dead client that survives it, a session nobody cleans up.

This directory holds TLA+ models of the concurrent core, the TLC instances that
check them, and TLAPS proofs about the session registry. Paths below are
relative to the repository's `src/` directory (`crates/` and `docs/` to its root).

## 1. The system

| Part | State | Operations | What makes it hard |
|---|---|---|---|
| `client/lifecycle.rs` session registry | entries, deadline heap, retry queue, generations, fencing guards; one mutex | activate, heartbeat, rollback, begin_drain, claim_due_cleanups, finish/drop of a claim | old clock samples, lazily updated heap, claims dropped by failing cleanups |
| `object/catalog*` object catalog | index of slots; per slot a lock-free committed pointer and a mutex with the active transaction; collector queues | get, begin/stage/commit/abort, remove, collector step, owner revocation | readers take no lock; pointers are detached and republished; queues hold weak references that go stale |
| `object/manager.rs` | observed segment epoch | put/upsert start, finish, revoke, maintenance | retry loop that evicts and allocates again |
| `client/manager.rs` | per-client mount slots, graceful-unmount queue | mount, remount, unmount, graceful unmount, cleanup | several locks, rollback of partial work |
| `segment/*` | segments, allocator, placement snapshot, epochs | attach, quiesce, reactivate, remove, reserve, release | lifetimes end before epochs move; stale hints and snapshots |
| `object/tenant/*` | tenants, effective quota, charges | upsert, delete, reserve, charge phases, redistribution | seqlock and version checks without locks |
| `object/eviction.rs` | watermark flag, allocation debt | prepare/finish step, request, clear | hysteresis, generations of requests |
| `server/*` | clock, reconciler loop, RPC handlers, shutdown | one handler per RPC, reconcile_once, run_until | clock sampled before any lock is taken |
| `crates/coro-rpc` | in-flight table, queues | send, cancel, answer, close | timeouts against late answers, wraparound |

A request samples the clock (`MasterClock`) once and calls one manager. The
client manager drives the registry and the segment pool; writes carry a
`ClientSessionGuard` of the registry into the catalog; a fenced session's cleanup
revokes its pending writes in the catalog and then invalidates its segments; the
catalog learns of invalidated segments through an epoch that maintenance
compares. The reconciler runs session cleanup, graceful unmounts and the
collector.

What each part has to guarantee:

* *registry*: a token is valid exactly as long as its session; a session ends
  only when it is due or drained; its cleanup is done by one worker at a time and
  is never lost;
* *catalog*: leases and pins are honoured; a write belongs to exactly one
  outcome; everything published, staged, empty or stale is still reachable by the
  collector; counters match the content;
* *client manager*: a segment accepts writes only under an active session that
  owns it; a graceful unmount never hits a later incarnation;
* *segments*: allocations are disjoint and balanced, no reservation is given out
  after quiescing;
* *tenants*: demand stays within the effective quota at admission, and every
  charged byte comes back once;
* *eviction*, *reconciler*, *RPC*: work that is requested is eventually done; an
  answer reaches the call it belongs to.

## 2. Modules

| Module | Models | Source |
|---|---|---|
| `ClientRegistry` | the registry, its properties, its inductive invariant | `client/lifecycle.rs` |
| `SessionLifecycle` | what a client may rely on: Absent, Active, Fenced, fresh generations, at most `MaxClients` sessions | abstract specification |
| `ClientRegistryProofs` | TLAPS proofs | |
| `CatalogState` | variables, versions, counters, pins, leases | `object/catalog.rs`, `catalog/version.rs` |
| `CatalogAccess` | get; begin_write, stage, claim drop; commit, abort | `catalog/read.rs`, `catalog/write.rs` |
| `CatalogCollector` | remove, the collector's phases, owner revocation | `catalog/collector.rs` |
| `ObjectCatalog` | composition with clock, segments and sessions; properties | |
| `MCClientRegistry`, `MCObjectCatalog` | symmetry sets of the instances | |

Action and helper names are the source's names. An operator that takes several
steps in the code is split into actions with a common prefix (`get_*`,
`remove_*`, `evict_*`).

Some definitions are preceded by a variant that is not used by any
specification, such as `plain_add` before `saturating_add`. It is the same
definition with one mistake seeded (a missing guard, a lost requeue). Every
property was run against the seeded variant listed for it in `PROJECT.json`
("mutants") and is violated by it.

### ClientRegistry

`entries` is the map, with `NoEntry` for an absent key; `guards` the generations
whose guard is active; `deadlines` the heap as a set of records (ties in any
order); `cleanup_ready` the retry queue; `held` the `ClientCleanup` values owned
by each worker. All methods run under one mutex and are one action each. The
exception is `claim_due_cleanups`, whose loops are one action per iteration with
`scan` marking the mutex as taken. Methods take any instant `now <= clock`:
callers sample the clock before they wait for the mutex. Calls that fail without
changing anything are stuttering steps.

### The catalog

One key is modelled: keys share nothing but the collector's queues. A key can
have several slots over time, because an empty slot is unlinked and a new one is
created. A version is named by its slot and transaction number, as in the code.

* A section under the slot's mutex is one step unless a thread without the mutex
  can see its middle. That is the case for the committed pointer in `remove` and
  `evict_candidate` (detached, sampled, republished), which take three steps with
  `control` recording the holder.
* What a thread does after it dropped the mutex (queue pushes, counters, liveness
  requests) is a step of its own, recorded in `post`. Pushes that follow one
  another with no decision in between are one step.
* `stage` and the push of its pending candidate are one step: the only reader of
  the pair, `revoke_pending_owners`, is excluded by `stage_gate`, and the
  collector does not know the write before the push.
* The collector's phases run in the order of `collect_step_inner`. Budgets and
  reclaim targets are arbitrary: a phase may stop after any candidate, and an
  eviction candidate may be out of scope.
* The collector holds the pending candidate it popped, with its deadline, while it
  waits for the slot's mutex; `StillStaged` is the check it repeats there, shared
  with client aborts and revocations. `WriteEndsForCause` reads that record to
  tell a time-out of this write from one meant for an earlier write.
* `Referenced` is `Arc::try_unwrap`: it lists every place that holds an `Arc`.
* Segments and sessions are an environment: a segment's lifetime ends
  (`invalidate`), its epoch moves later (`bump_epoch`); a session is fenced
  (`fence_owner`) and only then revoked.

Data is abstracted: a replica is its segment and weighs one byte; content,
checksums, replica classes, tenants and report fields are left out. An idempotent
commit or abort of a transaction that has ended changes nothing and is a
stuttering step. Memory is sequentially consistent: the orderings
on the atomics are not modelled. The recency bit and the lease are sampled
together in `evict_sample`, and replica liveness with the first pointer check in
`get_validate`; both pairs are adjacent loads.

## 3. What is checked

| Run | Instance | States | Shows |
|---|---|---|---|
| `registry` | 2 clients, 2 workers, ttl 2, budget 2, ticks 0..3, 3 generations | 323 k | fencing, exclusive and lossless cleanup, one heap record per session, no early expiry, refinement |
| `registry_live` | 2 clients, 1 worker, ttl 1, budget 1, ticks 0..2 | 18 k | fenced sessions go away; overdue sessions are noticed |
| `catalog_access` | reader, remover, writer, collector, 1 mortal segment; 2 ticks | 2.9 M | leases and hard pins against removal, eviction and the liveness sweep; what is republished is not retired |
| `catalog_replace` | reader, writer, collector; 2 transactions, backlog limit 1 | 2.1 M | leases against replacement; retired once; no candidate lost |
| `catalog_slots` | 2 writers, 2 slots, 2 owners, one fenced, 1 mortal segment | 1.7 M | slot unlinking, empty slots; no writer loses its write to another |
| `catalog_outcome` | writer, finisher, collector, 2 owners, one fenced; 2 ticks, 2 transactions | 1.1 M | commit, abort, time-out and revocation of one write, and of the next one in its slot: one outcome, for a cause, settled once |
| `catalog_removal` | remover (ordinary and forced), writer, finisher, collector, 1 mortal segment; 2 transactions | 2.4 M | removal against replacement, eviction, sweep and slot cleaning |
| `catalog_liveness` | 2 mortal segments, 2 transactions | 710 k | stale replicas stay covered, bases stay, counters exact |
| `catalog_pins` | fenced owner, soft and hard pins, 2 transactions | 947 k | revocation complete; pins survive replacement and eviction |
| `catalog_lost_candidate` | reader, remover, 1 mortal segment | | finding 1 |
| `catalog_spurious_not_found` | reader, remover | | finding 2 |

**Bounds.** The registry's clock runs to 2 or 3 ticks with time-outs of 1 or 2,
so that every deadline can be before, at and after the present, and a time-out can
be missed by one tick. The catalog's clock starts at 1, and these
deadlines fall due in its runs:

| Run | Clock | Falls due | Never due |
|---|---|---|---|
| `catalog_access` | 1..2 | leases, pending writes, empty slots (at once) | |
| `catalog_replace` | 1..2 | leases | pending writes, empty slots |
| `catalog_outcome` | 1..2 | pending writes, empty slots | |
| `catalog_pins` | 1..2 | soft pins, pending writes, empty slots (at once) | |
| `catalog_slots`, `catalog_removal` | 1 | empty slots (at once) | pending writes |
| `catalog_liveness` | 1 | | pending writes, empty slots |

Where the clock stands still, a staged write ends by its client, by revocation or
by the loss of its replicas, and time-outs against the other outcomes are the
subject of `catalog_outcome`. Two transactions per slot give an insert and a replacement, which is all
the code distinguishes; two slots give an unlinked and a linked one. `MaxTick` and
`MaxGeneration` of the registry stand for `u64::MAX`: the last tick saturates and
the last generation is never handed out. `MaxClients` equals the number of clients
on the small instance; that the limit holds for every value is part of
`RegistryRefines`. A forced removal ignores leases and pins by design, so
`RemoveForce` is `{FALSE}` except in `catalog_removal`, which has no reader and
where `HardPinIsSticky` allows for it. The catalog runs divide the
threads among them, since all of them at once are beyond TLC. `catalog_liveness`
with a reader added also passes (29 M states, 15 minutes), but is too slow to keep
as a run; `catalog_slots` also passes without its symmetry set (6.2 M states).
Not combined anywhere:

* a reader with fenced owners, and a reader with both a removal and a replacing
  transaction (`catalog_access` has the first, `catalog_replace` the second);
* two slots with a removal or with commits: in `catalog_removal` a slot can leave
  the index, but no other can take its place;
* due time-outs with two transactions and any of: a reader, a removal, a dying
  segment;
* more than one finisher, remover or reader.

`CandidateKept` and `StaleIsCovered` hold only without an ordinary removal; with
one, see finding 1.

**Fairness.** Only `registry_live` needs it. Time passes (weak); a call that holds
the mutex ends (weak); the reconciler keeps starting scans with a current clock
sample (strong, because other callers take the mutex in between): `run_until`
wakes on an interval that nothing disables; a cleanup that is claimed over and over
finishes at some point (strong): the code drops and retries a failing cleanup, and
we assume that it does not fail every time. The two liveness properties therefore
say that retries and stale records do not starve an overdue session while
cleanups succeed now and then, on two clients; a cleanup that always fails is
retried for ever and is outside them.

**Findings.**

1. *A republished object can be lost to the collector.* `remove_with_force`
   detaches the pointer, finds the lease refreshed and republishes
   (`collector.rs:54-61`). If the collector pops the object's candidate in
   between, its check without the mutex discards it (`:269`, `:603`, `:654`), and
   nobody queues it again. After its segment dies no sweep visits the object.
   `docs/object_catalog_rpc.md:54` says that maintenance prunes stale replicas
   from published objects.
2. *A read can answer NotFound for a live object.* `get` looks at the pointer
   twice (`read.rs:31`, `:37`). If the first look meets a detached pointer and the
   second a republished one, it answers NotFound. `collector.rs:701` and
   `docs/object_catalog_rpc.md:254` say that such a reader retries.

## 4. What is proved

`ClientRegistryProofs` proves, for all clients, workers, limits and
configurations that `ConfigAssumption` (the validation of `client/config.rs`)
admits:

* `RegistryInvariant`: `Spec => []IInv`, and from it `RegistryTyped`,
  `FencingSound`, `ClaimsExclusive`, `NothingForgotten`;
* `NoEarlyExpiry`: a session is fenced for a missed heartbeat only after its
  deadline;
* `RegistryRefines`: the registry implements `SessionLifecycle`.

The properties are not inductive one by one. `CleanupExclusive` needs
`CleanupNeverLost` (a Running entry is held by someone, so a scan cannot claim it
again) and `ReadyQueueExact` (a popped retry is the current session's).
`CleanupNeverLost` needs `DeadlineCovered`: an entry expired in place is found
again only through the record that covered it while it was active, and it survives
`OneRecordPerSession`, which says that the record the scan pops is that record.
`GuardMatchesSession` needs `GenerationsUnique`, or fencing one client could switch
off another's token. `ScanSampleIsPast` ties the scan's clock sample to the
clock for `NoEarlyExpiry`. `IInv` is their conjunction. The proof has a lemma for
each action; `ClaimReady` is the common core of the three ways to claim a Ready
cleanup. The refinement proof maps fencing to `Fence`, rollback and finish to
`Leave`, activation to `Open`, and everything else to a stutter.

Only model-checked: the liveness properties (fairness is outside the prover's
reach), `ReadyQueueExact` and `OneRecordPerSession` as statements of their own
(they are conjuncts of the proved `IInv`), and everything about the catalog.

## 5. Not modelled, and the plan

The byte-level codecs, the code generator, logging and the benchmark binaries have
no state over time. The client task queue is a library channel. The rest is
planned, in this order:

1. `ClientManager` with a `SegmentPool` module: mount, remount with rollback,
   unmount, the graceful-unmount queue with revisions, `cleanup_batch`, composed
   with the registry. Properties: only an active session's segments accept writes;
   a stale job never removes a newer incarnation; nothing attached outlives its
   session; slots are not leaked.
2. `TenantQuota` (seqlock, versions, charge phases) with an abstract account as
   refinement target, and `distribute_effective_quota` as a function against a
   reference definition.
3. `OffsetAllocator` and `Placement`: hint, balance, rollback of partial
   placements; candidate order against a reference definition.
4. `MemoryEviction`: hysteresis, debts by generation, and the retry loop of
   `prepare_write`; `Reconciler` and runtime shutdown.
5. `RpcClient`: sequence numbers with width, time-outs, cancellations,
   back-pressure; then the server's in-flight bound.
6. Proofs about the catalog (`InUseIsIndexed`, `BaseStaysCommitted`,
   `WriteEndsForCause`, then `LeaseHonoured`) and about the modules above.
