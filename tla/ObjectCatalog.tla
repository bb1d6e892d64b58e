---------------------------- MODULE ObjectCatalog ----------------------------
(***************************************************************************)
(* The object catalog as a whole: readers, removers, writers, finishers,   *)
(* the collector and owner revocation around one key, in an environment    *)
(* where time passes, segments die and client sessions are fenced.         *)
(***************************************************************************)
EXTENDS CatalogCollector, FiniteSetsExt, Functions

Init ==
  /\ clock = 1 /\ live = Segment /\ unbumped = {} /\ epoch_changed = FALSE
  /\ admitted = Owner /\ revoked = {}
  /\ index = NoSlot /\ unused = Slot
  /\ committed = [s \in Slot |-> NoVersion]
  /\ control = [s \in Slot |-> Free]
  /\ active = [s \in Slot |-> NoTransaction]
  /\ next_transaction_id = [s \in Slot |-> 1]
  /\ version = [v \in Version |-> Unborn]
  /\ gc = [young |-> <<>>, protected |-> <<>>]
  /\ soft_pins = <<>> /\ pending = <<>> /\ retired = <<>> /\ empty_slots = <<>>
  /\ liveness = [requested |-> FALSE, young |-> 0, protected |-> 0]
  /\ lifecycle = [claims |-> 0, pending_objects |-> 0, published_objects |-> 0,
                  pending_bytes |-> 0, live_bytes |-> 0, retired_bytes |-> 0]
  /\ reader = [r \in Reader |-> NoRead]
  /\ remover = [m \in Remover |-> NoRemove]
  /\ writer = [w \in Writer |-> NoWrite]
  /\ finisher = [f \in Finisher |-> NoFinish]
  /\ collector = NoCollect /\ revoker = NoRevoke
  /\ post = [t \in Thread |-> NoPost]

-----------------------------------------------------------------------------
(***************************************************************************)
(* The environment: the clock, the segment pool and the client registry.   *)
(***************************************************************************)
Environment == UNCHANGED <<slots, version, queues, lifecycle, clients,
                           collector, revoker, post>>

TickClock ==
  /\ clock < MaxTick
  /\ clock' = clock + 1
  /\ UNCHANGED <<live, unbumped, epoch_changed, admitted, revoked>>
  /\ Environment

\* SegmentPool::remove and invalidate_owners: the lifetime ends first, the
\* invalidation epoch moves afterwards.
invalidate(g) ==
  /\ g \in live \cap Mortal
  /\ live' = live \ {g}
  /\ unbumped' = unbumped \cup {g}
  /\ UNCHANGED <<clock, epoch_changed, admitted, revoked>>
  /\ Environment

bump_epoch(g) ==
  /\ g \in unbumped
  /\ unbumped' = unbumped \ {g}
  /\ epoch_changed' = TRUE
  /\ UNCHANGED <<clock, live, admitted, revoked>>
  /\ Environment

\* The registry fences a session: its ClientSessionGuard turns inactive.
fence_owner(o) ==
  /\ o \in admitted \cap Fenceable
  /\ admitted' = admitted \ {o}
  /\ UNCHANGED <<clock, live, unbumped, epoch_changed, revoked>>
  /\ Environment

-----------------------------------------------------------------------------
Read(r) ==
  \/ get_lookup(r) \/ get_load(r) \/ get_absent(r)
  \/ record_access_lease(r) \/ record_access_recent(r)
  \/ get_validate(r) \/ get_revalidate(r)
  \/ drop_handle(r)

Remove(m) ==
  \/ remove_lookup(m) \/ remove_check(m) \/ remove_clear(m) \/ remove_sample(m)
  \/ retire_published(m)

Write(w) ==
  \/ begin_write_vacant(w) \/ begin_write_occupied(w)
  \/ begin_write_retry(w) \/ begin_write_refused(w) \/ begin_write_claim(w)
  \/ stage_check(w) \/ stage(w) \/ stage_recheck(w) \/ drop_claim(w)
  \/ self_abort(w) \/ after_abort(w)

Finish(f) ==
  \/ resolve_write(f) \/ commit(f) \/ after_commit(f) \/ after_commit_check(f)
  \/ abort(f) \/ after_abort(f)

Collect ==
  \/ collect_begin \/ begin_if_requested \/ collect_advance
  \/ expire_soft_pins
  \/ \E q \in Generation : sweep_pop(q)
  \/ sweep_lock
  \/ expire_pop \/ expire_lock \/ after_abort(Collector)
  \/ \E q \in Generation : evict_pop(q)
  \/ evict_lock \/ evict_requeue \/ evict_clear \/ evict_sample
  \/ retire_published(Collector)
  \/ reclaim \/ clean_empty_slots

Revoke ==
  \/ \E owners \in SUBSET Owner : revoke_begin(owners)
  \/ revoke_snapshot \/ revoke_abort \/ after_abort(Revoker) \/ revoke_end

Next ==
  \/ TickClock
  \/ \E g \in Segment : invalidate(g) \/ bump_epoch(g)
  \/ \E o \in Owner : fence_owner(o)
  \/ observe_epoch
  \/ \E r \in Reader : Read(r)
  \/ \E m \in Remover : Remove(m)
  \/ \E w \in Writer : Write(w)
  \/ \E f \in Finisher : Finish(f)
  \/ Collect
  \/ Revoke

Spec == Init /\ [][Next]_vars

-----------------------------------------------------------------------------
(***************************************************************************)
(* Invariants.                                                             *)
(***************************************************************************)
Owed(kinds) == {t \in Thread : post[t].kind \in kinds}

\* The version of slot s that is published, or detached by a thread that still
\* holds the mutex and may publish it again.
Published(s) ==
  {v \in Version : SlotOf(v) = s /\
     \/ committed[s] = v
     \/ \E m \in Remover : remover[m].pc = "sample" /\ remover[m].ver = v
     \/ collector.phase = "evict" /\ collector.pc = "sample" /\ collector.cand = v}

\* State has its type: pointers name versions that exist, queues hold
\* candidates and no counter went below zero (LifecycleCounters).
TypeOK ==
  /\ clock \in Now /\ live \subseteq Segment /\ unbumped \subseteq Segment
  /\ epoch_changed \in BOOLEAN
  /\ admitted \subseteq Owner /\ revoked \subseteq Owner \ admitted
  /\ index \in Slot \cup {NoSlot} /\ unused \subseteq Slot
  /\ committed \in [Slot -> Version \cup {NoVersion}]
  /\ control \in [Slot -> Thread \cup {Free}]
  /\ active \in [Slot -> ActiveTransaction \cup {NoTransaction}]
  /\ next_transaction_id \in [Slot -> 1..(MaxTransaction + 1)]
  /\ version \in [Version -> ObjectVersion \cup {Unborn}]
  /\ \A q \in Generation : gc[q] \in Seq(Version)
  /\ \A f \in DOMAIN lifecycle : lifecycle[f] \in Nat

\* A lease a reader was given is honoured: until it runs out, none of the
\* replicas it was handed is pruned or released, whichever of removal,
\* eviction, replacement and liveness sweep goes on at the same time (get,
\* remove_with_force, evict_candidate, commit, retire_invalidated_published).
\* Only replicas whose segment has died since may go.
LeaseHonoured ==
  \A r \in Reader :
    reader[r].pc = "leased" /\ reader[r].lease > clock
      => reader[r].given \cap live \subseteq version[reader[r].ver].replicas

\* A slot with a version or a transaction is the one in the index: a write
\* that waited for the mutex of a slot clean_empty_slots removed never lands
\* in it, and a slot is not removed for a candidate queued before it was used
\* again (begin_write's slot_is_indexed, clean_empty_slots).
InUseIsIndexed ==
  \A s \in Slot :
    active[s].phase # "None" \/ Published(s) # {} => index = s

\* The version a transaction was started over stays committed until the
\* transaction ends, and is the one its commit replaces: removal, eviction and
\* the liveness pass leave it alone, so that commit's base check never fails.
BaseStaysCommitted ==
  \A s \in Slot : active[s].phase # "None" => committed[s] = active[s].base

\* v is in a GC queue, in the collector's hands, or about to be queued by the
\* commit that published it.
HasCandidate(v) ==
  \/ \E q \in Generation : v \in Range(gc[q])
  \/ collector.cand = v /\ collector.phase \in {"sweep", "evict"}
  \/ \E t \in Owed({"commit"}) : post[t].ver = v

\* Every published version can still be found by eviction and by the liveness
\* pass: the queues never lose it (EvictionQueues).
CandidateKept == \A s \in Slot : has_committed(s) => HasCandidate(committed[s])

\* A version with a replica on a dead segment will be looked at: the epoch
\* change is not observed yet, a sweep is requested or still has the version
\* ahead of it, a thread is about to request one, or the version is the base
\* of a transaction whose end will.
StaleIsCovered ==
  \A s \in Slot :
    LET v == committed[s] IN
    has_committed(s) /\ ~all_live(v) =>
      \/ unbumped # {} \/ epoch_changed \/ liveness.requested
      \/ \E q \in Generation :
           \E i \in 1..liveness[q] : i <= Len(gc[q]) /\ gc[q][i] = v
      \/ collector.phase = "sweep" /\ collector.cand = v
      \/ \E t \in Owed({"commit", "check"}) : post[t].ver = v
      \/ \E t \in Owed({"abort", "drop"}) : post[t].slot = s /\ post[t].invalid
      \/ active[s].phase # "None" /\ ~has_live(v)

\* A slot with neither version nor transaction will leave the index: it has an
\* empty-slot candidate, or a thread is about to queue one (enqueue_empty).
EmptyIsCovered ==
  \A s \in Slot :
    index = s /\ Published(s) = {} /\ active[s].phase = "None" =>
      \/ \E i \in 1..Len(empty_slots) : empty_slots[i].slot = s
      \/ \E t \in Owed({"retire"}) : post[t].slot = s
      \/ \E t \in Owed({"abort", "drop"}) : post[t].slot = s /\ post[t].empty

\* A staged write can always be found again by the time-out: its candidate is
\* in the pending queue, in the hands of the collector that found it due, or in
\* those of a revocation, which puts the candidates of other owners back
\* (enqueue_pending_candidate, expire_pending, revoke_pending_owners).
PendingIsCovered ==
  \A v \in Version : IsStaged(v) =>
    \/ \E i \in 1..Len(pending) : pending[i].ver = v
    \/ collector.phase = "pending" /\ collector.cand = v
    \/ revoker.cand = v
    \/ \E i \in 1..Len(revoker.batch) : revoker.batch[i].ver = v

\* Once cleanup has revoked a fenced session's writes, none of them is staged
\* any more, except one whose stage call has yet to see the fence and abort
\* (stage_gate and the second admission check of stage_inner).
FencedWritesGone ==
  \A v \in Version : IsStaged(v) /\ version[v].owner \in revoked =>
    \E w \in Writer : /\ writer[w].pc \in {"recheck", "abort"}
                      /\ <<writer[w].slot, writer[w].id>> = v

\* A version is retired once: it is queued at most once, and what is queued is
\* neither committed nor staged, so its replicas are released once and its
\* accounting is settled once (RetiredObject).
RetiredOnce ==
  /\ \A i, j \in 1..Len(retired) : retired[i].ver = retired[j].ver => i = j
  /\ \A i \in 1..Len(retired) :
       LET v == retired[i].ver IN
       /\ ~IsStaged(v) /\ v \notin Published(SlotOf(v))
       /\ version[v].status \in {"Pending", "Committed"}
       /\ \A t \in Owed({"retire", "abort"}) : post[t].ver # v
       /\ \A t \in Owed({"commit"}) : post[t].base # v
       /\ retired[i].bytes = reserved_bytes(v)

SumBytes(S) == MapThenSumSet(reserved_bytes, S)

\* The counters of the lifecycle are what the catalog really holds, allowing
\* for threads between the mutex and their bookkeeping: the backlog check of
\* begin_write and the watermark see no drift, however long the catalog runs.
CountersExact ==
  LET claimed == {s \in Slot : active[s].phase = "Claimed"}
      staged == {v \in Version : IsStaged(v)}
      aborting == {post[t].ver : t \in Owed({"abort"})}
      published == UNION {Published(s) : s \in Slot}
      retiring == {post[t].ver : t \in Owed({"retire"})}
      replaced == {post[t].base : t \in Owed({"commit"})} \ {NoVersion}
      queued == {retired[i].ver : i \in 1..Len(retired)}
  IN
  /\ lifecycle.claims = Cardinality(claimed)
  /\ lifecycle.pending_objects = Cardinality(staged \cup aborting)
  /\ lifecycle.published_objects = Cardinality(published \cup retiring)
  /\ lifecycle.pending_bytes = SumBytes(staged \cup aborting)
  /\ lifecycle.live_bytes = SumBytes(published \cup retiring)
  /\ lifecycle.retired_bytes = SumBytes(replaced \cup queued)

-----------------------------------------------------------------------------
(***************************************************************************)
(* Action properties.                                                      *)
(***************************************************************************)

\* get answers NotFound after loading a version only if that version has lost
\* its replicas: a reader that saw the pointer detached tries again.
NotFoundIsTrue ==
  [][\A r \in Reader :
       reader[r].pc = "revalidate" /\ reader'[r].pc = "idle"
         => ~reader[r].alive]_vars

\* A pinned version leaves the committed pointer only to a replacement that
\* keeps the hard pin, to a forced removal, or with its last replica
\* (evict_candidate, remove_with_force, AccessControl::for_commit).
HardPinIsSticky ==
  [][\A s \in Slot :
       LET v == committed[s] IN
       has_committed(s) /\ hard_pinned(v) /\ committed'[s] # v =>
         \/ committed'[s] # NoVersion /\ version'[committed'[s]].hard_pinned
         \/ \E m \in Remover : control[s] = m /\ remover[m].force
         \/ ~has_live(v)]_vars

\* An unexpired soft pin is kept: the collector never evicts the version under
\* it unless it is configured to (evict_candidate), and a replacement that asks
\* to preserve it carries it on to the same deadline, whatever the expiry queue
\* does meanwhile (AccessControl::for_commit, expire_soft_pins).
SoftPinIsKept ==
  [][\A s \in Slot :
       LET v == committed[s]
           next == committed'[s]
       IN
       has_committed(s) /\ next # v /\ is_soft_pinned(v, clock) =>
         /\ next = NoVersion /\ control[s] = Collector => AllowEvictSoftPinned
         /\ next # NoVersion /\ active[s].soft_pin = "Preserve" =>
              version'[next].soft_pin_until = version[v].soft_pin_until]_vars

\* A write ends for a cause of its own.  A claim is staged or dropped only by
\* the writer that holds it, so that stage never answers ClaimLost.  A staged
\* write is finished or revoked by a client that resolved this very write, or
\* aborted because its session is fenced, a replica is gone or its deadline has
\* passed: a late time-out, revocation or abort never ends the write that took
\* its place in the slot (stage_inner, commit, abort, abort_pending).
WriteEndsForCause ==
  [][\A s \in Slot :
       LET tx == active[s]
           v == <<s, tx.id>>
       IN
       active'[s] # tx =>
         /\ tx.phase = "Claimed" =>
              /\ active'[s] \in {NoTransaction, [tx EXCEPT !.phase = "Staged"]}
              /\ \E w \in Writer : /\ <<writer[w].slot, writer[w].id>> = v
                                   /\ writer'[w] # writer[w]
         /\ tx.phase = "Staged" =>
              /\ active'[s] = NoTransaction
              /\ \/ \E f \in Finisher : finisher[f].ver = v /\ finisher'[f] # finisher[f]
                 \/ tx.owner \notin admitted
                 \/ ~all_live(v)
                 \/ collector.cand = v /\ collector.deadline <= clock]_vars
=============================================================================
