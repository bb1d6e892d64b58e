---------------------------- MODULE CatalogState ----------------------------
(***************************************************************************)
(* State of the object catalog (src/src/object/catalog.rs, version.rs) for *)
(* ONE key.  Keys only share the collector queues, so one key and several  *)
(* slots (the slot of a key is replaced after clean_empty_slots) show the  *)
(* whole per-key protocol.                                                 *)
(*                                                                         *)
(* A version is named by the slot and the transaction that created it,     *)
(* which is how the code tells transactions apart (Weak<ObjectSlot> and    *)
(* TransactionId).  Sections run under SlotControl's mutex are one step    *)
(* unless a thread that does not take the mutex can see inside them; the   *)
(* thread in such a section is recorded in `control`.  What a thread does  *)
(* after it has dropped the mutex is in `post` and is a step of its own.   *)
(***************************************************************************)
EXTENDS Integers, Sequences, FiniteSets

CONSTANTS
  Slot, Segment, Owner,
  Reader, Remover, Writer, Finisher,  \* threads inside a catalog call
  Collector, Revoker,                 \* the two users of step_gate
  NoSlot, NoVersion, NoOwner, Free,
  LeaseTtl, LeaseRefresh, PendingTimeout, EmptySlotGrace, SoftPinTtl,
  MaxRetiredBytes, AllowEvictSoftPinned,
  RemoveForce,      \* values of remove's `force` in this instance
  SoftPinAction,    \* soft pin actions writers request
  HardPin,          \* with_hard_pin values writers request
  Mortal,           \* segments that may be invalidated
  Fenceable,        \* owners whose session may end
  MaxTick, MaxTransaction

Thread == Reader \cup Remover \cup Writer \cup Finisher
            \cup {Collector, Revoker}

\* ObjectCatalogConfig::validate, and names that are really distinct.
ASSUME CatalogAssumption ==
  /\ LeaseTtl \in Nat \ {0}
  /\ LeaseRefresh \in 0..LeaseTtl
  /\ PendingTimeout \in Nat \ {0}
  /\ EmptySlotGrace \in Nat
  /\ SoftPinTtl \in Nat \ {0}
  /\ MaxRetiredBytes \in Nat \ {0}
  /\ AllowEvictSoftPinned \in BOOLEAN
  /\ RemoveForce \subseteq BOOLEAN /\ HardPin \subseteq BOOLEAN
  /\ SoftPinAction \subseteq {"Preserve", "Enable", "Disable"}
  /\ Mortal \subseteq Segment /\ Fenceable \subseteq Owner
  /\ IsFiniteSet(Segment)
  /\ MaxTick \in Nat \ {0} /\ MaxTransaction \in Nat \ {0}
  /\ NoSlot \notin Slot /\ NoOwner \notin Owner /\ Free \notin Thread
  /\ NoVersion \notin Slot \X (1..MaxTransaction)
  /\ Collector # Revoker

VARIABLES
  clock,          \* MasterClock, in catalog ticks; 0 means "never"
  live,           \* segments whose SegmentLifetime is valid
  unbumped,       \* invalidated segments whose epoch bump is outstanding
  epoch_changed,  \* invalidation_epoch differs from observed_segment_epoch
  admitted,       \* owners whose ClientSessionGuard is active
  revoked,        \* owners whose pending writes cleanup has revoked
  index,          \* CatalogIndex.entries at the key
  unused,         \* slots not allocated yet
  committed,      \* ObjectSlot.committed
  control,        \* holder of SlotControl's mutex across steps
  active,         \* SlotControl.active
  next_transaction_id,
  version,        \* the ObjectVersions
  gc,             \* EvictionQueues.young and .protected
  soft_pins, pending, retired, empty_slots,  \* the other collector queues
  liveness,       \* LivenessSweep
  lifecycle,      \* LifecycleCounters
  reader, remover, writer, finisher, collector, revoker,  \* thread locals
  post            \* work a thread still owes after dropping the mutex

world == <<clock, live, unbumped, epoch_changed, admitted, revoked>>
slots == <<index, unused, committed, control, active, next_transaction_id>>
queues == <<gc, soft_pins, pending, retired, empty_slots, liveness>>
clients == <<reader, remover, writer, finisher>>
vars == <<world, slots, version, queues, lifecycle, clients, collector,
          revoker, post>>

-----------------------------------------------------------------------------
Now == 1..MaxTick
Deadline == 0..(MaxTick + LeaseTtl + PendingTimeout + EmptySlotGrace
                + SoftPinTtl)
TransactionId == 1..MaxTransaction
Version == Slot \X TransactionId
SlotOf(v) == v[1]
Generation == {"young", "protected"}

\* ActiveTransaction; phase None where SlotControl.active is None.
NoTransaction == [phase |-> "None", id |-> 0, owner |-> NoOwner,
                  base |-> NoVersion, soft_pin |-> "Disable",
                  hard_pin |-> FALSE]
ActiveTransaction ==
  [phase : {"Claimed", "Staged"}, id : TransactionId, owner : Owner,
   base : Version \cup {NoVersion}, soft_pin : SoftPinAction,
   hard_pin : BOOLEAN]

\* ObjectVersion: Pending until initialize_commit, Freed after the collector
\* took its last reference.  Each replica reserves one byte.
Unborn == [status |-> "Unborn", owner |-> NoOwner, replicas |-> {},
           lease_until |-> 0, recent |-> FALSE, soft_pin_until |-> 0,
           hard_pinned |-> FALSE]
ObjectVersion ==
  [status : {"Pending", "Committed", "Freed"}, owner : Owner,
   replicas : SUBSET Segment, lease_until : Deadline, recent : BOOLEAN,
   soft_pin_until : Deadline, hard_pinned : BOOLEAN]

NoPost == [kind |-> "None"]

-----------------------------------------------------------------------------
(***************************************************************************)
(* Helpers of catalog.rs and version.rs.                                   *)
(***************************************************************************)
has_committed(s) == committed[s] # NoVersion
committed_points_to(v) == committed[SlotOf(v)] = v
Unlocked(s) == control[s] = Free
Idle(t) == post[t] = NoPost

has_live(v) == version[v].replicas \cap live # {}
all_live(v) == version[v].replicas # {} /\ version[v].replicas \subseteq live
reserved_bytes(v) == Cardinality(version[v].replicas)

hard_pinned(v) == version[v].hard_pinned
is_soft_pinned(v, now) == version[v].soft_pin_until > now
is_leased(v, now) == version[v].lease_until > now

\* v is the staged version of its slot's transaction.
IsStaged(v) == /\ active[SlotOf(v)].phase = "Staged"
               /\ active[SlotOf(v)].id = v[2]

atomic_saturating_sub(a, b) == IF a > b THEN a - b ELSE 0

\* LifecycleCounters
on_claim_missed == lifecycle
on_claim == [lifecycle EXCEPT !.claims = @ + 1]
on_claim_dropped == [lifecycle EXCEPT !.claims = @ - 1]
on_stage(bytes) ==
  [lifecycle EXCEPT !.claims = @ - 1, !.pending_objects = @ + 1,
                    !.pending_bytes = @ + bytes]
on_commit(bytes, base) ==
  LET l == [lifecycle EXCEPT
              !.pending_objects = @ - 1,
              !.pending_bytes = atomic_saturating_sub(@, bytes),
              !.live_bytes = @ + bytes]
  IN  IF base = NoVersion
        THEN [l EXCEPT !.published_objects = @ + 1]
        ELSE [l EXCEPT
                !.live_bytes = atomic_saturating_sub(@, reserved_bytes(base)),
                !.retired_bytes = @ + reserved_bytes(base)]
on_abort_still_pending(bytes) ==
  [lifecycle EXCEPT !.retired_bytes = @ + bytes]
on_abort_pending(bytes) ==
  [lifecycle EXCEPT !.pending_objects = @ - 1,
                    !.pending_bytes = atomic_saturating_sub(@, bytes),
                    !.retired_bytes = @ + bytes]
on_retire_uncounted(bytes) ==
  [lifecycle EXCEPT !.live_bytes = atomic_saturating_sub(@, bytes),
                    !.retired_bytes = @ + bytes]
on_retire_published(bytes) ==
  [lifecycle EXCEPT !.published_objects = @ - 1,
                    !.live_bytes = atomic_saturating_sub(@, bytes),
                    !.retired_bytes = @ + bytes]
on_prune_missed(bytes) == lifecycle
on_prune_published(bytes) ==
  [lifecycle EXCEPT !.live_bytes = atomic_saturating_sub(@, bytes)]
on_reclaim(bytes) ==
  [lifecycle EXCEPT !.retired_bytes = atomic_saturating_sub(@, bytes)]

\* A replacement keeps the hard pin of its base.
hard_pin_of_request(tx) == tx.hard_pin
hard_pin_after(tx) ==
  tx.hard_pin \/ (tx.base # NoVersion /\ hard_pinned(tx.base))

\* The soft pin a replacement that asks to preserve it takes over.
no_soft_pin(base, now) == 0
inherited_soft_pin(base, now) ==
  IF base # NoVersion /\ is_soft_pinned(base, now)
    THEN version[base].soft_pin_until ELSE 0

\* AccessControl::for_commit: the access state of a version published over
\* base (NoVersion if there is none) by transaction tx at `now`.
for_commit(v, tx, now) ==
  [version[v] EXCEPT
     !.status = "Committed",
     !.soft_pin_until =
       CASE tx.soft_pin = "Preserve" -> inherited_soft_pin(tx.base, now)
         [] tx.soft_pin = "Enable" -> now + SoftPinTtl
         [] OTHER -> 0,
     !.hard_pinned = hard_pin_after(tx)]

\* AccessControl::acquire_lease, the compare-and-swap loop as one step.
acquire_lease(v, now) ==
  IF version[v].lease_until < now + LeaseRefresh
    THEN now + LeaseTtl
    ELSE version[v].lease_until

\* When the collector may release the version a commit replaced.
reclaim_at_once(base) == 0
reclaim_after(base) == version[base].lease_until

\* CatalogInner::enqueue_empty
enqueue_empty(s, now) ==
  Append(empty_slots, [slot |-> s, deadline |-> now + EmptySlotGrace])

request(l) == [l EXCEPT !.requested = TRUE]
=============================================================================
