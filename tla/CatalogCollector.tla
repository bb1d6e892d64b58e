-------------------------- MODULE CatalogCollector --------------------------
(***************************************************************************)
(* Removal, the incremental collector and owner revocation                 *)
(* (src/src/object/catalog/collector.rs).                                  *)
(*                                                                         *)
(* The collector runs one step at a time under step_gate: its phases are   *)
(* in the order of collect_step_inner, each handling any number of         *)
(* candidates, because budgets, reclaim targets and scopes are arbitrary   *)
(* inputs here.  A candidate popped from a queue is in collector.cand      *)
(* until it is dropped or queued again.                                    *)
(***************************************************************************)
EXTENDS CatalogAccess

NoRemove == [pc |-> "idle", slot |-> NoSlot, ver |-> NoVersion, now |-> 0,
             force |-> FALSE]
NoCollect == [phase |-> "idle", pc |-> "next", now |-> 0,
              cand |-> NoVersion, from |-> "young", deadline |-> 0]
NoRevoke == [pc |-> "idle", owners |-> {}, batch |-> <<>>,
             cand |-> NoVersion, now |-> 0]

-----------------------------------------------------------------------------
(***************************************************************************)
(* remove_with_force                                                       *)
(***************************************************************************)
RemoveStep(m, step) ==
  /\ remover' = [remover EXCEPT ![m] = step]
  /\ UNCHANGED <<world, index, unused, active, next_transaction_id, version,
                 queues, lifecycle, reader, writer, finisher, collector,
                 revoker>>

remove_lookup(m) ==
  /\ remover[m].pc = "idle" /\ Idle(m)
  /\ index # NoSlot
  /\ \E force \in RemoveForce :
       RemoveStep(m, [NoRemove EXCEPT !.pc = "lock", !.slot = index,
                                      !.now = clock, !.force = force])
  /\ UNCHANGED <<committed, control, post>>

\* A transaction of the slot ends a removal at once (NotReady).
AlwaysReady(s) == TRUE
Ready(s) == active[s].phase = "None"

MayRemovePinned(m, v) == remover[m].force \/ ~is_leased(v, remover[m].now)
MayRemove(m, v) ==
  remover[m].force \/ (~is_leased(v, remover[m].now) /\ ~hard_pinned(v))

remove_check(m) ==
  LET s == remover[m].slot
      v == committed[s]
      go == /\ Ready(s)
            /\ has_committed(s)
            /\ MayRemove(m, v)
  IN
  /\ remover[m].pc = "lock"
  /\ Unlocked(s)
  /\ control' = IF go THEN [control EXCEPT ![s] = m] ELSE control
  /\ RemoveStep(m, IF go THEN [remover[m] EXCEPT !.pc = "clear", !.ver = v]
                         ELSE NoRemove)
  /\ UNCHANGED <<committed, post>>

remove_clear(m) ==
  /\ remover[m].pc = "clear"
  /\ committed' = [committed EXCEPT ![remover[m].slot] = NoVersion]
  /\ RemoveStep(m, [remover[m] EXCEPT !.pc = "sample"])
  /\ UNCHANGED <<control, post>>

Retire(t, v, now) ==
  post' = [post EXCEPT ![t] =
    [kind |-> "retire", ver |-> v, slot |-> SlotOf(v), now |-> now]]

NotSampled(m) == FALSE
StillLeased(m) ==
  ~remover[m].force /\ is_leased(remover[m].ver, remover[m].now)

\* The final lease sample: a reader that can still return v has leased it.
remove_anyway(m) ==
  LET s == remover[m].slot
      v == remover[m].ver
  IN
  /\ remover[m].pc = "sample"
  /\ control' = [control EXCEPT ![s] = Free]
  /\ committed' = IF StillLeased(m) THEN [committed EXCEPT ![s] = v] ELSE committed
  /\ Retire(m, v, remover[m].now)
  /\ RemoveStep(m, NoRemove)
remove_sample(m) ==
  LET s == remover[m].slot
      v == remover[m].ver
  IN
  /\ remover[m].pc = "sample"
  /\ control' = [control EXCEPT ![s] = Free]
  /\ IF StillLeased(m)
       THEN /\ committed' = [committed EXCEPT ![s] = v]
            /\ UNCHANGED post
       ELSE /\ Retire(m, v, remover[m].now)
            /\ UNCHANGED committed
  /\ RemoveStep(m, NoRemove)

\* retire_published, after the mutex is dropped.
retire_and_forget(t) ==
  LET p == post[t] IN
  /\ p.kind = "retire"
  /\ lifecycle' = on_retire_published(reserved_bytes(p.ver))
  /\ retired' = Append(retired, [ver |-> p.ver, bytes |-> reserved_bytes(p.ver),
                                 reclaim_after |-> p.now])
  /\ post' = [post EXCEPT ![t] = NoPost]
  /\ UNCHANGED <<world, slots, version, gc, soft_pins, pending, empty_slots,
                 liveness, clients, collector, revoker>>
retire_published(t) ==
  LET p == post[t] IN
  /\ p.kind = "retire"
  /\ lifecycle' = on_retire_published(reserved_bytes(p.ver))
  /\ retired' = Append(retired, [ver |-> p.ver, bytes |-> reserved_bytes(p.ver),
                                 reclaim_after |-> p.now])
  /\ empty_slots' = enqueue_empty(p.slot, p.now)
  /\ post' = [post EXCEPT ![t] = NoPost]
  /\ UNCHANGED <<world, slots, version, gc, soft_pins, pending, liveness,
                 clients, collector, revoker>>

-----------------------------------------------------------------------------
(***************************************************************************)
(* collect_step_inner: the gate and the order of the phases                *)
(***************************************************************************)
Running(phase) == collector.phase = phase /\ collector.pc = "next"
                    /\ Idle(Collector)

KeepClients == UNCHANGED <<world, clients, revoker>>

\* maintenance_with_targets compares the epochs before it tries the gate.
observe_epoch ==
  /\ epoch_changed
  /\ epoch_changed' = FALSE
  /\ liveness' = request(liveness)
  /\ UNCHANGED <<clock, live, unbumped, admitted, revoked, slots, version, gc,
                 soft_pins, pending, retired, empty_slots, lifecycle, clients,
                 collector, revoker, post>>

is_incomplete == liveness.young # 0 \/ liveness.protected # 0

\* The phases of a step, in order.
Phases == <<"idle", "reclaim_first", "begin", "soft_pins", "sweep", "pending",
            "evict", "reclaim", "empty">>

\* A phase samples the length of its queue when it is entered.
HasWork(phase) ==
  CASE phase \in {"reclaim_first", "reclaim"} -> retired # <<>>
    [] phase = "begin" -> liveness.requested
    [] phase = "soft_pins" -> soft_pins # <<>>
    [] phase = "sweep" -> is_incomplete
    [] phase = "pending" -> pending # <<>>
    [] phase = "evict" -> ~is_incomplete /\ gc # [young |-> <<>>, protected |-> <<>>]
    [] phase = "empty" -> empty_slots # <<>>
    [] OTHER -> FALSE

\* The next phase that has something to do; the step ends if there is none.
GoOn(c) ==
  LET here == CHOOSE i \in DOMAIN Phases : Phases[i] = c.phase
      ahead == {i \in DOMAIN Phases : i > here /\ HasWork(Phases[i])}
  IN  IF ahead = {} THEN NoCollect
      ELSE [c EXCEPT !.phase =
              Phases[CHOOSE i \in ahead : \A j \in ahead : i <= j]]

\* step_gate.try_lock: a step starts unless the gate is taken.
collect_begin ==
  /\ Running("idle")
  /\ revoker.pc = "idle"
  /\ collector' = GoOn([NoCollect EXCEPT !.now = clock])
  /\ UNCHANGED <<slots, version, queues, lifecycle, post>>
  /\ KeepClients

\* A phase ends when its queue or its budget is used up.
collect_advance ==
  /\ \E phase \in {"reclaim_first", "soft_pins", "sweep", "pending", "evict",
                   "reclaim", "empty"} : Running(phase)
  /\ collector' = GoOn(collector)
  /\ UNCHANGED <<slots, version, queues, lifecycle, post>>
  /\ KeepClients

MaxOf(a, b) == IF a > b THEN a ELSE b

\* LivenessSweep::begin_if_requested.
begin_if_requested ==
  /\ Running("begin")
  /\ liveness' = [requested |-> FALSE,
                  young |-> MaxOf(liveness.young, Len(gc.young)),
                  protected |-> MaxOf(liveness.protected, Len(gc.protected))]
  /\ collector' = [collector EXCEPT !.phase = "soft_pins"]
  /\ UNCHANGED <<slots, version, gc, soft_pins, pending, retired, empty_slots,
                 lifecycle, post>>
  /\ KeepClients

-----------------------------------------------------------------------------
expire_soft_pins ==
  LET c == Head(soft_pins)
      expired == /\ committed_points_to(c.ver)
                 /\ c.deadline <= collector.now
                 /\ version[c.ver].soft_pin_until = c.deadline
  IN
  /\ Running("soft_pins")
  /\ soft_pins # <<>>
  /\ soft_pins' = IF committed_points_to(c.ver) /\ c.deadline > collector.now
                    THEN Append(Tail(soft_pins), c)
                    ELSE Tail(soft_pins)
  /\ version' = IF expired THEN [version EXCEPT ![c.ver].soft_pin_until = 0]
                           ELSE version
  /\ UNCHANGED <<slots, gc, pending, retired, empty_slots, liveness, lifecycle,
                 collector, post>>
  /\ KeepClients

-----------------------------------------------------------------------------
(***************************************************************************)
(* retire_invalidated_published                                            *)
(***************************************************************************)
sweep_pop(q) ==
  LET v == Head(gc[q]) IN
  /\ Running("sweep")
  /\ liveness[q] > 0
  /\ q = "protected" => liveness.young = 0
  /\ IF gc[q] = <<>>
       THEN /\ liveness' = [liveness EXCEPT ![q] = 0]
            /\ UNCHANGED <<gc, collector>>
       ELSE /\ liveness' = [liveness EXCEPT ![q] = @ - 1]
            /\ gc' = [gc EXCEPT ![q] = Tail(@)]
            /\ collector' = IF committed_points_to(v)
                 THEN [collector EXCEPT !.pc = "lock", !.cand = v, !.from = q]
                 ELSE collector
  /\ UNCHANGED <<slots, version, soft_pins, pending, retired, empty_slots,
                 lifecycle, post>>
  /\ KeepClients

Done == [collector EXCEPT !.pc = "next", !.cand = NoVersion, !.from = "young",
                          !.deadline = 0]

Requeue(q, v) == gc' = [gc EXCEPT ![q] = Append(@, v)]

\* A version without live replicas is retired unless a transaction, which may
\* still replace it, was started over it.
CollectableBase(v) == ~has_live(v)
Collectable(v) == ~has_live(v) /\ active[SlotOf(v)].phase = "None"

\* The pointer was checked before the mutex was taken and is checked again.
OnceCommitted(v) == TRUE
StillCommitted(v) == committed_points_to(v)

\* prune_invalidated under the mutex: a version with some live replica keeps
\* those; one with none is retired.
sweep_lock ==
  LET v == collector.cand
      s == SlotOf(v)
      stale == version[v].replicas \ live
      mixed == stale # {} /\ has_live(v)
  IN
  /\ collector.phase = "sweep" /\ collector.pc = "lock"
  /\ Unlocked(s)
  /\ IF ~StillCommitted(v)
       THEN UNCHANGED <<committed, version, gc, lifecycle, post>>
       ELSE IF Collectable(v)
       THEN /\ committed' = [committed EXCEPT ![s] = NoVersion]
            /\ Retire(Collector, v, collector.now)
            /\ UNCHANGED <<version, gc, lifecycle>>
       ELSE /\ version' = IF mixed THEN [version EXCEPT ![v].replicas = @ \ stale]
                                   ELSE version
            /\ lifecycle' = IF mixed THEN on_prune_published(Cardinality(stale))
                                     ELSE lifecycle
            /\ Requeue(collector.from, v)
            /\ UNCHANGED <<committed, post>>
  /\ collector' = Done
  /\ UNCHANGED <<index, unused, control, active, next_transaction_id,
                 soft_pins, pending, retired, empty_slots, liveness>>
  /\ KeepClients

-----------------------------------------------------------------------------
(***************************************************************************)
(* expire_pending                                                          *)
(***************************************************************************)
expire_and_forget ==
  LET c == Head(pending)
      due == version[c.ver].status = "Pending"
               /\ (~all_live(c.ver) \/ c.deadline <= collector.now)
  IN
  /\ Running("pending")
  /\ pending # <<>>
  /\ pending' = Tail(pending)
  /\ collector' = IF due THEN [collector EXCEPT !.pc = "lock", !.cand = c.ver,
                                                !.deadline = c.deadline]
                         ELSE collector
  /\ UNCHANGED <<slots, version, gc, soft_pins, retired, empty_slots, liveness,
                 lifecycle, post>>
  /\ KeepClients
expire_pop ==
  LET c == Head(pending)
      waiting == all_live(c.ver) /\ c.deadline > collector.now
      open == version[c.ver].status = "Pending"
  IN
  /\ Running("pending")
  /\ pending # <<>>
  /\ pending' = IF open /\ waiting THEN Append(Tail(pending), c)
                                   ELSE Tail(pending)
  /\ collector' = IF open /\ ~waiting
                    THEN [collector EXCEPT !.pc = "lock", !.cand = c.ver,
                                           !.deadline = c.deadline]
                    ELSE collector
  /\ UNCHANGED <<slots, version, gc, soft_pins, retired, empty_slots, liveness,
                 lifecycle, post>>
  /\ KeepClients

expire_lock ==
  /\ collector.phase = "pending" /\ collector.pc = "lock"
  /\ AbortLocked(Collector, collector.cand, collector.now)
  /\ collector' = Done
  /\ UNCHANGED <<version, queues, lifecycle>>
  /\ KeepClients

-----------------------------------------------------------------------------
(***************************************************************************)
(* evict_scoped and evict, candidate by candidate                          *)
(***************************************************************************)
PinnedSoft(v) == is_soft_pinned(v, collector.now) /\ ~AllowEvictSoftPinned
Pinned(v) ==
  \/ hard_pinned(v)
  \/ is_soft_pinned(v, collector.now) /\ ~AllowEvictSoftPinned

\* The check without the mutex drops a candidate whose version is not the
\* committed one; a pinned one, or one outside every scope, goes back.
evict_pop(q) ==
  LET v == Head(gc[q]) IN
  /\ Running("evict")
  /\ gc[q] # <<>>
  /\ \/ /\ committed_points_to(v) /\ ~Pinned(v)
        /\ gc' = [gc EXCEPT ![q] = Tail(@)]
        /\ collector' = [collector EXCEPT !.pc = "lock", !.cand = v, !.from = q]
     \/ /\ committed_points_to(v)
        /\ gc' = [gc EXCEPT ![q] = Append(Tail(@), v)]
        /\ UNCHANGED collector
     \/ /\ ~committed_points_to(v)
        /\ gc' = [gc EXCEPT ![q] = Tail(@)]
        /\ UNCHANGED collector
  /\ UNCHANGED <<slots, version, soft_pins, pending, retired, empty_slots,
                 liveness, lifecycle, post>>
  /\ KeepClients

EvictStep ==
  /\ UNCHANGED <<index, unused, active, next_transaction_id, soft_pins, pending,
                 retired, empty_slots, liveness, lifecycle>>
  /\ KeepClients

\* Under the mutex: a transaction or a new version ends the attempt, a pin
\* sends the candidate back, and a recent or leased version is protected.
evict_lock ==
  LET v == collector.cand
      s == SlotOf(v)
      busy == active[s].phase # "None" \/ ~StillCommitted(v)
      pinned == ~busy /\ Pinned(v)
      keep == /\ ~busy /\ ~pinned
              /\ version[v].recent \/ is_leased(v, collector.now)
      go == ~busy /\ ~pinned /\ ~keep
  IN
  /\ collector.phase = "evict" /\ collector.pc = "lock"
  /\ Unlocked(s)
  /\ control' = IF go THEN [control EXCEPT ![s] = Collector] ELSE control
  /\ version' = IF keep THEN [version EXCEPT ![v].recent = FALSE] ELSE version
  /\ IF keep THEN Requeue("protected", v)
     ELSE IF pinned THEN Requeue(collector.from, v)
     ELSE UNCHANGED gc
  /\ collector' = IF busy THEN [collector EXCEPT !.pc = "requeue"]
                  ELSE IF go THEN [collector EXCEPT !.pc = "clear"]
                  ELSE Done
  /\ UNCHANGED <<committed, post>>
  /\ EvictStep

\* The mutex is dropped: the candidate goes back if its version is committed.
evict_forget ==
  /\ collector.phase = "evict" /\ collector.pc = "requeue"
  /\ collector' = Done
  /\ UNCHANGED <<committed, control, version, gc, post>>
  /\ EvictStep
evict_requeue ==
  LET v == collector.cand IN
  /\ collector.phase = "evict" /\ collector.pc = "requeue"
  /\ IF committed_points_to(v) THEN Requeue("protected", v) ELSE UNCHANGED gc
  /\ collector' = Done
  /\ UNCHANGED <<committed, control, version, post>>
  /\ EvictStep

evict_clear ==
  /\ collector.phase = "evict" /\ collector.pc = "clear"
  /\ committed' = [committed EXCEPT ![SlotOf(collector.cand)] = NoVersion]
  /\ collector' = [collector EXCEPT !.pc = "sample"]
  /\ UNCHANGED <<control, version, gc, post>>
  /\ EvictStep

\* The race with a reader that refreshed its access state before the pointer
\* was detached is closed by looking again.
evict_anyway ==
  LET v == collector.cand
      s == SlotOf(v)
      keep == version[v].recent \/ is_leased(v, collector.now)
  IN
  /\ collector.phase = "evict" /\ collector.pc = "sample"
  /\ control' = [control EXCEPT ![s] = Free]
  /\ version' = [version EXCEPT ![v].recent = FALSE]
  /\ committed' = IF keep THEN [committed EXCEPT ![s] = v] ELSE committed
  /\ IF keep THEN Requeue("protected", v) ELSE UNCHANGED gc
  /\ Retire(Collector, v, collector.now)
  /\ collector' = Done
  /\ EvictStep
evict_sample ==
  LET v == collector.cand
      s == SlotOf(v)
      keep == version[v].recent \/ is_leased(v, collector.now)
  IN
  /\ collector.phase = "evict" /\ collector.pc = "sample"
  /\ control' = [control EXCEPT ![s] = Free]
  /\ version' = [version EXCEPT ![v].recent = FALSE]
  /\ IF keep
       THEN /\ committed' = [committed EXCEPT ![s] = v]
            /\ Requeue("protected", v)
            /\ UNCHANGED post
       ELSE /\ Retire(Collector, v, collector.now)
            /\ UNCHANGED <<committed, gc>>
  /\ collector' = Done
  /\ EvictStep

-----------------------------------------------------------------------------
(***************************************************************************)
(* reclaim and clean_empty_slots                                           *)
(***************************************************************************)

\* Some Arc of v other than the retired queue's exists (Arc::try_unwrap).
Referenced(v) ==
  \/ committed_points_to(v)
  \/ IsStaged(v)
  \/ \E s \in Slot : active[s].base = v
  \/ \E r \in Reader : reader[r].ver = v /\ reader[r].pc # "leased"
  \/ \E m \in Remover : remover[m].ver = v
  \/ \E f \in Finisher : finisher[f].ver = v
  \/ \E w \in Writer : /\ writer[w].pc \in {"recheck", "abort"}
                       /\ <<writer[w].slot, writer[w].id>> = v
  \/ \E t \in Thread : post[t].kind \in {"commit", "check"} /\ post[t].ver = v

reclaim ==
  LET c == Head(retired)
      later == c.reclaim_after > collector.now \/ Referenced(c.ver)
  IN
  /\ Running("reclaim_first") \/ Running("reclaim")
  /\ retired # <<>>
  /\ retired' = IF later THEN Append(Tail(retired), c) ELSE Tail(retired)
  /\ version' = IF later THEN version
                ELSE [version EXCEPT ![c.ver].status = "Freed",
                                     ![c.ver].replicas = {}]
  /\ lifecycle' = IF later THEN lifecycle ELSE on_reclaim(c.bytes)
  /\ UNCHANGED <<slots, gc, soft_pins, pending, empty_slots, liveness,
                 collector, post>>
  /\ KeepClients

HasNoWrite(s) == active[s].phase = "None"
IsEmpty(s) == ~has_committed(s) /\ active[s].phase = "None"

clean_empty_slots ==
  LET c == Head(empty_slots)
      wait == c.deadline > collector.now
  IN
  /\ Running("empty")
  /\ empty_slots # <<>>
  /\ wait \/ Unlocked(c.slot)
  /\ empty_slots' = IF wait THEN Append(Tail(empty_slots), c)
                            ELSE Tail(empty_slots)
  /\ index' = IF ~wait /\ IsEmpty(c.slot) /\ index = c.slot THEN NoSlot ELSE index
  /\ UNCHANGED <<unused, committed, control, active, next_transaction_id,
                 version, gc, soft_pins, pending, retired, liveness, lifecycle,
                 collector, post>>
  /\ KeepClients

-----------------------------------------------------------------------------
(***************************************************************************)
(* revoke_pending_owners, called by session cleanup with fenced owners.    *)
(***************************************************************************)
RevokeStep(step) ==
  /\ revoker' = step
  /\ UNCHANGED <<clock, live, unbumped, epoch_changed, admitted, version, gc,
                 soft_pins, retired, empty_slots, liveness, lifecycle, clients,
                 collector>>

\* Takes step_gate, then drains the queue under stage_gate.write.
revoke_begin(owners) ==
  /\ revoker.pc = "idle" /\ Idle(Revoker)
  /\ collector.phase = "idle"
  /\ owners # {} /\ owners \cap (admitted \cup revoked) = {}
  /\ pending' = <<>>
  /\ RevokeStep([NoRevoke EXCEPT !.pc = "next", !.owners = owners,
                                 !.batch = pending, !.now = clock])
  /\ UNCHANGED <<revoked, slots, post>>

\* pending_snapshot of the next candidate.
revoke_snapshot ==
  LET c == Head(revoker.batch)
      rest == [revoker EXCEPT !.batch = Tail(@)]
  IN
  /\ revoker.pc = "next" /\ Idle(Revoker)
  /\ revoker.batch # <<>>
  /\ Unlocked(SlotOf(c.ver))
  /\ IF ~IsStaged(c.ver)
       THEN RevokeStep(rest) /\ UNCHANGED pending
       ELSE IF active[SlotOf(c.ver)].owner \notin revoker.owners
       THEN RevokeStep(rest) /\ pending' = Append(pending, c)
       ELSE /\ RevokeStep([rest EXCEPT !.pc = "abort", !.cand = c.ver])
            /\ UNCHANGED pending
  /\ UNCHANGED <<revoked, slots, post>>

revoke_abort ==
  /\ revoker.pc = "abort"
  /\ AbortLocked(Revoker, revoker.cand, revoker.now)
  /\ RevokeStep([revoker EXCEPT !.pc = "next", !.cand = NoVersion])
  /\ UNCHANGED <<revoked, pending>>

revoke_end ==
  /\ revoker.pc = "next" /\ Idle(Revoker)
  /\ revoker.batch = <<>>
  /\ revoked' = revoked \cup revoker.owners
  /\ RevokeStep(NoRevoke)
  /\ UNCHANGED <<pending, slots, post>>
=============================================================================
