---------------------------- MODULE CatalogAccess ----------------------------
(***************************************************************************)
(* Reads and write transactions of the object catalog                      *)
(* (src/src/object/catalog/read.rs and write.rs), one action per step that *)
(* another thread can see.  Calls that return without changing anything    *)
(* return their thread to idle.                                            *)
(***************************************************************************)
EXTENDS CatalogState

NoRead == [pc |-> "idle", slot |-> NoSlot, ver |-> NoVersion, now |-> 0,
           lease |-> 0, alive |-> FALSE, given |-> {}]
NoWrite == [pc |-> "idle", slot |-> NoSlot, id |-> 0, owner |-> NoOwner,
            started_at |-> 0, replicas |-> {}]
NoFinish == [pc |-> "idle", ver |-> NoVersion, now |-> 0]

-----------------------------------------------------------------------------
(***************************************************************************)
(* get                                                                     *)
(***************************************************************************)
GetStep(r, step) ==
  /\ reader' = [reader EXCEPT ![r] = step]
  /\ UNCHANGED <<world, slots, queues, lifecycle, remover, writer, finisher,
                 collector, revoker, post>>

get_lookup(r) ==
  /\ reader[r].pc \in {"idle", "leased"}
  /\ index # NoSlot
  /\ GetStep(r, [NoRead EXCEPT !.pc = "load", !.slot = index, !.now = clock])
  /\ UNCHANGED version

get_load(r) ==
  LET v == committed[reader[r].slot] IN
  /\ reader[r].pc = "load"
  /\ GetStep(r, [reader[r] EXCEPT !.pc = IF v = NoVersion THEN "absent"
                                                          ELSE "access",
                                  !.ver = v])
  /\ UNCHANGED version

\* No version: look again under the mutex before answering NotReady/NotFound.
get_absent(r) ==
  LET s == reader[r].slot IN
  /\ reader[r].pc = "absent"
  /\ Unlocked(s)
  /\ GetStep(r, IF has_committed(s) THEN [reader[r] EXCEPT !.pc = "load"]
                                    ELSE NoRead)
  /\ UNCHANGED version

\* record_access: the lease first, then the recency bit.
record_access_lease(r) ==
  LET v == reader[r].ver
      until == acquire_lease(v, reader[r].now)
  IN
  /\ reader[r].pc = "access"
  /\ version' = [version EXCEPT ![v].lease_until = until]
  /\ GetStep(r, [reader[r] EXCEPT !.pc = "recent", !.lease = until])

record_access_recent(r) ==
  /\ reader[r].pc = "recent"
  /\ version' = [version EXCEPT ![reader[r].ver].recent = TRUE]
  /\ GetStep(r, [reader[r] EXCEPT !.pc = "validate"])

get_validate(r) ==
  LET v == reader[r].ver IN
  /\ reader[r].pc = "validate"
  /\ GetStep(r, [reader[r] EXCEPT
                   !.pc = IF committed_points_to(v) /\ has_live(v)
                            THEN "held" ELSE "revalidate",
                   !.alive = has_live(v)])
  /\ UNCHANGED version

\* The pointer is loaded a second time to tell NotFound from a retry.
get_revalidate(r) ==
  /\ reader[r].pc = "revalidate"
  /\ GetStep(r, IF committed_points_to(reader[r].ver)
                  THEN NoRead
                  ELSE [reader[r] EXCEPT !.pc = "load", !.ver = NoVersion,
                                         !.lease = 0, !.alive = FALSE])
  /\ UNCHANGED version

\* The RPC lists the live replicas and drops its ObjectHandle; the client goes
\* on reading them for as long as it was leased them.
drop_handle(r) ==
  /\ reader[r].pc = "held"
  /\ GetStep(r, [reader[r] EXCEPT
                   !.pc = "leased",
                   !.given = version[reader[r].ver].replicas \cap live])
  /\ UNCHANGED version

-----------------------------------------------------------------------------
(***************************************************************************)
(* begin_write, stage and the drop of a WriteClaim                         *)
(***************************************************************************)
WriteStep(w, step) ==
  /\ writer' = [writer EXCEPT ![w] = step]
  /\ UNCHANGED <<world, reader, remover, finisher, collector, revoker>>

Claim(owner, id, base, soft_pin, hard_pin) ==
  [phase |-> "Claimed", id |-> id, owner |-> owner, base |-> base,
   soft_pin |-> soft_pin, hard_pin |-> hard_pin]

\* A write that starts has a WriteAdmission of an active session and passes
\* the backlog check; one that lost its slot only looks the key up again.
Looking(w) ==
  IF writer[w].pc = "lookup" THEN {writer[w]}
  ELSE {[NoWrite EXCEPT !.owner = o, !.started_at = clock] :
          o \in {a \in admitted :
                   /\ writer[w].pc = "idle" /\ Idle(w)
                   /\ lifecycle.retired_bytes < MaxRetiredBytes}}

\* entry_sync: a vacant entry gets a slot that is born with the claim.
begin_write_vacant(w) ==
  /\ index = NoSlot
  /\ \E c \in Looking(w), s \in unused, p \in SoftPinAction, h \in HardPin :
       /\ index' = s
       /\ unused' = unused \ {s}
       /\ active' = [active EXCEPT ![s] = Claim(c.owner, 1, NoVersion, p, h)]
       /\ next_transaction_id' = [next_transaction_id EXCEPT ![s] = 2]
       /\ WriteStep(w, [c EXCEPT !.pc = "claimed", !.slot = s, !.id = 1])
  /\ lifecycle' = on_claim
  /\ UNCHANGED <<committed, control, version, queues, post>>

begin_write_occupied(w) ==
  /\ index # NoSlot
  /\ \E c \in Looking(w) :
       WriteStep(w, [c EXCEPT !.pc = "lock", !.slot = index])
  /\ UNCHANGED <<slots, version, queues, lifecycle, post>>

\* What begin_write finds under the mutex of the slot it looked up.
assume_indexed(s) == TRUE
slot_is_indexed(s) == index = s
NeverInProgress(s) == FALSE
WriteInProgress(s) == active[s].phase # "None"

\* The slot left the index before its mutex was taken: look it up again.
begin_write_retry(w) ==
  LET s == writer[w].slot IN
  /\ writer[w].pc = "lock"
  /\ Unlocked(s)
  /\ ~slot_is_indexed(s)
  /\ WriteStep(w, [writer[w] EXCEPT !.pc = "lookup", !.slot = NoSlot])
  /\ UNCHANGED <<slots, version, queues, lifecycle, post>>

begin_write_refused(w) ==
  LET s == writer[w].slot IN
  /\ writer[w].pc = "lock"
  /\ Unlocked(s)
  /\ slot_is_indexed(s)
  /\ WriteInProgress(s) \/ has_committed(s)  \* the latter for Insert
  /\ WriteStep(w, NoWrite)
  /\ UNCHANGED <<slots, version, queues, lifecycle, post>>

begin_write_claim(w) ==
  LET s == writer[w].slot
      id == next_transaction_id[s]
  IN
  /\ writer[w].pc = "lock"
  /\ Unlocked(s)
  /\ slot_is_indexed(s)
  /\ ~WriteInProgress(s)
  /\ id \in TransactionId
  /\ next_transaction_id' = [next_transaction_id EXCEPT ![s] = @ + 1]
  /\ \E p \in SoftPinAction, h \in HardPin :
       active' = [active EXCEPT ![s] = Claim(writer[w].owner, id, committed[s], p, h)]
  /\ WriteStep(w, [writer[w] EXCEPT !.pc = "claimed", !.id = id])
  /\ lifecycle' = on_claim
  /\ UNCHANGED <<index, unused, committed, control, version, queues, post>>

OwnsClaim(w) ==
  LET tx == active[writer[w].slot]
  IN  tx.phase = "Claimed" /\ tx.id = writer[w].id

\* What the end of a transaction finds out under the mutex: whether it leaves
\* the slot without a version, and whether its base lost every replica.
NeverEmpty(s) == FALSE
LeavesEmpty(s) == ~has_committed(s)
BaseIsIgnored(s) == FALSE
BaseIsInvalid(s) == active[s].base # NoVersion /\ ~has_live(active[s].base)

\* stage_inner up to the gate: the session is active, the replicas are live.
stage_check(w) ==
  /\ writer[w].pc = "claimed"
  /\ writer[w].owner \in admitted
  /\ \E R \in (SUBSET live) \ {{}} :
       WriteStep(w, [writer[w] EXCEPT !.pc = "stage", !.replicas = R])
  /\ UNCHANGED <<slots, version, queues, lifecycle, post>>

enqueue_pending_candidate(v, now) ==
  Append(pending, [ver |-> v, deadline |-> now + PendingTimeout])

\* Under stage_gate.read: the transaction becomes Staged and its candidate is
\* queued.  The gate makes the two one step for revoke_pending_owners; the
\* collector cannot act on the transaction before it sees the candidate.
stage(w) ==
  LET s == writer[w].slot
      v == <<s, writer[w].id>>
  IN
  /\ writer[w].pc = "stage"
  /\ Unlocked(s)
  /\ OwnsClaim(w)
  /\ active' = [active EXCEPT ![s].phase = "Staged"]
  /\ version' = [version EXCEPT ![v] =
       [Unborn EXCEPT !.status = "Pending", !.owner = writer[w].owner,
                      !.replicas = writer[w].replicas]]
  /\ pending' = enqueue_pending_candidate(v, writer[w].started_at)
  /\ lifecycle' = on_stage(Cardinality(writer[w].replicas))
  /\ WriteStep(w, [writer[w] EXCEPT !.pc = "recheck", !.replicas = {}])
  /\ UNCHANGED <<index, unused, committed, control, next_transaction_id, gc,
                 soft_pins, retired, empty_slots, liveness, post>>

\* The session may have been fenced after stage_check.
stage_trusted(w) ==
  /\ writer[w].pc = "recheck"
  /\ WriteStep(w, NoWrite)
  /\ UNCHANGED <<slots, version, queues, lifecycle, post>>
stage_recheck(w) ==
  /\ writer[w].pc = "recheck"
  /\ WriteStep(w, IF writer[w].owner \in admitted
                    THEN NoWrite
                    ELSE [writer[w] EXCEPT !.pc = "abort"])
  /\ UNCHANGED <<slots, version, queues, lifecycle, post>>

\* The claim is given up: no replicas, an inactive owner, a lost replica.
drop_claim(w) ==
  LET s == writer[w].slot IN
  /\ writer[w].pc = "claimed"
  /\ Unlocked(s)
  /\ OwnsClaim(w)
  /\ active' = [active EXCEPT ![s] = NoTransaction]
  /\ lifecycle' = on_claim_dropped
  /\ post' = [post EXCEPT ![w] =
       [kind |-> "drop", ver |-> NoVersion, slot |-> s,
        empty |-> LeavesEmpty(s), invalid |-> BaseIsInvalid(s),
        now |-> writer[w].started_at]]
  /\ WriteStep(w, NoWrite)
  /\ UNCHANGED <<index, unused, committed, control, next_transaction_id,
                 version, queues>>

-----------------------------------------------------------------------------
(***************************************************************************)
(* abort, by its caller t: the section under the mutex, then the rest.     *)
(* CatalogInner::abort_pending is the same code for the collector.         *)
(***************************************************************************)

\* Under the mutex v must still be what the slot's transaction staged: since
\* the caller saw it, it may have ended and another may have taken its place.
AssumeStaged(v) == TRUE
AnyStaged(v) == active[SlotOf(v)].phase = "Staged"
StillStaged(v) == IsStaged(v)

AbortLocked(t, v, now) ==
  LET s == SlotOf(v) IN
  /\ Unlocked(s)
  /\ IF StillStaged(v)
       THEN /\ active' = [active EXCEPT ![s] = NoTransaction]
            /\ post' = [post EXCEPT ![t] =
                 [kind |-> "abort", ver |-> v, slot |-> s,
                  empty |-> LeavesEmpty(s), invalid |-> BaseIsInvalid(s),
                  now |-> now]]
       ELSE UNCHANGED <<active, post>>
  /\ UNCHANGED <<index, unused, committed, control, next_transaction_id>>

self_abort(w) ==
  /\ writer[w].pc = "abort"
  /\ AbortLocked(w, <<writer[w].slot, writer[w].id>>, writer[w].started_at)
  /\ WriteStep(w, NoWrite)
  /\ UNCHANGED <<version, queues, lifecycle>>

\* retire_aborted_pending, enqueue_empty and the liveness request; a dropped
\* claim has no version to retire.
after_abort(t) ==
  LET p == post[t] IN
  /\ p.kind \in {"abort", "drop"}
  /\ IF p.kind = "abort"
       THEN /\ lifecycle' = on_abort_pending(reserved_bytes(p.ver))
            /\ retired' = Append(retired,
                 [ver |-> p.ver, bytes |-> reserved_bytes(p.ver),
                  reclaim_after |-> p.now])
       ELSE UNCHANGED <<lifecycle, retired>>
  /\ empty_slots' = IF p.empty THEN enqueue_empty(p.slot, p.now)
                               ELSE empty_slots
  /\ liveness' = IF p.invalid THEN request(liveness) ELSE liveness
  /\ post' = [post EXCEPT ![t] = NoPost]
  /\ UNCHANGED <<world, slots, version, gc, soft_pins, pending, clients,
                 collector, revoker>>

-----------------------------------------------------------------------------
(***************************************************************************)
(* finish_put and revoke_put: resolve_write, then commit or abort          *)
(***************************************************************************)
FinishStep(f, step) ==
  /\ finisher' = [finisher EXCEPT ![f] = step]
  /\ UNCHANGED <<world, reader, remover, writer, collector, revoker>>

resolve_write(f) ==
  /\ finisher[f].pc = "idle" /\ Idle(f)
  /\ index # NoSlot
  /\ Unlocked(index)
  /\ active[index].phase = "Staged"
  /\ FinishStep(f, [pc |-> "resolved", ver |-> <<index, active[index].id>>,
                    now |-> clock])
  /\ UNCHANGED <<slots, version, queues, lifecycle, post>>

\* The conditions under which commit publishes v.
CanCommit(v) ==
  /\ IsStaged(v)
  /\ all_live(v)
  /\ committed[SlotOf(v)] = active[SlotOf(v)].base

commit(f) ==
  LET v == finisher[f].ver
      s == SlotOf(v)
      tx == active[s]
  IN
  /\ finisher[f].pc = "resolved"
  /\ Unlocked(s)
  /\ IF CanCommit(v)
       THEN /\ version' = [version EXCEPT
                             ![v] = for_commit(v, tx, finisher[f].now)]
            /\ committed' = [committed EXCEPT ![s] = v]
            /\ active' = [active EXCEPT ![s] = NoTransaction]
            /\ lifecycle' = on_commit(reserved_bytes(v), tx.base)
            /\ post' = [post EXCEPT ![f] =
                 [kind |-> "commit", ver |-> v, base |-> tx.base]]
       ELSE UNCHANGED <<version, committed, active, lifecycle, post>>
  /\ FinishStep(f, NoFinish)
  /\ UNCHANGED <<index, unused, control, next_transaction_id, queues>>

\* The queues learn of the new version and of the replaced one, whose lease is
\* read only now.
after_commit(f) ==
  LET p == post[f]
      pin == version[p.ver].soft_pin_until
  IN
  /\ p.kind = "commit"
  /\ gc' = [gc EXCEPT !.young = Append(@, p.ver)]
  /\ soft_pins' = IF pin = 0 THEN soft_pins
                  ELSE Append(soft_pins, [ver |-> p.ver, deadline |-> pin])
  /\ retired' = IF p.base = NoVersion THEN retired
                ELSE Append(retired,
                       [ver |-> p.base, bytes |-> reserved_bytes(p.base),
                        reclaim_after |-> reclaim_after(p.base)])
  /\ post' = [post EXCEPT ![f] = [kind |-> "check", ver |-> p.ver]]
  /\ UNCHANGED <<world, slots, version, pending, empty_slots, liveness,
                 lifecycle, clients, collector, revoker>>

\* A replica lost since CanCommit must be found by a new liveness sweep.
after_commit_check(f) ==
  /\ post[f].kind = "check"
  /\ liveness' = IF all_live(post[f].ver) THEN liveness ELSE request(liveness)
  /\ post' = [post EXCEPT ![f] = NoPost]
  /\ UNCHANGED <<world, slots, version, gc, soft_pins, pending, retired,
                 empty_slots, lifecycle, clients, collector, revoker>>

abort(f) ==
  /\ finisher[f].pc = "resolved"
  /\ AbortLocked(f, finisher[f].ver, finisher[f].now)
  /\ FinishStep(f, NoFinish)
  /\ UNCHANGED <<version, queues, lifecycle>>
=============================================================================
