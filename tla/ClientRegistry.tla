--------------------------- MODULE ClientRegistry ---------------------------
(***************************************************************************)
(* The client session registry (src/src/client/lifecycle.rs).              *)
(*                                                                         *)
(* One mutex guards the whole registry state, so every method is one       *)
(* atomic step.  The exception is claim_due_cleanups: its two loops are    *)
(* unrolled into one step per iteration, with `scan` recording that the    *)
(* mutex is held; every other method waits for scan.on = FALSE.            *)
(*                                                                         *)
(* Callers sample the clock BEFORE they take the mutex (server/rpc and     *)
(* reconcile_once), so a method may run with any instant up to the         *)
(* present one.  Methods that return an error without changing anything    *)
(* are stuttering steps and have no action.                                *)
(***************************************************************************)
EXTENDS Integers, Sequences, FiniteSets

CONSTANTS
  Client,             \* client ids (non-nil)
  Worker,             \* threads that can own cleanup claims
  TtlTicks,           \* ClientLifecycleConfig.ttl_ticks
  MaxClients,         \* ClientLifecycleConfig.max_clients
  CleanupScanBudget,  \* ClientLifecycleConfig.cleanup_scan_budget
  MaxTick,            \* the largest ClientTick (u64::MAX in the code)
  MaxGeneration       \* the largest generation (u64::MAX in the code)

\* client/config.rs rejects zero for the three configured values.
ASSUME ConfigAssumption ==
  /\ TtlTicks \in Nat \ {0}
  /\ MaxClients \in Nat \ {0}
  /\ CleanupScanBudget \in Nat \ {0}
  /\ MaxTick \in Nat
  /\ MaxGeneration \in Nat \ {0}

VARIABLES
  clock,            \* MasterClock, in client ticks
  entries,          \* RegistryState.entries; NoEntry where the map has no key
  guards,           \* generations whose ClientSessionGuard.active is true
  deadlines,        \* RegistryState.deadlines, the heap as a set of records
  cleanup_ready,    \* RegistryState.cleanup_ready, a FIFO of sessions
  next_generation,  \* RegistryState.next_generation
  held,             \* ClientCleanup values owned by each worker
  scan              \* the claim_due_cleanups call that holds the mutex

vars == <<clock, entries, guards, deadlines, cleanup_ready, next_generation,
          held, scan>>

Tick == 0..MaxTick
Generation == 1..MaxGeneration
Session == [client_id : Client, generation : Generation]
CleanupReason == {"GracefulUnmount", "HeartbeatExpired", "ServerShutdown"}
CleanupClaimState == {"Ready", "Queued", "Running"}

\* Reasons the callers of begin_drain pass; expiry is the registry's own.
DrainReason == {"GracefulUnmount", "ServerShutdown"}

NoEntry == [phase |-> "Absent", generation |-> 0, reason |-> "None",
            claim |-> "None", expires_at |-> 0]

ActiveEntry ==
  [phase : {"Active"}, generation : Generation, reason : {"None"},
   claim : {"None"}, expires_at : Tick]
PendingEntry ==
  [phase : {"CleanupPending"}, generation : Generation,
   reason : CleanupReason, claim : CleanupClaimState, expires_at : Tick]

DeadlineRecord == [expires_at : Tick, client_id : Client,
                   generation : Generation]

NoScan == [on |-> FALSE]
Scan == [on : {TRUE}, worker : Worker, now : Tick,
         left : 0..CleanupScanBudget]

-----------------------------------------------------------------------------
(***************************************************************************)
(* Helpers.                                                                *)
(***************************************************************************)
Present(c) == entries[c] # NoEntry
is_active(c) == entries[c].phase = "Active"
Pending(c) == entries[c].phase = "CleanupPending"
SessionOf(c) == [client_id |-> c, generation |-> entries[c].generation]

\* ClientEntry::ensure_session, for an entry that exists.
ensure_session(s) == entries[s.client_id].generation = s.generation

\* ClientTick::saturating_add
plain_add(t, d) == t + d
saturating_add(t, d) == IF t + d > MaxTick THEN MaxTick ELSE t + d

\* ClientEntry::refresh: a deadline never moves back.
refresh_latest(e, now) ==
  [e EXCEPT !.expires_at = saturating_add(now, TtlTicks)]
refresh(e, now) ==
  LET new == saturating_add(now, TtlTicks)
  IN  [e EXCEPT !.expires_at = IF @ > new THEN @ ELSE new]

\* ClientEntry::fence; mark_expired is fence with reason HeartbeatExpired.
fence(e, reason) ==
  [e EXCEPT !.phase = "CleanupPending", !.reason = reason, !.claim = "Ready"]

mark_expired(e) == fence(e, "HeartbeatExpired")

\* The claim state claim_cleanup expects when a drain claims an entry.
ClaimableOrRunning(e) == TRUE
ClaimableOrQueued(e) == e.claim # "Running"
Claimable(e) == e.claim = "Ready"

\* ClientRegistry::allocate_generation, which never hands out the last one.
reuse_generation ==
  /\ next_generation < MaxGeneration
  /\ UNCHANGED next_generation
allocate_generation ==
  /\ next_generation < MaxGeneration
  /\ next_generation' = next_generation + 1

Unlocked == ~scan.on

-----------------------------------------------------------------------------
Init ==
  /\ clock = 0
  /\ entries = [c \in Client |-> NoEntry]
  /\ guards = {}
  /\ deadlines = {}
  /\ cleanup_ready = <<>>
  /\ next_generation = 1
  /\ held = [w \in Worker |-> {}]
  /\ scan = NoScan

TickClock ==
  /\ clock < MaxTick
  /\ clock' = clock + 1
  /\ UNCHANGED <<entries, guards, deadlines, cleanup_ready, next_generation,
                 held, scan>>

\* The present entry of c is active but due: it is fenced on the spot and
\* left for claim_due_cleanups (ClientEntry::expire_if_due).
expire_early(c, now) ==
  /\ is_active(c)
  /\ now + 1 >= entries[c].expires_at
  /\ entries' = [entries EXCEPT ![c] = mark_expired(@)]
  /\ guards' = guards \ {entries[c].generation}
  /\ UNCHANGED <<clock, deadlines, cleanup_ready, next_generation, held, scan>>
expire_if_due(c, now) ==
  /\ is_active(c)
  /\ now >= entries[c].expires_at
  /\ entries' = [entries EXCEPT ![c] = mark_expired(@)]
  /\ guards' = guards \ {entries[c].generation}
  /\ UNCHANGED <<clock, deadlines, cleanup_ready, next_generation, held, scan>>

refresh_and_push(c, now) ==
  /\ is_active(c)
  /\ now < entries[c].expires_at
  /\ entries' = [entries EXCEPT ![c] = refresh(@, now)]
  /\ deadlines' = deadlines \cup
       {[expires_at |-> entries'[c].expires_at, client_id |-> c,
         generation |-> entries[c].generation]}
  /\ UNCHANGED <<clock, guards, cleanup_ready, next_generation, held, scan>>
refresh_live(c, now) ==
  /\ is_active(c)
  /\ now < entries[c].expires_at
  /\ entries' = [entries EXCEPT ![c] = refresh(@, now)]
  /\ UNCHANGED <<clock, guards, deadlines, cleanup_ready, next_generation,
                 held, scan>>

\* activate for a client with no entry: a fresh generation, an active guard
\* and one deadline record.
activate_absent(c, now) ==
  LET at == saturating_add(now, TtlTicks) IN
  /\ ~Present(c)
  /\ Cardinality({d \in Client : Present(d)}) < MaxClients
  /\ allocate_generation
  /\ entries' = [entries EXCEPT ![c] =
       [phase |-> "Active", generation |-> next_generation, reason |-> "None",
        claim |-> "None", expires_at |-> at]]
  /\ guards' = guards \cup {next_generation}
  /\ deadlines' = deadlines \cup
       {[expires_at |-> at, client_id |-> c, generation |-> next_generation]}
  /\ UNCHANGED <<clock, cleanup_ready, held, scan>>

activate(c, now) ==
  /\ Unlocked
  /\ \/ expire_if_due(c, now)
     \/ refresh_live(c, now)
     \/ activate_absent(c, now)

heartbeat(c, now) ==
  /\ Unlocked
  /\ \/ expire_if_due(c, now)
     \/ refresh_live(c, now)

\* The caller's resource transaction failed after it published session s.
\* The session's deadline record stays behind.
rollback_keeping_guard(s) ==
  LET c == s.client_id IN
  /\ Unlocked
  /\ Present(c)
  /\ ensure_session(s)
  /\ is_active(c)
  /\ entries' = [entries EXCEPT ![c] = NoEntry]
  /\ UNCHANGED <<clock, guards, deadlines, cleanup_ready, next_generation,
                 held, scan>>
rollback_activation(s) ==
  LET c == s.client_id IN
  /\ Unlocked
  /\ Present(c)
  /\ ensure_session(s)
  /\ is_active(c)
  /\ entries' = [entries EXCEPT ![c] = NoEntry]
  /\ guards' = guards \ {s.generation}
  /\ UNCHANGED <<clock, deadlines, cleanup_ready, next_generation, held, scan>>

\* Fences an active session and claims it; an already fenced one is claimed
\* only if no worker has it and it is not queued for retry.
begin_drain(w, s, reason) ==
  LET c == s.client_id
      e == IF is_active(c) THEN fence(entries[c], reason) ELSE entries[c]
  IN
  /\ Unlocked
  /\ Present(c)
  /\ ensure_session(s)
  /\ Claimable(e)
  /\ entries' = [entries EXCEPT ![c] = [e EXCEPT !.claim = "Running"]]
  /\ guards' = IF is_active(c) THEN guards \ {s.generation} ELSE guards
  /\ held' = [held EXCEPT ![w] = @ \cup {s}]
  /\ UNCHANGED <<clock, deadlines, cleanup_ready, next_generation, scan>>

-----------------------------------------------------------------------------
(***************************************************************************)
(* claim_due_cleanups, called by worker w with the scan budget.            *)
(***************************************************************************)
scan_begin(w, now) ==
  /\ Unlocked
  /\ scan' = [on |-> TRUE, worker |-> w, now |-> now,
              left |-> CleanupScanBudget]
  /\ UNCHANGED <<clock, entries, guards, deadlines, cleanup_ready,
                 next_generation, held>>

\* Claims the entry of c for the scanning worker: claim_cleanup after an
\* optional fencing, e being the entry so far.
ScanClaim(c, e) ==
  /\ entries' = [entries EXCEPT ![c] = [e EXCEPT !.claim = "Running"]]
  /\ held' = [held EXCEPT ![scan.worker] = @ \cup {SessionOf(c)}]

\* First loop: retries, in FIFO order.
scan_ready ==
  LET s == Head(cleanup_ready)
      c == s.client_id
  IN
  /\ scan.on /\ scan.left > 0 /\ cleanup_ready # <<>>
  /\ cleanup_ready' = Tail(cleanup_ready)
  /\ scan' = [scan EXCEPT !.left = @ - 1]
  /\ IF Present(c) /\ ensure_session(s) /\ entries[c].claim = "Queued"
       THEN ScanClaim(c, entries[c])
       ELSE UNCHANGED <<entries, held>>
  /\ UNCHANGED <<clock, guards, deadlines, next_generation>>

\* r is at the top of the heap and due.  Ties are broken arbitrarily.
OverdueTop(r, now) ==
  /\ r.expires_at < now
  /\ \A q \in deadlines : r.expires_at <= q.expires_at
DueTop(r, now) ==
  /\ r.expires_at <= now
  /\ \A q \in deadlines : r.expires_at <= q.expires_at

\* Second loop: deadline records.  A record of a refreshed session is
\* replaced by one for its latest deadline; a stale record is dropped.
scan_deadline(r) ==
  LET c == r.client_id
      current == Present(c) /\ entries[c].generation = r.generation
      live == current /\ is_active(c) /\ scan.now < entries[c].expires_at
      due == current /\ is_active(c) /\ scan.now >= entries[c].expires_at
      expired == /\ current
                 /\ entries[c].reason = "HeartbeatExpired"
                 /\ entries[c].claim = "Ready"
  IN
  /\ scan.on /\ scan.left > 0 /\ cleanup_ready = <<>>
  /\ DueTop(r, scan.now)
  /\ scan' = [scan EXCEPT !.left = @ - 1]
  /\ deadlines' = (deadlines \ {r}) \cup
       (IF live THEN {[r EXCEPT !.expires_at = entries[c].expires_at]} ELSE {})
  /\ guards' = IF due THEN guards \ {r.generation} ELSE guards
  /\ IF due THEN ScanClaim(c, mark_expired(entries[c]))
     ELSE IF expired THEN ScanClaim(c, entries[c])
     ELSE UNCHANGED <<entries, held>>
  /\ UNCHANGED <<clock, cleanup_ready, next_generation>>

scan_end ==
  /\ scan.on
  /\ \/ scan.left = 0
     \/ /\ cleanup_ready = <<>>
        /\ \A r \in deadlines : ~DueTop(r, scan.now)
  /\ scan' = NoScan
  /\ UNCHANGED <<clock, entries, guards, deadlines, cleanup_ready,
                 next_generation, held>>

-----------------------------------------------------------------------------
(***************************************************************************)
(* ClientCleanup::finish and its Drop, by the worker that owns the claim.  *)
(***************************************************************************)
finish_cleanup(w, s) ==
  LET c == s.client_id IN
  /\ Unlocked
  /\ s \in held[w]
  /\ ~Present(c) \/ (ensure_session(s) /\ entries[c].claim = "Running")
  /\ entries' = [entries EXCEPT ![c] = NoEntry]
  /\ held' = [held EXCEPT ![w] = @ \ {s}]
  /\ UNCHANGED <<clock, guards, deadlines, cleanup_ready, next_generation, scan>>

release_and_forget(w, s) ==
  /\ Unlocked
  /\ s \in held[w]
  /\ held' = [held EXCEPT ![w] = @ \ {s}]
  /\ entries' = [entries EXCEPT ![s.client_id].claim = "Queued"]
  /\ UNCHANGED <<clock, guards, deadlines, cleanup_ready, next_generation, scan>>
release_cleanup(w, s) ==
  LET c == s.client_id
      requeue == /\ Present(c)
                 /\ ensure_session(s)
                 /\ entries[c].claim = "Running"
  IN
  /\ Unlocked
  /\ s \in held[w]
  /\ held' = [held EXCEPT ![w] = @ \ {s}]
  /\ IF requeue
       THEN /\ entries' = [entries EXCEPT ![c].claim = "Queued"]
            /\ cleanup_ready' = Append(cleanup_ready, s)
       ELSE UNCHANGED <<entries, cleanup_ready>>
  /\ UNCHANGED <<clock, guards, deadlines, next_generation, scan>>

-----------------------------------------------------------------------------
\* The sessions a caller can name: those activate has returned.  (A pair that
\* was never issued is refused by ensure_session like a stale one.)
Issued == {s \in Session : s.generation < next_generation}

Now == 0..clock

ClaimDueStep ==
  \/ scan_ready
  \/ \E r \in deadlines : scan_deadline(r)
  \/ scan_end

Next ==
  \/ TickClock
  \/ \E c \in Client, now \in Now : activate(c, now)
  \/ \E c \in Client, now \in Now : heartbeat(c, now)
  \/ \E s \in Issued : rollback_activation(s)
  \/ \E w \in Worker, s \in Issued, reason \in DrainReason :
       begin_drain(w, s, reason)
  \/ \E w \in Worker, now \in Now : scan_begin(w, now)
  \/ ClaimDueStep
  \/ \E w \in Worker : \E s \in held[w] : finish_cleanup(w, s)
  \/ \E w \in Worker : \E s \in held[w] : release_cleanup(w, s)

Spec == Init /\ [][Next]_vars

(***************************************************************************)
(* Fairness.  Time passes; a call that holds the mutex runs to its end;    *)
(* the reconciler keeps starting scans with a current clock sample         *)
(* (run_until wakes on an interval and on deadlines); and a cleanup that   *)
(* is claimed again and again does not fail every time.                    *)
(***************************************************************************)
Fairness ==
  /\ WF_vars(TickClock)
  /\ WF_vars(ClaimDueStep)
  /\ SF_vars(\E w \in Worker : scan_begin(w, clock))
  /\ \A s \in Session : SF_vars(\E w \in Worker : finish_cleanup(w, s))

FairSpec == Spec /\ Fairness

-----------------------------------------------------------------------------
(***************************************************************************)
(* Invariants.                                                             *)
(***************************************************************************)

\* Every variable of the registry has its type; the queue holds sessions and
\* the generation counter stays in u64 (struct RegistryState).
TypeOK ==
  /\ clock \in Tick
  /\ entries \in [Client -> ActiveEntry \cup PendingEntry \cup {NoEntry}]
  /\ guards \subseteq Generation
  /\ deadlines \subseteq DeadlineRecord
  /\ cleanup_ready \in Seq(Session)
  /\ next_generation \in Generation
  /\ held \in [Worker -> SUBSET Session]
  /\ scan \in Scan \cup {NoScan}

\* A fencing token is active exactly while its session is the active session
\* of its client: a write admitted with it can never outlive the session
\* (ClientSessionGuard, invalidated by mark_expired, fence and rollback).
GuardMatchesSession ==
  \A g \in Generation :
    g \in guards <=> \E c \in Client : is_active(c) /\ entries[c].generation = g

\* Entries and deadline records only name generations already handed out, and
\* two entries never have the same one (allocate_generation).
GenerationsUnique ==
  /\ \A c \in Client : entries[c].generation < next_generation
  /\ \A r \in deadlines : r.generation < next_generation
  /\ \A c, d \in Client :
       Present(c) /\ Present(d) /\ entries[c].generation = entries[d].generation
         => c = d

\* A claim a worker holds is the Running claim of the client's current entry,
\* and no other worker holds it: finish never reports StaleSession or
\* CleanupNotStarted, and one session is never cleaned by two threads.
CleanupExclusive ==
  /\ \A w \in Worker : \A s \in held[w] :
       /\ entries[s.client_id].generation = s.generation
       /\ entries[s.client_id].claim = "Running"
  /\ \A v, w \in Worker : v # w => held[v] \cap held[w] = {}

\* The heap has a record of c's session that falls due no later than it.
Covered(c) ==
  \E r \in deadlines :
    /\ r.client_id = c
    /\ r.generation = entries[c].generation
    /\ r.expires_at <= entries[c].expires_at

\* Fenced work is never lost: a Running entry is in some worker's hands, a
\* Queued one is in cleanup_ready, and a Ready one was expired in place and
\* still has a deadline record, no later than its deadline, to be found by.
CleanupNeverLost ==
  \A c \in Client : Pending(c) =>
    /\ entries[c].claim = "Running" =>
         \E w \in Worker : SessionOf(c) \in held[w]
    /\ entries[c].claim = "Queued" =>
         \E i \in 1..Len(cleanup_ready) : cleanup_ready[i] = SessionOf(c)
    /\ entries[c].claim = "Ready" =>
         entries[c].reason = "HeartbeatExpired" /\ Covered(c)

\* An active session always has a deadline record that falls due no later
\* than the session, however its heartbeats and the scans interleave: the
\* scan cannot miss an expiry (heartbeat leaves the heap alone).
DeadlineCovered == \A c \in Client : is_active(c) => Covered(c)

\* The retry queue holds exactly the Queued entries, each once: no budget is
\* spent on stale or duplicate retries.
ReadyQueueExact ==
  /\ \A i \in 1..Len(cleanup_ready) :
       LET s == cleanup_ready[i] IN
       /\ entries[s.client_id].generation = s.generation
       /\ entries[s.client_id].claim = "Queued"
  /\ \A i, j \in 1..Len(cleanup_ready) :
       cleanup_ready[i] = cleanup_ready[j] => i = j

\* The heap holds at most one record per session, so that a heartbeat storm
\* cannot grow it (claim_due_cleanups: "requeues the single latest deadline").
OneRecordPerSession ==
  \A q, r \in deadlines : q.generation = r.generation => q = r

\* The clock sample a scan works with was taken in the past.
ScanSampleIsPast == scan.on => scan.now <= clock

\* The inductive invariant: the properties above need one another.
IInv ==
  /\ TypeOK
  /\ GuardMatchesSession
  /\ GenerationsUnique
  /\ CleanupExclusive
  /\ CleanupNeverLost
  /\ DeadlineCovered
  /\ ReadyQueueExact
  /\ OneRecordPerSession
  /\ ScanSampleIsPast

-----------------------------------------------------------------------------
(***************************************************************************)
(* Action and liveness properties.                                         *)
(***************************************************************************)

\* A session is fenced for a missed heartbeat only once its deadline has
\* really passed, however stale the caller's clock sample is.
ExpiryIsDue ==
  [][\A c \in Client :
       is_active(c) /\ entries'[c].reason = "HeartbeatExpired"
         => clock >= entries[c].expires_at]_vars

\* A fenced session is eventually cleaned up and gone, whatever retries,
\* budget and stale records come before it.
FencedEventuallyRemoved ==
  \A s \in Session :
    (Pending(s.client_id) /\ ensure_session(s))
      ~> ~(Present(s.client_id) /\ ensure_session(s))

\* A session past its deadline does not stay active unnoticed: the scan fences
\* it, unless a heartbeat that sampled the clock in time still revives it.
OverdueEventuallyResolved ==
  \A s \in Session :
    LET c == s.client_id
        overdue == /\ is_active(c)
                   /\ ensure_session(s)
                   /\ clock >= entries[c].expires_at
    IN  overdue ~> ~overdue

-----------------------------------------------------------------------------
(***************************************************************************)
(* Refinement: what a client sees of the registry.                         *)
(***************************************************************************)
AbstractState ==
  [c \in Client |-> CASE is_active(c) -> "Active"
                       [] Pending(c) -> "Fenced"
                       [] OTHER -> "Absent"]
AbstractGeneration == [c \in Client |-> entries[c].generation]

Lifecycle == INSTANCE SessionLifecycle
               WITH state <- AbstractState,
                    generation <- AbstractGeneration,
                    last <- next_generation - 1

\* Every behaviour of the registry is one of the session lifecycle: however
\* calls, scans, retries and drops interleave, sessions only move forward
\* through Active, Fenced and gone, with fresh generations and within
\* max_clients (ClientState, ClientSession).
RefinesLifecycle == Lifecycle!Spec
=============================================================================
