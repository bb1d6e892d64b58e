------------------------ MODULE ClientRegistryProofs ------------------------
(***************************************************************************)
(* Proofs about ClientRegistry, for every set of clients and workers and   *)
(* every configuration.                                                    *)
(***************************************************************************)
EXTENDS ClientRegistry, TLAPS

\* ClientEntry::fence makes a Ready cleanup of an active entry.
LEMMA FenceOps ==
  ASSUME NEW e \in ActiveEntry, NEW reason \in CleanupReason
  PROVE  /\ fence(e, reason) \in PendingEntry
         /\ fence(e, reason).generation = e.generation
         /\ fence(e, reason).expires_at = e.expires_at
         /\ fence(e, reason).reason = reason
         /\ fence(e, reason).claim = "Ready"
         /\ fence(e, reason).phase = "CleanupPending"
  BY Zenon DEF ActiveEntry, PendingEntry, fence, CleanupClaimState

\* ClientEntry::refresh only moves the deadline, and never back.
LEMMA RefreshOps ==
  ASSUME NEW e \in ActiveEntry, NEW now \in Tick
  PROVE  /\ refresh(e, now) \in ActiveEntry
         /\ refresh(e, now).generation = e.generation
         /\ refresh(e, now).expires_at >= e.expires_at
  <1>1. saturating_add(now, TtlTicks) \in Tick
    BY ConfigAssumption DEF saturating_add, Tick
  <1>2. e.expires_at \in Tick /\ Tick \subseteq Int
    BY DEF ActiveEntry, Tick
  <1>3. QED
    BY <1>1, <1>2 DEF ActiveEntry, refresh

\* claim_cleanup and queue_running_cleanup change the claim only.
LEMMA ClaimOps ==
  ASSUME NEW e \in PendingEntry, NEW k \in CleanupClaimState
  PROVE  LET f == [e EXCEPT !.claim = k] IN
         /\ f \in PendingEntry
         /\ f.generation = e.generation
         /\ f.expires_at = e.expires_at
         /\ f.reason = e.reason
         /\ f.phase = "CleanupPending"
         /\ f.claim = k
  BY Zenon DEF PendingEntry

\* The three shapes of an entry, told apart by their phase and claim.
LEMMA EntryShapes ==
  ASSUME NEW e \in ActiveEntry \cup PendingEntry \cup {NoEntry}
  PROVE  /\ e.phase = "Active" <=> e \in ActiveEntry
         /\ e.phase = "CleanupPending" <=> e \in PendingEntry
         /\ e # NoEntry <=> e \in ActiveEntry \/ e \in PendingEntry
         /\ e.claim \in CleanupClaimState <=> e \in PendingEntry
         /\ e # NoEntry => e.generation \in Generation
         /\ e.generation \in Nat
         /\ e = NoEntry => e.generation = 0
  BY ConfigAssumption DEF ActiveEntry, PendingEntry, NoEntry,
     CleanupClaimState, Generation

\* Elements of the retry queue are sessions.
LEMMA QueueElements ==
  ASSUME NEW q \in Seq(Session), NEW i \in 1..Len(q)
  PROVE  q[i] \in Session /\ q[i].client_id \in Client
  <1>1. q[i] \in Session
    OBVIOUS
  <1>2. QED
    BY <1>1, Zenon DEF Session

\* An empty registry satisfies the invariant.
LEMMA InitIInv == Init => IInv
  <1> SUFFICES ASSUME Init PROVE IInv
    BY Zenon
  <1>1. TypeOK
    BY ConfigAssumption DEF Init, TypeOK, Tick, Generation, NoScan, NoEntry
  <1>2. \A c \in Client : ~is_active(c) /\ ~Pending(c) /\ ~Present(c)
    BY Zenon DEF Init, is_active, Pending, Present, NoEntry
  <1>3. GuardMatchesSession
    BY <1>2, Zenon DEF Init, GuardMatchesSession
  <1>4. GenerationsUnique
    BY <1>2 DEF Init, GenerationsUnique, NoEntry
  <1>5. CleanupExclusive /\ OneRecordPerSession
    BY Zenon DEF Init, CleanupExclusive, OneRecordPerSession
  <1>6. CleanupNeverLost /\ DeadlineCovered
    BY <1>2, Zenon DEF CleanupNeverLost, DeadlineCovered
  <1>7. ReadyQueueExact /\ ScanSampleIsPast
    BY DEF Init, ReadyQueueExact, ScanSampleIsPast, NoScan
  <1>8. QED
    BY <1>1, <1>3, <1>4, <1>5, <1>6, <1>7, Zenon DEF IInv

-----------------------------------------------------------------------------
(***************************************************************************)
(* One lemma per action.                                                   *)
(***************************************************************************)

\* expire_if_due fences in place: the deadline record that covered the active
\* session covers the Ready cleanup.
LEMMA ExpireStep ==
  ASSUME IInv, NEW c \in Client, NEW now \in Now, expire_if_due(c, now)
  PROVE  IInv'
  <1> DEFINE e == mark_expired(entries[c])
  <1>1. /\ entries[c] \in ActiveEntry
        /\ \A d \in Client :
             entries[d] \in ActiveEntry \cup PendingEntry \cup {NoEntry}
    BY EntryShapes, Zenon DEF IInv, TypeOK, expire_if_due, is_active
  <1>2. /\ entries' = [entries EXCEPT ![c] = e]
        /\ entries'[c] = e
        /\ \A d \in Client : d # c => entries'[d] = entries[d]
        /\ guards' = guards \ {entries[c].generation}
        /\ UNCHANGED <<clock, deadlines, cleanup_ready, next_generation,
                       held, scan>>
    BY Zenon DEF IInv, TypeOK, expire_if_due
  <1>3. /\ e \in PendingEntry
        /\ e.generation = entries[c].generation
        /\ e.expires_at = entries[c].expires_at
        /\ e.reason = "HeartbeatExpired"
        /\ e.claim = "Ready"
        /\ e.phase = "CleanupPending"
    BY <1>1, FenceOps, Zenon DEF mark_expired, CleanupReason
  <1> HIDE DEF e
  <1>4. TypeOK'
    BY <1>1, <1>2, <1>3, Zenon DEF IInv, TypeOK
  <1>5. \A d \in Client : entries'[d].generation = entries[d].generation
    BY <1>2, <1>3, Zenon
  <1>6. GuardMatchesSession'
    BY <1>1, <1>2, <1>3, EntryShapes
    DEF IInv, GuardMatchesSession, GenerationsUnique, is_active, Present
  <1>7. GenerationsUnique'
    BY <1>1, <1>2, <1>3, <1>5, EntryShapes
    DEF IInv, GenerationsUnique, Present
  <1>8. CleanupExclusive'
    BY <1>1, <1>2, <1>3, <1>5, EntryShapes
    DEF IInv, TypeOK, CleanupExclusive, Session, CleanupClaimState, ActiveEntry
  <1>9. CleanupNeverLost'
    BY <1>1, <1>2, <1>3, <1>5
    DEF IInv, CleanupNeverLost, DeadlineCovered, Covered, Pending, is_active,
        SessionOf, ActiveEntry
  <1>10. DeadlineCovered'
    BY <1>2, <1>3, ZenonT(30) DEF IInv, DeadlineCovered, Covered, is_active
  <1>11. ReadyQueueExact'
    BY <1>1, <1>2, <1>3, <1>5
    DEF IInv, TypeOK, ReadyQueueExact, Session, ActiveEntry
  <1>12. OneRecordPerSession' /\ ScanSampleIsPast'
    BY <1>2, Zenon DEF IInv, OneRecordPerSession, ScanSampleIsPast
  <1>13. QED
    BY <1>4, <1>6, <1>7, <1>8, <1>9, <1>10, <1>11, <1>12, Zenon DEF IInv

\* refresh_live only moves the deadline of an active entry forward, so the
\* record that covered it still does.
LEMMA RefreshStep ==
  ASSUME IInv, NEW c \in Client, NEW now \in Now, refresh_live(c, now)
  PROVE  IInv'
  <1> DEFINE e == refresh(entries[c], now)
  <1>1. /\ entries[c] \in ActiveEntry
        /\ \A d \in Client :
             entries[d] \in ActiveEntry \cup PendingEntry \cup {NoEntry}
        /\ now \in Tick
    BY EntryShapes, ConfigAssumption
    DEF IInv, TypeOK, refresh_live, is_active, Now, Tick
  <1>2. /\ entries' = [entries EXCEPT ![c] = e]
        /\ entries'[c] = e
        /\ \A d \in Client : d # c => entries'[d] = entries[d]
        /\ UNCHANGED <<clock, guards, deadlines, cleanup_ready,
                       next_generation, held, scan>>
    BY Zenon DEF IInv, TypeOK, refresh_live
  <1>3. /\ e \in ActiveEntry
        /\ e.generation = entries[c].generation
        /\ e.expires_at >= entries[c].expires_at
        /\ e.phase = "Active" /\ e.claim = "None"
    BY <1>1, RefreshOps, Zenon DEF ActiveEntry
  <1> HIDE DEF e
  <1>4. TypeOK'
    BY <1>1, <1>2, <1>3, Zenon DEF IInv, TypeOK
  <1>5. /\ \A d \in Client : entries'[d].generation = entries[d].generation
        /\ \A d \in Client : entries'[d].phase = entries[d].phase
        /\ \A d \in Client : entries'[d].claim = entries[d].claim
    BY <1>1, <1>2, <1>3, Zenon DEF ActiveEntry
  <1>6. GuardMatchesSession'
    BY <1>2, <1>5 DEF IInv, GuardMatchesSession, is_active
  <1>7. GenerationsUnique'
    BY <1>1, <1>2, <1>3, <1>5, EntryShapes
    DEF IInv, GenerationsUnique, Present
  <1>8. CleanupExclusive'
    BY <1>2, <1>5 DEF IInv, TypeOK, CleanupExclusive, Session
  <1>9. CleanupNeverLost'
    BY <1>2, <1>3, <1>5
    DEF IInv, CleanupNeverLost, Covered, Pending, SessionOf
  <1>10. DeadlineCovered'
    <2> SUFFICES ASSUME NEW d \in Client, is_active(d)
                 PROVE  Covered(d)'
      BY <1>5, Zenon DEF DeadlineCovered, is_active
    <2>1. PICK r \in deadlines : /\ r.client_id = d
                                /\ r.generation = entries[d].generation
                                /\ r.expires_at <= entries[d].expires_at
      BY Zenon DEF IInv, DeadlineCovered, Covered
    <2>2. r.expires_at \in Int /\ entries[c].expires_at \in Int
          /\ e.expires_at \in Int
      BY <1>1, <1>3 DEF IInv, TypeOK, DeadlineRecord, ActiveEntry, Tick
    <2>3. QED
      BY <1>2, <1>3, <2>1, <2>2 DEF Covered
  <1>11. ReadyQueueExact'
    BY <1>2, <1>5 DEF IInv, TypeOK, ReadyQueueExact, Session
  <1>12. OneRecordPerSession' /\ ScanSampleIsPast'
    BY <1>2, Zenon DEF IInv, OneRecordPerSession, ScanSampleIsPast
  <1>13. QED
    BY <1>4, <1>6, <1>7, <1>8, <1>9, <1>10, <1>11, <1>12, Zenon DEF IInv

\* activate of an absent client: the new generation is fresh, so its guard and
\* its deadline record belong to the new session alone.
LEMMA ActivateStep ==
  ASSUME IInv, NEW c \in Client, NEW now \in Now, activate_absent(c, now)
  PROVE  IInv'
  <1> DEFINE g == next_generation
             at == saturating_add(now, TtlTicks)
             e == [phase |-> "Active", generation |-> g, reason |-> "None",
                   claim |-> "None", expires_at |-> at]
             r0 == [expires_at |-> at, client_id |-> c, generation |-> g]
  <1>1. /\ at \in Tick
        /\ g \in Generation /\ g + 1 \in Generation
    BY ConfigAssumption
    DEF IInv, TypeOK, Now, Tick, saturating_add, activate_absent, allocate_generation, Generation
  <1>2. /\ entries' = [entries EXCEPT ![c] = e]
        /\ entries'[c] = e
        /\ \A d \in Client : d # c => entries'[d] = entries[d]
        /\ entries[c] = NoEntry
        /\ guards' = guards \cup {g}
        /\ deadlines' = deadlines \cup {r0}
        /\ next_generation' = g + 1
        /\ UNCHANGED <<clock, cleanup_ready, held, scan>>
    BY Zenon DEF IInv, TypeOK, activate_absent, allocate_generation, Present
  <1>3. /\ e \in ActiveEntry /\ e.generation = g /\ e.expires_at = at
        /\ e.phase = "Active" /\ e.claim = "None"
        /\ r0 \in DeadlineRecord /\ r0.generation = g
        /\ r0.client_id = c /\ r0.expires_at = at
    BY <1>1, Zenon DEF ActiveEntry, DeadlineRecord
  <1>4. \A d \in Client : /\ entries[d].generation < g
                          /\ entries[d].generation \in Nat
    BY EntryShapes, Zenon DEF IInv, TypeOK, GenerationsUnique
  <1> HIDE DEF e, r0, at, g
  <1>5. TypeOK'
    BY <1>1, <1>2, <1>3, Zenon DEF IInv, TypeOK
  <1>6. GuardMatchesSession'
    <2> SUFFICES ASSUME NEW h \in Generation
                 PROVE  (h \in guards' <=>
                          \E d \in Client : /\ is_active(d)'
                                            /\ entries'[d].generation = h)
      BY Zenon DEF GuardMatchesSession
    <2>1. ~is_active(c)
      BY <1>2 DEF NoEntry, is_active
    <2>2. CASE h = g
      BY <2>2, <1>2, <1>3, Zenon DEF is_active
    <2>3. CASE h # g
      BY <2>1, <2>3, <1>2, <1>3 DEF IInv, GuardMatchesSession, is_active
    <2>4. QED BY <2>2, <2>3, Zenon
  <1>7. GenerationsUnique'
    <2>1. \A d \in Client : entries'[d].generation < next_generation'
      BY <1>1, <1>2, <1>3, <1>4 DEF Generation
    <2>2. \A r \in deadlines' : r.generation < next_generation'
      BY <1>1, <1>2, <1>3
      DEF IInv, TypeOK, GenerationsUnique, DeadlineRecord, Generation, g
    <2>3. QED
      BY <2>1, <2>2, <1>1, <1>2, <1>3, <1>4
      DEF IInv, GenerationsUnique, Present, Generation
  <1>8. CleanupExclusive'
    BY <1>2, <1>3 DEF IInv, TypeOK, CleanupExclusive, Session, NoEntry
  <1>9. CleanupNeverLost'
    BY <1>2, <1>3
    DEF IInv, CleanupNeverLost, Covered, Pending, SessionOf
  <1>10. DeadlineCovered'
    BY <1>1, <1>2, <1>3 DEF IInv, DeadlineCovered, Covered, is_active, Tick
  <1>11. ReadyQueueExact'
    <2>1. \A i \in 1..Len(cleanup_ready) :
            cleanup_ready[i].client_id \in Client
      BY QueueElements, Zenon DEF IInv, TypeOK
    <2>2. entries[c].claim = "None"
      BY <1>2 DEF NoEntry
    <2>3. QED
      BY <1>2, <2>1, <2>2 DEF IInv, ReadyQueueExact
  <1>14. ScanSampleIsPast'
    BY <1>2, Zenon DEF IInv, ScanSampleIsPast
  <1>12. OneRecordPerSession'
    BY <1>1, <1>2, <1>3
    DEF IInv, TypeOK, OneRecordPerSession, GenerationsUnique, Generation,
        DeadlineRecord, g
  <1>13. QED
    BY <1>5, <1>6, <1>7, <1>8, <1>9, <1>10, <1>11, <1>12, <1>14, Zenon DEF IInv

\* rollback_activation removes an active entry and its guard; its deadline
\* record stays, with a generation no entry has any more.
LEMMA RollbackStep ==
  ASSUME IInv, NEW s \in Session, rollback_activation(s)
  PROVE  IInv'
  <1> DEFINE c == s.client_id
  <1>1. /\ c \in Client /\ entries[c] \in ActiveEntry
        /\ \A d \in Client :
             entries[d] \in ActiveEntry \cup PendingEntry \cup {NoEntry}
    BY EntryShapes, Zenon
    DEF IInv, TypeOK, rollback_activation, is_active, Session
  <1>2. /\ entries' = [entries EXCEPT ![c] = NoEntry]
        /\ entries'[c] = NoEntry
        /\ \A d \in Client : d # c => entries'[d] = entries[d]
        /\ guards' = guards \ {entries[c].generation}
        /\ UNCHANGED <<clock, deadlines, cleanup_ready, next_generation,
                       held, scan>>
    BY <1>1, Zenon DEF IInv, TypeOK, rollback_activation, ensure_session
  <1>3. /\ entries[c].claim = "None" /\ entries[c].phase = "Active"
        /\ entries[c] # NoEntry
        /\ NoEntry.phase = "Absent" /\ NoEntry.generation = 0
    BY <1>1 DEF ActiveEntry, NoEntry
  <1>4. TypeOK'
    BY <1>1, <1>2, Zenon DEF IInv, TypeOK
  <1>5. GuardMatchesSession'
    BY <1>1, <1>2, <1>3, EntryShapes
    DEF IInv, GuardMatchesSession, GenerationsUnique, is_active, Present
  <1>6. GenerationsUnique'
    BY <1>1, <1>2, <1>3, ConfigAssumption
    DEF IInv, TypeOK, GenerationsUnique, Present, Generation
  <1>7. CleanupExclusive'
    BY <1>1, <1>2, <1>3 DEF IInv, TypeOK, CleanupExclusive, Session
  <1>8. CleanupNeverLost' /\ DeadlineCovered'
    BY <1>2, <1>3 DEF IInv, CleanupNeverLost, DeadlineCovered, Covered,
       Pending, is_active, SessionOf
  <1>9. ReadyQueueExact'
    <2>1. \A i \in 1..Len(cleanup_ready) :
            cleanup_ready[i].client_id \in Client
      BY QueueElements, Zenon DEF IInv, TypeOK
    <2>2. QED
      BY <1>2, <1>3, <2>1 DEF IInv, ReadyQueueExact
  <1>10. OneRecordPerSession' /\ ScanSampleIsPast'
    BY <1>2, Zenon DEF IInv, OneRecordPerSession, ScanSampleIsPast
  <1>11. QED
    BY <1>4, <1>5, <1>6, <1>7, <1>8, <1>9, <1>10, Zenon DEF IInv

\* Claiming a Ready cleanup puts it in the hands of exactly one worker.  e is
\* the entry of c, fenced in the same step if it was active (then its guard
\* goes), and the session was neither held nor queued.
LEMMA ClaimReady ==
  ASSUME IInv, NEW w \in Worker, NEW c \in Client, NEW e \in PendingEntry,
         entries[c] \in ActiveEntry \/ entries[c] = e,
         e.generation = entries[c].generation,
         e.claim = "Ready",
         entries' = [entries EXCEPT ![c] = [e EXCEPT !.claim = "Running"]],
         guards' = IF entries[c] \in ActiveEntry
                     THEN guards \ {entries[c].generation} ELSE guards,
         held' = [held EXCEPT ![w] = @ \cup {SessionOf(c)}],
         UNCHANGED <<cleanup_ready, next_generation>>,
         deadlines' \subseteq deadlines,
         \A r \in deadlines \ deadlines' : r.client_id = c
  PROVE  /\ entries' \in [Client -> ActiveEntry \cup PendingEntry \cup {NoEntry}]
         /\ held' \in [Worker -> SUBSET Session]
         /\ guards' \subseteq Generation
         /\ GuardMatchesSession' /\ GenerationsUnique' /\ CleanupExclusive'
         /\ CleanupNeverLost' /\ DeadlineCovered' /\ ReadyQueueExact'
         /\ OneRecordPerSession'
  <1> DEFINE f == [e EXCEPT !.claim = "Running"]
  <1>1. /\ \A d \in Client :
             entries[d] \in ActiveEntry \cup PendingEntry \cup {NoEntry}
        /\ entries[c] \in ActiveEntry \cup PendingEntry
    BY Zenon DEF IInv, TypeOK
  <1>2. /\ f \in PendingEntry /\ f.generation = entries[c].generation
        /\ f.claim = "Running" /\ f.phase = "CleanupPending"
    BY ClaimOps, Zenon DEF CleanupClaimState
  <1> HIDE DEF f
  <1>3. /\ entries' = [entries EXCEPT ![c] = f]
        /\ entries'[c] = f
        /\ \A d \in Client : d # c => entries'[d] = entries[d]
    BY Zenon DEF IInv, TypeOK, f
  <1>4. \A d \in Client : entries'[d].generation = entries[d].generation
    BY <1>2, <1>3, Zenon
  <1>5. entries[c].claim # "Running" /\ entries[c].claim # "Queued"
    BY Zenon DEF ActiveEntry
  <1>6. /\ SessionOf(c) \in Session
        /\ SessionOf(c).client_id = c
        /\ SessionOf(c).generation = entries[c].generation
    BY <1>1, Zenon DEF SessionOf, Session, ActiveEntry, PendingEntry
  <1>7. /\ entries' \in [Client -> ActiveEntry \cup PendingEntry \cup {NoEntry}]
        /\ held' \in [Worker -> SUBSET Session]
        /\ guards' \subseteq Generation
    BY <1>1, <1>2, <1>3, <1>6, Zenon DEF IInv, TypeOK
  <1>8. GuardMatchesSession'
    BY <1>1, <1>2, <1>3, EntryShapes
    DEF IInv, GuardMatchesSession, GenerationsUnique, is_active, Present
  <1>9. GenerationsUnique'
    BY <1>1, <1>2, <1>3, <1>4, EntryShapes
    DEF IInv, GenerationsUnique, Present
  <1>10. CleanupExclusive'
    BY <1>2, <1>3, <1>4, <1>5, <1>6
    DEF IInv, TypeOK, CleanupExclusive, Session
  <1>11. CleanupNeverLost'
    <2> SUFFICES ASSUME NEW d \in Client, Pending(d)'
                 PROVE  /\ entries'[d].claim = "Running" =>
                             \E v \in Worker : SessionOf(d)' \in held'[v]
                        /\ entries'[d].claim = "Queued" =>
                             \E i \in 1..Len(cleanup_ready') :
                               cleanup_ready'[i] = SessionOf(d)'
                        /\ entries'[d].claim = "Ready" =>
                             /\ entries'[d].reason = "HeartbeatExpired"
                             /\ Covered(d)'
      BY Zenon DEF CleanupNeverLost
    <2>1. SessionOf(d)' = SessionOf(d)
      BY <1>4, Zenon DEF SessionOf
    <2>2. CASE d = c
      BY <1>2, <1>3, <2>1, <2>2, Zenon DEF IInv, TypeOK
    <2>3. CASE d # c
      BY <1>3, <2>1, <2>3
      DEF IInv, TypeOK, CleanupNeverLost, Pending, Covered
    <2>4. QED BY <2>2, <2>3, Zenon
  <1>12. DeadlineCovered'
    <2> SUFFICES ASSUME NEW d \in Client, is_active(d)'
                 PROVE  Covered(d)'
      BY Zenon DEF DeadlineCovered
    <2>1. d # c /\ entries'[d] = entries[d]
      BY <1>2, <1>3, Zenon DEF is_active
    <2>2. Covered(d)
      BY <2>1, Zenon DEF IInv, DeadlineCovered, is_active
    <2>3. QED
      BY <2>1, <2>2, Zenon DEF Covered
  <1>13. ReadyQueueExact'
    <2>1. \A i \in 1..Len(cleanup_ready) :
            cleanup_ready[i].client_id \in Client
      BY QueueElements, Zenon DEF IInv, TypeOK
    <2>2. QED
      BY <1>3, <1>5, <2>1, ZenonT(30) DEF IInv, ReadyQueueExact
  <1>14. OneRecordPerSession'
    BY Zenon DEF IInv, OneRecordPerSession
  <1>15. QED
    BY <1>7, <1>8, <1>9, <1>10, <1>11, <1>12, <1>13, <1>14, Zenon

\* begin_drain claims what it fences, or a session that expired in place.
LEMMA DrainStep ==
  ASSUME IInv, NEW w \in Worker, NEW s \in Session, NEW reason \in DrainReason,
         begin_drain(w, s, reason)
  PROVE  IInv'
  <1> DEFINE c == s.client_id
             e == IF is_active(c) THEN fence(entries[c], reason) ELSE entries[c]
  <1>1. /\ c \in Client
        /\ entries[c] \in ActiveEntry \cup PendingEntry
        /\ is_active(c) <=> entries[c] \in ActiveEntry
        /\ s.generation = entries[c].generation
        /\ SessionOf(c) = s
    BY EntryShapes, Zenon DEF IInv, TypeOK, begin_drain, Claimable, is_active, Present,
       ensure_session, Session, SessionOf
  <1>2. /\ e \in PendingEntry
        /\ e.generation = entries[c].generation
        /\ entries[c] \in ActiveEntry \/ entries[c] = e
    BY <1>1, FenceOps, Zenon DEF DrainReason, CleanupReason
  <1>3. /\ e.claim = "Ready"
        /\ entries' = [entries EXCEPT ![c] = [e EXCEPT !.claim = "Running"]]
        /\ guards' = IF entries[c] \in ActiveEntry
                       THEN guards \ {entries[c].generation} ELSE guards
        /\ held' = [held EXCEPT ![w] = @ \cup {SessionOf(c)}]
        /\ UNCHANGED <<clock, deadlines, cleanup_ready, next_generation, scan>>
    BY <1>1, Zenon DEF begin_drain, Claimable
  <1> HIDE DEF e, c
  <1>4. /\ entries' \in [Client -> ActiveEntry \cup PendingEntry \cup {NoEntry}]
        /\ held' \in [Worker -> SUBSET Session]
        /\ guards' \subseteq Generation
        /\ GuardMatchesSession' /\ GenerationsUnique' /\ CleanupExclusive'
        /\ CleanupNeverLost' /\ DeadlineCovered' /\ ReadyQueueExact'
        /\ OneRecordPerSession'
    BY <1>1, <1>2, <1>3, ClaimReady, Zenon
  <1>5. TypeOK' /\ ScanSampleIsPast'
    BY <1>3, <1>4, Zenon DEF IInv, TypeOK, ScanSampleIsPast
  <1>6. QED
    BY <1>4, <1>5, Zenon DEF IInv

\* A scan step that spends budget keeps the scan record well formed.
LEMMA ScanBudget ==
  ASSUME TypeOK, ScanSampleIsPast, scan.on, scan.left > 0,
         scan' = [scan EXCEPT !.left = @ - 1], clock' = clock
  PROVE  scan' \in Scan /\ ScanSampleIsPast'
  <1>1. scan \in Scan
    BY DEF TypeOK, NoScan
  <1>2. scan.left \in 0..CleanupScanBudget /\ scan.left - 1 \in 0..CleanupScanBudget
    BY <1>1, ConfigAssumption DEF Scan
  <1>3. QED
    BY <1>1, <1>2, Zenon DEF Scan, ScanSampleIsPast

\* scan_ready: the head of the queue is Queued, so it is claimed, and no later
\* element of the queue is the same session.
LEMMA ScanReadyStep ==
  ASSUME IInv, scan_ready
  PROVE  IInv'
  <1> DEFINE s == Head(cleanup_ready)
             c == s.client_id
             w == scan.worker
             f == [entries[c] EXCEPT !.claim = "Running"]
             q == Tail(cleanup_ready)
  <1>1. /\ Len(cleanup_ready) \in Nat /\ Len(cleanup_ready) > 0
        /\ s = cleanup_ready[1] /\ s \in Session /\ c \in Client
        /\ q \in Seq(Session) /\ Len(q) = Len(cleanup_ready) - 1
        /\ \A i \in 1..Len(q) : q[i] = cleanup_ready[i + 1]
    <2>1. cleanup_ready \in Seq(Session) /\ cleanup_ready # <<>>
      BY Zenon DEF IInv, TypeOK, scan_ready
    <2>2. /\ Len(cleanup_ready) \in Nat /\ Len(cleanup_ready) > 0
          /\ s = cleanup_ready[1]
          /\ q \in Seq(Session) /\ Len(q) = Len(cleanup_ready) - 1
          /\ \A i \in 1..Len(q) : q[i] = cleanup_ready[i + 1]
      BY <2>1
    <2>3. QED
      BY <2>1, <2>2, QueueElements
  <1>2. /\ entries[c].generation = s.generation
        /\ entries[c].claim = "Queued"
    BY <1>1 DEF IInv, ReadyQueueExact
  <1>3. /\ \A d \in Client :
             entries[d] \in ActiveEntry \cup PendingEntry \cup {NoEntry}
        /\ entries[c] \in PendingEntry
        /\ entries[c] # NoEntry
    BY <1>1, <1>2, EntryShapes, Zenon DEF IInv, TypeOK, CleanupClaimState
  <1>4. /\ f \in PendingEntry /\ f.generation = entries[c].generation
        /\ f.claim = "Running" /\ f.phase = "CleanupPending"
    BY <1>3, ClaimOps, Zenon DEF CleanupClaimState
  <1>5. SessionOf(c) = s
    BY <1>1, <1>2, Zenon DEF SessionOf, Session
  <1>6. /\ entries' = [entries EXCEPT ![c] = f]
        /\ held' = [held EXCEPT ![w] = @ \cup {s}]
        /\ cleanup_ready' = q
        /\ UNCHANGED <<clock, guards, deadlines, next_generation>>
    BY <1>2, <1>3, <1>5, Zenon
    DEF scan_ready, ScanClaim, Present, ensure_session
  <1>7. w \in Worker /\ scan' \in Scan /\ ScanSampleIsPast'
    BY ScanBudget, Zenon DEF IInv, TypeOK, scan_ready, Scan, NoScan
  <1> HIDE DEF f, q, w, c, s
  <1>8. /\ entries'[c] = f
        /\ \A d \in Client : d # c => entries'[d] = entries[d]
        /\ \A d \in Client : entries'[d].generation = entries[d].generation
    BY <1>1, <1>4, <1>6, Zenon DEF IInv, TypeOK
  <1>9. TypeOK'
    BY <1>1, <1>3, <1>4, <1>6, <1>7, <1>8, Zenon DEF IInv, TypeOK
  <1>10. GuardMatchesSession'
    BY <1>1, <1>3, <1>4, <1>6, <1>8, EntryShapes
    DEF IInv, GuardMatchesSession, is_active
  <1>11. GenerationsUnique'
    BY <1>1, <1>3, <1>4, <1>6, <1>8, EntryShapes
    DEF IInv, GenerationsUnique, Present
  <1>12. CleanupExclusive'
    BY <1>1, <1>2, <1>4, <1>6, <1>7, <1>8, <1>5
    DEF IInv, TypeOK, CleanupExclusive, Session, SessionOf
  <1>13. CleanupNeverLost'
    <2> SUFFICES ASSUME NEW d \in Client, Pending(d)'
                 PROVE  /\ entries'[d].claim = "Running" =>
                             \E v \in Worker : SessionOf(d)' \in held'[v]
                        /\ entries'[d].claim = "Queued" =>
                             \E i \in 1..Len(cleanup_ready') :
                               cleanup_ready'[i] = SessionOf(d)'
                        /\ entries'[d].claim = "Ready" =>
                             /\ entries'[d].reason = "HeartbeatExpired"
                             /\ Covered(d)'
      BY Zenon DEF CleanupNeverLost
    <2>1. SessionOf(d)' = SessionOf(d)
      BY <1>8, Zenon DEF SessionOf
    <2>2. CASE d = c
      BY <1>4, <1>5, <1>6, <1>7, <1>8, <2>1, <2>2, Zenon DEF IInv, TypeOK
    <2>3. CASE d # c
      <3>1. Pending(d) /\ entries'[d] = entries[d]
        BY <1>8, <2>3, Zenon DEF Pending
      <3>2. ASSUME entries[d].claim = "Queued"
            PROVE  \E i \in 1..Len(q) : q[i] = SessionOf(d)
        <4>1. PICK i \in 1..Len(cleanup_ready) : cleanup_ready[i] = SessionOf(d)
          BY <3>1, <3>2, Zenon DEF IInv, CleanupNeverLost
        <4>2. SessionOf(d) # s
          BY <2>3 DEF SessionOf, c
        <4>3. i # 1 /\ i - 1 \in 1..Len(q) /\ q[i - 1] = SessionOf(d)
          BY <1>1, <4>1, <4>2
        <4>4. QED BY <4>3, Zenon
      <3>3. QED
        BY <1>6, <1>7, <2>1, <3>1, <3>2, ZenonT(30)
        DEF IInv, TypeOK, CleanupNeverLost, Covered
    <2>4. QED BY <2>2, <2>3, Zenon
  <1>14. DeadlineCovered'
    BY <1>4, <1>6, <1>8, Zenon DEF IInv, DeadlineCovered, Covered, is_active
  <1>15. ReadyQueueExact'
    <2>1. \A i \in 1..Len(q) : /\ i + 1 \in 1..Len(cleanup_ready)
                               /\ q[i] # s
                               /\ q[i] \in Session
      BY <1>1, QueueElements DEF IInv, ReadyQueueExact
    <2>2. \A i \in 1..Len(q) : q[i].client_id \in Client /\ q[i].client_id # c
      <3> TAKE i \in 1..Len(q)
      <3>1. entries[q[i].client_id].generation = q[i].generation
        BY <1>1, <2>1 DEF IInv, ReadyQueueExact
      <3>2. QED
        BY <1>1, <1>2, <2>1, <3>1 DEF Session, c
    <2>3. \A i \in 1..Len(q) :
            /\ entries[q[i].client_id].generation = q[i].generation
            /\ entries[q[i].client_id].claim = "Queued"
      BY <1>1, <2>1 DEF IInv, ReadyQueueExact
    <2>4. \A i, j \in 1..Len(q) : q[i] = q[j] => i = j
      BY <1>1, <2>1 DEF IInv, ReadyQueueExact
    <2>5. QED
      BY <1>6, <1>8, <2>2, <2>3, <2>4 DEF ReadyQueueExact
  <1>16. OneRecordPerSession'
    BY <1>6, Zenon DEF IInv, OneRecordPerSession
  <1>17. QED
    BY <1>7, <1>9, <1>10, <1>11, <1>12, <1>13, <1>14, <1>15, <1>16, Zenon DEF IInv

\* scan_deadline on a session that is due, or that expired in place: the record
\* is consumed and the session is claimed.
LEMMA ScanDeadlineClaim ==
  ASSUME IInv, NEW r \in deadlines, scan_deadline(r),
         Present(r.client_id),
         entries[r.client_id].generation = r.generation,
         \/ is_active(r.client_id) /\ scan.now >= entries[r.client_id].expires_at
         \/ /\ entries[r.client_id].reason = "HeartbeatExpired"
            /\ entries[r.client_id].claim = "Ready"
  PROVE  IInv'
  <1> DEFINE c == r.client_id
             e == IF is_active(c) THEN mark_expired(entries[c]) ELSE entries[c]
  <1>1. /\ c \in Client /\ scan \in Scan /\ scan.worker \in Worker
        /\ entries[c] \in ActiveEntry \cup PendingEntry
        /\ is_active(c) <=> entries[c] \in ActiveEntry
    <2>1. c \in Client
      BY Zenon DEF IInv, TypeOK, DeadlineRecord
    <2>2. scan \in Scan
      BY DEF IInv, TypeOK, scan_deadline, NoScan
    <2>3. scan.worker \in Worker
      BY <2>2, Zenon DEF Scan
    <2>4. QED
      BY <2>1, <2>2, <2>3, EntryShapes, Zenon DEF IInv, TypeOK, is_active, Present
  <1>2. is_active(c) => scan.now >= entries[c].expires_at
    BY <1>1, Zenon DEF ActiveEntry
  <1>3. /\ e \in PendingEntry
        /\ e.generation = entries[c].generation
        /\ entries[c] \in ActiveEntry \/ entries[c] = e
        /\ e.claim = "Ready"
    BY <1>1, FenceOps, Zenon DEF mark_expired, CleanupReason, is_active
  <1>4. entries[c].expires_at \in Int /\ scan.now \in Int
    BY <1>1 DEF Scan, Tick, ActiveEntry, PendingEntry
  <1>5. /\ entries' = [entries EXCEPT ![c] = [e EXCEPT !.claim = "Running"]]
        /\ guards' = IF entries[c] \in ActiveEntry
                       THEN guards \ {entries[c].generation} ELSE guards
        /\ held' = [held EXCEPT ![scan.worker] = @ \cup {SessionOf(c)}]
        /\ deadlines' = deadlines \ {r}
        /\ UNCHANGED <<clock, cleanup_ready, next_generation>>
    BY <1>1, <1>2, <1>4 DEF scan_deadline, ScanClaim
  <1> HIDE DEF e
  <1>6. /\ entries' \in [Client -> ActiveEntry \cup PendingEntry \cup {NoEntry}]
        /\ held' \in [Worker -> SUBSET Session]
        /\ guards' \subseteq Generation
        /\ GuardMatchesSession' /\ GenerationsUnique' /\ CleanupExclusive'
        /\ CleanupNeverLost' /\ DeadlineCovered' /\ ReadyQueueExact'
        /\ OneRecordPerSession'
    BY <1>1, <1>3, <1>5, ClaimReady, Zenon
  <1>7. scan' \in Scan /\ ScanSampleIsPast'
    BY <1>5, ScanBudget, Zenon DEF IInv, scan_deadline
  <1>8. TypeOK'
    BY <1>5, <1>6, <1>7, Zenon DEF IInv, TypeOK
  <1>9. QED
    BY <1>6, <1>7, <1>8, Zenon DEF IInv

\* scan_deadline on any other record: that of a refreshed session is replaced
\* by one for its latest deadline, and a stale one covers nothing.
LEMMA ScanDeadlineOther ==
  ASSUME IInv, NEW r \in deadlines, scan_deadline(r),
         ~ (/\ Present(r.client_id)
            /\ entries[r.client_id].generation = r.generation
            /\ \/ /\ is_active(r.client_id)
                  /\ scan.now >= entries[r.client_id].expires_at
               \/ /\ entries[r.client_id].reason = "HeartbeatExpired"
                  /\ entries[r.client_id].claim = "Ready")
  PROVE  IInv'
  <1> DEFINE c == r.client_id
             live == /\ Present(c) /\ entries[c].generation = r.generation
                     /\ is_active(c) /\ scan.now < entries[c].expires_at
             new == [r EXCEPT !.expires_at = entries[c].expires_at]
  <1>1. /\ c \in Client /\ r \in DeadlineRecord /\ scan \in Scan
        /\ \A d \in Client :
             entries[d] \in ActiveEntry \cup PendingEntry \cup {NoEntry}
    BY DEF IInv, TypeOK, scan_deadline, DeadlineRecord, NoScan
  <1>2. is_active(c) => entries[c].expires_at \in Tick
    BY <1>1, EntryShapes, Zenon DEF is_active, ActiveEntry
  <1>3. scan.now \in Int /\ Tick \subseteq Int
    BY <1>1 DEF Scan, Tick
  <1>4. /\ UNCHANGED <<clock, entries, guards, cleanup_ready,
                       next_generation, held>>
        /\ deadlines' = (deadlines \ {r}) \cup (IF live THEN {new} ELSE {})
    BY Zenon DEF scan_deadline
  <1>5. live => /\ new \in DeadlineRecord /\ new.client_id = c
                /\ new.generation = r.generation
                /\ new.expires_at = entries[c].expires_at
    BY <1>1, <1>2, Zenon DEF DeadlineRecord
  <1>6. scan' \in Scan /\ ScanSampleIsPast'
    BY <1>4, ScanBudget, Zenon DEF IInv, scan_deadline
  <1>7. TypeOK'
    BY <1>4, <1>5, <1>6, Zenon DEF IInv, TypeOK
  <1>8. ASSUME NEW d \in Client, Covered(d),
               is_active(d) \/ (/\ entries[d].claim = "Ready"
                               /\ entries[d].reason = "HeartbeatExpired")
        PROVE  Covered(d)'
    <2>1. PICK p \in deadlines : /\ p.client_id = d
                                /\ p.generation = entries[d].generation
                                /\ p.expires_at <= entries[d].expires_at
      BY <1>8, Zenon DEF Covered
    <2>2. CASE p # r
      BY <1>4, <2>1, <2>2, Zenon DEF Covered
    <2>3. CASE p = r
      <3>1. Present(d)
        BY <1>8 DEF Present, NoEntry, is_active
      <3>2. d = c /\ entries[c].generation = r.generation
        BY <2>1, <2>3, Zenon
      <3>3. is_active(c) /\ ~(scan.now >= entries[c].expires_at)
        BY <1>8, <3>1, <3>2, Zenon
      <3>8. entries[c].expires_at \in Int
        BY <1>2, <3>3 DEF Tick
      <3>4. live
        BY <1>3, <3>1, <3>2, <3>3, <3>8
      <3>5. new \in deadlines'
        BY <1>4, <3>4, Zenon
      <3>6. entries[c].expires_at <= entries[c].expires_at
        BY <3>8
      <3>7. QED
        BY <1>4, <1>5, <3>2, <3>4, <3>5, <3>6, Zenon DEF Covered
    <2>4. QED BY <2>2, <2>3, Zenon
  <1>9. CleanupNeverLost'
    BY <1>4, <1>8, Zenon DEF IInv, CleanupNeverLost, Pending, SessionOf
  <1>10. DeadlineCovered'
    BY <1>4, <1>8, Zenon DEF IInv, DeadlineCovered, is_active
  <1>11. GenerationsUnique'
    BY <1>4, <1>5, Zenon DEF IInv, GenerationsUnique, Present
  <1>12. OneRecordPerSession'
    <2>1. \A q \in deadlines' : (q \in deadlines /\ q # r) \/ (q = new /\ live)
      BY <1>4, Zenon
    <2>2. \A q \in deadlines : q # r => q.generation # r.generation
      BY Zenon DEF IInv, OneRecordPerSession
    <2>3. QED
      BY <1>5, <2>1, <2>2, ZenonT(30) DEF IInv, OneRecordPerSession
  <1>13. GuardMatchesSession' /\ CleanupExclusive' /\ ReadyQueueExact'
    BY <1>4 DEF IInv, GuardMatchesSession, CleanupExclusive, ReadyQueueExact,
       is_active
  <1>14. QED
    BY <1>6, <1>7, <1>9, <1>10, <1>11, <1>12, <1>13, Zenon DEF IInv

\* finish removes the entry of the claim; nothing else named its session.
LEMMA FinishStep ==
  ASSUME IInv, NEW w \in Worker, NEW s \in held[w], finish_cleanup(w, s)
  PROVE  IInv'
  <1> DEFINE c == s.client_id
  <1>1. /\ s \in Session /\ c \in Client
        /\ \A d \in Client :
             entries[d] \in ActiveEntry \cup PendingEntry \cup {NoEntry}
    BY DEF IInv, TypeOK, Session
  <1>2. /\ entries[c].generation = s.generation
        /\ entries[c].claim = "Running" /\ entries[c] \in PendingEntry
        /\ entries[c].phase = "CleanupPending"
    BY <1>1, EntryShapes, Zenon DEF IInv, CleanupExclusive, CleanupClaimState
  <1>3. /\ entries' = [entries EXCEPT ![c] = NoEntry]
        /\ entries'[c] = NoEntry
        /\ \A d \in Client : d # c => entries'[d] = entries[d]
        /\ held' = [held EXCEPT ![w] = @ \ {s}]
        /\ UNCHANGED <<clock, guards, deadlines, cleanup_ready,
                       next_generation, scan>>
    BY <1>1, Zenon DEF IInv, TypeOK, finish_cleanup
  <1>4. NoEntry.phase = "Absent" /\ NoEntry.generation = 0
    BY Zenon DEF NoEntry
  <1>5. TypeOK' /\ ScanSampleIsPast'
    BY <1>1, <1>3, Zenon DEF IInv, TypeOK, ScanSampleIsPast
  <1>6. GuardMatchesSession'
    BY <1>1, <1>2, <1>3, <1>4 DEF IInv, GuardMatchesSession, is_active
  <1>7. GenerationsUnique'
    BY <1>1, <1>2, <1>3, <1>4, ConfigAssumption
    DEF IInv, TypeOK, GenerationsUnique, Present, Generation
  <1>8. CleanupExclusive'
    <2>1. \A v \in Worker : \A t \in held'[v] :
            /\ t \in held[v] /\ t # s /\ t \in Session
      BY <1>3, Zenon DEF IInv, TypeOK, CleanupExclusive
    <2>2. \A v \in Worker : \A t \in held'[v] : t.client_id # c
      <3> TAKE v \in Worker
      <3> TAKE t \in held'[v]
      <3>1. entries[t.client_id].generation = t.generation
        BY <2>1, Zenon DEF IInv, CleanupExclusive
      <3>2. QED
        BY <1>1, <1>2, <2>1, <3>1 DEF Session
    <2>3. QED
      BY <1>3, <2>1, <2>2 DEF IInv, CleanupExclusive, Session
  <1>9. CleanupNeverLost'
    <2> SUFFICES ASSUME NEW d \in Client, Pending(d)'
                 PROVE  /\ entries'[d].claim = "Running" =>
                             \E v \in Worker : SessionOf(d)' \in held'[v]
                        /\ entries'[d].claim = "Queued" =>
                             \E i \in 1..Len(cleanup_ready') :
                               cleanup_ready'[i] = SessionOf(d)'
                        /\ entries'[d].claim = "Ready" =>
                             /\ entries'[d].reason = "HeartbeatExpired"
                             /\ Covered(d)'
      BY Zenon DEF CleanupNeverLost
    <2>1. d # c /\ entries'[d] = entries[d] /\ Pending(d)
      BY <1>3, <1>4, Zenon DEF Pending
    <2>2. SessionOf(d)' = SessionOf(d) /\ SessionOf(d) # s
      BY <2>1 DEF SessionOf
    <2>3. QED
      BY <1>3, <2>1, <2>2 DEF IInv, TypeOK, CleanupNeverLost, Covered
  <1>10. DeadlineCovered' /\ OneRecordPerSession'
    BY <1>3, <1>4, Zenon DEF IInv, DeadlineCovered, Covered, is_active,
       OneRecordPerSession
  <1>11. ReadyQueueExact'
    <2>1. \A i \in 1..Len(cleanup_ready) :
            cleanup_ready[i].client_id \in Client
      BY QueueElements, Zenon DEF IInv, TypeOK
    <2>2. QED
      BY <1>2, <1>3, <2>1 DEF IInv, ReadyQueueExact
  <1>12. QED
    BY <1>5, <1>6, <1>7, <1>8, <1>9, <1>10, <1>11, Zenon DEF IInv

\* Dropping an unfinished claim moves the session from the worker's hands to
\* the end of the retry queue.
LEMMA ReleaseStep ==
  ASSUME IInv, NEW w \in Worker, NEW s \in held[w], release_cleanup(w, s)
  PROVE  IInv'
  <1> DEFINE c == s.client_id
             f == [entries[c] EXCEPT !.claim = "Queued"]
             q == Append(cleanup_ready, s)
  <1>1. /\ s \in Session /\ c \in Client
        /\ \A d \in Client :
             entries[d] \in ActiveEntry \cup PendingEntry \cup {NoEntry}
    BY DEF IInv, TypeOK, Session
  <1>2. /\ entries[c].generation = s.generation
        /\ entries[c].claim = "Running" /\ entries[c] \in PendingEntry
        /\ entries[c].phase = "CleanupPending" /\ entries[c] # NoEntry
    BY <1>1, EntryShapes, Zenon DEF IInv, CleanupExclusive, CleanupClaimState
  <1>3. /\ f \in PendingEntry /\ f.generation = entries[c].generation
        /\ f.claim = "Queued" /\ f.phase = "CleanupPending"
    BY <1>2, ClaimOps, Zenon DEF CleanupClaimState
  <1>4. /\ entries' = [entries EXCEPT ![c] = f]
        /\ held' = [held EXCEPT ![w] = @ \ {s}]
        /\ cleanup_ready' = q
        /\ UNCHANGED <<clock, guards, deadlines, next_generation, scan>>
    BY <1>1, <1>2, Zenon DEF IInv, TypeOK, release_cleanup, Present, ensure_session
  <1>5. /\ Len(cleanup_ready) \in Nat
        /\ q \in Seq(Session) /\ Len(q) = Len(cleanup_ready) + 1
        /\ q[Len(cleanup_ready) + 1] = s
        /\ \A i \in 1..Len(cleanup_ready) : q[i] = cleanup_ready[i]
    <2>1. cleanup_ready \in Seq(Session)
      BY Zenon DEF IInv, TypeOK
    <2>2. QED
      BY <1>1, <2>1
  <1> HIDE DEF f, q
  <1>6. /\ entries'[c] = f
        /\ \A d \in Client : d # c => entries'[d] = entries[d]
        /\ \A d \in Client : entries'[d].generation = entries[d].generation
    BY <1>1, <1>3, <1>4, Zenon DEF IInv, TypeOK
  <1>7. TypeOK' /\ ScanSampleIsPast'
    BY <1>1, <1>3, <1>4, <1>5, <1>6, Zenon DEF IInv, TypeOK, ScanSampleIsPast
  <1>8. GuardMatchesSession'
    BY <1>1, <1>2, <1>3, <1>4, <1>6 DEF IInv, GuardMatchesSession, is_active
  <1>9. GenerationsUnique'
    BY <1>1, <1>2, <1>3, <1>4, <1>6, EntryShapes
    DEF IInv, GenerationsUnique, Present
  <1>10. CleanupExclusive'
    <2>1. \A v \in Worker : \A t \in held'[v] :
            /\ t \in held[v] /\ t # s /\ t \in Session
      BY <1>4, Zenon DEF IInv, TypeOK, CleanupExclusive
    <2>2. \A v \in Worker : \A t \in held'[v] : t.client_id # c
      <3> TAKE v \in Worker
      <3> TAKE t \in held'[v]
      <3>1. entries[t.client_id].generation = t.generation
        BY <2>1, Zenon DEF IInv, CleanupExclusive
      <3>2. QED
        BY <1>1, <1>2, <2>1, <3>1 DEF Session
    <2>3. QED
      BY <1>6, <2>1, <2>2 DEF IInv, CleanupExclusive, Session
  <1>11. CleanupNeverLost'
    <2> SUFFICES ASSUME NEW d \in Client, Pending(d)'
                 PROVE  /\ entries'[d].claim = "Running" =>
                             \E v \in Worker : SessionOf(d)' \in held'[v]
                        /\ entries'[d].claim = "Queued" =>
                             \E i \in 1..Len(cleanup_ready') :
                               cleanup_ready'[i] = SessionOf(d)'
                        /\ entries'[d].claim = "Ready" =>
                             /\ entries'[d].reason = "HeartbeatExpired"
                             /\ Covered(d)'
      BY Zenon DEF CleanupNeverLost
    <2>1. SessionOf(d)' = SessionOf(d)
      BY <1>6, Zenon DEF SessionOf
    <2>2. CASE d = c
      <3>1. SessionOf(d) = s
        BY <1>1, <1>2, <2>2, Zenon DEF SessionOf, Session
      <3>2. QED
        BY <1>3, <1>4, <1>5, <1>6, <2>1, <2>2, <3>1
    <2>3. CASE d # c
      <3>1. Pending(d) /\ entries'[d] = entries[d]
        BY <1>6, <2>3, Zenon DEF Pending
      <3>2. SessionOf(d) # s
        BY <2>3 DEF SessionOf
      <3>3. entries[d].claim = "Queued" =>
              \E i \in 1..Len(q) : q[i] = SessionOf(d)
        BY <1>5, <3>1 DEF IInv, CleanupNeverLost
      <3>4. QED
        BY <1>4, <2>1, <3>1, <3>2, <3>3, ZenonT(30)
        DEF IInv, TypeOK, CleanupNeverLost, Covered
    <2>4. QED BY <2>2, <2>3, Zenon
  <1>12. DeadlineCovered' /\ OneRecordPerSession'
    BY <1>3, <1>4, <1>6, Zenon DEF IInv, DeadlineCovered, Covered, is_active,
       OneRecordPerSession
  <1>13. ReadyQueueExact'
    <2>1. \A i \in 1..Len(cleanup_ready) :
            /\ cleanup_ready[i].client_id \in Client
            /\ cleanup_ready[i].client_id # c
      BY <1>2, QueueElements, Zenon DEF IInv, TypeOK, ReadyQueueExact
    <2>2. \A i \in 1..Len(q) :
            i \in 1..Len(cleanup_ready) \/ (i = Len(cleanup_ready) + 1 /\ q[i] = s)
      BY <1>5
    <2>3. \A i \in 1..Len(q) :
            /\ entries'[q[i].client_id].generation = q[i].generation
            /\ entries'[q[i].client_id].claim = "Queued"
      BY <1>1, <1>2, <1>3, <1>5, <1>6, <2>1, <2>2 DEF IInv, ReadyQueueExact
    <2>4. \A i, j \in 1..Len(q) : q[i] = q[j] => i = j
      BY <1>5, <2>1, <2>2 DEF IInv, ReadyQueueExact
    <2>5. QED
      BY <1>4, <2>3, <2>4, Zenon DEF ReadyQueueExact
  <1>14. QED
    BY <1>7, <1>8, <1>9, <1>10, <1>11, <1>12, <1>13, Zenon DEF IInv

\* Steps that leave the registry alone: the clock, and taking and releasing
\* the mutex around a scan.
LEMMA QuietStep ==
  ASSUME IInv,
         UNCHANGED <<entries, guards, deadlines, cleanup_ready,
                     next_generation, held>>,
         clock' \in Tick, scan' \in Scan \cup {NoScan}, ScanSampleIsPast'
  PROVE  IInv'
  <1>1. TypeOK'
    BY Zenon DEF IInv, TypeOK
  <1>2. GuardMatchesSession' /\ GenerationsUnique' /\ CleanupExclusive'
    BY ZenonT(30) DEF IInv, GuardMatchesSession, GenerationsUnique, CleanupExclusive,
       is_active, Present
  <1>3. CleanupNeverLost' /\ DeadlineCovered' /\ ReadyQueueExact'
        /\ OneRecordPerSession'
    BY ZenonT(30) DEF IInv, CleanupNeverLost, DeadlineCovered, ReadyQueueExact,
       OneRecordPerSession, Covered, is_active, Pending, SessionOf
  <1>4. QED
    BY <1>1, <1>2, <1>3, Zenon DEF IInv

\* Every call of the registry, and every iteration of a scan, preserves the
\* invariant.
LEMMA NextIInv == IInv /\ [Next]_vars => IInv'
  <1> SUFFICES ASSUME IInv, [Next]_vars PROVE IInv'
    BY Zenon
  <1>1. CASE TickClock
    <2>1. clock' \in Tick /\ ScanSampleIsPast'
      <3>1. clock \in Tick /\ clock' = clock + 1 /\ clock < MaxTick /\ scan' = scan
        BY <1>1, Zenon DEF TickClock, IInv, TypeOK
      <3>2. scan.on => scan.now \in Int
        <4>1. scan.on => scan \in Scan
          BY DEF IInv, TypeOK, NoScan
        <4>2. QED
          BY <4>1 DEF Scan, Tick
      <3>3. QED
        BY <3>1, <3>2, ConfigAssumption DEF Tick, IInv, ScanSampleIsPast
    <2>2. QED
      BY <1>1, <2>1, QuietStep, Zenon DEF TickClock, IInv, TypeOK
  <1>2. CASE \E c \in Client, now \in Now : activate(c, now) \/ heartbeat(c, now)
    BY <1>2, ExpireStep, RefreshStep, ActivateStep, Zenon DEF activate, heartbeat
  <1>3. CASE \E s \in Issued : rollback_activation(s)
    BY <1>3, RollbackStep, Zenon DEF Issued
  <1>4. CASE \E w \in Worker, s \in Issued, reason \in DrainReason :
               begin_drain(w, s, reason)
    BY <1>4, DrainStep, Zenon DEF Issued
  <1>5. CASE \E w \in Worker, now \in Now : scan_begin(w, now)
    <2>1. PICK w \in Worker, now \in Now : scan_begin(w, now)
      BY <1>5, Zenon
    <2>2. now \in Tick /\ now <= clock
      BY ConfigAssumption DEF Now, Tick, IInv, TypeOK
    <2>3. scan' \in Scan /\ ScanSampleIsPast'
      BY <2>1, <2>2, ConfigAssumption DEF scan_begin, Scan, ScanSampleIsPast
    <2>4. QED
      BY <2>1, <2>3, QuietStep, Zenon DEF scan_begin, IInv, TypeOK
  <1>6. CASE ClaimDueStep
    <2>1. CASE scan_ready
      BY <2>1, ScanReadyStep, Zenon
    <2>2. CASE \E r \in deadlines : scan_deadline(r)
      BY <2>2, ScanDeadlineClaim, ScanDeadlineOther, Zenon
    <2>3. CASE scan_end
      BY <2>3, QuietStep, Zenon DEF scan_end, NoScan, ScanSampleIsPast, IInv, TypeOK
    <2>4. QED
      BY <1>6, <2>1, <2>2, <2>3, Zenon DEF ClaimDueStep
  <1>7. CASE \E w \in Worker : \E s \in held[w] :
               finish_cleanup(w, s) \/ release_cleanup(w, s)
    BY <1>7, FinishStep, ReleaseStep, Zenon
  <1>8. CASE UNCHANGED vars
    BY <1>8, QuietStep, Zenon DEF vars, IInv, TypeOK, ScanSampleIsPast
  <1>9. QED
    BY <1>1, <1>2, <1>3, <1>4, <1>5, <1>6, <1>7, <1>8, Zenon DEF Next

-----------------------------------------------------------------------------
(***************************************************************************)
(* The theorems.                                                           *)
(***************************************************************************)

\* The registry keeps its inductive invariant in every configuration.
THEOREM RegistryInvariant == Spec => []IInv
  <1>1. QED
    BY InitIInv, NextIInv, PTL DEF Spec

\* The registry's state is always well typed (struct RegistryState).
THEOREM RegistryTyped == Spec => []TypeOK
  <1>1. IInv => TypeOK
    BY Zenon DEF IInv
  <1>2. QED
    BY <1>1, RegistryInvariant, PTL

\* A ClientSessionGuard is active exactly while its session is.
THEOREM FencingSound == Spec => []GuardMatchesSession
  <1>1. IInv => GuardMatchesSession
    BY Zenon DEF IInv
  <1>2. QED
    BY <1>1, RegistryInvariant, PTL

\* A cleanup claim is exclusive and its entry is Running until it is finished
\* or dropped.
THEOREM ClaimsExclusive == Spec => []CleanupExclusive
  <1>1. IInv => CleanupExclusive
    BY Zenon DEF IInv
  <1>2. QED
    BY <1>1, RegistryInvariant, PTL

\* No fenced session is ever forgotten: it is held, queued, or findable through
\* the deadline heap.
THEOREM NothingForgotten == Spec => [](CleanupNeverLost /\ DeadlineCovered)
  <1>1. IInv => CleanupNeverLost /\ DeadlineCovered
    BY Zenon DEF IInv
  <1>2. QED
    BY <1>1, RegistryInvariant, PTL

-----------------------------------------------------------------------------
(***************************************************************************)
(* Refinement and expiry.                                                  *)
(***************************************************************************)

\* The abstract state of a client is decided by the phase of its entry.
LEMMA AbstractShape ==
  ASSUME NEW c \in Client,
         entries[c] \in ActiveEntry \cup PendingEntry \cup {NoEntry}
  PROVE  /\ entries[c] \in ActiveEntry => AbstractState[c] = "Active"
         /\ entries[c] \in PendingEntry => AbstractState[c] = "Fenced"
         /\ entries[c] = NoEntry => AbstractState[c] = "Absent"
         /\ Present(c) <=> AbstractState[c] # "Absent"
         /\ AbstractGeneration[c] = entries[c].generation
  <1>1. /\ entries[c] \in ActiveEntry => entries[c].phase = "Active"
        /\ entries[c] \in PendingEntry => entries[c].phase = "CleanupPending"
        /\ entries[c] = NoEntry => entries[c].phase = "Absent"
    BY DEF ActiveEntry, PendingEntry, NoEntry
  <1>2. QED
    BY <1>1, Zenon DEF AbstractState, AbstractGeneration, is_active, Pending, Present,
       NoEntry

\* A step that changes one entry changes one abstract client.
LEMMA AbstractUpdate ==
  ASSUME NEW c \in Client, NEW f,
         entries \in [Client -> ActiveEntry \cup PendingEntry \cup {NoEntry}],
         entries' = [entries EXCEPT ![c] = f]
  PROVE  /\ f.phase = "Active" =>
              AbstractState' = [AbstractState EXCEPT ![c] = "Active"]
         /\ f.phase = "CleanupPending" =>
              AbstractState' = [AbstractState EXCEPT ![c] = "Fenced"]
         /\ f.phase = "Absent" =>
              AbstractState' = [AbstractState EXCEPT ![c] = "Absent"]
         /\ AbstractGeneration' =
              [AbstractGeneration EXCEPT ![c] = f.generation]
  BY Zenon DEF AbstractState, AbstractGeneration, is_active, Pending

\* An entry that is fenced, or is active and stays so, or is claimed, takes the
\* abstract client nowhere or from Active to Fenced.
LEMMA FenceOrStutter ==
  ASSUME NEW c \in Client, NEW f,
         entries \in [Client -> ActiveEntry \cup PendingEntry \cup {NoEntry}],
         entries' = [entries EXCEPT ![c] = f],
         f.generation = entries[c].generation,
         \/ entries[c] \in ActiveEntry /\ f.phase = "Active"
         \/ /\ entries[c] \in ActiveEntry \cup PendingEntry
            /\ f.phase = "CleanupPending",
         next_generation' = next_generation
  PROVE  [Lifecycle!Next]_(Lifecycle!vars)
  <1>1. entries[c] \in ActiveEntry \cup PendingEntry \cup {NoEntry}
    BY Zenon
  <1>2. /\ entries[c] \in ActiveEntry => AbstractState[c] = "Active"
        /\ entries[c] \in PendingEntry => AbstractState[c] = "Fenced"
        /\ AbstractGeneration[c] = entries[c].generation
    BY <1>1, AbstractShape, Zenon
  <1>3. /\ f.phase = "Active" =>
              AbstractState' = [AbstractState EXCEPT ![c] = "Active"]
        /\ f.phase = "CleanupPending" =>
              AbstractState' = [AbstractState EXCEPT ![c] = "Fenced"]
        /\ AbstractGeneration' =
              [AbstractGeneration EXCEPT ![c] = f.generation]
    BY AbstractUpdate, Zenon
  <1>4. AbstractGeneration' = AbstractGeneration
    BY <1>2, <1>3, Zenon DEF AbstractGeneration
  <1>5. CASE entries[c] \in ActiveEntry /\ f.phase = "Active"
    <2>1. AbstractState' = AbstractState
      BY <1>2, <1>3, <1>5, Zenon DEF AbstractState
    <2>2. QED
      BY <1>4, <2>1, Zenon DEF Lifecycle!vars
  <1>6. CASE entries[c] \in PendingEntry /\ f.phase = "CleanupPending"
    <2>1. AbstractState' = AbstractState
      BY <1>2, <1>3, <1>6, Zenon DEF AbstractState
    <2>2. QED
      BY <1>4, <2>1, Zenon DEF Lifecycle!vars
  <1>7. CASE entries[c] \in ActiveEntry /\ f.phase = "CleanupPending"
    <2>1. Lifecycle!Fence(c)
      BY <1>2, <1>3, <1>4, <1>7, Zenon DEF Lifecycle!Fence
    <2>2. QED
      BY <2>1, Zenon DEF Lifecycle!Next
  <1>8. QED
    BY <1>5, <1>6, <1>7, Zenon

\* Removing an entry is a rollback or the end of a fenced session.
LEMMA RemoveIsLeave ==
  ASSUME NEW c \in Client,
         entries \in [Client -> ActiveEntry \cup PendingEntry \cup {NoEntry}],
         entries[c] \in ActiveEntry \cup PendingEntry,
         entries' = [entries EXCEPT ![c] = NoEntry],
         next_generation' = next_generation
  PROVE  Lifecycle!Next
  <1>1. /\ entries[c] \in ActiveEntry => AbstractState[c] = "Active"
        /\ entries[c] \in PendingEntry => AbstractState[c] = "Fenced"
    BY AbstractShape, Zenon
  <1>2. NoEntry.phase = "Absent" /\ NoEntry.generation = 0
    BY Zenon DEF NoEntry
  <1>3. /\ AbstractState' = [AbstractState EXCEPT ![c] = "Absent"]
        /\ AbstractGeneration' = [AbstractGeneration EXCEPT ![c] = 0]
    BY <1>2, AbstractUpdate, Zenon
  <1>4. Lifecycle!Rollback(c) \/ Lifecycle!Close(c)
    BY <1>1, <1>3, Zenon DEF Lifecycle!Rollback, Lifecycle!Close, Lifecycle!Leave
  <1>5. QED
    BY <1>4, Zenon DEF Lifecycle!Next

\* The abstract specification counts sessions with the same Cardinality.
LEMMA SameCardinality ==
  ASSUME NEW S PROVE Lifecycle!Cardinality(S) = Cardinality(S)
  BY Zenon DEF Lifecycle!Cardinality, Cardinality

\* activate of an absent client opens an abstract session, within max_clients.
LEMMA ActivateIsOpen ==
  ASSUME IInv, NEW c \in Client, NEW now, activate_absent(c, now)
  PROVE  Lifecycle!Next
  <1>1. entries \in [Client -> ActiveEntry \cup PendingEntry \cup {NoEntry}]
    BY Zenon DEF IInv, TypeOK
  <1> DEFINE f == [phase |-> "Active", generation |-> next_generation,
                   reason |-> "None", claim |-> "None",
                   expires_at |-> saturating_add(now, TtlTicks)]
  <1>2. /\ entries' = [entries EXCEPT ![c] = f]
        /\ entries[c] = NoEntry
        /\ next_generation' = next_generation + 1
        /\ f.phase = "Active" /\ f.generation = next_generation
    BY Zenon DEF activate_absent, allocate_generation, Present
  <1> HIDE DEF f
  <1>3. /\ AbstractState[c] = "Absent"
        /\ AbstractState' = [AbstractState EXCEPT ![c] = "Active"]
        /\ AbstractGeneration' =
             [AbstractGeneration EXCEPT ![c] = next_generation]
    BY <1>1, <1>2, AbstractShape, AbstractUpdate, Zenon
  <1>4. {d \in Client : AbstractState[d] # "Absent"}
          = {d \in Client : Present(d)}
    BY <1>1, AbstractShape, Zenon
  <1>5. /\ next_generation \in Int
        /\ next_generation = (next_generation - 1) + 1
        /\ (next_generation - 1)' = (next_generation - 1) + 1
    BY <1>2 DEF IInv, TypeOK, Generation
  <1>6. Lifecycle!Cardinality({d \in Client : AbstractState[d] # "Absent"})
          < MaxClients
    BY <1>4, SameCardinality, Zenon DEF activate_absent, allocate_generation
  <1>7. Lifecycle!Open(c)
    BY <1>3, <1>5, <1>6, ZenonT(30) DEF Lifecycle!Open
  <1>8. QED
    BY <1>7, Zenon DEF Lifecycle!Next

\* Every step of the registry is an abstract step or a stutter.
LEMMA StepRefines ==
  ASSUME IInv, [Next]_vars
  PROVE  [Lifecycle!Next]_(Lifecycle!vars)
  <1>1. /\ entries \in [Client -> ActiveEntry \cup PendingEntry \cup {NoEntry}]
        /\ \A c \in Client :
             entries[c] \in ActiveEntry \cup PendingEntry \cup {NoEntry}
    BY Zenon DEF IInv, TypeOK
  <1>2. ASSUME UNCHANGED <<entries, next_generation>>
        PROVE  [Lifecycle!Next]_(Lifecycle!vars)
    BY <1>2, Zenon DEF Lifecycle!vars, AbstractState, AbstractGeneration, is_active,
       Pending
  <1>3. ASSUME NEW c \in Client, NEW now \in Now, expire_if_due(c, now)
        PROVE  [Lifecycle!Next]_(Lifecycle!vars)
    <2>1. entries[c] \in ActiveEntry
      BY <1>1, <1>3, EntryShapes, Zenon DEF expire_if_due, is_active
    <2>2. /\ mark_expired(entries[c]).phase = "CleanupPending"
          /\ mark_expired(entries[c]).generation = entries[c].generation
      BY <2>1, FenceOps, Zenon DEF mark_expired, CleanupReason
    <2>3. QED
      BY <1>1, <1>3, <2>1, <2>2, FenceOrStutter, Zenon DEF expire_if_due
  <1>4. ASSUME NEW c \in Client, NEW now \in Now, refresh_live(c, now)
        PROVE  [Lifecycle!Next]_(Lifecycle!vars)
    <2>1. entries[c] \in ActiveEntry /\ now \in Tick
      BY <1>1, <1>4, EntryShapes, ConfigAssumption
      DEF refresh_live, is_active, Now, Tick, IInv, TypeOK
    <2>2. /\ refresh(entries[c], now).phase = "Active"
          /\ refresh(entries[c], now).generation = entries[c].generation
      BY <2>1, RefreshOps, Zenon DEF ActiveEntry
    <2>3. QED
      BY <1>1, <1>4, <2>1, <2>2, FenceOrStutter, Zenon DEF refresh_live
  <1>5. CASE \E c \in Client, now \in Now : activate(c, now) \/ heartbeat(c, now)
    BY <1>5, <1>3, <1>4, ActivateIsOpen, Zenon DEF activate, heartbeat
  <1>6. CASE \E s \in Issued : rollback_activation(s)
    <2>1. PICK s \in Session : rollback_activation(s)
      BY <1>6, Zenon DEF Issued
    <2>2. s.client_id \in Client /\ entries[s.client_id] \in ActiveEntry
      BY <1>1, <2>1, EntryShapes, Zenon DEF rollback_activation, is_active, Session
    <2>3. QED
      BY <1>1, <2>1, <2>2, RemoveIsLeave, Zenon DEF rollback_activation
  <1>7. CASE \E w \in Worker, s \in Issued, reason \in DrainReason :
               begin_drain(w, s, reason)
    <2>1. PICK w \in Worker, s \in Session, reason \in DrainReason :
            begin_drain(w, s, reason)
      BY <1>7, Zenon DEF Issued
    <2> DEFINE c == s.client_id
               e == IF is_active(c) THEN fence(entries[c], reason)
                                    ELSE entries[c]
               f == [e EXCEPT !.claim = "Running"]
    <2>2. /\ c \in Client /\ entries[c] \in ActiveEntry \cup PendingEntry
          /\ is_active(c) <=> entries[c] \in ActiveEntry
      BY <1>1, <2>1, EntryShapes, Zenon DEF begin_drain, Claimable, is_active, Present, Session
    <2>3. e \in PendingEntry /\ e.generation = entries[c].generation
      BY <2>2, FenceOps, Zenon DEF DrainReason, CleanupReason
    <2>5. entries' = [entries EXCEPT ![c] = f] /\ next_generation' = next_generation
      BY <2>1, Zenon DEF begin_drain, Claimable
    <2> HIDE DEF e, c
    <2>4. f.phase = "CleanupPending" /\ f.generation = entries[c].generation
      BY <2>3, ClaimOps, Zenon DEF CleanupClaimState
    <2> HIDE DEF f
    <2>6. QED
      BY <1>1, <2>2, <2>4, <2>5, FenceOrStutter, Zenon
  <1>8. CASE scan_ready
    <2> DEFINE c == Head(cleanup_ready).client_id
               f == [entries[c] EXCEPT !.claim = "Running"]
    <2>1. CASE UNCHANGED entries
      BY <1>2, <1>8, <2>1, Zenon DEF scan_ready
    <2>2. CASE entries[c].claim = "Queued" /\ entries' = [entries EXCEPT ![c] = f]
      <3>1. Head(cleanup_ready) \in Session /\ c \in Client
        <4>1. cleanup_ready \in Seq(Session) /\ cleanup_ready # <<>>
          BY <1>8, Zenon DEF IInv, TypeOK, scan_ready
        <4>2. Head(cleanup_ready) = cleanup_ready[1] /\ 1 \in 1..Len(cleanup_ready)
          BY <4>1
        <4>3. QED
          BY <4>1, <4>2, QueueElements, Zenon
      <3>2. entries[c] \in PendingEntry
        BY <1>1, <2>2, <3>1, EntryShapes, Zenon DEF CleanupClaimState
      <3>3. f.phase = "CleanupPending" /\ f.generation = entries[c].generation
        BY <3>2, ClaimOps, Zenon DEF CleanupClaimState
      <3> HIDE DEF f, c
      <3>4. QED
        BY <1>1, <1>8, <2>2, <3>1, <3>2, <3>3, FenceOrStutter, Zenon DEF scan_ready
    <2>3. QED
      BY <1>8, <2>1, <2>2, Zenon DEF scan_ready, ScanClaim
  <1>9. CASE \E r \in deadlines : scan_deadline(r)
    <2>1. PICK r \in deadlines : scan_deadline(r)
      BY <1>9, Zenon
    <2> DEFINE c == r.client_id
    <2>2. c \in Client
      BY Zenon DEF IInv, TypeOK, DeadlineRecord
    <2>3. CASE UNCHANGED entries
      BY <1>2, <2>1, <2>3, Zenon DEF scan_deadline
    <2>4. ASSUME NEW e \in PendingEntry,
                 e.generation = entries[c].generation,
                 entries[c] \in ActiveEntry \cup PendingEntry,
                 entries' = [entries EXCEPT ![c] = [e EXCEPT !.claim = "Running"]]
          PROVE  [Lifecycle!Next]_(Lifecycle!vars)
      <3> DEFINE f == [e EXCEPT !.claim = "Running"]
      <3>1. f.phase = "CleanupPending" /\ f.generation = entries[c].generation
        BY <2>4, ClaimOps, Zenon DEF CleanupClaimState
      <3>2. entries' = [entries EXCEPT ![c] = f] /\ next_generation' = next_generation
        BY <2>1, <2>4, Zenon DEF scan_deadline
      <3> HIDE DEF f, c
      <3>3. QED
        BY <1>1, <2>2, <2>4, <3>1, <3>2, FenceOrStutter, Zenon
    <2>5. CASE /\ is_active(c)
               /\ entries' = [entries EXCEPT ![c] =
                    [mark_expired(entries[c]) EXCEPT !.claim = "Running"]]
      <3>1. entries[c] \in ActiveEntry
        BY <1>1, <2>2, <2>5, EntryShapes, Zenon DEF is_active
      <3>2. /\ mark_expired(entries[c]) \in PendingEntry
            /\ mark_expired(entries[c]).generation = entries[c].generation
        BY <3>1, FenceOps, Zenon DEF mark_expired, CleanupReason
      <3> HIDE DEF c
      <3>3. QED
        BY <2>4, <2>5, <3>1, <3>2, Zenon
    <2>6. CASE /\ entries[c].claim = "Ready"
               /\ entries' = [entries EXCEPT ![c] =
                    [entries[c] EXCEPT !.claim = "Running"]]
      <3>1. entries[c] \in PendingEntry
        BY <1>1, <2>2, <2>6, EntryShapes, Zenon DEF CleanupClaimState
      <3> HIDE DEF c
      <3>2. QED
        BY <2>4, <2>6, <3>1, Zenon
    <2>7. QED
      BY <2>1, <2>3, <2>5, <2>6, Zenon DEF scan_deadline, ScanClaim
  <1>10. CASE \E w \in Worker : \E s \in held[w] : finish_cleanup(w, s)
    <2>w. PICK w \in Worker : \E s \in held[w] : finish_cleanup(w, s)
      BY <1>10, Zenon
    <2>1. PICK s \in held[w] : finish_cleanup(w, s)
      BY <2>w, Zenon
    <2>2. s \in Session /\ s.client_id \in Client
      BY <2>1 DEF IInv, TypeOK, Session
    <2>3. entries[s.client_id] \in PendingEntry
      BY <1>1, <2>1, <2>2, EntryShapes, Zenon DEF IInv, CleanupExclusive, CleanupClaimState
    <2>4. QED
      BY <1>1, <2>1, <2>2, <2>3, RemoveIsLeave, Zenon DEF finish_cleanup
  <1>11. CASE \E w \in Worker : \E s \in held[w] : release_cleanup(w, s)
    <2>w. PICK w \in Worker : \E s \in held[w] : release_cleanup(w, s)
      BY <1>11, Zenon
    <2>1. PICK s \in held[w] : release_cleanup(w, s)
      BY <2>w, Zenon
    <2> DEFINE c == s.client_id
               f == [entries[c] EXCEPT !.claim = "Queued"]
    <2>2. s \in Session /\ c \in Client
      BY <2>1 DEF IInv, TypeOK, Session
    <2>3. entries[c] \in PendingEntry
      BY <1>1, <2>1, <2>2, EntryShapes, Zenon DEF IInv, CleanupExclusive, CleanupClaimState
    <2>4. f.phase = "CleanupPending" /\ f.generation = entries[c].generation
      BY <2>3, ClaimOps, Zenon DEF CleanupClaimState
    <2>5. CASE UNCHANGED entries
      BY <1>2, <2>1, <2>5, Zenon DEF release_cleanup
    <2>6. CASE entries' = [entries EXCEPT ![c] = f]
      <3> HIDE DEF f, c
      <3>1. QED
        BY <1>1, <2>1, <2>2, <2>3, <2>4, <2>6, FenceOrStutter, Zenon DEF release_cleanup
    <2>7. QED
      BY <1>1, <2>1, <2>2, <2>5, <2>6, Zenon DEF release_cleanup
  <1>12. CASE \/ TickClock
              \/ \E w \in Worker, now \in Now : scan_begin(w, now)
              \/ scan_end
              \/ UNCHANGED vars
    BY <1>2, <1>12, Zenon DEF TickClock, scan_begin, scan_end, vars
  <1>13. QED
    BY <1>5, <1>6, <1>7, <1>8, <1>9, <1>10, <1>11, <1>12, Zenon DEF Next, ClaimDueStep

\* The registry implements the session lifecycle.
THEOREM RegistryRefines == Spec => RefinesLifecycle
  <1>1. Init => Lifecycle!Init
    BY DEF Init, Lifecycle!Init, AbstractState, AbstractGeneration, NoEntry,
       is_active, Pending
  <1>2. IInv /\ [Next]_vars => [Lifecycle!Next]_(Lifecycle!vars)
    BY StepRefines, Zenon
  <1>3. QED
    BY <1>1, <1>2, RegistryInvariant, PTL DEF Spec, RefinesLifecycle, Lifecycle!Spec

\* A step expires an active session only at or after its deadline.
LEMMA ExpiryStep ==
  ASSUME IInv, [Next]_vars, NEW c \in Client, is_active(c),
         entries'[c].reason = "HeartbeatExpired"
  PROVE  clock >= entries[c].expires_at
  <1>1. /\ entries \in [Client -> ActiveEntry \cup PendingEntry \cup {NoEntry}]
        /\ entries[c] \in ActiveEntry
        /\ entries[c].reason = "None" /\ entries[c].claim = "None"
        /\ entries[c].expires_at \in Int
        /\ clock \in Int
        /\ entries'[c] # entries[c]
    <2>1. entries \in [Client -> ActiveEntry \cup PendingEntry \cup {NoEntry}]
      BY Zenon DEF IInv, TypeOK
    <2>2. entries[c] \in ActiveEntry
      BY <2>1, EntryShapes, Zenon DEF is_active
    <2>3. QED
      BY <2>1, <2>2 DEF ActiveEntry, Tick, IInv, TypeOK
  <1>2. ASSUME NEW d \in Client, NEW now \in Now, expire_if_due(d, now)
        PROVE  clock >= entries[c].expires_at
    BY <1>1, <1>2 DEF expire_if_due, Now
  <1>3. ASSUME NEW d \in Client, NEW now \in Now, refresh_live(d, now)
        PROVE  FALSE
    <2>1. refresh(entries[c], now).reason = "None"
      BY <1>1, Zenon DEF refresh, ActiveEntry
    <2>2. QED
      BY <1>1, <1>3, <2>1, Zenon DEF refresh_live
  <1>4. ASSUME NEW d \in Client, NEW now \in Now, activate_absent(d, now)
        PROVE  FALSE
    BY <1>1, <1>4, Zenon DEF activate_absent, allocate_generation, Present
  <1>5. ASSUME NEW s \in Session, rollback_activation(s)
        PROVE  FALSE
    BY <1>1, <1>5, Zenon DEF rollback_activation, NoEntry
  <1>6. ASSUME NEW w \in Worker, NEW s \in Session, NEW reason \in DrainReason,
               begin_drain(w, s, reason)
        PROVE  FALSE
    <2>1. s.client_id = c
      BY <1>1, <1>6, Zenon DEF begin_drain, Claimable
    <2>2. /\ fence(entries[c], reason) \in PendingEntry
          /\ fence(entries[c], reason).reason = reason
      BY <1>1, FenceOps, Zenon DEF DrainReason, CleanupReason
    <2>3. [fence(entries[c], reason) EXCEPT !.claim = "Running"].reason = reason
      BY <2>2, ClaimOps, Zenon DEF CleanupClaimState
    <2>4. entries'[c] = [fence(entries[c], reason) EXCEPT !.claim = "Running"]
      BY <1>1, <1>6, <2>1, Zenon DEF begin_drain, Claimable
    <2>5. QED
      BY <2>3, <2>4, Zenon DEF DrainReason
  <1>7. ASSUME scan_ready
        PROVE  FALSE
    BY <1>1, <1>7, Zenon DEF scan_ready, ScanClaim
  <1>8. ASSUME NEW r \in deadlines, scan_deadline(r)
        PROVE  clock >= entries[c].expires_at
    <2>1. scan \in Scan /\ scan.now \in Int /\ scan.now <= clock
      <3>1. scan \in Scan /\ scan.on
        BY <1>8 DEF scan_deadline, IInv, TypeOK, NoScan
      <3>2. scan.now \in Int
        BY <3>1 DEF Scan, Tick
      <3>3. scan.now <= clock
        BY <3>1, Zenon DEF IInv, ScanSampleIsPast
      <3>4. QED
        BY <3>1, <3>2, <3>3, Zenon
    <2>2. scan.now >= entries[c].expires_at
      BY <1>1, <1>8, Zenon DEF scan_deadline, ScanClaim
    <2>3. QED
      BY <1>1, <2>1, <2>2
  <1>9. ASSUME NEW w \in Worker, NEW s \in held[w], finish_cleanup(w, s)
        PROVE  FALSE
    BY <1>1, <1>9, Zenon DEF finish_cleanup, NoEntry
  <1>10. ASSUME NEW w \in Worker, NEW s \in held[w], release_cleanup(w, s)
        PROVE  FALSE
    BY <1>1, <1>10, Zenon DEF release_cleanup
  <1>11. ASSUME \/ TickClock
                \/ \E w \in Worker, now \in Now : scan_begin(w, now)
                \/ scan_end
                \/ UNCHANGED vars
         PROVE  FALSE
    BY <1>1, <1>11, Zenon DEF TickClock, scan_begin, scan_end, vars
  <1>12. QED
    BY <1>2, <1>3, <1>4, <1>5, <1>6, <1>7, <1>8, <1>9, <1>10, <1>11, Zenon
    DEF Next, ClaimDueStep, activate, heartbeat, Issued

\* No session is expired early, however stale its callers' clock samples are.
THEOREM NoEarlyExpiry == Spec => ExpiryIsDue
  <1>1. IInv /\ [Next]_vars =>
          [\A c \in Client :
             is_active(c) /\ entries'[c].reason = "HeartbeatExpired"
               => clock >= entries[c].expires_at]_vars
    BY ExpiryStep, Zenon
  <1>2. QED
    BY <1>1, RegistryInvariant, PTL DEF Spec, ExpiryIsDue
=============================================================================
