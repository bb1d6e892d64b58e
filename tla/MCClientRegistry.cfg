CONSTANTS
  Client = {c1, c2}
  Worker = {w1, w2}
  TtlTicks = 2
  MaxClients = 2
  CleanupScanBudget = 2
  MaxTick = 3
  MaxGeneration = 4
SPECIFICATION Spec
SYMMETRY Symmetry
INVARIANTS
  TypeOK
  GuardMatchesSession
  CleanupExclusive
  CleanupNeverLost
  DeadlineCovered
  ReadyQueueExact
  OneRecordPerSession
PROPERTIES
  ExpiryIsDue
  RefinesLifecycle
