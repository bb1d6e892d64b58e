CONSTANTS
  Client = {c1, c2}
  Worker = {w1}
  TtlTicks = 1
  MaxClients = 2
  CleanupScanBudget = 1
  MaxTick = 2
  MaxGeneration = 3
SPECIFICATION FairSpec
PROPERTIES
  FencedEventuallyRemoved
  OverdueEventuallyResolved
