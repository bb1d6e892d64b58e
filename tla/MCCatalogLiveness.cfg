CONSTANTS
  Slot = {s1}
  Segment = {g1, g2}
  Owner = {o1}
  Reader = {}
  Remover = {}
  Writer = {w1}
  Finisher = {f1}
  Collector = collector
  Revoker = revoker
  NoSlot = NoSlot
  NoVersion = NoVersion
  NoOwner = NoOwner
  Free = Free
  LeaseTtl = 1
  LeaseRefresh = 1
  PendingTimeout = 1
  EmptySlotGrace = 1
  SoftPinTtl = 1
  MaxRetiredBytes = 9
  AllowEvictSoftPinned = FALSE
  RemoveForce = {FALSE}
  SoftPinAction = {"Disable"}
  HardPin = {FALSE}
  Mortal = {g1, g2}
  Fenceable = {}
  MaxTick = 1
  MaxTransaction = 2
SPECIFICATION Spec
SYMMETRY Symmetry
INVARIANTS
  StaleIsCovered
  BaseStaysCommitted
  CountersExact
