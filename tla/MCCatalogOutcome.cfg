CONSTANTS
  Slot = {s1}
  Segment = {g1}
  Owner = {o1, o2}
  Reader = {}
  Remover = {}
  Writer = {w1}
  Finisher = {f1}
  Collector = collector
  Revoker = revoker
  NoSlot = NoSlot
  NoVersion = NoVersion
  NoOwner = NoOwner
  Free = Free
  LeaseTtl = 1
  LeaseRefresh = 1
  PendingTimeout = 1
  EmptySlotGrace = 1
  SoftPinTtl = 1
  MaxRetiredBytes = 9
  AllowEvictSoftPinned = FALSE
  RemoveForce = {FALSE}
  SoftPinAction = {"Disable"}
  HardPin = {FALSE}
  Mortal = {}
  Fenceable = {o1}
  MaxTick = 2
  MaxTransaction = 2
SPECIFICATION Spec
INVARIANTS
  RetiredOnce
  CountersExact
  PendingIsCovered
PROPERTIES
  WriteEndsForCause
