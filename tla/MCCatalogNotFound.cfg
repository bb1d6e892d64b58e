CONSTANTS
  Slot = {s1}
  Segment = {g1}
  Owner = {o1}
  Reader = {r1}
  Remover = {m1}
  Writer = {w1}
  Finisher = {f1}
  Collector = collector
  Revoker = revoker
  NoSlot = NoSlot
  NoVersion = NoVersion
  NoOwner = NoOwner
  Free = Free
  LeaseTtl = 1
  LeaseRefresh = 1
  PendingTimeout = 1
  EmptySlotGrace = 0
  SoftPinTtl = 1
  MaxRetiredBytes = 9
  AllowEvictSoftPinned = FALSE
  RemoveForce = {FALSE}
  SoftPinAction = {"Disable"}
  HardPin = {FALSE}
  Mortal = {}
  Fenceable = {}
  MaxTick = 1
  MaxTransaction = 1
SPECIFICATION Spec
PROPERTIES
  NotFoundIsTrue
