CONSTANTS
  Slot = {s1, s2}
  Segment = {g1}
  Owner = {o1, o2}
  Reader = {}
  Remover = {}
  Writer = {w1, w2}
  Finisher = {}
  Collector = collector
  Revoker = revoker
  NoSlot = NoSlot
  NoVersion = NoVersion
  NoOwner = NoOwner
  Free = Free
  LeaseTtl = 1
  LeaseRefresh = 1
  PendingTimeout = 1
  EmptySlotGrace = 0
  SoftPinTtl = 1
  MaxRetiredBytes = 9
  AllowEvictSoftPinned = FALSE
  RemoveForce = {FALSE}
  SoftPinAction = {"Disable"}
  HardPin = {FALSE}
  Mortal = {g1}
  Fenceable = {o1}
  MaxTick = 1
  MaxTransaction = 2
SPECIFICATION Spec
SYMMETRY Symmetry
INVARIANTS
  InUseIsIndexed
  EmptyIsCovered
PROPERTIES
  WriteEndsForCause
