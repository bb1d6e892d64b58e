CONSTANTS
  Slot = {s1}
  Segment = {g1}
  Owner = {o1}
  Reader = {r1}
  Remover = {}
  Writer = {w1}
  Finisher = {f1}
  Collector = collector
  Revoker = revoker
  NoSlot = NoSlot
  NoVersion = NoVersion
  NoOwner = NoOwner
  Free = Free
  LeaseTtl = 1
  LeaseRefresh = 1
  PendingTimeout = 2
  EmptySlotGrace = 2
  SoftPinTtl = 1
  MaxRetiredBytes = 1
  AllowEvictSoftPinned = FALSE
  RemoveForce = {FALSE}
  SoftPinAction = {"Disable"}
  HardPin = {FALSE}
  Mortal = {}
  Fenceable = {}
  MaxTick = 2
  MaxTransaction = 2
SPECIFICATION Spec
INVARIANTS
  LeaseHonoured
  RetiredOnce
  CandidateKept
