SPECIFICATION Spec
INVARIANT OwnerRecorded
PROPERTY FreshData
SYMMETRY CoreSymmetry
CONSTANTS
  c1 = c1
  c2 = c2
  c3 = c3
  la = la
  lb = lb
  ld = ld
  k1 = k1
  k2 = k2
  NoAddr = NoAddr
  NoCore = NoCore
  Cores = {c1}
  Lines = {la, lb, ld}
  Counters = {}
  Path <- FlatPath
  RootSlot <- Slot
  Ops = {"LD", "ST"}
  Barriers = {TRUE, FALSE}
  L1Ways = 2
  LLCWays = 2
  Lease = 2
  LivelockPeriod = 1
  WaiterSlots = 2
  ResumeSlots = 2
  QueueDepth = 2
  MaxOps = 4
  MaxClock = 12
