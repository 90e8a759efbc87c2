SPECIFICATION Spec
INVARIANT FlushFindsOwner
SYMMETRY CoreSymmetry
CHECK_DEADLOCK FALSE
CONSTANTS
  c1 = c1
  c2 = c2
  c3 = c3
  la = la
  lb = lb
  ld = ld
  k1 = k1
  k2 = k2
  NoAddr = NoAddr
  NoCore = NoCore
  Cores = {c1, c2}
  Lines = {la}
  Counters = {k1}
  Path <- OnePath
  RootSlot <- Slot
  Ops = {"LD", "ST"}
  Barriers = {FALSE}
  L1Ways = 1
  LLCWays = 2
  Lease = 2
  LivelockPeriod = 2
  WaiterSlots = 2
  ResumeSlots = 2
  QueueDepth = 1
  MaxOps = 3
  MaxClock = 12
