SPECIFICATION FairSpec
INVARIANT TypeOK
INVARIANT StatusTellsWhatIsAwaited
INVARIANT AdvancesOnce
INVARIANT BarrierReachesMemory
INVARIANT NoAssertionFails
PROPERTY NeverHangs
PROPERTY DrainEnds
PROPERTY ImplementsCore
CONSTANTS
  Threads = {t1}
  Ops = {"alu", "barrier", "load", "store", "amo", "mgmt"}
  MaxMicro = 2
  Split = FALSE
  Faults = FALSE
  Suspends = TRUE
  Drains = TRUE
