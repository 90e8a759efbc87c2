\* An in-order CPU that does every kind of access, split and faulting.
CONSTANTS
  Threads = {t1}
  Ops = {"alu", "barrier", "load", "store", "amo", "mgmt", "prefetch", "sc"}
  MaxMicro = 2
  Split = TRUE
  Faults = TRUE
  Suspends = TRUE
  Drains = TRUE
SPECIFICATION FairSpec
INVARIANT StatusTellsWhatIsAwaited
INVARIANT SplitCounted
PROPERTY NeverHangs
PROPERTY DrainEndsAfterFaults
PROPERTY StepsLikeCore
