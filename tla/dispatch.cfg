\* Batches of two, dispatched one a cycle after travelling for two.
CONSTANTS
  RenameWidth = 2
  DispatchWidth = 1
  RenameToIEWDelay = 2
  IEWToRenameDelay = 1
  RefillDelay = 1
  Kinds = {"load", "nop"}
  Size <- MemoryQueues
SPECIFICATION Spec
INVARIANT SkidFits
INVARIANT RenameAgrees
INVARIANT CreditsExact
INVARIANT NoOvertaking
