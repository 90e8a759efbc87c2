\* Signals to rename take two cycles.
CONSTANTS
  RenameWidth = 2
  DispatchWidth = 1
  RenameToIEWDelay = 1
  IEWToRenameDelay = 2
  RefillDelay = 1
  Kinds = {"other"}
  Size <- LargeQueues
SPECIFICATION Spec
INVARIANT SkidFits
