\* A barrier, a store and a load.
CONSTANTS
  N = 3
  Kinds = {"load", "store", "fence"}
  IssueWidth = 1
  WbWidth = 1
  Depth = 6
SPECIFICATION Spec
INVARIANT BarrierReachesMemory
