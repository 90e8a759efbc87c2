\* The queues empty in the end.
CONSTANTS
  RenameWidth = 2
  DispatchWidth = 1
  RenameToIEWDelay = 1
  IEWToRenameDelay = 1
  RefillDelay = 1
  Kinds = {"store"}
  Size <- SmallQueues
SPECIFICATION FairSpec
PROPERTY SkidEmptied
PROPERTY RenameReleased
PROPERTY DrainEnds
