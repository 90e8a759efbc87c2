\* A TLBI sync meets a split access.
CONSTANTS
  Slots = {e1}
  Kinds = {"split"}
  LoadPorts = 2
  StorePorts = 1
  Syncs = TRUE
SPECIFICATION Spec
INVARIANT SyncCoversAll
