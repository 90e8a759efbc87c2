\* Two entries; accesses of every class share one load port and one store port,
\* and a TLBI sync arrives.
CONSTANTS
  Slots = {e1, e2}
  Kinds = {"single", "split", "direct", "masked"}
  LoadPorts = 1
  StorePorts = 1
  Syncs = TRUE
SYMMETRY SlotSymmetry
SPECIFICATION Spec
INVARIANT NoUseAfterFree
INVARIANT CountersExact
INVARIANT FragmentsSentOnce
INVARIANT WholeAccess
INVARIANT BlockedLoadsWoken
INVARIANT SyncCoversUnsplit
PROPERTY StepsLikeLifetime
