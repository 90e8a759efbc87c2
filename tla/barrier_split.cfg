SPECIFICATION Spec
INVARIANT BarrierReachesMemory
CONSTANTS
  Threads = {t1}
  Ops = {"alu","barrier","load","store"}
  MaxMicro = 1
  Split = TRUE
  Faults = FALSE
  Suspends = FALSE
  Drains = FALSE
