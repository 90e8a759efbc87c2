\* Every program of three instructions, executed in every order the queue allows.
CONSTANTS
  N = 3
  Kinds = {"branch", "load", "store", "fence"}
  IssueWidth = 3
  WbWidth = 2
  Depth = 4
SPECIFICATION Spec
INVARIANT SquashExact
INVARIANT WokenBeforeCommit
INVARIANT OneMarkPerBarrier
