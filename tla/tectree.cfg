SPECIFICATION Spec
INVARIANT OnLevel
INVARIANT WholeBranch
INVARIANT RootSlotOfBranch
CONSTANTS
  Arity = 15
  Data <- Leaves
