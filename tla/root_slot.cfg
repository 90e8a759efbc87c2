SPECIFICATION Spec
INVARIANT RootSlotOfBranch
CONSTANTS
  Arity = 31
  Data <- Leaves
