\* Three sets of two ways, the third one out of the index's reach; three lines
\* compete for the first set, with transactions and locks.
CONSTANTS
  NumSets = 3
  SetSpan = 2
  Assoc = 2
  Lines = {0, 2, 4}
  Contexts = {c1, c2}
  Perms = {"Invalid", "Read_Write"}
  Htm = TRUE
SPECIFICATION Spec
INVARIANT TagIndexExact
INVARIANT CheckpointComplete
PROPERTY ImplementsLineStore
