\* Every request may be over, and the controller idle for ever.
CONSTANTS
  Lines = {1, 2}
  Requests = {1, 2, 3, 4, 5}
  LineOf <- MCLineOf
  IsRead <- MCIsRead
SPECIFICATION DMAFairSpec
INVARIANT OneTransactionPerLine
PROPERTY AllServed
CHECK_DEADLOCK FALSE
