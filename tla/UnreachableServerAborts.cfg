SPECIFICATION Spec
CONSTANTS
  MaxRetries = 2
  MaxDepth = 3
  MaxCalls = 1
  MaxKeys = 1
  Operations <- MCAll
INVARIANT
  UnreachableServerAborts
CHECK_DEADLOCK FALSE
