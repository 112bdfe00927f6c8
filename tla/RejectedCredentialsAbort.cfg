SPECIFICATION Spec
CONSTANTS
  MaxRetries = 2
  MaxDepth = 3
  MaxCalls = 1
  MaxKeys = 1
  Operations <- MCAll
INVARIANT
  RejectedCredentialsAbort
CHECK_DEADLOCK FALSE
