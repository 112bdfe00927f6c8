CONSTANTS
  ServerIds = {v1}
  NoServer = NoServer
  Timeout = 1
SPECIFICATION Spec
CHECK_DEADLOCK FALSE
INVARIANT AutoCleanup
