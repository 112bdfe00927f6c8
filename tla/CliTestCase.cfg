CONSTANTS
  MaxMade = 3
  MaxTests = 2
  Made = {"l2bridge", "network", "subnet4", "subnet6", "router", "port", "floating_ip", "netpartition"}
SPECIFICATION Spec
CHECK_DEADLOCK FALSE
INVARIANTS
  CleanMeansGone
  TidyIsClean
  PrintedIsRead
