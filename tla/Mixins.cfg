CONSTANTS
  Copies = 2
  MaxMade = 2
  Givens = {{}, {"network", "subnet", "router", "port", "bgpvpn", "security_group"}, {"network", "subnet", "router", "vpnservice", "ikepolicy", "ipsecpolicy", "fw_rule", "port", "trunk"}}
  Timeout = 1
SPECIFICATION Spec
CHECK_DEADLOCK FALSE
INVARIANTS
  TypeOK
  NothingLeftSilently
  TidyIsClean
PROPERTIES
  CleanupEnds
