CONSTANTS
  Networks = {n1}
  Subnets = {s1}
  Ports = {p1}
  Routers = {r1}
  Fips = {f1}
  Timeout = 1
  Cidrs = 1
SPECIFICATION FairSpec
CHECK_DEADLOCK FALSE
INVARIANTS
  TypeOK
  TeardownIsClean
  NothingLeftSilently
  BodySeesServedSubnets
PROPERTIES
 WaitEnds
 TeardownEnds
