CONSTANTS
  Gateways = {g1, g2}
  GwPorts = {p1}
  Groups = {r1}
  GwVlans = {v1}
  GwVports = {w1}
SPECIFICATION FairSpec
CHECK_DEADLOCK FALSE
INVARIANTS
  TypeOK
  NothingLeftSilently
  FailuresAreContained
  TidyIsClean
PROPERTIES
  CleanupEnds
