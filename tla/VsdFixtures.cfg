CONSTANTS
  L2Templates = {t1}
  L2Domains = {d1}
  L3Templates = {m1}
  L3Domains = {l1}
  Zones = {z1}
  Subnets = {s1}
  SharedDomains = {x1}
  NoParent = NoParent
  Nothing = Nothing
  Retries = 2
SPECIFICATION FairSpec
CHECK_DEADLOCK FALSE
INVARIANTS
  TypeOK
  DeleteIsTrue
  TeardownIsClean
  NothingLeftSilently
PROPERTIES
  CleanupEnds
  DeleteEnds
