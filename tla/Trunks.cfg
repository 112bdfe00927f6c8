CONSTANTS
  ServerIds = {v1, v2}
  Timeout = 1
  NoServer = NoServer
SPECIFICATION TrunksFairSpec
CHECK_DEADLOCK FALSE
INVARIANTS
  TypeOK
  HeldWasDeployed
  NoOrphan
  NothingForgotten
  TrunkLeftIsReported
  TrunkGoes
PROPERTIES
  WaitEnds
  TeardownEnds
