SPECIFICATION Spec
CONSTANTS
  MaxRetries = 2
  MaxDepth = 2
  MaxCalls = 2
  MaxKeys = 2
  Operations <- MCWrites
INVARIANTS
  TypeOK
  RepeatedOnlyAfterLoss
  TruthfulResult
  SecondRoundHasNewKey
  ReauthenticationIsInvisible
PROPERTIES
  ImplementsService
  EveryCallReturns
CHECK_DEADLOCK FALSE
