SPECIFICATION FairSpec
CONSTANTS
  Nonces <- MCNonces
  Gtks <- MCGtks
  Cap = 2
  ApTries = 2
  MaxTrouble = 2
  MaxRekeys = 2
INVARIANTS TypeOK KeyShared GroupAgrees
PROPERTIES JoinReturns Connected
