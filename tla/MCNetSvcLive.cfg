CONSTANTS
  QLen = 1
  Nets = {n1}
  None = None
  Wrong = Wrong
  MaxOps = 2
  MaxTrouble = 1
SPECIFICATION FairSpec
PROPERTIES ComesUp StaysOff
