CONSTANTS
  QLen = 2
  Nets = {n1, n2}
  None = None
  Wrong = Wrong
  MaxOps = 3
  MaxTrouble = 1
SPECIFICATION Spec
SYMMETRY Symmetry
INVARIANTS TypeOK LinkFollowsConfig FrameOnItsNetwork ListIsQuiet
