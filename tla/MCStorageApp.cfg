CONSTANTS
  MaxPlugs = 2
  MaxGen = 3
  Hub = FALSE
  Clients = {"host", "app"}
SPECIFICATION Spec
INVARIANT AppOneStick
