CONSTANTS
  MaxPlugs = 2
  MaxGen = 4
  Hub = FALSE
  Clients = {"host", "app"}
SPECIFICATION FairSpec
PROPERTIES PullNoticed ComesBack
INVARIANTS TypeOK HostOneStick StreamOneStick WriteOnChecked
