SPECIFICATION FairSpec
CONSTANTS
    RxN = 3
    MaxFrames = 8
    MaxErrors = 2
    MaxOpens = 2
    StartRace = FALSE
INVARIANTS NextFilled RingNeverEnds
PROPERTIES IsQueue Drains
