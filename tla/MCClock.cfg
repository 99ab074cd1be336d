SPECIFICATION Spec
CONSTANTS
    M = 26
    MsMod = 3
    Period = 3
    Jiffy = 3
    MaxOff = 2
    MaxLegacy = 13
INVARIANTS TickSoon KeepsTime
