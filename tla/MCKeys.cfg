SPECIFICATION FairSpec
CONSTANTS
    Buttons = {"OK", "POWER", "DOWN", "BACK", "MENU"}
    Hold = 3
    Delay = 4
    SaverTime = 8
    Blink = 3
    Settle = 3
    MaxLoad = 3
INVARIANTS ActsOnce WakingKeySwallowed BlackOnlyWhenIdle
PROPERTY SaverComesOn
CHECK_DEADLOCK FALSE
