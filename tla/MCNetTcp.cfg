SPECIFICATION FairSpec
CONSTANTS
    SeqMod = 16
    Isn = 14
    PeerIsn = 13
    MSS = 2
    ReqLen = 3
    RespLen = 3
    SynTries = 2
    WriteTries = 2
    UpCap = 1
    DownCap = 2
    MayReset = TRUE
INVARIANTS StreamInOrder AckedIsDelivered WrittenIsReceived ClosedIsComplete FinAfterData
PROPERTY Returns
CHECK_DEADLOCK FALSE
