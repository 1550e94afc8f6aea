CONSTANTS
    Messages = {m1}
    Dispatchers = {d1, d2}
    NoMessage = NoMessage
    Batch = 1
    MaxAttempts = 2
    MaxFaults = 2
    MaxOverruns = 1
    MaxLetters = 2
SPECIFICATION FairSpec
INVARIANTS
    NoNeedlessCopy
    StatusIsHighestMark
    NoReceiptLost
PROPERTIES
    ImplementsLedger
    EveryMessageSettles
