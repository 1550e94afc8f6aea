CONSTANTS
    Leads = {l1}
    Workers = {w1, w2}
    NoLead = NoLead
    MaxCrashes = 1
    MaxFaults = 1
    MaxTakeovers = 0
SPECIFICATION FairSpec
PROPERTIES
    BacklogServed
    ImplementsLifecycle
    FinishedDrains
CHECK_DEADLOCK FALSE
