CONSTANTS
    Leads = {l1}
    Workers = {w1, w2}
    NoLead = NoLead
    MaxCrashes = 1
    MaxFaults = 1
    MaxTakeovers = 1
SPECIFICATION Spec
SYMMETRY Symmetry
INVARIANTS
    ExclusiveDispatch
    RingOnce
    OneRecordedCall
    NeverEarly
PROPERTIES
    StatusOnlyAdvances
CHECK_DEADLOCK FALSE
