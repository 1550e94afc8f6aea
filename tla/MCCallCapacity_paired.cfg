CONSTANTS
    Outbound = {o1, o2}
    Inbound = {i1}
    Handlers = {h1, h2}
    Nothing = Nothing
    Maximum = 2
    Reconciling = FALSE
    Timely = TRUE
    MaxDuplicates = 0
    MaxFaults = 1
SPECIFICATION Spec
SYMMETRY Symmetry
INVARIANTS
    OneFaultOneChannel
    LiveCallsFit
    TokenHasLine
    RetriedOnce
CHECK_DEADLOCK FALSE
