CONSTANTS
    Outbound = {o1}
    Inbound = {}
    Handlers = {h1}
    Nothing = Nothing
    Maximum = 2
    Reconciling = TRUE
    Timely = FALSE
    MaxDuplicates = 1
    MaxFaults = 1
SPECIFICATION FairSpec
PROPERTIES
    TokensHeal
    ProcessingEnds
CHECK_DEADLOCK FALSE
