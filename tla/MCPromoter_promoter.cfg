CONSTANTS
  Leads = {l1, l2}
  p1 = p1  p2 = p2
  Pods = {p1, p2}
  NoPod = NoPod  Gone = Gone
  Ahead <- OneAhead
  Scale = 1  Batch = 1
  Dues = {1}
  MaxTime = 1  MaxAdds = 3  MaxStops = 1  MaxFaults = 1
SPECIFICATION FairSpec
INVARIANTS OneLeader
PROPERTIES ReadyIsFifo LeaseIsKept LeadsPromoted
CHECK_DEADLOCK FALSE
