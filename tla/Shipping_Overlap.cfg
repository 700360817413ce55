CONSTANTS
  A = "A"
  B = "B"
  Worker = {w1, w2}
  Admin = {m1, m2}
  MaxCopies = 2
  MaxFaults = 2
SPECIFICATION MCSpec
INVARIANTS
  ReleaseNeedsApprovals
  DeliveredTradeArrived
SYMMETRY Symmetry
CHECK_DEADLOCK FALSE
