CONSTANTS
  A = "A"
  B = "B"
  Worker = {w1}
  Admin = {m1}
  MaxCopies = 2
  MaxFaults = 0
SPECIFICATION MCSpec
INVARIANT ReturnsFollowRejection
SYMMETRY Symmetry
CHECK_DEADLOCK FALSE
