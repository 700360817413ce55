CONSTANTS
  Party = {A, B}
  Payment = {p1,p2}
  Token = {t1,t2,t3}
  Handler = {h1,h2}
  MaxRefunds = 2
  MaxFaults = 0
SPECIFICATION CompensationSpec
INVARIANT RefundsCovered
SYMMETRY Symmetry
CHECK_DEADLOCK FALSE
