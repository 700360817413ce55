CONSTANTS
  Party = {A, B}
  Payment = {p1,p2,p3,p4}
  Token = {t1,t2}
  Handler = {h1,h2}
  MaxRefunds = 1
  MaxFaults = 1
SPECIFICATION MCSpec
INVARIANTS
  OneOfEachTypeInTurn
  MoneyIsConfirmed
PROPERTIES
  PaidUntilRefundedInTurn
  LastPaymentSaysSoInTurn
SYMMETRY Symmetry
CHECK_DEADLOCK FALSE
