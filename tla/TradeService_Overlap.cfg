CONSTANTS
  Party = {A, B}
  Handler = {h1, h2}
  MaxFaults = 0
SPECIFICATION OverlapSpec
INVARIANTS
  AntiScamGate
  PaymentGate
  CenterGate
  OutcomeAnnounced
SYMMETRY Symmetry
CHECK_DEADLOCK FALSE
