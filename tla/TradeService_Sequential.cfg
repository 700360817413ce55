CONSTANTS
  Party = {A, B}
  Handler = {h1}
  MaxFaults = 1
SPECIFICATION InTurnSpec
INVARIANT OneOutcome
 
SYMMETRY Symmetry
