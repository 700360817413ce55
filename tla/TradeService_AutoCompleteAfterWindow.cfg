CONSTANTS
  Party = {A, B}
  Handler = {h1}
  MaxFaults = 0
SPECIFICATION Spec
PROPERTY AutoCompleteAfterWindow
SYMMETRY Symmetry
