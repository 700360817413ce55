CONSTANTS
  Party = {A, B}
  Handler = {h1}
  MaxFaults = 1
SPECIFICATION DeliverySpec
 
PROPERTIES
  DeliveredIsSettled
  TransitEnds
  SimulatedArrives
CHECK_DEADLOCK FALSE
