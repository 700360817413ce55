CONSTANTS
  Third = e3
  Event = {e1, e2, e3}
  Poll = {p1, p2}
  Batch = 2
  MaxDbFaults = 1
  MaxCrashes = 1
  MaxDisconnects = 1
SPECIFICATION MCSpec
INVARIANT CausalOrder
PROPERTIES
  RelaySafety
  PublishedWhileConnected
CHECK_DEADLOCK FALSE
