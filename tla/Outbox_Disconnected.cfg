CONSTANTS
  Third = e3
  Event = {e1, e2}
  Poll = {p1}
  Batch = 1
  MaxDbFaults = 0
  MaxCrashes = 0
  MaxDisconnects = 1
SPECIFICATION FairSpec
PROPERTY CommittedIsPublished
CHECK_DEADLOCK FALSE
