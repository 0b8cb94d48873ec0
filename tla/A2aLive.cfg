SPECIFICATION FairSpec
CONSTANTS
  p1 = p1
  p2 = p2
  o1 = o1
  o2 = o2
  Parents = {p1, p2}
  Ops = {o1, o2}
  Keys <- ThreeKeys
  MaxRuns = 1
  RequestCapacity = 1
  CommandCapacity = 1
  EventCapacity = 1
  Reliable = TRUE
CHECK_DEADLOCK FALSE
INVARIANTS
  CancelledOnRequest
PROPERTIES
  EndIsNoticed
  LoopKeepsTurning
