SPECIFICATION Spec
CONSTANTS
  p1 = p1
  p2 = p2
  o1 = o1
  o2 = o2
  Parents = {p1}
  Ops = {o1, o2}
  Keys <- TwoKeys
  MaxRuns = 1
  RequestCapacity = 1
  CommandCapacity = 1
  EventCapacity = 1
  Reliable = FALSE
CHECK_DEADLOCK FALSE
INVARIANTS OutcomesAreReal OneRunPerOperation
PROPERTIES TerminalIsFinal
