SPECIFICATION FairSpec
CONSTANTS
  a1 = a1
  o1 = o1
  NoAgent = NoAgent
  Agents = {a1}
  Operators = {o1}
  Primary = a1
  PrimarySpec <- PrimaryDaemon
  Specs <- Mixed
  Kubectl = TRUE
  MaxEdits = 3
  MaxFaults = 1
CHECK_DEADLOCK FALSE
INVARIANTS NothingIsForgotten
PROPERTIES ObjectsNeverRegress Converges
