SPECIFICATION LiveSpec
CONSTANTS
  f1 = f1
  f2 = f2
  m1 = m1
  m2 = m2
  x1 = x1
  e1 = e1
  e2 = e2
  Profiles = {f1, f2}
  Models = {m1, m2}
  Unset = Unset
  MaxSwitches = 2
  MaxAttaches = 2
  WireMax = 1
  FleetAgents = {"a1", "a2"}
  NamespaceOf <- MCNamespaceOf
  WatchNamespace = "agents"
  AllNamespaces = "all"
  ApiToken = TRUE
  MaxFleetEdits = 1
  MaxFrames = 2
  NoEndpoint = NoEndpoint
  Agents = {x1}
  Endpoints = {e1, e2}
  Allowed = {e1}
  Interval = 3
  Floor = 2
  MaxEdits = 3
  MaxTurns = 3
CHECK_DEADLOCK FALSE
PROPERTIES SwitchIsAnswered ProxyIsFaithful ReachabilityIsCurrent
