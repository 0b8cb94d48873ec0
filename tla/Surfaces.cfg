SPECIFICATION SurfacesSpec
CONSTANTS
  k1 = k1
  k2 = k2
  c1 = c1
  c2 = c2
  h1 = h1
  t1 = t1
  t2 = t2
  a1 = a1
  a2 = a2
  p1 = p1
  p2 = p2
  u = u
  ToolIds = {k1, k2}
  MaxTurns = 2
  MaxMessages = 2
  MaxDeltas = 1
  MaxEvents = 5
  MaxLost = 1
  MaxStarts = 2
  Nil = Nil
  Names <- MCNames
  KeyOf <- MCKeyOf
  Routes = {"r1", "r2"}
  Primary = "r1"
  Active = {"openai"}
  MaxChanges = 1
  AlertLimit = 2
  Batch = 3
  MaxAlerts = 5
  MaxWrites = 3
  MaxViews = 2
  Calls = {c1, c2}
  Helpers = {h1}
  MaxTokens = 2
  MaxPairs = 2
  Tasks = {t1, t2}
  MaxRevision = 3
  MaxDrafts = 2
  MaxWire = 1
  Auspexes = {a1, a2}
  Pids = {p1, p2}
  UserPid = u
  NoPid = NoPid
  MaxPort = 1
  MaxLaunches = 2
  StoredFlows <- MCStored
  PaletteKinds = {"fleet_dispatch"}
  MaxEdits = 2
  MaxAdds = 1
  Endpoints = {"e1"}
  ModelOptions = {{"m1"}, {"m1", "m2"}}
  MaxClicks = 2
  LoadIds = {1}
  MaxStaged = 1
  MaxTexts = 1
  MaxShifts = 1
CHECK_DEADLOCK FALSE
INVARIANTS TranscriptIsFaithful StatusIsConsistent CopIsCurrent CallsAreForwarded PlanIsOfTheFile ConsoleIsConsistent
PROPERTIES ReadsItsWrites OwnedOmegonIsReaped
