SPECIFICATION WorldsSpec
CONSTANTS
  h1 = h1
  h2 = h2
  d1 = d1
  r1 = r1
  c1 = c1
  l1 = l1
  NoId = NoId
  Hosts = {h1, h2}
  Dispatchers = {d1}
  Remotes = {r1}
  Containers = {c1}
  Locals = {l1}
  Endpoint <- OwnEndpoint
  Detached = {h1, r1, c1}
  StaleAfter = 1
  AbandonAfter = 2
INVARIANTS AttachedAreKnown ChoiceIsHonoured
PROPERTIES DetachedServicesAreKept RegistryCatchesUp
