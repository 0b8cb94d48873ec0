SPECIFICATION HostSpec
CONSTANTS
  n1 = n1
  n2 = n2
  r1 = r1
  r2 = r2
  i1 = i1
  i2 = i2
  Providers = {"codex", "anthropic"}
  Preferred <- MCPreferred
  Unset = "Unset"
  MaxServers = 2
  MaxPid = 2
  MaxControlPort = 2
  MaxLocalStarts = 2
  MaxScans = 2
  Deployments = {"d1", "d2"}
  ProcessOf <- MCProcessOf
  AgentNames = {n1, n2}
  PortCount = 3
  NoAgent = NoAgent
  MaxLaunchCalls = 3
  Workers = {"w1", "w2", "w3"}
  GrantIds = {"g1", "g2"}
  GrantOf <- MCGrantOf
  Digests = {"d1", "d2"}
  MaxRenewals = 1
  MaxRedeems = 2
  MaxFaults = 2
  Requests = {r1, r2}
  OverlayIds = {i1, i2}
  Catalog <- MCCatalog
  Drafts <- MCDrafts
  PackageRefs = {"agent/a", "profile/p", "profile/q", "forge/f", "unlisted"}
  Deploys <- MCDeploys
  WatchNamespace = "agents"
  Namespaces = {"agents", "other", "default"}
  MaxCalls = 3
  Releases = {"r1", "r2", "r3"}
  RepoOf <- MCRepoOf
  PathOf <- MCPathOf
  Allowlist = {"omegon"}
  MaxRevisions = 1
  MaxCommands = 6
  Specs <- MCSpecs
  MaxEdits = 2
  MaxRefusals = 1
CHECK_DEADLOCK FALSE
INVARIANTS CardsAreTheRuntimes PortsInFlightAreDistinct GrantsAreHonoured PublishedWasApproved PodsCanServe
PROPERTIES OverlaysAreSound ClickedIsAttached
