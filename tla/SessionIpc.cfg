SPECIFICATION Spec
CONSTANTS
    Prompts = {p1}
    Cancels = {c1}
    None = None
    Builds <- AllBuilds
    ReqCap = 1
    InboxCap = 2
    WireCap = 1
    MaxUpsets = 1
    Targets = {t1, t2}
CHECK_DEADLOCK FALSE
INVARIANTS AcknowledgementsHaveASubject
PROPERTIES SnapshotsNeverRegress IsRequestChannel SessionRecovers
