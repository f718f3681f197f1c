SPECIFICATION Spec
CONSTANTS
    p1 = p1
    p2 = p2
    c1 = c1
    c2 = c2
    full = full
    since = since
    None = None
    Procs = {p1}
    Cursors = {c1}
    Modes = {full}
    Full = full
    Records <- MCRecords
    Bodies <- CrashBodies
    LegacyRaws <- CrashLegacy
    MaxPages = 2
    MaxRecords = 2
    MaxRedirects = 0
    MaxAttempts = 1
    StallTimeout = 1
    RunTimeout = 1
    MaxRuns = 2
INVARIANTS
    TypeOK
    HeadIsBacked
    RequestFollowsDurableHead
    PublishedIsExact
PROPERTIES
    CommittedOnlyGrows
CHECK_DEADLOCK FALSE
