SPECIFICATION FairSpec
CONSTANTS
    p1 = p1
    p2 = p2
    c1 = c1
    c2 = c2
    full = full
    since = since
    None = None
    Procs = {p1}
    Cursors = {c1, c2}
    Modes = {full}
    Full = full
    Records <- MCRecords
    Bodies <- TimeBodies
    LegacyRaws <- NoLegacy
    MaxPages = 2
    MaxRecords = 2
    MaxRedirects = 1
    MaxAttempts = 2
    StallTimeout = 2
    RunTimeout = 0
    MaxRuns = 1
PROPERTIES
    OnlyCommitsResetStall
    CollectionEnds
CHECK_DEADLOCK FALSE
