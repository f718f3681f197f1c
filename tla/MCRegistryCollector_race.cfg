SPECIFICATION Spec
CONSTANTS
    p1 = p1
    p2 = p2
    c1 = c1
    c2 = c2
    full = full
    since = since
    None = None
    Procs = {p1, p2}
    Cursors = {c1}
    Modes = {full, since}
    Full = full
    Records <- MCRecords
    Bodies <- RaceBodies
    LegacyRaws <- RaceLegacy
    MaxPages = 2
    MaxRecords = 2
    MaxRedirects = 0
    MaxAttempts = 1
    StallTimeout = 1
    RunTimeout = 0
    MaxRuns = 2
SYMMETRY ProcessSymmetry
INVARIANTS
    PublishedIsComplete
PROPERTIES
    PublishedNeverReplaced
    RetainedPartialIsEvidence
    ImplementsPageLog
CHECK_DEADLOCK FALSE
