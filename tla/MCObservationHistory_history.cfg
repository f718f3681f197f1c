SPECIFICATION Spec
CONSTANTS
    t1 = t1
    t2 = t2
    t3 = t3
    Targets = {t1, t2, t3}
    Documents <- AllDocuments
    ManifestLines <- AllLines
    MaxIdentity = 2
    MaxDepth = 3
    MaxSkipDepth = 1
    MaxTools = 2
    MaxRecords = 3
    MaxTargets = 2
    MaxManifest = 2
    MaxInputs = 4
    MaxFailures = 2
INVARIANTS
    TypeOK
    HistoryIsExact
    ReadableHoldsAcknowledged
    IntactIsReadable
    DriftIsReal
    ManifestIsExact
CHECK_DEADLOCK FALSE
