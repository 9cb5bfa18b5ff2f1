CONSTANTS
    Deployments <- MCDeployments
    Calls <- MCCalls
    Databases = {d1, d2}
    Collections = {c1}
    Views <- MCViews
    NodeSamples <- MCNodeSamples
    DiskSamples <- MCDiskSamples
    Windows <- MCWindows
    LagWarning = 2
    LagCritical = 4
    Readings <- MCReadings
    Window = 3
    TopN = 1
    IndexSamples <- MCIndexSamples
    Builds <- MCBuilds
SPECIFICATION Spec
INVARIANTS
    DiagnosticsTypeOK
    NothingLost
    Covered
    VisibilityHonest
    NoRateAcrossRestart
    UnusedIsEarned
    RemovedIsExplained
