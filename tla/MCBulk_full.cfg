SPECIFICATION Spec
CONSTANTS
    d1 = d1
    d2 = d2
    d3 = d3
    Docs <- MCDocs
    Options <- MCOptions
    BatchSize = 2
    DefaultRetries = 2
INVARIANTS
    AppliedOnce
    ReportIsTrue
    CompleteWhenDone
    StopsAtCancel
PROPERTIES
    CancelEnds
    CallEnds
