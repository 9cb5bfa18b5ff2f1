\* Four names, three calls, two changes of the catalog at any time.
SPECIFICATION Spec
CONSTANTS
    A = A  B = B  me = me  other = other
    Refs <- SmallRefs
    InOrder <- Sorted
    Scopes <- TwoScopes
    Identities = {me, other}
    Asked = {0, 1, 4}
    DefaultLimit = 2
    MaxBatch = 3
    Deployments <- AnyServer
    Initial <- Full
    MaxCalls = 3
    MaxChanges = 2
INVARIANTS TypeOK AuditedOnce NothingOmitted WholeDatabases NoSpuriousRefusal
