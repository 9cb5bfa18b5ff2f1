SPECIFICATION Spec
CONSTANTS
    x = x  y = y  p = p  q = q
    Collections = {1}
    DatabaseOf <- OneDatabase
    Kinds = {"sharded", "unsharded", "view"}
    Shards = {1, 2}
    Names = {x, y}
    Specs = {p, q}
    Ownings = {{1, 2}, {1}}
    Catalogs <- MCCatalogs
    MaxChanges = 1
    Versions <- MCVersions
    Filterings = {TRUE, FALSE}
    Concurrency = 1
    Answers <- MCAnswers
INVARIANTS
    TypeOK
    WarningsAreReal
    VerdictOfCalmCluster
    ConsistentNeedsEvidence
    FallbackExplained
    FailuresReported

