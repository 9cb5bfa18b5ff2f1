SPECIFICATION Spec
CONSTANTS
    x = x  y = y  p = p  q = q
    Collections = {1}
    DatabaseOf <- OneDatabase
    Kinds = {"sharded"}
    Shards = {1, 2, 3}
    Names = {x, y}
    Specs = {p, q}
    Ownings = {{1, 2}}
    Catalogs <- MCCatalogs
    MaxChanges = 1
    Versions <- MCVersions
    Filterings = {TRUE, FALSE}
    Concurrency = 1
    Answers <- MCAnswers
INVARIANT VerdictWhileMoving
