SPECIFICATION Spec
CONSTANTS
    w1 = w1
    w2 = w2
    a = a
    b = b
    None = None
    Ids <- MCIds
    Workers <- MCWorkers
    Limit <- MCLimit
    TakesDeferred <- MCTakesDeferred
    Allowlist <- MCAllowlist
    Rank <- MCRank
    Blocked <- MCBlocked
    Files <- MCFiles
    MaxClaims = 2
    MaxOps = 1
PROPERTIES
    PruneOnlyTodo
CHECK_DEADLOCK FALSE
