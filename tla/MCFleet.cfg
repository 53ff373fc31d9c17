SPECIFICATION Spec
CONSTANTS
    w1 = w1
    w2 = w2
    f1 = f1
    f2 = f2
    Stop = Stop
    None = None
    Funcs <- MCFuncs
    Workers <- MCWorkers
    FileOf <- OwnFiles
    Foreground <- OneByHand
    Bodies <- AllBodies
    Gated <- Nobody
    MaxAttempts = 1
    BadFiles <- FullDisk
    PromptWorkers = TRUE
INVARIANTS
    UngatedClaimIsExclusive
    MatchedIsArchived
    LandingIsVerified
    
    
PROPERTIES
    LockIsExclusive
CONSTRAINT
    NobodyOverlooked
