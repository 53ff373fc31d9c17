SPECIFICATION Spec
CONSTANTS
    w1 = w1
    w2 = w2
    f1 = f1
    f2 = f2
    Stop = Stop
    None = None
    Funcs <- MCFuncs
    Workers <- MCWorkers
    FileOf <- OwnFiles
    Foreground <- Nobody
    Bodies <- TwoBodies
    Gated <- GatedFuncs
    MaxAttempts = 1
    BadFiles <- Nobody
    PromptWorkers = TRUE
INVARIANTS
    ClaimIsExclusive
