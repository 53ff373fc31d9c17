SPECIFICATION FairSpec
CONSTANTS
    s1 = s1
    s2 = s2
    Stages <- MCStages
    SeqStages <- MCSeqStages
    ChrStages <- MCChrStages
    Blocks <- MCBlocks
    BodyBlocks = 2
    Junk = Junk
    MaxFaults = 1
INVARIANTS
    StageStartsLoaded
    IdleIsIdle
PROPERTIES
    IdleMemoryIsStable
    WaitEnds
