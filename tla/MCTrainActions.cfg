SPECIFICATION FairSpec
CONSTANTS
    MaxTrouble = 3
    MaxResumes = 3
    MaxCrashes = 2
INVARIANTS
    TypeOK
    OneChain
    OnlyStrangersDoubled
    ResumeFindsInput
PROPERTIES
    RunEnds
CHECK_DEADLOCK FALSE
