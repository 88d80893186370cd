SPECIFICATION FairSpec
CONSTANTS
    Kind <- MCKind
    PatientUser = TRUE
    MaxStops = 1
    MaxResumes = 2
    MaxCrashes = 1
INVARIANTS TypeOK PredecessorsDone LastSaveComplete
PROPERTIES ExecEnds
CHECK_DEADLOCK FALSE
