SPECIFICATION Spec
CONSTANTS
    Kind <- MCTrainAndPublish
    PatientUser = FALSE
    MaxStops = 1
    MaxResumes = 1
    MaxCrashes = 0
INVARIANTS Sequential
CHECK_DEADLOCK FALSE
