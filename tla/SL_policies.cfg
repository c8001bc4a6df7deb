SPECIFICATION CrashSpec
CONSTANTS
    sAlways = sAlways
    sOnFailure = sOnFailure
    sNever = sNever
    Services = {sOnFailure, sNever}
    Policy <- MCPolicy
    MaxRestarts <- MCMaxRestarts
    HasProbe <- MCHasProbe
    Threshold = 2
    MaxProcs = 3
    MaxStarts = 2
INVARIANTS TypeOK SpawnsBounded RunningHasProcess
PROPERTIES RestartsEnd
CHECK_DEADLOCK FALSE
