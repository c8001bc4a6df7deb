SPECIFICATION OrphanSpec
CONSTANTS
    Instances = {i1}
    Templates = {}
    Reported = {"Standby", "Terminated"}
    Commands = {"terminate"}
    MaxProcs = 2
    MaxTasks = 1
    MaxLate = 0
    MaxRestarts = 1
INVARIANTS TypeOK ActiveRowHasProcess OrphanNeverActive
PROPERTIES OrphanDies KeepsLife
CHECK_DEADLOCK FALSE
