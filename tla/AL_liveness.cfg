SPECIFICATION FairSpec
CONSTANTS
    Instances = {i1}
    Templates = {c1}
    Reported = {"Standby", "Terminated"}
    Commands = {"terminate"}
    MaxProcs = 1
    MaxTasks = 1
    MaxLate = 1
    MaxRestarts = 1

PROPERTIES GhostCleared LiveAbilityListed
CHECK_DEADLOCK FALSE
