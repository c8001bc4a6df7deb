SPECIFICATION FairSpec
CONSTANTS
    Tasks = {"adjust", "chain", "nothing"}
    Script <- Chains
    Timeout = 0
    MaxClock = 1
INVARIANTS TypeOK LeavesInOrder ClosedTaskIsOver
PROPERTIES EndsStay EveryTaskEnds
CHECK_DEADLOCK FALSE
