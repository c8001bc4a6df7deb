SPECIFICATION FairSpec
CONSTANTS
    Calls = {1, 2, 3}
    Ops <- MCOps
    Kind <- MCKind
    Nested <- MCNested
    Home <- MCHome
    Guarded = {"LifecycleMgr", "ResourceMgr"}
    Events = {"TaskStatusEvent"}
    Workers = {1, 2}
INVARIANTS TypeOK StuckInOneModule
PROPERTIES KeepsPromise StopIsOver
CHECK_DEADLOCK FALSE
