---------------------------- MODULE MCMessageBus ----------------------------
(* TLC instance of MessageBus: operations of the program with their modules. *)
EXTENDS MessageBus, TLC

\* find stands for find_ability_instance/id and find_ability_storage_info/id
MCOps == {"start", "connect", "find", "add_task", "TaskStatusEvent"}
MCKind == 1 :> "start" @@ 2 :> "connect" @@ 3 :> "TaskStatusEvent"
MCNested == [o \in MCOps |-> CASE o = "start" -> <<"find", "add_task">>
                               [] o = "connect" -> <<"add_task">>
                               [] OTHER -> <<>>]
MCHome == [o \in MCOps |-> CASE o \in {"start", "connect"} -> "LifecycleMgr"
                             [] o = "find" -> "ResourceMgr"
                             [] o = "add_task" -> "TaskMgr"
                             [] OTHER -> "TaskStatusMgr"]
=============================================================================
