----------------------------- MODULE RustServices -----------------------------
(***************************************************************************)
(* The twelve services of the Rust crate, as three tables each.            *)
(*   Methods   a method of the client -> what it makes of the response;    *)
(*             the method builds the Request of the module of its name     *)
(*   Calls     the Request -> the rpc that the call of it invokes          *)
(*   Handlers  the rpc -> the handler of the service trait, and how        *)
(*             messages flow: one each way, or a stream up or down         *)
(* A response is taken whole, as one field of it, as nothing, as items, or *)
(* as a Result: an error inside the response becomes an Err.               *)
(***************************************************************************)

\* The entries of two tables
f ++ g == [n \in DOMAIN f \cup DOMAIN g |-> IF n \in DOMAIN f THEN f[n] ELSE g[n]]

Taken(how, names) == [n \in names |-> how]
Unary(handler) == [handler |-> handler, shape |-> "unary"]
Up(handler) == [handler |-> handler, shape |-> "up"]
Down(handler) == [handler |-> handler, shape |-> "down"]
Unimplemented == [handler |-> "none", shape |-> "up"]

\* The rpcs of the .proto files that have the name of their request.
Same(names) == [n \in names |-> n]
SameUnary(names) == [n \in names |-> Unary(n)]

-----------------------------------------------------------------------------
SubmitterTaskMethods ==
  Taken("whole", {"get_service_configuration"})
    ++ Taken("field", {"create_session", "list_tasks", "list_sessions", "count_tasks"})
    ++ Taken("unit", {"cancel_session"})
    ++ Taken("result", {"create_small_tasks", "create_large_tasks"})
    ++ Taken("items", {"try_get_result"})

SubmitterStatusMethods ==
  Taken("whole", {"wait_for_availability"})
    ++ Taken("field", {"wait_for_completion", "task_status", "result_status"})
    ++ Taken("unit", {"cancel_tasks"})
    ++ Taken("result", {"try_get_task_output"})

SubmitterMethods == SubmitterTaskMethods ++ SubmitterStatusMethods

SubmitterTaskCalls ==
  Same({"get_service_configuration", "create_session", "cancel_session", "list_tasks",
        "list_sessions", "count_tasks", "create_small_tasks"})
    ++ [try_get_result |-> "try_get_result_stream"]

SubmitterStatusCalls ==
  Same({"try_get_task_output", "wait_for_availability", "wait_for_completion", "cancel_tasks"})
    ++ [task_status |-> "get_task_status", result_status |-> "get_result_status"]

SubmitterLargeCall == Same({"create_large_tasks"})

SubmitterCalls == SubmitterTaskCalls ++ SubmitterStatusCalls ++ SubmitterLargeCall

\* The names of the handlers in the trait
SubmitterService ==
  {"get_service_configuration", "create_session", "cancel_session", "list_tasks", "list_sessions",
   "count_tasks", "try_get_task_output", "wait_for_availability", "wait_for_completion",
   "cancel_tasks", "task_status", "result_status", "try_get_result", "create_small_tasks",
   "create_large_tasks"}

SubmitterHandlers ==
  SameUnary(SubmitterService \ {"task_status", "result_status", "try_get_result", "create_large_tasks"})
    ++ [get_task_status |-> Unary("task_status"), get_result_status |-> Unary("result_status"),
        create_large_tasks |-> Up("create_large_tasks"),
        try_get_result_stream |-> Down("try_get_result"), watch_results |-> Unimplemented]

-----------------------------------------------------------------------------
ResultsUnaryMethods ==
  Taken("whole", {"list"})
    ++ Taken("field", {"get", "get_owner_task_id", "create_metadata", "create", "import"})

ResultsDataMethods ==
  Taken("field", {"upload", "delete_data"})
    ++ Taken("items", {"download"})
    ++ Taken("whole", {"get_service_configuration"})

ResultsMethods == ResultsUnaryMethods ++ ResultsDataMethods

ResultsUnaryCalls ==
  [list |-> "list_results", get |-> "get_result", get_owner_task_id |-> "get_owner_task_id",
   create_metadata |-> "create_results_meta_data", create |-> "create_results",
   delete_data |-> "delete_results_data", import |-> "import_results_data",
   get_service_configuration |-> "get_service_configuration"]

ResultsStreamCalls == [download |-> "download_result_data", upload |-> "upload_result_data"]

ResultsCalls == ResultsUnaryCalls ++ ResultsStreamCalls

ResultsHandlers ==
  [list_results |-> Unary("list"), get_result |-> Unary("get"),
   get_owner_task_id |-> Unary("get_owner_task_id"),
   create_results_meta_data |-> Unary("create_metadata"), create_results |-> Unary("create"),
   import_results_data |-> Unary("import"), delete_results_data |-> Unary("delete_data"),
   get_service_configuration |-> Unary("get_service_configuration"),
   upload_result_data |-> Up("upload"), download_result_data |-> Down("download"),
   watch_results |-> Unimplemented]

-----------------------------------------------------------------------------
SessionsMethods ==
  Taken("whole", {"list"})
    ++ Taken("field", {"get", "cancel", "create", "pause", "resume", "close", "purge", "delete",
                       "stop_submission"})

SessionsCalls ==
  [list |-> "list_sessions", get |-> "get_session", cancel |-> "cancel_session",
   create |-> "create_session", pause |-> "pause_session", resume |-> "resume_session",
   close |-> "close_session", purge |-> "purge_session", delete |-> "delete_session",
   stop_submission |-> "stop_submission"]

SessionsHandlers ==
  [list_sessions |-> Unary("list"), get_session |-> Unary("get"),
   cancel_session |-> Unary("cancel"), create_session |-> Unary("create"),
   pause_session |-> Unary("pause"), resume_session |-> Unary("resume"),
   close_session |-> Unary("close"), purge_session |-> Unary("purge"),
   delete_session |-> Unary("delete"), stop_submission |-> Unary("stop_submission")]

-----------------------------------------------------------------------------
TasksMethods ==
  Taken("whole", {"list", "list_detailed"})
    ++ Taken("field", {"get", "cancel", "get_result_ids", "count_status", "submit"})

TasksCalls ==
  [list |-> "list_tasks", list_detailed |-> "list_tasks_detailed", get |-> "get_task",
   cancel |-> "cancel_tasks", get_result_ids |-> "get_result_ids",
   count_status |-> "count_tasks_by_status", submit |-> "submit_tasks"]

TasksHandlers ==
  [list_tasks |-> Unary("list"), list_tasks_detailed |-> Unary("list_detailed"),
   get_task |-> Unary("get"), cancel_tasks |-> Unary("cancel"),
   get_result_ids |-> Unary("get_result_ids"), count_tasks_by_status |-> Unary("count_status"),
   submit_tasks |-> Unary("submit")]

-----------------------------------------------------------------------------
\* get_resource_data, get_common_data and get_direct_data have no method: they
\* are reached through call.
AgentMethods ==
  Taken("field", {"create_results_metadata", "create_results", "notify_result_data", "submit_tasks"})
    ++ Taken("result", {"create_tasks"})

AgentCalls ==
  Same({"create_results", "notify_result_data", "submit_tasks", "get_resource_data",
        "get_common_data", "get_direct_data"})
    ++ [create_results_metadata |-> "create_results_meta_data", create_tasks |-> "create_task"]

AgentHandlers ==
  SameUnary({"create_results", "notify_result_data", "submit_tasks", "get_resource_data",
             "get_common_data", "get_direct_data"})
    ++ [create_results_meta_data |-> Unary("create_results_metadata"),
        create_task |-> Up("create_tasks")]

-----------------------------------------------------------------------------
EventsMethods == Taken("items", {"subscribe"})
EventsCalls == [subscribe |-> "get_events"]
EventsHandlers == [get_events |-> Down("subscribe")]

WorkerMethods == Taken("whole", {"health_check"}) ++ Taken("field", {"process"})
WorkerCalls == Same({"health_check", "process"})
WorkerHandlers == SameUnary({"health_check", "process"})

PartitionsMethods == Taken("whole", {"list"}) ++ Taken("field", {"get"})
PartitionsCalls == [list |-> "list_partitions", get |-> "get_partition"]
PartitionsHandlers == [list_partitions |-> Unary("list"), get_partition |-> Unary("get")]

ApplicationsMethods == Taken("whole", {"list"})
ApplicationsCalls == [list |-> "list_applications"]
ApplicationsHandlers == [list_applications |-> Unary("list")]

AuthMethods == Taken("field", {"current_user"})
AuthCalls == [current_user |-> "get_current_user"]
AuthHandlers == [get_current_user |-> Unary("current_user")]

HealthChecksMethods == Taken("field", {"check"})
HealthChecksCalls == [check |-> "check_health"]
HealthChecksHandlers == [check_health |-> Unary("check")]

VersionsMethods == Taken("whole", {"list"})
VersionsCalls == [list |-> "list_versions"]
VersionsHandlers == [list_versions |-> Unary("list")]

-----------------------------------------------------------------------------
\* The accessors of Client, one per service
MethodTable ==
  [submitter |-> SubmitterMethods, results |-> ResultsMethods, sessions |-> SessionsMethods,
   tasks |-> TasksMethods, agent |-> AgentMethods, events |-> EventsMethods,
   worker |-> WorkerMethods, partitions |-> PartitionsMethods,
   applications |-> ApplicationsMethods, auth |-> AuthMethods,
   health_checks |-> HealthChecksMethods, versions |-> VersionsMethods]

CallTable ==
  [submitter |-> SubmitterCalls, results |-> ResultsCalls, sessions |-> SessionsCalls,
   tasks |-> TasksCalls, agent |-> AgentCalls, events |-> EventsCalls, worker |-> WorkerCalls,
   partitions |-> PartitionsCalls, applications |-> ApplicationsCalls, auth |-> AuthCalls,
   health_checks |-> HealthChecksCalls, versions |-> VersionsCalls]

HandlerTable ==
  [submitter |-> SubmitterHandlers, results |-> ResultsHandlers, sessions |-> SessionsHandlers,
   tasks |-> TasksHandlers, agent |-> AgentHandlers, events |-> EventsHandlers,
   worker |-> WorkerHandlers, partitions |-> PartitionsHandlers,
   applications |-> ApplicationsHandlers, auth |-> AuthHandlers,
   health_checks |-> HealthChecksHandlers, versions |-> VersionsHandlers]

\* The handlers whose response may carry an error of its own
Refusing ==
  [submitter |-> {"create_small_tasks", "create_large_tasks", "try_get_task_output",
                  "wait_for_availability"},
   agent |-> {"create_tasks"}, worker |-> {"process"}]
=============================================================================
