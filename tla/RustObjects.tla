---------------------------- MODULE RustObjects -----------------------------
(***************************************************************************)
(* The objects of the Rust crate (armonik/src/objects), one definition for *)
(* each file or each From pair, in the notation of RustTypes.              *)
(***************************************************************************)
EXTENDS RustTypes

Rpc(request, response) == [request |-> request, response |-> response]

-----------------------------------------------------------------------------
(* Common objects.                                                         *)
TaskOptions == Struct([
  options |-> Text, max_duration |-> Must(ScalarOr("infinite")), max_retries |-> Into(ScalarOr("one")),
  priority |-> Into(ScalarOr("one")), partition_id |-> Text, application_name |-> Text,
  application_version |-> Text, application_namespace |-> Text, application_service |-> Text,
  engine_type |-> Text])
Configuration == Struct([data_chunk_max_size |-> Into(ScalarOr("80k"))])
Count == Struct([values |-> Into(MapOf(Code(TaskStatus), Scalar))])
DataChunk == Cases([Data |-> Scalar, Complete |-> Unit], "Data")
InitKeyedDataStream == Cases([Key |-> Scalar, LastResult |-> Unit], "Key")
TaskRequestHeader == Struct([expected_output_keys |-> Texts, data_dependencies |-> Texts])
InitTaskRequest == Cases([Header |-> TaskRequestHeader, LastTask |-> Unit], "Header")
Output == Cases([Ok |-> Unit, Error |-> Scalar], "Ok")
Error == Struct([task_status |-> Into(Code(TaskStatus)), details |-> Text])
TaskError == Struct([task_id |-> Text, errors |-> Each(Error)])
Session == Struct([session_id |-> Text])
TaskId == Struct([session_id |-> Text, task_id |-> Text])
TaskIdList == Struct([task_ids |-> Texts])
TaskList == Struct([task_ids |-> List(TaskId)])
TaskRequest == Struct([expected_output_keys |-> Texts, data_dependencies |-> Texts,
                       payload |-> Text, payload_name |-> Text])
ResultRequest == Struct([session_id |-> Text, result_id |-> Text])
TaskOutputRequest == Struct([session_id |-> Text, task_id |-> Text])
StatusCount == Struct([status |-> Into(Code(TaskStatus)), count |-> Text])
TaskIdWithStatus == Struct([task_id |-> Must(TaskId), status |-> Into(Code(TaskStatus))])

-----------------------------------------------------------------------------
(* Filters and sorts.                                                      *)
Compared(value, operator) == Struct([value |-> value, operator |-> Into(Code(operator))])
FilterString == Compared(Text, FilterStringOperator)
FilterNumber == Compared(Text, FilterNumberOperator)
FilterArray == Compared(Text, FilterArrayOperator)
FilterBoolean == Compared(Text, FilterBooleanOperator)
FilterDate == Compared(Must(Scalar), FilterDateOperator)
FilterDuration == Compared(Must(Scalar), FilterDurationOperator)
FilterStatus(status) == Compared(Into(Code(status)), FilterStatusOperator)

\* impl_filter: a disjunction of conjunctions of conditions on fields
Filters(field, condition) ==
  Struct([or |-> Each(Struct([and |-> Each(
    Struct([field |-> Must(field), condition |-> Must(condition)]))]))])

SortBy(field) == Struct([field |-> Must(field), direction |-> Into(Code(SortDirection))])

TaskField == Cases([Summary |-> Code(SummaryField), Option |-> Code(TaskOptionField),
                    OptionGeneric |-> Scalar], "Summary")
TaskCondition == Bare([String |-> FilterString, Number |-> FilterNumber, Boolean |-> FilterBoolean,
  Status |-> FilterStatus(TaskStatus), Date |-> FilterDate, Duration |-> FilterDuration,
  Array |-> FilterArray], "String")
TaskFilters == Filters(TaskField, TaskCondition)
TaskSort == SortBy(TaskField)

SessionField == Cases([Raw |-> Code(SessionRawField), TaskOption |-> Code(TaskOptionField),
                       TaskOptionGeneric |-> Scalar], "Raw")
SessionCondition == Bare([String |-> FilterString, Number |-> FilterNumber,
  Boolean |-> FilterBoolean, Status |-> FilterStatus(SessionStatus), Date |-> FilterDate,
  Duration |-> FilterDuration, Array |-> FilterArray], "String")
SessionFilters == Filters(SessionField, SessionCondition)
SessionSort == SortBy(SessionField)

ResultCondition == Bare([String |-> FilterString, Date |-> FilterDate, Array |-> FilterArray,
  Status |-> FilterStatus(ResultStatus), Number |-> FilterNumber], "String")
ResultFilters == Filters(Code(ResultField), ResultCondition)
ResultSort == SortBy(Code(ResultField))

PartitionCondition == Bare([String |-> FilterString, Number |-> FilterNumber,
  Boolean |-> FilterBoolean, Array |-> FilterArray], "String")
PartitionFilters == Filters(Code(PartitionField), PartitionCondition)
PartitionSort == SortBy(Code(PartitionField))

ApplicationCondition == Bare([String |-> FilterString], "String")
ApplicationFilters == Filters(Code(ApplicationField), ApplicationCondition)
ApplicationSort == Struct([fields |-> List(Code(ApplicationField)),
                           direction |-> Into(Code(SortDirection))])

\* The page size of a list is 100 by default in Rust, 0 on the wire.
ListRequest(filters, sort) ==
  [page |-> Text, page_size |-> Into(ScalarOr("100")), filters |-> Must(filters), sort |-> Must(sort)]
Page == [page |-> Text, page_size |-> Into(ScalarOr("100")), total |-> Text]

-----------------------------------------------------------------------------
(* Submitter.                                                              *)
TaskFilterIds == Bare([Sessions |-> Scalar, Tasks |-> Scalar], "Sessions")

\* Include is written as the case `excluded` and Exclude as `included`; both are
\* read under their own names.
IncludeOrExclude(status) ==
  LET list == Struct([statuses |-> Each(Code(status))]) IN
  OneOf([Include |-> list, Exclude |-> list], [Include |-> "included", Exclude |-> "excluded"],
        [Include |-> "excluded", Exclude |-> "included"],
        [included |-> "Include", excluded |-> "Exclude"], "Exclude", FALSE)
TaskFilterStatuses == IncludeOrExclude(TaskStatus)
TaskFilter == Struct([ids |-> Must(TaskFilterIds), statuses |-> Must(TaskFilterStatuses)])
SessionFilterStatuses == IncludeOrExclude(SessionStatus)
SessionFilter == Struct([ids |-> Texts, statuses |-> Must(SessionFilterStatuses)])

SubmitterCancelSession == Rpc(Struct([session_id |-> Text]), Empty)
SubmitterCancelTasks == Rpc(TaskFilter, Empty)
SubmitterCountTasks == Rpc(TaskFilter, Count)
SubmitterCreateSession == Rpc(
  Struct([default_task_options |-> Must(TaskOptions), partition_ids |-> Texts]),
  Struct([session_id |-> Text]))
SmallRequest == Struct([session_id |-> Text, task_options |-> May(TaskOptions),
                        task_requests |-> List(TaskRequest)])
InitRequest == Struct([session_id |-> Text, task_options |-> May(TaskOptions)])
LargeRequest == OrInvalid([InitRequest |-> InitRequest, InitTaskRequest |-> InitTaskRequest,
                           DataChunk |-> DataChunk])
TaskInfo == Struct([task_id |-> Text, expected_output_keys |-> Texts, data_dependencies |-> Texts,
                    payload_id |-> Text])
CreationStatus == Cases([TaskInfo |-> TaskInfo, Error |-> Scalar], "Error")
CreateTasksResponse ==
  Cases([Status |-> Struct([statuses |-> List(CreationStatus)]), Error |-> Scalar], "Status")
SubmitterGetServiceConfiguration == Rpc(Empty, Configuration)
SubmitterListSessions == Rpc(SessionFilter, Struct([session_ids |-> Texts]))
SubmitterListTasks == Rpc(TaskFilter, Struct([task_ids |-> Texts]))
SubmitterResultStatus == Rpc(Struct([session_id |-> Text, result_ids |-> Texts]),
                             Struct([statuses |-> Into(MapOf(Scalar, Code(ResultStatus)))]))
SubmitterTaskStatus == Rpc(Struct([task_ids |-> Texts]),
                           Struct([statuses |-> Into(MapOf(Scalar, Code(TaskStatus)))]))
TryGetResult == Rpc(Struct([session_id |-> Text, result_id |-> Text]),
  Cases([DataChunk |-> DataChunk, TaskError |-> TaskError, NotCompleted |-> Scalar], "NotCompleted"))
TryGetTaskOutput == Rpc(Struct([session_id |-> Text, task_id |-> Text]), Output)
WaitForAvailability == Rpc(Struct([session_id |-> Text, result_id |-> Text]),
  Cases([Ok |-> Unit, TaskError |-> TaskError, NotCompleted |-> Scalar], "NotCompleted"))
WaitForCompletion == Rpc(
  Struct([filter |-> Must(TaskFilter), stop_on_first_task_error |-> Text,
          stop_on_first_task_cancellation |-> Text]), Count)

-----------------------------------------------------------------------------
(* Agent.                                                                  *)
ResultMetaData == Struct([session_id |-> Text, result_id |-> Text, name |-> Text,
                          status |-> Into(Code(ResultStatus)), created_at |-> Time])
AgentCreateResults == Rpc(
  Struct([communication_token |-> Text, session_id |-> Text,
          results |-> List(Struct([name |-> Text, data |-> Text]))]),
  Struct([communication_token |-> Text, results |-> List(ResultMetaData)]))
AgentCreateResultsMetadata == Rpc(
  Struct([communication_token |-> Text, session_id |-> Text,
          results |-> List(Struct([name |-> Text]))]),
  Struct([communication_token |-> Text, results |-> List(ResultMetaData)]))
\* The token is a field of every variant but Invalid.
WithToken(ty) == Struct([communication_token |-> Text, inner |-> Into(ty)])
AgentInitRequest == Struct([task_options |-> May(TaskOptions)])
AgentCreateTasksRequest == OrInvalid([InitRequest |-> WithToken(AgentInitRequest),
  InitTaskRequest |-> WithToken(InitTaskRequest), DataChunk |-> WithToken(DataChunk)])
AgentCreationStatus == Cases([TaskInfo |-> TaskInfo, Error |-> Scalar], "Error")
AgentCreateTasksResponse == Cases(
  [Status |-> WithToken(Struct([statuses |-> List(AgentCreationStatus)])),
   Error |-> WithToken(Scalar)], "Error")
DataRpc == Rpc(Struct([communication_token |-> Text, result_id |-> Text]),
               Struct([result_id |-> Text]))
GetCommonData == DataRpc
GetDirectData == DataRpc
GetResourceData == DataRpc
\* One session for all results in Rust, one for each on the wire.
NotifyResultDataRequest == [t |-> "notify"]
NotifyResultData == Rpc(NotifyResultDataRequest, Struct([result_ids |-> Texts]))
TaskCreation == Struct([expected_output_keys |-> Texts, data_dependencies |-> Texts,
                        payload_id |-> Text, task_options |-> May(TaskOptions)])
SubmittedTask == Struct([task_id |-> Text, expected_output_ids |-> Texts,
                         data_dependencies |-> Texts, payload_id |-> Text])
AgentSubmitTasks == Rpc(
  Struct([communication_token |-> Text, session_id |-> Text, task_options |-> May(TaskOptions),
          items |-> List(TaskCreation)]),
  Struct([communication_token |-> Text, items |-> List(SubmittedTask)]))

-----------------------------------------------------------------------------
(* Results.                                                                *)
ResultRaw == Struct([session_id |-> Text, name |-> Text, owner_task_id |-> Text,
  status |-> Into(Code(ResultStatus)), created_at |-> Time, completed_at |-> Time,
  result_id |-> Text, size |-> Text, created_by |-> Text, opaque_id |-> Text,
  manual_deletion |-> Text])
ResultsCreate == Rpc(
  Struct([session_id |-> Text,
          results |-> List(Struct([name |-> Text, data |-> Text, manual_deletion |-> Text]))]),
  Struct([results |-> List(ResultRaw)]))
ResultsCreateMetadata == Rpc(
  Struct([session_id |-> Text, results |-> List(Struct([name |-> Text, manual_deletion |-> Text]))]),
  Struct([results |-> List(ResultRaw)]))
ResultsDeleteData == Rpc(Struct([session_id |-> Text, result_ids |-> Texts]),
                         Struct([session_id |-> Text, result_ids |-> Texts]))
ResultsDownload == Rpc(Struct([session_id |-> Text, result_id |-> Text]),
                       Struct([data_chunk |-> Text]))
ResultsGet == Rpc(Struct([id |-> Text]), Struct([result |-> Must(ResultRaw)]))
GetOwnerTaskId == Rpc(Struct([session_id |-> Text, result_ids |-> Texts]),
  Struct([result_task |-> Into(MapOf(Scalar, Scalar)), session_id |-> Text]))
ResultsGetServiceConfiguration == Rpc(Empty, Struct([data_chunk_max_size |-> Into(ScalarOr("64k"))]))
\* The keys of the response are not sent: the reader takes the names.
ImportRequest == Struct([results |-> Into(MapOf(Scalar, Scalar)), session_id |-> Text])
ImportResponse == [t |-> "indexed", item |-> ResultRaw, by |-> "name"]
ResultsList == Rpc(Struct(ListRequest(ResultFilters, ResultSort)),
                   Struct(Page @@ [results |-> List(ResultRaw)]))
UploadRequest == Cases([Identifier |-> Struct([session_id |-> Text, result_id |-> Text]),
                        DataChunk |-> Scalar], "Identifier")
UploadResponse == Struct([result |-> Must(ResultRaw)])

-----------------------------------------------------------------------------
(* Tasks.                                                                  *)
\* `success` selects the case; the message of a success is ignored.
TaskOutput == Bare([Success |-> Unit, Error |-> Scalar], "Success")

\* A summary has only the message: an empty one is a success.
SummaryOutput == [t |-> "text"]
TaskTimes == [created_at |-> Time, submitted_at |-> Time, received_at |-> Time, acquired_at |-> Time,
  fetched_at |-> Time, started_at |-> Time, processed_at |-> Time, ended_at |-> Time,
  creation_to_end_duration |-> Time, processing_to_end_duration |-> Time,
  received_to_end_duration |-> Time, pod_ttl |-> Time]
TaskIdentity == [task_id |-> Text, session_id |-> Text, owner_pod_id |-> Text,
  initial_task_id |-> Text, status |-> Into(Code(TaskStatus)), status_message |-> Text,
  options |-> Must(TaskOptions), pod_hostname |-> Text, payload_id |-> Text, created_by |-> Text]
TaskRaw == Struct(TaskIdentity @@ TaskTimes @@
  [parent_task_ids |-> Texts, data_dependencies |-> Texts, expected_output_ids |-> Texts,
   retry_of_ids |-> Texts, output |-> Must(TaskOutput)])
TaskSummary == Struct(TaskIdentity @@ TaskTimes @@
  [count_parent_task_ids |-> Text, count_data_dependencies |-> Text,
   count_expected_output_ids |-> Text, count_retry_of_ids |-> Text, output |-> Into(SummaryOutput)])
TasksCancel == Rpc(Struct([task_ids |-> Texts]), Struct([tasks |-> List(TaskSummary)]))
TasksCountStatus == Rpc(Struct([filters |-> Must(TaskFilters)]), Struct([status |-> Each(StatusCount)]))
TasksGet == Rpc(Struct([task_id |-> Text]), Struct([task |-> Must(TaskRaw)]))
GetResultIds == Rpc(Struct([task_ids |-> Texts]),
                    Struct([task_results |-> Into(MapOf(Scalar, Scalar))]))
TasksList == Rpc(Struct(ListRequest(TaskFilters, TaskSort) @@ [with_errors |-> Text]),
                 Struct(Page @@ [tasks |-> List(TaskSummary)]))
TasksListDetailed == Rpc(Struct(ListRequest(TaskFilters, TaskSort) @@ [with_errors |-> Text]),
                         Struct(Page @@ [tasks |-> List(TaskRaw)]))
TasksSubmit == Rpc(
  Struct([session_id |-> Text, task_options |-> May(TaskOptions), items |-> List(TaskCreation)]),
  Struct([items |-> List(SubmittedTask)]))

-----------------------------------------------------------------------------
(* Sessions.                                                               *)
SessionRaw == Struct([session_id |-> Text, status |-> Into(Code(SessionStatus)),
  client_submission |-> Text, worker_submission |-> Text, partition_ids |-> Texts,
  default_task_options |-> Must(TaskOptions), created_at |-> Time, cancelled_at |-> Time,
  closed_at |-> Time, purged_at |-> Time, deleted_at |-> Time, duration |-> Time])
OnSession == Rpc(Struct([session_id |-> Text]), Struct([session |-> Must(SessionRaw)]))
SessionsCancel == OnSession
SessionsClose == OnSession
SessionsDelete == OnSession
SessionsGet == OnSession
SessionsPause == OnSession
SessionsPurge == OnSession
SessionsResume == OnSession
SessionsCreate == Rpc(
  Struct([default_task_options |-> Must(TaskOptions), partition_ids |-> Texts]),
  Struct([session_id |-> Text]))
SessionsList == Rpc(Struct(ListRequest(SessionFilters, SessionSort) @@ [with_task_options |-> Text]),
                    Struct(Page @@ [sessions |-> List(SessionRaw)]))
StopSubmission == Rpc(Struct([session_id |-> Text, client |-> Text, worker |-> Text]),
                      Struct([session |-> Must(SessionRaw)]))

-----------------------------------------------------------------------------
(* The other services.                                                     *)
PartitionRaw == Struct([partition_id |-> Text, parent_partition_ids |-> Texts, pod_reserved |-> Text,
  pod_max |-> Text, pod_configuration |-> Text, preemption_percentage |-> Text, priority |-> Text])
PartitionsGet == Rpc(Struct([partition_id |-> Text]), Struct([partition |-> Must(PartitionRaw)]))
PartitionsList == Rpc(Struct(ListRequest(PartitionFilters, PartitionSort)),
                      Struct(Page @@ [partitions |-> List(PartitionRaw)]))
ApplicationRaw ==
  Struct([name |-> Text, version |-> Text, namespace |-> Text, service |-> Text])
ApplicationsList == Rpc(Struct(ListRequest(ApplicationFilters, ApplicationSort)),
                        Struct(Page @@ [applications |-> List(ApplicationRaw)]))

NewResult == Struct([result_id |-> Text, owner_id |-> Text, status |-> Into(Code(ResultStatus))])
NewTask == Struct([task_id |-> Text, payload_id |-> Text, origin_task_id |-> Text,
  status |-> Into(Code(TaskStatus)), expected_output_keys |-> Texts, data_dependencies |-> Texts,
  retry_of_ids |-> Texts, parent_task_ids |-> Texts])
ResultOwnerUpdate ==
  Struct([result_id |-> Text, previous_owner_id |-> Text, current_owner_id |-> Text])
ResultStatusUpdate == Struct([result_id |-> Text, status |-> Into(Code(ResultStatus))])
TaskStatusUpdate == Struct([task_id |-> Text, status |-> Into(Code(TaskStatus))])

Update == OrInvalid([TaskStatusUpdate |-> TaskStatusUpdate,
  ResultStatusUpdate |-> ResultStatusUpdate, ResultOwnerUpdate |-> ResultOwnerUpdate,
  NewTask |-> NewTask, NewResult |-> NewResult])
Subscribe == Rpc(
  Struct([session_id |-> Text, task_filters |-> Must(TaskFilters),
          result_filters |-> Must(ResultFilters), returned_events |-> Each(Code(EventsEnum))]),
  Struct([session_id |-> Text, update |-> Into(Update)]))

HealthCheck == Rpc(Empty, Code(ServingStatus))
Process == Rpc(
  Struct([communication_token |-> Text, session_id |-> Text, task_id |-> Text,
          task_options |-> Must(TaskOptions), expected_output_keys |-> Texts, payload_id |-> Text,
          data_dependencies |-> Texts, data_folder |-> Text, configuration |-> Must(Configuration)]),
  Struct([output |-> Must(Output)]))
User == Struct([username |-> Text, roles |-> Texts, permissions |-> Texts])
CurrentUser == Rpc(Empty, Struct([user |-> Must(User)]))
ServiceHealth == Struct([name |-> Text, message |-> Text, health |-> Into(Code(HealthStatus))])
CheckHealth == Rpc(Empty, Struct([services |-> Each(ServiceHealth)]))
VersionsList == Rpc(Empty, Struct([core |-> Text, api |-> Text]))
=============================================================================
