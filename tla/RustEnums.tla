----------------------------- MODULE RustEnums ------------------------------
(***************************************************************************)
(* The enumerations of the Rust crate.  On the wire an enumeration is an   *)
(* i32.  Rust sends the discriminant of its own enum (`value as i32`) and  *)
(* reads a number with a hand-written From<i32>, whose arms list the same  *)
(* pairs and whose last arm takes every other number; neither is checked   *)
(* against the protocol by the compiler.                                   *)
(*   codes    discriminants, and arms of From<i32>                         *)
(*   unknown  what the last arm gives                                      *)
(*   default  the variant marked #[default]                                *)
(*   proto    the codes of the .proto file, under the same names           *)
(***************************************************************************)
EXTENDS Integers, Sequences, SequencesExt, TLC

\* The names of a list, numbered from 0.
FromZero(names) == [n \in ToSet(names) |-> (CHOOSE i \in DOMAIN names : names[i] = n) - 1]

Enum(codes, unknown, default, proto) ==
  [codes |-> codes, unknown |-> unknown, default |-> default, proto |-> proto]

\* An enumeration whose codes are 0, 1, 2... on both sides, read with
\* `_ => Default::default()`.
Plain(names, proto) == Enum(FromZero(names), names[1], names[1], FromZero(proto))

\* An enumeration of fields: `_ => Self::Unspecified`.
Fields(codes, default, proto) == Enum(codes, "Unspecified", default, proto)

-----------------------------------------------------------------------------
(* The .proto files.                                                       *)
ProtoTaskStatus == <<"Unspecified", "Creating", "Submitted", "Dispatched", "Completed", "Error",
  "Timeout", "Cancelling", "Cancelled", "Processing", "Processed", "Retried", "Pending", "Paused">>
ProtoResultStatus ==
  FromZero(<<"Unspecified", "Created", "Completed", "Aborted", "Deleted">>) @@ ("NotFound" :> 127)
ProtoSessionStatus ==
  <<"Unspecified", "Running", "Cancelled", "Paused", "Closed", "Purged", "Deleted">>
ProtoSessionRawField == FromZero(<<"Unspecified", "SessionId", "Status", "PartitionIds", "Options",
  "CreatedAt", "CancelledAt", "Duration", "ClosedAt", "PurgedAt", "DeletedAt", "WorkerSubmission",
  "ClientSubmission">>)
ProtoTaskSummaryField == FromZero(<<"Unspecified", "SessionId", "Status", "CreatedAt", "StartedAt",
  "EndedAt", "CreationToEndDuration", "ProcessingToEndDuration", "Error", "OwnerPodId",
  "InitialTaskId", "SubmittedAt", "PodTtl", "PodHostname", "ReceivedAt", "AcquiredAt", "TaskId",
  "ProcessedAt", "ReceivedToEndDuration", "FetchedAt", "PayloadId", "CreatedBy">>)
ProtoTaskOptionField == FromZero(<<"Unspecified", "MaxDuration", "MaxRetries", "Priority",
  "PartitionId", "ApplicationName", "ApplicationVersion", "ApplicationNamespace",
  "ApplicationService", "ApplicationEngine">>)
ProtoResultField == FromZero(<<"Unspecified", "SessionId", "Name", "OwnerTaskId", "Status",
  "CreatedAt", "CompletedAt", "ResultId", "Size", "CreatedBy", "OpaqueId", "ManualDeletion">>)
ProtoPartitionField == FromZero(<<"Unspecified", "Id", "ParentPartitionIds", "PodReserved", "PodMax",
  "PreemptionPercentage", "Priority">>)
ProtoApplicationField == FromZero(<<"Unspecified", "Name", "Version", "Namespace", "Service">>)
ProtoEventsEnum == <<"Unspecified", "NewTask", "TaskStatusUpdate", "NewResult",
  "ResultStatusUpdate", "ResultOwnerUpdate">>
ProtoHealthStatus == <<"Unspecified", "Healthy", "Degraded", "Unhealthy">>
ProtoServingStatus == <<"Unknown", "Serving", "NotServing">>
ProtoSortDirection == FromZero(<<"Unspecified", "Asc", "Desc">>)
ProtoStringOperator ==
  <<"Equal", "NotEqual", "Contains", "NotContains", "StartsWith", "EndsWith">>
ProtoNumberOperator == <<"Equal", "NotEqual", "LessThan", "LessThanOrEqual",
  "GreaterThanOrEqual", "GreaterThan">>
ProtoDateOperator ==
  <<"Equal", "NotEqual", "Before", "BeforeOrEqual", "AfterOrEqual", "After">>
ProtoDurationOperator == <<"Equal", "NotEqual", "ShorterThan", "ShorterThanOrEqual",
  "LongerThanOrEqual", "LongerThan">>
ProtoArrayOperator == <<"Contains", "NotContains">>
ProtoStatusOperator == <<"Equal", "NotEqual">>
ProtoBooleanOperator == <<"Is">>

-----------------------------------------------------------------------------
(* The Rust enumerations.                                                  *)
TaskStatus == Plain(<<"Unspecified", "Creating", "Submitted", "Dispatched", "Completed", "Error",
  "Timeout", "Cancelling", "Cancelled", "Processing", "Processed", "Retried", "Pending", "Paused">>,
  ProtoTaskStatus)

ResultStatus ==
  Enum([Unspecified |-> 0, Created |-> 1, Completed |-> 2, Aborted |-> 3, Deleted |-> 4,
        NotFound |-> 127], "Unspecified", "Unspecified", ProtoResultStatus)

SessionStatus == Plain(<<"Unspecified", "Running", "Cancelled", "Paused", "Closed", "Purged",
  "Deleted">>, ProtoSessionStatus)

\* Two variants with each other's codes.
SummaryFieldSwapped == Fields([Unspecified |-> 0, TaskId |-> 16, SessionId |-> 1, OwnerPodId |-> 9,
  InitialTaskId |-> 10, Status |-> 2, CreatedAt |-> 3, SubmittedAt |-> 11, StartedAt |-> 5,
  EndedAt |-> 4, CreationToEndDuration |-> 6, ProcessingToEndDuration |-> 7,
  ReceivedToEndDuration |-> 18, PodTtl |-> 12, PodHostname |-> 13, ReceivedAt |-> 14,
  AcquiredAt |-> 15, ProcessedAt |-> 17, FetchedAt |-> 19, Error |-> 8, PayloadId |-> 20,
  CreatedBy |-> 21], "TaskId", ProtoTaskSummaryField)

SummaryField == Fields([Unspecified |-> 0, TaskId |-> 16, SessionId |-> 1, OwnerPodId |-> 9,
  InitialTaskId |-> 10, Status |-> 2, CreatedAt |-> 3, SubmittedAt |-> 11, StartedAt |-> 4,
  EndedAt |-> 5, CreationToEndDuration |-> 6, ProcessingToEndDuration |-> 7,
  ReceivedToEndDuration |-> 18, PodTtl |-> 12, PodHostname |-> 13, ReceivedAt |-> 14,
  AcquiredAt |-> 15, ProcessedAt |-> 17, FetchedAt |-> 19, Error |-> 8, PayloadId |-> 20,
  CreatedBy |-> 21], "TaskId", ProtoTaskSummaryField)

SessionRawField == Fields([Unspecified |-> 0, SessionId |-> 1, Status |-> 2, ClientSubmission |-> 8,
  WorkerSubmission |-> 9, PartitionIds |-> 3, Options |-> 4, CreatedAt |-> 5, CancelledAt |-> 6,
  ClosedAt |-> 12, PurgedAt |-> 10, DeletedAt |-> 11, Duration |-> 7],
  "SessionId", ProtoSessionRawField)

TaskOptionField == Fields(FromZero(<<"Unspecified", "MaxDuration", "MaxRetries", "Priority",
  "PartitionId", "ApplicationName", "ApplicationVersion", "ApplicationNamespace",
  "ApplicationService", "ApplicationEngine">>), "Unspecified", ProtoTaskOptionField)

ResultField == Fields(FromZero(<<"Unspecified", "SessionId", "Name", "OwnerTaskId", "Status",
  "CreatedAt", "CompletedAt", "ResultId", "Size", "CreatedBy", "OpaqueId", "ManualDeletion">>),
  "ResultId", ProtoResultField)

PartitionField == Fields(FromZero(<<"Unspecified", "Id", "ParentPartitionIds", "PodReserved",
  "PodMax", "PreemptionPercentage", "Priority">>), "Id", ProtoPartitionField)

ApplicationField == Fields(FromZero(<<"Unspecified", "Name", "Version", "Namespace", "Service">>),
  "Name", ProtoApplicationField)

EventsEnum == Plain(<<"Unspecified", "NewTask", "TaskStatusUpdate", "NewResult",
  "ResultStatusUpdate", "ResultOwnerUpdate">>, ProtoEventsEnum)

\* Degraded known to the protocol only.
HealthStatusBehind == Enum([Unspecified |-> 0, Healthy |-> 1, Unhealthy |-> 3], "Unspecified",
  "Unspecified", FromZero(ProtoHealthStatus))

HealthStatus == Plain(<<"Unspecified", "Healthy", "Degraded", "Unhealthy">>, ProtoHealthStatus)

ServingStatus == Plain(<<"Unknown", "Serving", "NotServing">>, ProtoServingStatus)

SortDirection == Fields([Unspecified |-> 0, Asc |-> 1, Desc |-> 2], "Asc", ProtoSortDirection)

FilterStringOperator == Plain(<<"Equal", "NotEqual", "Contains", "NotContains", "StartsWith",
  "EndsWith">>, ProtoStringOperator)
FilterNumberOperator == Plain(<<"Equal", "NotEqual", "LessThan", "LessThanOrEqual",
  "GreaterThanOrEqual", "GreaterThan">>, ProtoNumberOperator)
FilterDateOperator == Plain(<<"Equal", "NotEqual", "Before", "BeforeOrEqual", "AfterOrEqual",
  "After">>, ProtoDateOperator)
FilterDurationOperator == Plain(<<"Equal", "NotEqual", "ShorterThan", "ShorterThanOrEqual",
  "LongerThanOrEqual", "LongerThan">>, ProtoDurationOperator)
FilterArrayOperator == Plain(<<"Contains", "NotContains">>, ProtoArrayOperator)
FilterStatusOperator == Plain(<<"Equal", "NotEqual">>, ProtoStatusOperator)
FilterBooleanOperator == Plain(<<"Is">>, ProtoBooleanOperator)

\* value as i32
AsI32(e, name) == e.codes[name]

\* From<i32>
FromI32(e, i) ==
  IF \E n \in DOMAIN e.codes : e.codes[n] = i
  THEN CHOOSE n \in DOMAIN e.codes : e.codes[n] = i
  ELSE e.unknown
=============================================================================
