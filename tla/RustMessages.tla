---------------------------- MODULE RustMessages ----------------------------
(***************************************************************************)
(* Messages on their way through processes that use the Rust crate.  A     *)
(* message starts as an object of a Rust caller, or on the wire from a     *)
(* peer in another language that may use every code and case of the        *)
(* .proto files, leave messages out and repeat keys.  Each Rust process    *)
(* reads it and may write it again, as an agent or a proxy does.           *)
(***************************************************************************)
EXTENDS RustObjects

CONSTANT MaxHops   \* how many times a message is read

ASSUME HopsAssumption == MaxHops \in Nat

VARIABLES kind,    \* the object type: <<rpc, request or response>> or <<object, part>>
          held,    \* <<v>>: the object a Rust process has in its hands
          wire,    \* <<w>>: the message on the wire
          sent,    \* <<v>>: the object that was last written
          origin,  \* <<w>>: the message as the peer wrote it
          hops

vars == <<kind, held, wire, sent, origin, hops>>

\* The rpcs whose request and response are modelled together.
Rpcs == [
  SubmitterCancelSession |-> SubmitterCancelSession, SubmitterCancelTasks |-> SubmitterCancelTasks,
  SubmitterCountTasks |-> SubmitterCountTasks, SubmitterCreateSession |-> SubmitterCreateSession,
  SubmitterGetServiceConfiguration |-> SubmitterGetServiceConfiguration,
  SubmitterListSessions |-> SubmitterListSessions, SubmitterListTasks |-> SubmitterListTasks,
  SubmitterResultStatus |-> SubmitterResultStatus, SubmitterTaskStatus |-> SubmitterTaskStatus,
  TryGetResult |-> TryGetResult, TryGetTaskOutput |-> TryGetTaskOutput,
  WaitForAvailability |-> WaitForAvailability, WaitForCompletion |-> WaitForCompletion,
  AgentCreateResults |-> AgentCreateResults, GetCommonData |-> GetCommonData,
  AgentCreateResultsMetadata |-> AgentCreateResultsMetadata, GetDirectData |-> GetDirectData,
  GetResourceData |-> GetResourceData, NotifyResultData |-> NotifyResultData,
  AgentSubmitTasks |-> AgentSubmitTasks, ResultsCreate |-> ResultsCreate,
  ResultsCreateMetadata |-> ResultsCreateMetadata, ResultsDeleteData |-> ResultsDeleteData,
  ResultsDownload |-> ResultsDownload, ResultsGet |-> ResultsGet, GetOwnerTaskId |-> GetOwnerTaskId,
  ResultsGetServiceConfiguration |-> ResultsGetServiceConfiguration, ResultsList |-> ResultsList,
  TasksCancel |-> TasksCancel, TasksCountStatus |-> TasksCountStatus, TasksGet |-> TasksGet,
  GetResultIds |-> GetResultIds, TasksList |-> TasksList, TasksListDetailed |-> TasksListDetailed,
  TasksSubmit |-> TasksSubmit, SessionsCancel |-> SessionsCancel, SessionsClose |-> SessionsClose,
  SessionsDelete |-> SessionsDelete, SessionsGet |-> SessionsGet, SessionsPause |-> SessionsPause,
  SessionsPurge |-> SessionsPurge, SessionsResume |-> SessionsResume,
  SessionsCreate |-> SessionsCreate, SessionsList |-> SessionsList,
  StopSubmission |-> StopSubmission, PartitionsGet |-> PartitionsGet,
  PartitionsList |-> PartitionsList, ApplicationsList |-> ApplicationsList, Subscribe |-> Subscribe,
  HealthCheck |-> HealthCheck, Process |-> Process, CurrentUser |-> CurrentUser,
  CheckHealth |-> CheckHealth, VersionsList |-> VersionsList,
  ResultsImport |-> Rpc(ImportRequest, ImportResponse),
  ResultsUpload |-> Rpc(UploadRequest, UploadResponse),
  SubmitterCreateSmallTasks |-> Rpc(SmallRequest, CreateTasksResponse),
  SubmitterCreateLargeTasks |-> Rpc(LargeRequest, CreateTasksResponse),
  AgentCreateTasks |-> Rpc(AgentCreateTasksRequest, AgentCreateTasksResponse)]

\* Objects that are not a request or a response themselves.
Parts == [
  InitKeyedDataStream |-> InitKeyedDataStream, Session |-> Session, TaskIdList |-> TaskIdList,
  TaskList |-> TaskList, TaskIdWithStatus |-> TaskIdWithStatus, ResultRequest |-> ResultRequest,
  TaskOutputRequest |-> TaskOutputRequest, TaskSummary |-> TaskSummary,
  CreationStatus |-> CreationStatus, AgentCreationStatus |-> AgentCreationStatus]

Kinds == ((DOMAIN Rpcs) \X {"request", "response"}) \cup ((DOMAIN Parts) \X {"part"})
Type == IF kind[2] = "part" THEN Parts[kind[1]] ELSE Rpcs[kind[1]][kind[2]]

-----------------------------------------------------------------------------
Init ==
  /\ kind \in Kinds
  /\ \/ held \in {<<v>> : v \in RustValues(Type)} /\ wire = <<>>
     \/ wire \in {<<w>> : w \in WireValues(Type)} /\ held = <<>>
  /\ sent = <<>> /\ origin = wire /\ hops = 0

\* into_request, or the reply of a service
Encode ==
  /\ held # <<>> /\ hops < MaxHops
  /\ \E turned \in BOOLEAN : wire' = <<Write(Type, held[1], turned)>>
  /\ sent' = held
  /\ held' = <<>>
  /\ UNCHANGED <<kind, origin, hops>>

\* into_inner().into()
Decode ==
  /\ wire # <<>>
  /\ held' = <<Read(Type, wire[1])>>
  /\ wire' = <<>>
  /\ hops' = hops + 1
  /\ UNCHANGED <<kind, sent, origin>>

Next == Encode \/ Decode

Spec == Init /\ [][Next]_vars

-----------------------------------------------------------------------------
(* What messages mean, by the .proto files alone: the numbers of an        *)
(* enumeration, the cases of a oneof, the presence of a message, the       *)
(* entries of a repeated field.  Nothing of Read, Write or Default is used.*)
RECURSIVE Says(_, _, _), Kept(_, _, _)

ProtoCodes(enum) == {enum.proto[n] : n \in DOMAIN enum.proto}

SaysField(field, w, v) ==
  CASE field.kind = "into" -> Says(field.ty, w, v)
    [] field.kind = "must" -> Len(w) = 1 /\ Says(field.ty, w[1], v)
    [] OTHER -> Len(w) = Len(v) /\ \A i \in DOMAIN w : Says(field.ty, w[i], v[i])

\* The message w says what the object v is.  A summary tells a success from an
\* error by the text of the error alone, and the keys of imported results are in
\* no message.
Says(ty, w, v) ==
  CASE ty.t = "scalar" -> w = v
    [] ty.t = "unit" -> w = "true"
    [] ty.t = "code" -> w = ty.enum.proto[v]
    [] ty.t = "text" -> w = IF v[1] = "Success" THEN "zero" ELSE v[2]
    [] ty.t = "oneof" -> w[1] = ty.named[v[1]] /\ Says(ty.args[v[1]], w[2], v[2])
    [] ty.t = "map" ->
         /\ Len(w) = Cardinality(DOMAIN v)
         /\ \A k \in DOMAIN v : \E i \in DOMAIN w :
              Says(ty.key, w[i][1], k) /\ Says(ty.val, w[i][2], v[k])
    [] ty.t = "indexed" ->
         /\ Len(w) = Cardinality(DOMAIN v)
         /\ \A k \in DOMAIN v : \E i \in DOMAIN w : Says(ty.item, w[i], v[k])
         /\ \A i \in DOMAIN w : \E k \in DOMAIN v : Says(ty.item, w[i], v[k])
    [] ty.t = "notify" ->
         /\ w.token = v.token
         /\ w.ids = [i \in DOMAIN v.result_ids |-> <<v.session_id, v.result_ids[i]>>]
    [] ty.t = "struct" -> \A f \in DOMAIN ty.fields : SaysField(ty.fields[f], w[f], v[f])

KeptField(field, old, new) ==
  CASE field.kind = "into" -> Kept(field.ty, old, new)
    [] field.kind = "must" -> old # <<>> => new # <<>> /\ Kept(field.ty, old[1], new[1])
    [] OTHER -> Len(new) = Len(old) /\ \A i \in DOMAIN old : Kept(field.ty, old[i], new[i])

\* The variant that bears the name of a case.
Bearing(ty, case) == CHOOSE v \in DOMAIN ty.named : ty.named[v] = case

\* The entries of a repeated field that no later one repeats the key of.
Latest(w, Key(_)) ==
  {i \in DOMAIN w : \A j \in DOMAIN w : Key(w[j]) = Key(w[i]) => j <= i}

\* All that the .proto files give a meaning in the message old is in new.  Free
\* are only: a message that the object holds by value and that old leaves out, a
\* number that is in no .proto file, a oneof without a case that Rust has no
\* variant for, what comes with a case that has no argument, all but the last
\* entry of a key, and the sessions of a notification that names several.
Kept(ty, old, new) ==
  CASE ty.t \in {"scalar", "text"} -> new = old
    [] ty.t = "unit" -> TRUE
    [] ty.t = "code" -> old \in ProtoCodes(ty.enum) => new = old
    [] ty.t = "oneof" ->
         IF old[1] = "None" THEN "Invalid" \in DOMAIN ty.args => new[1] = "None"
         ELSE new[1] = old[1] /\ Kept(ty.args[Bearing(ty, old[1])], old[2], new[2])
    [] ty.t = "map" ->
         LET Key(entry) == entry[1]
             latest == Latest(old, Key)
         IN (ty.key.t = "code" => \A i \in DOMAIN old : Key(old[i]) \in ProtoCodes(ty.key.enum)) =>
              /\ Len(new) = Cardinality(latest)
              /\ \A i \in latest : \E j \in DOMAIN new :
                   Key(new[j]) = Key(old[i]) /\ Kept(ty.val, old[i][2], new[j][2])
    [] ty.t = "indexed" ->
         LET Key(item) == item[ty.by]
             latest == Latest(old, Key)
         IN /\ Len(new) = Cardinality(latest)
            /\ \A i \in latest : \E j \in DOMAIN new : Kept(ty.item, old[i], new[j])
    [] ty.t = "notify" ->
         /\ new.token = old.token
         /\ Len(new.ids) = Len(old.ids)
         /\ \A i \in DOMAIN old.ids : new.ids[i][2] = old.ids[i][2]
         /\ (\A i, j \in DOMAIN old.ids : old.ids[i][1] = old.ids[j][1]) => new.ids = old.ids
    [] ty.t = "struct" -> \A f \in DOMAIN ty.fields : KeptField(ty.fields[f], old[f], new[f])

-----------------------------------------------------------------------------
(* Properties.                                                             *)

\* What may arrive of an object v, where the messages cannot carry all of it:
\* the empty error message of a summary, the session of a notification without
\* results, the keys of imported results and all but one of those of a name.
Arrives(v) ==
  CASE kind = <<"TaskSummary", "part">> /\ v.output = <<"Error", "zero">> ->
         {[v EXCEPT !.output = <<"Success", "unit">>]}
    [] kind = <<"NotifyResultData", "request">> /\ v.result_ids = <<>> -> {[v EXCEPT !.session_id = "zero"]}
    [] kind = <<"ResultsImport", "response">> ->
         LET items == {v[k] : k \in DOMAIN v} IN
         {f \in [{i.name : i \in items} -> items] : \A n \in DOMAIN f : f[n].name = n}
    [] OTHER -> {v}

\* The kinds with a filter of the submitter, whose cases are exchanged.
WithInvertedFilter ==
  {"SubmitterCancelTasks", "SubmitterCountTasks", "SubmitterListTasks", "SubmitterListSessions",
   "WaitForCompletion"} \X {"request"}

\* The kinds with a field of a session, five of which have other codes than in
\* sessions_fields.proto.
WithSessionField == {<<"SessionsList", "request">>}

\* What Rust writes, a reader that goes by the .proto files takes for what Rust
\* meant: the discriminants of every enum, the case of every oneof, the presence
\* of every message.
SentAsMeant == wire # <<>> /\ sent # <<>> => Says(Type, wire[1], sent[1])

\* SentAsMeant but for the filters of the submitter and the fields of sessions.
SentAsMeantOtherwise == kind \notin WithInvertedFilter \cup WithSessionField => SentAsMeant

\* SentAsMeant for the filters of the submitter: the statuses a caller includes
\* are not taken for those it excludes.
FilterSentAsMeant == kind \in WithInvertedFilter => SentAsMeant

\* SentAsMeant for the lists of sessions: the service sorts and filters them by the
\* field that the caller named.
SessionFieldSentAsMeant == kind \in WithSessionField => SentAsMeant

\* A Rust process reads what another Rust process wrote, whatever the order in
\* which its maps were iterated.
Echo ==
  held # <<>> /\ sent # <<>> /\ kind \notin WithInvertedFilter => held[1] \in Arrives(sent[1])

\* A Rust process in between passes on every part of a peer's message that the
\* .proto files give a meaning, also next to parts that it does not understand:
\* a number or a case that the crate has not learnt would be lost here.  What the
\* conversions do replace by a default is what Kept leaves free.
RelayFaithful ==
  wire # <<>> /\ sent # <<>> /\ origin # <<>> /\ kind \notin WithInvertedFilter
    => Kept(Type, origin[1], wire[1])
=============================================================================
