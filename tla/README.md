# A TLA+ verification of the ArmoniK API client and worker libraries

ArmoniK.Api holds the gRPC interface of the ArmoniK scheduler
(`src/Protos/V1`) and the libraries that applications use to talk to it, in
C#, C++, Python, Java and Rust. A *client* submits tasks to the control plane,
waits for results and downloads them. A *worker* is a server that the agent of
a compute node calls with a task: it reads the inputs from a folder it shares
with the agent, runs the user's code, may submit sub-tasks and sends results
back. The control plane and the agent are not in the repository; what the
models say of them is what the libraries assume, and is marked EXTERNAL.

The libraries keep little state of their own. What is hard in them is
concurrent and distributed: long-lived event streams that break, threads and
callbacks that share a list of missing ids, cancellation racing with everything
else, streams of messages whose order carries the meaning, files handed over
to another process. The models are about that.

## 1. Inventory

| Component | State | Operations | Interacts with | What makes it correct |
|---|---|---|---|---|
| Waiting for results: `EventsClientExt.cs`, `events.py`, `EventClient.java`, `EventsClient.cpp` | ids still missing per bucket, retry counter, cancellation, latch | subscribe, read an event, survive a broken or ended stream, give up, return | event service, caller's token, thread pool | a normal return means every result is completed; an abort is reported truthfully; nothing is lost on reconnection; the wait ends |
| Creating tasks: `SubmitterClientExt.cs`, `TaskRequestExtensions.cs`, `SubmitterClient.cpp`, `TaskHandler.cpp` | position in the batch and in the payload, one thread per payload (C++) | init, header, chunks, DataComplete, LastTask, completion | submitter or agent, caller's token | chunks rebuild the payloads; LastTask and a reply mean the whole batch |
| C# worker: `WorkerStreamWrapper.cs` | one `Process` call per task, the handler's task, the token, the delay | run, cancel, delay, answer, exit | agent, user's handler, the whole process | no handler outlives its call; only a cancelled call kills the process; a cancelled call is settled |
| Handing over results: `SendResult`, `send_result`, `send_results`, `notifyResultData` | files of the shared folder | write, notify | agent | what a successful call handed over is what it was given |
| Inputs of a task: `TaskHandler.cpp` constructor; lazy dictionaries in C# and Python | stream state, caches | read the payload and dependencies | files of the agent | each id gives the content of its own file |
| Worker servers: `ArmoniKWorker.cpp`, `worker.py`, `FutureWorker.java` | serving status | process, health check | agent | every task is answered; the health tells the truth |
| Result and session clients: `ResultsClientExt.cs`, `ResultsClient.cpp`, `TasksClient.cpp`, `SessionsClient.cpp`, `results.py`, `tasks.py` | page number, chunk position | upload, download, list with pages | control plane | chunks rebuild the data; paging visits each element once |
| Rust RPC layer: `rust/armonik/src/client`, `server` | request and response streams, the connection under them | the methods of twelve services, raw calls, unary, client-stream and server-stream; dropping a call; the cancellation token of a handler | tonic, the objects, the caller's task | the handler of the name runs, at most once; success is only the handler's; no stream is cut unnoticed; waits end where a timeout or keep-alive is configured |
| Rust objects: `rust/armonik/src/objects` | none | conversions to and from the messages of the `.proto` files | both sides of every call, peers in other languages | what is written means what the `.proto` says; round trips lose nothing, and relays nothing but what is known |
| Rust transport: `armonik-transport` | environment, arguments, configuration | read, validate, set up TLS, connect | files, rustls, hyper, tonic | a channel is as configured, or the caller gets an error and no panic |
| Other channels: `GrpcChannelFactory.cs`, `GrpcChannelProvider.cs`, `GrpcChannelBuilder.java`, `ChannelFactory.cpp` | configuration | validate, connect | files, TLS | the credentials used are the configured ones |
| Filters: `filter.py` | none | and, or, not, comparison | list requests | the normal form means the same |
| C# mock server | call counters | count, reset, serve | HTTP and gRPC | counts are exact under concurrency |
| Interface definitions, TypeScript packages, logging | | | | no logic of their own |

`PROJECT.json` gives every component with its files, and the hazards of the
code at their lines.

## 2. Modules

```
ResultEvents  (external event service)    ResultWait (what a wait promises)
   |      Buckets (cutting the ids)             ^
   |         |                                  | refinement
   +---------+-- CsWaitForResults --------------+--- CsWaitForResultsProof
   |         +-- JavaWaitForResults ------------+--- WaitsProof
   |         +-- PyWaitForResults --------------+. . . . . |
   +------------ CppWaitForResults . . . . . . . . . . . . |
TaskReceiver  (external receiving end)
   +-- CsTaskRequestStream  --- CsTaskRequestStreamProof
   +-- CppCreateTasks       --- CppProof
                CppTaskInputs . . . |
CsWorker       --- CsWorkerProof
ResultFile     --- ResultFileProof
RemoteCall (what a call promises)
   ^ refinement
RustServices -- RustRpc --- RustRpcProof
RustEnums -- RustTypes -- RustObjects -- RustMessages
RustTransport --- RustTransportProof
```

A dotted line is an `INSTANCE`: `WaitsProof` and `CppProof` extend one module and
instantiate the others, so that what these share is proved once.
`MC*` modules only give values to constants.

**ResultEvents** is the event service as its callers use it: a subscription is
answered with a snapshot (`NewResult`, current status) and then with updates.
Undelivered events are a set, so that every order is explored, and the service
may send the events of the ids asked for or of the whole session. A result is
completed or aborted once; a completed one may be deleted. A wait may begin at
any point of these lives. `Announced(c, r)` says that subscriber `c` can still
learn how `r` ended: an event that tells it is waiting in its stream.

**ResultWait** is the abstract promise: statuses evolve, and the call ends
once: normally if all awaited results have been completed or the caller
cancelled, with an abort only if one is aborted, or with a communication error.

**CsWaitForResults** (`EventsClientExt.WaitForResultsAsync`): `pc[b]` is the
await a bucket is parked at; one action for the loop condition, the response
headers, an event (ignored, completed, aborted), the end of the stream, an
`RpcException`, an `OperationCanceledException`, and for each way in which
`ParallelForEach` ends. `token` is the caller's, `cts` the linked source that
the `catch` cancels. `ParallelForEach` (another repository) may rethrow before
the other tasks have ended: they outlive the call in the model. Only `token` is
given to `GetEvents` and `MoveNext`: a bucket that reads is stopped by the
caller's cancellation and not by the failure of a sibling.

**PyWaitForResults**: `_wait_all` per batch, sequential when `parallelism` is 1
and on a pool otherwise (both are explored: it is chosen in `Init`), the
handler of `get_events`, `except RpcError`, the `else: break` of a stream that
ended, and the cancellation of pending futures. It refines `ResultWait` with
`token <- ends > 0`: a stream that the service ended stands for a caller that
gave up.

**JavaWaitForResults**: the worker thread of each chunk, its `CountDownLatch`
and the three callbacks of the stream observer, with the exception thrown in
`onNext` taking the path gRPC gives it (the stream is cancelled, `onError`).

**CppWaitForResults**: the only stream, with its `catch` inside the loop.

**TaskReceiver** is the other end of a task-creation stream. A payload is its
length and a chunk an interval of the payload it was cut from; a message that is
not in its place clears `intact`, and `got`, `complete` and `task` say how much
of each payload has come.

**CsTaskRequestStream**: the nested generators of the C# client and worker.
`side` says which of the two: only the client writes an empty chunk for an empty
payload and polls the token inside the generator of one task, leaving that
task and going on with the next one.

**CppCreateTasks**: the thread of the call, one thread per payload and the
writer, in the client and in the worker. `frame` is the stack frame of
`create_tasks_async`; what the worker's thread reads of its parameter
`task_options` once the frame is gone is a nondeterministic choice. The vector of
tasks, which the worker's thread refers to as well, belongs to the caller and is
taken as a value: the caller has to keep it.

**CsWorker**: `WorkerStreamWrapper.Process`. `first[c]` is the task that
decided the `WhenAny` the call awaits; it is fixed when that task completes and
looked at when the call resumes, so that a handler that stops in between is
covered. `Environment.Exit` kills all calls of the process. `grace` says
whether `AbortAfter` is positive.

**ResultFile**: files, notification and what the agent stores, for the four
workers, which differ in the way they open the file, notice failures and batch;
`HandedOver` says where each of them leaves the bytes of a send.
A byte is the number of the send it comes from. `swallowed` is a history
variable: results a write of which failed without anyone noticing.

**CppTaskInputs**: the one string stream, with its buffer and its `failbit`,
through which the C++ task handler reads all its inputs.

**RustServices** holds three tables of the twelve Rust services, one row per
service: `MethodTable` (what a client method makes of the response),
`CallTable` (the rpc that the `GrpcCall` of a request invokes, written by hand in each
`client/*.rs`) and `HandlerTable` (the handler that the server's generated trait
forwards an rpc to, written in each `server/*.rs`, and whether the rpc
streams). A method that is missing or leads to another handler is a difference
between tables that no compiler sees.

**RustRpc** is the life of calls on one channel: `Ask`, `Send`, the server's
`Dispatch` to a handler, the handler's steps, `Deliver`, and what may go wrong:
the connection is lost, goes silent or is reset, the caller times out or drops the
call. `config` says whether a timeout and a keep-alive are set; it is chosen in
`Init`. `Request` is what the client sends for a method: `upload` puts the
identifier before the data. A unary response is one frame: a loss between its head
and its body is not told apart from one before it.

**RemoteCall** is the abstract promise that `RustRpc` implements: the handler that
bears the name of the method runs at most once, and the caller is told the
handler's verdict or an error.

**RustEnums**, **RustTypes**, **RustObjects**: the enums with their codes in Rust
and in the `.proto` files; the shapes from which objects are built (fields,
options, lists, maps, oneofs) with `Write` and `Read`, the two directions of a
`From` impl; and the table of the objects, field by field. Where a
conversion is not of a general shape (a response with an error case, a map keyed
by name, an identifier repeated in every entry) it has an operator of its own.

**RustMessages** sends objects through these conversions: a Rust caller or a
peer in another language writes, a Rust process reads and may write again. The
meaning of a message is defined apart from `Read`: `Says(ty, w, v)` holds if the
message `w` says `v` to a reader that goes by the `.proto` files (their numbers,
their cases, presence and absence), and `Kept(ty, w, x)` if `x` says all that
`w` did. `Kept` leaves free exactly what the crate's conversions replace: a
message that is absent where the object holds it by value, a number that is in no
`.proto` file, a oneof that is not set, what comes with a case that has no
argument in Rust, the earlier entries of a repeated key, and the sessions of a notification
that names several.

**RustTransport**: `FromEnv`, one step of `FromConfigArgs` per option in the
order of the code (the first bad one is the error), the TLS set-up and
`Connect`. The text of an option is one of the classes that the code tells
apart.

Next to the definitions there are variants of some of them, each a plausible
bug and commented as such; no specification uses them. Putting one in the place
of the definition it varies breaks the property that `PROJECT.json` names,
which shows that the property depends on the code.

## 3. What is model-checked

| Run | Shows | Bounds |
|---|---|---|
| `cs_wait` | `AbortReportConsistent`, `RetriesExhausted`, `NothingMissed`, `CancelEnds`, `Terminates`, and that the C# wait implements `ResultWait` | 2 results, 2 buckets that share an id (the second never sees the other id as its own), parallelism 2, retry limit 1, 2 faults: enough to exhaust the limit in one bucket, or to break both |
| `py_wait` | `NothingMissed`, `AbortStopsTheRest`, `Terminates`, refinement of `ResultWait` | 2 batches of 1 id, parallelism 1 and 2, one failing and one ended stream |
| `java_wait` | `NoLostWakeup`, `NothingMissed`, `OneStreamAtATime`, `Terminates`, refinement of `ResultWait` | 2 chunks of 1 id on 2 threads, one fault: a broken or ended stream, and any number of streams that aborted results cancel |
| `cpp_wait` | `EarlyReturnNeedsBreak`, `NothingMissed`, `Terminates` | 3 results, 2 awaited, one foreign |
| `cs_stream` | `WireIntact`, `ReplyMeansAll` (with `LastMeansAll`), `Finishes`, client and worker | up to 3 tasks of 0 to 5 bytes, chunks of 2: an empty batch, empty payloads, exact multiples, one byte more, a middle task |
| `cpp_stream` | `WireIntact`, `FulfilledMeansAll`, `Finishes`, client and worker | up to 3 tasks of 0 to 3 bytes, chunks of 2 |
| `cs_worker` | `NoOrphanHandler`, `ReplyIsTheHandlers`, `OnlyCancelKills`, `CancelSettles` | 3 concurrent calls, delay positive or zero: one that exits, one caught in it, one already answered |
| `result_file` | `StoredIsSent`, `NeverMixed`, in the four workers | 2 results, 2 concurrent calls, 3 sends of 0 to 2 bytes: a result sent, sent again shorter, next to another |
| `rust_messages` | `SentAsMeantOtherwise`, `Echo`, `RelayFaithful` | every request, response and part of the crate; values that are default or full everywhere, or differ from that in one field; an unknown code (99), absent messages, repeated keys, both orders of a map; at most 2 conversions in a row (`MaxHops`), which is one process in between |
| `rust_rpc` | `NoSilentTruncation`, `NothingLost`, `Answered`, refinement of `RemoteCall` | each method of each service alone, the raw calls that differ from a method, a `watch_results` that only foreign clients send, and a unary call next to a download on the same channel; 2 data items up and 2 down, one loss of the connection: it falls before, between or after any items, and a second call meets the state the first left |
| `rust_transport` | `NoPanicInConnect`, `ConnectedAsConfigured` | up to 3 of the 18 options set in any of their classes, or one that is not unicode: options are checked one by one and few of them are looked at together (certificate and key, CA and `allow_unsafe_connection`, endpoint and override), so that three cover a pair and a bystander |

`WireIntact` says of both libraries that every message is in its place and that
`DataComplete` closes whole payloads only; in C++ the header of the next task
also follows whole payloads only, and in C# it cuts a payload short only if a
client's caller cancelled. `CancelEnds` says that every bucket of a wait whose
caller cancelled comes to its end, wherever the cancellation finds it.

`TypeOK`, `ReturnsComplete` and `EarlyReturnNeedsEnd` have no run of their own: the
first is proved, and the refinement of `ResultWait` that the runs check contains
the other two, which are proved as well.

The run `rust_filters`, and seven configurations beside the runs, show disagreements
between the code and its documentation or the interface it implements. Each
checks one property, which states what the documentation says, and TLC finds it
violated:

- `PyEnded.cfg` (`ReadyOnReturn`): a stream that the service ends without an error
  makes `wait_for_result_availability` return with results missing
  (`EarlyReturnNeedsEnd` says that nothing else does).
- `JavaAbort.cfg` (`AbortIsReported`): an aborted result makes the wait subscribe
  again for ever; the documented exception is thrown on a callback thread and
  does not reach the future.
- `CppOptions.cfg` (`OptionsAreTheCallers`): the worker's thread refers to the
  parameter `task_options` of a call that may have returned, and sends the batch
  with whatever it finds there. The client copies the options.
- `rust_filters` (`FilterSentAsMeant`): the statuses that a Rust caller of the
  submitter includes are written as the excluded ones, and conversely. They are
  read under their right names, so that even two Rust processes disagree.
- `RustSessionFields.cfg` (`SessionFieldSentAsMeant`): five fields of a session
  have the numbers 8 to 12 of other fields of `sessions_fields.proto`.
- `RustServerName.cfg` (`ValidHostIsServerName`): an override name whose host is a
  valid URI host and no server name panics in `connect`.
- `RustConnectTimeout.cfg` (`ConnectTimeoutIsOptional`): without `connect_timeout`
  there is a limit of 60 s, where the documentation of the argument says there is none.
- `RustUnsafe.cfg` (`UnsafeOnlyIfAllowed`): `http` endpoints are accepted whatever
  `allow_unsafe_connection` says.

The models also show behaviours that a user of the libraries should know of.
They are consequences of the code as it is; the properties are stated so as to
allow exactly them.

- C#: a bucket that reads goes on, and outlives the call, after another one
  failed; it stops with its own results or its stream.
- C# and Java: a result that is sent again is stored with the end of the first
  file (`OpenOrCreate`) or after it (append): `StoredIsSent` says that the new
  data is the beginning, or the end, of what is stored, and `NeverMixed` is about
  the workers that truncate.
- C++: one empty or missing input makes all later data dependencies of a task
  empty.
- Rust objects: a process that relays a message replaces what `Kept` leaves
  free by the crate's defaults (absent `TaskOptions` become options with one
  retry, every id of a notification gets the session of the first). Three
  objects hold more than their message can carry (`Arrives`): an error with an
  empty message in a task summary is read as success, the session of a
  notification without results is lost, and the results of an import
  are keyed by their names.
- Rust calls: without configuration there is neither a timeout nor a
  keep-alive, and a connection that dies silently keeps its callers waiting for
  ever; the timeout covers the wait for the head of the response and not the
  stream that follows. A cancelled upload may look to the handler like one
  that ended. Nothing is retried.
- Rust transport: the panic in `connect` (`NamesNoServer`) is that of every
  override that leads to a host that is neither a DNS name nor an address: an
  IPv6 address in its brackets, no host at all, a wildcard, a `~`, a label of
  more than 63 characters. `NoPanicInConnect` says that nothing else panics.

Deadlock checking is off in all runs: a call that has ended takes no step, and
a wait for a result that is never produced rightly stays where it is. That the
calls do end is what the liveness properties say.

**Fairness.** Weak fairness is given to the steps of the libraries'
own tasks, threads and callbacks (the runtimes schedule what is ready) and to
the delivery of what was sent on a stream that stays open. A C# call that was
given a cancelled token is told so (`CancelReported`), which is what gRPC does
with the token it is handed. Fairness is given neither
to faults, nor to the control plane's status changes, nor to the caller's
cancellation, nor to the user's handler in the worker, which may run for ever.
`Terminates` therefore assumes, in its own antecedent, that results reach a
final status. Faults are bounded in number (`MaxFaults`, `MaxErrors`,
`MaxEnds`): a service that fails for ever keeps the Python and Java waits busy
for ever by design.
In `RustRpc` it is on `Send`, `Dispatch`, `Deliver`, `ClientNotices` and
`Timeout` (the runtime polls what is ready, a live connection carries what is
sent, timers fire), and on nothing a handler or a caller decides.

## 4. What is proved

The theorems hold for every value of the constants, under the hypotheses that a
theorem itself states. No other assumption is made but the named ones on
constants (`BucketsAssumption`, `CsAssumption`, `JavaAssumption`,
`ReceiverAssumption`, `ResultFileAssumption`, `RpcAssumption`,
`ScenarioAssumption`, `MaxSetAssumption`): positive sizes, natural bounds,
sequences of the right elements, no item that is the mark of an end, requests
that the crate can make. All of them are evaluated by the runs.
`CppAssumption`, of a module that is instantiated, is a hypothesis of the
theorem that needs it.

**CsWaitForResultsProof.** `TypeCorrect`, `ReturnIsComplete`,
`AbortReportIsConsistent`, `RetriesAreExhausted`, `NothingIsMissed` and `Implementation` (refinement of `ResultWait`). The properties are not inductive:
that a bucket that is done has all its results completed rests on what the
events in flight may say. The invariant adds `TruthfulStreams` (an undelivered
terminal event is about a result that reached that status), `Accounting` (the
two lists of a bucket partition it and the completed one is right),
`EndReasons` (why a bucket ended), `CancelReasons` (who cancelled `cts`) and
`RetriesReal` (a counted failure happened). `BucketsCover` is the lemma that
cutting into buckets neither loses nor invents an id.

`NothingIsMissed` is the safety core of `Terminates`: a bucket that reads has ids
left, and each of them that has ended has its event ahead in the stream. It
cannot be read off the other invariants, which say that events are true and not
that they are there. `Watching` adds that the stream covers every missing id, so
that a status change puts its event there (`AnnouncedChange`), that the snapshot
of a new subscription makes up for what a broken one lost, and that reading
takes away the event of an id only together with the id.

**CsTaskRequestStreamProof.** `TypeCorrect`, `WireIsIntact`,
`LastTaskMeansAll`, `ReplyIsAboutAll`. The invariant relates the position of
the generator to what was received (`Position`, `Untouched`), says that
`DataComplete` follows whole payloads (`WholePayloads`), and that a task left
incomplete was abandoned because of a cancellation that was polled
(`NothingSkipped`): as the token stays cancelled, the last task is then
abandoned too, and `LastTask` is never sent. `CutByCancelKept` carries the same
reason over the receiver's side: a payload that a header cut short stays the
work of a cancellation.

**CsWorkerProof.** `NoHandlerIsOrphaned`, `RepliesAreTheHandlers`,
`OnlyCancellationKills`, for any number of calls. `CallInv` says what `first`
records: the process decided a `WhenAny` only if the handler has stopped, a
cancellation or a delay only if the call was cancelled.

**ResultFileProof.** `SentIsStored` and `TruncationNeverMixes`, in the four
workers, for any number of results, concurrent calls, sends and bytes. The
invariant: calls do not share results, a result being sent is not acknowledged,
and what a call has written is still in its files, where its library puts it,
when it notifies. `WrittenFacts` is the lemma about the three ways to open a file.

**WaitsProof.** The other three waits, for every set of results, list of ids,
bucket size, number of threads and of faults. All three rest on two groups of
lemmas. `ServiceInv`: a terminal event that is still undelivered is about a
result that reached that status, whatever is read, dropped, subscribed again or
changed meanwhile, and `Settled`: such a status is never taken back.
`Accounts`: the ids that left the list of a bucket were completed, so that
empty lists mean that every awaited result was.

- *Java*: `NoWakeupIsLost`, `StreamsDoNotOverlap`, `JavaNothingIsMissed` and
  `JavaImplementation` (refinement of `ResultWait`). Neither property is inductive without the other
  direction: `Handshake` says that a thread is blocked on its latch exactly
  while a call is alive and ids are missing. A callback that releases the latch
  therefore finds the thread that waits, and the next subscription finds no
  call.
- *Python*: `PythonEarlyReturnNeedsEnd`, `PythonAbortStopsTheRest`,
  `PythonNothingIsMissed` and `PythonImplementation` (refinement of
  `ResultWait`), on the pool and sequentially. `PythonEnds` says why each batch
  and the call ended; that an abort leaves no batch that could still begin is
  part of it. The refinement needs both: a return without an ended stream is
  complete, and a raise is about an awaited result that is aborted.
- *C++*: `CppEarlyReturnNeedsBreak`, `CppNothingIsMissed`. `CppInv` keeps the
  account of the only list; the error of an aborted result, which is caught where
  it is thrown, does not strike the id off. `NothingMissed` therefore excepts
  the aborted ids, whose event is gone while the call goes on. A
  refinement of `ResultWait` is not stated: a failed `Read` and the return are one
  step, in which the abstract caller would give up and return at once.

`JavaWatching`, `PythonWatching` and `CppWatching` play the part of `Watching`
above. They share the lemmas on `Announced`: a status change, a subscription,
a read and a step of another reader leave what is announced announced. The
theorems on Python and C++ are about instances of their modules (`Python!`,
`Cpp!`) with the constants of this module.

**CppProof.** `WireIsIntact` and `FulfilledIsComplete`, for every batch, payload and chunk size and every order of the threads, in the
client and in the worker. `Position` says where the writing thread stands;
`InStep` that, as long as the stream is not broken, the receiver is there too:
all before it is complete, all after it untouched, and of the current task it
has exactly what the messages so far carried (`Sent`). Nobody looks at what a
`Write` returns: that a fulfilled future means the whole batch rests on
`Finish` failing on a broken stream (`pc = "ok" => ~broken`). `ChunkFacts` and
`CeilingFacts` are the arithmetic of the chunks: they follow one another
without gap or overlap, are empty only for an empty payload, and end with it.
`InStepIsWhole` and `WholeKept` take from this that what is complete is whole,
also after a break, when the receiver is no longer in step.

`InputsAreNeverMixed` is about `CppTaskInputs`: whatever the number, order and
repetition of the dependencies, no input is another file's content, and if no
file is empty or missing none is lost. No run checks this module.

**RustTransportProof.** `PanicsAreNames` (`NoPanicInConnect`) and
`ConnectionIsConfigured` (`ConnectedAsConfigured`), however many options are
set together, where the run stops at three. The invariant `StageInv` says for
each stage what was established before it: `EnvRead` (texts that are readable
and flags), `Made(k)` (the first `k` steps gave no error and left their value
in the configuration, as a function of the environment alone: later steps do
not disturb it), `Secured` and `Settings` (what the connector and `connect`
made of the configuration). `MadeFacts` and `TargetFacts` then trace each
option from the environment to the channel.

**RustRpcProof.** `StreamsAreWhole` (`NoSilentTruncation`) and
`CallsAreRemoteCalls` (the refinement of `RemoteCall`), for any number of calls
on the channel, any requests, items and lost connections. The invariant says
where every item is. On the way up, what the handler has read, what is on its
way and what is still to be sent follow one another in the request (`Upward`,
with `Part`), so that the mark of the end can only come after everything. On
the way down, as long as the connection lives, what was read and what is on its
way are all that the handler made, and `done` is the last frame (`Downward`).
The refinement adds `Told`: no answer without a handler that ran, and a frame
that carries a verdict carries the handler's. That the handler is the one of
the request's name is a fact about the tables of `RustServices`, which
`EveryRequestHasItsHandler` establishes service by service: the call of every
request leads to an rpc that the server forwards to the handler of the same
name.

`NothingIsLost` (`NothingLost`) is the safety core of `Answered`: on a live
connection no side waits for what is not coming. It rests on `Shaped`, which
follows the three shapes of an rpc through a call: only a streamed response has a
head and items, only its caller goes on reading after a frame, and only the
handler of a streamed request runs before it was given all of it. A caller
that goes on reading therefore has a handler that needs no more of the request,
and took a frame that is not the answer, so that the answer is still there
(`EndsWithTail`). What `Answered` adds, that what is ahead also arrives, is the
fairness of `Send`, `Dispatch` and `Deliver`.

Only model-checked:

- liveness (`Terminates`, `CancelEnds`, `Finishes`, `CancelSettles`, `Answered`), which needs
  fairness and `ENABLED`;
- the Rust conversions (`SentAsMeantOtherwise`, `Echo`, `RelayFaithful`):
  `RustTypes` walks nested types with `RECURSIVE` operators, and what such an
  operator computes for every type is an induction over data.

## 5. Not modelled, and why

- `ParallelForEach`, `ToChunks`, `AsTask` (ArmoniK.Utils), the gRPC libraries,
  the control plane and the agent are external; only what their callers rely on
  is stated.
- Wording, logging, formatting, construction of requests from their fields.
- In Rust: serde's formats and the `Vec` wrappers of the objects, the request
  context (headers and extensions) handed to handlers, the owned and borrowed
  forms of the clients, and the inside of tonic, hyper and rustls.
- Interface definitions and the TypeScript packages, which hold generated code.
- The components listed as `not_modelled` in `PROJECT.json`, with their reasons.

## 6. What a continuation would add

The safety properties of all modelled components are proved, but for the Rust
conversions. In the order of the hazards that no property covers yet:

1. *Worker servers*: the serving status of `FutureWorker` under concurrent
   calls, the single thread of `worker.py`, the error paths of
   `ArmoniKWorker.cpp`, and the lazy caches of the C# and Python task handlers.
   Properties: a worker that runs a task does not say it is idle; it does not
   stay unavailable for ever; a cache returns the content of its file.
2. *Transfers*: upload and download of results in C#, C++ and Python,
   with the chunk loops, `GetResultAsync` and `get_result_async` (whether a
   stream that ends early is noticed), and the paging loops of the C++ clients.
   An abstract transfer that they, and the Rust calls, implement.
3. *Python filters*: the normal form of `and`, `or` and `not` against a
   reference definition.
4. *Channels* of C#, Java and C++, as one table per library and one
   specification that the Rust transport also satisfies.

Runs stay few: variants of one component are explored in one run, by a choice in
`Init`.
