--------------------------- MODULE CppCreateTasks ---------------------------
(***************************************************************************)
(* create_tasks_async of the C++ libraries: SubmitterClient (client) and   *)
(* TaskHandler (worker).  The function returns a future at once; its       *)
(* thread launches one more thread per task (task_chunk_stream), each of   *)
(* which cuts one payload, and writes what they produce in the order of    *)
(* the batch.  What Write returns is ignored: a broken stream swallows the *)
(* rest and only Finish tells.                                             *)
(*                                                                         *)
(* The client's thread owns copies of the options and of the requests.     *)
(* The worker's captures both by reference.  task_options is a parameter   *)
(* by value: once create_tasks_async has returned, what the thread reads   *)
(* of it is undefined.  task_requests is the caller's own vector; the      *)
(* model takes a caller that keeps it until the future is ready.           *)
(***************************************************************************)
EXTENDS TaskReceiver

VARIABLES side,         \* "client" or "worker"
          pc,           \* "launch", "write", "finish", "ok", "error"
          frame,        \* is the frame of create_tasks_async alive?
          options,      \* options written: "none", "caller" or "garbage"
          ready,        \* tasks whose vector of messages is computed
          next,         \* task being written, 0 for the InitRequest
          pos,          \* its next message
          broken        \* is the stream broken?

senderVars == <<side, pc, frame, options, ready, next, pos, broken>>
vars == <<receiverVars, senderVars>>

Init ==
  /\ ReceiverInit
  /\ side \in {"client", "worker"}
  /\ pc = "launch"
  /\ frame = TRUE
  /\ options = "none"
  /\ ready = {}
  /\ next = 0
  /\ pos = 1
  /\ broken = FALSE

-----------------------------------------------------------------------------
\* The vector task_chunk_stream computes for task i: a header, the chunks
\* (one, empty, for an empty payload), DataComplete and, for the last task
\* of the batch, LastTask.
NumChunks(i) ==
  IF payloads[i] = 0 THEN 1 ELSE (payloads[i] + ChunkMaxSize - 1) \div ChunkMaxSize

\* Mutant of ChunkStart: the position of the next chunk.
ChunkStartNext(j) == j * ChunkMaxSize

ChunkStart(j) == (j - 1) * ChunkMaxSize

ChunkSize(i, j) ==
  IF ChunkMaxSize <= payloads[i] - ChunkStart(j)
  THEN ChunkMaxSize
  ELSE payloads[i] - ChunkStart(j)

NumMessages(i) == NumChunks(i) + IF i = Len(payloads) THEN 3 ELSE 2

\* Message m of task i reaches the other side.
Deliver(i, m) ==
  \/ m = 1 /\ ReceiveInitTask(i)
  \/ m \in 2 .. NumChunks(i) + 1
       /\ ReceiveData(i, ChunkStart(m - 1), ChunkSize(i, m - 1))
  \/ m = NumChunks(i) + 2 /\ ReceiveDataComplete
  \/ m = NumChunks(i) + 3 /\ ReceiveLastTask

-----------------------------------------------------------------------------
\* create_tasks_async returns its future and its parameters die.
ReturnFuture ==
  /\ frame
  /\ frame' = FALSE
  /\ UNCHANGED <<receiverVars, side, pc, options, ready, next, pos, broken>>

\* GetServiceConfiguration fails (client only): the future throws.
ConfigurationFails ==
  /\ pc = "launch"
  /\ side = "client"
  /\ pc' = "error"
  /\ UNCHANGED <<receiverVars, side, frame, options, ready, next, pos, broken>>

\* to_request_stream: the options are moved from and the threads launched.
Launch ==
  /\ pc = "launch"
  /\ options' \in IF side = "worker" /\ ~frame THEN {"caller", "garbage"} ELSE {"caller"}
  /\ pc' = "write"
  /\ UNCHANGED <<receiverVars, side, frame, ready, next, pos, broken>>

\* The thread of task i finishes.
Compute(i) ==
  /\ pc = "write"
  /\ i \notin ready
  /\ ready' = ready \cup {i}
  /\ UNCHANGED <<receiverVars, side, pc, frame, options, next, pos, broken>>

Advance(more) ==
  /\ IF more THEN pos' = pos + 1 /\ UNCHANGED next
             ELSE pos' = 1 /\ next' = next + 1
  /\ pc' = IF ~more /\ next = Len(payloads) THEN "finish" ELSE pc
  /\ UNCHANGED <<side, frame, options, ready, broken>>

WriteInit ==
  /\ pc = "write"
  /\ next = 0
  /\ IF broken THEN UNCHANGED receiverVars ELSE ReceiveInitRequest
  /\ Advance(FALSE)

\* f.get() waits for the thread of the task, then Write each message.
WriteTask ==
  /\ pc = "write"
  /\ next \in ready
  /\ IF broken THEN UNCHANGED receiverVars ELSE Deliver(next, pos)
  /\ Advance(pos < NumMessages(next))

Break ==
  /\ pc \in {"write", "finish"}
  /\ ~broken
  /\ broken' = TRUE
  /\ UNCHANGED <<receiverVars, side, pc, frame, options, ready, next, pos>>

\* Mutants of Finish: the status is ignored; without WritesDone, Finish only
\* returns for a broken stream.
FinishIgnoresStatus ==
  /\ pc = "finish"
  /\ pc' = "ok"
  /\ UNCHANGED <<receiverVars, side, frame, options, ready, next, pos, broken>>

FinishWithoutWritesDone ==
  /\ pc = "finish"
  /\ broken
  /\ pc' = "error"
  /\ UNCHANGED <<receiverVars, side, frame, options, ready, next, pos, broken>>

\* WritesDone and Finish: a status that is not ok makes the future throw.
Finish ==
  /\ pc = "finish"
  /\ pc' = IF broken THEN "error" ELSE "ok"
  /\ UNCHANGED <<receiverVars, side, frame, options, ready, next, pos, broken>>

WriterStep == Launch \/ WriteInit \/ WriteTask \/ Finish

Next ==
  \/ ReturnFuture \/ ConfigurationFails \/ WriterStep \/ Break
  \/ \E i \in Tasks : Compute(i)

Spec == Init /\ [][Next]_vars

\* Threads run; a Write returns.
FairSpec == Spec /\ WF_vars(WriterStep) /\ WF_vars(\E i \in Tasks : Compute(i))

-----------------------------------------------------------------------------
\* Whatever the order in which the threads finish, the messages are written
\* in the order of the batch, and DataComplete, or the header of the next task,
\* follows a payload that the chunks rebuild whole.
WireIntact ==
  /\ intact
  /\ \A i \in complete : got[i] = payloads[i]
  /\ \A i \in Tasks : i < task => i \in complete

\* LastTask follows complete payloads only, and the future is fulfilled only
\* when the whole batch went through, although writes are not checked.
FulfilledMeansAll ==
  /\ last => AllReceived
  /\ pc = "ok" => AllReceived /\ opened /\ (Len(payloads) > 0 => last)

\* The future is fulfilled or throws.
Finishes == <>(pc \in {"ok", "error"})

\* "task_options: The Task Options used for this batch of tasks": a batch that the
\* other side has seen begin was sent with the options that the caller passed.
OptionsAreTheCallers == opened => options = "caller"
=============================================================================
