---------------------------- MODULE TaskReceiver ----------------------------
(***************************************************************************)
(* The receiving end of a stream of task-creation requests: Submitter.     *)
(* CreateLargeTasks for a client, Agent.CreateTask for a worker.  EXTERNAL *)
(* code, modelled from the messages the senders of this repository write.  *)
(* A payload is its length; a data chunk is an interval of the payload it  *)
(* was cut from, so that a chunk of the wrong task, a gap, an overlap or a *)
(* message out of place clears `intact`.                                   *)
(***************************************************************************)
EXTENDS Naturals, Sequences

CONSTANTS Batches,      \* the batches a caller may ask to create
          ChunkMaxSize  \* Configuration.DataChunkMaxSize

ASSUME ReceiverAssumption ==
  /\ Batches \subseteq Seq(Nat)
  /\ ChunkMaxSize \in Nat \ {0}

VARIABLES payloads,     \* payloads[i]: length of the payload of task i
          opened,       \* has the InitRequest come?
          task,         \* the task whose header came last, 0 before any
          got,          \* got[i]: bytes of task i received so far
          complete,     \* the tasks whose DataComplete came
          last,         \* has LastTask come?
          intact        \* was every message in its place?

receiverVars == <<payloads, opened, task, got, complete, last, intact>>

Tasks == 1 .. Len(payloads)

ReceiverTypeOK ==
  /\ payloads \in Batches
  /\ opened \in BOOLEAN
  /\ task \in Tasks \cup {0}
  /\ got \in [Tasks -> Nat]
  /\ complete \in SUBSET Tasks
  /\ last \in BOOLEAN
  /\ intact \in BOOLEAN

ReceiverInit ==
  /\ payloads \in Batches
  /\ opened = FALSE
  /\ task = 0
  /\ got = [i \in Tasks |-> 0]
  /\ complete = {}
  /\ last = FALSE
  /\ intact = TRUE

ReceiveInitRequest ==
  /\ opened' = TRUE
  /\ intact' = (intact /\ ~opened)
  /\ UNCHANGED <<payloads, task, got, complete, last>>

ReceiveInitTask(i) ==
  /\ task' = i
  /\ intact' = (intact /\ opened /\ ~last /\ i = task + 1)
  /\ UNCHANGED <<payloads, opened, got, complete, last>>

\* An empty chunk is legal for an empty payload only.
ReceiveData(i, from, size) ==
  /\ got' = [got EXCEPT ![task] = @ + size]
  /\ intact' = (/\ intact
                /\ i = task
                /\ task \notin complete
                /\ from = got[task]
                /\ size <= ChunkMaxSize
                /\ size = 0 => payloads[task] = 0)
  /\ UNCHANGED <<payloads, opened, task, complete, last>>

ReceiveDataComplete ==
  /\ complete' = complete \cup {task}
  /\ intact' = (intact /\ task \notin complete)
  /\ UNCHANGED <<payloads, opened, task, got, last>>

ReceiveLastTask ==
  /\ last' = TRUE
  /\ intact' = (intact /\ ~last /\ task \in complete)
  /\ UNCHANGED <<payloads, opened, task, got, complete>>

\* Everything the caller asked for has arrived.
AllReceived == complete = Tasks /\ \A i \in Tasks : got[i] = payloads[i]
=============================================================================
