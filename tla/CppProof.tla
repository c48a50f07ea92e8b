------------------------------ MODULE CppProof ------------------------------
(***************************************************************************)
(* Proofs about the C++ libraries.  create_tasks_async, client and worker: *)
(* for every batch of payloads, every chunk size and every order in which  *)
(* the threads finish.  The constructor of the worker's TaskHandler: for   *)
(* any number of data dependencies, in any order and with repetitions; it  *)
(* is instantiated with variables of its own.                              *)
(***************************************************************************)
EXTENDS CppCreateTasks, TLAPS

CONSTANTS Payload, Deps, MaxDeps
VARIABLES disk, order, read, buffer, failbit, payload, deps

Inputs == INSTANCE CppTaskInputs

-----------------------------------------------------------------------------
(* create_tasks_async.                                                     *)

Types ==
  /\ payloads \in Batches
  /\ opened \in BOOLEAN /\ last \in BOOLEAN /\ broken \in BOOLEAN /\ frame \in BOOLEAN
  /\ got \in [Tasks -> Nat]
  /\ complete \subseteq Tasks
  /\ ready \subseteq Tasks
  /\ pc \in {"launch", "write", "finish", "ok", "error"}

\* Where the writing thread stands.
Position ==
  /\ next \in 0 .. Len(payloads) + 1
  /\ pc = "launch" => next = 0
  /\ pc = "write" => next <= Len(payloads)
  /\ pc \in {"finish", "ok"} => next = Len(payloads) + 1
  /\ pos \in Nat
  /\ next \in Tasks => pos \in 1 .. NumMessages(next)
  /\ next \notin Tasks => pos = 1

\* The bytes of task i that the messages before message m carried.
Sent(i, m) ==
  IF m = 1 THEN 0 ELSE IF m <= NumChunks(i) + 1 THEN ChunkStart(m - 1) ELSE payloads[i]

\* What the receiver knows of the tasks before, at and after the one that is
\* being written.
Behind == \A i \in Tasks : i < next => i \in complete /\ got[i] = payloads[i]

Current ==
  next \in Tasks =>
    /\ task = IF pos = 1 THEN next - 1 ELSE next
    /\ next \in complete <=> pos > NumChunks(next) + 2
    /\ got[next] = Sent(next, pos)

Ahead == \A i \in Tasks : i > next => i \notin complete /\ got[i] = 0

\* As long as the stream is not broken the receiver is where the thread is.
InStep ==
  /\ opened <=> next > 0
  /\ last <=> (next > Len(payloads) /\ Len(payloads) > 0)
  /\ next = 0 => task = 0
  /\ Behind /\ Current /\ Ahead

IInv ==
  /\ Types
  /\ Position
  /\ ~broken => InStep
  /\ intact
  /\ last => AllReceived
  /\ pc = "ok" => ~broken

\* What the assumption on Batches gives for the batch at hand.
LEMMA PayloadFacts ==
  Types => /\ Len(payloads) \in Nat
           /\ \A i \in Tasks : payloads[i] \in Nat
           /\ ChunkMaxSize \in Nat \ {0}
  BY ReceiverAssumption DEF Types, Tasks

\* Rounding up: the last of N chunks of size c begins inside the n bytes
\* and ends at or after their end.
LEMMA CeilingFacts ==
  ASSUME NEW n \in Nat \ {0}, NEW c \in Nat \ {0},
         NEW N, N = (n + c - 1) \div c
  PROVE  N \in Nat \ {0} /\ (N - 1) * c < n /\ n <= N * c
OBVIOUS

\* The chunks of a payload follow each other, fit in a message, are empty only
\* if the payload is, and the last one ends it.
LEMMA ChunkFacts ==
  ASSUME Types, NEW i \in Tasks
  PROVE  /\ NumChunks(i) \in Nat \ {0}
         /\ ChunkStart(1) = 0
         /\ \A j \in 1 .. NumChunks(i) :
              /\ ChunkStart(j) \in Nat
              /\ ChunkSize(i, j) \in 0 .. ChunkMaxSize
              /\ ChunkSize(i, j) = 0 => payloads[i] = 0
              /\ ChunkStart(j) + ChunkSize(i, j) =
                   IF j = NumChunks(i) THEN payloads[i] ELSE ChunkStart(j + 1)
<1> DEFINE n == payloads[i]
           c == ChunkMaxSize
           N == NumChunks(i)
<1>1. n \in Nat /\ c \in Nat \ {0}  BY PayloadFacts
<1>2. CASE n = 0
  BY <1>1, <1>2 DEF NumChunks, ChunkStart, ChunkSize
<1>3. CASE n # 0
  <2>1. N \in Nat \ {0} /\ (N - 1) * c < n /\ n <= N * c
    <3>1. N = (n + c - 1) \div c  BY <1>3 DEF NumChunks
    <3> HIDE DEF N, n, c
    <3> QED  BY <1>1, <1>3, <3>1, CeilingFacts
  <2>2. ASSUME NEW j \in 1 .. N
        PROVE  /\ ChunkStart(j) \in Nat
               /\ ChunkSize(i, j) \in 1 .. c
               /\ ChunkStart(j) + ChunkSize(i, j) = IF j = N THEN n ELSE ChunkStart(j + 1)
    <3>1. ChunkStart(j) = (j - 1) * c /\ ChunkStart(j + 1) = j * c
      BY DEF ChunkStart
    <3>2. ChunkSize(i, j) = IF c <= n - (j - 1) * c THEN c ELSE n - (j - 1) * c
      BY DEF ChunkSize, ChunkStart
    <3> HIDE DEF N, n, c
    <3>3. (j - 1) * c \in Nat /\ j * c = (j - 1) * c + c
      BY <1>1, <2>1
    <3>4. CASE j = N
      BY <1>1, <2>1, <3>1, <3>2, <3>3, <3>4
    <3>5. CASE j # N
      <4>1. N - 1 \in Nat /\ j \in Nat /\ j <= N - 1  BY <2>1, <3>5
      <4>2. j * c <= (N - 1) * c  BY <4>1, <1>1
      <4>3. j * c < n  BY <1>1, <2>1, <4>1, <4>2
      <4> QED  BY <1>1, <3>1, <3>2, <3>3, <3>5, <4>3
    <3> QED  BY <3>4, <3>5
  <2>3. ChunkStart(1) = 0  BY <1>1 DEF ChunkStart
  <2> QED  BY <1>1, <1>3, <2>1, <2>2, <2>3
<1> QED  BY <1>2, <1>3

\* Nothing was written: the invariant holds initially.
LEMMA InitInv == Init => IInv
<1> SUFFICES ASSUME Init PROVE IInv
  OBVIOUS
<1>1. Types  BY DEF Init, ReceiverInit, Types
<1>2. Len(payloads) \in Nat  BY <1>1, PayloadFacts
<1>3. Position  BY <1>2 DEF Init, Position, Tasks
<1>4. InStep
  BY <1>2 DEF Init, ReceiverInit, InStep, Behind, Current, Ahead, Tasks
<1> QED  BY <1>1, <1>3, <1>4 DEF Init, ReceiverInit, IInv

\* The steps after which the receiver knows as much as before.
LEMMA SilentInv ==
  ASSUME IInv,
         \/ ReturnFuture \/ ConfigurationFails \/ Launch \/ Break \/ Finish
         \/ \E i \in Tasks : Compute(i)
         \/ UNCHANGED vars
  PROVE  IInv'
<1>1. UNCHANGED <<payloads, opened, task, got, complete, last, intact, next, pos, side>>
  BY DEF ReturnFuture, ConfigurationFails, Launch, Break, Finish, Compute, vars,
         receiverVars, senderVars
<1>2. UNCHANGED Tasks /\ (\A i : UNCHANGED NumMessages(i) /\ UNCHANGED NumChunks(i))
  BY <1>1 DEF Tasks, NumMessages, NumChunks
<1>3. ready' \subseteq Tasks /\ broken' \in BOOLEAN /\ frame' \in BOOLEAN /\ (broken => broken')
  BY DEF ReturnFuture, ConfigurationFails, Launch, Break, Finish, Compute, vars,
         senderVars, IInv, Types
<1>4. /\ pc' \in {"launch", "write", "finish", "ok", "error"}
      /\ \/ pc' = pc
         \/ pc = "launch" /\ pc' \in {"write", "error"}
         \/ pc = "finish" /\ pc' = "error"
         \/ pc = "finish" /\ pc' = "ok" /\ ~broken /\ UNCHANGED broken
      /\ pc = "ok" => UNCHANGED broken
  BY DEF ReturnFuture, ConfigurationFails, Launch, Break, Finish, Compute, vars,
         senderVars, IInv, Types
<1>5. Types'  BY <1>1, <1>2, <1>3, <1>4 DEF IInv, Types
<1>6. Len(payloads) \in Nat  BY PayloadFacts DEF IInv
<1>7. Position'
  BY <1>1, <1>2, <1>4, <1>6 DEF IInv, Position
<1>8. ~broken' => InStep'
  BY <1>1, <1>2, <1>3
  DEF IInv, InStep, Behind, Current, Ahead, Sent, ChunkStart, Types
<1> QED
  BY <1>1, <1>2, <1>4, <1>5, <1>7, <1>8 DEF IInv, AllReceived

\* The InitRequest comes first.
LEMMA WriteInitInv ==
  ASSUME IInv, WriteInit
  PROVE  IInv'
<1>1. /\ pc = "write" /\ next = 0 /\ next' = 1 /\ pos' = 1
      /\ UNCHANGED <<payloads, task, got, complete, last, side, frame, options, ready, broken>>
      /\ pc' = IF Len(payloads) = 0 THEN "finish" ELSE "write"
  BY DEF WriteInit, Advance, ReceiveInitRequest, receiverVars
<1>2. /\ broken => UNCHANGED <<opened, intact>>
      /\ ~broken => opened' = TRUE /\ intact'
  <2>1. intact /\ (~broken => ~opened)  BY <1>1 DEF IInv, InStep
  <2>2. IF broken THEN UNCHANGED receiverVars ELSE ReceiveInitRequest  BY DEF WriteInit
  <2> QED  BY <2>1, <2>2 DEF ReceiveInitRequest, receiverVars
<1>3. UNCHANGED Tasks /\ (\A i : UNCHANGED NumMessages(i) /\ UNCHANGED NumChunks(i))
  BY <1>1 DEF Tasks, NumMessages, NumChunks
<1>4. Len(payloads) \in Nat  BY PayloadFacts DEF IInv
<1>5. Types'  BY <1>1, <1>2, <1>3 DEF IInv, Types
<1>6. Position'
  <2>1. CASE Len(payloads) = 0
    BY <1>1, <1>3, <2>1 DEF Position, Tasks
  <2>2. CASE Len(payloads) # 0
    <3>1. NumChunks(1) \in Nat /\ 1 \in Tasks
      BY <1>4, <2>2, ChunkFacts DEF IInv, Tasks
    <3>2. 1 \in 1 .. NumMessages(1)  BY <3>1 DEF NumMessages
    <3> QED  BY <1>1, <1>3, <1>4, <2>2, <3>1, <3>2 DEF Position
  <2> QED  BY <2>1, <2>2
<1>7. ASSUME ~broken PROVE InStep'
  <2>1. InStep  BY <1>7 DEF IInv
  <2>2. \A i \in Tasks : i \notin complete /\ got[i] = 0
    BY <1>1, <2>1 DEF InStep, Ahead, Tasks
  <2>3. ~last  BY <1>1, <1>4, <2>1 DEF InStep
  <2>4. Behind' /\ Ahead'
    BY <1>1, <1>3, <2>2 DEF Behind, Ahead, Tasks
  <2>5. Current'
    <3>1. 1 \in Tasks => NumChunks(1) \in Nat  BY ChunkFacts DEF IInv
    <3> QED  BY <1>1, <1>3, <2>1, <2>2, <3>1 DEF Current, Sent, InStep
  <2>6. task = 0 /\ opened'  BY <1>1, <1>2, <1>7, <2>1 DEF InStep
  <2> QED  BY <1>1, <1>4, <1>7, <2>3, <2>4, <2>5, <2>6 DEF InStep
<1> QED
  BY <1>1, <1>2, <1>3, <1>5, <1>6, <1>7 DEF IInv, AllReceived

\* What a step of the writing loop does to its own position.
LEMMA WriteTaskMoves ==
  ASSUME IInv, WriteTask
  PROVE  /\ pc = "write" /\ next \in Tasks
         /\ UNCHANGED <<payloads, side, frame, options, ready, broken, opened>>
         /\ Position' /\ pc' \in {"write", "finish"}
         /\ \/ pos < NumMessages(next) /\ pos' = pos + 1 /\ next' = next
            \/ pos = NumMessages(next) /\ pos' = 1 /\ next' = next + 1
<1>1. pc = "write" /\ next \in Tasks  BY DEF WriteTask, IInv, Types
<1>2. UNCHANGED <<payloads, side, frame, options, ready, broken, opened>>
  BY DEF WriteTask, Advance, Deliver, ReceiveInitTask, ReceiveData, ReceiveDataComplete,
         ReceiveLastTask, receiverVars
<1>3. UNCHANGED Tasks /\ (\A i : UNCHANGED NumMessages(i))
  BY <1>2 DEF Tasks, NumMessages, NumChunks
<1>4. Len(payloads) \in Nat /\ \A i \in Tasks : NumChunks(i) \in Nat \ {0}
  BY PayloadFacts, ChunkFacts DEF IInv
<1>5. \A i \in Tasks : NumMessages(i) \in Nat /\ NumMessages(i) > 2
  BY <1>4 DEF NumMessages
<1>6. pos \in 1 .. NumMessages(next)  BY <1>1 DEF IInv, Position
<1>7. Advance(pos < NumMessages(next))  BY DEF WriteTask
<1>8. CASE pos < NumMessages(next)
  <2>1. pos' = pos + 1 /\ next' = next /\ pc' = pc  BY <1>7, <1>8 DEF Advance
  <2>2. Position'
    BY <1>1, <1>2, <1>3, <1>4, <1>5, <1>6, <1>8, <2>1 DEF IInv, Position
  <2> QED  BY <1>1, <1>2, <1>8, <2>1, <2>2
<1>9. CASE ~(pos < NumMessages(next))
  <2>1. /\ pos' = 1 /\ next' = next + 1
        /\ pc' = IF next = Len(payloads) THEN "finish" ELSE pc
    BY <1>7, <1>9 DEF Advance
  <2>2. pos = NumMessages(next)  BY <1>1, <1>5, <1>6, <1>9
  <2>3. Position'
    BY <1>1, <1>2, <1>3, <1>4, <1>5, <2>1 DEF Position, Tasks
  <2> QED  BY <1>1, <1>2, <2>1, <2>2, <2>3
<1> QED  BY <1>8, <1>9

\* A broken stream swallows the message.
LEMMA WriteTaskBroken ==
  ASSUME IInv, WriteTask, broken
  PROVE  IInv'
<1>1. UNCHANGED <<payloads, opened, task, got, complete, last, intact>>
  BY DEF WriteTask, receiverVars
<1>2. Types'
  BY <1>1, WriteTaskMoves DEF IInv, Types, Tasks
<1> QED  BY <1>1, <1>2, WriteTaskMoves DEF IInv, AllReceived, Tasks

\* The message that is delivered is the one the receiver expects.
LEMMA WriteTaskDelivers ==
  ASSUME IInv, WriteTask, ~broken
  PROVE  IInv'
<1> DEFINE N == NumChunks(next)
<1>1. next \in Tasks /\ pos \in 1 .. NumMessages(next) /\ Len(payloads) \in Nat
  BY WriteTaskMoves, PayloadFacts DEF IInv, Position
<1>2. N \in Nat \ {0} /\ payloads[next] \in Nat /\ next \in Nat \ {0} /\ next <= Len(payloads)
  BY <1>1, ChunkFacts, PayloadFacts DEF IInv, Tasks
<1>3. NumMessages(next) = N + IF next = Len(payloads) THEN 3 ELSE 2
  BY DEF NumMessages
<1>4. /\ opened /\ ~last /\ Behind /\ Ahead
      /\ task = IF pos = 1 THEN next - 1 ELSE next
      /\ next \in complete <=> pos > N + 2
      /\ got[next] = Sent(next, pos)
  BY <1>1, <1>2 DEF IInv, InStep, Current
<1>5. /\ UNCHANGED <<payloads, opened, broken, ready, frame>>
      /\ \/ pos < NumMessages(next) /\ pos' = pos + 1 /\ next' = next
         \/ pos = NumMessages(next) /\ pos' = 1 /\ next' = next + 1
  BY WriteTaskMoves
<1>6. UNCHANGED Tasks /\ (\A i : UNCHANGED NumChunks(i)) /\ (\A i, m : UNCHANGED Sent(i, m))
  BY <1>5 DEF Tasks, NumChunks, Sent, ChunkStart
<1>7. Deliver(next, pos)  BY DEF WriteTask
<1>8. intact /\ got \in [Tasks -> Nat] /\ complete \subseteq Tasks /\ last \in BOOLEAN
  BY DEF IInv, Types
<1>9. ASSUME got' \in [Tasks -> Nat], complete' \subseteq Tasks, last' \in BOOLEAN,
             intact', InStep', last' => AllReceived'
      PROVE  IInv'
  <2>1. Types'  BY <1>5, <1>6, <1>9, WriteTaskMoves DEF IInv, Types
  <2> QED  BY <1>9, <2>1, WriteTaskMoves DEF IInv
<1> HIDE DEF N
<1>10. CASE pos = 1
  <2>1. ReceiveInitTask(next)  BY <1>2, <1>7, <1>10 DEF Deliver, N
  <2>2. UNCHANGED <<got, complete, last>> /\ task' = next  BY <2>1 DEF ReceiveInitTask
  <2>3. next = task + 1  BY <1>2, <1>4, <1>10
  <2>4. intact'  BY <1>4, <1>8, <2>1, <2>3 DEF ReceiveInitTask
  <2>5. pos' = 2 /\ next' = next  BY <1>2, <1>3, <1>5, <1>10
  <2>6. Sent(next, 2) = 0 /\ Sent(next, 1) = 0
    <3>1. ChunkStart(1) = 0  BY <1>1, ChunkFacts DEF IInv
    <3> QED  BY <1>2, <3>1 DEF Sent, N
  <2>7. Current'  BY <1>2, <1>4, <1>6, <1>10, <2>2, <2>5, <2>6 DEF Current, N
  <2>8. Behind' /\ Ahead'  BY <1>4, <1>5, <1>6, <2>2, <2>5 DEF Behind, Ahead
  <2>9. InStep'  BY <1>2, <1>4, <1>5, <2>2, <2>5, <2>7, <2>8 DEF InStep
  <2> QED  BY <1>4, <1>8, <1>6, <1>9, <2>2, <2>4, <2>9
<1>11. CASE pos \in 2 .. N + 1
  <2> DEFINE from == ChunkStart(pos - 1)
             size == ChunkSize(next, pos - 1)
  <2>1. ReceiveData(next, from, size)  BY <1>2, <1>7, <1>11 DEF Deliver, N
  <2>2. /\ UNCHANGED <<complete, last, task>> /\ task = next
        /\ got' = [got EXCEPT ![next] = @ + size]
    <3>1. task = next  BY <1>2, <1>4, <1>11
    <3> HIDE DEF size, from
    <3> QED  BY <2>1, <3>1 DEF ReceiveData
  <2>3. /\ from \in Nat /\ size \in 0 .. ChunkMaxSize
        /\ size = 0 => payloads[next] = 0
        /\ from + size = Sent(next, pos + 1)
    <3>1. pos - 1 \in 1 .. N /\ (pos - 1) + 1 = pos /\ (pos + 1) - 1 = pos /\ pos + 1 # 1
      BY <1>2, <1>11
    <3>2. from + size = IF pos - 1 = N THEN payloads[next] ELSE ChunkStart(pos)
      BY <1>1, <3>1, ChunkFacts DEF IInv, N
    <3>3. pos + 1 <= N + 1 <=> pos - 1 # N  BY <1>2, <1>11
    <3>4. Sent(next, pos + 1) = IF pos - 1 = N THEN payloads[next] ELSE ChunkStart(pos)
      BY <3>1, <3>3 DEF Sent, N
    <3> QED  BY <1>1, <3>1, <3>2, <3>4, ChunkFacts DEF IInv, N
  <2>4. from = got[next]
    <3>1. pos # 1 /\ pos <= N + 1  BY <1>2, <1>11
    <3> QED  BY <1>4, <3>1 DEF Sent, N
  <2>5. next \notin complete  BY <1>2, <1>4, <1>11
  <2> HIDE DEF from, size
  <2>6. ChunkMaxSize \in Nat /\ size <= ChunkMaxSize  BY <2>3, PayloadFacts DEF IInv
  <2>7. intact'  BY <1>8, <2>1, <2>2, <2>3, <2>4, <2>5, <2>6 DEF ReceiveData
  <2>8. pos' = pos + 1 /\ next' = next  BY <1>2, <1>3, <1>5, <1>11
  <2>9. got' \in [Tasks -> Nat] /\ got'[next] = Sent(next, pos + 1)
    BY <1>1, <1>8, <2>2, <2>3, <2>4, <2>6
  <2>10. \A i \in Tasks : i # next => got'[i] = got[i]  BY <1>8, <2>2
  <2>11. Current'
    <3>1. pos + 1 # 1 /\ ~(pos + 1 > N + 2)  BY <1>2, <1>11
    <3> QED  BY <1>6, <2>2, <2>5, <2>8, <2>9, <3>1 DEF Current, N
  <2>12. Behind' /\ Ahead'
    BY <1>2, <1>4, <1>5, <1>6, <2>2, <2>8, <2>10 DEF Behind, Ahead, Tasks
  <2>13. InStep'  BY <1>2, <1>4, <1>5, <2>2, <2>8, <2>11, <2>12 DEF InStep
  <2> QED  BY <1>4, <1>6, <1>8, <1>9, <2>2, <2>7, <2>9, <2>13
<1>12. CASE pos = N + 2
  <2>1. ReceiveDataComplete  BY <1>2, <1>7, <1>12 DEF Deliver, N
  <2>2. /\ UNCHANGED <<got, last, task>> /\ task = next
        /\ complete' = complete \cup {next}
    BY <1>2, <1>4, <1>12, <2>1 DEF ReceiveDataComplete
  <2>3. next \notin complete  BY <1>2, <1>4, <1>12
  <2>4. intact'  BY <1>8, <2>1, <2>2, <2>3 DEF ReceiveDataComplete
  <2>5. got[next] = payloads[next] /\ Sent(next, pos + 1) = payloads[next]
    <3>1. pos # 1 /\ pos + 1 # 1 /\ ~(pos <= N + 1) /\ ~(pos + 1 <= N + 1)  BY <1>2, <1>12
    <3> QED  BY <1>4, <3>1 DEF Sent, N
  <2>6. InStep'
    <3>1. CASE next = Len(payloads)
      <4>1. pos' = pos + 1 /\ next' = next  BY <1>2, <1>3, <1>5, <1>12, <3>1
      <4>2. Current'
        <5>1. pos + 1 # 1 /\ pos + 1 > N + 2  BY <1>2, <1>12
        <5> QED  BY <1>6, <2>2, <2>5, <4>1, <5>1 DEF Current, N
      <4>3. Behind' /\ Ahead'
        BY <1>2, <1>4, <1>5, <1>6, <2>2, <4>1 DEF Behind, Ahead, Tasks
      <4> QED  BY <1>2, <1>4, <1>5, <2>2, <4>1, <4>2, <4>3 DEF InStep
    <3>2. CASE next # Len(payloads)
      <4>1. pos' = 1 /\ next' = next + 1  BY <1>2, <1>3, <1>5, <1>12, <3>2
      <4>2. next + 1 \in Tasks /\ next + 1 > next  BY <1>1, <1>2, <3>2 DEF Tasks
      <4>3. next + 1 \notin complete' /\ got'[next + 1] = 0
        BY <1>2, <1>4, <2>2, <4>2 DEF Ahead
      <4>4. Current'
        <5>1. NumChunks(next + 1) \in Nat  BY <4>2, ChunkFacts DEF IInv
        <5>2. ~(1 > NumChunks(next + 1) + 2) /\ next = (next + 1) - 1  BY <1>2, <5>1
        <5>3. Sent(next + 1, 1) = 0  BY DEF Sent
        <5> QED  BY <1>6, <2>2, <4>1, <4>3, <5>2, <5>3 DEF Current
      <4>5. Behind'
        <5>1. ASSUME NEW i \in Tasks, i < next + 1
              PROVE  i \in complete' /\ got'[i] = payloads[i]
          <6>1. i < next \/ i = next  BY <1>2, <5>1 DEF Tasks
          <6> QED  BY <1>4, <2>2, <2>5, <6>1, <5>1 DEF Behind
        <5> QED  BY <1>5, <1>6, <4>1, <5>1 DEF Behind
      <4>6. Ahead'
        <5>1. ASSUME NEW i \in Tasks, i > next + 1
              PROVE  i \notin complete' /\ got'[i] = 0
          <6>1. i > next /\ i # next  BY <1>2, <5>1 DEF Tasks
          <6> QED  BY <1>4, <2>2, <6>1, <5>1 DEF Ahead
        <5> QED  BY <1>5, <1>6, <4>1, <5>1 DEF Ahead
      <4>7. next + 1 <= Len(payloads)  BY <4>2, <1>1 DEF Tasks
      <4> QED  BY <1>1, <1>2, <1>4, <1>5, <2>2, <4>1, <4>4, <4>5, <4>6, <4>7 DEF InStep
    <3> QED  BY <3>1, <3>2
  <2> QED  BY <1>1, <1>4, <1>6, <1>8, <1>9, <2>2, <2>4, <2>6
<1>13. CASE pos = N + 3
  <2>1. ReceiveLastTask  BY <1>2, <1>7, <1>13 DEF Deliver, N
  <2>2. UNCHANGED <<got, complete, task>> /\ last' = TRUE /\ task = next
    BY <1>2, <1>4, <1>13, <2>1 DEF ReceiveLastTask
  <2>3. next \in complete  BY <1>2, <1>4, <1>13
  <2>4. intact'  BY <1>4, <1>8, <2>1, <2>2, <2>3 DEF ReceiveLastTask
  <2>5. next = Len(payloads) /\ pos' = 1 /\ next' = Len(payloads) + 1
    BY <1>1, <1>2, <1>3, <1>5, <1>13
  <2>6. got[next] = payloads[next]
    <3>1. pos # 1 /\ ~(pos <= N + 1)  BY <1>2, <1>13
    <3> QED  BY <1>4, <3>1 DEF Sent, N
  <2>7. ASSUME NEW i \in Tasks PROVE i \in complete /\ got[i] = payloads[i]
    <3>1. i < next \/ i = next  BY <1>1, <1>2, <2>5 DEF Tasks
    <3> QED  BY <1>4, <2>3, <2>6, <3>1 DEF Behind
  <2>8. AllReceived'  BY <1>5, <1>6, <1>8, <2>2, <2>7 DEF AllReceived
  <2>9. InStep'
    <3>1. Behind'  BY <1>5, <1>6, <2>2, <2>7 DEF Behind
    <3>2. Len(payloads) + 1 \notin Tasks /\ \A i \in Tasks : ~(i > Len(payloads) + 1)
      BY <1>1 DEF Tasks
    <3>3. Current' /\ Ahead'  BY <1>6, <2>5, <3>2 DEF Current, Ahead
    <3> QED  BY <1>1, <1>2, <1>4, <1>5, <2>2, <2>5, <3>1, <3>3 DEF InStep
  <2> QED  BY <1>6, <1>8, <1>9, <2>2, <2>4, <2>8, <2>9
<1>14. pos = 1 \/ pos \in 2 .. N + 1 \/ pos = N + 2 \/ pos = N + 3
  BY <1>1, <1>2, <1>3 DEF N
<1> QED  BY <1>10, <1>11, <1>12, <1>13, <1>14

\* The invariant is inductive.
LEMMA NextInv == IInv /\ [Next]_vars => IInv'
  BY SilentInv, WriteInitInv, WriteTaskBroken, WriteTaskDelivers DEF Next, WriterStep

\* The invariant holds in every reachable state.
LEMMA Invariant == Spec => []IInv
  BY InitInv, NextInv, PTL DEF Spec

\* What the receiver has seen the last of is whole, also once the stream is broken.
Whole ==
  /\ \A i \in complete : got[i] = payloads[i]
  /\ \A i \in Tasks : i < task => i \in complete

\* A receiver that is in step has whole payloads.
LEMMA InStepIsWhole == IInv /\ InStep => Whole
<1> SUFFICES ASSUME IInv, InStep PROVE Whole
  OBVIOUS
<1>1. Len(payloads) \in Nat /\ complete \subseteq Tasks /\ next \in 0 .. Len(payloads) + 1
  BY PayloadFacts DEF IInv, Types, Position
<1>2. CASE next \in Tasks
  <2>1. NumChunks(next) \in Nat /\ pos \in Nat  BY <1>2, ChunkFacts DEF IInv, Position
  <2>2. next \in complete => got[next] = payloads[next]
    BY <1>2, <2>1 DEF InStep, Current, Sent
  <2>3. \A i \in complete : got[i] = payloads[i]
    BY <1>1, <1>2, <2>2 DEF InStep, Behind, Ahead, Tasks
  <2>4. task <= next  BY <1>1, <1>2 DEF InStep, Current, Tasks
  <2>5. \A i \in Tasks : i < task => i \in complete
    BY <1>1, <1>2, <2>4 DEF InStep, Current, Behind, Tasks
  <2> QED  BY <2>3, <2>5 DEF Whole
<1>3. CASE next = 0
  BY <1>1, <1>3 DEF InStep, Ahead, Whole, Tasks
<1>4. CASE next = Len(payloads) + 1
  BY <1>1, <1>4 DEF InStep, Behind, Whole, Tasks
<1> QED  BY <1>1, <1>2, <1>3, <1>4 DEF Tasks

\* A broken stream changes nothing that the receiver has.
LEMMA WholeKept == IInv /\ Whole /\ [Next]_vars => Whole'
<1> SUFFICES ASSUME IInv, Whole, [Next]_vars PROVE Whole'
  OBVIOUS
<1>1. IInv'  BY NextInv
<1>2. CASE ~broken'
  BY <1>1, <1>2, InStepIsWhole, PTL DEF IInv
<1>3. CASE broken'
  <2>1. UNCHANGED <<payloads, got, complete, task>>
    BY <1>3 DEF Next, WriterStep, ReturnFuture, ConfigurationFails, Launch, WriteInit, WriteTask,
                Advance, Break, Finish, Compute, vars, senderVars, receiverVars
  <2> QED  BY <2>1 DEF Whole, Tasks
<1> QED  BY <1>2, <1>3

\* For every batch, chunk size and schedule: every message is in its place, and
\* DataComplete or the next header follows a whole payload.
THEOREM WireIsIntact == Spec => []WireIntact
<1>1. Init => Whole  BY DEF Init, ReceiverInit, Whole, Tasks
<1>2. IInv /\ Whole => WireIntact  BY DEF IInv, Whole, WireIntact
<1> QED  BY <1>1, <1>2, WholeKept, Invariant, PTL DEF Spec

\* LastTask follows complete payloads only, and a fulfilled future means that
\* the whole batch went through, although no Write is checked.
THEOREM FulfilledIsComplete == Spec => []FulfilledMeansAll
<1>1. IInv => FulfilledMeansAll
  <2> SUFFICES ASSUME IInv, pc = "ok"
               PROVE  AllReceived /\ opened /\ (Len(payloads) > 0 => last)
    BY DEF IInv, FulfilledMeansAll
  <2>1. InStep /\ next = Len(payloads) + 1 /\ Len(payloads) \in Nat
    BY PayloadFacts DEF IInv, Position
  <2>2. \A i \in Tasks : i < next  BY <2>1 DEF Tasks
  <2>3. AllReceived
    BY <2>1, <2>2 DEF InStep, Behind, AllReceived, IInv, Types
  <2> QED  BY <2>1, <2>3 DEF InStep
<1> QED  BY <1>1, Invariant, PTL

-----------------------------------------------------------------------------
(* The constructor of TaskHandler.                                         *)

InputTypes ==
  /\ disk \in [Inputs!Files -> Seq(Inputs!Files)]
  /\ order \in Seq(Deps)
  /\ read \in Nat
  /\ failbit \in BOOLEAN
  /\ buffer = <<>>
  /\ DOMAIN deps = Deps

\* The stream only fails after a file that gave nothing.
FailureHasCause == Inputs!NoneEmpty => ~failbit

\* The dependencies read so far, if nothing failed, are the files.
PrefixIsRead ==
  Inputs!NoneEmpty => \A i \in 1 .. Len(order) : i < read => deps[order[i]] = disk[order[i]]

PayloadIsRead == IF read = 0 THEN payload = Inputs!Unread /\ ~failbit ELSE payload = disk[Payload]

OwnContent == \A d \in Deps : deps[d] \in {Inputs!Unread, disk[d], <<>>}

InputsInv == InputTypes /\ FailureHasCause /\ PrefixIsRead /\ PayloadIsRead /\ OwnContent

\* What is taken from the stream is the file's content, or nothing.
LEMMA InsertedFacts ==
  ASSUME InputTypes, NEW f \in Inputs!Files
  PROVE  Inputs!Inserted(f) = IF failbit THEN <<>> ELSE disk[f]
BY DEF InputTypes, Inputs!Inserted

\* Nothing is read at first: the invariant holds.
LEMMA InputsInitInv == Inputs!Init => InputsInv
<1> SUFFICES ASSUME Inputs!Init PROVE InputsInv
  OBVIOUS
<1>1. disk \in [Inputs!Files -> Seq(Inputs!Files)]
  <2>1. PICK full \in SUBSET Inputs!Files : disk = [f \in Inputs!Files |-> IF f \in full THEN <<f>> ELSE <<>>]
    BY DEF Inputs!Init
  <2> QED  BY <2>1
<1>2. order \in Seq(Deps)
  <2>1. PICK n \in 0 .. MaxDeps : order \in [1 .. n -> Deps]
    BY DEF Inputs!Init
  <2> QED  BY <2>1
<1>3. InputTypes  BY <1>1, <1>2 DEF Inputs!Init, InputTypes
<1>4. FailureHasCause /\ PayloadIsRead /\ OwnContent
  BY DEF Inputs!Init, FailureHasCause, PayloadIsRead, OwnContent
<1>5. PrefixIsRead
  <2>1. read = 0 /\ Len(order) \in Nat  BY <1>3 DEF Inputs!Init, InputTypes
  <2> QED  BY <2>1 DEF PrefixIsRead
<1> QED  BY <1>3, <1>4, <1>5 DEF InputsInv

\* Reading a file keeps the invariant.
LEMMA InputsNextInv == InputsInv /\ [Inputs!Next]_(Inputs!vars) => InputsInv'
<1> SUFFICES ASSUME InputsInv, [Inputs!Next]_(Inputs!vars) PROVE InputsInv'
  OBVIOUS
<1> USE DEF InputsInv
<1>1. CASE Inputs!ReadPayload
  <2>1. Payload \in Inputs!Files  BY DEF Inputs!Files
  <2>2. payload' = disk[Payload] /\ UNCHANGED <<deps, disk, order>> /\ read' = 1 /\ buffer' = <<>>
    BY <1>1, <2>1, InsertedFacts DEF Inputs!ReadPayload, Inputs!Insert, Inputs!Cleared, PayloadIsRead
  <2>3. failbit' = (failbit \/ disk[Payload] = <<>>)
    BY <1>1 DEF Inputs!ReadPayload, Inputs!Insert
  <2>4. InputTypes'  BY <2>2, <2>3 DEF InputTypes
  <2>5. FailureHasCause'
    BY <2>2, <2>3 DEF FailureHasCause, Inputs!NoneEmpty
  <2>6. PrefixIsRead'
    <3>1. Len(order) \in Nat  BY DEF InputTypes
    <3> QED  BY <2>2, <3>1 DEF PrefixIsRead
  <2>7. PayloadIsRead'  BY <2>2 DEF PayloadIsRead
  <2>8. OwnContent'  BY <2>2 DEF OwnContent
  <2> QED  BY <2>4, <2>5, <2>6, <2>7, <2>8
<1>2. CASE Inputs!ReadDependency
  <2> DEFINE d == order[read]
  <2>1. read \in 1 .. Len(order) /\ d \in Deps /\ d \in Inputs!Files
    BY <1>2 DEF Inputs!ReadDependency, InputTypes, Inputs!Files
  <2>2. /\ UNCHANGED <<disk, order, payload>>
        /\ read' = read + 1
        /\ buffer' = <<>>
        /\ failbit' = (failbit \/ disk[d] = <<>>)
    BY <1>2 DEF Inputs!ReadDependency, Inputs!Insert, Inputs!Cleared
  <2>3. deps' = [deps EXCEPT ![d] = IF failbit THEN <<>> ELSE disk[d]]
    BY <1>2, <2>1, InsertedFacts DEF Inputs!ReadDependency
  <2>4. InputTypes'  BY <2>1, <2>2, <2>3 DEF InputTypes
  <2>5. FailureHasCause'  BY <2>1, <2>2 DEF FailureHasCause, Inputs!NoneEmpty, InputTypes
  <2>6. PrefixIsRead'
    <3> SUFFICES ASSUME Inputs!NoneEmpty, NEW i \in 1 .. Len(order), i < read + 1
                 PROVE  deps'[order[i]] = disk[order[i]]
      BY <2>2 DEF PrefixIsRead, Inputs!NoneEmpty
    <3>1. ~failbit  BY DEF FailureHasCause
    <3>2. order[i] \in Deps  BY DEF InputTypes
    <3>3. CASE order[i] = d  BY <2>1, <2>3, <3>1, <3>3 DEF InputTypes
    <3>4. CASE order[i] # d
      <4>1. i < read  BY <3>4, <2>1 DEF InputTypes
      <4> QED  BY <2>3, <3>2, <3>4, <4>1 DEF PrefixIsRead, InputTypes
    <3> QED  BY <3>3, <3>4
  <2>7. PayloadIsRead'  BY <2>1, <2>2 DEF PayloadIsRead, InputTypes
  <2>8. OwnContent'  BY <2>1, <2>2, <2>3 DEF OwnContent, InputTypes
  <2> QED  BY <2>4, <2>5, <2>6, <2>7, <2>8
<1>3. CASE UNCHANGED Inputs!vars
  BY <1>3 DEF Inputs!vars, InputTypes, FailureHasCause, PrefixIsRead, PayloadIsRead, OwnContent, Inputs!NoneEmpty
<1> QED  BY <1>1, <1>2, <1>3 DEF Inputs!Next

\* A task's inputs are never mixed up, and all are there when none is empty
\* or missing, whatever the number and the order of its dependencies.
THEOREM InputsAreNeverMixed == Inputs!Spec => []Inputs!NeverMixed
<1>1. InputsInv => Inputs!NeverMixed
  <2> SUFFICES ASSUME InputsInv PROVE Inputs!NeverMixed
    OBVIOUS
  <2>1. payload \in {Inputs!Unread, disk[Payload]}  BY DEF InputsInv, PayloadIsRead
  <2>2. Inputs!NoneEmpty => Inputs!DependenciesAreTheFiles
    BY DEF InputsInv, PrefixIsRead, InputTypes, Inputs!DependenciesAreTheFiles, Inputs!Constructed
  <2> QED  BY <2>1, <2>2 DEF InputsInv, OwnContent, Inputs!NeverMixed
<1> QED  BY <1>1, InputsInitInv, InputsNextInv, PTL DEF Inputs!Spec
=============================================================================
