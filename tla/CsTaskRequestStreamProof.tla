---------------------- MODULE CsTaskRequestStreamProof ----------------------
(***************************************************************************)
(* Proofs about the C# task-creation streams, client and worker, for every *)
(* batch of payloads and every chunk size.                                 *)
(*                                                                         *)
(* That LastTask follows complete payloads only is a global fact about the *)
(* generator: a task it left behind incomplete was abandoned because the   *)
(* token was cancelled (NothingSkipped), the token stays cancelled, so the *)
(* last task is abandoned as well and LastTask is not sent.                *)
(***************************************************************************)
EXTENDS CsTaskRequestStream, TLAPS

\* Where the generator stands is where the receiver expects it.
Position ==
  /\ pc = "init" => ~opened /\ task = 0 /\ current = 1
  /\ pc \in {"header", "payload", "ending", "last"} =>
       opened /\ ~last /\ current \in Tasks
  /\ pc = "init" => ~last
  /\ pc = "header" => task = current - 1
  /\ pc \in {"payload", "ending", "last"} => task = current
  /\ pc \in {"payload", "ending"} => got[current] = start /\ start <= payloads[current]

\* The tasks that are still to come have sent nothing.
Untouched ==
  /\ pc \in {"init", "header"} =>
       \A i \in Tasks : i >= current => i \notin complete /\ got[i] = 0
  /\ pc \in {"payload", "ending"} =>
       /\ current \notin complete
       /\ \A i \in Tasks : i > current => i \notin complete /\ got[i] = 0

\* DataComplete follows the whole payload.
WholePayloads == \A i \in complete : got[i] = payloads[i]

\* A task is left incomplete only if the token was cancelled and polled.
NothingSkipped ==
  /\ pc \in {"init", "header", "payload", "ending"} =>
       Polls \/ \A i \in Tasks : i < current => i \in complete
  /\ pc = "last" => complete = Tasks
  /\ pc \in {"flush", "await", "done"} =>
       Polls \/ (complete = Tasks /\ (Tasks # {} => last))

IInv ==
  /\ TypeOK
  /\ intact
  /\ Position
  /\ Untouched
  /\ WholePayloads
  /\ NothingSkipped
  /\ LastMeansAll

\* What the assumption on Batches gives for the batch at hand.
LEMMA PayloadFacts ==
  TypeOK => /\ payloads \in Seq(Nat)
            /\ Len(payloads) \in Nat
            /\ \A i \in Tasks : payloads[i] \in Nat
            /\ ChunkMaxSize \in Nat \ {0}
  BY ReceiverAssumption DEF TypeOK, ReceiverTypeOK, Tasks

\* Nothing was sent: the invariant holds initially.
LEMMA InitInv == Init => IInv
<1> SUFFICES ASSUME Init PROVE IInv
  OBVIOUS
<1>1. TypeOK
  BY DEF Init, ReceiverInit, TypeOK, ReceiverTypeOK, Tasks, PCs, Generating
<1>2. Position /\ Untouched /\ WholePayloads /\ NothingSkipped /\ LastMeansAll /\ intact
  BY <1>1, PayloadFacts
  DEF Init, ReceiverInit, Position, Untouched, WholePayloads, NothingSkipped, LastMeansAll, Tasks
<1>3. QED
  BY <1>1, <1>2 DEF IInv

\* The InitRequest opens the stream once.
LEMMA SendInitRequestInv == IInv /\ SendInitRequest => IInv'
<1> SUFFICES ASSUME IInv, SendInitRequest PROVE IInv'
  OBVIOUS
<1> USE PayloadFacts DEF IInv, Tasks
<1>1. TypeOK'
  BY DEF SendInitRequest, ReceiveInitRequest, TypeOK, ReceiverTypeOK, PCs, Generating
<1>2. intact'
  BY DEF SendInitRequest, ReceiveInitRequest, Position
<1>3. CASE Len(payloads) = 0
  <2>1. Tasks = {} /\ complete = {} /\ pc' = "flush"
    BY <1>3 DEF SendInitRequest, TypeOK, ReceiverTypeOK
  <2>2. QED
    BY <1>1, <1>2, <2>1
    DEF SendInitRequest, ReceiveInitRequest, Position, Untouched, WholePayloads, NothingSkipped,
        LastMeansAll, AllReceived
<1>4. CASE Len(payloads) # 0
  <2>1. 1 \in Tasks /\ pc' = "header" /\ current' = 1 /\ ~last /\ task = 0
    BY <1>4 DEF SendInitRequest, Position
  <2>2. Position' /\ LastMeansAll'
    BY <2>1 DEF SendInitRequest, ReceiveInitRequest, Position, LastMeansAll
  <2>3. Untouched' /\ WholePayloads' /\ NothingSkipped'
    BY <2>1 DEF SendInitRequest, ReceiveInitRequest, Untouched, WholePayloads, NothingSkipped, Polls
  <2>4. QED
    BY <1>1, <1>2, <2>2, <2>3
<1>5. QED
  BY <1>3, <1>4

\* A header follows the header of the task before it.
LEMMA SendHeaderInv == IInv /\ SendHeader => IInv'
<1> SUFFICES ASSUME IInv, SendHeader PROVE IInv'
  OBVIOUS
<1> USE PayloadFacts DEF IInv, Tasks, SendHeader, ReceiveInitTask
<1>1. TypeOK'
  BY DEF TypeOK, ReceiverTypeOK, PCs, Generating, Position
<1>0. /\ current \in Tasks /\ task = current - 1 /\ current = task + 1 /\ opened /\ ~last
      /\ pc' = "payload" /\ current \notin complete /\ got[current] = 0 /\ payloads[current] \in Nat
  BY DEF Position, Untouched
<1>2. intact'
  BY <1>0
<1>3. Position'
  BY <1>0 DEF Position
<1>4. Untouched' /\ WholePayloads'
  BY <1>0 DEF Untouched, WholePayloads
<1>5. NothingSkipped' /\ LastMeansAll'
  BY DEF Position, NothingSkipped, Polls, LastMeansAll, AllReceived
<1>6. QED
  BY <1>1, <1>2, <1>3, <1>4, <1>5

\* A task is abandoned only when the token is polled cancelled.
LEMMA AbandonInv == IInv /\ Abandon => IInv'
<1> SUFFICES ASSUME IInv, Abandon PROVE IInv'
  OBVIOUS
<1> USE PayloadFacts DEF IInv, Tasks, Abandon, TakeNext, IsLast, receiverVars
<1>1. TypeOK'
  BY DEF TypeOK, ReceiverTypeOK, PCs, Generating, Position
<1>2. intact' /\ Position' /\ Untouched' /\ WholePayloads'
  BY DEF Position, Untouched, WholePayloads, TypeOK, ReceiverTypeOK
<1>3. NothingSkipped' /\ LastMeansAll'
  BY DEF Position, NothingSkipped, Polls, LastMeansAll, AllReceived
<1>4. QED
  BY <1>1, <1>2, <1>3

\* The empty chunk belongs to an empty payload.
LEMMA SendEmptyChunkInv == IInv /\ SendEmptyChunk => IInv'
<1> SUFFICES ASSUME IInv, SendEmptyChunk PROVE IInv'
  OBVIOUS
<1> USE PayloadFacts DEF IInv, Tasks, SendEmptyChunk, ReceiveData, NeedsEmptyChunk
<1>0. /\ current \in Tasks /\ task = current /\ got[current] = 0 /\ start = 0
      /\ got \in [Tasks -> Nat] /\ current \notin complete
  BY DEF TypeOK, ReceiverTypeOK, Position, Untouched
<1>1. TypeOK' /\ intact'
  BY <1>0 DEF TypeOK, ReceiverTypeOK, PCs, Generating
<1>2. Position' /\ Untouched' /\ WholePayloads'
  BY <1>0 DEF Position, Untouched, WholePayloads
<1>3. NothingSkipped' /\ LastMeansAll'
  BY <1>0 DEF Position, NothingSkipped, Polls, LastMeansAll, AllReceived
<1>4. QED
  BY <1>1, <1>2, <1>3

\* A chunk starts where the last one ended and stays within the payload.
LEMMA SendChunkInv == IInv /\ SendChunk => IInv'
<1> SUFFICES ASSUME IInv, SendChunk PROVE IInv'
  OBVIOUS
<1> USE PayloadFacts DEF IInv, Tasks, SendChunk, ReceiveData
<1>0. /\ current \in Tasks /\ task = current /\ got[current] = start
      /\ got \in [Tasks -> Nat] /\ current \notin complete /\ start \in Nat
  BY DEF TypeOK, ReceiverTypeOK, Position, Untouched
<1>1. /\ ChunkSize \in Nat \ {0}
      /\ ChunkSize <= ChunkMaxSize
      /\ start + ChunkSize <= payloads[current]
  BY <1>0 DEF ChunkSize
<1> HIDE DEF SendChunk
<1>2. TypeOK' /\ intact'
  BY <1>0, <1>1 DEF TypeOK, ReceiverTypeOK, PCs, Generating, SendChunk
<1>3. Position' /\ Untouched' /\ WholePayloads'
  BY <1>0, <1>1 DEF Position, Untouched, WholePayloads, SendChunk, TypeOK
<1>4. NothingSkipped' /\ LastMeansAll'
  BY <1>0, <1>1 DEF Position, NothingSkipped, Polls, LastMeansAll, AllReceived, SendChunk
<1>5. QED
  BY <1>2, <1>3, <1>4

\* DataComplete of the last task, uncancelled, completes the batch.
LEMMA SendDataCompleteInv == IInv /\ SendDataComplete => IInv'
<1> SUFFICES ASSUME IInv, SendDataComplete PROVE IInv'
  OBVIOUS
<1> USE PayloadFacts DEF IInv, Tasks, SendDataComplete, ReceiveDataComplete, TakeNext, IsLast
<1>0. /\ current \in Tasks /\ task = current /\ got[current] = start /\ start \in Nat
      /\ got \in [Tasks -> Nat] /\ current \notin complete /\ start = payloads[current]
      /\ ~last /\ opened /\ ~Polls
      /\ \A i \in Tasks : i < current => i \in complete
      /\ complete \subseteq Tasks
      /\ \A i \in Tasks : i > current => i \notin complete /\ got[i] = 0
  BY DEF TypeOK, ReceiverTypeOK, Position, Untouched, NothingSkipped
<1>1. TypeOK'
  BY <1>0 DEF TypeOK, ReceiverTypeOK, PCs, Generating
<1>a. intact'
  BY <1>0
<1>2. Position' /\ WholePayloads'
  BY <1>0 DEF Position, WholePayloads
<1>3. Untouched'
  BY <1>0 DEF Untouched
<1>4. NothingSkipped'
  <2>1. CASE IsLast
    <3>1. complete' = Tasks
      <4>1. complete' = complete \cup {current} /\ current = Len(payloads)
        BY <1>0, <2>1
      <4>2. \A i \in Tasks : i < current \/ i = current
        BY <1>0, <4>1
      <4>3. QED
        BY <1>0, <4>1, <4>2
    <3>2. QED
      BY <2>1, <3>1 DEF NothingSkipped
  <2>2. CASE ~IsLast
    <3>1. pc' = "header" /\ current' = current + 1
      BY <2>2
    <3>2. \A i \in Tasks : i < current + 1 => i \in complete'
      BY <1>0
    <3>3. QED
      BY <3>1, <3>2 DEF NothingSkipped
  <2>3. QED
    BY <2>1, <2>2
<1>5. LastMeansAll'
  BY <1>0 DEF LastMeansAll
<1>6. QED
  BY <1>1, <1>a, <1>2, <1>3, <1>4, <1>5

\* LastTask: everything was received.
LEMMA SendLastTaskInv == IInv /\ SendLastTask => IInv'
<1> SUFFICES ASSUME IInv, SendLastTask PROVE IInv'
  OBVIOUS
<1> USE PayloadFacts DEF IInv, Tasks, SendLastTask, ReceiveLastTask
<1>1. TypeOK' /\ intact'
  BY DEF TypeOK, ReceiverTypeOK, PCs, Generating, Position, NothingSkipped
<1>2. Position' /\ Untouched' /\ WholePayloads'
  BY DEF Position, Untouched, WholePayloads
<1>3. NothingSkipped' /\ LastMeansAll'
  BY DEF Position, NothingSkipped, WholePayloads, Polls, LastMeansAll, AllReceived
<1>4. QED
  BY <1>1, <1>2, <1>3

\* The steps that send no message.
LEMMA SilentInv == IInv /\ (Flush \/ Reply \/ Fail \/ CancelToken \/ UNCHANGED vars) => IInv'
<1> SUFFICES ASSUME IInv, Flush \/ Reply \/ Fail \/ CancelToken \/ UNCHANGED vars PROVE IInv'
  OBVIOUS
<1>1. UNCHANGED <<side, payloads, opened, task, got, complete, last, intact, current, start>>
  BY DEF Flush, Reply, Fail, CancelToken, vars, receiverVars, senderVars
<1>2. \/ pc' = pc
      \/ pc' = "failed"
      \/ pc \in {"flush", "await"} /\ pc' \in {"await", "done"}
  BY DEF Flush, Reply, Fail, CancelToken, vars, senderVars
<1>3. (cancelled => cancelled') /\ cancelled' \in BOOLEAN /\ closed' \in BOOLEAN
  BY DEF Flush, Reply, Fail, CancelToken, vars, senderVars, IInv, TypeOK
<1>4. TypeOK' /\ intact'
  BY <1>1, <1>2, <1>3 DEF IInv, TypeOK, ReceiverTypeOK, PCs, Generating, Tasks
<1>5. Position'
  BY <1>1, <1>2 DEF IInv, Position, Tasks
<1>6. Untouched' /\ WholePayloads' /\ LastMeansAll'
  BY <1>1, <1>2 DEF IInv, Untouched, WholePayloads, LastMeansAll, AllReceived, Tasks
<1>7. NothingSkipped'
  BY <1>1, <1>2, <1>3 DEF IInv, NothingSkipped, Polls, Tasks
<1>8. QED
  BY <1>4, <1>5, <1>6, <1>7 DEF IInv

\* Every step keeps the invariant.
LEMMA NextInv == IInv /\ [Next]_vars => IInv'
  BY SendInitRequestInv, SendHeaderInv, AbandonInv, SendEmptyChunkInv, SendChunkInv,
     SendDataCompleteInv, SendLastTaskInv, SilentInv DEF Next, SenderStep

\* The invariant holds throughout.
LEMMA Invariant == Spec => []IInv
  BY InitInv, NextInv, PTL DEF Spec

\* The sender and the receiver keep their types for every batch.
THEOREM TypeCorrect == Spec => []TypeOK
<1>1. IInv => TypeOK
  BY DEF IInv
<1>2. QED
  BY <1>1, Invariant, PTL

\* What the receiver has seen the last of is complete, or a cancelled client cut it.
\* NothingSkipped says as much of the tasks before the generator, but only while
\* it runs: a call that fails leaves this behind.
CutByCancel == \A i \in Tasks : i < task => i \in complete \/ Polls

\* A header is only written after what NothingSkipped says of the tasks before it.
LEMMA CutByCancelKept == IInv /\ CutByCancel /\ [Next]_vars => CutByCancel'
<1> SUFFICES ASSUME IInv, CutByCancel, [Next]_vars PROVE CutByCancel'
  OBVIOUS
<1> USE DEF Next, SenderStep, SendInitRequest, SendHeader, Abandon, SendEmptyChunk, SendChunk,
            SendDataComplete, SendLastTask, Flush, Reply, Fail, CancelToken, vars, receiverVars,
            senderVars, ReceiveInitRequest, ReceiveInitTask, ReceiveData, ReceiveDataComplete,
            ReceiveLastTask
<1>1. UNCHANGED <<payloads, side>> /\ complete \subseteq complete'
  OBVIOUS
<1>2. cancelled' = cancelled \/ cancelled' = TRUE
  OBVIOUS
<1>3. Polls => Polls'
  BY <1>1, <1>2 DEF Polls
<1>4. UNCHANGED Tasks
  BY <1>1 DEF Tasks
<1>5. CASE SendHeader
  <2>1. task' = current /\ (Polls \/ \A i \in Tasks : i < current => i \in complete)
    BY <1>5 DEF IInv, NothingSkipped
  <2>2. QED
    BY <1>1, <1>3, <1>4, <2>1 DEF CutByCancel
<1>6. CASE ~SendHeader
  <2>1. task' = task
    BY <1>6
  <2>2. QED
    BY <1>1, <1>3, <1>4, <2>1 DEF CutByCancel
<1>7. QED
  BY <1>5, <1>6

\* For every batch and chunk size: every message is in its place, DataComplete closes
\* whole payloads, and only a cancelled client leaves one short.
THEOREM WireIsIntact == Spec => []WireIntact
<1>1. Init => CutByCancel
  BY DEF Init, ReceiverInit, CutByCancel, Tasks
<1>2. IInv /\ CutByCancel => WireIntact
  BY DEF IInv, WholePayloads, CutByCancel, WireIntact
<1>3. QED
  BY <1>1, <1>2, CutByCancelKept, Invariant, PTL DEF Spec

\* LastTask means that all payloads went through, cancelled or not.
THEOREM LastTaskMeansAll == Spec => []LastMeansAll
<1>1. IInv => LastMeansAll
  BY DEF IInv
<1>2. QED
  BY <1>1, Invariant, PTL

\* The end of the stream and an uncancelled reply are about the whole batch.
THEOREM ReplyIsAboutAll == Spec => []ReplyMeansAll
<1>1. IInv => ReplyMeansAll
  BY PayloadFacts DEF IInv, ReplyMeansAll, NothingSkipped, Polls, WholePayloads, AllReceived, Tasks
<1>2. QED
  BY <1>1, Invariant, PTL
=============================================================================
