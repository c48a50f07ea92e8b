------------------------ MODULE CsTaskRequestStream -------------------------
(***************************************************************************)
(* The C# senders of task-creation streams: SubmitterClientExt (client)    *)
(* and TaskRequestExtensions with TaskHandler.CreateTasksAsync (worker).   *)
(* ToRequestStream is a generator that WriteAsync drains; pc is where it   *)
(* is suspended, `current` the task it works on, `start` its position in   *)
(* that payload.  The two differ in that the client                        *)
(*   - writes an empty chunk for an empty payload;                         *)
(*   - polls the caller's token inside the generator of one task, which it *)
(*     then leaves silently, while the generator of the batch goes on with *)
(*     the next task.                                                      *)
(***************************************************************************)
EXTENDS TaskReceiver

VARIABLES side,         \* "client" or "worker"
          pc, current, start,
          cancelled,    \* cancellationToken.IsCancellationRequested
          closed        \* RequestStream.CompleteAsync done

senderVars == <<side, pc, current, start, cancelled, closed>>
vars == <<receiverVars, senderVars>>

Generating == {"init", "header", "payload", "ending", "last"}
PCs == Generating \cup {"flush", "await", "done", "failed"}

Init ==
  /\ ReceiverInit
  /\ side \in {"client", "worker"}
  /\ pc = "init"
  /\ current = 1
  /\ start = 0
  /\ cancelled = FALSE
  /\ closed = FALSE

IsLast == current = Len(payloads)

-----------------------------------------------------------------------------
\* yield return InitRequest, and nothing more for an empty batch
SendInitRequest ==
  /\ pc = "init"
  /\ ReceiveInitRequest
  /\ pc' = IF Len(payloads) = 0 THEN "flush" ELSE "header"
  /\ UNCHANGED <<current, start, cancelled, closed, side>>

\* Mutant of SendHeader: start keeps the value of the previous task.
SendHeaderKeepsStart ==
  /\ pc = "header"
  /\ ReceiveInitTask(current)
  /\ pc' = "payload"
  /\ UNCHANGED <<current, start, cancelled, closed, side>>

\* yield return InitTask with the header of the current request
SendHeader ==
  /\ pc = "header"
  /\ ReceiveInitTask(current)
  /\ start' = 0
  /\ pc' = "payload"
  /\ UNCHANGED <<current, cancelled, closed, side>>

\* The generator of the batch turns to the next request, or ends.
TakeNext ==
  /\ pc' = IF IsLast THEN "flush" ELSE "header"
  /\ current' = IF IsLast THEN current ELSE current + 1

Polls == side = "client" /\ cancelled

\* if (cancellationToken.IsCancellationRequested) yield break
Abandon ==
  /\ pc \in {"payload", "ending"}
  /\ Polls
  /\ TakeNext
  /\ UNCHANGED <<receiverVars, start, cancelled, closed, side>>

NeedsEmptyChunk == side = "client" /\ payloads[current] = 0

SendEmptyChunk ==
  /\ pc = "payload"
  /\ ~Polls
  /\ NeedsEmptyChunk
  /\ ReceiveData(current, 0, 0)
  /\ pc' = "ending"
  /\ UNCHANGED <<current, start, cancelled, closed, side>>

ChunkSize ==
  IF ChunkMaxSize <= payloads[current] - start
  THEN ChunkMaxSize
  ELSE payloads[current] - start

SendChunk ==
  /\ pc = "payload"
  /\ ~Polls
  /\ start < payloads[current]
  /\ ReceiveData(current, start, ChunkSize)
  /\ start' = start + ChunkSize
  /\ UNCHANGED <<pc, current, cancelled, closed, side>>

\* Mutants of SendDataComplete: the polling loop breaks instead of leaving
\* the generator; it waits for one byte too many.
SendDataCompleteAfterBreak ==
  /\ pc = "ending" \/ (pc = "payload" /\ ~NeedsEmptyChunk)
  /\ Polls \/ start >= payloads[current]
  /\ ReceiveDataComplete
  /\ IF IsLast THEN pc' = "last" /\ UNCHANGED current ELSE TakeNext
  /\ UNCHANGED <<start, cancelled, closed, side>>

SendDataCompleteTooLate ==
  /\ pc = "ending" \/ (pc = "payload" /\ ~NeedsEmptyChunk)
  /\ ~Polls
  /\ start > payloads[current]
  /\ ReceiveDataComplete
  /\ IF IsLast THEN pc' = "last" /\ UNCHANGED current ELSE TakeNext
  /\ UNCHANGED <<start, cancelled, closed, side>>

\* yield return DataComplete; LastTask follows for the last request
SendDataComplete ==
  /\ pc = "ending" \/ (pc = "payload" /\ ~NeedsEmptyChunk)
  /\ ~Polls
  /\ start >= payloads[current]
  /\ ReceiveDataComplete
  /\ IF IsLast THEN pc' = "last" /\ UNCHANGED current ELSE TakeNext
  /\ UNCHANGED <<start, cancelled, closed, side>>

SendLastTask ==
  /\ pc = "last"
  /\ ReceiveLastTask
  /\ pc' = "flush"
  /\ UNCHANGED <<current, start, cancelled, closed, side>>

-----------------------------------------------------------------------------
\* await stream.RequestStream.CompleteAsync()
Flush ==
  /\ pc = "flush"
  /\ closed' = TRUE
  /\ pc' = "await"
  /\ UNCHANGED <<receiverVars, current, start, cancelled, side>>

\* return await stream.ResponseAsync
Reply ==
  /\ pc = "await"
  /\ pc' = "done"
  /\ UNCHANGED <<receiverVars, current, start, cancelled, closed, side>>

\* WriteAsync, MoveNextAsync, CompleteAsync or ResponseAsync throws: the
\* call was cancelled with the token, or it broke.
Fail ==
  /\ pc \notin {"done", "failed"}
  /\ pc' = "failed"
  /\ UNCHANGED <<receiverVars, current, start, cancelled, closed, side>>

CancelToken ==
  /\ ~cancelled
  /\ cancelled' = TRUE
  /\ UNCHANGED <<receiverVars, pc, current, start, closed, side>>

SenderStep ==
  \/ SendInitRequest \/ SendHeader \/ Abandon \/ SendEmptyChunk \/ SendChunk
  \/ SendDataComplete \/ SendLastTask \/ Flush \/ Reply

Next == SenderStep \/ Fail \/ CancelToken

Spec == Init /\ [][Next]_vars

\* An awaited write, completion or reply comes to an end.
FairSpec == Spec /\ WF_vars(SenderStep)

-----------------------------------------------------------------------------
\* The variables keep their types.
TypeOK ==
  /\ ReceiverTypeOK
  /\ side \in {"client", "worker"}
  /\ pc \in PCs
  /\ current \in Tasks \cup {1}
  /\ start \in Nat
  /\ cancelled \in BOOLEAN
  /\ closed \in BOOLEAN

\* Every message is in its place: one InitRequest, the headers in order, the
\* chunks of a payload contiguous and within DataChunkMaxSize.  DataComplete
\* closes whole payloads only, and a payload that the next header cuts short was
\* cut by a client whose caller cancelled.
WireIntact ==
  /\ intact
  /\ \A i \in complete : got[i] = payloads[i]
  /\ \A i \in Tasks : i < task => i \in complete \/ Polls

\* LastTask is only sent after every payload was sent whole, even when the
\* caller cancelled while a payload was being cut.
LastMeansAll == last => AllReceived

\* The end of a stream, and a reply to a call that nobody cancelled, are about
\* the whole batch, and LastTask is not forgotten.
ReplyMeansAll ==
  /\ LastMeansAll
  /\ pc = "done" /\ ~cancelled => AllReceived /\ (Len(payloads) > 0 => last)

\* The generator ends: the chunks of a payload are never without progress.
Finishes == <>(pc \in {"done", "failed"})
=============================================================================
