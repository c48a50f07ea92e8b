-------------------------- MODULE CsWaitForResults --------------------------
(***************************************************************************)
(* EventsClientExt.WaitForResultsAsync of the C# client.                   *)
(*                                                                         *)
(* One asynchronous task per bucket keeps the ids it still waits for       *)
(* (resultsNotFound), the ones it saw completed (resultsCompleted) and the *)
(* number of RPC errors since response headers last came (retryCount).     *)
(* pc[b] is the await the task is parked at:                               *)
(*   "idle"     not started by ParallelForEach yet                         *)
(*   "check"    at the condition of the outer while                        *)
(*   "connect"  GetEvents called, awaiting ResponseHeadersAsync            *)
(*   "read"     awaiting ResponseStream.MoveNext                           *)
(*   "done", "aborted", "rpc"   ended: normally, with                      *)
(*              ResultAbortedException, with RpcException                  *)
(* The call as a whole ends in `outcome`.  ParallelForEach is library code *)
(* (ArmoniK.Utils): it starts the buckets in order, at most Parallelism at *)
(* a time, and may rethrow a task's exception before the other tasks have  *)
(* ended, so that they can outlive the call.                               *)
(***************************************************************************)
EXTENDS ResultEvents, Buckets, FiniteSets

CONSTANTS RetryLimit,   \* "retryCount > 5": 5 in the code
          MaxFaults     \* bound: broken or prematurely ended streams

ASSUME CsAssumption ==
  /\ ResultIds \in Seq(Results)
  /\ RetryLimit \in Nat
  /\ MaxFaults \in Nat

VARIABLES pc, resultsNotFound, resultsCompleted, retryCount,
          abortedId,    \* the id in the bucket's ResultAbortedException
          token,        \* cancellationToken.IsCancellationRequested
          cts,          \* cts.IsCancellationRequested (linked to token)
          outcome,      \* "running", or how WaitForResultsAsync ended
          faults        \* streams broken or ended by the service so far

localVars == <<resultsNotFound, resultsCompleted, retryCount, abortedId>>
callVars == <<token, cts, outcome>>
vars == <<serviceVars, pc, localVars, callVars, faults>>

NoId == "none"

Ended == {"done", "aborted", "rpc"}
Active == {"check", "connect", "read"}
PCs == {"idle"} \cup Active \cup Ended

Outcomes == {"running", "ok", "aborted", "rpc", "canceled"}

Init ==
  /\ ServiceInit(Buckets)
  /\ pc = [b \in Buckets |-> "idle"]
  /\ resultsNotFound = [b \in Buckets |-> Bucket(b)]
  /\ resultsCompleted = [b \in Buckets |-> {}]
  /\ retryCount = [b \in Buckets |-> 0]
  /\ abortedId = [b \in Buckets |-> NoId]
  /\ token = FALSE
  /\ cts = FALSE
  /\ outcome = "running"
  /\ faults = 0

Goto(b, l) == pc' = [pc EXCEPT ![b] = l]

-----------------------------------------------------------------------------
\* ParallelForEach starts the next bucket.
Start(b) ==
  /\ pc[b] = "idle"
  /\ ~cts
  /\ \A a \in Buckets : a < b => pc[a] # "idle"
  /\ Cardinality({a \in Buckets : pc[a] \in Active}) < Parallelism
  /\ Goto(b, "check")
  /\ UNCHANGED <<serviceVars, localVars, callVars, faults>>

\* Mutant of Check: the loop condition forgets the cancellation.
CheckIgnoresCancel(b) ==
  /\ pc[b] = "check"
  /\ Goto(b, IF resultsNotFound[b] # {} THEN "connect" ELSE "done")
  /\ UNCHANGED <<serviceVars, localVars, callVars, faults>>

\* while (resultsNotFound.Any() && !cts.IsCancellationRequested) GetEvents
Check(b) ==
  /\ pc[b] = "check"
  /\ Goto(b, IF resultsNotFound[b] # {} /\ ~cts THEN "connect" ELSE "done")
  /\ UNCHANGED <<serviceVars, localVars, callVars, faults>>

\* ResponseHeadersAsync completes: the filter named the ids still missing.
HeadersReceived(b) ==
  /\ pc[b] = "connect"
  /\ Subscribe(b, resultsNotFound[b])
  /\ retryCount' = [retryCount EXCEPT ![b] = 0]
  /\ Goto(b, "read")
  /\ UNCHANGED <<resultsNotFound, resultsCompleted, abortedId, callVars, faults>>

\* Mutant of MissingKept: only ResultStatusUpdate is handled, as if results
\* could not be completed before the stream opens.
MissingKeptOnSnapshot(b, e) ==
  /\ \/ e.id \notin resultsNotFound[b]
     \/ e.status \notin {"Completed", "Aborted"}
     \/ e.kind = "NewResult"
  /\ UNCHANGED <<pc, localVars>>

\* The body of the inner while, for an event read from the stream.
MissingKept(b, e) ==
  /\ \/ e.id \notin resultsNotFound[b]
     \/ e.status \notin {"Completed", "Aborted"}
  /\ UNCHANGED <<pc, localVars>>

\* Mutant of ResultCompleted: no break once resultsNotFound is empty.
ResultCompletedNoBreak(b, e) ==
  /\ e.id \in resultsNotFound[b]
  /\ e.status = "Completed"
  /\ resultsCompleted' = [resultsCompleted EXCEPT ![b] = @ \cup {e.id}]
  /\ resultsNotFound' = [resultsNotFound EXCEPT ![b] = @ \ {e.id}]
  /\ UNCHANGED <<pc, retryCount, abortedId>>

ResultCompleted(b, e) ==
  /\ e.id \in resultsNotFound[b]
  /\ e.status = "Completed"
  /\ resultsCompleted' = [resultsCompleted EXCEPT ![b] = @ \cup {e.id}]
  /\ resultsNotFound' = [resultsNotFound EXCEPT ![b] = @ \ {e.id}]
  /\ IF resultsNotFound[b] = {e.id} THEN Goto(b, "check") ELSE UNCHANGED pc
  /\ UNCHANGED <<retryCount, abortedId>>

\* Mutant of ResultAborted: the event is not looked up in resultsNotFound.
ResultAbortedForeign(b, e) ==
  /\ e.status = "Aborted"
  /\ abortedId' = [abortedId EXCEPT ![b] = e.id]
  /\ Goto(b, "aborted")
  /\ UNCHANGED <<resultsNotFound, resultsCompleted, retryCount>>

ResultAborted(b, e) ==
  /\ e.id \in resultsNotFound[b]
  /\ e.status = "Aborted"
  /\ abortedId' = [abortedId EXCEPT ![b] = e.id]
  /\ Goto(b, "aborted")
  /\ UNCHANGED <<resultsNotFound, resultsCompleted, retryCount>>

\* MoveNext returns true.  Leaving the loop disposes of the streaming call.
MoveNext(b) ==
  /\ pc[b] = "read"
  /\ \E e \in queue[b] :
       /\ MissingKept(b, e) \/ ResultCompleted(b, e) \/ ResultAborted(b, e)
       /\ IF pc'[b] = "read" THEN Read(b, e) ELSE Unsubscribe(b)
  /\ UNCHANGED <<callVars, faults>>

\* MoveNext returns false: the service ended the stream without an error.
EndOfStream(b) ==
  /\ pc[b] = "read"
  /\ faults < MaxFaults
  /\ faults' = faults + 1
  /\ Unsubscribe(b)
  /\ Goto(b, "check")
  /\ UNCHANGED <<localVars, callVars>>

\* Mutant of RpcFailure: the limit is one too low.
RpcFailureAtLimit(b) ==
  /\ pc[b] \in {"connect", "read"}
  /\ faults < MaxFaults \/ token
  /\ faults' = IF faults < MaxFaults THEN faults + 1 ELSE faults
  /\ Unsubscribe(b)
  /\ retryCount' = [retryCount EXCEPT ![b] = @ + 1]
  /\ Goto(b, IF retryCount[b] + 1 >= RetryLimit THEN "rpc" ELSE "check")
  /\ UNCHANGED <<resultsNotFound, resultsCompleted, abortedId, callVars>>

\* catch (RpcException): a failed call or stream, or gRPC's way to report
\* that the caller's token was cancelled.
RpcFailure(b) ==
  /\ pc[b] \in {"connect", "read"}
  /\ faults < MaxFaults \/ token
  /\ faults' = IF faults < MaxFaults THEN faults + 1 ELSE faults
  /\ Unsubscribe(b)
  /\ retryCount' = [retryCount EXCEPT ![b] = @ + 1]
  /\ Goto(b, IF retryCount[b] + 1 > RetryLimit THEN "rpc" ELSE "check")
  /\ UNCHANGED <<resultsNotFound, resultsCompleted, abortedId, callVars>>

\* catch (OperationCanceledException) when cts is cancelled: only `token`
\* was given to GetEvents and MoveNext, so only it raises the exception.
OperationCanceled(b) ==
  /\ pc[b] \in {"connect", "read"}
  /\ token
  /\ Unsubscribe(b)
  /\ Goto(b, "done")
  /\ UNCHANGED <<localVars, callVars, faults>>

-----------------------------------------------------------------------------
\* The caller cancels its token; the linked cts follows.
CancelToken ==
  /\ ~token
  /\ token' = TRUE
  /\ cts' = TRUE
  /\ UNCHANGED <<serviceVars, pc, localVars, outcome, faults>>

\* ParallelForEach returns and cts is disposed of.
ReturnNormally ==
  /\ outcome = "running"
  /\ \A b \in Buckets : pc[b] = "done"
  /\ outcome' = "ok"
  /\ UNCHANGED <<serviceVars, pc, localVars, token, cts, faults>>

\* Mutant of Rethrow: the catch cancels and forgets to throw.
CatchWithoutThrow(b) ==
  /\ outcome = "running"
  /\ pc[b] \in {"aborted", "rpc"}
  /\ outcome' = "ok"
  /\ cts' = TRUE
  /\ UNCHANGED <<serviceVars, pc, localVars, token, faults>>

\* ParallelForEach throws what a bucket threw; catch { cts.Cancel(); throw; }
Rethrow(b) ==
  /\ outcome = "running"
  /\ pc[b] \in {"aborted", "rpc"}
  /\ outcome' = pc[b]
  /\ cts' = TRUE
  /\ UNCHANGED <<serviceVars, pc, localVars, token, faults>>

\* ParallelForEach sees its token cancelled and throws.
ThrowCanceled ==
  /\ outcome = "running"
  /\ token
  /\ outcome' = "canceled"
  /\ UNCHANGED <<serviceVars, pc, localVars, token, cts, faults>>

Service ==
  /\ ServiceNext
  /\ UNCHANGED <<pc, localVars, callVars, faults>>

BucketStep(b) ==
  \/ Start(b) \/ Check(b) \/ HeadersReceived(b) \/ MoveNext(b)
  \/ EndOfStream(b) \/ RpcFailure(b) \/ OperationCanceled(b)

Next ==
  \/ Service
  \/ \E b \in Buckets : BucketStep(b) \/ Rethrow(b)
  \/ CancelToken \/ ReturnNormally \/ ThrowCanceled

Spec == Init /\ [][Next]_vars

\* gRPC's two ways to tell a pending call that its token was cancelled.
CancelReported(b) == token /\ (RpcFailure(b) \/ OperationCanceled(b))

\* Tasks that can run do run, a connection attempt is answered, what the
\* service sent arrives, and a call whose token is cancelled is told so.  Nothing
\* is assumed of the service's statuses, of faults, nor of the caller's token.
Fairness ==
  /\ \A b \in Buckets :
       /\ WF_vars(Start(b))
       /\ WF_vars(Check(b))
       /\ WF_vars(HeadersReceived(b))
       /\ WF_vars(MoveNext(b))
       /\ WF_vars(CancelReported(b))
       /\ WF_vars(Rethrow(b))
  /\ WF_vars(ReturnNormally)
  /\ WF_vars(ThrowCanceled)

FairSpec == Spec /\ Fairness
-----------------------------------------------------------------------------
\* The variables keep their types: retryCount stays within the limit.
TypeOK ==
  /\ ServiceTypeOK(Buckets)
  /\ pc \in [Buckets -> PCs]
  /\ resultsNotFound \in [Buckets -> SUBSET Results]
  /\ resultsCompleted \in [Buckets -> SUBSET Results]
  /\ retryCount \in [Buckets -> 0 .. RetryLimit + 1]
  /\ abortedId \in [Buckets -> Results \cup {NoId}]
  /\ token \in BOOLEAN
  /\ cts \in BOOLEAN
  /\ outcome \in Outcomes
  /\ faults \in 0 .. MaxFaults

\* WaitForResultsAsync returns normally, uncancelled, only when every id it
\* was given has been completed, across reconnections and parallel buckets.
ReturnsComplete ==
  outcome = "ok" /\ ~token => \A r \in Awaited : WasCompleted(r)

\* A ResultAbortedException tells the truth: the id it names was awaited by
\* the bucket and is aborted, its CompletedResultIds were completed and, with
\* its RemainingResultIds, are exactly the ids of the bucket.
AbortReportConsistent ==
  \A b \in Buckets : pc[b] = "aborted" =>
    /\ abortedId[b] \in resultsNotFound[b]
    /\ status[abortedId[b]] = "Aborted"
    /\ \A r \in resultsCompleted[b] : WasCompleted(r)
    /\ resultsCompleted[b] \cap resultsNotFound[b] = {}
    /\ resultsCompleted[b] \cup resultsNotFound[b] = Bucket(b)

\* A task gives up with an RpcException only after more than RetryLimit
\* failures: retryCount never counts a failure twice.
RetriesExhausted ==
  \A b \in Buckets : pc[b] = "rpc" /\ ~token => faults > RetryLimit

\* A task that reads its stream has something to wait for, and nothing it
\* waits for was missed: however status changes, reconnections and reads
\* interleave, each missing id that is completed or aborted has its event ahead.
NothingMissed ==
  \A b \in Buckets : pc[b] = "read" =>
    /\ resultsNotFound[b] # {}
    /\ \A r \in resultsNotFound[b] : Announced(b, r)

\* A cancelled wait stops: whatever each bucket was doing, connecting, counting
\* failures or reading a stream that stays silent, none is left running in the
\* background and none subscribes for ever after.
CancelEnds == token ~> \A b \in Buckets : pc[b] \notin Active

\* If every awaited result reaches the end of its life without its data being
\* deleted, the call ends, whatever streams broke meanwhile.
Terminates ==
  /\ [](\A r \in Awaited : status[r] # "Deleted")
  /\ <>(\A r \in Awaited : status[r] # "Created")
  => <>(outcome # "running")

\* The call implements the abstract wait: the tasks, their streams and their
\* retries are invisible to the caller.
Promise == INSTANCE ResultWait

ImplementsResultWait == Promise!Spec
=============================================================================
