------------------------- MODULE JavaWaitForResults -------------------------
(***************************************************************************)
(* EventClient.waitForResultsAsync of the Java client.                     *)
(*                                                                         *)
(* Each chunk runs on a thread of a fixed pool and blocks on a latch while *)
(* gRPC's callback threads run its StreamObserver.  pc[b] is the worker    *)
(* thread ("idle", "loop", "await" on the latch, "done"), stream[b] its    *)
(* last stream ("none", "open", "broken" when onError is due, "closed").   *)
(* An exception thrown by onNext does not reach the worker thread: gRPC    *)
(* cancels the call and reports it through onError.  Nobody cancels the    *)
(* stream of a chunk that is done, so it may go on delivering events.      *)
(***************************************************************************)
EXTENDS ResultEvents, Buckets, FiniteSets

CONSTANT MaxFaults      \* bound: streams the service breaks or ends

ASSUME JavaAssumption ==
  /\ ResultIds \in Seq(Results)
  /\ MaxFaults \in Nat

VARIABLES pc, resultsNotFound, latch, stream,
          outcome,      \* "running", or "ok" when the future completes
          faults

vars == <<serviceVars, pc, resultsNotFound, latch, stream, outcome, faults>>

Init ==
  /\ ServiceInit(Buckets)
  /\ pc = [b \in Buckets |-> "idle"]
  /\ resultsNotFound = [b \in Buckets |-> Bucket(b)]
  /\ latch = [b \in Buckets |-> 0]
  /\ stream = [b \in Buckets |-> "none"]
  /\ outcome = "running"
  /\ faults = 0

Goto(b, l) == pc' = [pc EXCEPT ![b] = l]

CountDown(b) == latch' = [latch EXCEPT ![b] = 0]

-----------------------------------------------------------------------------
\* A thread of the pool takes the next chunk.
Start(b) ==
  /\ pc[b] = "idle"
  /\ \A a \in Buckets : a < b => pc[a] # "idle"
  /\ Cardinality({a \in Buckets : pc[a] \in {"loop", "await"}}) < Parallelism
  /\ Goto(b, "loop")
  /\ UNCHANGED <<serviceVars, resultsNotFound, latch, stream, outcome, faults>>

\* while (!resultsNotFound.isEmpty()): a new latch and a new stream, whose
\* filter is always the whole chunk
GetEvents(b) ==
  /\ pc[b] = "loop"
  /\ resultsNotFound[b] # {}
  /\ Subscribe(b, Bucket(b))
  /\ latch' = [latch EXCEPT ![b] = 1]
  /\ stream' = [stream EXCEPT ![b] = "open"]
  /\ Goto(b, "await")
  /\ UNCHANGED <<resultsNotFound, outcome, faults>>

\* Mutant of LeaveLoop: the loop is left after its first stream.
LeaveAfterOneStream(b) ==
  /\ pc[b] = "loop"
  /\ stream[b] # "none"
  /\ Goto(b, "done")
  /\ UNCHANGED <<serviceVars, resultsNotFound, latch, stream, outcome, faults>>

LeaveLoop(b) ==
  /\ pc[b] = "loop"
  /\ resultsNotFound[b] = {}
  /\ Goto(b, "done")
  /\ UNCHANGED <<serviceVars, resultsNotFound, latch, stream, outcome, faults>>

\* latch.await() returns
AwaitReturns(b) ==
  /\ pc[b] = "await"
  /\ latch[b] = 0
  /\ Goto(b, "loop")
  /\ UNCHANGED <<serviceVars, resultsNotFound, latch, stream, outcome, faults>>

-----------------------------------------------------------------------------
\* Mutant of OnNextCompleted: the last completion does not release the thread.
OnNextNoCountDown(b, e) ==
  /\ e.id \in resultsNotFound[b]
  /\ e.status = "Completed"
  /\ resultsNotFound' = [resultsNotFound EXCEPT ![b] = @ \ {e.id}]
  /\ Read(b, e)
  /\ UNCHANGED <<stream, latch>>

\* onNext, on a callback thread
OnNextCompleted(b, e) ==
  /\ e.id \in resultsNotFound[b]
  /\ e.status = "Completed"
  /\ resultsNotFound' = [resultsNotFound EXCEPT ![b] = @ \ {e.id}]
  /\ IF resultsNotFound[b] = {e.id} THEN CountDown(b) ELSE UNCHANGED latch
  /\ Read(b, e)
  /\ UNCHANGED stream

\* Mutant of OnNextAborted: the thread is released before onError.
OnNextAbortedCountDown(b, e) ==
  /\ e.id \in resultsNotFound[b]
  /\ e.status = "Aborted"
  /\ stream' = [stream EXCEPT ![b] = "broken"]
  /\ CountDown(b)
  /\ Unsubscribe(b)
  /\ UNCHANGED resultsNotFound

OnNextAborted(b, e) ==
  /\ e.id \in resultsNotFound[b]
  /\ e.status = "Aborted"
  /\ stream' = [stream EXCEPT ![b] = "broken"]
  /\ Unsubscribe(b)
  /\ UNCHANGED <<resultsNotFound, latch>>

\* Mutant of OnNextIgnores: the NEW_RESULT branch of onNext is missing.
OnNextIgnoresSnapshot(b, e) ==
  /\ \/ e.id \notin resultsNotFound[b]
     \/ e.status \notin {"Completed", "Aborted"}
     \/ e.kind = "NewResult"
  /\ Read(b, e)
  /\ UNCHANGED <<resultsNotFound, latch, stream>>

OnNextIgnores(b, e) ==
  /\ \/ e.id \notin resultsNotFound[b]
     \/ e.status \notin {"Completed", "Aborted"}
  /\ Read(b, e)
  /\ UNCHANGED <<resultsNotFound, latch, stream>>

OnNext(b) ==
  /\ stream[b] = "open"
  /\ \E e \in queue[b] :
       OnNextCompleted(b, e) \/ OnNextAborted(b, e) \/ OnNextIgnores(b, e)
  /\ UNCHANGED <<pc, outcome, faults>>

\* The call fails on the network or at the service.
Break(b) ==
  /\ stream[b] = "open"
  /\ faults < MaxFaults
  /\ faults' = faults + 1
  /\ stream' = [stream EXCEPT ![b] = "broken"]
  /\ Unsubscribe(b)
  /\ UNCHANGED <<pc, resultsNotFound, latch, outcome>>

\* Mutant of OnError: the error is printed and the latch forgotten.
OnErrorOnlyPrints(b) ==
  /\ stream[b] = "broken"
  /\ stream' = [stream EXCEPT ![b] = "closed"]
  /\ UNCHANGED <<serviceVars, pc, resultsNotFound, latch, outcome, faults>>

OnError(b) ==
  /\ stream[b] = "broken"
  /\ stream' = [stream EXCEPT ![b] = "closed"]
  /\ CountDown(b)
  /\ UNCHANGED <<serviceVars, pc, resultsNotFound, outcome, faults>>

OnCompleted(b) ==
  /\ stream[b] = "open"
  /\ faults < MaxFaults
  /\ faults' = faults + 1
  /\ stream' = [stream EXCEPT ![b] = "closed"]
  /\ Unsubscribe(b)
  /\ CountDown(b)
  /\ UNCHANGED <<pc, resultsNotFound, outcome>>

\* CompletableFuture.allOf(...).thenRun(executor::shutdown)
Complete ==
  /\ outcome = "running"
  /\ \A b \in Buckets : pc[b] = "done"
  /\ outcome' = "ok"
  /\ UNCHANGED <<serviceVars, pc, resultsNotFound, latch, stream, faults>>

Service ==
  /\ ServiceNext
  /\ UNCHANGED <<pc, resultsNotFound, latch, stream, outcome, faults>>

Next ==
  \/ Service
  \/ \E b \in Buckets :
       \/ Start(b) \/ GetEvents(b) \/ LeaveLoop(b) \/ AwaitReturns(b)
       \/ OnNext(b) \/ Break(b) \/ OnError(b) \/ OnCompleted(b)
  \/ Complete

Spec == Init /\ [][Next]_vars

\* Threads and callbacks run when they can, and what was sent is delivered.
Fairness ==
  /\ \A b \in Buckets :
       /\ WF_vars(Start(b)) /\ WF_vars(GetEvents(b))
       /\ WF_vars(LeaveLoop(b)) /\ WF_vars(AwaitReturns(b))
       /\ WF_vars(OnNext(b)) /\ WF_vars(OnError(b))
  /\ WF_vars(Complete)

FairSpec == Spec /\ Fairness

-----------------------------------------------------------------------------
\* No lost wake-up: a thread blocked on its latch has a stream whose next
\* callback can release it, and results left for that stream to report.
NoLostWakeup ==
  \A b \in Buckets : pc[b] = "await" /\ latch[b] = 1 =>
    /\ stream[b] \in {"open", "broken"}
    /\ resultsNotFound[b] # {}

\* A chunk waits on one stream at a time: while a call is alive the thread
\* neither opens another one nor is about to, unless it has nothing left.
OneStreamAtATime ==
  \A b \in Buckets : pc[b] = "loop" /\ resultsNotFound[b] # {} =>
    stream[b] \in {"none", "closed"}

\* Nothing is missed: while a stream is open, the event of every missing id
\* that is completed or aborted is ahead in that very stream, although the
\* set of missing ids outlives streams and is emptied by their callbacks.
NothingMissed ==
  \A b \in Buckets : stream[b] = "open" =>
    \A r \in resultsNotFound[b] : Announced(b, r)

\* The future completes when all the results are completed, in spite of
\* broken or ended streams.
Terminates ==
  <>[](\A r \in Awaited : status[r] = "Completed") => <>(outcome = "ok")

\* The call implements the abstract wait, of a caller that cannot cancel.
Promise == INSTANCE ResultWait WITH token <- FALSE

ImplementsResultWait == Promise!Spec

\* "@throws RuntimeException if any result is aborted": the caller is told of an
\* abort.  The exception is thrown in a callback and the loop goes on for ever.
AbortIsReported == (\E r \in Awaited : status[r] = "Aborted") ~> (outcome # "running")
=============================================================================
