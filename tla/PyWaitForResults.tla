-------------------------- MODULE PyWaitForResults --------------------------
(***************************************************************************)
(* ArmoniKEvents.wait_for_result_availability of the Python client.        *)
(*                                                                         *)
(* _wait_all runs once per batch: one after the other when parallelism is  *)
(* 1, on a pool of that many threads otherwise.  pc[b] is where the run    *)
(* for batch b stands:                                                     *)
(*   "idle"       not started (a pending future)                           *)
(*   "loop"       at `while not_found`                                     *)
(*   "read"       in the `for message in streaming_call` of get_events     *)
(*   "done", "aborted", "cancelled"  returned, raised RuntimeError, future *)
(*                cancelled before it started                              *)
(***************************************************************************)
EXTENDS ResultEvents, Buckets, FiniteSets

CONSTANTS MaxErrors,    \* bound: streams that fail with an RpcError
          MaxEnds       \* bound: streams the service ends without an error

ASSUME PyAssumption ==
  /\ ResultIds \in Seq(Results)
  /\ \A i, j \in DOMAIN ResultIds : ResultIds[i] = ResultIds[j] => i = j
  /\ MaxErrors \in Nat
  /\ MaxEnds \in Nat

VARIABLES pc, not_found,
          outcome,      \* "running", "ok" or "aborted"
          errors, ends, \* how many streams failed, were ended
          parallelism   \* the argument of the call, at most Parallelism

vars == <<serviceVars, pc, not_found, outcome, errors, ends, parallelism>>

Init ==
  /\ ServiceInit(Buckets)
  /\ pc = [b \in Buckets |-> "idle"]
  /\ not_found = [b \in Buckets |-> Bucket(b)]
  /\ outcome = "running"
  /\ errors = 0
  /\ ends = 0
  /\ parallelism \in 1 .. Parallelism

Goto(b, l) == pc' = [pc EXCEPT ![b] = l]

-----------------------------------------------------------------------------
\* A thread of the pool, or the sequential loop, takes the next batch.
Start(b) ==
  /\ pc[b] = "idle"
  /\ \A a \in Buckets : a < b => pc[a] # "idle"
  /\ IF parallelism > 1
     THEN Cardinality({a \in Buckets : pc[a] \in {"loop", "read"}}) < parallelism
     ELSE \A a \in Buckets : a < b => pc[a] = "done"
  /\ Goto(b, "loop")
  /\ UNCHANGED <<serviceVars, not_found, outcome, errors, ends, parallelism>>

\* while not_found: get_events, always with the filter on the whole batch.
GetEvents(b) ==
  /\ pc[b] = "loop"
  /\ not_found[b] # {}
  /\ Subscribe(b, Bucket(b))
  /\ Goto(b, "read")
  /\ UNCHANGED <<not_found, outcome, errors, ends, parallelism>>

\* Mutant of HandlerCompleted: the handler never asks to stop the stream.
HandlerNeverStops(b, e) ==
  /\ e.id \in not_found[b]
  /\ e.status = "Completed"
  /\ not_found' = [not_found EXCEPT ![b] = @ \ {e.id}]
  /\ UNCHANGED pc

\* The handler removes a completed id and stops the stream on the last one.
HandlerCompleted(b, e) ==
  /\ e.id \in not_found[b]
  /\ e.status = "Completed"
  /\ not_found' = [not_found EXCEPT ![b] = @ \ {e.id}]
  /\ IF not_found[b] = {e.id} THEN Goto(b, "done") ELSE UNCHANGED pc

\* The handler raises RuntimeError, which _wait_all does not catch.
HandlerAborted(b, e) ==
  /\ e.id \in not_found[b]
  /\ e.status = "Aborted"
  /\ Goto(b, "aborted")
  /\ UNCHANGED not_found

\* Mutant of HandlerIgnores: the handler only knows ResultStatusUpdateEvent.
HandlerIgnoresSnapshot(b, e) ==
  /\ \/ e.id \notin not_found[b]
     \/ e.status \notin {"Completed", "Aborted"}
     \/ e.kind = "NewResult"
  /\ UNCHANGED <<pc, not_found>>

HandlerIgnores(b, e) ==
  /\ \/ e.id \notin not_found[b]
     \/ e.status \notin {"Completed", "Aborted"}
  /\ UNCHANGED <<pc, not_found>>

Handle(b) ==
  /\ pc[b] = "read"
  /\ \E e \in queue[b] :
       /\ HandlerCompleted(b, e) \/ HandlerAborted(b, e) \/ HandlerIgnores(b, e)
       /\ IF pc'[b] = "read" THEN Read(b, e) ELSE Unsubscribe(b)
  /\ UNCHANGED <<outcome, errors, ends, parallelism>>

\* Mutant of StreamError: the exception handler leaves the loop.
StreamErrorBreaks(b) ==
  /\ pc[b] = "read"
  /\ errors < MaxErrors
  /\ errors' = errors + 1
  /\ Unsubscribe(b)
  /\ Goto(b, "done")
  /\ UNCHANGED <<not_found, outcome, ends, parallelism>>

\* except RpcError: pass -- without limit and without delay
StreamError(b) ==
  /\ pc[b] = "read"
  /\ errors < MaxErrors
  /\ errors' = errors + 1
  /\ Unsubscribe(b)
  /\ Goto(b, "loop")
  /\ UNCHANGED <<not_found, outcome, ends, parallelism>>

\* else: break -- get_events returned because the stream came to its end
StreamEnd(b) ==
  /\ pc[b] = "read"
  /\ ends < MaxEnds
  /\ ends' = ends + 1
  /\ Unsubscribe(b)
  /\ Goto(b, "done")
  /\ UNCHANGED <<not_found, outcome, errors, parallelism>>

-----------------------------------------------------------------------------
\* Every future, or every iteration of the sequential loop, has returned.
ReturnNormally ==
  /\ outcome = "running"
  /\ \A b \in Buckets : pc[b] = "done"
  /\ outcome' = "ok"
  /\ UNCHANGED <<serviceVars, pc, not_found, errors, ends, parallelism>>

\* Mutant of Raise: the pending futures are not cancelled.
RaiseWithoutCancel(b) ==
  /\ outcome = "running"
  /\ pc[b] = "aborted"
  /\ outcome' = "aborted"
  /\ UNCHANGED <<serviceVars, pc, not_found, errors, ends, parallelism>>

\* The first exception seen cancels the pending futures and is raised; the
\* threads that run go on (shutdown(wait=False)).
Raise(b) ==
  /\ outcome = "running"
  /\ pc[b] = "aborted"
  /\ pc' = [a \in Buckets |-> IF pc[a] = "idle" THEN "cancelled" ELSE pc[a]]
  /\ outcome' = "aborted"
  /\ UNCHANGED <<serviceVars, not_found, errors, ends, parallelism>>

Service ==
  /\ ServiceNext
  /\ UNCHANGED <<pc, not_found, outcome, errors, ends, parallelism>>

Next ==
  \/ Service
  \/ \E b \in Buckets :
       \/ Start(b) \/ GetEvents(b) \/ Handle(b)
       \/ StreamError(b) \/ StreamEnd(b) \/ Raise(b)
  \/ ReturnNormally

Spec == Init /\ [][Next]_vars

Fairness ==
  /\ \A b \in Buckets :
       WF_vars(Start(b)) /\ WF_vars(GetEvents(b)) /\ WF_vars(Handle(b)) /\ WF_vars(Raise(b))
  /\ WF_vars(ReturnNormally)

FairSpec == Spec /\ Fairness

-----------------------------------------------------------------------------
\* A return with a result missing, which get_events allows, needs a stream that the
\* service ended early; failing streams never lose a result.
EarlyReturnNeedsEnd ==
  outcome = "ok" /\ ends = 0 => \A r \in Awaited : WasCompleted(r)

\* "Wait until a result is ready i.e its status updates to COMPLETED": a call that
\* returns has seen every result completed.  It has not when a stream was ended.
ReadyOnReturn == outcome = "ok" => \A r \in Awaited : WasCompleted(r)

\* A batch that reads its stream misses something, and nothing it misses was
\* overlooked: if it is completed or aborted, its event is ahead.
NothingMissed ==
  \A b \in Buckets : pc[b] = "read" =>
    /\ not_found[b] # {}
    /\ \A r \in not_found[b] : Announced(b, r)

\* The error is raised only when an awaited result is aborted, and from then
\* on no further batch is started.
AbortStopsTheRest ==
  [][/\ outcome' = "aborted" => \E r \in Awaited : status[r] = "Aborted"
     /\ outcome = "aborted" =>
          \A b \in Buckets : pc[b] \in {"idle", "cancelled"} => pc'[b] = pc[b]]_vars

\* Waiting ends when every awaited result reached the end of its life.
Terminates ==
  /\ [](\A r \in Awaited : status[r] # "Deleted")
  /\ <>(\A r \in Awaited : status[r] # "Created")
  => <>(outcome # "running")

\* The call implements the abstract wait, in which a stream that the service
\* ended stands for a caller that gave up: from then on, and only from then
\* on, the call may return with results missing.
Promise == INSTANCE ResultWait WITH token <- (ends > 0)

ImplementsResultWait == Promise!Spec
=============================================================================
