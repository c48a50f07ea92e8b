------------------------- MODULE CppWaitForResults --------------------------
(***************************************************************************)
(* EventsClient::wait_for_result_availability of the C++ client: a single  *)
(* subscription, read until every id was seen completed or Read fails.     *)
(* The error raised for an aborted result is caught by the catch of the    *)
(* same loop iteration, which only logs it; the status of the stream is    *)
(* never asked for (no Finish), so a broken stream and an ended one look   *)
(* the same.  The emptiness of result_ids is only tested after an erase.   *)
(***************************************************************************)
EXTENDS ResultEvents

CONSTANTS Awaited,      \* the ids given by the caller
          MayEnd        \* may the service break or end the stream?

ASSUME CppAssumption ==
  /\ Awaited \subseteq Results
  /\ MayEnd \in BOOLEAN

Reader == "reader"      \* the one subscriber

VARIABLES result_ids,   \* the ids not seen completed yet
          outcome,      \* "start", "running", "ok", or "error" (no stream)
          broken        \* did Read fail?

vars == <<serviceVars, result_ids, outcome, broken>>

Init ==
  /\ ServiceInit({Reader})
  /\ result_ids = Awaited
  /\ outcome = "start"
  /\ broken = FALSE

\* An empty list of filters subscribes to every result of the session.
GetEvents ==
  /\ outcome = "start"
  /\ Subscribe(Reader, IF Awaited = {} THEN Results ELSE Awaited)
  /\ outcome' = "running"
  /\ UNCHANGED <<result_ids, broken>>

\* if (!stream) throw ArmoniKApiException
NoStream ==
  /\ outcome = "start"
  /\ MayEnd
  /\ outcome' = "error"
  /\ UNCHANGED <<serviceVars, result_ids, broken>>

\* Mutants of EraseCompleted: the Aborted case falls through; no break when
\* the last id is erased.
EraseFallsThrough(e) ==
  /\ e.status \in {"Completed", "Aborted"}
  /\ result_ids' = result_ids \ {e.id}
  /\ IF result_ids' = {}
     THEN outcome' = "ok" /\ Unsubscribe(Reader)
     ELSE Read(Reader, e) /\ UNCHANGED outcome

EraseWithoutBreak(e) ==
  /\ e.status = "Completed"
  /\ result_ids' = result_ids \ {e.id}
  /\ Read(Reader, e)
  /\ UNCHANGED outcome

EraseCompleted(e) ==
  /\ e.status = "Completed"
  /\ result_ids' = result_ids \ {e.id}
  /\ IF result_ids' = {}
     THEN outcome' = "ok" /\ Unsubscribe(Reader)
     ELSE Read(Reader, e) /\ UNCHANGED outcome

\* Mutant of SkipEvent: the kNewResult case is missing from the switch.
SkipSnapshot(e) ==
  /\ e.status # "Completed" \/ e.kind = "NewResult"
  /\ Read(Reader, e)
  /\ UNCHANGED <<result_ids, outcome>>

\* default: break;  and  catch (const std::exception &e) { std::cerr ... }
SkipEvent(e) ==
  /\ e.status # "Completed"
  /\ Read(Reader, e)
  /\ UNCHANGED <<result_ids, outcome>>

ReadEvent ==
  /\ outcome = "running"
  /\ \E e \in queue[Reader] : EraseCompleted(e) \/ SkipEvent(e)
  /\ UNCHANGED broken

\* Read returns false: the loop ends and the function returns.
ReadFails ==
  /\ outcome = "running"
  /\ MayEnd
  /\ broken' = TRUE
  /\ outcome' = "ok"
  /\ Unsubscribe(Reader)
  /\ UNCHANGED result_ids

Service ==
  /\ ServiceNext
  /\ UNCHANGED <<result_ids, outcome, broken>>

Next == Service \/ GetEvents \/ NoStream \/ ReadEvent \/ ReadFails

Spec == Init /\ [][Next]_vars

FairSpec == Spec /\ WF_vars(GetEvents) /\ WF_vars(ReadEvent)

-----------------------------------------------------------------------------
\* A normal return with a result missing needs a stream that broke or ended;
\* in particular an aborted result is never taken for a completed one.
EarlyReturnNeedsBreak ==
  outcome = "ok" /\ ~broken => \A r \in Awaited : WasCompleted(r)

\* While the call reads, ids are left if any were given, and nothing is
\* missed among them: the event of one that is completed is ahead.  (That of
\* an aborted one is swallowed, and the call goes on waiting for it.)
NothingMissed ==
  outcome = "running" =>
    /\ Awaited # {} => result_ids # {}
    /\ \A r \in result_ids : status[r] # "Aborted" => Announced(Reader, r)

\* With at least one id, waiting ends once all of them stay completed.
Terminates ==
  Awaited # {} /\ <>[](\A r \in Awaited : status[r] = "Completed")
    => <>(outcome \in {"ok", "error"})
=============================================================================
