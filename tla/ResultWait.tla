----------------------------- MODULE ResultWait -----------------------------
(***************************************************************************)
(* What waiting for results promises, whatever the client library: the     *)
(* call returns normally only when every awaited result has been completed *)
(* (or the caller gave up), reports an abort only when an awaited result   *)
(* was aborted, and otherwise fails only with a communication error.       *)
(* The statuses change meanwhile, as the control plane decides.            *)
(***************************************************************************)
CONSTANTS Results,      \* the results of the session
          Awaited       \* the ones the call waits for

VARIABLES status,       \* status[r]: status of result r
          token,        \* has the caller cancelled the call?
          outcome       \* "running", or how the call ended

Lifecycle == {<<"Created", "Completed">>, <<"Created", "Aborted">>,
              <<"Completed", "Deleted">>}

Init ==
  /\ status \in [Results -> {"Created", "Completed", "Aborted", "Deleted"}]
  /\ token = FALSE
  /\ outcome = "running"

Evolve ==
  /\ \E r \in Results, s \in {"Completed", "Aborted", "Deleted"} :
       /\ <<status[r], s>> \in Lifecycle
       /\ status' = [status EXCEPT ![r] = s]
  /\ UNCHANGED <<token, outcome>>

Cancel ==
  /\ token' = TRUE
  /\ UNCHANGED <<status, outcome>>

Return ==
  /\ outcome = "running"
  /\ token \/ \A r \in Awaited : status[r] \in {"Completed", "Deleted"}
  /\ outcome' = "ok"
  /\ UNCHANGED <<status, token>>

FailAborted ==
  /\ outcome = "running"
  /\ \E r \in Awaited : status[r] = "Aborted"
  /\ outcome' = "aborted"
  /\ UNCHANGED <<status, token>>

FailRpc ==
  /\ outcome = "running"
  /\ outcome' = "rpc"
  /\ UNCHANGED <<status, token>>

FailCanceled ==
  /\ outcome = "running"
  /\ token
  /\ outcome' = "canceled"
  /\ UNCHANGED <<status, token>>

Next == Evolve \/ Cancel \/ Return \/ FailAborted \/ FailRpc \/ FailCanceled

Spec == Init /\ [][Next]_<<status, token, outcome>>
=============================================================================
