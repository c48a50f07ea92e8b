------------------------------ MODULE RemoteCall ------------------------------
(***************************************************************************)
(* What a caller of the Rust client may rely on, whatever the network does.*)
(* The handler that bears the name of the method runs, at most once, also  *)
(* after the caller has given up.  The caller learns the handler's own     *)
(* verdict or an error: it never takes a refusal or a failure for success. *)
(***************************************************************************)
EXTENDS Sequences

CONSTANTS Calls, Names

VARIABLES wanted,   \* the name of the method that was called
          ran,      \* the handlers that ran for the call, in order
          verdict,  \* what the handler made of it
          outcome   \* what the caller was told

vars == <<wanted, ran, verdict, outcome>>

Init ==
  /\ wanted = [c \in Calls |-> "none"]
  /\ ran = [c \in Calls |-> <<>>]
  /\ verdict = [c \in Calls |-> "none"]
  /\ outcome = [c \in Calls |-> "none"]

Ask(c) ==
  /\ wanted[c] = "none"
  /\ \E n \in Names : wanted' = [wanted EXCEPT ![c] = n]
  /\ UNCHANGED <<ran, verdict, outcome>>

Run(c) ==
  /\ wanted[c] # "none" /\ ran[c] = <<>>
  /\ ran' = [ran EXCEPT ![c] = <<wanted[c]>>]
  /\ UNCHANGED <<wanted, verdict, outcome>>

\* Without a handler the service can only refuse the call.
Decide(c) ==
  /\ wanted[c] # "none" /\ verdict[c] = "none"
  /\ \E v \in {"error"} \cup (IF ran[c] = <<>> THEN {} ELSE {"ok", "refused"}) :
       verdict' = [verdict EXCEPT ![c] = v]
  /\ UNCHANGED <<wanted, ran, outcome>>

\* "gone": the caller dropped the call or the stream
Finish(c) ==
  /\ wanted[c] # "none" /\ outcome[c] = "none"
  /\ \E o \in {"err", "gone"} \cup ({verdict[c]} \cap {"ok", "refused"}) :
       outcome' = [outcome EXCEPT ![c] = o]
  /\ UNCHANGED <<wanted, ran, verdict>>

Next == \E c \in Calls : Ask(c) \/ Run(c) \/ Decide(c) \/ Finish(c)

Spec == Init /\ [][Next]_vars
=============================================================================
