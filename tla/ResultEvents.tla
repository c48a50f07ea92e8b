---------------------------- MODULE ResultEvents ----------------------------
(***************************************************************************)
(* The control plane's event service (Protos/V1/events_service.proto), as  *)
(* the client libraries use it: EXTERNAL code, modelled from its callers.  *)
(*                                                                         *)
(* A subscriber opens a GetEvents stream.  The stream first carries one    *)
(* NewResult event per matching result, with its current status, and then  *)
(* one ResultStatusUpdate per change.  The undelivered events of a stream  *)
(* are a SET: any order of delivery is allowed, which is weaker than what  *)
(* gRPC gives and all that the callers rely on.  The service may honour    *)
(* the filter of the request or send the events of the whole session: the  *)
(* proto file documents the second, the callers ask for the first.         *)
(***************************************************************************)
EXTENDS Naturals, Sequences

CONSTANT Results        \* the results of the session

VARIABLES status,       \* status[r]: the status of result r at the service
          sub,          \* sub[c]: results whose events subscriber c is sent
          queue         \* queue[c]: events sent to c and not yet read by it

serviceVars == <<status, sub, queue>>

\* Every waiter treats the other statuses of the proto as it does "Created".
Statuses == {"Created", "Completed", "Aborted", "Deleted"}

Kinds == {"NewResult", "ResultStatusUpdate"}

Events == [kind : Kinds, id : Results, status : Statuses]

Event(k, r, s) == [kind |-> k, id |-> r, status |-> s]

\* A result is produced or aborted once; the data of a produced one may go.
Lifecycle == {<<"Created", "Completed">>, <<"Created", "Aborted">>,
              <<"Completed", "Deleted">>}

\* The statuses of a result that was, at some time, completed.
WasCompleted(r) == status[r] \in {"Completed", "Deleted"}

ServiceTypeOK(Subscribers) ==
  /\ status \in [Results -> Statuses]
  /\ sub \in [Subscribers -> SUBSET Results]
  /\ queue \in [Subscribers -> SUBSET Events]

\* A wait may begin at any point of the results' lives.
ServiceInit(Subscribers) ==
  /\ status \in [Results -> Statuses]
  /\ sub = [c \in Subscribers |-> {}]
  /\ queue = [c \in Subscribers |-> {}]

\* A result changes status and the open streams that cover it are told.
ChangeStatus(r, s) ==
  /\ <<status[r], s>> \in Lifecycle
  /\ status' = [status EXCEPT ![r] = s]
  /\ queue' = [c \in DOMAIN queue |->
                 IF r \in sub[c]
                 THEN queue[c] \cup {Event("ResultStatusUpdate", r, s)}
                 ELSE queue[c]]
  /\ UNCHANGED sub

ServiceNext == \E r \in Results, s \in Statuses : ChangeStatus(r, s)

\* Subscriber c opens a stream asking for ids and is sent the snapshot.
Subscribe(c, ids) ==
  \E covered \in {ids, Results} :
    /\ sub' = [sub EXCEPT ![c] = covered]
    /\ queue' = [queue EXCEPT ![c] =
                   {Event("NewResult", r, status[r]) : r \in covered}]
    /\ UNCHANGED status

\* Subscriber c reads event e from its stream.
Read(c, e) ==
  /\ e \in queue[c]
  /\ queue' = [queue EXCEPT ![c] = @ \ {e}]
  /\ UNCHANGED <<status, sub>>

\* The stream of subscriber c is gone, with what was not read from it.
Unsubscribe(c) ==
  /\ sub' = [sub EXCEPT ![c] = {}]
  /\ queue' = [queue EXCEPT ![c] = {}]
  /\ UNCHANGED status

\* What a stream may carry: a terminal status only if the result reached it.
TruthfulStreams ==
  \A c \in DOMAIN queue : \A e \in queue[c] :
    /\ e.status = "Completed" => WasCompleted(e.id)
    /\ e.status = "Aborted" => status[e.id] = "Aborted"

\* Subscriber c can still learn how r ended: if it has, an event that says so
\* is waiting in c's stream.
Announced(c, r) ==
  status[r] \in {"Completed", "Aborted"} =>
    \E e \in queue[c] : e.id = r /\ e.status = status[r]
=============================================================================
