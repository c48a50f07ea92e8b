-------------------------------- MODULE RustRpc --------------------------------
(***************************************************************************)
(* Calls of the Rust client on one channel, and the handlers a Rust server *)
(* runs for them.  A request, or the items of a stream, goes up and a      *)
(* response, or a stream, comes down, each in order.  The connection under *)
(* all calls may break, or go dead without a sign; the caller may time out *)
(* or drop the call; a handler may fail at any point.                      *)
(***************************************************************************)
EXTENDS RustServices, Naturals, Sequences

CONSTANTS Calls,      \* the calls that callers may make
          Scenarios,  \* the requests they make: a set of functions from Calls
          MaxItems,   \* the most items a handler streams
          MaxLosses   \* how often the connection breaks

\* No item that a caller sends is the mark of the end of its stream.
ASSUME RpcAssumption ==
  /\ MaxItems \in Nat /\ MaxLosses \in Nat
  /\ \A r \in Scenarios, c \in Calls : r[c].payload \in Seq(STRING \ {"end"})

VARIABLES config,    \* which of the timeout and the keep-alive are configured
          request,   \* the scenario
          phase,     \* of the caller: idle, calling, reading, or the outcome
          pending,   \* what the caller has still to send
          up, down,  \* what is on its way
          link,      \* the connection under the call: up, lost, silent, reset
          channel,   \* the connection that the next call will use: up or silent
          handler,   \* none, running, streaming or over
          ran,       \* the handlers that were run, in order
          verdict,   \* what the handler answered
          seen,      \* the items the handler has read
          seenEnd,   \* how they ended for it: no, end, broken
          made, got, \* items streamed by the handler, and read by the caller
          losses

client == <<config, request, phase, pending, got>>
network == <<up, down, link, channel, losses>>
server == <<handler, ran, verdict, seen, seenEnd, made>>
vars == <<client, network, server>>

\* A request: the rpc to invoke, what is made of the response, what is sent.
\* name is the handler that the caller means.
Request(service, name, takes, payload) ==
  [service |-> service, name |-> name, rpc |-> CallTable[service][name],
   takes |-> takes, payload |-> payload]

\* A method of a service; upload sends the identifier before the data.
Method(service, name, data) ==
  LET shape == HandlerTable[service][CallTable[service][name]].shape IN
  Request(service, name, MethodTable[service][name],
          IF shape # "up" THEN <<"request">>
          ELSE IF name = "upload" THEN <<"id">> \o data
          ELSE data)

\* call(request), with whatever the caller streams; the response is left whole.
RawCall(service, name, data) ==
  LET shape == HandlerTable[service][CallTable[service][name]].shape IN
  Request(service, name, IF shape = "down" THEN "items" ELSE "whole",
          IF shape # "up" THEN <<"request">> ELSE data)

\* A call of an rpc that the Rust client has no request for.
ForeignCall(service, rpc, data) ==
  [service |-> service, name |-> rpc, rpc |-> rpc, takes |-> "whole", payload |-> data]

NoRequest == [service |-> "none", name |-> "none", rpc |-> "none", takes |-> "none", payload |-> <<>>]

\* A call of the Rust client names a request that has a call; another client may
\* know rpcs that are declared and have no handler.
CanBeAsked(q) ==
  \/ q = NoRequest
  \/ /\ q.service \in DOMAIN CallTable /\ q.name \in DOMAIN CallTable[q.service]
     /\ q.rpc = CallTable[q.service][q.name]
  \/ /\ q.service \in DOMAIN HandlerTable /\ q.rpc \in DOMAIN HandlerTable[q.service]
     /\ HandlerTable[q.service][q.rpc].handler = "none" /\ q.name = q.rpc

ASSUME ScenarioAssumption == \A r \in Scenarios, c \in Calls : CanBeAsked(r[c])

\* The entry of the server's table for the call.
Entry(c) == HandlerTable[request[c].service][request[c].rpc]

\* The caller awaits the response, or the items of a stream.
Active(c) == phase[c] \in {"calling", "reading"}

-----------------------------------------------------------------------------
Init ==
  /\ config \in [timeout : BOOLEAN, keepAlive : BOOLEAN]
  /\ request \in Scenarios
  /\ phase = [c \in Calls |-> "idle"]
  /\ pending = [c \in Calls |-> <<>>] /\ up = pending /\ down = pending
  /\ link = [c \in Calls |-> "up"] /\ channel = "up"
  /\ handler = [c \in Calls |-> "none"]
  /\ ran = pending /\ seen = pending
  /\ verdict = handler
  /\ seenEnd = [c \in Calls |-> "no"]
  /\ made = [c \in Calls |-> 0] /\ got = made
  /\ losses = 0

Ask(c) ==
  /\ phase[c] = "idle" /\ request[c] # NoRequest
  /\ phase' = [phase EXCEPT ![c] = "calling"]
  /\ pending' = [pending EXCEPT ![c] = Append(request[c].payload, "end")]
  /\ link' = [link EXCEPT ![c] = channel]
  /\ UNCHANGED <<config, request, got, up, down, channel, losses, server>>

\* The request stream is polled while the response is awaited.
Send(c) ==
  /\ phase[c] = "calling" /\ pending[c] # <<>>
  /\ up' = IF link[c] = "up" THEN [up EXCEPT ![c] = Append(@, Head(pending[c]))] ELSE up
  /\ pending' = [pending EXCEPT ![c] = Tail(@)]
  /\ UNCHANGED <<config, request, phase, got, down, link, channel, losses, server>>

-----------------------------------------------------------------------------
(* The server.                                                             *)

\* What is sent after the connection is gone goes nowhere.
Reply(c, frame) ==
  down' = IF link[c] = "up" THEN [down EXCEPT ![c] = Append(@, frame)] ELSE down

\* A unary request is read whole before its handler runs; the handler of a
\* stream starts when the call arrives, and is given the items as they come.
Dispatch(c) ==
  /\ phase[c] # "idle" /\ handler[c] = "none"
  /\ IF Entry(c).shape = "up"
     THEN link[c] = "up" /\ UNCHANGED <<up, seen, seenEnd>>
     ELSE /\ up[c] # <<>> /\ up[c][Len(up[c])] = "end"
          /\ seen' = [seen EXCEPT ![c] = request[c].payload]
          /\ seenEnd' = [seenEnd EXCEPT ![c] = "end"]
          /\ up' = [up EXCEPT ![c] = <<>>]
  /\ IF Entry(c).handler = "none"
     THEN /\ handler' = [handler EXCEPT ![c] = "over"]
          /\ verdict' = [verdict EXCEPT ![c] = "error"]
          /\ Reply(c, "status")
          /\ UNCHANGED ran
     ELSE /\ handler' = [handler EXCEPT ![c] = "running"]
          /\ ran' = [ran EXCEPT ![c] = Append(@, Entry(c).handler)]
          /\ UNCHANGED <<verdict, down>>
  /\ UNCHANGED <<client, link, channel, losses, made>>

\* The next item of the stream of requests, or its end.
HandlerReads(c) ==
  /\ handler[c] = "running" /\ seenEnd[c] = "no" /\ up[c] # <<>>
  /\ IF Head(up[c]) = "end"
     THEN seenEnd' = [seenEnd EXCEPT ![c] = "end"] /\ UNCHANGED seen
     ELSE seen' = [seen EXCEPT ![c] = Append(@, Head(up[c]))] /\ UNCHANGED seenEnd
  /\ up' = [up EXCEPT ![c] = Tail(@)]
  /\ UNCHANGED <<client, down, link, channel, losses, handler, ran, verdict, made>>

\* The stream of requests fails; one that the caller cancelled may also just end.
HandlerSeesBreak(c) ==
  /\ handler[c] = "running" /\ seenEnd[c] = "no" /\ link[c] \in {"lost", "reset"}
  /\ \E e \in {"broken"} \cup (IF link[c] = "reset" THEN {"end"} ELSE {}) :
       seenEnd' = [seenEnd EXCEPT ![c] = e]
  /\ UNCHANGED <<client, network, handler, ran, verdict, seen, made>>

Refusable(c) ==
  /\ request[c].service \in DOMAIN Refusing
  /\ Entry(c).handler \in Refusing[request[c].service]

\* A handler may answer before it has read all of a stream.
HandlerReturns(c) ==
  /\ handler[c] = "running" /\ Entry(c).shape # "down"
  /\ \E v \in {"ok"} \cup (IF Refusable(c) THEN {"refused"} ELSE {}) :
       verdict' = [verdict EXCEPT ![c] = v] /\ Reply(c, v)
  /\ handler' = [handler EXCEPT ![c] = "over"]
  /\ UNCHANGED <<client, up, link, channel, losses, ran, seen, seenEnd, made>>

\* The error is dropped together with the handler.
HandlerFailsSilently(c) ==
  /\ handler[c] \in {"running", "streaming"}
  /\ verdict' = [verdict EXCEPT ![c] = "error"]
  /\ handler' = [handler EXCEPT ![c] = "over"]
  /\ UNCHANGED <<client, network, ran, seen, seenEnd, made>>

\* Err(status), from the handler or, later, from its stream
HandlerFails(c) ==
  /\ handler[c] \in {"running", "streaming"}
  /\ verdict' = [verdict EXCEPT ![c] = "error"] /\ Reply(c, "status")
  /\ handler' = [handler EXCEPT ![c] = "over"]
  /\ UNCHANGED <<client, up, link, channel, losses, ran, seen, seenEnd, made>>

HandlerStreams(c) ==
  /\ handler[c] = "running" /\ Entry(c).shape = "down"
  /\ handler' = [handler EXCEPT ![c] = "streaming"] /\ Reply(c, "head")
  /\ UNCHANGED <<client, up, link, channel, losses, ran, verdict, seen, seenEnd, made>>

StreamItem(c) ==
  /\ handler[c] = "streaming" /\ made[c] < MaxItems
  /\ made' = [made EXCEPT ![c] = @ + 1] /\ Reply(c, "item")
  /\ UNCHANGED <<client, up, link, channel, losses, handler, ran, verdict, seen, seenEnd>>

StreamEnds(c) ==
  /\ handler[c] = "streaming"
  /\ handler' = [handler EXCEPT ![c] = "over"]
  /\ verdict' = [verdict EXCEPT ![c] = "ok"] /\ Reply(c, "done")
  /\ UNCHANGED <<client, up, link, channel, losses, ran, seen, seenEnd, made>>

\* The server drops the future, or the stream, of a call that is cut off.
ServerNotices(c) ==
  /\ handler[c] \in {"running", "streaming"} /\ link[c] \in {"lost", "reset"}
  /\ handler' = [handler EXCEPT ![c] = "over"]
  /\ UNCHANGED <<client, network, ran, verdict, seen, seenEnd, made>>

-----------------------------------------------------------------------------
(* The caller.                                                             *)

\* A method that returns a Result but only looks whether there is a response.
GivenUnread(takes, answer) == IF takes = "result" /\ answer = "refused" THEN "ok" ELSE answer

\* What the caller is given of a response: an error inside the response is an
\* Err for the methods that return a Result of it.
Given(takes, answer) == IF takes = "result" /\ answer = "refused" THEN "err" ELSE answer

\* An item that is an Err filtered out of the stream.
AfterFiltered(c, f) ==
  CASE f = "head" -> "reading"
    [] f = "item" -> "reading"
    [] f = "done" \/ (f = "status" /\ phase[c] = "reading") -> "ok"
    [] f = "status" -> "err"
    [] OTHER -> Given(request[c].takes, f)

\* The caller's phase after the frame f of a response or of a stream.
After(c, f) ==
  CASE f = "head" -> "reading"
    [] f = "item" -> "reading"
    [] f = "done" -> "ok"
    [] f = "status" -> "err"
    [] OTHER -> Given(request[c].takes, f)

\* A response ends the sending of what is left of the request.
Deliver(c) ==
  /\ Active(c) /\ down[c] # <<>>
  /\ down' = [down EXCEPT ![c] = Tail(@)]
  /\ phase' = [phase EXCEPT ![c] = After(c, Head(down[c]))]
  /\ got' = IF Head(down[c]) = "item" THEN [got EXCEPT ![c] = @ + 1] ELSE got
  /\ pending' = [pending EXCEPT ![c] = <<>>]
  /\ UNCHANGED <<config, request, up, link, channel, losses, server>>

\* A loss that only the await of a response reports.
ClientNoticesWaiting(c) ==
  /\ phase[c] = "calling"
  /\ link[c] = "lost" \/ (link[c] = "silent" /\ config.keepAlive)
  /\ phase' = [phase EXCEPT ![c] = "err"]
  /\ channel' = IF link[c] = "silent" THEN "up" ELSE channel
  /\ UNCHANGED <<config, request, pending, got, up, down, link, losses, server>>

\* A connection that closes is seen; one that is dead is seen by the pings, after
\* which the channel connects again.
ClientNotices(c) ==
  /\ Active(c)
  /\ link[c] = "lost" \/ (link[c] = "silent" /\ config.keepAlive)
  /\ phase' = [phase EXCEPT ![c] = "err"]
  /\ channel' = IF link[c] = "silent" THEN "up" ELSE channel
  /\ UNCHANGED <<config, request, pending, got, up, down, link, losses, server>>

Reset(c) == link' = IF link[c] = "up" THEN [link EXCEPT ![c] = "reset"] ELSE link

\* The timeout covers the time until the response starts, not its stream.
Timeout(c) ==
  /\ config.timeout /\ phase[c] = "calling"
  /\ phase' = [phase EXCEPT ![c] = "err"]
  /\ Reset(c)
  /\ UNCHANGED <<config, request, pending, got, up, down, channel, losses, server>>

\* The caller drops the future of the call, or the stream.
Drop(c) ==
  /\ Active(c)
  /\ phase' = [phase EXCEPT ![c] = "gone"]
  /\ Reset(c)
  /\ UNCHANGED <<config, request, pending, got, up, down, channel, losses, server>>

\* The connection closes, or goes dead, under all the calls that use it.
ConnectionLost ==
  /\ losses < MaxLosses /\ channel = "up"
  /\ \E how \in {"lost", "silent"} :
       /\ link' = [c \in Calls |-> IF phase[c] # "idle" /\ link[c] = "up" THEN how ELSE link[c]]
       /\ channel' = IF how = "silent" THEN "silent" ELSE "up"
  /\ losses' = losses + 1
  /\ UNCHANGED <<client, up, down, server>>

-----------------------------------------------------------------------------
Next ==
  \/ ConnectionLost
  \/ \E c \in Calls :
       \/ Ask(c) \/ Send(c) \/ Dispatch(c) \/ HandlerReads(c) \/ HandlerSeesBreak(c)
       \/ HandlerReturns(c) \/ HandlerFails(c) \/ HandlerStreams(c)
       \/ StreamItem(c) \/ StreamEnds(c) \/ ServerNotices(c)
       \/ Deliver(c) \/ ClientNotices(c) \/ Timeout(c) \/ Drop(c)

\* The runtime, the network and the timers make progress; nothing is assumed of
\* the handlers, of which none need ever answer.
Fairness ==
  \A c \in Calls :
    WF_vars(Send(c)) /\ WF_vars(Dispatch(c)) /\ WF_vars(Deliver(c))
      /\ WF_vars(ClientNotices(c)) /\ WF_vars(Timeout(c))

Spec == Init /\ [][Next]_vars /\ Fairness

-----------------------------------------------------------------------------
(* Properties.                                                             *)

Outcome(c) == IF phase[c] \in {"idle", "calling", "reading"} THEN "none" ELSE phase[c]

\* The methods that may be called.
Names == {r[c].name : r \in Scenarios, c \in Calls}

RC == INSTANCE RemoteCall WITH
  wanted <- [c \in Calls |-> IF phase[c] = "idle" THEN "none" ELSE request[c].name],
  outcome <- [c \in Calls |-> Outcome(c)]

\* Every call behaves as RemoteCall says: the tables of the client and of the
\* server lead from a method to the handler of its name, which runs at most
\* once, and success is only ever the handler's.
ImplementsRemoteCall == RC!Spec

\* A stream that a caller reads to its end, with no error, has every item the
\* handler streamed.  A handler that reads a stream of requests to its end has
\* every item the caller sent, unless the caller cancelled the call.
NoSilentTruncation ==
  \A c \in Calls :
    /\ phase[c] = "ok" /\ Entry(c).shape = "down" => got[c] = made[c] /\ verdict[c] = "ok"
    /\ seenEnd[c] = "end" /\ link[c] # "reset" => seen[c] = request[c].payload

EndsWith(s, marks) == s # <<>> /\ s[Len(s)] \in marks

\* On a connection that is up nobody waits for what is not coming: as long as a
\* handler has not read the end of its requests, the end is on its way or still
\* to be sent; the caller of a stream that was started has its head to come; and
\* a handler that is over, by a return, an error or the end of its stream, has
\* left an answer that the caller has still to read.
NothingLost ==
  \A c \in Calls : Active(c) /\ link[c] = "up" =>
    /\ seenEnd[c] = "no" => EndsWith(IF pending[c] # <<>> THEN pending[c] ELSE up[c], {"end"})
    /\ handler[c] = "streaming" /\ phase[c] = "calling" => down[c] # <<>> /\ down[c][1] = "head"
    /\ handler[c] = "over" => EndsWith(down[c], {"ok", "refused", "status", "done"})

\* No caller waits for ever where the configuration can prevent it: with a
\* timeout the wait for a response ends, and with the keep-alive every call
\* whose connection is gone, or whose handler is through on a live one, ends.
Answered ==
  \A c \in Calls :
    /\ (phase[c] = "calling" /\ config.timeout) ~> phase[c] # "calling"
    /\ (Active(c) /\ config.keepAlive /\ (link[c] # "up" \/ verdict[c] # "none")) ~> ~Active(c)
=============================================================================
