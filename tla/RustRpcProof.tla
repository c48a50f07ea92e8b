----------------------------- MODULE RustRpcProof -----------------------------
(***************************************************************************)
(* Proofs about the calls of the Rust client, for any number of calls on   *)
(* one channel, any requests and any number of items and lost connections. *)
(* NoSilentTruncation is not inductive: that an end is the right end rests *)
(* on where every item is that was sent and not yet read.                  *)
(***************************************************************************)
EXTENDS RustRpc, TLAPS

Phases == {"idle", "calling", "reading", "ok", "err", "refused", "gone"}
Frames == {"head", "item", "done", "status", "ok", "refused"}

Items == STRING \cup {"end"}

Types ==
  /\ request \in Scenarios
  /\ phase \in [Calls -> Phases]
  /\ pending \in [Calls -> Seq(Items)] /\ up \in [Calls -> Seq(Items)]
  /\ down \in [Calls -> Seq(Frames)] /\ seen \in [Calls -> Seq(Items)]
  /\ link \in [Calls -> {"up", "lost", "silent", "reset"}] /\ channel \in {"up", "silent"}
  /\ handler \in [Calls -> {"none", "running", "streaming", "over"}]
  /\ verdict \in [Calls -> {"none", "ok", "refused", "error"}]
  /\ seenEnd \in [Calls -> {"no", "end", "broken"}]
  /\ made \in [Calls -> Nat] /\ got \in [Calls -> Nat]

\* The items of the request and the mark of their end, in the order of the wire.
Wire(c) == Append(request[c].payload, "end")

\* q is what comes after the first n items of w.
Part(w, n, q) == n + Len(q) <= Len(w) /\ \A i \in 1 .. Len(q) : q[i] = w[n + i]

\* What the handler has read, what is on its way and what is still to be sent
\* follow one another in the request.
Upward(c) ==
  /\ phase[c] = "idle" => handler[c] = "none" /\ up[c] = <<>>
  /\ handler[c] = "none" => seen[c] = <<>> /\ seenEnd[c] = "no"
  /\ seenEnd[c] = "no" =>
       Part(request[c].payload, 0, seen[c]) /\ Part(Wire(c), Len(seen[c]), up[c])
  /\ seenEnd[c] = "no" /\ phase[c] = "calling" /\ link[c] = "up" =>
       Part(Wire(c), Len(seen[c]) + Len(up[c]), pending[c])
  /\ seenEnd[c] = "end" /\ link[c] # "reset" => seen[c] = request[c].payload

\* The head of the response that the caller has still to receive.
HeadDue(c) == IF phase[c] = "calling" THEN 1 ELSE 0

\* A stream of responses: on a live connection all that the handler made was
\* read or is on its way, and "done" is the last frame, sent when that was so.
Downward(c) ==
  /\ phase[c] = "idle" => handler[c] = "none"
  /\ phase[c] = "calling" => got[c] = 0
  /\ handler[c] \in {"none", "running"} =>
       down[c] = <<>> /\ made[c] = 0 /\ got[c] = 0 /\ phase[c] \notin {"reading", "ok"}
  /\ Active(c) => \A i \in 1 .. Len(down[c]) :
       /\ down[c][i] \in {"head", "item", "done", "status"}
       /\ down[c][i] = "head" => phase[c] = "calling" /\ i = 1
       /\ down[c][i] \in {"item", "done"} => i > HeadDue(c)
       /\ down[c][i] = "done" =>
            /\ i = Len(down[c]) /\ handler[c] = "over" /\ verdict[c] = "ok"
            /\ got[c] + Len(down[c]) = made[c] + HeadDue(c) + 1
  /\ Active(c) /\ link[c] = "up" /\ handler[c] = "streaming" =>
       got[c] + Len(down[c]) = made[c] + HeadDue(c)
  /\ phase[c] = "ok" => got[c] = made[c] /\ verdict[c] = "ok" /\ handler[c] = "over"

IInv ==
  /\ Types
  /\ \A c \in Calls : Upward(c) /\ (Entry(c).shape = "down" => Downward(c))

\* The actions of one call.
CallStep(c) ==
  \/ Ask(c) \/ Send(c) \/ Dispatch(c) \/ HandlerReads(c) \/ HandlerSeesBreak(c)
  \/ HandlerReturns(c) \/ HandlerFails(c) \/ HandlerStreams(c)
  \/ StreamItem(c) \/ StreamEnds(c) \/ ServerNotices(c)
  \/ Deliver(c) \/ ClientNotices(c) \/ Timeout(c) \/ Drop(c)

-----------------------------------------------------------------------------
\* What is appended to a sequence comes after all the rest.
LEMMA AppendFacts ==
  ASSUME NEW S, NEW s \in Seq(S), NEW e \in S
  PROVE  /\ Append(s, e) \in Seq(S) /\ Len(Append(s, e)) = Len(s) + 1
         /\ Append(s, e)[Len(s) + 1] = e
         /\ \A i \in 1 .. Len(s) : Append(s, e)[i] = s[i]
  OBVIOUS

\* The first element and the rest make up the sequence.
LEMMA TailFacts ==
  ASSUME NEW S, NEW s \in Seq(S), s # <<>>
  PROVE  /\ Len(s) \in Nat /\ Len(s) > 0
         /\ Head(s) \in S /\ Head(s) = s[1]
         /\ Tail(s) \in Seq(S) /\ Len(Tail(s)) = Len(s) - 1
         /\ \A i \in 1 .. Len(Tail(s)) : Tail(s)[i] = s[i + 1]
  OBVIOUS

\* The request of a call is a sequence without the mark of its end.
LEMMA PayloadFacts ==
  ASSUME request \in Scenarios, NEW c \in Calls
  PROVE  /\ request[c].payload \in Seq(Items)
         /\ \A i \in 1 .. Len(request[c].payload) : request[c].payload[i] # "end"
         /\ Wire(c) \in Seq(Items) /\ Len(Wire(c)) = Len(request[c].payload) + 1
         /\ Wire(c)[Len(request[c].payload) + 1] = "end"
         /\ \A i \in 1 .. Len(request[c].payload) : Wire(c)[i] = request[c].payload[i]
<1>1. request[c].payload \in Seq(STRING \ {"end"})
  BY RpcAssumption
<1>2. DEFINE p == request[c].payload
<1> HIDE DEF p
<1>3. p \in Seq(STRING \ {"end"})
  BY <1>1 DEF p
<1>4. p \in Seq(Items) /\ \A i \in 1 .. Len(p) : p[i] # "end"
  BY <1>3 DEF Items
<1>5. "end" \in Items
  BY DEF Items
<1>6. /\ Append(p, "end") \in Seq(Items) /\ Len(Append(p, "end")) = Len(p) + 1
      /\ Append(p, "end")[Len(p) + 1] = "end"
      /\ \A i \in 1 .. Len(p) : Append(p, "end")[i] = p[i]
  BY <1>4, <1>5, AppendFacts
<1>7. QED
  BY <1>4, <1>6 DEF Wire, p

\* Nothing of a request follows another part of it, and so does all of it.
LEMMA PartFacts ==
  ASSUME NEW w \in Seq(Items)
  PROVE  Part(w, 0, <<>>) /\ Part(w, 0, w)
  BY DEF Part

\* Sending moves an item from what is to be sent to what is on its way.
LEMMA SendKeepsParts ==
  ASSUME NEW w \in Seq(Items), NEW n \in Nat, NEW u \in Seq(Items), NEW q \in Seq(Items),
         q # <<>>, Part(w, n, u), Part(w, n + Len(u), q)
  PROVE  Part(w, n, Append(u, Head(q))) /\ Part(w, n + Len(Append(u, Head(q))), Tail(q))
<1>1. /\ Head(q) \in Items /\ Head(q) = q[1] /\ Len(q) \in Nat /\ Len(q) > 0
      /\ Tail(q) \in Seq(Items) /\ Len(Tail(q)) = Len(q) - 1
      /\ \A i \in 1 .. Len(Tail(q)) : Tail(q)[i] = q[i + 1]
  BY TailFacts
<1>2. /\ Len(Append(u, Head(q))) = Len(u) + 1 /\ Append(u, Head(q))[Len(u) + 1] = q[1]
      /\ \A i \in 1 .. Len(u) : Append(u, Head(q))[i] = u[i]
  BY <1>1, AppendFacts
<1>3. Len(u) \in Nat /\ Len(w) \in Nat
  OBVIOUS
<1>4. Part(w, n, Append(u, Head(q)))
  BY <1>1, <1>2, <1>3 DEF Part
<1>5. Part(w, n + Len(Append(u, Head(q))), Tail(q))
  BY <1>1, <1>2, <1>3 DEF Part
<1>6. QED
  BY <1>4, <1>5

\* Reading moves an item from what is on its way to what was read, and the mark
\* of the end comes when all was read.
LEMMA ReadKeepsParts ==
  ASSUME request \in Scenarios, NEW c \in Calls, NEW s \in Seq(Items), NEW u \in Seq(Items),
         u # <<>>, Part(request[c].payload, 0, s), Part(Wire(c), Len(s), u)
  PROVE  /\ Head(u) = "end" => s = request[c].payload
         /\ Head(u) # "end" => /\ Part(request[c].payload, 0, Append(s, Head(u)))
                               /\ Part(Wire(c), Len(Append(s, Head(u))), Tail(u))
                               /\ Len(Append(s, Head(u))) + Len(Tail(u)) = Len(s) + Len(u)
<1> DEFINE p == request[c].payload
<1> DEFINE w == Wire(c)
<1>1. /\ p \in Seq(Items) /\ w \in Seq(Items) /\ Len(w) = Len(p) + 1
      /\ \A i \in 1 .. Len(p) : p[i] # "end" /\ w[i] = p[i]
      /\ w[Len(p) + 1] = "end"
  BY PayloadFacts
<1>2. Part(p, 0, s) /\ Part(w, Len(s), u)
  OBVIOUS
<1> HIDE DEF p, w
<1>3. /\ Head(u) \in Items /\ Head(u) = u[1] /\ Len(u) \in Nat /\ Len(u) > 0
      /\ Tail(u) \in Seq(Items) /\ Len(Tail(u)) = Len(u) - 1
      /\ \A i \in 1 .. Len(Tail(u)) : Tail(u)[i] = u[i + 1]
  BY TailFacts
<1>4. /\ Len(Append(s, Head(u))) = Len(s) + 1 /\ Append(s, Head(u))[Len(s) + 1] = u[1]
      /\ \A i \in 1 .. Len(s) : Append(s, Head(u))[i] = s[i]
  BY <1>3, AppendFacts
<1>5. Len(s) \in Nat /\ Len(p) \in Nat /\ Len(w) \in Nat
  BY <1>1
<1>6. u[1] = w[Len(s) + 1] /\ Len(s) <= Len(p) /\ \A i \in 1 .. Len(s) : s[i] = p[i]
  BY <1>2, <1>3, <1>5 DEF Part
<1>7. ASSUME u[1] = "end" PROVE s = p
  <2>1. ASSUME Len(s) < Len(p) PROVE FALSE
    <3>1. Len(s) + 1 \in 1 .. Len(p)
      BY <2>1, <1>5
    <3>2. w[Len(s) + 1] # "end"
      BY <3>1, <1>1
    <3>3. QED
      BY <3>2, <1>6, <1>7
  <2>2. Len(s) = Len(p)
    BY <2>1, <1>5, <1>6
  <2>3. QED
    BY <2>2, <1>1, <1>6
<1>8. ASSUME u[1] # "end" PROVE Part(p, 0, Append(s, Head(u))) /\ Part(w, Len(s) + 1, Tail(u))
  <2>1. Len(s) + 1 <= Len(p) /\ u[1] = p[Len(s) + 1]
    BY <1>1, <1>5, <1>6, <1>8
  <2>2. Part(p, 0, Append(s, Head(u)))
    <3>1. ASSUME NEW i \in 1 .. Len(s) + 1 PROVE Append(s, Head(u))[i] = p[0 + i]
      <4>1. CASE i = Len(s) + 1
        BY <4>1, <2>1, <1>4, <1>5
      <4>2. CASE i \in 1 .. Len(s)
        BY <4>2, <1>4, <1>5, <1>6
      <4>3. QED
        BY <4>1, <4>2, <1>5
    <3>2. QED
      BY <3>1, <2>1, <1>4, <1>5 DEF Part
  <2>3. Part(w, Len(s) + 1, Tail(u))
    BY <1>2, <1>3, <1>5 DEF Part
  <2>4. QED
    BY <2>2, <2>3
<1>9. QED
  BY <1>3, <1>4, <1>5, <1>7, <1>8 DEF p, w

\* Every frame that the caller reads leads to a phase.
LEMMA AfterType ==
  ASSUME NEW c \in Calls, NEW f \in Frames
  PROVE  After(c, f) \in Phases \ {"idle", "calling"}
  BY DEF After, Given, Phases, Frames

\* Before the first call everything is empty: the invariant holds initially.
LEMMA InitInv == Init => IInv
<1> SUFFICES ASSUME Init PROVE IInv
  OBVIOUS
<1>1. Types
  BY DEF Init, Types, Phases, Frames
<1>2. ASSUME NEW c \in Calls PROVE Upward(c) /\ Downward(c)
  <2>1. request[c].payload \in Seq(Items) /\ Len(Wire(c)) = Len(request[c].payload) + 1
    BY PayloadFacts DEF Init
  <2>2. Part(request[c].payload, 0, <<>>) /\ Part(Wire(c), 0, <<>>)
    BY PayloadFacts, PartFacts DEF Init
  <2>3. QED
    BY <2>1, <2>2 DEF Init, Upward, Downward, Active, HeadDue
<1>3. QED
  BY <1>1, <1>2 DEF IInv

\* Every step keeps the types.
LEMMA TypeStep ==
  ASSUME Types, [Next]_vars
  PROVE  Types'
<1> USE DEF Types, client, network, server
<1>1. CASE UNCHANGED vars
  BY <1>1 DEF vars
<1>2. CASE ConnectionLost
  BY <1>2 DEF ConnectionLost
<1>3. ASSUME NEW c \in Calls, Ask(c) PROVE Types'
  <2>1. Append(request[c].payload, "end") \in Seq(Items)
    BY PayloadFacts DEF Wire
  <2>2. QED
    BY <1>3, <2>1 DEF Ask, Phases
<1>4. ASSUME NEW c \in Calls, Send(c) PROVE Types'
  <2>1. Head(pending[c]) \in Items /\ Tail(pending[c]) \in Seq(Items)
    BY <1>4, TailFacts DEF Send
  <2>2. Append(up[c], Head(pending[c])) \in Seq(Items)
    BY <2>1, AppendFacts
  <2>3. QED
    BY <1>4, <2>1, <2>2 DEF Send
<1>5. ASSUME NEW c \in Calls, NEW f \in Frames, Reply(c, f) PROVE down' \in [Calls -> Seq(Frames)]
  <2>1. Append(down[c], f) \in Seq(Frames)
    BY AppendFacts
  <2>2. QED
    BY <1>5, <2>1 DEF Reply
<1>6. ASSUME NEW c \in Calls, Dispatch(c) PROVE Types'
  <2>1. request[c].payload \in Seq(Items) /\ <<>> \in Seq(Items)
    BY PayloadFacts
  <2>2. "status" \in Frames
    BY DEF Frames
  <2>3. up' \in [Calls -> Seq(Items)] /\ seen' \in [Calls -> Seq(Items)]
        /\ seenEnd' \in [Calls -> {"no", "end", "broken"}]
    BY <1>6, <2>1 DEF Dispatch
  <2>4. down' \in [Calls -> Seq(Frames)]
    BY <1>6, <1>5, <2>2 DEF Dispatch
  <2>5. handler' \in [Calls -> {"none", "running", "streaming", "over"}]
        /\ verdict' \in [Calls -> {"none", "ok", "refused", "error"}]
    BY <1>6 DEF Dispatch
  <2>6. UNCHANGED <<request, phase, pending, link, channel, made, got>>
    BY <1>6 DEF Dispatch
  <2>7. QED
    BY <2>3, <2>4, <2>5, <2>6
<1>7. ASSUME NEW c \in Calls, HandlerReads(c) PROVE Types'
  <2>1. Head(up[c]) \in Items /\ Tail(up[c]) \in Seq(Items)
    BY <1>7, TailFacts DEF HandlerReads
  <2>2. Append(seen[c], Head(up[c])) \in Seq(Items)
    BY <2>1, AppendFacts
  <2>3. QED
    BY <1>7, <2>1, <2>2 DEF HandlerReads
<1>8. ASSUME NEW c \in Calls, HandlerSeesBreak(c) \/ ServerNotices(c) PROVE Types'
  BY <1>8 DEF HandlerSeesBreak, ServerNotices
<1>9. ASSUME NEW c \in Calls,
             HandlerReturns(c) \/ HandlerFails(c) \/ HandlerStreams(c) \/ StreamItem(c) \/ StreamEnds(c)
      PROVE  Types'
  <2>1. \A f \in {"ok", "refused", "status", "head", "item", "done"} : f \in Frames
    BY DEF Frames
  <2>2. \E f \in Frames : Reply(c, f)
    BY <1>9, <2>1 DEF HandlerReturns, HandlerFails, HandlerStreams, StreamItem, StreamEnds
  <2>3. down' \in [Calls -> Seq(Frames)]
    BY <2>2, <1>5
  <2>4. handler' \in [Calls -> {"none", "running", "streaming", "over"}]
        /\ verdict' \in [Calls -> {"none", "ok", "refused", "error"}]
        /\ made' \in [Calls -> Nat]
    <3>1. CASE HandlerReturns(c)
      <4>1. PICK v \in {"ok", "refused"} : verdict' = [verdict EXCEPT ![c] = v]
        BY <3>1 DEF HandlerReturns
      <4>2. QED
        BY <3>1, <4>1 DEF HandlerReturns
    <3>2. CASE HandlerFails(c)
      BY <3>2 DEF HandlerFails
    <3>3. CASE HandlerStreams(c) \/ StreamEnds(c)
      BY <3>3 DEF HandlerStreams, StreamEnds
    <3>4. CASE StreamItem(c)
      <4>1. made[c] + 1 \in Nat
        OBVIOUS
      <4>2. QED
        BY <3>4, <4>1 DEF StreamItem
    <3>5. QED
      BY <1>9, <3>1, <3>2, <3>3, <3>4
  <2>5. UNCHANGED <<request, phase, pending, up, seen, seenEnd, link, channel, got>>
    BY <1>9 DEF HandlerReturns, HandlerFails, HandlerStreams, StreamItem, StreamEnds
  <2>6. QED
    BY <2>3, <2>4, <2>5
<1>10. ASSUME NEW c \in Calls, Deliver(c) PROVE Types'
  <2>1. Head(down[c]) \in Frames /\ Tail(down[c]) \in Seq(Frames)
    BY <1>10, TailFacts DEF Deliver
  <2>2. After(c, Head(down[c])) \in Phases
    BY <2>1, AfterType
  <2>3. <<>> \in Seq(Items)
    OBVIOUS
  <2>4. QED
    BY <1>10, <2>1, <2>2, <2>3 DEF Deliver
<1>11. ASSUME NEW c \in Calls, ClientNotices(c) \/ Timeout(c) \/ Drop(c) PROVE Types'
  BY <1>11 DEF ClientNotices, Timeout, Drop, Reset, Phases
<1>12. QED
  BY <1>1, <1>2, <1>3, <1>4, <1>6, <1>7, <1>8, <1>9, <1>10, <1>11 DEF Next

-----------------------------------------------------------------------------
\* What a call has on the way up is kept by a step of its own.
LEMMA UpwardStep ==
  ASSUME Types, NEW c \in Calls, Upward(c), CallStep(c)
  PROVE  Upward(c)'
<1> DEFINE p == request[c].payload
<1> DEFINE w == Wire(c)
<1>0. p \in Seq(Items) /\ w \in Seq(Items)
  BY PayloadFacts DEF Types
<1>1. request' = request
  BY DEF CallStep, Ask, Send, Dispatch, HandlerReads, HandlerSeesBreak, HandlerReturns, HandlerFails,
         HandlerStreams, StreamItem, StreamEnds, ServerNotices, Deliver, ClientNotices, Timeout, Drop,
         client
<1>2. request[c].payload' = p /\ Wire(c)' = w
  BY <1>1 DEF Wire
<1> HIDE DEF p, w
<1> USE DEF Types
<1>3. CASE Ask(c)
  <2>1. /\ phase'[c] = "calling" /\ pending'[c] = w /\ link'[c] = channel
        /\ UNCHANGED <<up, seen, seenEnd, handler>>
    BY <1>3 DEF Ask, server, w, p, Wire
  <2>2. up[c] = <<>> /\ seen[c] = <<>> /\ seenEnd[c] = "no" /\ handler[c] = "none"
    BY <1>3 DEF Ask, Upward
  <2>3. Part(p, 0, <<>>) /\ Part(w, 0, <<>>) /\ Part(w, 0, w)
    BY <1>0, PartFacts
  <2>4. QED
    BY <2>1, <2>2, <2>3, <1>2 DEF Upward
<1>4. CASE Send(c)
  <2>1. /\ phase[c] = "calling" /\ pending[c] # <<>> /\ pending'[c] = Tail(pending[c])
        /\ up'[c] = IF link[c] = "up" THEN Append(up[c], Head(pending[c])) ELSE up[c]
        /\ UNCHANGED <<phase, link, seen, seenEnd, handler>>
    BY <1>4 DEF Send, server
  <2>2. Len(seen[c]) \in Nat
    OBVIOUS
  <2>3. CASE seenEnd[c] = "no" /\ link[c] = "up"
    <3>1. Part(w, Len(seen[c]), up[c]) /\ Part(w, Len(seen[c]) + Len(up[c]), pending[c])
      BY <2>1, <2>3 DEF Upward, w
    <3>2. /\ Part(w, Len(seen[c]), Append(up[c], Head(pending[c])))
          /\ Part(w, Len(seen[c]) + Len(Append(up[c], Head(pending[c]))), Tail(pending[c]))
      BY <3>1, <2>1, <2>2, <1>0, SendKeepsParts
    <3>3. QED
      BY <3>2, <2>1, <2>3, <1>2 DEF Upward, p
  <2>4. CASE ~(seenEnd[c] = "no" /\ link[c] = "up")
    BY <2>1, <2>4, <1>2 DEF Upward, p, w
  <2>5. QED
    BY <2>3, <2>4
<1>5. CASE Dispatch(c)
  <2>1. phase[c] # "idle" /\ handler[c] = "none" /\ handler'[c] # "none" /\ UNCHANGED <<phase, pending, link>>
    BY <1>5 DEF Dispatch, client
  <2>2. CASE Entry(c).shape = "up"
    <3>1. UNCHANGED <<up, seen, seenEnd>>
      BY <1>5, <2>2 DEF Dispatch
    <3>2. QED
      BY <2>1, <3>1, <1>2 DEF Upward, p, w
  <2>3. CASE Entry(c).shape # "up"
    <3>1. seen'[c] = p /\ seenEnd'[c] = "end"
      BY <1>5, <2>3 DEF Dispatch, p
    <3>2. QED
      BY <2>1, <3>1, <1>2 DEF Upward
  <2>4. QED
    BY <2>2, <2>3
<1>6. CASE HandlerReads(c)
  <2>1. /\ handler[c] = "running" /\ handler'[c] = "running" /\ seenEnd[c] = "no" /\ up[c] # <<>>
        /\ up'[c] = Tail(up[c]) /\ UNCHANGED <<phase, pending, link>>
    BY <1>6 DEF HandlerReads, client
  <2>2. phase[c] # "idle" /\ Part(p, 0, seen[c]) /\ Part(w, Len(seen[c]), up[c])
    BY <2>1 DEF Upward, p, w
  <2>3. CASE Head(up[c]) = "end"
    <3>1. seen[c] = p
      BY <2>1, <2>2, <2>3, ReadKeepsParts DEF p, w
    <3>2. seen'[c] = seen[c] /\ seenEnd'[c] = "end"
      BY <1>6, <2>3 DEF HandlerReads
    <3>3. QED
      BY <2>1, <2>2, <3>1, <3>2, <1>2 DEF Upward
  <2>4. CASE Head(up[c]) # "end"
    <3>1. /\ Part(p, 0, Append(seen[c], Head(up[c])))
          /\ Part(w, Len(Append(seen[c], Head(up[c]))), Tail(up[c]))
          /\ Len(Append(seen[c], Head(up[c]))) + Len(Tail(up[c])) = Len(seen[c]) + Len(up[c])
      BY <2>1, <2>2, <2>4, ReadKeepsParts DEF p, w
    <3>2. seen'[c] = Append(seen[c], Head(up[c])) /\ seenEnd'[c] = "no"
      BY <1>6, <2>1, <2>4 DEF HandlerReads
    <3>3. QED
      BY <2>1, <2>2, <3>1, <3>2, <1>2 DEF Upward, w
  <2>5. QED
    BY <2>3, <2>4
<1>7. CASE HandlerSeesBreak(c)
  BY <1>7, <1>2 DEF HandlerSeesBreak, Upward, client, network, p, w
<1>8. CASE HandlerReturns(c) \/ HandlerFails(c) \/ HandlerStreams(c) \/ StreamEnds(c) \/ ServerNotices(c)
  <2>1. /\ UNCHANGED <<phase, pending, up, seen, seenEnd, link>>
        /\ handler[c] # "none" /\ handler'[c] # "none"
    BY <1>8 DEF HandlerReturns, HandlerFails, HandlerStreams, StreamEnds, ServerNotices, client, network
  <2>2. QED
    BY <2>1, <1>2 DEF Upward, p, w
<1>9. CASE StreamItem(c)
  BY <1>9, <1>2 DEF StreamItem, Upward, client, p, w
<1>10. CASE Deliver(c)
  <2>1. /\ phase'[c] \notin {"idle", "calling"} /\ phase[c] # "idle"
        /\ UNCHANGED <<up, seen, seenEnd, link, handler>>
    <3>1. Head(down[c]) \in Frames
      BY <1>10, TailFacts DEF Deliver
    <3>2. After(c, Head(down[c])) \notin {"idle", "calling"}
      BY <3>1, AfterType
    <3>3. QED
      BY <1>10, <3>2 DEF Deliver, Active, server
  <2>2. QED
    BY <2>1, <1>2 DEF Upward, p, w
<1>11. CASE ClientNotices(c) \/ Timeout(c) \/ Drop(c)
  <2>1. /\ phase'[c] \in {"err", "gone"} /\ phase[c] # "idle"
        /\ link'[c] = link[c] \/ link'[c] = "reset"
        /\ UNCHANGED <<pending, up, seen, seenEnd, handler>>
    BY <1>11 DEF ClientNotices, Timeout, Drop, Reset, Active, server
  <2>2. QED
    BY <2>1, <1>2 DEF Upward, p, w
<1>12. QED
  BY <1>3, <1>4, <1>5, <1>6, <1>7, <1>8, <1>9, <1>10, <1>11 DEF CallStep

-----------------------------------------------------------------------------
\* A stream that comes down is kept in order by a step of its own call.
LEMMA DownwardStep ==
  ASSUME Types, NEW c \in Calls, Entry(c).shape = "down", Downward(c), CallStep(c)
  PROVE  Downward(c)'
<1>0. down[c] \in Seq(Frames)
  BY DEF Types
<1>1. made[c] \in Nat /\ got[c] \in Nat /\ Len(down[c]) \in Nat /\ (HeadDue(c) = 0 \/ HeadDue(c) = 1)
  BY <1>0 DEF Types, HeadDue
<1>2. CASE Ask(c)
  BY <1>2 DEF Types, Ask, server, Downward, Active, HeadDue
<1>3. CASE Send(c) \/ HandlerReads(c) \/ HandlerSeesBreak(c)
  <2>1. UNCHANGED <<phase, handler, got, made, down, link, verdict>>
    BY <1>3 DEF Types, Send, HandlerReads, HandlerSeesBreak, client, network, server
  <2>2. QED
    BY <2>1 DEF Downward, Active, HeadDue
<1>4. ASSUME NEW f \in Frames, Reply(c, f)
      PROVE  /\ link[c] # "up" => down'[c] = down[c]
             /\ link[c] = "up" =>
                  /\ Len(down'[c]) = Len(down[c]) + 1
                  /\ down'[c][Len(down[c]) + 1] = f
                  /\ \A i \in 1 .. Len(down[c]) : down'[c][i] = down[c][i]
  <2>1. /\ Len(Append(down[c], f)) = Len(down[c]) + 1
        /\ Append(down[c], f)[Len(down[c]) + 1] = f
        /\ \A i \in 1 .. Len(down[c]) : Append(down[c], f)[i] = down[c][i]
    BY <1>0, AppendFacts
  <2>2. down'[c] = IF link[c] = "up" THEN Append(down[c], f) ELSE down[c]
    BY <1>4 DEF Types, Reply
  <2>3. QED
    BY <2>1, <2>2
<1>5. "status" \in Frames /\ "head" \in Frames /\ "item" \in Frames /\ "done" \in Frames
  BY DEF Frames
<1>6. CASE Dispatch(c) \/ HandlerFails(c)
  <2>1. /\ UNCHANGED <<phase, got, made, link>> /\ phase[c] # "idle"
        /\ handler[c] \in {"none", "running", "streaming"} /\ handler'[c] \in {"running", "over"}
        /\ handler'[c] = "running" => handler[c] = "none" /\ down' = down /\ verdict' = verdict
        /\ handler'[c] = "over" => Reply(c, "status")
    BY <1>6 DEF Types, Dispatch, HandlerFails, client, Downward
  <2>2. CASE handler'[c] = "running"
    BY <2>1, <2>2 DEF Downward, Active, HeadDue
  <2>3. CASE handler'[c] = "over"
    <3>1. phase[c] # "ok"
      BY <2>1 DEF Downward
    <3>2. ASSUME Active(c), NEW i \in 1 .. Len(down'[c])
          PROVE  /\ down'[c][i] \in {"head", "item", "status"}
                 /\ down'[c][i] = "head" => phase[c] = "calling" /\ i = 1
                 /\ down'[c][i] = "item" => i > HeadDue(c)
      <4>1. CASE i \in 1 .. Len(down[c])
        BY <4>1, <3>2, <2>1, <2>3, <1>1, <1>4, <1>5 DEF Downward
      <4>2. CASE i \notin 1 .. Len(down[c])
        <5>1. link[c] = "up" /\ i = Len(down[c]) + 1
          BY <4>2, <3>2, <2>1, <2>3, <1>1, <1>4, <1>5
        <5>2. down'[c][i] = "status"
          BY <5>1, <2>1, <2>3, <1>4, <1>5
        <5>3. QED
          BY <5>2
      <4>3. QED
        BY <4>1, <4>2
    <3>3. QED
      BY <2>1, <2>3, <3>1, <3>2 DEF Downward, Active, HeadDue
  <2>4. QED
    BY <2>1, <2>2, <2>3
<1>7. CASE HandlerReturns(c)
  BY <1>7 DEF Types, HandlerReturns
<1>8. CASE HandlerStreams(c)
  <2>1. /\ UNCHANGED <<phase, got, made, link, verdict>> /\ Reply(c, "head")
        /\ handler[c] = "running" /\ handler'[c] = "streaming"
    BY <1>8 DEF Types, HandlerStreams, client
  <2>2. /\ down[c] = <<>> /\ made[c] = 0 /\ got[c] = 0
        /\ phase[c] \notin {"idle", "reading", "ok"}
    BY <2>1 DEF Downward
  <2>3. CASE link[c] = "up"
    <3>1. Len(down'[c]) = 1 /\ down'[c][1] = "head" /\ (Active(c) => phase[c] = "calling")
      BY <2>1, <2>2, <2>3, <1>4, <1>5 DEF Active
    <3>2. ASSUME NEW i \in 1 .. Len(down'[c]) PROVE i = 1
      BY <3>1
    <3>3. QED
      BY <2>1, <2>2, <3>1, <3>2 DEF Downward, Active, HeadDue
  <2>4. CASE link[c] # "up"
    BY <2>1, <2>2, <2>4, <1>4, <1>5 DEF Downward, Active, HeadDue
  <2>5. QED
    BY <2>3, <2>4
<1>9. CASE StreamItem(c)
  <2>1. /\ UNCHANGED <<phase, got, link, verdict, handler>> /\ Reply(c, "item")
        /\ handler[c] = "streaming" /\ made'[c] = made[c] + 1
    BY <1>9 DEF Types, StreamItem, client
  <2>2. phase[c] \notin {"idle", "ok"}
    BY <2>1 DEF Downward
  <2>3. ASSUME Active(c), NEW i \in 1 .. Len(down'[c])
        PROVE  /\ down'[c][i] \in {"head", "item", "status"}
               /\ down'[c][i] = "head" => phase[c] = "calling" /\ i = 1
               /\ down'[c][i] = "item" => i > HeadDue(c)
    <3>1. CASE i \in 1 .. Len(down[c])
      BY <3>1, <2>3, <2>1, <1>1, <1>4, <1>5 DEF Downward
    <3>2. CASE i \notin 1 .. Len(down[c])
      <4>1. link[c] = "up" /\ i = Len(down[c]) + 1 /\ down'[c][i] = "item"
        BY <3>2, <2>3, <2>1, <1>1, <1>4, <1>5
      <4>2. got[c] + Len(down[c]) = made[c] + HeadDue(c) /\ (phase[c] = "calling" => got[c] = 0)
        BY <4>1, <2>1, <2>3 DEF Downward
      <4>3. i > HeadDue(c)
        <5>1. CASE HeadDue(c) = 0
          BY <5>1, <4>1, <1>1
        <5>2. CASE HeadDue(c) = 1
          <6>1. got[c] = 0
            BY <5>2, <4>2 DEF HeadDue
          <6>2. QED
            BY <6>1, <5>2, <4>1, <4>2, <1>1
        <5>3. QED
          BY <5>1, <5>2, <1>1
      <4>4. QED
        BY <4>1, <4>2, <4>3, <1>1
    <3>3. QED
      BY <3>1, <3>2
  <2>4. ASSUME Active(c), link[c] = "up" PROVE got[c] + Len(down'[c]) = made'[c] + HeadDue(c)
    <3>1. got[c] + Len(down[c]) = made[c] + HeadDue(c)
      BY <2>1, <2>4 DEF Downward
    <3>2. Len(down'[c]) = Len(down[c]) + 1
      BY <2>1, <2>4, <1>4, <1>5
    <3>3. QED
      BY <2>1, <3>1, <3>2, <1>1
  <2>5. QED
    BY <2>1, <2>2, <2>3, <2>4 DEF Downward, Active, HeadDue
<1>10. CASE StreamEnds(c)
  <2>1. /\ UNCHANGED <<phase, got, link, made>> /\ Reply(c, "done")
        /\ handler[c] = "streaming" /\ handler'[c] = "over" /\ verdict'[c] = "ok"
    BY <1>10 DEF Types, StreamEnds, client
  <2>2. phase[c] \notin {"idle", "ok"}
    BY <2>1 DEF Downward
  <2>3. ASSUME Active(c), NEW i \in 1 .. Len(down'[c])
        PROVE  /\ down'[c][i] \in {"head", "item", "done", "status"}
               /\ down'[c][i] = "head" => phase[c] = "calling" /\ i = 1
               /\ down'[c][i] \in {"item", "done"} => i > HeadDue(c)
               /\ down'[c][i] = "done" =>
                    i = Len(down'[c]) /\ got[c] + Len(down'[c]) = made[c] + HeadDue(c) + 1
    <3>1. CASE i \in 1 .. Len(down[c])
      BY <3>1, <2>3, <2>1, <1>1, <1>4, <1>5 DEF Downward
    <3>2. CASE i \notin 1 .. Len(down[c])
      <4>1. /\ link[c] = "up" /\ i = Len(down[c]) + 1 /\ down'[c][i] = "done"
            /\ Len(down'[c]) = Len(down[c]) + 1
        BY <3>2, <2>3, <2>1, <1>1, <1>4, <1>5
      <4>2. got[c] + Len(down[c]) = made[c] + HeadDue(c) /\ (phase[c] = "calling" => got[c] = 0)
        BY <4>1, <2>1, <2>3 DEF Downward
      <4>3. i > HeadDue(c)
        <5>1. CASE HeadDue(c) = 0
          BY <5>1, <4>1, <1>1
        <5>2. CASE HeadDue(c) = 1
          <6>1. got[c] = 0
            BY <5>2, <4>2 DEF HeadDue
          <6>2. QED
            BY <6>1, <5>2, <4>1, <4>2, <1>1
        <5>3. QED
          BY <5>1, <5>2, <1>1
      <4>4. QED
        BY <4>1, <4>2, <4>3, <1>1
    <3>3. QED
      BY <3>1, <3>2
  <2>4. QED
    BY <2>1, <2>2, <2>3 DEF Downward, Active, HeadDue
<1>11. CASE ServerNotices(c)
  <2>1. /\ UNCHANGED <<phase, got, made, down, link, verdict>>
        /\ handler[c] \in {"running", "streaming"} /\ handler'[c] = "over"
    BY <1>11 DEF Types, ServerNotices, client, network
  <2>2. QED
    BY <2>1 DEF Downward, Active, HeadDue
<1>12. CASE Deliver(c)
  <2> DEFINE f == Head(down[c])
  <2>1. /\ f \in Frames /\ f = down[c][1] /\ Len(down[c]) > 0
        /\ Tail(down[c]) \in Seq(Frames) /\ Len(Tail(down[c])) = Len(down[c]) - 1
        /\ \A i \in 1 .. Len(Tail(down[c])) : Tail(down[c])[i] = down[c][i + 1]
    BY <1>0, <1>12, TailFacts DEF Deliver
  <2>2. /\ Active(c) /\ down'[c] = Tail(down[c]) /\ phase'[c] = After(c, f)
        /\ got'[c] = IF f = "item" THEN got[c] + 1 ELSE got[c]
        /\ UNCHANGED <<link, handler, verdict, made>>
    BY <1>12 DEF Types, Deliver, server
  <2>3. /\ f \in {"head", "item", "done", "status"}
        /\ f = "head" => phase[c] = "calling"
        /\ f \in {"item", "done"} => phase[c] = "reading"
        /\ f = "done" =>
             /\ Len(down[c]) = 1 /\ handler[c] = "over" /\ verdict[c] = "ok"
             /\ got[c] + Len(down[c]) = made[c] + HeadDue(c) + 1
        /\ handler[c] \notin {"none", "running"} /\ phase[c] \in {"calling", "reading"}
    <3>1. 1 \in 1 .. Len(down[c])
      BY <1>1, <2>1
    <3>2. /\ f \in {"head", "item", "done", "status"}
          /\ f = "head" => phase[c] = "calling"
          /\ f \in {"item", "done"} => 1 > HeadDue(c)
          /\ f = "done" =>
               /\ Len(down[c]) = 1 /\ handler[c] = "over" /\ verdict[c] = "ok"
               /\ got[c] + Len(down[c]) = made[c] + HeadDue(c) + 1
      BY <3>1, <2>1, <2>2 DEF Downward
    <3>3. handler[c] \notin {"none", "running"}
      BY <1>12 DEF Deliver, Downward
    <3>4. phase[c] \in {"calling", "reading"}
      BY <2>2 DEF Active
    <3>5. QED
      BY <3>2, <3>3, <3>4 DEF HeadDue
  <2>4. phase'[c] = IF f \in {"head", "item"} THEN "reading" ELSE IF f = "done" THEN "ok" ELSE "err"
    BY <2>2, <2>3 DEF After
  <2>5. ASSUME f = "done" PROVE got[c] = made[c]
    <3>1. HeadDue(c) = 0
      BY <2>3, <2>5 DEF HeadDue
    <3>2. Len(down[c]) = 1 /\ got[c] + Len(down[c]) = made[c] + HeadDue(c) + 1
      BY <2>3, <2>5
    <3>3. QED
      BY <1>1, <3>1, <3>2
  <2> HIDE DEF f
  <2>6. CASE f \in {"done", "status"}
    BY <2>2, <2>3, <2>4, <2>5, <2>6 DEF Downward, Active, HeadDue
  <2>7. CASE f \in {"head", "item"}
    <3>1. /\ phase'[c] = "reading" /\ HeadDue(c)' = 0
          /\ got'[c] + Len(down'[c]) + HeadDue(c) = got[c] + Len(down[c])
      BY <1>1, <2>1, <2>2, <2>3, <2>4, <2>7 DEF HeadDue
    <3>2. ASSUME NEW i \in 1 .. Len(down'[c])
          PROVE  /\ i + 1 \in 1 .. Len(down[c]) /\ down'[c][i] = down[c][i + 1] /\ i > 0
                 /\ down'[c][i] \in {"item", "done", "status"}
                 /\ down'[c][i] = "done" =>
                      /\ i + 1 = Len(down[c]) /\ handler[c] = "over" /\ verdict[c] = "ok"
                      /\ got[c] + Len(down[c]) = made[c] + HeadDue(c) + 1
      <4>1. i + 1 \in 1 .. Len(down[c]) /\ down'[c][i] = down[c][i + 1] /\ i > 0 /\ i + 1 # 1
        BY <1>1, <2>1, <2>2
      <4>2. QED
        BY <4>1, <2>2 DEF Downward
    <3>3. ASSUME NEW i \in 1 .. Len(down'[c]), down'[c][i] = "done"
          PROVE  i = Len(down'[c]) /\ got'[c] + Len(down'[c]) = made'[c] + 1
      <4>1. Len(down'[c]) = Len(down[c]) - 1 /\ made'[c] = made[c] /\ got'[c] \in Nat
        BY <1>1, <2>1, <2>2
      <4>2. i + 1 = Len(down[c]) /\ got[c] + Len(down[c]) = made[c] + HeadDue(c) + 1
        BY <3>2, <3>3
      <4>3. got'[c] + Len(down'[c]) + HeadDue(c) = got[c] + Len(down[c])
        BY <3>1
      <4>4. i = Len(down'[c])
        BY <1>1, <4>1, <4>2
      <4>5. got'[c] + Len(down'[c]) = made'[c] + 1
        <5>1. CASE HeadDue(c) = 0
          BY <5>1, <1>1, <4>1, <4>2, <4>3
        <5>2. CASE HeadDue(c) = 1
          <6>1. got[c] + Len(down[c]) = made[c] + 2
            BY <5>2, <1>1, <4>2
          <6>2. got'[c] + Len(down'[c]) + 1 = made[c] + 2
            BY <5>2, <6>1, <4>3
          <6>3. Len(down'[c]) \in Nat
            BY <1>1, <2>1, <4>1
          <6>4. QED
            BY <6>2, <6>3, <1>1, <4>1
        <5>3. QED
          BY <5>1, <5>2, <1>1
      <4>6. QED
        BY <4>4, <4>5
    <3>4. ASSUME link[c] = "up", handler[c] = "streaming" PROVE got'[c] + Len(down'[c]) = made'[c]
      <4>1. Len(down'[c]) = Len(down[c]) - 1 /\ made'[c] = made[c] /\ got'[c] \in Nat
        BY <1>1, <2>1, <2>2
      <4>2. got[c] + Len(down[c]) = made[c] + HeadDue(c)
        BY <2>2, <3>4 DEF Downward
      <4>3. got'[c] + Len(down'[c]) + HeadDue(c) = got[c] + Len(down[c])
        BY <3>1
      <4>4. QED
        BY <1>1, <4>1, <4>2, <4>3
    <3>5. QED
      <4>1. \A i \in 1 .. Len(down'[c]) :
              /\ down'[c][i] \in {"item", "done", "status"} /\ i > 0
              /\ down'[c][i] = "done" =>
                   /\ i = Len(down'[c]) /\ handler'[c] = "over" /\ verdict'[c] = "ok"
                   /\ got'[c] + Len(down'[c]) = made'[c] + 0 + 1
        <5>1. TAKE i \in 1 .. Len(down'[c])
        <5>2. made'[c] + 0 + 1 = made'[c] + 1
          BY <1>1, <2>2
        <5>3. QED
          BY <5>2, <2>2, <3>2, <3>3
      <4>2. link'[c] = "up" /\ handler'[c] = "streaming" => got'[c] + Len(down'[c]) = made'[c] + 0
        BY <1>1, <2>2, <3>4
      <4>3. handler'[c] \notin {"none", "running"} /\ phase'[c] = "reading" /\ HeadDue(c)' = 0
        BY <2>2, <2>3, <3>1
      <4>4. QED
        BY <4>1, <4>2, <4>3 DEF Downward
  <2>8. QED
    BY <2>3, <2>6, <2>7
<1>13. CASE ClientNotices(c) \/ Timeout(c) \/ Drop(c)
  <2>1. /\ phase'[c] \in {"err", "gone"} /\ phase[c] # "idle"
        /\ UNCHANGED <<got, made, down, verdict, handler>>
    BY <1>13 DEF Types, ClientNotices, Timeout, Drop, Active, server
  <2>2. QED
    BY <2>1 DEF Downward, Active, HeadDue
<1>14. QED
  BY <1>2, <1>3, <1>6, <1>7, <1>8, <1>9, <1>10, <1>11, <1>12, <1>13 DEF CallStep

-----------------------------------------------------------------------------
\* A step of one call leaves the others as they were.
LEMMA OthersUntouched ==
  ASSUME Types, NEW c \in Calls, NEW d \in Calls, c # d, CallStep(c)
  PROVE  /\ request' = request
         /\ phase'[d] = phase[d] /\ pending'[d] = pending[d] /\ got'[d] = got[d]
         /\ up'[d] = up[d] /\ down'[d] = down[d] /\ link'[d] = link[d]
         /\ handler'[d] = handler[d] /\ verdict'[d] = verdict[d]
         /\ seen'[d] = seen[d] /\ seenEnd'[d] = seenEnd[d] /\ made'[d] = made[d]
<1> USE DEF Types, client, network, server
<1>1. CASE Ask(c) \/ Send(c)
  BY <1>1 DEF Ask, Send
<1>2. CASE Dispatch(c)
  BY <1>2 DEF Dispatch, Reply
<1>3. CASE HandlerReads(c) \/ HandlerSeesBreak(c) \/ ServerNotices(c)
  BY <1>3 DEF HandlerReads, HandlerSeesBreak, ServerNotices
<1>4. CASE HandlerReturns(c) \/ HandlerFails(c)
  BY <1>4 DEF HandlerReturns, HandlerFails, Reply
<1>5. CASE HandlerStreams(c) \/ StreamItem(c) \/ StreamEnds(c)
  BY <1>5 DEF HandlerStreams, StreamItem, StreamEnds, Reply
<1>6. CASE Deliver(c)
  BY <1>6 DEF Deliver
<1>7. CASE ClientNotices(c) \/ Timeout(c) \/ Drop(c)
  BY <1>7 DEF ClientNotices, Timeout, Drop, Reset
<1>8. QED
  BY <1>1, <1>2, <1>3, <1>4, <1>5, <1>6, <1>7 DEF CallStep

\* What is true of a call stays true when nothing of it changes but that its
\* connection is lost.
LEMMA UnchangedCall ==
  ASSUME NEW d \in Calls,
         request' = request,
         phase'[d] = phase[d], pending'[d] = pending[d], got'[d] = got[d],
         up'[d] = up[d], down'[d] = down[d],
         link'[d] = link[d] \/ (link[d] = "up" /\ link'[d] \in {"lost", "silent"}),
         handler'[d] = handler[d], verdict'[d] = verdict[d],
         seen'[d] = seen[d], seenEnd'[d] = seenEnd[d], made'[d] = made[d]
  PROVE  /\ Entry(d)' = Entry(d)
         /\ Upward(d) => Upward(d)'
         /\ Downward(d) => Downward(d)'
<1>1. Entry(d)' = Entry(d) /\ Wire(d)' = Wire(d)
  BY DEF Entry, Wire
<1>2. Upward(d) => Upward(d)'
  BY <1>1 DEF Upward
<1>3. Downward(d) => Downward(d)'
  BY DEF Downward, Active, HeadDue
<1>4. QED
  BY <1>1, <1>2, <1>3

\* Every step keeps the invariant.
LEMMA NextInv == IInv /\ [Next]_vars => IInv'
<1> SUFFICES ASSUME IInv, [Next]_vars PROVE IInv'
  OBVIOUS
<1>1. Types /\ Types'
  BY TypeStep DEF IInv
<1>2. ASSUME NEW d \in Calls PROVE Upward(d)' /\ (Entry(d).shape = "down" => Downward(d))'
  <2>1. Upward(d) /\ (Entry(d).shape = "down" => Downward(d))
    BY DEF IInv
  <2>2. CASE UNCHANGED vars
    <3>1. /\ request' = request
          /\ phase'[d] = phase[d] /\ pending'[d] = pending[d] /\ got'[d] = got[d]
          /\ up'[d] = up[d] /\ down'[d] = down[d] /\ link'[d] = link[d]
          /\ handler'[d] = handler[d] /\ verdict'[d] = verdict[d]
          /\ seen'[d] = seen[d] /\ seenEnd'[d] = seenEnd[d] /\ made'[d] = made[d]
      BY <2>2 DEF vars, client, network, server
    <3>2. link'[d] = link[d] \/ (link[d] = "up" /\ link'[d] \in {"lost", "silent"})
      BY <3>1
    <3>3. QED
      BY <2>1, <3>1, <3>2, UnchangedCall
  <2>3. CASE ConnectionLost
    <3>1. /\ request' = request
          /\ phase'[d] = phase[d] /\ pending'[d] = pending[d] /\ got'[d] = got[d]
          /\ up'[d] = up[d] /\ down'[d] = down[d]
          /\ handler'[d] = handler[d] /\ verdict'[d] = verdict[d]
          /\ seen'[d] = seen[d] /\ seenEnd'[d] = seenEnd[d] /\ made'[d] = made[d]
      BY <2>3 DEF ConnectionLost, client, server
    <3>2. PICK how \in {"lost", "silent"} :
            link' = [c \in Calls |-> IF phase[c] # "idle" /\ link[c] = "up" THEN how ELSE link[c]]
      BY <2>3 DEF ConnectionLost
    <3>3. link'[d] = link[d] \/ (link[d] = "up" /\ link'[d] \in {"lost", "silent"})
      <4>1. link'[d] = IF phase[d] # "idle" /\ link[d] = "up" THEN how ELSE link[d]
        BY <3>2
      <4>2. QED
        BY <4>1
    <3>4. QED
      BY <2>1, <3>1, <3>3, UnchangedCall
  <2>4. ASSUME NEW c \in Calls, CallStep(c), c # d
        PROVE  Upward(d)' /\ (Entry(d).shape = "down" => Downward(d))'
    <3>1. /\ request' = request
          /\ phase'[d] = phase[d] /\ pending'[d] = pending[d] /\ got'[d] = got[d]
          /\ up'[d] = up[d] /\ down'[d] = down[d] /\ link'[d] = link[d]
          /\ handler'[d] = handler[d] /\ verdict'[d] = verdict[d]
          /\ seen'[d] = seen[d] /\ seenEnd'[d] = seenEnd[d] /\ made'[d] = made[d]
      BY <1>1, <2>4, OthersUntouched
    <3>2. link'[d] = link[d] \/ (link[d] = "up" /\ link'[d] \in {"lost", "silent"})
      BY <3>1
    <3>3. QED
      BY <2>1, <3>1, <3>2, UnchangedCall
  <2>5. ASSUME CallStep(d)
        PROVE  Upward(d)' /\ (Entry(d).shape = "down" => Downward(d))'
    <3>1. request' = request
      BY <2>5 DEF CallStep, Ask, Send, Dispatch, HandlerReads, HandlerSeesBreak, HandlerReturns,
                  HandlerFails, HandlerStreams, StreamItem, StreamEnds, ServerNotices, Deliver,
                  ClientNotices, Timeout, Drop, client
    <3>2. Entry(d)' = Entry(d)
      BY <3>1 DEF Entry
    <3>3. QED
      BY <1>1, <2>1, <2>5, <3>2, UpwardStep, DownwardStep
  <2>6. QED
    BY <2>2, <2>3, <2>4, <2>5 DEF Next, CallStep
<1>3. QED
  BY <1>1, <1>2 DEF IInv

\* Every reachable state satisfies the invariant.
LEMMA Invariant == Spec => []IInv
  BY InitInv, NextInv, PTL DEF Spec

\* However many calls, items and lost connections there are: a stream that ends
\* without an error has reached its reader whole, in both directions.
THEOREM StreamsAreWhole == Spec => []NoSilentTruncation
<1>1. IInv => NoSilentTruncation
  BY DEF IInv, NoSilentTruncation, Upward, Downward
<1>2. QED
  BY Invariant, <1>1, PTL

-----------------------------------------------------------------------------
(* The refinement of RemoteCall.                                           *)

\* The calls of a service lead to the handlers of their names, and no rpc is the
\* mark of an unanswered call.
Lead(calls, handlers) ==
  /\ \A n \in DOMAIN calls :
       n # "none" /\ calls[n] \in DOMAIN handlers /\ handlers[calls[n]].handler = n
  /\ "none" \notin DOMAIN handlers

\* The submitter: two rpcs have another name than their handlers, and one streams
\* under a third name.
LEMMA SubmitterLeads == Lead(SubmitterCalls, SubmitterHandlers)
<1>1. /\ DOMAIN SubmitterTaskCalls = {"get_service_configuration", "create_session",
                                      "cancel_session", "list_tasks", "list_sessions",
                                      "count_tasks", "create_small_tasks", "try_get_result"}
      /\ \A n \in DOMAIN SubmitterTaskCalls :
           SubmitterTaskCalls[n] = IF n = "try_get_result" THEN "try_get_result_stream" ELSE n
  BY DEF SubmitterTaskCalls, Same, ++
<1>2. /\ DOMAIN SubmitterStatusCalls = {"try_get_task_output", "wait_for_availability",
                                        "wait_for_completion", "cancel_tasks", "task_status",
                                        "result_status"}
      /\ \A n \in DOMAIN SubmitterStatusCalls :
           SubmitterStatusCalls[n] = IF n = "task_status" THEN "get_task_status"
                                     ELSE IF n = "result_status" THEN "get_result_status" ELSE n
  BY DEF SubmitterStatusCalls, Same, ++
<1>3. DOMAIN SubmitterLargeCall = {"create_large_tasks"}
      /\ SubmitterLargeCall["create_large_tasks"] = "create_large_tasks"
  BY DEF SubmitterLargeCall, Same
<1>4. /\ DOMAIN SubmitterCalls = SubmitterService
      /\ \A n \in SubmitterService :
           SubmitterCalls[n] = IF n = "try_get_result" THEN "try_get_result_stream"
                               ELSE IF n = "task_status" THEN "get_task_status"
                               ELSE IF n = "result_status" THEN "get_result_status" ELSE n
  BY <1>1, <1>2, <1>3 DEF SubmitterCalls, SubmitterService, ++
<1> DEFINE plain == SubmitterService \ {"task_status", "result_status", "try_get_result",
                                        "create_large_tasks"}
<1>5. DOMAIN SubmitterHandlers = plain \cup {"get_task_status", "get_result_status",
                                  "create_large_tasks", "try_get_result_stream", "watch_results"}
  BY DEF SubmitterHandlers, SameUnary, ++
<1>6. \A n \in plain : SubmitterHandlers[n].handler = n
  BY DEF SubmitterHandlers, SameUnary, Unary, ++
<1>7. /\ SubmitterHandlers["get_task_status"].handler = "task_status"
      /\ SubmitterHandlers["get_result_status"].handler = "result_status"
      /\ SubmitterHandlers["create_large_tasks"].handler = "create_large_tasks"
      /\ SubmitterHandlers["try_get_result_stream"].handler = "try_get_result"
  BY DEF SubmitterHandlers, SubmitterService, SameUnary, Unary, Up, Down, ++
<1>8. "none" \notin DOMAIN SubmitterHandlers /\ "none" \notin SubmitterService
  BY <1>5 DEF SubmitterService
<1> QED  BY <1>4, <1>5, <1>6, <1>7, <1>8 DEF Lead

\* The results: a merged table of unary and streaming calls.
LEMMA ResultsLead == Lead(ResultsCalls, ResultsHandlers)
  BY DEF Lead, ResultsCalls, ResultsUnaryCalls, ResultsStreamCalls, ResultsHandlers, Unary, Up,
         Down, Unimplemented, ++

\* The agent: the task stream and the creation of metadata are renamed.
LEMMA AgentLeads == Lead(AgentCalls, AgentHandlers)
  BY DEF Lead, AgentCalls, AgentHandlers, Same, SameUnary, Unary, Up, ++

\* The sessions and the tasks, each entry of which is renamed.
LEMMA SessionsAndTasksLead ==
  Lead(SessionsCalls, SessionsHandlers) /\ Lead(TasksCalls, TasksHandlers)
<1>1. Lead(SessionsCalls, SessionsHandlers)  BY DEF Lead, SessionsCalls, SessionsHandlers, Unary
<1>2. Lead(TasksCalls, TasksHandlers)  BY DEF Lead, TasksCalls, TasksHandlers, Unary
<1> QED  BY <1>1, <1>2

\* The services with one or two rpcs
LEMMA SmallServicesLead ==
  /\ Lead(EventsCalls, EventsHandlers) /\ Lead(WorkerCalls, WorkerHandlers)
  /\ Lead(PartitionsCalls, PartitionsHandlers) /\ Lead(ApplicationsCalls, ApplicationsHandlers)
  /\ Lead(AuthCalls, AuthHandlers) /\ Lead(HealthChecksCalls, HealthChecksHandlers)
  /\ Lead(VersionsCalls, VersionsHandlers)
<1>1. Lead(EventsCalls, EventsHandlers)  BY DEF Lead, EventsCalls, EventsHandlers, Down
<1>2. Lead(WorkerCalls, WorkerHandlers)
  BY DEF Lead, WorkerCalls, WorkerHandlers, Same, SameUnary, Unary
<1>3. Lead(PartitionsCalls, PartitionsHandlers)
  BY DEF Lead, PartitionsCalls, PartitionsHandlers, Unary
<1>4. Lead(ApplicationsCalls, ApplicationsHandlers)
  BY DEF Lead, ApplicationsCalls, ApplicationsHandlers, Unary
<1>5. Lead(AuthCalls, AuthHandlers)  BY DEF Lead, AuthCalls, AuthHandlers, Unary
<1>6. Lead(HealthChecksCalls, HealthChecksHandlers)
  BY DEF Lead, HealthChecksCalls, HealthChecksHandlers, Unary
<1>7. Lead(VersionsCalls, VersionsHandlers)  BY DEF Lead, VersionsCalls, VersionsHandlers, Unary
<1> QED  BY <1>1, <1>2, <1>3, <1>4, <1>5, <1>6, <1>7

\* The tables written by hand in client and server agree: the call of every
\* request of every service invokes an rpc that the server has, and that rpc is
\* served by the handler that bears the name of the request.
THEOREM EveryRequestHasItsHandler ==
  \A s \in DOMAIN CallTable : s \in DOMAIN HandlerTable /\ Lead(CallTable[s], HandlerTable[s])
<1> USE DEF CallTable, HandlerTable
<1> TAKE s \in DOMAIN CallTable
<1>1. s \in {"submitter", "results", "sessions", "tasks", "agent", "events", "worker", "partitions",
             "applications", "auth", "health_checks", "versions"}
  OBVIOUS
<1>2. CASE s \in {"submitter", "results", "sessions", "tasks", "agent"}
  BY <1>2, SubmitterLeads, ResultsLead, SessionsAndTasksLead, AgentLeads
<1>3. CASE s \in {"events", "worker", "partitions", "applications", "auth", "health_checks", "versions"}
  BY <1>3, SmallServicesLead
<1> QED  BY <1>1, <1>2, <1>3

\* So what is called leads to the handler of its name, or to none.
LEMMA NamesMatch ==
  ASSUME NEW r \in Scenarios, NEW c \in Calls, r[c] # NoRequest
  PROVE  /\ r[c].name # "none"
         /\ HandlerTable[r[c].service][r[c].rpc].handler \in {"none", r[c].name}
<1>1. CanBeAsked(r[c])  BY ScenarioAssumption
<1>2. DOMAIN HandlerTable = DOMAIN CallTable  BY DEF CallTable, HandlerTable
<1> QED  BY <1>1, <1>2, EveryRequestHasItsHandler DEF CanBeAsked, Lead

\* Nothing is answered before a handler ran, and what comes down is the verdict.
Told(c) ==
  /\ phase[c] # "idle" => request[c] # NoRequest
  /\ handler[c] = "none" => ran[c] = <<>> /\ verdict[c] = "none" /\ down[c] = <<>>
  /\ handler[c] \in {"running", "streaming"} => ran[c] # <<>> /\ verdict[c] = "none"
  /\ \A i \in 1 .. Len(down[c]) :
       /\ down[c][i] \in {"ok", "refused"} => down[c][i] = verdict[c]
       /\ down[c][i] = "done" => verdict[c] = "ok"

RInv ==
  /\ IInv
  /\ DOMAIN ran = Calls
  /\ \A c \in Calls : Told(c)

\* A frame is added to what comes down only by the handler, with its verdict.
LEMMA ReplyTold ==
  ASSUME Types, NEW c \in Calls, NEW f \in Frames, Reply(c, f),
         \A i \in 1 .. Len(down[c]) : down[c][i] \notin {"ok", "refused", "done"},
         f \in {"ok", "refused"} => verdict'[c] = f, f = "done" => verdict'[c] = "ok"
  PROVE  \A i \in 1 .. Len(down'[c]) :
           /\ down'[c][i] \in {"ok", "refused"} => down'[c][i] = verdict'[c]
           /\ down'[c][i] = "done" => verdict'[c] = "ok"
<1>1. down[c] \in Seq(Frames) /\ Len(down[c]) \in Nat
  BY DEF Types
<1>2. /\ Len(Append(down[c], f)) = Len(down[c]) + 1
      /\ Append(down[c], f)[Len(down[c]) + 1] = f
      /\ \A i \in 1 .. Len(down[c]) : Append(down[c], f)[i] = down[c][i]
  BY <1>1, AppendFacts
<1>3. down'[c] = IF link[c] = "up" THEN Append(down[c], f) ELSE down[c]
  BY DEF Reply, Types
<1>4. TAKE i \in 1 .. Len(down'[c])
<1>5. CASE i \in 1 .. Len(down[c])
  <2>1. down'[c][i] = down[c][i]
    BY <1>2, <1>3, <1>5
  <2>2. QED
    BY <2>1, <1>5
<1>6. CASE i \notin 1 .. Len(down[c])
  <2>1. i = Len(down[c]) + 1 /\ down'[c] = Append(down[c], f)
    BY <1>1, <1>2, <1>3, <1>6
  <2>2. down'[c][i] = f
    BY <2>1, <1>2
  <2>3. QED
    BY <2>2
<1>7. QED
  BY <1>5, <1>6

\* A step of a call keeps what it was told in line with the verdict.
LEMMA ToldStep ==
  ASSUME RInv, NEW c \in Calls, CallStep(c)
  PROVE  Told(c)'
<1>0. Types /\ Told(c) /\ Upward(c) /\ DOMAIN ran = Calls
  BY DEF RInv, IInv
<1>1. CASE Ask(c)
  BY <1>0, <1>1 DEF Ask, Told, Types, server
<1>2. CASE Send(c) \/ HandlerReads(c) \/ HandlerSeesBreak(c)
  <2>1. UNCHANGED <<phase, request, handler, ran, verdict, down>>
    BY <1>2 DEF Send, HandlerReads, HandlerSeesBreak, client, network, server
  <2>2. QED
    BY <1>0, <2>1 DEF Told
<1>3. CASE ServerNotices(c)
  <2>1. UNCHANGED <<phase, request, ran, verdict, down>> /\ handler'[c] = "over"
    BY <1>0, <1>3 DEF ServerNotices, client, network, Types
  <2>2. QED
    BY <1>0, <2>1 DEF Told
<1>4. CASE Dispatch(c)
  <2>1. /\ UNCHANGED <<phase, request>> /\ handler[c] = "none"
        /\ ran[c] = <<>> /\ verdict[c] = "none" /\ down[c] = <<>>
    BY <1>0, <1>4 DEF Dispatch, client, Told
  <2>2. CASE Entry(c).handler = "none"
    <3>1. Reply(c, "status") /\ handler'[c] = "over"
      BY <1>0, <1>4, <2>2 DEF Dispatch, Types
    <3>2. "status" \in Frames /\ \A i \in 1 .. Len(down[c]) : FALSE
      BY <2>1 DEF Frames
    <3>3. \A i \in 1 .. Len(down'[c]) :
            /\ down'[c][i] \in {"ok", "refused"} => down'[c][i] = verdict'[c]
            /\ down'[c][i] = "done" => verdict'[c] = "ok"
      BY <1>0, <3>1, <3>2, ReplyTold
    <3>4. QED
      BY <1>0, <2>1, <3>1, <3>3 DEF Told
  <2>3. CASE Entry(c).handler # "none"
    <3>1. /\ handler'[c] = "running" /\ ran'[c] = Append(ran[c], Entry(c).handler)
          /\ UNCHANGED <<verdict, down>>
      BY <1>0, <1>4, <2>3 DEF Dispatch, Types
    <3>2. ran'[c] # <<>>
      BY <2>1, <3>1
    <3>3. QED
      BY <1>0, <2>1, <3>1, <3>2 DEF Told
  <2>4. QED
    BY <2>2, <2>3
<1>5. ASSUME handler[c] \in {"running", "streaming"}
      PROVE  \A i \in 1 .. Len(down[c]) : down[c][i] \notin {"ok", "refused", "done"}
  BY <1>0, <1>5 DEF Told
<1>6. CASE HandlerReturns(c) \/ HandlerFails(c) \/ StreamEnds(c)
  <2>1. /\ UNCHANGED <<phase, request, ran>> /\ handler'[c] = "over"
        /\ handler[c] \in {"running", "streaming"}
    BY <1>0, <1>6 DEF HandlerReturns, HandlerFails, StreamEnds, client, Types
  <2>2. PICK f \in {"ok", "refused", "status", "done"} :
          /\ Reply(c, f)
          /\ verdict'[c] = IF f = "status" THEN "error" ELSE IF f = "done" THEN "ok" ELSE f
    <3>1. CASE HandlerReturns(c)
      BY <1>0, <3>1 DEF HandlerReturns, Types
    <3>2. CASE HandlerFails(c)
      BY <1>0, <3>2 DEF HandlerFails, Types
    <3>3. CASE StreamEnds(c)
      BY <1>0, <3>3 DEF StreamEnds, Types
    <3>4. QED
      BY <1>6, <3>1, <3>2, <3>3
  <2>3. f \in Frames
    BY DEF Frames
  <2>4. \A i \in 1 .. Len(down'[c]) :
          /\ down'[c][i] \in {"ok", "refused"} => down'[c][i] = verdict'[c]
          /\ down'[c][i] = "done" => verdict'[c] = "ok"
    BY <1>0, <1>5, <2>1, <2>2, <2>3, ReplyTold
  <2>5. QED
    BY <1>0, <2>1, <2>4 DEF Told
<1>7. CASE HandlerStreams(c) \/ StreamItem(c)
  <2>1. /\ UNCHANGED <<phase, request, ran, verdict>> /\ handler'[c] = "streaming"
        /\ handler[c] \in {"running", "streaming"}
        /\ \E f \in {"head", "item"} : Reply(c, f)
    BY <1>0, <1>7 DEF HandlerStreams, StreamItem, client, Types
  <2>2. PICK f \in {"head", "item"} : Reply(c, f)
    BY <2>1
  <2>3. f \in Frames
    BY DEF Frames
  <2>4. \A i \in 1 .. Len(down'[c]) :
          /\ down'[c][i] \in {"ok", "refused"} => down'[c][i] = verdict'[c]
          /\ down'[c][i] = "done" => verdict'[c] = "ok"
    BY <1>0, <1>5, <2>1, <2>2, <2>3, ReplyTold
  <2>5. QED
    BY <1>0, <2>1, <2>4 DEF Told
<1>8. CASE Deliver(c)
  <2>1. /\ UNCHANGED <<request, handler, ran, verdict>> /\ phase[c] # "idle"
        /\ down[c] # <<>> /\ down'[c] = Tail(down[c])
    BY <1>0, <1>8 DEF Deliver, Active, server, Types
  <2>2. /\ Len(down[c]) \in Nat /\ Len(Tail(down[c])) = Len(down[c]) - 1
        /\ \A i \in 1 .. Len(Tail(down[c])) : Tail(down[c])[i] = down[c][i + 1]
    <3>1. down[c] \in Seq(Frames)
      BY <1>0 DEF Types
    <3>2. QED
      BY <2>1, <3>1, TailFacts
  <2>3. ASSUME NEW i \in 1 .. Len(down'[c])
        PROVE  i + 1 \in 1 .. Len(down[c]) /\ down'[c][i] = down[c][i + 1]
    BY <2>1, <2>2
  <2>4. \A i \in 1 .. Len(down'[c]) :
          /\ down'[c][i] \in {"ok", "refused"} => down'[c][i] = verdict'[c]
          /\ down'[c][i] = "done" => verdict'[c] = "ok"
    BY <1>0, <2>1, <2>3 DEF Told
  <2>5. QED
    BY <1>0, <2>1, <2>4 DEF Told
<1>9. CASE ClientNotices(c) \/ Timeout(c) \/ Drop(c)
  <2>1. UNCHANGED <<request, handler, ran, verdict, down>> /\ phase[c] # "idle"
    BY <1>9 DEF ClientNotices, Timeout, Drop, Active, server
  <2>2. QED
    BY <1>0, <2>1 DEF Told
<1>10. QED
  BY <1>1, <1>2, <1>3, <1>4, <1>6, <1>7, <1>8, <1>9 DEF CallStep

\* No step changes which calls there are, nor the handlers run for another call.
LEMMA RanStep ==
  ASSUME DOMAIN ran = Calls, [Next]_vars
  PROVE  /\ DOMAIN ran' = Calls
         /\ \A d \in Calls : ran'[d] = ran[d] \/ CallStep(d)
<1>1. CASE \E c \in Calls : Dispatch(c)
  BY <1>1 DEF Dispatch, CallStep
<1>2. CASE ~ \E c \in Calls : Dispatch(c)
  BY <1>2 DEF Next, vars, server, ConnectionLost, Ask, Send, HandlerReads, HandlerSeesBreak,
              HandlerReturns, HandlerFails, HandlerStreams, StreamItem, StreamEnds, ServerNotices,
              Deliver, ClientNotices, Timeout, Drop
<1>3. QED
  BY <1>1, <1>2

\* The invariant of the refinement holds initially.
LEMMA InitRInv == Init => RInv
<1> SUFFICES ASSUME Init PROVE RInv
  OBVIOUS
<1>1. DOMAIN ran = Calls /\ \A c \in Calls : Told(c)
  BY DEF Init, Told
<1>2. QED
  BY <1>1, InitInv DEF RInv

\* Every step keeps the invariant of the refinement.
LEMMA NextRInv == RInv /\ [Next]_vars => RInv'
<1> SUFFICES ASSUME RInv, [Next]_vars PROVE RInv'
  OBVIOUS
<1>1. IInv' /\ DOMAIN ran' = Calls
  BY NextInv, RanStep DEF RInv
<1>2. ASSUME NEW d \in Calls PROVE Told(d)'
  <2>1. CASE CallStep(d)
    BY <2>1, ToldStep
  <2>2. CASE ~CallStep(d)
    <3>1. ran'[d] = ran[d]
      BY <2>2, RanStep DEF RInv
    <3>2. request' = request /\ phase'[d] = phase[d] /\ handler'[d] = handler[d]
          /\ verdict'[d] = verdict[d] /\ down'[d] = down[d]
      <4>1. CASE UNCHANGED vars
        BY <4>1 DEF vars, client, network, server
      <4>2. CASE ConnectionLost
        BY <4>2 DEF ConnectionLost, client, server
      <4>3. ASSUME NEW c \in Calls, CallStep(c)
            PROVE  request' = request /\ phase'[d] = phase[d] /\ handler'[d] = handler[d]
                   /\ verdict'[d] = verdict[d] /\ down'[d] = down[d]
        <5>1. c # d /\ Types
          BY <2>2, <4>3 DEF RInv, IInv
        <5>2. QED
          BY <4>3, <5>1, OthersUntouched
      <4>4. QED
        BY <4>1, <4>2, <4>3 DEF Next, CallStep
    <3>3. QED
      BY <3>1, <3>2 DEF RInv, Told
  <2>3. QED
    BY <2>1, <2>2
<1>3. QED
  BY <1>1, <1>2 DEF RInv

\* The state of RemoteCall that a state of the calls stands for.
Wanted == [c \in Calls |-> IF phase[c] = "idle" THEN "none" ELSE request[c].name]
CallerOutcome == [c \in Calls |-> Outcome(c)]

\* A step that ends a call is one that RemoteCall allows if the outcome is an
\* error, the caller's own decision, or the handler's verdict.
LEMMA FinishMaps ==
  ASSUME Types, NEW c \in Calls, NEW o,
         phase' = [phase EXCEPT ![c] = o],
         UNCHANGED <<request, ran, verdict>>,
         phase[c] \in {"calling", "reading"}, request[c].name # "none",
         o \in {"err", "gone"} \/ (o \in {"ok", "refused"} /\ o = verdict[c])
  PROVE  RC!Finish(c)
<1>1. /\ Wanted' = Wanted /\ Wanted[c] # "none" /\ CallerOutcome[c] = "none"
      /\ CallerOutcome' = [CallerOutcome EXCEPT ![c] = o]
  BY DEF Wanted, CallerOutcome, Outcome, Types
<1>2. o \in {"err", "gone"} \cup ({verdict[c]} \cap {"ok", "refused"})
  OBVIOUS
<1>3. QED
  BY <1>1, <1>2 DEF RC!Finish, Wanted, CallerOutcome

\* A step of a call that leaves the outcome open is one of the handler's verdict
\* or of its start, or changes nothing that RemoteCall speaks of.
LEMMA SamePhaseMaps ==
  ASSUME UNCHANGED <<request, phase>>
  PROVE  Wanted' = Wanted /\ CallerOutcome' = CallerOutcome
  BY DEF Wanted, CallerOutcome, Outcome

\* Every step of a call is a step of RemoteCall, or none.
LEMMA StepMaps ==
  ASSUME RInv, NEW c \in Calls, CallStep(c)
  PROVE  RC!Next \/ UNCHANGED <<Wanted, ran, verdict, CallerOutcome>>
<1>0. Types /\ Told(c) /\ Upward(c) /\ DOMAIN ran = Calls
  BY DEF RInv, IInv
<1>1. ASSUME phase[c] # "idle" \/ request[c] # NoRequest
      PROVE  request[c].name # "none" /\ Entry(c).handler \in {"none", request[c].name}
  BY <1>0, <1>1, NamesMatch DEF Told, Types, Entry
<1>2. ASSUME phase[c] # "idle" PROVE Wanted[c] = request[c].name /\ Wanted[c] # "none"
  BY <1>1, <1>2 DEF Wanted
<1>3. CASE Ask(c)
  <2>1. /\ phase[c] = "idle" /\ phase' = [phase EXCEPT ![c] = "calling"]
        /\ UNCHANGED <<request, ran, verdict>>
    BY <1>3 DEF Ask, server
  <2>2. /\ Wanted[c] = "none" /\ Wanted' = [Wanted EXCEPT ![c] = request[c].name]
        /\ CallerOutcome' = CallerOutcome
    BY <1>0, <2>1 DEF Wanted, CallerOutcome, Outcome, Types
  <2>3. request[c].name \in Names
    BY <1>0 DEF Types, Names
  <2>4. \E n \in Names : Wanted' = [Wanted EXCEPT ![c] = n]
    BY <2>2, <2>3
  <2>5. RC!Ask(c)
    BY <2>1, <2>2, <2>4 DEF RC!Ask, Wanted, CallerOutcome
  <2>6. QED
    BY <2>5 DEF RC!Next
<1>4. CASE Send(c) \/ HandlerReads(c) \/ HandlerSeesBreak(c) \/ HandlerStreams(c) \/ StreamItem(c)
           \/ ServerNotices(c)
  <2>1. UNCHANGED <<request, phase, ran, verdict>>
    BY <1>4 DEF Send, HandlerReads, HandlerSeesBreak, HandlerStreams, StreamItem, ServerNotices,
                client, server
  <2>2. QED
    BY <2>1, SamePhaseMaps
<1>5. CASE Dispatch(c)
  <2>1. UNCHANGED <<request, phase>> /\ phase[c] # "idle" /\ ran[c] = <<>> /\ verdict[c] = "none"
    BY <1>0, <1>5 DEF Dispatch, client, Told
  <2>2. Wanted' = Wanted /\ CallerOutcome' = CallerOutcome
    BY <2>1, SamePhaseMaps
  <2>3. CASE Entry(c).handler = "none"
    <3>1. verdict' = [verdict EXCEPT ![c] = "error"] /\ ran' = ran
      BY <1>5, <2>3 DEF Dispatch
    <3>2. RC!Decide(c)
      BY <1>2, <2>1, <2>2, <3>1 DEF RC!Decide, Wanted, CallerOutcome
    <3>3. QED
      BY <3>2 DEF RC!Next
  <2>4. CASE Entry(c).handler # "none"
    <3>1. ran' = [ran EXCEPT ![c] = Append(ran[c], Entry(c).handler)] /\ verdict' = verdict
      BY <1>5, <2>4 DEF Dispatch
    <3>2. Entry(c).handler = Wanted[c]
      BY <1>1, <1>2, <2>1, <2>4
    <3>3. ran' = [ran EXCEPT ![c] = <<Wanted[c]>>]
      BY <2>1, <3>1, <3>2
    <3>4. RC!Run(c)
      BY <1>2, <2>1, <2>2, <3>1, <3>3 DEF RC!Run, Wanted, CallerOutcome
    <3>5. QED
      BY <3>4 DEF RC!Next
  <2>5. QED
    BY <2>3, <2>4
<1>6. CASE HandlerReturns(c) \/ HandlerFails(c) \/ StreamEnds(c)
  <2>1. /\ UNCHANGED <<request, phase, ran>> /\ handler[c] \in {"running", "streaming"}
        /\ \E v \in {"error", "ok", "refused"} : verdict' = [verdict EXCEPT ![c] = v]
    BY <1>6 DEF HandlerReturns, HandlerFails, StreamEnds, client
  <2>2. phase[c] # "idle" /\ ran[c] # <<>> /\ verdict[c] = "none"
    BY <1>0, <2>1 DEF Told, Upward
  <2>3. Wanted' = Wanted /\ CallerOutcome' = CallerOutcome
    BY <2>1, SamePhaseMaps
  <2>4. RC!Decide(c)
    BY <1>2, <2>1, <2>2, <2>3 DEF RC!Decide, Wanted, CallerOutcome
  <2>5. QED
    BY <2>4 DEF RC!Next
<1>7. CASE Deliver(c)
  <2> DEFINE f == Head(down[c])
  <2>1. /\ UNCHANGED <<request, ran, verdict>> /\ phase[c] \in {"calling", "reading"}
        /\ down[c] # <<>> /\ phase' = [phase EXCEPT ![c] = After(c, f)]
    BY <1>7 DEF Deliver, Active, server
  <2>2. f \in Frames /\ f = down[c][1] /\ 1 \in 1 .. Len(down[c])
    <3>1. down[c] \in Seq(Frames)
      BY <1>0 DEF Types
    <3>2. QED
      BY <2>1, <3>1, TailFacts
  <2>3. /\ f \in {"ok", "refused"} => f = verdict[c]
        /\ f = "done" => verdict[c] = "ok"
    BY <1>0, <2>2 DEF Told
  <2> HIDE DEF f
  <2>4. \/ After(c, f) = "reading"
        \/ After(c, f) \in {"err", "gone"}
        \/ After(c, f) \in {"ok", "refused"} /\ After(c, f) = verdict[c]
    BY <2>2, <2>3 DEF After, Given, Frames
  <2>5. CASE After(c, f) = "reading"
    <3>1. Wanted' = Wanted /\ CallerOutcome' = CallerOutcome
      BY <1>0, <2>1, <2>5 DEF Wanted, CallerOutcome, Outcome, Types
    <3>2. QED
      BY <2>1, <3>1
  <2>6. CASE After(c, f) # "reading"
    <3>1. RC!Finish(c)
      BY <1>0, <1>1, <2>1, <2>4, <2>6, FinishMaps
    <3>2. QED
      BY <3>1 DEF RC!Next
  <2>7. QED
    BY <2>5, <2>6
<1>8. CASE ClientNotices(c) \/ Timeout(c) \/ Drop(c)
  <2>1. /\ UNCHANGED <<request, ran, verdict>> /\ phase[c] \in {"calling", "reading"}
        /\ \E o \in {"err", "gone"} : phase' = [phase EXCEPT ![c] = o]
    BY <1>8 DEF ClientNotices, Timeout, Drop, Active, server
  <2>2. RC!Finish(c)
    BY <1>0, <1>1, <2>1, FinishMaps
  <2>3. QED
    BY <2>2 DEF RC!Next
<1>9. QED
  BY <1>3, <1>4, <1>5, <1>6, <1>7, <1>8 DEF CallStep

\* Calls implement RemoteCall, for any number of them, any connection losses and
\* any handlers: the handler of the name runs at most once and success is only
\* its own.
THEOREM CallsAreRemoteCalls == Spec => ImplementsRemoteCall
<1>1. Init => RC!Init
  BY DEF Init, RC!Init, Outcome
<1>2. RInv /\ [Next]_vars => [RC!Next]_<<Wanted, ran, verdict, CallerOutcome>>
  <2> SUFFICES ASSUME RInv, [Next]_vars
               PROVE  RC!Next \/ UNCHANGED <<Wanted, ran, verdict, CallerOutcome>>
    OBVIOUS
  <2>1. CASE UNCHANGED vars
    BY <2>1, SamePhaseMaps DEF vars, client, server
  <2>2. CASE ConnectionLost
    BY <2>2, SamePhaseMaps DEF ConnectionLost, client, server
  <2>3. ASSUME NEW c \in Calls, CallStep(c)
        PROVE  RC!Next \/ UNCHANGED <<Wanted, ran, verdict, CallerOutcome>>
    BY <2>3, StepMaps
  <2>4. QED
    BY <2>1, <2>2, <2>3 DEF Next, CallStep
<1>3. Spec => []RInv
  BY InitRInv, NextRInv, PTL DEF Spec
<1>4. QED
  BY <1>1, <1>2, <1>3, PTL DEF Spec, ImplementsRemoteCall, RC!Spec, RC!vars, Wanted, CallerOutcome

-----------------------------------------------------------------------------
(* Nothing that someone waits for is lost on a live connection.            *)

\* Only an rpc that streams has a head and items, only its callers read, and only
\* the handler of a stream of requests runs before it was given all of them.
Shaped(c) ==
  /\ Entry(c).shape # "up" /\ handler[c] # "none" => seenEnd[c] # "no"
  /\ handler[c] = "streaming" \/ phase[c] = "reading" => Entry(c).shape = "down"
  /\ \A i \in 1 .. Len(down[c]) : down[c][i] \in {"head", "item"} => Entry(c).shape = "down"
  /\ handler[c] \in {"none", "running"} => down[c] = <<>> /\ phase[c] # "reading"

\* What NothingLost says of one call.
Ahead(c) == seenEnd[c] = "no" => EndsWith(IF pending[c] # <<>> THEN pending[c] ELSE up[c], {"end"})
HeadAhead(c) ==
  handler[c] = "streaming" /\ phase[c] = "calling" => down[c] # <<>> /\ down[c][1] = "head"
AnswerAhead(c) == handler[c] = "over" => EndsWith(down[c], {"ok", "refused", "status", "done"})

LInv ==
  /\ IInv
  /\ \A c \in Calls :
       /\ Shaped(c)
       /\ Active(c) /\ link[c] = "up" => Ahead(c) /\ HeadAhead(c) /\ AnswerAhead(c)

\* The last element stays the last when the first one of several is taken.
LEMMA EndsWithTail ==
  ASSUME NEW S, NEW s \in Seq(S), NEW marks, EndsWith(s, marks), Head(s) \notin marks
  PROVE  EndsWith(Tail(s), marks)
<1>1. s # <<>> /\ s[Len(s)] \in marks
  BY DEF EndsWith
<1>2. /\ Len(s) \in Nat /\ Len(s) > 0 /\ Head(s) = s[1]
      /\ Tail(s) \in Seq(S) /\ Len(Tail(s)) = Len(s) - 1
      /\ \A i \in 1 .. Len(Tail(s)) : Tail(s)[i] = s[i + 1]
  BY <1>1, TailFacts
<1>3. Len(s) # 1
  BY <1>1, <1>2
<1>4. Len(Tail(s)) \in 1 .. Len(Tail(s)) /\ Len(Tail(s)) + 1 = Len(s)
  BY <1>2, <1>3
<1>5. Tail(s)[Len(Tail(s))] = s[Len(s)]
  BY <1>2, <1>4
<1>6. Tail(s) # <<>>
  <2>1. Len(<<>>) = 0
    OBVIOUS
  <2>2. Len(Tail(s)) # 0
    BY <1>2, <1>4
  <2>3. QED
    BY <2>1, <2>2
<1>7. QED
  BY <1>1, <1>5, <1>6 DEF EndsWith

\* What is appended is the last element; the first one stays.
LEMMA EndsWithAppend ==
  ASSUME NEW S, NEW s \in Seq(S), NEW e \in S
  PROVE  /\ Append(s, e) # <<>>
         /\ \A marks : e \in marks => EndsWith(Append(s, e), marks)
         /\ s = <<>> => Append(s, e)[1] = e
         /\ s # <<>> => Append(s, e)[1] = s[1]
<1>1. /\ Append(s, e) \in Seq(S) /\ Len(Append(s, e)) = Len(s) + 1
      /\ Append(s, e)[Len(s) + 1] = e
      /\ \A i \in 1 .. Len(s) : Append(s, e)[i] = s[i]
  BY AppendFacts
<1>2. Len(s) \in Nat
  OBVIOUS
<1>3. Append(s, e) # <<>>
  BY <1>1, <1>2
<1>4. s = <<>> => Len(s) + 1 = 1
  OBVIOUS
<1>5. s # <<>> => 1 \in 1 .. Len(s)
  OBVIOUS
<1>6. QED
  BY <1>1, <1>3, <1>4, <1>5 DEF EndsWith

\* What a reply leaves on the way down.
LEMMA ReplyFacts ==
  ASSUME Types, NEW c \in Calls, NEW f \in Frames, Reply(c, f)
  PROVE  /\ link[c] = "up" => down'[c] = Append(down[c], f)
         /\ \A i \in 1 .. Len(down'[c]) :
              down'[c][i] = f \/ (i \in 1 .. Len(down[c]) /\ down'[c][i] = down[c][i])
<1>1. down[c] \in Seq(Frames) /\ Len(down[c]) \in Nat
  BY DEF Types
<1>2. /\ Len(Append(down[c], f)) = Len(down[c]) + 1
      /\ Append(down[c], f)[Len(down[c]) + 1] = f
      /\ \A i \in 1 .. Len(down[c]) : Append(down[c], f)[i] = down[c][i]
  BY <1>1, AppendFacts
<1>3. down'[c] = IF link[c] = "up" THEN Append(down[c], f) ELSE down[c]
  BY DEF Reply, Types
<1>4. ASSUME NEW i \in 1 .. Len(down'[c])
      PROVE  down'[c][i] = f \/ (i \in 1 .. Len(down[c]) /\ down'[c][i] = down[c][i])
  <2>1. CASE link[c] # "up"
    BY <2>1, <1>3
  <2>2. CASE link[c] = "up"
    <3>1. i \in 1 .. Len(down[c]) \/ i = Len(down[c]) + 1
      BY <2>2, <1>1, <1>2, <1>3
    <3>2. QED
      BY <3>1, <2>2, <1>2, <1>3
  <2>3. QED
    BY <2>1, <2>2
<1>5. QED
  BY <1>3, <1>4

\* A step of a call keeps the shape of what it exchanges.
LEMMA ShapedStep ==
  ASSUME Types, NEW c \in Calls, Upward(c), Shaped(c), CallStep(c), Entry(c)' = Entry(c)
  PROVE  Shaped(c)'
<1>1. CASE Ask(c)
  <2>1. UNCHANGED <<handler, seenEnd, down>> /\ phase'[c] = "calling"
    BY <1>1 DEF Ask, server, Types
  <2>2. QED
    BY <2>1 DEF Shaped
<1>2. CASE Send(c)
  <2>1. UNCHANGED <<handler, seenEnd, down, phase>>
    BY <1>2 DEF Send, server
  <2>2. QED
    BY <2>1 DEF Shaped
<1>3. CASE HandlerReads(c) \/ HandlerSeesBreak(c)
  <2>1. /\ UNCHANGED <<handler, down, phase>>
        /\ seenEnd'[c] \in {"end", "broken"} \/ seenEnd'[c] = seenEnd[c]
    BY <1>3 DEF HandlerReads, HandlerSeesBreak, client, network, Types
  <2>2. QED
    BY <2>1 DEF Shaped
<1>4. CASE Dispatch(c)
  <2>1. /\ UNCHANGED phase /\ handler[c] = "none" /\ down[c] = <<>> /\ phase[c] # "reading"
        /\ handler'[c] \in {"running", "over"}
        /\ Entry(c).shape # "up" => seenEnd'[c] = "end"
    BY <1>4 DEF Dispatch, client, Shaped, Types
  <2>2. CASE Entry(c).handler # "none"
    <3>1. UNCHANGED down
      BY <1>4, <2>2 DEF Dispatch
    <3>2. QED
      BY <2>1, <3>1 DEF Shaped
  <2>3. CASE Entry(c).handler = "none"
    <3>1. Reply(c, "status") /\ handler'[c] = "over"
      BY <1>4, <2>3 DEF Dispatch, Types
    <3>2. "status" \in Frames
      BY DEF Frames
    <3>3. \A i \in 1 .. Len(down'[c]) : down'[c][i] = "status"
      BY <2>1, <3>1, <3>2, ReplyFacts
    <3>4. QED
      BY <2>1, <3>1, <3>3 DEF Shaped
  <2>4. QED
    BY <2>2, <2>3
<1>5. CASE HandlerReturns(c) \/ HandlerFails(c) \/ StreamEnds(c)
  <2>1. /\ UNCHANGED <<phase, seenEnd>> /\ handler'[c] = "over"
        /\ handler[c] \in {"running", "streaming"}
        /\ \E f \in {"ok", "refused", "status", "done"} : Reply(c, f)
    BY <1>5 DEF HandlerReturns, HandlerFails, StreamEnds, client, Types
  <2>2. PICK f \in {"ok", "refused", "status", "done"} : Reply(c, f)
    BY <2>1
  <2>3. f \in Frames
    BY DEF Frames
  <2>4. \A i \in 1 .. Len(down'[c]) : down'[c][i] \in {"head", "item"} => Entry(c).shape = "down"
    BY <2>2, <2>3, ReplyFacts DEF Shaped
  <2>5. QED
    BY <2>1, <2>4 DEF Shaped
<1>6. CASE HandlerStreams(c) \/ StreamItem(c)
  <2>1. /\ UNCHANGED <<phase, seenEnd>> /\ handler'[c] = "streaming"
        /\ handler[c] \in {"running", "streaming"}
        /\ Entry(c).shape = "down"
    BY <1>6 DEF HandlerStreams, StreamItem, client, Types, Shaped
  <2>2. QED
    BY <2>1 DEF Shaped
<1>7. CASE ServerNotices(c)
  <2>1. UNCHANGED <<phase, seenEnd, down>> /\ handler'[c] = "over" /\ handler[c] # "none"
    BY <1>7 DEF ServerNotices, client, network, Types
  <2>2. QED
    BY <2>1 DEF Shaped
<1>8. CASE Deliver(c)
  <2> DEFINE f == Head(down[c])
  <2>1. /\ UNCHANGED <<handler, seenEnd>> /\ down[c] # <<>> /\ down'[c] = Tail(down[c])
        /\ phase'[c] = After(c, f)
    BY <1>8 DEF Deliver, server, Types
  <2>2. /\ f \in Frames /\ f = down[c][1] /\ 1 \in 1 .. Len(down[c])
        /\ Len(down[c]) \in Nat /\ Len(Tail(down[c])) = Len(down[c]) - 1
        /\ \A i \in 1 .. Len(Tail(down[c])) : Tail(down[c])[i] = down[c][i + 1]
    <3>1. down[c] \in Seq(Frames)
      BY DEF Types
    <3>2. QED
      BY <2>1, <3>1, TailFacts
  <2>3. f \in {"head", "item"} => Entry(c).shape = "down"
    BY <2>2 DEF Shaped
  <2> HIDE DEF f
  <2>4. phase'[c] = "reading" => Entry(c).shape = "down"
    BY <2>1, <2>2, <2>3 DEF After, Given, Frames
  <2>5. ASSUME NEW i \in 1 .. Len(down'[c])
        PROVE  i + 1 \in 1 .. Len(down[c]) /\ down'[c][i] = down[c][i + 1]
    BY <2>1, <2>2
  <2>6. handler[c] \notin {"none", "running"}
    BY <2>1 DEF Shaped
  <2>7. QED
    BY <2>1, <2>4, <2>5, <2>6 DEF Shaped
<1>9. CASE ClientNotices(c) \/ Timeout(c) \/ Drop(c)
  <2>1. UNCHANGED <<handler, seenEnd, down>> /\ phase'[c] \in {"err", "gone"}
    BY <1>9 DEF ClientNotices, Timeout, Drop, server, Types
  <2>2. QED
    BY <2>1 DEF Shaped
<1>10. QED
  BY <1>1, <1>2, <1>3, <1>4, <1>5, <1>6, <1>7, <1>8, <1>9 DEF CallStep

\* A step of a call on a live connection leaves what is waited for ahead.
LEMMA AheadStep ==
  ASSUME Types, NEW c \in Calls, Upward(c), Shaped(c), CallStep(c),
         Active(c) /\ link[c] = "up" => Ahead(c) /\ HeadAhead(c) /\ AnswerAhead(c),
         Active(c)', link'[c] = "up"
  PROVE  Ahead(c)' /\ HeadAhead(c)' /\ AnswerAhead(c)'
<1>0. down[c] \in Seq(Frames) /\ up[c] \in Seq(Items) /\ pending[c] \in Seq(Items)
  BY DEF Types
<1>1. CASE Ask(c)
  <2>1. /\ UNCHANGED handler /\ handler[c] = "none" /\ pending'[c] = Wire(c)
    BY <1>1 DEF Ask, server, Types, Upward, Wire
  <2>2. request[c].payload \in Seq(Items) /\ "end" \in Items
    BY PayloadFacts DEF Types, Items
  <2>3. Wire(c) # <<>> /\ EndsWith(Wire(c), {"end"})
    BY <2>2, EndsWithAppend DEF Wire
  <2>4. QED
    BY <2>1, <2>3 DEF Ahead, HeadAhead, AnswerAhead
<1>2. CASE Send(c)
  <2>1. /\ UNCHANGED <<handler, seenEnd, down, phase, link>> /\ pending[c] # <<>>
        /\ pending'[c] = Tail(pending[c]) /\ up'[c] = Append(up[c], Head(pending[c]))
    BY <1>2 DEF Send, server, Types
  <2>2. Ahead(c) /\ HeadAhead(c) /\ AnswerAhead(c)
    BY <2>1 DEF Active
  <2>3. Head(pending[c]) \in Items
    BY <1>0, <2>1, TailFacts
  <2>4. ASSUME seenEnd[c] = "no"
        PROVE  EndsWith(IF Tail(pending[c]) # <<>> THEN Tail(pending[c])
                        ELSE Append(up[c], Head(pending[c])), {"end"})
    <3>1. EndsWith(pending[c], {"end"})
      BY <2>1, <2>2, <2>4 DEF Ahead
    <3>2. CASE Tail(pending[c]) # <<>>
      <4>1. /\ Len(pending[c]) \in Nat /\ Tail(pending[c]) \in Seq(Items)
            /\ Len(Tail(pending[c])) = Len(pending[c]) - 1
            /\ \A i \in 1 .. Len(Tail(pending[c])) : Tail(pending[c])[i] = pending[c][i + 1]
        BY <1>0, <2>1, TailFacts
      <4>2. Len(Tail(pending[c])) \in 1 .. Len(Tail(pending[c]))
            /\ Len(Tail(pending[c])) + 1 = Len(pending[c])
        BY <3>2, <4>1
      <4>3. Tail(pending[c])[Len(Tail(pending[c]))] = pending[c][Len(pending[c])]
        BY <4>1, <4>2
      <4>4. QED
        BY <3>1, <3>2, <4>3 DEF EndsWith
    <3>3. CASE Tail(pending[c]) = <<>>
      <4>1. /\ Len(pending[c]) \in Nat /\ Head(pending[c]) = pending[c][1]
            /\ Len(Tail(pending[c])) = Len(pending[c]) - 1
        BY <1>0, <2>1, TailFacts
      <4>2. Len(pending[c]) = 1
        <5>1. Len(<<>>) = 0
          OBVIOUS
        <5>2. Len(Tail(pending[c])) = 0
          BY <3>3, <5>1
        <5>3. QED
          BY <4>1, <5>2
      <4>3. Head(pending[c]) = "end"
        BY <3>1, <4>1, <4>2 DEF EndsWith
      <4>4. EndsWith(Append(up[c], Head(pending[c])), {"end"})
        BY <1>0, <2>3, <4>3, EndsWithAppend
      <4>5. QED
        BY <3>3, <4>4
    <3>4. QED
      BY <3>2, <3>3
  <2>5. Ahead(c)'
    BY <2>1, <2>4 DEF Ahead
  <2>6. QED
    BY <2>1, <2>2, <2>5 DEF HeadAhead, AnswerAhead
<1>3. CASE HandlerReads(c)
  <2>1. /\ UNCHANGED <<handler, down, phase, link, pending>> /\ up[c] # <<>>
        /\ seenEnd[c] = "no" /\ up'[c] = Tail(up[c])
        /\ Head(up[c]) = "end" => seenEnd'[c] = "end"
    BY <1>3 DEF HandlerReads, client, Types
  <2>2. Ahead(c) /\ HeadAhead(c) /\ AnswerAhead(c)
    BY <2>1 DEF Active
  <2>3. ASSUME seenEnd'[c] = "no", pending[c] = <<>> PROVE EndsWith(Tail(up[c]), {"end"})
    <3>1. EndsWith(up[c], {"end"}) /\ Head(up[c]) \notin {"end"}
      BY <2>1, <2>2, <2>3 DEF Ahead
    <3>2. QED
      BY <1>0, <3>1, EndsWithTail
  <2>4. Ahead(c)'
    BY <2>1, <2>2, <2>3 DEF Ahead
  <2>5. QED
    BY <2>1, <2>2, <2>4 DEF HeadAhead, AnswerAhead
<1>4. CASE HandlerSeesBreak(c) \/ ServerNotices(c)
  <2>1. link'[c] = link[c] /\ link[c] # "up"
    BY <1>4 DEF HandlerSeesBreak, ServerNotices, network
  <2>2. QED
    BY <2>1
<1>5. CASE Dispatch(c)
  <2>1. /\ UNCHANGED <<phase, link, pending>> /\ handler[c] = "none"
        /\ handler'[c] \in {"running", "over"}
        /\ handler'[c] = "over" => Reply(c, "status")
        /\ seenEnd'[c] = "no" => up'[c] = up[c] /\ seenEnd[c] = "no"
    BY <1>5 DEF Dispatch, client, Types
  <2>2. Ahead(c)
    BY <2>1 DEF Active
  <2>3. Ahead(c)' /\ HeadAhead(c)'
    BY <2>1, <2>2 DEF Ahead, HeadAhead
  <2>4. ASSUME handler'[c] = "over" PROVE EndsWith(down'[c], {"ok", "refused", "status", "done"})
    <3>1. "status" \in Frames
      BY DEF Frames
    <3>2. down'[c] = Append(down[c], "status")
      BY <2>1, <2>4, <3>1, ReplyFacts
    <3>3. EndsWith(Append(down[c], "status"), {"ok", "refused", "status", "done"})
      BY <1>0, <3>1, EndsWithAppend
    <3>4. QED
      BY <3>2, <3>3
  <2>5. QED
    BY <2>3, <2>4 DEF AnswerAhead
<1>6. CASE HandlerReturns(c) \/ HandlerFails(c) \/ StreamEnds(c)
  <2>1. /\ UNCHANGED <<phase, seenEnd, link, pending, up>> /\ handler'[c] = "over"
        /\ \E f \in {"ok", "refused", "status", "done"} : Reply(c, f)
    BY <1>6 DEF HandlerReturns, HandlerFails, StreamEnds, client, Types
  <2>2. PICK f \in {"ok", "refused", "status", "done"} : Reply(c, f)
    BY <2>1
  <2>3. f \in Frames
    BY DEF Frames
  <2>4. down'[c] = Append(down[c], f)
    BY <2>1, <2>2, <2>3, ReplyFacts
  <2>5. EndsWith(Append(down[c], f), {"ok", "refused", "status", "done"})
    BY <1>0, <2>3, EndsWithAppend
  <2>6. Ahead(c)
    BY <2>1 DEF Active
  <2>7. QED
    BY <2>1, <2>4, <2>5, <2>6 DEF Ahead, HeadAhead, AnswerAhead
<1>7. CASE HandlerStreams(c) \/ StreamItem(c)
  <2>1. /\ UNCHANGED <<phase, seenEnd, link, pending, up>> /\ handler'[c] = "streaming"
        /\ \/ handler[c] = "running" /\ Reply(c, "head")
           \/ handler[c] = "streaming" /\ Reply(c, "item")
    BY <1>7 DEF HandlerStreams, StreamItem, client, Types
  <2>2. Ahead(c) /\ HeadAhead(c)
    BY <2>1 DEF Active
  <2>3. "head" \in Frames /\ "item" \in Frames
    BY DEF Frames
  <2>4. CASE handler[c] = "running" /\ Reply(c, "head")
    <3>1. down[c] = <<>> /\ down'[c] = Append(down[c], "head")
      BY <2>1, <2>3, <2>4, ReplyFacts DEF Shaped
    <3>2. down'[c] # <<>> /\ down'[c][1] = "head"
      BY <1>0, <2>3, <3>1, EndsWithAppend
    <3>3. QED
      BY <2>1, <2>2, <3>2 DEF Ahead, HeadAhead, AnswerAhead
  <2>5. CASE handler[c] = "streaming" /\ Reply(c, "item")
    <3>1. down'[c] = Append(down[c], "item")
      BY <2>1, <2>3, <2>5, ReplyFacts
    <3>2. down'[c] # <<>> /\ (down[c] # <<>> => down'[c][1] = down[c][1])
      BY <1>0, <2>3, <3>1, EndsWithAppend
    <3>3. QED
      BY <2>1, <2>2, <2>5, <3>2 DEF Ahead, HeadAhead, AnswerAhead
  <2>6. QED
    BY <2>1, <2>4, <2>5
<1>8. CASE Deliver(c)
  <2> DEFINE f == Head(down[c])
  <2>1. /\ UNCHANGED <<handler, seenEnd, link>> /\ down[c] # <<>> /\ down'[c] = Tail(down[c])
        /\ phase'[c] = After(c, f) /\ Active(c)
    BY <1>8 DEF Deliver, server, Types
  <2>2. f \in Frames /\ f = down[c][1] /\ 1 \in 1 .. Len(down[c])
    BY <1>0, <2>1, TailFacts
  <2>3. AnswerAhead(c)
    BY <2>1
  <2> HIDE DEF f
  <2>4. phase'[c] = "reading" /\ f \in {"head", "item"}
    BY <2>1, <2>2 DEF After, Given, Frames, Active
  <2>5. Entry(c).shape = "down" /\ handler[c] # "none"
    BY <2>1, <2>2, <2>4 DEF Shaped
  <2>6. seenEnd[c] # "no"
    BY <2>5 DEF Shaped
  <2>7. ASSUME handler[c] = "over"
        PROVE  EndsWith(Tail(down[c]), {"ok", "refused", "status", "done"})
    <3>1. EndsWith(down[c], {"ok", "refused", "status", "done"})
      BY <2>3, <2>7 DEF AnswerAhead
    <3>2. Head(down[c]) \notin {"ok", "refused", "status", "done"}
      BY <2>4 DEF f
    <3>3. QED
      BY <1>0, <3>1, <3>2, EndsWithTail
  <2>8. QED
    BY <2>1, <2>4, <2>6, <2>7 DEF Ahead, HeadAhead, AnswerAhead
<1>9. CASE ClientNotices(c) \/ Timeout(c) \/ Drop(c)
  <2>1. phase'[c] \in {"err", "gone"}
    BY <1>9 DEF ClientNotices, Timeout, Drop, Types
  <2>2. QED
    BY <2>1 DEF Active
<1>10. QED
  BY <1>1, <1>2, <1>3, <1>4, <1>5, <1>6, <1>7, <1>8, <1>9 DEF CallStep

\* A call of which nothing changes but that its connection is lost.
LEMMA UnchangedAhead ==
  ASSUME NEW d \in Calls,
         request' = request,
         phase'[d] = phase[d], pending'[d] = pending[d], up'[d] = up[d], down'[d] = down[d],
         link'[d] = "up" => link[d] = "up",
         handler'[d] = handler[d], seenEnd'[d] = seenEnd[d],
         Shaped(d), Active(d) /\ link[d] = "up" => Ahead(d) /\ HeadAhead(d) /\ AnswerAhead(d)
  PROVE  /\ Shaped(d)'
         /\ (Active(d) /\ link[d] = "up" => Ahead(d) /\ HeadAhead(d) /\ AnswerAhead(d))'
<1>1. Entry(d)' = Entry(d)
  BY DEF Entry
<1>2. Shaped(d)'
  BY <1>1 DEF Shaped
<1>3. /\ Active(d)' <=> Active(d)
      /\ Ahead(d)' <=> Ahead(d)
      /\ HeadAhead(d)' <=> HeadAhead(d)
      /\ AnswerAhead(d)' <=> AnswerAhead(d)
  BY DEF Active, Ahead, HeadAhead, AnswerAhead
<1>4. QED
  BY <1>2, <1>3

\* Every step keeps what is waited for ahead.
LEMMA NextLInv == LInv /\ [Next]_vars => LInv'
<1> SUFFICES ASSUME LInv, [Next]_vars PROVE LInv'
  OBVIOUS
<1>1. IInv' /\ Types
  BY NextInv DEF LInv, IInv
<1>2. ASSUME NEW d \in Calls
      PROVE  /\ Shaped(d)'
             /\ (Active(d) /\ link[d] = "up" => Ahead(d) /\ HeadAhead(d) /\ AnswerAhead(d))'
  <2>1. /\ Upward(d) /\ Shaped(d)
        /\ Active(d) /\ link[d] = "up" => Ahead(d) /\ HeadAhead(d) /\ AnswerAhead(d)
    BY DEF LInv, IInv
  <2>2. CASE CallStep(d)
    <3>1. request' = request
      BY <2>2 DEF CallStep, Ask, Send, Dispatch, HandlerReads, HandlerSeesBreak, HandlerReturns,
                  HandlerFails, HandlerStreams, StreamItem, StreamEnds, ServerNotices, Deliver,
                  ClientNotices, Timeout, Drop, client
    <3>2. Entry(d)' = Entry(d)
      BY <3>1 DEF Entry
    <3>3. Shaped(d)'
      BY <1>1, <2>1, <2>2, <3>2, ShapedStep
    <3>4. ASSUME Active(d)', link'[d] = "up" PROVE Ahead(d)' /\ HeadAhead(d)' /\ AnswerAhead(d)'
      BY <1>1, <2>1, <2>2, <3>4, AheadStep
    <3>5. QED
      BY <3>3, <3>4
  <2>3. ASSUME UNCHANGED vars \/ ConnectionLost \/ \E c \in Calls : c # d /\ CallStep(c)
        PROVE  /\ request' = request
               /\ phase'[d] = phase[d] /\ pending'[d] = pending[d] /\ up'[d] = up[d]
               /\ down'[d] = down[d] /\ (link'[d] = "up" => link[d] = "up")
               /\ handler'[d] = handler[d] /\ seenEnd'[d] = seenEnd[d]
    <3>1. CASE UNCHANGED vars
      BY <3>1 DEF vars, client, network, server
    <3>2. CASE ConnectionLost
      <4>1. PICK how \in {"lost", "silent"} :
              link' = [c \in Calls |-> IF phase[c] # "idle" /\ link[c] = "up" THEN how ELSE link[c]]
        BY <3>2 DEF ConnectionLost
      <4>2. link'[d] = IF phase[d] # "idle" /\ link[d] = "up" THEN how ELSE link[d]
        BY <4>1
      <4>3. QED
        BY <3>2, <4>2 DEF ConnectionLost, client, server
    <3>3. CASE \E c \in Calls : c # d /\ CallStep(c)
      <4>1. PICK c \in Calls : c # d /\ CallStep(c)
        BY <3>3
      <4>2. QED
        BY <1>1, <4>1, OthersUntouched
    <3>4. QED
      BY <2>3, <3>1, <3>2, <3>3
  <2>4. CASE ~CallStep(d)
    <3>1. UNCHANGED vars \/ ConnectionLost \/ \E c \in Calls : c # d /\ CallStep(c)
      BY <2>4 DEF Next, CallStep
    <3>2. QED
      BY <2>1, <2>3, <3>1, UnchangedAhead
  <2>5. QED
    BY <2>2, <2>4
<1>3. QED
  BY <1>1, <1>2 DEF LInv

\* On a live connection, nobody waits for what is not coming, for any number of
\* calls, requests, items and lost connections: the end of the requests is ahead
\* of a handler that reads them, the head of a started stream and the answer of a
\* handler that is over are ahead of the caller.
THEOREM NothingIsLost == Spec => []NothingLost
<1>1. Init => LInv
  <2> SUFFICES ASSUME Init PROVE LInv
    OBVIOUS
  <2>1. IInv
    BY InitInv
  <2>2. ASSUME NEW c \in Calls PROVE Shaped(c) /\ ~Active(c)
    BY DEF Init, Shaped, Active
  <2>3. QED
    BY <2>1, <2>2 DEF LInv
<1>2. LInv => NothingLost
  BY DEF LInv, NothingLost, Ahead, HeadAhead, AnswerAhead
<1>3. QED
  BY <1>1, <1>2, NextLInv, PTL DEF Spec
=============================================================================
