----------------------------- MODULE WaitsProof -----------------------------
(***************************************************************************)
(* Proofs about the Java, Python and C++ waits for results, for every set  *)
(* of results, every list of ids, bucket size, parallelism and number of   *)
(* failing streams.  The three wait on the same event service: the lemmas  *)
(* about it come first.  The Java wait is extended, the two others are     *)
(* instantiated with variables of their own.                               *)
(***************************************************************************)
EXTENDS JavaWaitForResults, TLAPS

CONSTANTS MaxErrors, MaxEnds,      \* of the Python wait
          CppAwaited, MayEnd       \* of the C++ wait

VARIABLES not_found, errors, ends, parallelism,     \* of the Python wait
          result_ids, broken                        \* of the C++ wait

Python == INSTANCE PyWaitForResults
Cpp == INSTANCE CppWaitForResults WITH Awaited <- CppAwaited

-----------------------------------------------------------------------------
(* The event service.                                                      *)

\* What a stream may carry, with the types of the service.
ServiceInv(Subscribers) == ServiceTypeOK(Subscribers) /\ TruthfulStreams

\* A completed result stays completed or deleted, an aborted one aborted.
Settled ==
  \A r \in Results : /\ WasCompleted(r) => WasCompleted(r)'
                     /\ status[r] = "Aborted" => status'[r] = "Aborted"

\* No stream is open at first.
LEMMA ServiceInitInv ==
  ASSUME NEW Subscribers, ServiceInit(Subscribers)
  PROVE  ServiceInv(Subscribers)
BY DEF ServiceInit, ServiceInv, ServiceTypeOK, TruthfulStreams

\* A change of status is announced truthfully, and settled results stay so.
LEMMA ServiceNextInv ==
  ASSUME NEW Subscribers, ServiceInv(Subscribers), ServiceNext
  PROVE  ServiceInv(Subscribers)' /\ Settled
<1> USE DEF ServiceInv, ServiceTypeOK
<1>1. PICK r \in Results, s \in Statuses : ChangeStatus(r, s)
  BY DEF ServiceNext
<1>2. Settled
  BY <1>1 DEF ChangeStatus, Settled, WasCompleted, Lifecycle
<1>3. status' \in [Results -> Statuses] /\ status'[r] = s
  BY <1>1 DEF ChangeStatus
<1>4. sub' = sub
  BY <1>1 DEF ChangeStatus
<1>5. queue' \in [Subscribers -> SUBSET Events]
  BY <1>1 DEF ChangeStatus, Events, Event, Kinds
<1>6. ASSUME NEW c \in Subscribers, NEW e \in queue'[c]
      PROVE  /\ e.status = "Completed" => WasCompleted(e.id)'
             /\ e.status = "Aborted" => status'[e.id] = "Aborted"
  <2>1. CASE e \in queue[c]
    <3>1. e.id \in Results  BY <2>1 DEF Events
    <3> QED  BY <1>2, <2>1, <3>1 DEF TruthfulStreams, Settled
  <2>2. CASE e = Event("ResultStatusUpdate", r, s)
    BY <1>3, <2>2 DEF Event, WasCompleted
  <2> QED  BY <1>1, <1>6, <2>1, <2>2 DEF ChangeStatus
<1>7. TruthfulStreams'
  BY <1>5, <1>6 DEF TruthfulStreams
<1> QED  BY <1>2, <1>3, <1>4, <1>5, <1>7

\* A new stream carries a truthful snapshot.
LEMMA SubscribeInv ==
  ASSUME NEW Subscribers, ServiceInv(Subscribers), NEW c \in Subscribers,
         NEW ids \in SUBSET Results, Subscribe(c, ids)
  PROVE  ServiceInv(Subscribers)' /\ status' = status
<1> USE DEF ServiceInv, ServiceTypeOK
<1>1. PICK covered \in {ids, Results} :
        /\ sub' = [sub EXCEPT ![c] = covered]
        /\ queue' = [queue EXCEPT ![c] = {Event("NewResult", r, status[r]) : r \in covered}]
        /\ UNCHANGED status
  BY DEF Subscribe
<1>2. covered \subseteq Results /\ status' = status
  BY <1>1
<1>3. ServiceTypeOK(Subscribers)'
  BY <1>1, <1>2 DEF Events, Event, Kinds
<1>4. ASSUME NEW d \in Subscribers, NEW e \in queue'[d]
      PROVE  /\ e.status = "Completed" => WasCompleted(e.id)
             /\ e.status = "Aborted" => status[e.id] = "Aborted"
  <2>1. CASE d = c
    <3>1. PICK r \in covered : e = Event("NewResult", r, status[r])
      BY <1>1, <1>4, <2>1
    <3> QED  BY <3>1 DEF Event, WasCompleted
  <2>2. CASE d # c
    BY <1>1, <1>4, <2>2 DEF TruthfulStreams
  <2> QED  BY <2>1, <2>2
<1>5. TruthfulStreams'
  BY <1>2, <1>3, <1>4 DEF TruthfulStreams, WasCompleted
<1> QED  BY <1>2, <1>3, <1>5

\* Reading from a stream, or dropping it, leaves the other events in place.
LEMMA ShrinkInv ==
  ASSUME NEW Subscribers, ServiceInv(Subscribers), NEW c \in Subscribers,
         Unsubscribe(c) \/ \E e \in queue[c] : Read(c, e)
  PROVE  ServiceInv(Subscribers)' /\ status' = status
<1> USE DEF ServiceInv, ServiceTypeOK
<1>1. status' = status
  BY DEF Unsubscribe, Read
<1>2. /\ sub' \in [Subscribers -> SUBSET Results]
      /\ queue' \in [Subscribers -> SUBSET Events]
      /\ \A d \in Subscribers : queue'[d] \subseteq queue[d]
  BY DEF Unsubscribe, Read
<1>3. TruthfulStreams'
  BY <1>1, <1>2 DEF TruthfulStreams, WasCompleted
<1> QED  BY <1>1, <1>2, <1>3

\* What a subscriber may conclude from an event it reads.
LEMMA EventFacts ==
  ASSUME NEW Subscribers, ServiceInv(Subscribers), NEW c \in Subscribers, NEW e \in queue[c]
  PROVE  /\ e \in Events /\ e.id \in Results
         /\ e.status = "Completed" => WasCompleted(e.id)
         /\ e.status = "Aborted" => status[e.id] = "Aborted"
BY DEF ServiceInv, ServiceTypeOK, TruthfulStreams, Events

\* A status change is announced on every stream that covers the result.
LEMMA AnnouncedChange ==
  ASSUME NEW Subscribers, ServiceInv(Subscribers), ServiceNext,
         NEW c \in Subscribers, NEW r \in sub[c], Announced(c, r)
  PROVE  r \in sub'[c] /\ Announced(c, r)'
<1> USE DEF ServiceInv, ServiceTypeOK
<1>1. PICK x \in Results, s \in Statuses : ChangeStatus(x, s)
  BY DEF ServiceNext
<1>2. r \in Results /\ sub' = sub
  BY <1>1 DEF ChangeStatus
<1>3. CASE r = x
  <2>1. Event("ResultStatusUpdate", r, s) \in queue'[c] /\ status'[r] = s
    BY <1>1, <1>2, <1>3 DEF ChangeStatus
  <2> QED  BY <1>2, <2>1 DEF Announced, Event
<1>4. CASE r # x
  <2>1. queue[c] \subseteq queue'[c] /\ status'[r] = status[r]
    BY <1>1, <1>2, <1>4 DEF ChangeStatus
  <2> QED  BY <1>2, <2>1 DEF Announced
<1> QED  BY <1>3, <1>4

\* The snapshot of a new stream announces every result asked for.
LEMMA AnnouncedSnapshot ==
  ASSUME NEW Subscribers, ServiceInv(Subscribers), NEW c \in Subscribers,
         NEW ids \in SUBSET Results, Subscribe(c, ids), NEW r \in ids
  PROVE  r \in sub'[c] /\ Announced(c, r)'
<1> USE DEF ServiceInv, ServiceTypeOK
<1>1. PICK covered \in {ids, Results} :
        /\ sub' = [sub EXCEPT ![c] = covered]
        /\ queue' = [queue EXCEPT ![c] = {Event("NewResult", x, status[x]) : x \in covered}]
        /\ status' = status
  BY DEF Subscribe
<1>2. r \in covered /\ sub'[c] = covered
  BY <1>1
<1>3. Event("NewResult", r, status[r]) \in queue'[c]
  BY <1>1, <1>2
<1> QED  BY <1>1, <1>2, <1>3 DEF Announced, Event

\* Reading an event that says nothing final about r hides no news of r.
LEMMA AnnouncedRead ==
  ASSUME NEW Subscribers, ServiceInv(Subscribers), NEW c \in Subscribers,
         NEW e \in queue[c], Read(c, e), NEW r, Announced(c, r),
         e.id # r \/ e.status \notin {"Completed", "Aborted"}
  PROVE  sub' = sub /\ Announced(c, r)'
<1>1. sub' = sub /\ status' = status /\ queue'[c] = queue[c] \ {e}
  BY DEF Read, ServiceInv, ServiceTypeOK
<1> QED  BY <1>1 DEF Announced

\* What a subscriber does to its own stream leaves the others alone.
LEMMA AnnouncedElsewhere ==
  ASSUME NEW Subscribers, ServiceInv(Subscribers), NEW d \in Subscribers,
         NEW c \in Subscribers \ {d}, NEW ids, NEW e, NEW r,
         Subscribe(d, ids) \/ Read(d, e) \/ Unsubscribe(d), Announced(c, r)
  PROVE  sub'[c] = sub[c] /\ Announced(c, r)'
<1>1. status' = status /\ sub'[c] = sub[c] /\ queue'[c] = queue[c]
  BY DEF Subscribe, Read, Unsubscribe, ServiceInv, ServiceTypeOK
<1> QED  BY <1>1 DEF Announced

-----------------------------------------------------------------------------
(* The lists of ids.                                                       *)

\* Cutting the list of ids into buckets neither loses nor invents an id.
LEMMA BucketsCover ==
  /\ Awaited \subseteq Results
  /\ \A b \in Buckets : Bucket(b) \subseteq Awaited
  /\ \A r \in Awaited : \E b \in Buckets : r \in Bucket(b)
<1>1. \A i \in DOMAIN ResultIds : ResultIds[i] \in Results
  BY JavaAssumption
<1>2. \A i \in DOMAIN ResultIds :
        BucketOf(i) \in Buckets /\ ResultIds[i] \in Bucket(BucketOf(i))
  BY DEF Buckets, Bucket
<1> QED  BY <1>1, <1>2 DEF Awaited, Bucket

\* What the buckets still miss: missing[b] is among the ids of bucket b, and
\* the ids that left it were completed.
Accounts(missing) ==
  /\ missing \in [Buckets -> SUBSET Results]
  /\ \A b \in Buckets : \A r \in Bucket(b) \ missing[b] : WasCompleted(r)

\* At first nothing is found.
LEMMA AccountsInit == Accounts([b \in Buckets |-> Bucket(b)])
  BY BucketsCover DEF Accounts

\* Accounts stay exact while the statuses evolve.
LEMMA AccountsSettled ==
  ASSUME NEW missing, Accounts(missing), Settled
  PROVE  \A b \in Buckets : \A r \in Bucket(b) \ missing[b] : WasCompleted(r)'
<1>1. \A b \in Buckets : Bucket(b) \subseteq Results
  BY BucketsCover
<1> QED  BY <1>1 DEF Accounts, Settled

\* Striking off a completed id keeps the accounts.
LEMMA AccountsFound ==
  ASSUME NEW missing, Accounts(missing), NEW b \in Buckets, NEW r, WasCompleted(r)
  PROVE  Accounts([missing EXCEPT ![b] = @ \ {r}])
BY DEF Accounts

\* When no bucket misses anything, every awaited result was completed.
LEMMA AccountsClosed ==
  ASSUME NEW missing, Accounts(missing), \A b \in Buckets : missing[b] = {}
  PROVE  \A r \in Awaited : WasCompleted(r)
BY BucketsCover DEF Accounts

-----------------------------------------------------------------------------
(* The Java wait.                                                          *)

ThreadTypes ==
  /\ pc \in [Buckets -> {"idle", "loop", "await", "done"}]
  /\ latch \in [Buckets -> {0, 1}]
  /\ stream \in [Buckets -> {"none", "open", "broken", "closed"}]

\* A thread is blocked exactly while a call is alive and ids are missing; a
\* thread that is done misses nothing.
Handshake(b) ==
  /\ pc[b] = "await" /\ latch[b] = 1 =>
       stream[b] \in {"open", "broken"} /\ resultsNotFound[b] # {}
  /\ stream[b] \in {"open", "broken"} /\ resultsNotFound[b] # {} =>
       pc[b] = "await" /\ latch[b] = 1
  /\ pc[b] = "done" => resultsNotFound[b] = {}

JavaInv ==
  /\ ServiceInv(Buckets)
  /\ Accounts(resultsNotFound)
  /\ ThreadTypes
  /\ \A b \in Buckets : Handshake(b)

\* The initial states satisfy the invariant.
LEMMA JavaInitInv == Init => JavaInv
<1> SUFFICES ASSUME Init PROVE JavaInv
  OBVIOUS
<1>1. ServiceInv(Buckets)  BY ServiceInitInv DEF Init
<1>2. Accounts(resultsNotFound)  BY AccountsInit DEF Init
<1>3. ThreadTypes /\ \A b \in Buckets : Handshake(b)
  BY DEF Init, ThreadTypes, Handshake
<1> QED  BY <1>1, <1>2, <1>3 DEF JavaInv

\* The steps of the service leave the threads and their accounts alone.
LEMMA JavaServiceInv ==
  ASSUME JavaInv, Service
  PROVE  JavaInv'
<1>1. UNCHANGED <<pc, resultsNotFound, latch, stream>>  BY DEF Service
<1>2. ServiceInv(Buckets)' /\ Settled
  BY ServiceNextInv DEF JavaInv, Service
<1>3. Accounts(resultsNotFound)'
  BY <1>1, <1>2, AccountsSettled DEF JavaInv, Accounts
<1> QED  BY <1>1, <1>2, <1>3 DEF JavaInv, ThreadTypes, Handshake

\* Steps that leave the service and the accounts alone.
LEMMA JavaThreadInv ==
  ASSUME JavaInv, NEW b \in Buckets,
         Start(b) \/ LeaveLoop(b) \/ AwaitReturns(b) \/ OnError(b)
  PROVE  JavaInv'
<1> USE DEF Start, LeaveLoop, AwaitReturns, OnError, Goto, CountDown
<1>1. UNCHANGED <<status, sub, queue, resultsNotFound>>  BY DEF serviceVars
<1>2. ServiceInv(Buckets)' /\ Accounts(resultsNotFound)'
  BY <1>1
  DEF JavaInv, ServiceInv, ServiceTypeOK, TruthfulStreams, WasCompleted, Accounts
<1>3. ThreadTypes'  BY DEF JavaInv, ThreadTypes
<1>4. ASSUME NEW a \in Buckets PROVE Handshake(a)'
  BY <1>1 DEF JavaInv, ThreadTypes, Handshake
<1> QED  BY <1>2, <1>3, <1>4 DEF JavaInv

\* Opening a stream, losing it, and the callbacks of its events.
LEMMA JavaStreamInv ==
  ASSUME JavaInv, NEW b \in Buckets,
         GetEvents(b) \/ OnNext(b) \/ Break(b) \/ OnCompleted(b)
  PROVE  JavaInv' /\ status' = status
<1>1. CASE GetEvents(b)
  <2> USE <1>1 DEF GetEvents, Goto
  <2>1. Bucket(b) \in SUBSET Results  BY BucketsCover
  <2>2. ServiceInv(Buckets)' /\ status' = status
    BY <2>1, SubscribeInv DEF JavaInv
  <2>3. Accounts(resultsNotFound)'
    BY <2>2 DEF JavaInv, Accounts, WasCompleted
  <2>4. ThreadTypes'  BY DEF JavaInv, ThreadTypes
  <2>5. ASSUME NEW a \in Buckets PROVE Handshake(a)'
    BY DEF JavaInv, ThreadTypes, Handshake
  <2> QED  BY <2>2, <2>3, <2>4, <2>5 DEF JavaInv
<1>2. CASE Break(b) \/ OnCompleted(b)
  <2> USE <1>2 DEF Break, OnCompleted, CountDown
  <2>1. ServiceInv(Buckets)' /\ status' = status
    BY ShrinkInv DEF JavaInv
  <2>2. Accounts(resultsNotFound)'
    BY <2>1 DEF JavaInv, Accounts, WasCompleted
  <2>3. ThreadTypes'  BY DEF JavaInv, ThreadTypes
  <2>4. ASSUME NEW a \in Buckets PROVE Handshake(a)'
    BY DEF JavaInv, ThreadTypes, Handshake
  <2> QED  BY <2>1, <2>2, <2>3, <2>4 DEF JavaInv
<1>3. CASE OnNext(b)
  <2>1. PICK e \in queue[b] :
          OnNextCompleted(b, e) \/ OnNextAborted(b, e) \/ OnNextIgnores(b, e)
    BY <1>3 DEF OnNext
  <2>2. UNCHANGED pc /\ stream[b] = "open"  BY <1>3 DEF OnNext
  <2>3. ServiceInv(Buckets)' /\ status' = status
    BY <2>1, ShrinkInv DEF JavaInv, OnNextCompleted, OnNextAborted, OnNextIgnores
  <2>4. e.status = "Completed" => WasCompleted(e.id)
    BY EventFacts DEF JavaInv
  <2>5. Accounts(resultsNotFound)'
    <3>1. \/ resultsNotFound' = resultsNotFound
          \/ /\ resultsNotFound' = [resultsNotFound EXCEPT ![b] = @ \ {e.id}]
             /\ WasCompleted(e.id)
      BY <2>1, <2>4 DEF OnNextCompleted, OnNextAborted, OnNextIgnores
    <3>2. Accounts(resultsNotFound')
      BY <3>1, AccountsFound DEF JavaInv
    <3> QED  BY <2>3, <3>2 DEF Accounts, WasCompleted
  <2>6. ThreadTypes'
    BY <2>1, <2>2
    DEF JavaInv, ThreadTypes, OnNextCompleted, OnNextAborted, OnNextIgnores, CountDown
  <2>7. ASSUME NEW a \in Buckets PROVE Handshake(a)'
    <3>1. CASE OnNextCompleted(b, e)
      BY <2>2, <3>1 DEF OnNextCompleted, CountDown, JavaInv, ThreadTypes, Handshake, Accounts
    <3>2. CASE OnNextAborted(b, e) \/ OnNextIgnores(b, e)
      BY <2>2, <3>2 DEF OnNextAborted, OnNextIgnores, JavaInv, ThreadTypes, Handshake
    <3> QED  BY <2>1, <3>1, <3>2
  <2> QED  BY <2>3, <2>5, <2>6, <2>7 DEF JavaInv
<1> QED  BY <1>1, <1>2, <1>3

\* The invariant is inductive.
LEMMA JavaNextInv == JavaInv /\ [Next]_vars => JavaInv'
<1> SUFFICES ASSUME JavaInv, [Next]_vars PROVE JavaInv'
  OBVIOUS
<1>1. CASE Service  BY <1>1, JavaServiceInv
<1>2. ASSUME NEW b \in Buckets,
             \/ Start(b) \/ GetEvents(b) \/ LeaveLoop(b) \/ AwaitReturns(b)
             \/ OnNext(b) \/ Break(b) \/ OnError(b) \/ OnCompleted(b)
      PROVE  JavaInv'
  BY <1>2, JavaThreadInv, JavaStreamInv
<1>3. CASE Complete \/ UNCHANGED vars
  <2>1. UNCHANGED <<status, sub, queue, pc, resultsNotFound, latch, stream>>
    BY <1>3 DEF Complete, vars, serviceVars
  <2>2. ServiceInv(Buckets)' /\ Accounts(resultsNotFound)'
    BY <2>1
    DEF JavaInv, ServiceInv, ServiceTypeOK, TruthfulStreams, WasCompleted, Accounts
  <2> QED  BY <2>1, <2>2 DEF JavaInv, ThreadTypes, Handshake
<1> QED  BY <1>1, <1>2, <1>3 DEF Next

\* The invariant holds in every reachable state.
LEMMA JavaInvariant == Spec => []JavaInv
  BY JavaInitInv, JavaNextInv, PTL DEF Spec

\* A thread blocked on its latch has a live stream and something to wait
\* for: no order of callbacks and threads loses the wake-up.
THEOREM NoWakeupIsLost == Spec => []NoLostWakeup
<1>1. JavaInv => NoLostWakeup
  BY DEF JavaInv, Handshake, NoLostWakeup
<1> QED  BY <1>1, JavaInvariant, PTL

\* A chunk that misses ids never has two calls alive.
THEOREM StreamsDoNotOverlap == Spec => []OneStreamAtATime
<1>1. JavaInv => OneStreamAtATime
  BY DEF JavaInv, ThreadTypes, Handshake, OneStreamAtATime
<1> QED  BY <1>1, JavaInvariant, PTL

\* The set of missing ids only shrinks, and an open stream covers and still
\* announces all of them.
JavaWatching ==
  \A b \in Buckets :
    /\ resultsNotFound[b] \subseteq Bucket(b)
    /\ stream[b] = "open" =>
         \A r \in resultsNotFound[b] : r \in sub[b] /\ Announced(b, r)

\* A step of the thread of chunk b, or of its callbacks, keeps its own news.
LEMMA JavaOwnWatched ==
  ASSUME JavaInv, JavaWatching, NEW b \in Buckets,
         \/ Start(b) \/ GetEvents(b) \/ LeaveLoop(b) \/ AwaitReturns(b)
         \/ OnNext(b) \/ Break(b) \/ OnError(b) \/ OnCompleted(b)
  PROVE  /\ resultsNotFound'[b] \subseteq Bucket(b)
         /\ stream'[b] = "open" =>
              \A r \in resultsNotFound'[b] : r \in sub'[b] /\ Announced(b, r)'
<1> USE DEF JavaInv, ThreadTypes, Accounts
<1>1. CASE Start(b) \/ LeaveLoop(b) \/ AwaitReturns(b)
  BY <1>1 DEF Start, LeaveLoop, AwaitReturns, serviceVars, JavaWatching, Announced
<1>2. CASE GetEvents(b)
  <2>1. Subscribe(b, Bucket(b)) /\ Bucket(b) \in SUBSET Results
    BY <1>2, BucketsCover DEF GetEvents
  <2>2. resultsNotFound' = resultsNotFound /\ resultsNotFound[b] \subseteq Bucket(b)
    BY <1>2 DEF GetEvents, JavaWatching
  <2>3. \A r \in Bucket(b) : r \in sub'[b] /\ Announced(b, r)'
    BY <2>1, AnnouncedSnapshot
  <2> QED  BY <2>2, <2>3
<1>3. CASE Break(b) \/ OnError(b) \/ OnCompleted(b)
  BY <1>3 DEF Break, OnError, OnCompleted, JavaWatching
<1>4. CASE OnNext(b)
  <2>1. PICK e \in queue[b] :
          OnNextCompleted(b, e) \/ OnNextAborted(b, e) \/ OnNextIgnores(b, e)
    BY <1>4 DEF OnNext
  <2>2. /\ resultsNotFound[b] \subseteq Bucket(b)
        /\ \A r \in resultsNotFound[b] : r \in sub[b] /\ Announced(b, r)
    BY <1>4 DEF OnNext, JavaWatching
  <2>3. CASE OnNextCompleted(b, e)
    <3>1. Read(b, e) /\ resultsNotFound'[b] = resultsNotFound[b] \ {e.id}
      BY <2>3 DEF OnNextCompleted
    <3>2. \A r \in resultsNotFound'[b] : r \in sub'[b] /\ Announced(b, r)'
      BY <2>2, <3>1, AnnouncedRead
    <3> QED  BY <2>2, <3>1, <3>2
  <2>4. CASE OnNextAborted(b, e)
    BY <2>2, <2>4 DEF OnNextAborted
  <2>5. CASE OnNextIgnores(b, e)
    <3>1. /\ Read(b, e) /\ resultsNotFound' = resultsNotFound
          /\ e.id \notin resultsNotFound[b] \/ e.status \notin {"Completed", "Aborted"}
      BY <2>5 DEF OnNextIgnores
    <3>2. \A r \in resultsNotFound[b] : r \in sub'[b] /\ Announced(b, r)'
      BY <2>2, <3>1, AnnouncedRead
    <3> QED  BY <2>2, <3>1, <3>2
  <2> QED  BY <2>1, <2>3, <2>4, <2>5
<1> QED  BY <1>1, <1>2, <1>3, <1>4

\* It leaves the news of the other chunks alone.
LEMMA JavaOtherWatched ==
  ASSUME JavaInv, JavaWatching, NEW b \in Buckets, NEW a \in Buckets \ {b},
         \/ Start(b) \/ GetEvents(b) \/ LeaveLoop(b) \/ AwaitReturns(b)
         \/ OnNext(b) \/ Break(b) \/ OnError(b) \/ OnCompleted(b)
  PROVE  /\ resultsNotFound'[a] \subseteq Bucket(a)
         /\ stream'[a] = "open" =>
              \A r \in resultsNotFound'[a] : r \in sub'[a] /\ Announced(a, r)'
<1>1. resultsNotFound'[a] = resultsNotFound[a] /\ stream'[a] = stream[a]
  BY DEF Start, GetEvents, LeaveLoop, AwaitReturns, OnNext, OnNextCompleted, OnNextAborted,
         OnNextIgnores, Break, OnError, OnCompleted, JavaInv, ThreadTypes, Accounts
<1>2. CASE UNCHANGED <<status, sub, queue>>
  BY <1>1, <1>2 DEF JavaWatching, Announced
<1>3. CASE \E ids, e : Subscribe(b, ids) \/ Read(b, e) \/ Unsubscribe(b)
  <2>1. \A r : Announced(a, r) => sub'[a] = sub[a] /\ Announced(a, r)'
    BY <1>3, AnnouncedElsewhere DEF JavaInv
  <2> QED  BY <1>1, <2>1 DEF JavaWatching
<1> QED
  BY <1>2, <1>3
  DEF Start, GetEvents, LeaveLoop, AwaitReturns, OnNext, OnNextCompleted, OnNextAborted,
      OnNextIgnores, Break, OnError, OnCompleted, serviceVars

\* JavaWatching is preserved by every step.
LEMMA JavaWatchingNext == JavaInv /\ JavaWatching /\ [Next]_vars => JavaWatching'
<1> SUFFICES ASSUME JavaInv, JavaWatching, [Next]_vars PROVE JavaWatching'
  OBVIOUS
<1>1. CASE Service
  <2>1. UNCHANGED <<stream, resultsNotFound>> /\ ServiceNext
    BY <1>1 DEF Service
  <2> QED  BY <2>1, AnnouncedChange DEF JavaWatching, JavaInv
<1>2. ASSUME NEW b \in Buckets,
             \/ Start(b) \/ GetEvents(b) \/ LeaveLoop(b) \/ AwaitReturns(b)
             \/ OnNext(b) \/ Break(b) \/ OnError(b) \/ OnCompleted(b)
      PROVE  JavaWatching'
  BY <1>2, JavaOwnWatched, JavaOtherWatched DEF JavaWatching
<1>3. CASE Complete \/ UNCHANGED vars
  BY <1>3 DEF Complete, vars, serviceVars, JavaWatching, Announced
<1> QED  BY <1>1, <1>2, <1>3 DEF Next

\* The Java wait never overlooks the end of a result: while a stream is open,
\* the event of each settled id that is missing is still ahead in it.
THEOREM JavaNothingIsMissed == Spec => []NothingMissed
<1>1. Init => JavaWatching
  BY DEF Init, JavaWatching
<1>2. JavaWatching => NothingMissed
  BY DEF JavaWatching, NothingMissed
<1> QED  BY <1>1, <1>2, JavaWatchingNext, JavaInvariant, PTL DEF Spec

\* The Java wait implements the abstract wait: its future completes only when
\* every awaited result was completed.
THEOREM JavaImplementation == Spec => ImplementsResultWait
<1>1. Init => Promise!Init
  BY DEF Init, ServiceInit, Statuses, Promise!Init
<1>2. JavaInv /\ [Next]_vars => [Promise!Next]_<<status, FALSE, outcome>>
  <2> SUFFICES ASSUME JavaInv, [Next]_vars
               PROVE  Promise!Next \/ UNCHANGED <<status, outcome>>
    OBVIOUS
  <2>1. CASE Service
    <3>1. PICK r \in Results, s \in Statuses : ChangeStatus(r, s)
      BY <2>1 DEF Service, ServiceNext
    <3>2. s # "Created"  BY <3>1 DEF ChangeStatus, Lifecycle
    <3>3. Promise!Evolve
      BY <2>1, <3>1, <3>2
      DEF Promise!Evolve, Promise!Lifecycle, ChangeStatus, Lifecycle, Statuses, Service
    <3> QED  BY <3>3 DEF Promise!Next
  <2>2. ASSUME NEW b \in Buckets,
               \/ Start(b) \/ GetEvents(b) \/ LeaveLoop(b) \/ AwaitReturns(b)
               \/ OnNext(b) \/ Break(b) \/ OnError(b) \/ OnCompleted(b)
        PROVE  UNCHANGED <<status, outcome>>
    <3>1. UNCHANGED outcome
      BY <2>2
      DEF Start, GetEvents, LeaveLoop, AwaitReturns, OnNext, Break, OnError, OnCompleted
    <3>2. UNCHANGED status
      BY <2>2, JavaStreamInv DEF Start, LeaveLoop, AwaitReturns, OnError, serviceVars
    <3> QED  BY <3>1, <3>2
  <2>3. CASE Complete
    <3>1. \A b \in Buckets : resultsNotFound[b] = {}
      BY <2>3 DEF Complete, JavaInv, Handshake
    <3>2. \A r \in Awaited : status[r] \in {"Completed", "Deleted"}
      BY <3>1, AccountsClosed DEF JavaInv, WasCompleted
    <3> QED  BY <2>3, <3>2 DEF Complete, Promise!Next, Promise!Return, serviceVars
  <2>4. CASE UNCHANGED vars
    BY <2>4 DEF vars, serviceVars
  <2> QED  BY <2>1, <2>2, <2>3, <2>4 DEF Next
<1> QED
  BY <1>1, <1>2, JavaInvariant, PTL DEF Spec, ImplementsResultWait, Promise!Spec

-----------------------------------------------------------------------------
(* The Python wait.                                                        *)

\* Python cuts the list of ids into the same buckets.
LEMMA SameBuckets ==
  /\ Python!Buckets = Buckets
  /\ Python!Awaited = Awaited
  /\ \A b : Python!Bucket(b) = Bucket(b)
BY DEF Python!Buckets, Buckets, Python!BucketOf, BucketOf, Python!Awaited, Awaited,
       Python!Bucket, Bucket

\* Python subscribes to and reads from the same service.
LEMMA SameService ==
  /\ Python!ServiceNext = ServiceNext
  /\ \A b, ids : Python!Subscribe(b, ids) = Subscribe(b, ids)
  /\ \A b, e : Python!Read(b, e) = Read(b, e)
  /\ \A b : Python!Unsubscribe(b) = Unsubscribe(b)
<1>1. Python!ServiceNext = ServiceNext
  BY DEF Python!ServiceNext, ServiceNext, Python!ChangeStatus, ChangeStatus,
         Python!Lifecycle, Lifecycle, Python!Statuses, Statuses, Python!Event, Event
<1>2. \A b, ids : Python!Subscribe(b, ids) = Subscribe(b, ids)
  BY DEF Python!Subscribe, Subscribe, Python!Event, Event
<1>3. \A b, e : Python!Read(b, e) = Read(b, e)
  BY DEF Python!Read, Read
<1>4. \A b : Python!Unsubscribe(b) = Unsubscribe(b)
  BY DEF Python!Unsubscribe, Unsubscribe
<1> QED  BY <1>1, <1>2, <1>3, <1>4

PythonPCs == {"idle", "loop", "read", "done", "aborted", "cancelled"}

\* Why the run of a batch ended, and why the call did.
PythonEnds ==
  /\ pc \in [Buckets -> PythonPCs]
  /\ ends \in Nat
  /\ \A b \in Buckets :
       /\ pc[b] = "done" /\ ends = 0 => not_found[b] = {}
       /\ pc[b] = "aborted" => \E r \in Bucket(b) : status[r] = "Aborted"
  /\ outcome = "ok" /\ ends = 0 => \A r \in Awaited : WasCompleted(r)
  /\ outcome = "aborted" =>
       /\ \E r \in Awaited : status[r] = "Aborted"
       /\ \A b \in Buckets : pc[b] # "idle"

PythonInv ==
  /\ ServiceInv(Buckets)
  /\ Accounts(not_found)
  /\ \A b \in Buckets : not_found[b] \subseteq Bucket(b)
  /\ PythonEnds

\* Nothing is found at first, and no batch has begun.
LEMMA PythonInitInv == Python!Init => PythonInv
<1> SUFFICES ASSUME Python!Init PROVE PythonInv
  OBVIOUS
<1>1. ServiceInit(Buckets)
  BY SameBuckets DEF Python!Init, Python!ServiceInit, ServiceInit, Python!Statuses, Statuses
<1>2. ServiceInv(Buckets)  BY <1>1, ServiceInitInv
<1>3. /\ pc = [b \in Buckets |-> "idle"]
      /\ not_found = [b \in Buckets |-> Bucket(b)]
      /\ outcome = "running" /\ ends = 0
  BY SameBuckets DEF Python!Init
<1>4. Accounts(not_found)  BY <1>3, AccountsInit
<1>5. PythonEnds  BY <1>3 DEF PythonEnds, PythonPCs
<1> QED  BY <1>2, <1>3, <1>4, <1>5 DEF PythonInv

\* The steps of the service keep what the batches and the call ended with.
LEMMA PythonServiceInv ==
  ASSUME PythonInv, Python!Service
  PROVE  PythonInv'
<1>1. UNCHANGED <<pc, not_found, outcome, ends>>  BY DEF Python!Service
<1>2. ServiceInv(Buckets)' /\ Settled
  BY SameService, ServiceNextInv DEF PythonInv, Python!Service
<1>3. Accounts(not_found)'
  BY <1>1, <1>2, AccountsSettled DEF PythonInv, Accounts
<1>4. Awaited \subseteq Results /\ \A b \in Buckets : Bucket(b) \subseteq Results
  BY BucketsCover
<1>5. PythonEnds'
  BY <1>1, <1>2, <1>4 DEF PythonInv, PythonEnds, Settled
<1> QED  BY <1>1, <1>2, <1>3, <1>5 DEF PythonInv

\* What the handler does with an event: batch b goes on, strikes off a
\* completed id, ends with the last one, or is aborted by an aborted id.
LEMMA PythonHandle ==
  ASSUME PythonInv, NEW b \in Buckets, Python!Handle(b)
  PROVE  /\ ServiceInv(Buckets)' /\ status' = status
         /\ UNCHANGED <<outcome, ends>>
         /\ pc[b] = "read"
         /\ \/ UNCHANGED <<pc, not_found>>
            \/ /\ \E r : /\ WasCompleted(r)
                         /\ not_found' = [not_found EXCEPT ![b] = @ \ {r}]
               /\ \/ UNCHANGED pc
                  \/ pc' = [pc EXCEPT ![b] = "done"] /\ not_found'[b] = {}
            \/ /\ UNCHANGED not_found
               /\ \E r \in not_found[b] : status[r] = "Aborted"
               /\ pc' = [pc EXCEPT ![b] = "aborted"]
<1>1. PICK e \in queue[b] :
        /\ \/ Python!HandlerCompleted(b, e)
           \/ Python!HandlerAborted(b, e)
           \/ Python!HandlerIgnores(b, e)
        /\ IF pc'[b] = "read" THEN Python!Read(b, e) ELSE Python!Unsubscribe(b)
  BY DEF Python!Handle
<1>2. UNCHANGED <<outcome, ends>> /\ pc[b] = "read"
  BY DEF Python!Handle
<1>3. Read(b, e) \/ Unsubscribe(b)
  BY <1>1, SameService
<1>4. ServiceInv(Buckets)' /\ status' = status
  BY <1>3, ShrinkInv DEF PythonInv
<1>5. /\ e.status = "Completed" => WasCompleted(e.id)
      /\ e.status = "Aborted" => status[e.id] = "Aborted"
  BY EventFacts DEF PythonInv
<1>6. CASE Python!HandlerCompleted(b, e)
  <2>1. not_found' = [not_found EXCEPT ![b] = @ \ {e.id}] /\ WasCompleted(e.id)
    BY <1>5, <1>6 DEF Python!HandlerCompleted
  <2>2. \/ UNCHANGED pc
        \/ pc' = [pc EXCEPT ![b] = "done"] /\ not_found[b] = {e.id}
    BY <1>6 DEF Python!HandlerCompleted, Python!Goto
  <2>3. not_found[b] = {e.id} => not_found'[b] = {}
    BY <2>1 DEF PythonInv, Accounts
  <2> QED  BY <1>2, <1>4, <2>1, <2>2, <2>3
<1>7. CASE Python!HandlerAborted(b, e)
  BY <1>2, <1>4, <1>5, <1>7 DEF Python!HandlerAborted, Python!Goto
<1>8. CASE Python!HandlerIgnores(b, e)
  BY <1>2, <1>4, <1>8 DEF Python!HandlerIgnores
<1> QED  BY <1>1, <1>6, <1>7, <1>8

\* The steps of a batch keep the invariant.
LEMMA PythonBatchInv ==
  ASSUME PythonInv, NEW b \in Buckets,
         \/ Python!Start(b) \/ Python!GetEvents(b) \/ Python!Handle(b)
         \/ Python!StreamError(b) \/ Python!StreamEnd(b)
  PROVE  PythonInv' /\ status' = status /\ outcome' = outcome
<1>1. CASE Python!Start(b)
  <2> USE <1>1 DEF Python!Start, Python!Goto
  <2>1. UNCHANGED <<status, sub, queue, not_found, outcome, ends>>
    BY DEF Python!serviceVars
  <2>2. ServiceInv(Buckets)' /\ Accounts(not_found)'
    BY <2>1
    DEF PythonInv, ServiceInv, ServiceTypeOK, TruthfulStreams, WasCompleted, Accounts
  <2>3. PythonEnds'
    BY <2>1 DEF PythonInv, PythonEnds, PythonPCs, WasCompleted
  <2> QED  BY <2>1, <2>2, <2>3 DEF PythonInv
<1>2. CASE Python!GetEvents(b)
  <2> USE <1>2 DEF Python!GetEvents, Python!Goto
  <2>1. Subscribe(b, Bucket(b)) /\ Bucket(b) \in SUBSET Results
    BY SameBuckets, SameService, BucketsCover
  <2>2. ServiceInv(Buckets)' /\ status' = status
    BY <2>1, SubscribeInv DEF PythonInv
  <2>3. Accounts(not_found)'
    BY <2>2 DEF PythonInv, Accounts, WasCompleted
  <2>4. PythonEnds'
    BY <2>2 DEF PythonInv, PythonEnds, PythonPCs, WasCompleted
  <2> QED  BY <2>2, <2>3, <2>4 DEF PythonInv
<1>3. CASE Python!StreamError(b) \/ Python!StreamEnd(b)
  <2> USE <1>3 DEF Python!StreamError, Python!StreamEnd, Python!Goto
  <2>1. Unsubscribe(b)  BY SameService
  <2>2. ServiceInv(Buckets)' /\ status' = status
    BY <2>1, ShrinkInv DEF PythonInv
  <2>3. Accounts(not_found)'
    BY <2>2 DEF PythonInv, Accounts, WasCompleted
  <2>4. CASE Python!StreamError(b)
    BY <2>2, <2>3, <2>4 DEF PythonInv, PythonEnds, PythonPCs, WasCompleted
  <2>5. CASE Python!StreamEnd(b)
    <3>1. ends' \in Nat /\ ends' # 0  BY <2>5 DEF PythonInv, PythonEnds
    <3>2. PythonEnds'
      BY <2>2, <2>5, <3>1 DEF PythonInv, PythonEnds, PythonPCs
    <3> QED  BY <2>2, <2>3, <2>5, <3>2 DEF PythonInv
  <2> QED  BY <2>4, <2>5
<1>4. CASE Python!Handle(b)
  <2>1. /\ ServiceInv(Buckets)' /\ status' = status
        /\ UNCHANGED <<outcome, ends>>
        /\ pc[b] = "read"
    BY <1>4, PythonHandle
  <2>2. CASE UNCHANGED <<pc, not_found>>
    BY <2>1, <2>2 DEF PythonInv, Accounts, PythonEnds, WasCompleted
  <2>3. ASSUME NEW r, WasCompleted(r), not_found' = [not_found EXCEPT ![b] = @ \ {r}],
               \/ UNCHANGED pc
               \/ pc' = [pc EXCEPT ![b] = "done"] /\ not_found'[b] = {}
        PROVE  PythonInv'
    <3>1. Accounts(not_found')  BY <2>3, AccountsFound DEF PythonInv
    <3>2. Accounts(not_found)'  BY <2>1, <3>1 DEF Accounts, WasCompleted
    <3>3. \A a \in Buckets : not_found'[a] \subseteq not_found[a]
      BY <2>3 DEF PythonInv, Accounts
    <3>4. PythonEnds'
      <4>1. pc' \in [Buckets -> PythonPCs] /\ \A a \in Buckets : pc'[a] # "idle" <=> pc[a] # "idle"
        BY <2>1, <2>3 DEF PythonInv, PythonEnds, PythonPCs
      <4>2. ASSUME NEW a \in Buckets
            PROVE  /\ pc'[a] = "done" /\ ends = 0 => not_found'[a] = {}
                   /\ pc'[a] = "aborted" => \E x \in Bucket(a) : status[x] = "Aborted"
        BY <2>1, <2>3, <3>3 DEF PythonInv, PythonEnds
      <4> QED  BY <2>1, <4>1, <4>2 DEF PythonInv, PythonEnds, WasCompleted
    <3> QED  BY <2>1, <3>2, <3>3, <3>4 DEF PythonInv
  <2>4. CASE /\ UNCHANGED not_found
             /\ \E r \in not_found[b] : status[r] = "Aborted"
             /\ pc' = [pc EXCEPT ![b] = "aborted"]
    BY <2>1, <2>4 DEF PythonInv, Accounts, PythonEnds, PythonPCs, WasCompleted
  <2> QED  BY <1>4, <2>1, <2>2, <2>3, <2>4, PythonHandle
<1> QED  BY <1>1, <1>2, <1>3, <1>4

\* The steps of the call itself.
LEMMA PythonCallInv ==
  ASSUME PythonInv, Python!ReturnNormally \/ \E b \in Buckets : Python!Raise(b)
  PROVE  PythonInv'
<1>1. UNCHANGED <<status, sub, queue, not_found, ends>>
  BY DEF Python!ReturnNormally, Python!Raise, Python!serviceVars
<1>2. ServiceInv(Buckets)' /\ Accounts(not_found)'
  BY <1>1
  DEF PythonInv, ServiceInv, ServiceTypeOK, TruthfulStreams, WasCompleted, Accounts
<1>3. CASE Python!ReturnNormally
  <2>1. ends = 0 => \A r \in Awaited : WasCompleted(r)
    BY <1>3, SameBuckets, AccountsClosed DEF Python!ReturnNormally, PythonInv, PythonEnds
  <2> QED
    BY <1>1, <1>2, <1>3, <2>1 DEF Python!ReturnNormally, PythonInv, PythonEnds, WasCompleted
<1>4. ASSUME NEW b \in Buckets, Python!Raise(b) PROVE PythonInv'
  <2>1. /\ outcome' = "aborted" /\ pc[b] = "aborted"
        /\ pc' = [a \in Buckets |-> IF pc[a] = "idle" THEN "cancelled" ELSE pc[a]]
    BY <1>4, SameBuckets DEF Python!Raise
  <2>2. \E r \in Awaited : status[r] = "Aborted"
    BY <2>1, BucketsCover DEF PythonInv, PythonEnds
  <2> QED
    BY <1>1, <1>2, <2>1, <2>2 DEF PythonInv, PythonEnds, PythonPCs
<1> QED  BY <1>3, <1>4

\* The invariant is inductive.
LEMMA PythonNextInv == PythonInv /\ [Python!Next]_(Python!vars) => PythonInv'
<1> SUFFICES ASSUME PythonInv, [Python!Next]_(Python!vars) PROVE PythonInv'
  OBVIOUS
<1>1. CASE Python!Service  BY <1>1, PythonServiceInv
<1>2. ASSUME NEW b \in Buckets,
             \/ Python!Start(b) \/ Python!GetEvents(b) \/ Python!Handle(b)
             \/ Python!StreamError(b) \/ Python!StreamEnd(b)
      PROVE  PythonInv'
  BY <1>2, PythonBatchInv
<1>3. CASE Python!ReturnNormally \/ \E b \in Buckets : Python!Raise(b)
  BY <1>3, PythonCallInv
<1>4. CASE UNCHANGED Python!vars
  <2>1. UNCHANGED <<status, sub, queue, pc, not_found, outcome, ends>>
    BY <1>4 DEF Python!vars, Python!serviceVars
  <2>2. ServiceInv(Buckets)' /\ Accounts(not_found)'
    BY <2>1
    DEF PythonInv, ServiceInv, ServiceTypeOK, TruthfulStreams, WasCompleted, Accounts
  <2> QED  BY <2>1, <2>2 DEF PythonInv, PythonEnds, WasCompleted
<1> QED  BY <1>1, <1>2, <1>3, <1>4, SameBuckets DEF Python!Next

\* The invariant holds in every reachable state.
LEMMA PythonInvariant == Python!Spec => []PythonInv
  BY PythonInitInv, PythonNextInv, PTL DEF Python!Spec

\* wait_for_result_availability returns with a result missing only if the
\* service ended a stream: however many streams fail, none is forgotten.
THEOREM PythonEarlyReturnNeedsEnd == Python!Spec => []Python!EarlyReturnNeedsEnd
<1>1. PythonInv => Python!EarlyReturnNeedsEnd
  BY SameBuckets
  DEF PythonInv, PythonEnds, Python!EarlyReturnNeedsEnd, Python!WasCompleted, WasCompleted
<1> QED  BY <1>1, PythonInvariant, PTL

\* The error is raised only for an awaited result that is aborted, and no
\* batch that had not begun begins afterwards.
THEOREM PythonAbortStopsTheRest == Python!Spec => Python!AbortStopsTheRest
<1>1. ASSUME PythonInv, [Python!Next]_(Python!vars)
      PROVE  /\ outcome' = "aborted" => \E r \in Awaited : status[r] = "Aborted"
             /\ outcome = "aborted" =>
                  \A b \in Buckets : pc[b] \in {"idle", "cancelled"} => pc'[b] = pc[b]
  <2>1. CASE Python!Service \/ Python!ReturnNormally \/ UNCHANGED Python!vars
    BY <1>1, <2>1
    DEF Python!Service, Python!ReturnNormally, Python!vars, PythonInv, PythonEnds
  <2>2. ASSUME NEW a \in Buckets, Python!Raise(a)
        PROVE  outcome # "aborted" /\ \E r \in Awaited : status[r] = "Aborted"
    BY <1>1, <2>2, BucketsCover DEF Python!Raise, PythonInv, PythonEnds
  <2>3. ASSUME NEW a \in Buckets,
               \/ Python!Start(a) \/ Python!GetEvents(a) \/ Python!Handle(a)
               \/ Python!StreamError(a) \/ Python!StreamEnd(a)
        PROVE  /\ outcome' = outcome
               /\ outcome = "aborted" =>
                    \A b \in Buckets : pc[b] \in {"idle", "cancelled"} => pc'[b] = pc[b]
    <3>1. outcome' = outcome  BY <1>1, <2>3, PythonBatchInv
    <3>2. CASE Python!Start(a)
      BY <1>1, <3>1, <3>2 DEF Python!Start, PythonInv, PythonEnds
    <3>3. CASE Python!GetEvents(a) \/ Python!StreamError(a) \/ Python!StreamEnd(a)
      BY <1>1, <3>1, <3>3
      DEF Python!GetEvents, Python!StreamError, Python!StreamEnd, Python!Goto,
          PythonInv, PythonEnds
    <3>4. CASE Python!Handle(a)
      BY <1>1, <3>1, <3>4, PythonHandle DEF PythonInv, PythonEnds
    <3> QED  BY <2>3, <3>2, <3>3, <3>4, <3>1
  <2> QED  BY <1>1, <2>1, <2>2, <2>3, SameBuckets DEF Python!Next, PythonInv, PythonEnds
<1>2. PythonInv /\ [Python!Next]_(Python!vars) =>
        [/\ outcome' = "aborted" => \E r \in Python!Awaited : status[r] = "Aborted"
         /\ outcome = "aborted" =>
              \A b \in Python!Buckets :
                pc[b] \in {"idle", "cancelled"} => pc'[b] = pc[b]]_(Python!vars)
  BY <1>1, SameBuckets
<1> QED  BY <1>2, PythonInvariant, PTL DEF Python!Spec, Python!AbortStopsTheRest

\* A batch that reads misses something, and its stream covers and still
\* announces all that it misses.
PythonWatching ==
  \A b \in Buckets : pc[b] = "read" =>
    /\ not_found[b] # {}
    /\ \A r \in not_found[b] : r \in sub[b] /\ Announced(b, r)

\* A step of batch b keeps its own news.
LEMMA PythonOwnWatched ==
  ASSUME PythonInv, PythonWatching, NEW b \in Buckets,
         \/ Python!Start(b) \/ Python!GetEvents(b) \/ Python!Handle(b)
         \/ Python!StreamError(b) \/ Python!StreamEnd(b),
         pc'[b] = "read"
  PROVE  /\ not_found'[b] # {}
         /\ \A r \in not_found'[b] : r \in sub'[b] /\ Announced(b, r)'
<1> USE DEF PythonInv, PythonEnds, Accounts
<1>1. CASE Python!Start(b) \/ Python!StreamError(b) \/ Python!StreamEnd(b)
  BY <1>1 DEF Python!Start, Python!StreamError, Python!StreamEnd, Python!Goto
<1>2. CASE Python!GetEvents(b)
  <2>1. Subscribe(b, Bucket(b)) /\ Bucket(b) \in SUBSET Results
    BY <1>2, SameBuckets, SameService, BucketsCover DEF Python!GetEvents
  <2>2. not_found' = not_found /\ not_found[b] # {} /\ not_found[b] \subseteq Bucket(b)
    BY <1>2 DEF Python!GetEvents
  <2>3. \A r \in Bucket(b) : r \in sub'[b] /\ Announced(b, r)'
    BY <2>1, AnnouncedSnapshot
  <2> QED  BY <2>2, <2>3
<1>3. CASE Python!Handle(b)
  <2>1. PICK e \in queue[b] :
          /\ \/ Python!HandlerCompleted(b, e)
             \/ Python!HandlerAborted(b, e)
             \/ Python!HandlerIgnores(b, e)
          /\ IF pc'[b] = "read" THEN Python!Read(b, e) ELSE Python!Unsubscribe(b)
    BY <1>3 DEF Python!Handle
  <2>2. Read(b, e)
    BY <2>1, SameService
  <2>3. not_found[b] # {} /\ \A r \in not_found[b] : r \in sub[b] /\ Announced(b, r)
    BY <1>3 DEF Python!Handle, PythonWatching
  <2>4. CASE Python!HandlerCompleted(b, e)
    <3>1. not_found'[b] = not_found[b] \ {e.id} /\ not_found[b] # {e.id}
      BY <2>4 DEF Python!HandlerCompleted, Python!Goto
    <3>2. \A r \in not_found'[b] : r \in sub'[b] /\ Announced(b, r)'
      BY <2>2, <2>3, <3>1, AnnouncedRead
    <3> QED  BY <2>3, <3>1, <3>2
  <2>5. CASE Python!HandlerAborted(b, e)
    BY <2>5 DEF Python!HandlerAborted, Python!Goto
  <2>6. CASE Python!HandlerIgnores(b, e)
    <3>1. /\ not_found' = not_found
          /\ e.id \notin not_found[b] \/ e.status \notin {"Completed", "Aborted"}
      BY <2>6 DEF Python!HandlerIgnores
    <3>2. \A r \in not_found[b] : r \in sub'[b] /\ Announced(b, r)'
      BY <2>2, <2>3, <3>1, AnnouncedRead
    <3> QED  BY <2>3, <3>1, <3>2
  <2> QED  BY <2>1, <2>4, <2>5, <2>6
<1> QED  BY <1>1, <1>2, <1>3

\* It leaves the news of the other batches alone.
LEMMA PythonOtherWatched ==
  ASSUME PythonInv, PythonWatching, NEW b \in Buckets, NEW a \in Buckets \ {b},
         \/ Python!Start(b) \/ Python!GetEvents(b) \/ Python!Handle(b)
         \/ Python!StreamError(b) \/ Python!StreamEnd(b),
         pc'[a] = "read"
  PROVE  /\ not_found'[a] # {}
         /\ \A r \in not_found'[a] : r \in sub'[a] /\ Announced(a, r)'
<1>1. pc[a] = "read" /\ not_found'[a] = not_found[a]
  BY DEF Python!Start, Python!GetEvents, Python!Handle, Python!HandlerCompleted,
         Python!HandlerAborted, Python!HandlerIgnores, Python!StreamError,
         Python!StreamEnd, Python!Goto, PythonInv, PythonEnds, Accounts
<1>2. CASE UNCHANGED <<status, sub, queue>>
  BY <1>1, <1>2 DEF PythonWatching, Announced
<1>3. CASE \E ids, e : Subscribe(b, ids) \/ Read(b, e) \/ Unsubscribe(b)
  <2>1. \A r : Announced(a, r) => sub'[a] = sub[a] /\ Announced(a, r)'
    BY <1>3, AnnouncedElsewhere DEF PythonInv
  <2> QED  BY <1>1, <2>1 DEF PythonWatching
<1> QED
  BY <1>2, <1>3, SameService
  DEF Python!Start, Python!GetEvents, Python!Handle, Python!StreamError,
      Python!StreamEnd, Python!serviceVars

\* PythonWatching is preserved by every step.
LEMMA PythonWatchingNext ==
  PythonInv /\ PythonWatching /\ [Python!Next]_(Python!vars) => PythonWatching'
<1> SUFFICES ASSUME PythonInv, PythonWatching, [Python!Next]_(Python!vars)
             PROVE  PythonWatching'
  OBVIOUS
<1>1. CASE Python!Service
  <2>1. UNCHANGED <<pc, not_found>> /\ ServiceNext
    BY <1>1, SameService DEF Python!Service
  <2> QED  BY <2>1, AnnouncedChange DEF PythonWatching, PythonInv
<1>2. ASSUME NEW b \in Buckets,
             \/ Python!Start(b) \/ Python!GetEvents(b) \/ Python!Handle(b)
             \/ Python!StreamError(b) \/ Python!StreamEnd(b)
      PROVE  PythonWatching'
  BY <1>2, PythonOwnWatched, PythonOtherWatched DEF PythonWatching
<1>3. ASSUME NEW b \in Buckets, Python!Raise(b) PROVE PythonWatching'
  BY <1>3, SameBuckets
  DEF Python!Raise, Python!serviceVars, PythonWatching, Announced, PythonInv, PythonEnds
<1>4. CASE Python!ReturnNormally \/ UNCHANGED Python!vars
  BY <1>4
  DEF Python!ReturnNormally, Python!vars, Python!serviceVars, PythonWatching, Announced
<1> QED  BY <1>1, <1>2, <1>3, <1>4, SameBuckets DEF Python!Next

\* The Python wait never overlooks the end of a result: the event of each
\* settled id that a reading batch misses is still ahead in its stream.
THEOREM PythonNothingIsMissed == Python!Spec => []Python!NothingMissed
<1>1. Python!Init => PythonWatching
  BY SameBuckets DEF Python!Init, PythonWatching
<1>2. PythonWatching => Python!NothingMissed
  BY SameBuckets DEF PythonWatching, Python!NothingMissed, Python!Announced, Announced
<1> QED  BY <1>1, <1>2, PythonWatchingNext, PythonInvariant, PTL DEF Python!Spec

\* The Python wait implements the abstract wait, with a stream that the
\* service ended in the place of a caller that gave up.
THEOREM PythonImplementation == Python!Spec => Python!ImplementsResultWait
<1>1. Python!Init => Python!Promise!Init
  BY DEF Python!Init, Python!ServiceInit, Python!Statuses, Python!Promise!Init
<1>2. PythonInv /\ [Python!Next]_(Python!vars) =>
        [Python!Promise!Next]_<<status, ends > 0, outcome>>
  <2> SUFFICES ASSUME PythonInv, [Python!Next]_(Python!vars)
               PROVE  \/ Python!Promise!Next
                      \/ UNCHANGED <<status, ends, outcome>>
    OBVIOUS
  <2>1. CASE Python!Service
    <3>1. PICK r \in Results, s \in Statuses : ChangeStatus(r, s)
      BY <2>1, SameService DEF Python!Service, ServiceNext
    <3>2. s # "Created"  BY <3>1 DEF ChangeStatus, Lifecycle
    <3>3. Python!Promise!Evolve
      BY <2>1, <3>1, <3>2
      DEF Python!Promise!Evolve, Python!Promise!Lifecycle, ChangeStatus, Lifecycle,
          Statuses, Python!Service
    <3> QED  BY <3>3 DEF Python!Promise!Next
  <2>2. ASSUME NEW b \in Buckets,
               Python!Start(b) \/ Python!GetEvents(b) \/ Python!Handle(b) \/ Python!StreamError(b)
        PROVE  UNCHANGED <<status, ends, outcome>>
    <3>1. status' = status /\ outcome' = outcome
      BY <2>2, PythonBatchInv
    <3>2. ends' = ends
      BY <2>2 DEF Python!Start, Python!GetEvents, Python!Handle, Python!StreamError
    <3> QED  BY <3>1, <3>2
  <2>3. ASSUME NEW b \in Buckets, Python!StreamEnd(b)
        PROVE  Python!Promise!Next
    <3>1. status' = status /\ outcome' = outcome
      BY <2>3, PythonBatchInv
    <3>2. ends' > 0
      BY <2>3 DEF Python!StreamEnd, PythonInv, PythonEnds
    <3>3. Python!Promise!Cancel
      BY <3>1, <3>2 DEF Python!Promise!Cancel
    <3> QED  BY <3>3 DEF Python!Promise!Next
  <2>4. CASE Python!ReturnNormally
    <3>1. ends = 0 => \A r \in Awaited : WasCompleted(r)
      BY <2>4, SameBuckets, AccountsClosed DEF Python!ReturnNormally, PythonInv, PythonEnds
    <3>2. ends > 0 \/ \A r \in Python!Awaited : status[r] \in {"Completed", "Deleted"}
      BY <3>1, SameBuckets DEF WasCompleted, PythonInv, PythonEnds
    <3>3. Python!Promise!Return
      BY <2>4, <3>2 DEF Python!ReturnNormally, Python!serviceVars, Python!Promise!Return
    <3> QED  BY <3>3 DEF Python!Promise!Next
  <2>5. ASSUME NEW b \in Buckets, Python!Raise(b)
        PROVE  Python!Promise!Next
    <3>1. \E r \in Python!Awaited : status[r] = "Aborted"
      BY <2>5, SameBuckets, BucketsCover DEF Python!Raise, PythonInv, PythonEnds
    <3>2. Python!Promise!FailAborted
      BY <2>5, <3>1 DEF Python!Raise, Python!serviceVars, Python!Promise!FailAborted
    <3> QED  BY <3>2 DEF Python!Promise!Next
  <2>6. CASE UNCHANGED Python!vars
    BY <2>6 DEF Python!vars, Python!serviceVars
  <2> QED  BY <2>1, <2>2, <2>3, <2>4, <2>5, <2>6, SameBuckets DEF Python!Next
<1> QED
  BY <1>1, <1>2, PythonInvariant, PTL
  DEF Python!Spec, Python!ImplementsResultWait, Python!Promise!Spec

-----------------------------------------------------------------------------
(* The C++ wait.                                                           *)

\* Every id that was erased was completed, and without a failed Read the
\* call returns only when none is left.
CppInv ==
  /\ ServiceInv({Cpp!Reader})
  /\ CppAwaited \subseteq Results
  /\ \A r \in CppAwaited \ result_ids : WasCompleted(r)
  /\ outcome = "ok" /\ ~broken => result_ids = {}

\* The first states: every id is still awaited.
LEMMA CppInitInv == Cpp!CppAssumption /\ Cpp!Init => CppInv
<1> SUFFICES ASSUME Cpp!CppAssumption, Cpp!Init PROVE CppInv
  OBVIOUS
<1>1. ServiceInit({Cpp!Reader})
  BY DEF Cpp!Init, Cpp!ServiceInit, ServiceInit, Cpp!Statuses, Statuses
<1>2. ServiceInv({Cpp!Reader})  BY <1>1, ServiceInitInv
<1> QED  BY <1>2 DEF Cpp!Init, Cpp!CppAssumption, CppInv

\* The invariant is inductive.
LEMMA CppNextInv == CppInv /\ [Cpp!Next]_(Cpp!vars) => CppInv'
<1> SUFFICES ASSUME CppInv, [Cpp!Next]_(Cpp!vars) PROVE CppInv'
  OBVIOUS
<1> DEFINE Reader == Cpp!Reader
<1>1. CASE Cpp!Service
  <2>1. ServiceNext
    BY <1>1
    DEF Cpp!Service, Cpp!ServiceNext, ServiceNext, Cpp!ChangeStatus, ChangeStatus,
        Cpp!Lifecycle, Lifecycle, Cpp!Statuses, Statuses, Cpp!Event, Event
  <2>2. ServiceInv({Reader})' /\ Settled  BY <2>1, ServiceNextInv DEF CppInv
  <2> QED  BY <1>1, <2>2 DEF Cpp!Service, CppInv, Settled
<1>2. CASE Cpp!GetEvents
  <2> DEFINE ids == IF CppAwaited = {} THEN Results ELSE CppAwaited
  <2>1. Subscribe(Reader, ids) /\ ids \in SUBSET Results
    BY <1>2 DEF Cpp!GetEvents, Cpp!Subscribe, Subscribe, Cpp!Event, Event, CppInv
  <2> HIDE DEF ids
  <2>2. ServiceInv({Reader})' /\ status' = status
    BY <2>1, SubscribeInv DEF CppInv
  <2> QED  BY <1>2, <2>2 DEF Cpp!GetEvents, CppInv, WasCompleted
<1>3. CASE Cpp!ReadEvent
  <2>1. PICK e \in queue[Reader] : Cpp!EraseCompleted(e) \/ Cpp!SkipEvent(e)
    BY <1>3 DEF Cpp!ReadEvent
  <2>2. UNCHANGED broken  BY <1>3 DEF Cpp!ReadEvent
  <2>3. Read(Reader, e) \/ Unsubscribe(Reader)
    BY <2>1
    DEF Cpp!EraseCompleted, Cpp!SkipEvent, Cpp!Read, Read, Cpp!Unsubscribe, Unsubscribe
  <2>4. ServiceInv({Reader})' /\ status' = status
    BY <2>3, ShrinkInv DEF CppInv
  <2>5. e.status = "Completed" => WasCompleted(e.id)
    BY EventFacts DEF CppInv
  <2>6. CASE Cpp!EraseCompleted(e)
    BY <2>2, <2>4, <2>5, <2>6 DEF Cpp!EraseCompleted, CppInv, WasCompleted
  <2>7. CASE Cpp!SkipEvent(e)
    BY <2>2, <2>4, <2>7 DEF Cpp!SkipEvent, CppInv, WasCompleted
  <2> QED  BY <2>1, <2>6, <2>7
<1>4. CASE Cpp!ReadFails
  <2>1. Unsubscribe(Reader)  BY <1>4 DEF Cpp!ReadFails, Cpp!Unsubscribe, Unsubscribe
  <2>2. ServiceInv({Reader})' /\ status' = status  BY <2>1, ShrinkInv DEF CppInv
  <2> QED  BY <1>4, <2>2 DEF Cpp!ReadFails, CppInv, WasCompleted
<1>5. CASE Cpp!NoStream \/ UNCHANGED Cpp!vars
  <2>1. UNCHANGED <<status, sub, queue, result_ids, broken>>
    BY <1>5 DEF Cpp!NoStream, Cpp!vars, Cpp!serviceVars
  <2>2. ServiceInv({Reader})'
    BY <2>1 DEF CppInv, ServiceInv, ServiceTypeOK, TruthfulStreams, WasCompleted
  <2> QED  BY <1>5, <2>1, <2>2 DEF Cpp!NoStream, Cpp!vars, CppInv, WasCompleted
<1> QED  BY <1>1, <1>2, <1>3, <1>4, <1>5 DEF Cpp!Next

\* The C++ wait returns with a result missing only after a failed Read: an
\* aborted result, whose error is only logged, is never taken for a completed
\* one.
THEOREM CppEarlyReturnNeedsBreak ==
  ASSUME Cpp!CppAssumption
  PROVE  Cpp!Spec => []Cpp!EarlyReturnNeedsBreak
<1>1. Cpp!Init => CppInv  BY CppInitInv
<1>2. CppInv => Cpp!EarlyReturnNeedsBreak
  BY DEF CppInv, Cpp!EarlyReturnNeedsBreak, Cpp!WasCompleted, WasCompleted
<1> QED  BY <1>1, <1>2, CppNextInv, PTL DEF Cpp!Spec

\* The open stream covers and still announces every id that is left, the
\* aborted ones apart, and ids are left if any were given.
CppWatching ==
  /\ result_ids \subseteq CppAwaited
  /\ outcome = "start" => result_ids = CppAwaited
  /\ outcome = "running" =>
       /\ CppAwaited # {} => result_ids # {}
       /\ \A r \in result_ids :
            /\ r \in sub[Cpp!Reader]
            /\ status[r] # "Aborted" => Announced(Cpp!Reader, r)

\* CppWatching is preserved by every step.
LEMMA CppWatchingNext == CppInv /\ CppWatching /\ [Cpp!Next]_(Cpp!vars) => CppWatching'
<1> SUFFICES ASSUME CppInv, CppWatching, [Cpp!Next]_(Cpp!vars) PROVE CppWatching'
  OBVIOUS
<1> DEFINE Reader == Cpp!Reader
<1>1. CASE Cpp!Service
  <2>1. ServiceNext
    BY <1>1
    DEF Cpp!Service, Cpp!ServiceNext, ServiceNext, Cpp!ChangeStatus, ChangeStatus,
        Cpp!Lifecycle, Lifecycle, Cpp!Statuses, Statuses, Cpp!Event, Event
  <2>2. Settled /\ UNCHANGED <<result_ids, outcome, sub>>
    BY <1>1, <2>1, ServiceNextInv DEF CppInv, Cpp!Service, ServiceNext, ChangeStatus
  <2>3. ASSUME outcome = "running", NEW r \in result_ids, status'[r] # "Aborted"
        PROVE  Announced(Reader, r)'
    <3>1. r \in Results  BY DEF CppInv, CppWatching
    <3>2. status[r] # "Aborted"  BY <2>2, <2>3, <3>1 DEF Settled
    <3>3. r \in sub[Reader] /\ Announced(Reader, r)  BY <2>3, <3>2 DEF CppWatching
    <3> QED  BY <2>1, <3>3, AnnouncedChange DEF CppInv
  <2> QED  BY <2>2, <2>3 DEF CppWatching
<1>2. CASE Cpp!GetEvents
  <2> DEFINE ids == IF CppAwaited = {} THEN Results ELSE CppAwaited
  <2>1. Subscribe(Reader, ids) /\ ids \in SUBSET Results
    BY <1>2 DEF Cpp!GetEvents, Cpp!Subscribe, Subscribe, Cpp!Event, Event, CppInv
  <2>2. CppAwaited \subseteq ids  BY DEF CppInv
  <2> HIDE DEF ids
  <2>3. \A r \in CppAwaited : r \in sub'[Reader] /\ Announced(Reader, r)'
    BY <2>1, <2>2, AnnouncedSnapshot DEF CppInv
  <2> QED  BY <1>2, <2>3 DEF Cpp!GetEvents, CppWatching
<1>3. CASE Cpp!ReadEvent
  <2>1. PICK e \in queue[Reader] : Cpp!EraseCompleted(e) \/ Cpp!SkipEvent(e)
    BY <1>3 DEF Cpp!ReadEvent
  <2>2. outcome = "running"  BY <1>3 DEF Cpp!ReadEvent
  <2>3. CASE Cpp!EraseCompleted(e) /\ result_ids' = {}
    BY <2>3 DEF Cpp!EraseCompleted, CppWatching
  <2>4. CASE Cpp!EraseCompleted(e) /\ result_ids' # {}
    <3>1. /\ Read(Reader, e) /\ outcome' = outcome
          /\ result_ids' = result_ids \ {e.id}
      BY <2>4 DEF Cpp!EraseCompleted, Cpp!Read, Read
    <3>2. sub' = sub /\ status' = status
      BY <3>1 DEF Read
    <3>3. \A r \in result_ids' : Announced(Reader, r) => Announced(Reader, r)'
      BY <3>1, AnnouncedRead DEF CppInv
    <3> QED  BY <2>2, <2>4, <3>1, <3>2, <3>3 DEF CppWatching
  <2>5. CASE Cpp!SkipEvent(e)
    <3>1. /\ Read(Reader, e) /\ UNCHANGED <<outcome, result_ids>>
          /\ e.status # "Completed"
      BY <2>5 DEF Cpp!SkipEvent, Cpp!Read, Read
    <3>2. sub' = sub /\ status' = status
      BY <3>1 DEF Read
    <3>3. e.status = "Aborted" => status[e.id] = "Aborted"
      BY EventFacts DEF CppInv
    <3>4. \A r \in result_ids : status[r] # "Aborted" /\ Announced(Reader, r)
                                 => Announced(Reader, r)'
      BY <3>1, <3>3, AnnouncedRead DEF CppInv
    <3> QED  BY <3>1, <3>2, <3>4 DEF CppWatching
  <2> QED  BY <2>1, <2>3, <2>4, <2>5
<1>4. CASE Cpp!ReadFails \/ Cpp!NoStream
  BY <1>4 DEF Cpp!ReadFails, Cpp!NoStream, CppWatching
<1>5. CASE UNCHANGED Cpp!vars
  BY <1>5 DEF Cpp!vars, Cpp!serviceVars, CppWatching, Announced
<1> QED  BY <1>1, <1>2, <1>3, <1>4, <1>5 DEF Cpp!Next

\* The C++ wait never overlooks the completion of a result: while it reads,
\* the event of each completed id that is left is still ahead, and some id is
\* left if any was given.
THEOREM CppNothingIsMissed ==
  ASSUME Cpp!CppAssumption
  PROVE  Cpp!Spec => []Cpp!NothingMissed
<1>1. Cpp!Init => CppInv /\ CppWatching
  BY CppInitInv DEF Cpp!Init, CppWatching
<1>2. CppWatching => Cpp!NothingMissed
  BY DEF CppWatching, Cpp!NothingMissed, Cpp!Announced, Announced
<1> QED  BY <1>1, <1>2, CppNextInv, CppWatchingNext, PTL DEF Cpp!Spec
=============================================================================
