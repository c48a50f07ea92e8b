----------------------- MODULE CsWaitForResultsProof ------------------------
(***************************************************************************)
(* Proofs about WaitForResultsAsync for every set of results, every list   *)
(* of ids, bucket size, parallelism and retry limit.                       *)
(***************************************************************************)
EXTENDS CsWaitForResults, TLAPS

\* Each bucket keeps its ids in two disjoint lists, and those in the second
\* were completed.
Accounting ==
  \A b \in Buckets :
    /\ resultsCompleted[b] \cap resultsNotFound[b] = {}
    /\ resultsCompleted[b] \cup resultsNotFound[b] = Bucket(b)
    /\ \A r \in resultsCompleted[b] : WasCompleted(r)

\* Why a bucket ended.
EndReasons ==
  \A b \in Buckets :
    /\ pc[b] = "done" => resultsNotFound[b] = {} \/ cts
    /\ pc[b] = "aborted" => /\ abortedId[b] \in resultsNotFound[b]
                            /\ status[abortedId[b]] = "Aborted"
    /\ pc[b] = "rpc" => retryCount[b] > RetryLimit
    /\ pc[b] # "rpc" => retryCount[b] <= RetryLimit

\* cts is cancelled by the caller or by the failure of the call.
CancelReasons ==
  /\ token => cts
  /\ cts => token \/ outcome \in {"aborted", "rpc"}

\* Every failure that retryCount remembers really happened.
RetriesReal == ~token => \A b \in Buckets : retryCount[b] <= faults

IInv ==
  /\ TypeOK
  /\ TruthfulStreams
  /\ Accounting
  /\ EndReasons
  /\ CancelReasons
  /\ RetriesReal
  /\ ReturnsComplete

\* Cutting the list of ids into buckets neither loses nor invents an id.
LEMMA BucketsCover ==
  /\ Awaited \subseteq Results
  /\ \A b \in Buckets : Bucket(b) \subseteq Awaited
  /\ \A r \in Awaited : \E b \in Buckets : r \in Bucket(b)
<1>1. \A i \in DOMAIN ResultIds : ResultIds[i] \in Results
  BY CsAssumption
<1>2. \A i \in DOMAIN ResultIds :
        BucketOf(i) \in Buckets /\ ResultIds[i] \in Bucket(BucketOf(i))
  BY DEF Buckets, Bucket
<1>3. QED
  BY <1>1, <1>2 DEF Awaited, Bucket

\* The initial states satisfy the invariant.
LEMMA InitInv == Init => IInv
<1>1. SUFFICES ASSUME Init PROVE IInv
  OBVIOUS
<1>2. \A b \in Buckets : Bucket(b) \subseteq Results
  BY BucketsCover
<1>3. TypeOK
  <2>1. ServiceTypeOK(Buckets)
    BY <1>1 DEF Init, ServiceInit, ServiceTypeOK
  <2>2. /\ pc \in [Buckets -> PCs]
        /\ resultsNotFound \in [Buckets -> SUBSET Results]
        /\ resultsCompleted \in [Buckets -> SUBSET Results]
        /\ abortedId \in [Buckets -> Results \cup {NoId}]
    BY <1>1, <1>2 DEF Init, PCs
  <2>3. retryCount \in [Buckets -> 0 .. RetryLimit + 1] /\ faults \in 0 .. MaxFaults
    BY <1>1, CsAssumption DEF Init
  <2>4. token \in BOOLEAN /\ cts \in BOOLEAN /\ outcome \in Outcomes
    BY <1>1 DEF Init, Outcomes
  <2>5. QED
    BY <2>1, <2>2, <2>3, <2>4 DEF TypeOK
<1>4. TruthfulStreams
  BY <1>1 DEF Init, ServiceInit, TruthfulStreams
<1>5. Accounting /\ EndReasons /\ CancelReasons /\ RetriesReal /\ ReturnsComplete
  BY <1>1, CsAssumption
  DEF Init, Accounting, EndReasons, CancelReasons, RetriesReal, ReturnsComplete
<1>6. QED
  BY <1>3, <1>4, <1>5 DEF IInv

\* A status change keeps terminal statuses and is announced truthfully.
LEMMA ServiceInv == IInv /\ Service => IInv'
<1>1. SUFFICES ASSUME IInv, Service PROVE IInv'
  OBVIOUS
<1>2. PICK r \in Results, s \in Statuses : ChangeStatus(r, s)
  BY <1>1 DEF Service, ServiceNext
<1>3. UNCHANGED <<pc, resultsNotFound, resultsCompleted, retryCount, abortedId,
                  token, cts, outcome, faults>>
  BY <1>1 DEF Service, localVars, callVars
<1>4. \A x \in Results : /\ WasCompleted(x) => WasCompleted(x)'
                         /\ status[x] = "Aborted" => status'[x] = "Aborted"
  BY <1>1, <1>2
  DEF IInv, TypeOK, ServiceTypeOK, ChangeStatus, WasCompleted, Lifecycle
<1>5. TypeOK'
  <2>1. status' \in [Results -> Statuses]
    BY <1>1, <1>2 DEF ChangeStatus, IInv, TypeOK, ServiceTypeOK
  <2>2. queue' \in [Buckets -> SUBSET Events]
    BY <1>1, <1>2
    DEF ChangeStatus, IInv, TypeOK, ServiceTypeOK, Events, Event, Kinds
  <2>3. QED
    BY <1>1, <1>2, <1>3, <2>1, <2>2 DEF ChangeStatus, IInv, TypeOK, ServiceTypeOK
<1>6. TruthfulStreams'
  <2>1. SUFFICES ASSUME NEW c \in Buckets, NEW e \in queue'[c]
                 PROVE /\ e.status = "Completed" => WasCompleted(e.id)'
                       /\ e.status = "Aborted" => status'[e.id] = "Aborted"
    BY <1>5 DEF TruthfulStreams, TypeOK, ServiceTypeOK
  <2>2. CASE e \in queue[c]
    <3>1. e.id \in Results
      BY <1>1, <2>2 DEF IInv, TypeOK, ServiceTypeOK, Events
    <3>2. QED
      BY <1>1, <1>4, <2>2, <3>1 DEF IInv, TruthfulStreams, TypeOK, ServiceTypeOK
  <2>3. CASE e = Event("ResultStatusUpdate", r, s)
    BY <1>1, <1>2, <2>3
    DEF Event, ChangeStatus, WasCompleted, IInv, TypeOK, ServiceTypeOK
  <2>4. QED
    BY <1>1, <1>2, <2>1, <2>2, <2>3 DEF ChangeStatus, IInv, TypeOK, ServiceTypeOK
<1>7. Accounting' /\ EndReasons' /\ RetriesReal'
  BY <1>1, <1>3, <1>4
  DEF IInv, TypeOK, Accounting, EndReasons, RetriesReal
<1>8. CancelReasons' /\ ReturnsComplete'
  BY <1>1, <1>3, <1>4, BucketsCover DEF IInv, CancelReasons, ReturnsComplete
<1>9. QED
  BY <1>5, <1>6, <1>7, <1>8 DEF IInv

\* Steps of a bucket that only move its program counter.
LEMMA MoveInv ==
  ASSUME IInv, NEW b \in Buckets,
         Start(b) \/ Check(b)
  PROVE  IInv'
<1>1. UNCHANGED <<serviceVars, resultsNotFound, resultsCompleted, retryCount,
                  abortedId, token, cts, outcome, faults>>
  BY DEF Start, Check, localVars, callVars
<1>2. /\ pc' \in [Buckets -> PCs]
      /\ \A a \in Buckets \ {b} : pc'[a] = pc[a]
      /\ pc[b] # "rpc"
      /\ pc'[b] \in {"check", "connect", "done"}
      /\ pc'[b] = "done" => resultsNotFound[b] = {} \/ cts
  BY DEF IInv, TypeOK, Start, Check, Goto, PCs, Active, Ended
<1>3. TypeOK'
  BY <1>1, <1>2 DEF IInv, TypeOK, ServiceTypeOK, serviceVars
<1>4. TruthfulStreams' /\ Accounting' /\ CancelReasons' /\ RetriesReal' /\ ReturnsComplete'
  BY <1>1
  DEF IInv, TruthfulStreams, Accounting, CancelReasons, RetriesReal,
      ReturnsComplete, serviceVars, WasCompleted
<1>5. EndReasons'
  BY <1>1, <1>2 DEF IInv, EndReasons, serviceVars
<1>6. QED
  BY <1>3, <1>4, <1>5 DEF IInv

\* A new stream carries a truthful snapshot and resets the retry count.
LEMMA HeadersInv ==
  ASSUME IInv, NEW b \in Buckets, HeadersReceived(b)
  PROVE  IInv'
<1>1. /\ UNCHANGED <<status, resultsNotFound, resultsCompleted, abortedId,
                     token, cts, outcome, faults>>
      /\ pc[b] = "connect"
      /\ pc' = [pc EXCEPT ![b] = "read"]
      /\ retryCount' = [retryCount EXCEPT ![b] = 0]
  BY DEF HeadersReceived, Subscribe, callVars, Goto
<1>2. PICK covered \in {resultsNotFound[b], Results} :
        /\ sub' = [sub EXCEPT ![b] = covered]
        /\ queue' = [queue EXCEPT ![b] =
                       {Event("NewResult", r, status[r]) : r \in covered}]
  BY DEF HeadersReceived, Subscribe
<1>3. covered \subseteq Results
  BY <1>2 DEF IInv, TypeOK
<1>4. TypeOK'
  <2>1. ServiceTypeOK(Buckets)'
    BY <1>1, <1>2, <1>3
    DEF IInv, TypeOK, ServiceTypeOK, Events, Event, Kinds
  <2>2. pc' \in [Buckets -> PCs] /\ retryCount' \in [Buckets -> 0 .. RetryLimit + 1]
    BY <1>1, CsAssumption DEF IInv, TypeOK, PCs, Active
  <2>3. QED
    BY <1>1, <2>1, <2>2 DEF IInv, TypeOK
<1>5. TruthfulStreams'
  <2>1. SUFFICES ASSUME NEW c \in Buckets, NEW e \in queue'[c]
                 PROVE /\ e.status = "Completed" => WasCompleted(e.id)
                       /\ e.status = "Aborted" => status[e.id] = "Aborted"
    BY <1>1, <1>4 DEF TruthfulStreams, TypeOK, ServiceTypeOK, WasCompleted
  <2>2. CASE c = b
    <3>1. PICK r \in covered : e = Event("NewResult", r, status[r])
      BY <1>2, <2>2 DEF IInv, TypeOK, ServiceTypeOK
    <3>2. QED
      BY <3>1 DEF Event, WasCompleted
  <2>3. CASE c # b
    BY <1>2, <2>3 DEF IInv, TypeOK, ServiceTypeOK, TruthfulStreams
  <2>4. QED
    BY <2>2, <2>3
<1>6. Accounting' /\ CancelReasons' /\ ReturnsComplete'
  BY <1>1 DEF IInv, Accounting, CancelReasons, ReturnsComplete, WasCompleted
<1>7. EndReasons' /\ RetriesReal'
  BY <1>1, CsAssumption DEF IInv, TypeOK, EndReasons, RetriesReal
<1>8. QED
  BY <1>4, <1>5, <1>6, <1>7 DEF IInv

\* Reading from a stream, or dropping it, leaves the other events in place.
LEMMA ShrinkStreams ==
  ASSUME IInv, NEW b \in Buckets,
         Unsubscribe(b) \/ \E e \in queue[b] : Read(b, e)
  PROVE  ServiceTypeOK(Buckets)' /\ TruthfulStreams' /\ status' = status
<1>1. status' = status
  BY DEF Unsubscribe, Read
<1>2. /\ sub' \in [Buckets -> SUBSET Results]
      /\ queue' \in [Buckets -> SUBSET Events]
      /\ \A c \in Buckets : queue'[c] \subseteq queue[c]
  BY DEF Unsubscribe, Read, IInv, TypeOK, ServiceTypeOK
<1>3. ServiceTypeOK(Buckets)'
  BY <1>1, <1>2 DEF IInv, TypeOK, ServiceTypeOK
<1>4. TruthfulStreams'
  BY <1>1, <1>2 DEF IInv, TypeOK, ServiceTypeOK, TruthfulStreams, WasCompleted
<1>5. QED
  BY <1>1, <1>3, <1>4

\* Handling an event moves an id between the lists or ends the bucket.
LEMMA MoveNextInv ==
  ASSUME IInv, NEW b \in Buckets, MoveNext(b)
  PROVE  IInv'
<1>1. PICK e \in queue[b] :
        /\ MissingKept(b, e) \/ ResultCompleted(b, e) \/ ResultAborted(b, e)
        /\ Read(b, e) \/ Unsubscribe(b)
  BY DEF MoveNext
<1>2. pc[b] = "read" /\ UNCHANGED <<token, cts, outcome, faults>>
  BY DEF MoveNext, callVars
<1>3. ServiceTypeOK(Buckets)' /\ TruthfulStreams' /\ status' = status
  BY <1>1, ShrinkStreams
<1>4. /\ e \in Events
      /\ e.status = "Completed" => WasCompleted(e.id)
      /\ e.status = "Aborted" => status[e.id] = "Aborted"
  BY DEF IInv, TypeOK, ServiceTypeOK, TruthfulStreams
<1>5. CancelReasons' /\ ReturnsComplete'
  BY <1>2, <1>3 DEF IInv, CancelReasons, ReturnsComplete, WasCompleted
<1>6. CASE MissingKept(b, e)
  <2>1. UNCHANGED <<pc, resultsNotFound, resultsCompleted, retryCount, abortedId>>
    BY <1>6 DEF MissingKept, localVars
  <2>2. TypeOK'
    BY <1>2, <1>3, <2>1 DEF IInv, TypeOK
  <2>3. Accounting' /\ EndReasons' /\ RetriesReal'
    BY <1>2, <1>3, <2>1
    DEF IInv, Accounting, EndReasons, RetriesReal, WasCompleted
  <2>4. QED
    BY <1>3, <1>5, <2>2, <2>3 DEF IInv
<1>7. CASE ResultCompleted(b, e)
  <2>1. /\ UNCHANGED <<retryCount, abortedId>>
        /\ e.id \in resultsNotFound[b]
        /\ e.status = "Completed"
        /\ resultsCompleted' = [resultsCompleted EXCEPT ![b] = @ \cup {e.id}]
        /\ resultsNotFound' = [resultsNotFound EXCEPT ![b] = @ \ {e.id}]
    BY <1>7 DEF ResultCompleted
  <2>2. /\ pc' \in [Buckets -> PCs]
        /\ \A a \in Buckets \ {b} : pc'[a] = pc[a]
        /\ pc'[b] \in {"read", "check"}
    BY <1>2, <1>7 DEF ResultCompleted, Goto, IInv, TypeOK, PCs, Active
  <2>3. TypeOK'
    BY <1>2, <1>3, <1>4, <2>1, <2>2 DEF IInv, TypeOK, Events
  <2>4. Accounting'
    BY <1>3, <1>4, <2>1 DEF IInv, TypeOK, Accounting, WasCompleted
  <2>5. EndReasons' /\ RetriesReal'
    BY <1>2, <1>3, <2>1, <2>2 DEF IInv, TypeOK, EndReasons, RetriesReal
  <2>6. QED
    BY <1>3, <1>5, <2>3, <2>4, <2>5 DEF IInv
<1>8. CASE ResultAborted(b, e)
  <2>1. /\ UNCHANGED <<resultsNotFound, resultsCompleted, retryCount>>
        /\ e.id \in resultsNotFound[b]
        /\ e.status = "Aborted"
        /\ abortedId' = [abortedId EXCEPT ![b] = e.id]
        /\ pc' = [pc EXCEPT ![b] = "aborted"]
    BY <1>8 DEF ResultAborted, Goto
  <2>2. TypeOK'
    BY <1>2, <1>3, <1>4, <2>1 DEF IInv, TypeOK, Events, PCs, Ended
  <2>3. Accounting'
    BY <1>3, <2>1 DEF IInv, Accounting, WasCompleted
  <2>4. EndReasons' /\ RetriesReal'
    BY <1>2, <1>3, <1>4, <2>1 DEF IInv, TypeOK, EndReasons, RetriesReal
  <2>5. QED
    BY <1>3, <1>5, <2>2, <2>3, <2>4 DEF IInv
<1>9. QED
  BY <1>1, <1>6, <1>7, <1>8

\* A lost stream costs at most one retry, and only a cancelled call ends
\* a bucket quietly.
LEMMA StreamLostInv ==
  ASSUME IInv, NEW b \in Buckets,
         EndOfStream(b) \/ RpcFailure(b) \/ OperationCanceled(b)
  PROVE  IInv'
<1>1. /\ Unsubscribe(b)
      /\ UNCHANGED <<resultsNotFound, resultsCompleted, abortedId, token, cts, outcome>>
      /\ pc[b] \in {"connect", "read"}
  BY DEF EndOfStream, RpcFailure, OperationCanceled, localVars, callVars
<1>2. ServiceTypeOK(Buckets)' /\ TruthfulStreams' /\ status' = status
  BY <1>1, ShrinkStreams
<1>3. Accounting' /\ CancelReasons' /\ ReturnsComplete'
  BY <1>1, <1>2
  DEF IInv, Accounting, CancelReasons, ReturnsComplete, WasCompleted
<1>4. faults' \in 0 .. MaxFaults /\ faults <= faults'
  BY CsAssumption DEF EndOfStream, RpcFailure, OperationCanceled, IInv, TypeOK
<1>5. CASE EndOfStream(b) \/ OperationCanceled(b)
  <2>1. /\ retryCount' = retryCount
        /\ pc' \in [Buckets -> PCs]
        /\ \A a \in Buckets \ {b} : pc'[a] = pc[a]
        /\ pc'[b] \in {"check", "done"}
        /\ pc'[b] = "done" => token
    BY <1>5
    DEF EndOfStream, OperationCanceled, localVars, Goto, IInv, TypeOK, PCs, Active, Ended
  <2>2. TypeOK'
    BY <1>1, <1>2, <1>4, <2>1 DEF IInv, TypeOK
  <2>3. EndReasons' /\ RetriesReal'
    BY <1>1, <1>2, <1>4, <2>1, CsAssumption
    DEF IInv, TypeOK, EndReasons, RetriesReal, CancelReasons
  <2>4. QED
    BY <1>2, <1>3, <2>2, <2>3 DEF IInv
<1>6. CASE RpcFailure(b)
  <2>1. /\ retryCount' = [retryCount EXCEPT ![b] = @ + 1]
        /\ pc' = [pc EXCEPT ![b] =
                    IF retryCount[b] + 1 > RetryLimit THEN "rpc" ELSE "check"]
        /\ ~token => faults' = faults + 1
    BY <1>6 DEF RpcFailure, Goto
  <2>2. retryCount[b] \in 0 .. RetryLimit
    BY <1>1, CsAssumption DEF IInv, TypeOK, EndReasons
  <2>3. TypeOK'
    <3>1. pc' \in [Buckets -> PCs]
      BY <2>1 DEF IInv, TypeOK, PCs, Active, Ended
    <3>2. retryCount' \in [Buckets -> 0 .. RetryLimit + 1]
      BY <2>1, <2>2, CsAssumption DEF IInv, TypeOK
    <3>3. QED
      BY <1>1, <1>2, <1>4, <3>1, <3>2 DEF IInv, TypeOK
  <2>4. EndReasons'
    BY <1>1, <1>2, <2>1, <2>2, CsAssumption DEF IInv, TypeOK, EndReasons
  <2>5. RetriesReal'
    BY <1>1, <1>4, <2>1, <2>2, CsAssumption DEF IInv, TypeOK, RetriesReal
  <2>6. QED
    BY <1>2, <1>3, <2>3, <2>4, <2>5 DEF IInv
<1>7. QED
  BY <1>5, <1>6

\* When the last bucket is done and nobody cancelled, nothing is missing.
LEMMA AllDone ==
  ASSUME IInv, ReturnNormally, ~token
  PROVE  \A r \in Awaited : WasCompleted(r)
<1>1. ~cts
  BY DEF IInv, CancelReasons, ReturnNormally
<1>2. \A b \in Buckets : resultsNotFound[b] = {}
  BY <1>1 DEF IInv, EndReasons, ReturnNormally
<1>3. \A b \in Buckets : \A r \in Bucket(b) : WasCompleted(r)
  BY <1>2 DEF IInv, Accounting
<1>4. QED
  BY <1>3, BucketsCover

\* The steps of the call itself.
LEMMA CallInv ==
  ASSUME IInv,
         CancelToken \/ ReturnNormally \/ ThrowCanceled \/ \E b \in Buckets : Rethrow(b)
  PROVE  IInv'
<1>1. /\ UNCHANGED <<serviceVars, pc, resultsNotFound, resultsCompleted,
                     retryCount, abortedId, faults>>
      /\ token => token'
      /\ cts => cts'
  BY DEF CancelToken, ReturnNormally, ThrowCanceled, Rethrow, localVars
<1>2. token' \in BOOLEAN /\ cts' \in BOOLEAN /\ outcome' \in Outcomes
  BY DEF IInv, TypeOK, Outcomes, CancelToken, ReturnNormally, ThrowCanceled, Rethrow
<1>3. TypeOK'
  BY <1>1, <1>2 DEF IInv, TypeOK, ServiceTypeOK, serviceVars
<1>4. TruthfulStreams' /\ Accounting'
  BY <1>1 DEF IInv, TruthfulStreams, Accounting, WasCompleted, serviceVars
<1>5. EndReasons' /\ RetriesReal'
  BY <1>1 DEF IInv, EndReasons, RetriesReal, serviceVars
<1>6. CancelReasons'
  BY <1>1
  DEF IInv, CancelReasons, CancelToken, ReturnNormally, ThrowCanceled, Rethrow
<1>7. ReturnsComplete'
  <2>1. CASE ReturnNormally
    BY <1>1, <2>1, AllDone DEF ReturnNormally, ReturnsComplete, WasCompleted, serviceVars
  <2>2. CASE ~ReturnNormally
    BY <1>1, <2>2
    DEF IInv, ReturnsComplete, CancelToken, ThrowCanceled, Rethrow, WasCompleted, serviceVars
  <2>3. QED
    BY <2>1, <2>2
<1>8. QED
  BY <1>3, <1>4, <1>5, <1>6, <1>7 DEF IInv

\* IInv is inductive.
LEMMA NextInv == IInv /\ [Next]_vars => IInv'
<1>1. SUFFICES ASSUME IInv, [Next]_vars PROVE IInv'
  OBVIOUS
<1>2. CASE Service
  BY <1>1, <1>2, ServiceInv
<1>3. ASSUME NEW b \in Buckets, BucketStep(b) PROVE IInv'
  BY <1>1, <1>3, MoveInv, HeadersInv, MoveNextInv, StreamLostInv DEF BucketStep
<1>4. CASE CancelToken \/ ReturnNormally \/ ThrowCanceled \/ \E b \in Buckets : Rethrow(b)
  BY <1>1, <1>4, CallInv
<1>5. CASE UNCHANGED vars
  <2>1. UNCHANGED <<status, sub, queue, pc, resultsNotFound, resultsCompleted,
                    retryCount, abortedId, token, cts, outcome, faults>>
    BY <1>5 DEF vars, serviceVars, localVars, callVars
  <2>2. TypeOK' /\ TruthfulStreams'
    BY <1>1, <2>1 DEF IInv, TypeOK, ServiceTypeOK, TruthfulStreams, WasCompleted
  <2>3. QED
    BY <1>1, <2>1, <2>2
    DEF IInv, Accounting, EndReasons, CancelReasons, RetriesReal,
        ReturnsComplete, WasCompleted
<1>6. QED
  BY <1>1, <1>2, <1>3, <1>4, <1>5 DEF Next

\* The invariant holds in every reachable state.
LEMMA Invariant == Spec => []IInv
  BY InitInv, NextInv, PTL DEF Spec

\* TypeOK is an invariant: in particular retryCount never passes the limit.
THEOREM TypeCorrect == Spec => []TypeOK
<1>1. IInv => TypeOK
  BY DEF IInv
<1>2. QED
  BY <1>1, Invariant, PTL

\* A normal return of an uncancelled WaitForResultsAsync means that every
\* result has been completed.
THEOREM ReturnIsComplete == Spec => []ReturnsComplete
<1>1. IInv => ReturnsComplete
  BY DEF IInv
<1>2. QED
  BY <1>1, Invariant, PTL

\* A ResultAbortedException names an aborted result of the bucket, and its
\* two lists are exact.
THEOREM AbortReportIsConsistent == Spec => []AbortReportConsistent
<1>1. IInv => AbortReportConsistent
  BY DEF IInv, AbortReportConsistent, Accounting, EndReasons
<1>2. QED
  BY <1>1, Invariant, PTL

\* A bucket gives up only after more failures than the retry limit.
THEOREM RetriesAreExhausted == Spec => []RetriesExhausted
<1>1. IInv => RetriesExhausted
  BY CsAssumption DEF IInv, TypeOK, RetriesExhausted, EndReasons, RetriesReal
<1>2. QED
  BY <1>1, Invariant, PTL

\* A bucket that has called GetEvents misses something, and its stream covers
\* and still announces all that it misses.
Watching ==
  \A b \in Buckets :
    /\ pc[b] \in {"connect", "read"} => resultsNotFound[b] # {}
    /\ pc[b] = "read" => \A r \in resultsNotFound[b] : r \in sub[b] /\ Announced(b, r)

\* A status change is announced on every stream that covers the result.
LEMMA AnnouncedChange ==
  ASSUME IInv, ServiceNext, NEW b \in Buckets, NEW r \in sub[b], Announced(b, r)
  PROVE  r \in sub'[b] /\ Announced(b, r)'
<1>1. PICK x \in Results, s \in Statuses : ChangeStatus(x, s)
  BY DEF ServiceNext
<1>2. r \in Results /\ sub' = sub
  BY <1>1 DEF IInv, TypeOK, ServiceTypeOK, ChangeStatus
<1>3. CASE r = x
  <2>1. Event("ResultStatusUpdate", r, s) \in queue'[b] /\ status'[r] = s
    BY <1>1, <1>2, <1>3 DEF IInv, TypeOK, ServiceTypeOK, ChangeStatus
  <2> QED  BY <1>2, <2>1 DEF Announced, Event
<1>4. CASE r # x
  <2>1. queue[b] \subseteq queue'[b] /\ status'[r] = status[r]
    BY <1>1, <1>2, <1>4 DEF IInv, TypeOK, ServiceTypeOK, ChangeStatus
  <2> QED  BY <1>2, <2>1 DEF Announced
<1> QED  BY <1>3, <1>4

\* The snapshot of a new stream announces every result asked for.
LEMMA AnnouncedSnapshot ==
  ASSUME IInv, NEW b \in Buckets, NEW ids \in SUBSET Results, Subscribe(b, ids), NEW r \in ids
  PROVE  r \in sub'[b] /\ Announced(b, r)'
<1>1. PICK covered \in {ids, Results} :
        /\ sub' = [sub EXCEPT ![b] = covered]
        /\ queue' = [queue EXCEPT ![b] = {Event("NewResult", x, status[x]) : x \in covered}]
        /\ status' = status
  BY DEF Subscribe
<1>2. r \in covered /\ sub'[b] = covered
  BY <1>1 DEF IInv, TypeOK, ServiceTypeOK
<1>3. Event("NewResult", r, status[r]) \in queue'[b]
  BY <1>1, <1>2 DEF IInv, TypeOK, ServiceTypeOK
<1> QED  BY <1>1, <1>2, <1>3 DEF Announced, Event

\* Reading an event that says nothing final about r hides no news of r.
LEMMA AnnouncedRead ==
  ASSUME IInv, NEW b \in Buckets, NEW e \in queue[b], Read(b, e), NEW r, Announced(b, r),
         e.id # r \/ e.status \notin {"Completed", "Aborted"}
  PROVE  sub' = sub /\ Announced(b, r)'
<1>1. sub' = sub /\ status' = status /\ queue'[b] = queue[b] \ {e}
  BY DEF Read, IInv, TypeOK, ServiceTypeOK
<1> QED  BY <1>1 DEF Announced

\* What a bucket does to its own stream leaves the streams of others alone.
LEMMA AnnouncedElsewhere ==
  ASSUME IInv, NEW b \in Buckets, NEW a \in Buckets \ {b}, NEW ids, NEW e, NEW r,
         Subscribe(b, ids) \/ Read(b, e) \/ Unsubscribe(b), Announced(a, r)
  PROVE  sub'[a] = sub[a] /\ Announced(a, r)'
<1>1. status' = status /\ sub'[a] = sub[a] /\ queue'[a] = queue[a]
  BY DEF Subscribe, Read, Unsubscribe, IInv, TypeOK, ServiceTypeOK
<1> QED  BY <1>1 DEF Announced

\* The steps of the bucket a stream belongs to.
LEMMA OwnStreamWatched ==
  ASSUME IInv, Watching, NEW b \in Buckets, BucketStep(b)
  PROVE  /\ pc'[b] \in {"connect", "read"} => resultsNotFound'[b] # {}
         /\ pc'[b] = "read" => \A r \in resultsNotFound'[b] : r \in sub'[b] /\ Announced(b, r)'
<1>1. CASE Start(b) \/ Check(b)
  BY <1>1 DEF Start, Check, Goto, localVars, IInv, TypeOK
<1>2. CASE HeadersReceived(b)
  <2>1. /\ resultsNotFound[b] \in SUBSET Results
        /\ resultsNotFound[b] # {}
        /\ resultsNotFound' = resultsNotFound
        /\ Subscribe(b, resultsNotFound[b])
    BY <1>2 DEF HeadersReceived, IInv, TypeOK, Watching
  <2>2. \A r \in resultsNotFound[b] : r \in sub'[b] /\ Announced(b, r)'
    BY <2>1, AnnouncedSnapshot
  <2> QED  BY <2>1, <2>2
<1>3. CASE MoveNext(b)
  <2>1. PICK e \in queue[b] :
          /\ MissingKept(b, e) \/ ResultCompleted(b, e) \/ ResultAborted(b, e)
          /\ IF pc'[b] = "read" THEN Read(b, e) ELSE Unsubscribe(b)
    BY <1>3 DEF MoveNext
  <2>2. /\ resultsNotFound[b] # {}
        /\ \A r \in resultsNotFound[b] : r \in sub[b] /\ Announced(b, r)
    BY <1>3 DEF MoveNext, Watching
  <2>3. CASE MissingKept(b, e)
    <3>1. /\ resultsNotFound' = resultsNotFound /\ pc'[b] = "read" /\ Read(b, e)
          /\ e.id \notin resultsNotFound[b] \/ e.status \notin {"Completed", "Aborted"}
      BY <1>3, <2>1, <2>3 DEF MoveNext, MissingKept, localVars
    <3>2. \A r \in resultsNotFound[b] : r \in sub'[b] /\ Announced(b, r)'
      BY <2>2, <3>1, AnnouncedRead
    <3> QED  BY <2>2, <3>1, <3>2
  <2>4. CASE ResultCompleted(b, e)
    <3>1. resultsNotFound'[b] = resultsNotFound[b] \ {e.id}
      BY <2>4 DEF ResultCompleted, IInv, TypeOK
    <3>2. CASE resultsNotFound[b] = {e.id}
      BY <2>4, <3>2 DEF ResultCompleted, Goto, IInv, TypeOK
    <3>3. CASE resultsNotFound[b] # {e.id}
      <4>1. pc'[b] = "read" /\ Read(b, e)
        BY <1>3, <2>1, <2>4, <3>3 DEF MoveNext, ResultCompleted
      <4>2. \A r \in resultsNotFound'[b] : r \in sub'[b] /\ Announced(b, r)'
        BY <2>2, <3>1, <4>1, AnnouncedRead
      <4>3. resultsNotFound'[b] # {}
        BY <2>2, <3>1, <3>3
      <4> QED  BY <4>2, <4>3
    <3> QED  BY <3>2, <3>3
  <2>5. CASE ResultAborted(b, e)
    BY <2>5 DEF ResultAborted, Goto, IInv, TypeOK
  <2> QED  BY <2>1, <2>3, <2>4, <2>5
<1>4. CASE EndOfStream(b) \/ RpcFailure(b) \/ OperationCanceled(b)
  <2>1. pc'[b] \notin {"connect", "read"}
    BY <1>4 DEF EndOfStream, RpcFailure, OperationCanceled, Goto, IInv, TypeOK
  <2> QED  BY <2>1
<1> QED  BY <1>1, <1>2, <1>3, <1>4 DEF BucketStep

\* The steps of a bucket leave what another bucket waits for alone.
LEMMA OtherStreamWatched ==
  ASSUME IInv, Watching, NEW b \in Buckets, BucketStep(b), NEW a \in Buckets \ {b}
  PROVE  /\ pc'[a] \in {"connect", "read"} => resultsNotFound'[a] # {}
         /\ pc'[a] = "read" => \A r \in resultsNotFound'[a] : r \in sub'[a] /\ Announced(a, r)'
<1>1. pc'[a] = pc[a] /\ resultsNotFound'[a] = resultsNotFound[a]
  BY DEF BucketStep, Start, Check, HeadersReceived, MoveNext, MissingKept, ResultCompleted,
         ResultAborted, EndOfStream, RpcFailure, OperationCanceled, Goto, localVars,
         IInv, TypeOK
<1>2. CASE Start(b) \/ Check(b)
  BY <1>1, <1>2 DEF Start, Check, serviceVars, Watching, Announced
<1>3. CASE ~(Start(b) \/ Check(b))
  <2>1. \E ids, e : Subscribe(b, ids) \/ Read(b, e) \/ Unsubscribe(b)
    BY <1>3 DEF BucketStep, HeadersReceived, MoveNext, EndOfStream, RpcFailure, OperationCanceled
  <2>2. \A r : Announced(a, r) => sub'[a] = sub[a] /\ Announced(a, r)'
    BY <2>1, AnnouncedElsewhere
  <2> QED  BY <1>1, <2>2 DEF Watching
<1> QED  BY <1>2, <1>3

\* Watching is preserved by every step.
LEMMA WatchingNext == IInv /\ Watching /\ [Next]_vars => Watching'
<1> SUFFICES ASSUME IInv, Watching, [Next]_vars PROVE Watching'
  OBVIOUS
<1>1. CASE Service
  <2>1. UNCHANGED <<pc, resultsNotFound>> /\ ServiceNext
    BY <1>1 DEF Service, localVars
  <2> QED  BY <2>1, AnnouncedChange DEF Watching
<1>2. ASSUME NEW b \in Buckets, BucketStep(b) PROVE Watching'
  BY <1>2, OwnStreamWatched, OtherStreamWatched DEF Watching
<1>3. CASE CancelToken \/ ReturnNormally \/ ThrowCanceled \/ (\E b \in Buckets : Rethrow(b))
           \/ UNCHANGED vars
  BY <1>3
  DEF CancelToken, ReturnNormally, ThrowCanceled, Rethrow, vars, serviceVars, localVars,
      Watching, Announced
<1> QED  BY <1>1, <1>2, <1>3 DEF Next

\* A bucket that reads its stream never misses the end of a result it waits
\* for: the event is still ahead, whatever was reconnected or reordered.
THEOREM NothingIsMissed == Spec => []NothingMissed
<1>1. Init => Watching
  BY DEF Init, Watching
<1>2. Watching => NothingMissed
  BY DEF Watching, NothingMissed
<1> QED  BY <1>1, <1>2, WatchingNext, Invariant, PTL DEF Spec

\* The detailed call implements the abstract wait.
THEOREM Implementation == Spec => ImplementsResultWait
<1>1. Init => Promise!Init
  BY DEF Init, ServiceInit, Statuses, Promise!Init
<1>2. IInv /\ [Next]_vars => [Promise!Next]_<<status, token, outcome>>
  <2>1. SUFFICES ASSUME IInv, [Next]_vars
                 PROVE  Promise!Next \/ UNCHANGED <<status, token, outcome>>
    OBVIOUS
  <2>2. CASE Service
    <3>1. PICK r \in Results, s \in Statuses : ChangeStatus(r, s)
      BY <2>2 DEF Service, ServiceNext
    <3>2. s # "Created"
      BY <3>1 DEF ChangeStatus, Lifecycle
    <3>3. Promise!Evolve
      BY <2>2, <3>1, <3>2
      DEF Promise!Evolve, Promise!Lifecycle, ChangeStatus, Lifecycle, Statuses,
          Service, callVars
    <3>4. QED
      BY <3>3 DEF Promise!Next
  <2>3. ASSUME NEW b \in Buckets, BucketStep(b)
        PROVE  UNCHANGED <<status, token, outcome>>
    <3>1. UNCHANGED <<token, outcome>>
      BY <2>3
      DEF BucketStep, Start, Check, HeadersReceived, MoveNext, EndOfStream,
          RpcFailure, OperationCanceled, callVars
    <3>2. UNCHANGED status
      BY <2>3
      DEF BucketStep, Start, Check, HeadersReceived, MoveNext, EndOfStream,
          RpcFailure, OperationCanceled, serviceVars, Subscribe, Unsubscribe, Read
    <3>3. QED
      BY <3>1, <3>2
  <2>4. CASE CancelToken
    BY <2>4 DEF CancelToken, Promise!Next, Promise!Cancel, serviceVars
  <2>5. CASE ReturnNormally
    <3>1. token \/ \A r \in Awaited : status[r] \in {"Completed", "Deleted"}
      BY <2>1, <2>5, AllDone DEF WasCompleted
    <3>2. QED
      BY <2>5, <3>1 DEF ReturnNormally, Promise!Next, Promise!Return, serviceVars
  <2>6. CASE ThrowCanceled
    BY <2>6 DEF ThrowCanceled, Promise!Next, Promise!FailCanceled, serviceVars
  <2>7. ASSUME NEW b \in Buckets, Rethrow(b)
        PROVE  Promise!Next
    <3>1. CASE pc[b] = "rpc"
      BY <2>7, <3>1 DEF Rethrow, Promise!Next, Promise!FailRpc, serviceVars
    <3>2. CASE pc[b] = "aborted"
      <4>1. abortedId[b] \in Awaited /\ status[abortedId[b]] = "Aborted"
        BY <2>1, <3>2, BucketsCover DEF IInv, EndReasons, Accounting
      <4>2. QED
        BY <2>7, <3>2, <4>1 DEF Rethrow, Promise!Next, Promise!FailAborted, serviceVars
    <3>3. QED
      BY <2>7, <3>1, <3>2 DEF Rethrow
  <2>8. CASE UNCHANGED vars
    BY <2>8 DEF vars, serviceVars, callVars
  <2>9. QED
    BY <2>1, <2>2, <2>3, <2>4, <2>5, <2>6, <2>7, <2>8 DEF Next
<1>3. QED
  BY <1>1, <1>2, Invariant, PTL DEF Spec, ImplementsResultWait, Promise!Spec
=============================================================================
