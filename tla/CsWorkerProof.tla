--------------------------- MODULE CsWorkerProof ----------------------------
(***************************************************************************)
(* Proofs about the C# worker, for any number of concurrent calls, with or *)
(* without a delay.  NoOrphanHandler is not inductive: that an answered    *)
(* call has a stopped handler rests on what `first` records, and that only *)
(* a cancelled call can end the process on how "cancel" and "grace" came   *)
(* about.  Both are facts of one call, stated by CallInv.                  *)
(***************************************************************************)
EXTENDS CsWorker, TLAPS

\* A running handler has a call that awaits it; the process completed a
\* WhenAny only if it stopped; a cancellation completed one, or a delay was
\* granted, only if the call was cancelled.
CallInv(c) ==
  /\ handler[c] = "running" => pc[c] \in {"running", "grace"}
  /\ pc[c] \in {"running", "grace"} /\ first[c] = "process" => handler[c] \in Stopped
  /\ pc[c] = "replied" => handler[c] = "done"
  /\ first[c] = "cancel" \/ pc[c] = "grace" => cancelled[c]

IInv ==
  /\ TypeOK
  /\ \A c \in Calls : CallInv(c)
  /\ OnlyCancelKills

\* Before the first call nothing runs: the invariant holds initially.
LEMMA InitInv == Init => IInv
  BY DEF Init, IInv, TypeOK, CallInv, OnlyCancelKills, Stopped

\* Every step keeps the invariant.
LEMMA NextInv == IInv /\ [Next]_vars => IInv'
<1> SUFFICES ASSUME IInv, [Next]_vars PROVE IInv'
  OBVIOUS
<1> USE DEF IInv, TypeOK, CallInv, OnlyCancelKills, Stopped
<1>1. CASE UNCHANGED vars
  BY <1>1 DEF vars
<1>2. ASSUME NEW c \in Calls, NEW h \in Stopped \cup {"running"}, Begin(c, h) PROVE IInv'
  BY <1>2 DEF Begin
<1>3. ASSUME NEW c \in Calls, NoPayload(c) PROVE IInv'
  BY <1>3 DEF NoPayload
<1>4. ASSUME NEW c \in Calls, Cancel(c) PROVE IInv'
  BY <1>4 DEF Cancel, Completes
<1>5. ASSUME NEW c \in Calls, DelayElapses(c) PROVE IInv'
  BY <1>5 DEF DelayElapses
<1>6. ASSUME NEW c \in Calls, Answer(c) PROVE IInv'
  BY <1>6 DEF Answer
<1>7. ASSUME NEW c \in Calls, EnterGrace(c) PROVE IInv'
  BY <1>7 DEF EnterGrace
<1>8. ASSUME NEW c \in Calls, Exit(c) PROVE IInv'
  BY <1>8 DEF Exit
<1>9. ASSUME NEW c \in Calls, NEW how \in Stopped, HandlerStops(c, how) PROVE IInv'
  BY <1>9 DEF HandlerStops, Completes
<1>10. QED
  BY <1>1, <1>2, <1>3, <1>4, <1>5, <1>6, <1>7, <1>8, <1>9 DEF Next, Resume

\* Every reachable state of the worker satisfies the invariant.
LEMMA Invariant == Spec => []IInv
  BY InitInv, NextInv, PTL DEF Spec

\* No call that is over leaves a handler running, in any worker.
THEOREM NoHandlerIsOrphaned == Spec => []NoOrphanHandler
<1>1. IInv => NoOrphanHandler
  BY DEF IInv, CallInv, NoOrphanHandler
<1>2. QED
  BY <1>1, Invariant, PTL

\* A reply is what the handler returned.
THEOREM RepliesAreTheHandlers == Spec => []ReplyIsTheHandlers
<1>1. IInv => ReplyIsTheHandlers
  BY DEF IInv, CallInv, ReplyIsTheHandlers
<1>2. QED
  BY <1>1, Invariant, PTL

\* Only a cancelled call, past its delay if there is one, ends the process.
THEOREM OnlyCancellationKills == Spec => []OnlyCancelKills
<1>1. IInv => OnlyCancelKills
  BY DEF IInv
<1>2. QED
  BY <1>1, Invariant, PTL
=============================================================================
