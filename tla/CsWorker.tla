------------------------------ MODULE CsWorker ------------------------------
(***************************************************************************)
(* WorkerStreamWrapper.Process, the C# worker's handling of a task: the    *)
(* user's handler races with the cancellation of the RPC and then, when    *)
(* AbortAfter is positive, with a delay; a handler that does not stop in   *)
(* time takes the whole process down, with the other calls it serves.      *)
(*                                                                         *)
(* pc[c] is where the call is:                                             *)
(*   "new"      not received                                               *)
(*   "running"  awaiting WhenAny(process, cancellation)                    *)
(*   "grace"    awaiting WhenAny(process, Delay(AbortAfter))               *)
(*   "replied", "failed"   answered with the output, with an error         *)
(*   "killed"   the process is gone                                        *)
(* first[c] is the task that completed the WhenAny the call awaits; it is  *)
(* fixed when that task completes, and looked at when the call resumes.    *)
(***************************************************************************)
CONSTANT Calls          \* the Process calls the worker receives

VARIABLES grace,        \* computePlaneOptions_.AbortAfter > TimeSpan.Zero
          alive,        \* has Environment.Exit not been called?
          pc, first,
          handler,      \* state of the task returned by ProcessAsync
          cancelled     \* context.CancellationToken.IsCancellationRequested

vars == <<grace, alive, pc, first, handler, cancelled>>

Stopped == {"done", "threw"}

Init ==
  /\ grace \in BOOLEAN
  /\ alive = TRUE
  /\ pc = [c \in Calls |-> "new"]
  /\ first = [c \in Calls |-> "none"]
  /\ handler = [c \in Calls |-> "none"]
  /\ cancelled = [c \in Calls |-> FALSE]

\* WhenAny is completed by the first task to complete.
Completes(c, t) == IF first[c] = "none" THEN t ELSE first[c]

-----------------------------------------------------------------------------
\* The call arrives, its payload is read and the user's handler is started;
\* it may stop before its first await.  Of two tasks that have completed
\* already, WhenAny takes the process.
Begin(c, h) ==
  /\ alive
  /\ pc[c] = "new"
  /\ pc' = [pc EXCEPT ![c] = "running"]
  /\ handler' = [handler EXCEPT ![c] = h]
  /\ \/ h \in Stopped /\ first' = [first EXCEPT ![c] = "process"]
     \/ h = "running" /\ first' = [first EXCEPT ![c] = IF cancelled[c] THEN "cancel" ELSE "none"]
  /\ UNCHANGED <<grace, alive, cancelled>>

\* new TaskHandler throws: there is no payload file.
NoPayload(c) ==
  /\ alive
  /\ pc[c] = "new"
  /\ pc' = [pc EXCEPT ![c] = "failed"]
  /\ UNCHANGED <<grace, alive, first, handler, cancelled>>

\* The user's handler returns or throws; whether it looks at the token is
\* its own affair.
HandlerStops(c, how) ==
  /\ alive
  /\ handler[c] = "running"
  /\ handler' = [handler EXCEPT ![c] = how]
  /\ first' = [first EXCEPT ![c] = Completes(c, "process")]
  /\ UNCHANGED <<grace, alive, pc, cancelled>>

\* The agent gives up the call or its connection is lost.
Cancel(c) ==
  /\ alive
  /\ ~cancelled[c]
  /\ pc[c] \in {"new", "running", "grace"}
  /\ cancelled' = [cancelled EXCEPT ![c] = TRUE]
  /\ first' = [first EXCEPT ![c] = IF pc[c] = "running" THEN Completes(c, "cancel") ELSE @]
  /\ UNCHANGED <<grace, alive, pc, handler>>

\* Mutant of DelayElapses: the process is awaited before the delay.
DelayAfterProcess(c) ==
  /\ alive
  /\ pc[c] = "grace"
  /\ handler[c] \in Stopped
  /\ first[c] = "none"
  /\ first' = [first EXCEPT ![c] = "delay"]
  /\ UNCHANGED <<grace, alive, pc, handler, cancelled>>

\* Task.Delay(computePlaneOptions_.AbortAfter) completes.
DelayElapses(c) ==
  /\ alive
  /\ pc[c] = "grace"
  /\ first[c] = "none"
  /\ first' = [first EXCEPT ![c] = "delay"]
  /\ UNCHANGED <<grace, alive, pc, handler, cancelled>>

\* Mutant of Answer: the exception of the handler is not awaited.
AnswerAnyway(c) ==
  /\ alive
  /\ pc[c] \in {"running", "grace"}
  /\ first[c] = "process"
  /\ pc' = [pc EXCEPT ![c] = "replied"]
  /\ UNCHANGED <<grace, alive, first, handler, cancelled>>

\* output = await process: its value is the reply, its exception the error.
Answer(c) ==
  /\ alive
  /\ pc[c] \in {"running", "grace"}
  /\ first[c] = "process"
  /\ pc' = [pc EXCEPT ![c] = IF handler[c] = "done" THEN "replied" ELSE "failed"]
  /\ UNCHANGED <<grace, alive, first, handler, cancelled>>

\* The cancellation came first and there is a delay to wait for: a second
\* WhenAny, which a process that has ended meanwhile completes at once.
EnterGrace(c) ==
  /\ alive
  /\ pc[c] = "running"
  /\ first[c] = "cancel"
  /\ grace
  /\ pc' = [pc EXCEPT ![c] = "grace"]
  /\ first' = [first EXCEPT ![c] = IF handler[c] \in Stopped THEN "process" ELSE "none"]
  /\ UNCHANGED <<grace, alive, handler, cancelled>>

\* Mutants of Exit: the empty output is returned instead; the second
\* ReferenceEquals is missing.
ReturnInsteadOfExit(c) ==
  /\ alive
  /\ \/ pc[c] = "running" /\ first[c] = "cancel" /\ ~grace
     \/ pc[c] = "grace" /\ first[c] = "delay"
  /\ pc' = [pc EXCEPT ![c] = "replied"]
  /\ UNCHANGED <<grace, alive, first, handler, cancelled>>

ExitWhateverEnded(c) ==
  /\ alive
  /\ \/ pc[c] = "running" /\ first[c] = "cancel" /\ ~grace
     \/ pc[c] = "grace" /\ first[c] # "none"
  /\ alive' = FALSE
  /\ pc' = [d \in Calls |-> IF pc[d] \in {"replied", "failed"} THEN pc[d] ELSE "killed"]
  /\ handler' = [d \in Calls |-> IF handler[d] = "running" THEN "killed" ELSE handler[d]]
  /\ UNCHANGED <<grace, first, cancelled>>

\* Environment.Exit(AbortReturnCode)
Exit(c) ==
  /\ alive
  /\ \/ pc[c] = "running" /\ first[c] = "cancel" /\ ~grace
     \/ pc[c] = "grace" /\ first[c] = "delay"
  /\ alive' = FALSE
  /\ pc' = [d \in Calls |-> IF pc[d] \in {"replied", "failed"} THEN pc[d] ELSE "killed"]
  /\ handler' = [d \in Calls |-> IF handler[d] = "running" THEN "killed" ELSE handler[d]]
  /\ UNCHANGED <<grace, first, cancelled>>

Resume(c) == Answer(c) \/ EnterGrace(c) \/ Exit(c)

Next ==
  \E c \in Calls :
    \/ \E h \in Stopped \cup {"running"} : Begin(c, h)
    \/ NoPayload(c) \/ Cancel(c) \/ DelayElapses(c) \/ Resume(c)
    \/ \E how \in Stopped : HandlerStops(c, how)

Spec == Init /\ [][Next]_vars

\* Continuations run and delays elapse; the user's handler may never stop.
FairSpec ==
  /\ Spec
  /\ \A c \in Calls : WF_vars(Resume(c)) /\ WF_vars(DelayElapses(c))

-----------------------------------------------------------------------------
\* The variables keep their types.
TypeOK ==
  /\ grace \in BOOLEAN
  /\ alive \in BOOLEAN
  /\ pc \in [Calls -> {"new", "running", "grace", "replied", "failed", "killed"}]
  /\ first \in [Calls -> {"none", "process", "cancel", "delay"}]
  /\ handler \in [Calls -> {"none", "running", "done", "threw", "killed"}]
  /\ cancelled \in [Calls -> BOOLEAN]

\* "Abort the whole worker to ensure the task does not continue running": a
\* call that is over, whichever way, leaves no handler running behind it.
NoOrphanHandler ==
  \A c \in Calls : pc[c] \in {"replied", "failed", "killed"} => handler[c] # "running"

\* A reply carries an output that the handler returned, cancelled or not.
ReplyIsTheHandlers ==
  \A c \in Calls : pc[c] = "replied" => handler[c] = "done"

\* The process only ends because of a call that was cancelled and, if there
\* is a delay, whose handler had not stopped when it was over.
OnlyCancelKills ==
  ~alive => \E c \in Calls :
              pc[c] = "killed" /\ cancelled[c] /\ (grace => first[c] = "delay")

\* A cancelled call is settled, by an answer or by the end of the process,
\* even if its handler never stops.
CancelSettles ==
  \A c \in Calls :
    cancelled[c] /\ handler[c] = "running" ~> handler[c] # "running"
=============================================================================
