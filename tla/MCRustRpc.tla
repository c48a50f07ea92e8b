------------------------------ MODULE MCRustRpc ------------------------------
(***************************************************************************)
(* Every method of every service alone on a channel, the raw calls that    *)
(* differ from them, and a call beside a stream that is being read.        *)
(***************************************************************************)
EXTENDS RustRpc

CONSTANTS c1, c2

MCCalls == {c1, c2}
Data == <<"d1", "d2">>

Alone(r) == [c \in MCCalls |-> IF c = c1 THEN r ELSE NoRequest]
Pair(r, s) == [c \in MCCalls |-> IF c = c1 THEN r ELSE s]

\* Raw calls where they differ from the method: it is missing, it unpacks the
\* response, or it streams.
RawNames ==
  [agent |-> {"get_resource_data", "get_common_data", "get_direct_data", "create_tasks"},
   submitter |-> {"create_small_tasks", "create_large_tasks", "try_get_task_output",
                  "try_get_result", "cancel_session"},
   results |-> {"upload", "download"}, events |-> {"subscribe"}, worker |-> {"process"}]

EveryMethod ==
  UNION {{Method(s, n, Data) : n \in DOMAIN MethodTable[s]} : s \in DOMAIN MethodTable}
RawCalls == UNION {{RawCall(s, n, Data) : n \in RawNames[s]} : s \in DOMAIN RawNames}
Foreign == {ForeignCall(s, "watch_results", <<"d1">>) : s \in {"submitter", "results"}}

MCScenarios ==
  {Alone(r) : r \in EveryMethod \cup RawCalls \cup Foreign}
    \cup {Pair(Method("results", "download", Data), Method("sessions", "close", Data))}
=============================================================================
