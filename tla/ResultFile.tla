----------------------------- MODULE ResultFile -----------------------------
(***************************************************************************)
(* How a worker hands the data of a result over to its agent: it writes a  *)
(* file named after the result in the folder it shares with the agent,     *)
(* then calls NotifyResultData, and the agent stores what the file holds.  *)
(* send_results in Python, send_result in C++, SendResult in C# and        *)
(* notifyResultData in Java differ in                                      *)
(*   - how the file is opened: truncated ("wb", trunc), written over       *)
(*     (FileMode.OpenOrCreate) or appended to (true);                      *)
(*   - whether a failed write ends the call: the stream of the C++ worker  *)
(*     is never asked;                                                     *)
(*   - whether several results share a notification: Python only.          *)
(* A byte is the number of the send it comes from.  The user's handler may *)
(* send a result again, in particular when a send failed, but not while    *)
(* the same result is being sent.                                          *)
(***************************************************************************)
EXTENDS Naturals, Sequences

CONSTANTS Workers,      \* the worker libraries considered
          Keys,         \* the results of the task
          Senders,      \* concurrent calls of the handler
          MaxSends,     \* bound: calls in a task
          MaxLen        \* bound: bytes of a result

ASSUME ResultFileAssumption ==
  /\ Workers \subseteq {"python", "cpp", "csharp", "java"}
  /\ MaxSends \in Nat
  /\ MaxLen \in Nat

VARIABLES worker,       \* the library that runs the task
          file,         \* file[k]: the file of result k
          stored,       \* stored[k]: what the agent stored for k
          acked,        \* acked[k]: data of the last send of k, once it returned
          batch,        \* batch[s]: results that call s is sending
          left,         \* left[s]: the ones it has still to write
          data,         \* data[s]: what it sends
          sends,        \* calls so far
          swallowed     \* results a write of which failed without a trace

vars == <<worker, file, stored, acked, batch, left, data, sends, swallowed>>

Nothing == <<>>
Unknown == <<0>>        \* no send of the result, or the last has not returned

Init ==
  /\ worker \in Workers
  /\ file = [k \in Keys |-> Nothing]
  /\ stored = [k \in Keys |-> Nothing]
  /\ acked = [k \in Keys |-> Unknown]
  /\ batch = [s \in Senders |-> {}]
  /\ left = [s \in Senders |-> {}]
  /\ data = [s \in Senders |-> Nothing]
  /\ sends = 0
  /\ swallowed = {}

Truncating == {"python", "cpp"}     \* the libraries that truncate the file

\* Mutant of Written: the file is opened without truncating it.
WrittenOver(old, new) == new \o SubSeq(old, Len(new) + 1, Len(old))

\* What a file that held `old` holds once `new` is written and it is closed.
Written(old, new) ==
  CASE worker \in Truncating -> new
    [] worker = "csharp" -> new \o SubSeq(old, Len(new) + 1, Len(old))
    [] worker = "java" -> old \o new

\* The handler calls the function with the results ks and n bytes for each.
Send(s, ks, n) ==
  /\ sends < MaxSends
  /\ batch[s] = {}
  /\ ks # {}
  /\ \A t \in Senders : batch[t] \cap ks = {}
  /\ worker = "python" \/ \E k \in Keys : ks = {k}
  /\ sends' = sends + 1
  /\ batch' = [batch EXCEPT ![s] = ks]
  /\ left' = [left EXCEPT ![s] = ks]
  /\ data' = [data EXCEPT ![s] = [i \in 1 .. n |-> sends + 1]]
  /\ acked' = [k \in Keys |-> IF k \in ks THEN Unknown ELSE acked[k]]
  /\ swallowed' = swallowed \ ks
  /\ UNCHANGED <<worker, file, stored>>

\* The file of one result is opened, written and closed.
WriteFile(s, k) ==
  /\ k \in left[s]
  /\ file' = [file EXCEPT ![k] = Written(@, data[s])]
  /\ left' = [left EXCEPT ![s] = @ \ {k}]
  /\ UNCHANGED <<worker, stored, acked, batch, data, sends, swallowed>>

\* The file cannot be opened, or only a part of the data gets into it.
WriteFails(s, k) ==
  /\ k \in left[s]
  /\ \/ UNCHANGED file
     \/ \E n \in 0 .. Len(data[s]) :
          file' = [file EXCEPT ![k] = Written(@, SubSeq(data[s], 1, n))]
  /\ \/ /\ worker = "cpp"
        /\ left' = [left EXCEPT ![s] = @ \ {k}]
        /\ swallowed' = swallowed \cup {k}
        /\ UNCHANGED batch
     \/ /\ worker # "cpp"
        /\ batch' = [batch EXCEPT ![s] = {}]
        /\ left' = [left EXCEPT ![s] = {}]
        /\ UNCHANGED swallowed
  /\ UNCHANGED <<worker, stored, acked, data, sends>>

Store(s) == stored' = [k \in Keys |-> IF k \in batch[s] THEN file[k] ELSE stored[k]]

\* Mutant of Notifying: the notification does not wait for the files.
NotifyingEarly(s) == batch[s] # {}

\* Every file is written: the next step is the call to the agent.
Notifying(s) == batch[s] # {} /\ left[s] = {}

\* NotifyResultData succeeds and the call returns.
Notify(s) ==
  /\ Notifying(s)
  /\ Store(s)
  /\ acked' = [k \in Keys |-> IF k \in batch[s] THEN data[s] ELSE acked[k]]
  /\ batch' = [batch EXCEPT ![s] = {}]
  /\ UNCHANGED <<worker, file, left, data, sends, swallowed>>

\* NotifyResultData fails, before the agent stored the data or after.
NotifyFails(s) ==
  /\ Notifying(s)
  /\ Store(s) \/ UNCHANGED stored
  /\ batch' = [batch EXCEPT ![s] = {}]
  /\ UNCHANGED <<worker, file, acked, left, data, sends, swallowed>>

Next ==
  \E s \in Senders :
    \/ \E ks \in SUBSET Keys, n \in 0 .. MaxLen : Send(s, ks, n)
    \/ \E k \in Keys : WriteFile(s, k) \/ WriteFails(s, k)
    \/ Notify(s) \/ NotifyFails(s)

Spec == Init /\ [][Next]_vars

-----------------------------------------------------------------------------
\* Where the bytes of one send are in what a file holds after it: they are
\* all of it, its beginning (before what a longer earlier send left) or its
\* end (after all earlier sends).
HandedOver(f, d) ==
  /\ worker \in Truncating => f = d
  /\ worker = "csharp" => Len(d) <= Len(f) /\ \A i \in 1 .. Len(d) : f[i] = d[i]
  /\ worker = "java" =>
       Len(d) <= Len(f) /\ \A i \in 1 .. Len(d) : f[Len(f) - Len(d) + i] = d[i]

\* A send that returned, and whose writes did not fail unnoticed, handed over
\* all the data it was given, at the place the library writes it and with
\* nothing else if the library truncates: whatever earlier sends of the same
\* result left behind or failed, and whatever sends ran at the same time.
StoredIsSent ==
  \A k \in Keys \ swallowed : acked[k] # Unknown => HandedOver(stored[k], acked[k])

\* Whatever fails, the agent of a worker that truncates never stores a mixture
\* of what two sends of a result wrote.
NeverMixed ==
  worker \in Truncating =>
    \A k \in Keys : \A i, j \in DOMAIN stored[k] : stored[k][i] = stored[k][j]
=============================================================================
