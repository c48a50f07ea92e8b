-------------------------- MODULE ResultFileProof --------------------------
(***************************************************************************)
(* What the agents of the four worker libraries store, for any number of   *)
(* results, concurrent calls, sends and bytes.                             *)
(***************************************************************************)
EXTENDS ResultFile, TLAPS

\* All bytes of a sequence come from the same send.
OneSend(q) == \A i, j \in DOMAIN q : q[i] = q[j]

Bytes == Seq(Nat)

Types ==
  /\ worker \in {"python", "cpp", "csharp", "java"}
  /\ file \in [Keys -> Bytes]
  /\ stored \in [Keys -> Bytes]
  /\ acked \in [Keys -> Bytes]
  /\ batch \in [Senders -> SUBSET Keys]
  /\ left \in [Senders -> SUBSET Keys]
  /\ data \in [Senders -> Bytes]
  /\ sends \in Nat
  /\ swallowed \in SUBSET Keys

\* No two calls send the same result at the same time, and a result that is
\* being sent is not acknowledged.
Exclusive ==
  /\ \A s \in Senders : left[s] \subseteq batch[s]
  /\ \A s, t \in Senders : s # t => batch[s] \cap batch[t] = {}
  /\ \A s \in Senders : \A k \in batch[s] : acked[k] = Unknown

\* What a call has written and not notified yet is still in the files.
WrittenStays ==
  \A s \in Senders : \A k \in batch[s] \ left[s] : k \notin swallowed => HandedOver(file[k], data[s])

Unmixed ==
  /\ worker \in Truncating
  /\ \A s \in Senders : OneSend(data[s])
  /\ \A k \in Keys : OneSend(file[k]) /\ OneSend(stored[k])

SentInv == Types /\ Exclusive /\ WrittenStays /\ StoredIsSent
MixInv == Types /\ Unmixed

-----------------------------------------------------------------------------
\* What a truncated file holds is what was written last.
LEMMA TruncatedIsNew ==
  ASSUME worker \in Truncating, NEW old, NEW new
  PROVE  Written(old, new) = new
BY DEF Written, Truncating

\* Writing over a file, or appending to it, keeps all that is written.
LEMMA WrittenFacts ==
  ASSUME Types, NEW old \in Bytes, NEW new \in Bytes
  PROVE  Written(old, new) \in Bytes /\ HandedOver(Written(old, new), new)
<1>1. CASE worker \in Truncating
  BY <1>1 DEF Written, HandedOver, Truncating
<1>2. CASE worker = "csharp"
  <2> DEFINE tail == SubSeq(old, Len(new) + 1, Len(old))
  <2>1. Written(old, new) = new \o tail  BY <1>2 DEF Written, Truncating
  <2>2. tail \in Bytes  BY DEF Bytes
  <2> HIDE DEF tail
  <2>3. /\ new \o tail \in Bytes
        /\ Len(new \o tail) = Len(new) + Len(tail)
        /\ Len(new) \in Nat /\ Len(tail) \in Nat
        /\ \A i \in 1 .. Len(new) : (new \o tail)[i] = new[i]
    BY <2>2 DEF Bytes
  <2> QED  BY <1>2, <2>1, <2>3 DEF HandedOver, Truncating
<1>3. CASE worker = "java"
  <2>1. Written(old, new) = old \o new  BY <1>3 DEF Written, Truncating
  <2>2. /\ old \o new \in Bytes
        /\ Len(old \o new) = Len(old) + Len(new)
        /\ Len(old) \in Nat /\ Len(new) \in Nat
        /\ \A i \in 1 .. Len(new) : (old \o new)[Len(old) + i] = new[i]
    BY DEF Bytes
  <2>3. Len(old \o new) - Len(new) = Len(old)  BY <2>2
  <2> QED  BY <1>3, <2>1, <2>2, <2>3 DEF HandedOver, Truncating
<1> QED  BY <1>1, <1>2, <1>3 DEF Types, Truncating

\* No step changes the library, nor what it means that data is handed over.
LEMMA SameWorker ==
  ASSUME [Next]_vars
  PROVE  worker' = worker /\ \A f, d : HandedOver(f, d)' <=> HandedOver(f, d)
<1>1. worker' = worker
  BY DEF Next, Send, WriteFile, WriteFails, Notify, NotifyFails, vars
<1> QED  BY <1>1 DEF HandedOver

\* A part of the data of one send is data of one send.
LEMMA PrefixFacts ==
  ASSUME NEW q \in Bytes, NEW n \in 0 .. Len(q)
  PROVE  /\ SubSeq(q, 1, n) \in Bytes
         /\ OneSend(q) => OneSend(SubSeq(q, 1, n))
<1>1. /\ SubSeq(q, 1, n) \in Bytes
      /\ Len(SubSeq(q, 1, n)) = n
      /\ \A i \in 1 .. n : SubSeq(q, 1, n)[i] = q[i]
  BY DEF Bytes
<1>2. DOMAIN SubSeq(q, 1, n) = 1 .. n /\ DOMAIN q = 1 .. Len(q)
  BY <1>1 DEF Bytes
<1> QED  BY <1>1, <1>2 DEF OneSend, Bytes

\* The bytes of a send are its number, over and over.
LEMMA DataFacts ==
  ASSUME NEW n \in Nat, NEW b \in Nat
  PROVE  [i \in 1 .. n |-> b] \in Bytes /\ OneSend([i \in 1 .. n |-> b])
BY DEF Bytes, OneSend

\* Every step keeps the types.
LEMMA TypesStep ==
  ASSUME Types, [Next]_vars
  PROVE  Types'
<1> USE ResultFileAssumption
<1>1. ASSUME NEW s \in Senders, NEW ks \in SUBSET Keys, NEW n \in 0 .. MaxLen, Send(s, ks, n)
      PROVE  Types'
  <2>1. n \in Nat /\ sends + 1 \in Nat  BY DEF Types
  <2>2. [i \in 1 .. n |-> sends + 1] \in Bytes  BY <2>1, DataFacts
  <2>3. Unknown \in Bytes  BY DEF Unknown, Bytes
  <2> QED  BY <1>1, <2>1, <2>2, <2>3 DEF Types, Send
<1>2. ASSUME NEW s \in Senders, NEW k \in Keys, WriteFile(s, k)
      PROVE  Types'
  <2>1. Written(file[k], data[s]) \in Bytes  BY WrittenFacts DEF Types
  <2> QED  BY <1>2, <2>1 DEF Types, WriteFile
<1>3. ASSUME NEW s \in Senders, NEW k \in Keys, WriteFails(s, k)
      PROVE  Types'
  <2>1. file' \in [Keys -> Bytes]
    <3>1. CASE UNCHANGED file  BY <3>1 DEF Types
    <3>2. ASSUME NEW n \in 0 .. Len(data[s]),
                 file' = [file EXCEPT ![k] = Written(@, SubSeq(data[s], 1, n))]
          PROVE  file' \in [Keys -> Bytes]
      <4>1. SubSeq(data[s], 1, n) \in Bytes  BY PrefixFacts DEF Types
      <4>2. Written(file[k], SubSeq(data[s], 1, n)) \in Bytes
        BY <4>1, WrittenFacts DEF Types
      <4> QED  BY <3>2, <4>2 DEF Types
    <3> QED  BY <1>3, <3>1, <3>2 DEF WriteFails
  <2> QED  BY <1>3, <2>1 DEF Types, WriteFails
<1>4. ASSUME NEW s \in Senders, Notify(s) \/ NotifyFails(s)
      PROVE  Types'
  BY <1>4 DEF Types, Notify, NotifyFails, Store
<1>5. CASE UNCHANGED vars  BY <1>5 DEF Types, vars
<1> QED  BY <1>1, <1>2, <1>3, <1>4, <1>5 DEF Next

-----------------------------------------------------------------------------
\* At first nothing was sent.
LEMMA InitFacts == Init => SentInv /\ (worker \in Truncating => MixInv)
BY ResultFileAssumption
DEF Init, SentInv, MixInv, Types, Exclusive, WrittenStays, StoredIsSent, Unmixed,
    OneSend, Bytes, Nothing, Unknown

\* A step keeps the files of the other calls, and stores what the call was
\* given.
LEMMA SentStep ==
  ASSUME SentInv, [Next]_vars
  PROVE  SentInv'
<1> USE ResultFileAssumption DEF SentInv
<1>0. Types'  BY TypesStep
<1>same. worker' = worker /\ \A f, d : HandedOver(f, d)' <=> HandedOver(f, d)
  BY SameWorker
<1>1. ASSUME NEW s \in Senders, NEW ks \in SUBSET Keys, NEW n \in 0 .. MaxLen, Send(s, ks, n)
      PROVE  SentInv'
  <2>1. Exclusive'  BY <1>0, <1>1 DEF Types, Exclusive, Send
  <2>2. WrittenStays' /\ StoredIsSent'
    BY <1>0, <1>same, <1>1 DEF Types, Exclusive, WrittenStays, StoredIsSent, Send
  <2> QED  BY <1>0, <2>1, <2>2
<1>2. ASSUME NEW s \in Senders, NEW k \in Keys, WriteFile(s, k)
      PROVE  SentInv'
  <2>1. HandedOver(Written(file[k], data[s]), data[s])  BY WrittenFacts DEF Types
  <2>2. /\ file' = [file EXCEPT ![k] = Written(file[k], data[s])]
        /\ left' = [left EXCEPT ![s] = @ \ {k}] /\ k \in left[s]
        /\ UNCHANGED <<worker, stored, acked, batch, data, sends, swallowed>>
    BY <1>2 DEF WriteFile, Types
  <2>3. Exclusive' /\ StoredIsSent'
    BY <2>2 DEF Types, Exclusive, StoredIsSent, HandedOver
  <2>4. ASSUME NEW t \in Senders, NEW q \in batch'[t] \ left'[t], q \notin swallowed'
        PROVE  HandedOver(file[q], data[t])'
    <3>1. CASE q = k
      <4>1. t = s  BY <2>2, <2>4, <3>1 DEF Types, Exclusive
      <4>2. file'[q] = Written(file[k], data[s])  BY <2>2, <3>1 DEF Types
      <4> QED  BY <2>1, <2>2, <4>1, <4>2 DEF HandedOver
    <3>2. CASE q # k
      <4>1. file'[q] = file[q] /\ q \in batch[t] \ left[t]
        BY <2>2, <2>4, <3>2 DEF Types
      <4>2. HandedOver(file[q], data[t])  BY <2>2, <2>4, <4>1 DEF WrittenStays
      <4> QED  BY <2>2, <4>1, <4>2 DEF HandedOver
    <3> QED  BY <3>1, <3>2
  <2>5. WrittenStays'  BY <2>4 DEF WrittenStays
  <2> QED  BY <1>0, <2>3, <2>5
<1>3. ASSUME NEW s \in Senders, NEW k \in Keys, WriteFails(s, k)
      PROVE  SentInv'
  <2>1. \A q \in Keys \ {k} : file'[q] = file[q]  BY <1>3 DEF WriteFails, Types
  <2>2. Exclusive' /\ StoredIsSent'
    BY <1>0, <1>same, <1>3 DEF Types, Exclusive, StoredIsSent, WriteFails
  <2>3. WrittenStays'
    BY <1>same, <1>3, <2>1 DEF Types, Exclusive, WrittenStays, WriteFails
  <2> QED  BY <1>0, <2>2, <2>3
<1>4. ASSUME NEW s \in Senders, Notify(s)
      PROVE  SentInv'
  BY <1>0, <1>same, <1>4
  DEF Types, Exclusive, WrittenStays, StoredIsSent, Notify, Notifying, Store
<1>5. ASSUME NEW s \in Senders, NotifyFails(s)
      PROVE  SentInv'
  BY <1>0, <1>same, <1>5
  DEF Types, Exclusive, WrittenStays, StoredIsSent, NotifyFails, Notifying, Store
<1>6. CASE UNCHANGED vars
  BY <1>0, <1>same, <1>6 DEF Exclusive, WrittenStays, StoredIsSent, vars
<1> QED  BY <1>1, <1>2, <1>3, <1>4, <1>5, <1>6 DEF Next

\* A step of a worker that truncates its files mixes no two sends, even if
\* it does not notice that a write failed.
LEMMA MixStep ==
  ASSUME MixInv, [Next]_vars
  PROVE  MixInv'
<1> USE ResultFileAssumption DEF MixInv
<1>0. Types' /\ worker' \in Truncating  BY TypesStep, SameWorker DEF Unmixed
<1>1. ASSUME NEW s \in Senders, NEW ks \in SUBSET Keys, NEW n \in 0 .. MaxLen, Send(s, ks, n)
      PROVE  Unmixed'
  <2>0. n \in Nat /\ sends + 1 \in Nat  BY DEF Types
  <2>1. OneSend([i \in 1 .. n |-> sends + 1])  BY <2>0, DataFacts
  <2>2. data' = [data EXCEPT ![s] = [i \in 1 .. n |-> sends + 1]] /\ UNCHANGED <<file, stored>>
    BY <1>1 DEF Send
  <2>3. \A t \in Senders : data'[t] = data[t] \/ data'[t] = [i \in 1 .. n |-> sends + 1]
    BY <2>2 DEF Types
  <2>4. \A t \in Senders : OneSend(data'[t])  BY <2>1, <2>3 DEF Unmixed
  <2> QED  BY <1>0, <2>2, <2>4 DEF Unmixed
<1>2. ASSUME NEW s \in Senders, NEW k \in Keys, WriteFile(s, k)
      PROVE  Unmixed'
  <2>1. file' = [file EXCEPT ![k] = data[s]] /\ UNCHANGED <<data, stored>>
    BY <1>2, TruncatedIsNew DEF WriteFile, Types, Unmixed
  <2>2. \A q \in Keys : file'[q] = file[q] \/ file'[q] = data[s]
    BY <2>1 DEF Types
  <2> QED  BY <1>0, <2>1, <2>2 DEF Unmixed
<1>3. ASSUME NEW s \in Senders, NEW k \in Keys, WriteFails(s, k)
      PROVE  Unmixed'
  <2>1. \A q \in Keys : OneSend(file'[q])
    <3>1. CASE UNCHANGED file  BY <3>1 DEF Unmixed
    <3>2. ASSUME NEW n \in 0 .. Len(data[s]),
                 file' = [file EXCEPT ![k] = Written(@, SubSeq(data[s], 1, n))]
          PROVE  \A q \in Keys : OneSend(file'[q])
      <4>1. file' = [file EXCEPT ![k] = SubSeq(data[s], 1, n)]
        BY <3>2, TruncatedIsNew DEF Types, Unmixed
      <4>2. OneSend(SubSeq(data[s], 1, n))
        BY PrefixFacts DEF Types, Unmixed
      <4>3. \A q \in Keys : file'[q] = file[q] \/ file'[q] = SubSeq(data[s], 1, n)
        BY <4>1 DEF Types
      <4> QED  BY <4>2, <4>3 DEF Unmixed
    <3> QED  BY <1>3, <3>1, <3>2 DEF WriteFails
  <2> QED  BY <1>3, <2>1 DEF Unmixed, WriteFails
<1>4. ASSUME NEW s \in Senders, Notify(s) \/ NotifyFails(s)
      PROVE  Unmixed'
  <2>1. \A q \in Keys : stored'[q] = stored[q] \/ stored'[q] = file[q]
    BY <1>4 DEF Types, Notify, NotifyFails, Store
  <2> QED  BY <1>4, <2>1 DEF Unmixed, Notify, NotifyFails
<1>5. CASE UNCHANGED vars
  <2>1. UNCHANGED <<data, file, stored>>  BY <1>5 DEF vars
  <2> QED  BY <1>0, <2>1 DEF Unmixed
<1> QED  BY <1>0, <1>1, <1>2, <1>3, <1>4, <1>5 DEF Next

-----------------------------------------------------------------------------
\* Each of the four libraries, for every task: a send that returned, and whose
\* writes did not fail unnoticed, handed over all that it was given; in Python
\* and C++ exactly that, in C# at the beginning and in Java at the end of what
\* earlier sends may have left.
THEOREM SentIsStored == Spec => []StoredIsSent
<1>1. Init => SentInv  BY InitFacts
<1>2. SentInv /\ [Next]_vars => SentInv'  BY SentStep
<1>3. SentInv => StoredIsSent  BY DEF SentInv
<1> QED  BY <1>1, <1>2, <1>3, PTL DEF Spec

\* Python and C++: whether or not failed writes are noticed, the agent stores
\* no mixture of two sends.
THEOREM TruncationNeverMixes == Spec => []NeverMixed
<1> DEFINE Inv == worker \in Truncating => MixInv
<1>1. Init => Inv  BY InitFacts
<1>2. Inv /\ [Next]_vars => Inv'  BY MixStep, SameWorker
<1>3. Inv => NeverMixed  BY DEF MixInv, Unmixed, OneSend, NeverMixed
<1> QED  BY <1>1, <1>2, <1>3, PTL DEF Spec
=============================================================================
