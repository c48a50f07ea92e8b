------------------------------ MODULE Buckets -------------------------------
(***************************************************************************)
(* How the waiters cut the list of result ids into buckets of at most      *)
(* BucketSize consecutive ids: ToChunks in C#, chunkList in Java, batched  *)
(* in Python.  Bucket b holds the ids at the positions i with              *)
(* BucketOf(i) = b; a caller may pass the same id several times.           *)
(***************************************************************************)
EXTENDS Naturals, Sequences

CONSTANTS ResultIds,    \* the sequence of ids passed to the call
          BucketSize,   \* ids per subscription
          Parallelism   \* buckets processed at the same time

ASSUME BucketsAssumption ==
  /\ BucketSize \in Nat \ {0}
  /\ Parallelism \in Nat \ {0}

Awaited == {ResultIds[i] : i \in DOMAIN ResultIds}

BucketOf(i) == ((i - 1) \div BucketSize) + 1

Buckets == {BucketOf(i) : i \in DOMAIN ResultIds}

Bucket(b) == {ResultIds[i] : i \in {j \in DOMAIN ResultIds : BucketOf(j) = b}}
=============================================================================
