------------------------- MODULE MCCsWaitForResults -------------------------
(* Model values for CsWaitForResults: two buckets, the second of which      *)
(* repeats an id of the first, so that r2 is foreign to it.                 *)
EXTENDS CsWaitForResults

CONSTANTS r1, r2

MCResults == {r1, r2}
MCResultIds == <<r1, r2, r1>>
=============================================================================
