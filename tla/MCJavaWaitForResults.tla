------------------------ MODULE MCJavaWaitForResults ------------------------
(* Model values for JavaWaitForResults: two results, in one or two chunks.  *)
EXTENDS JavaWaitForResults

CONSTANTS r1, r2

MCResults == {r1, r2}
MCResultIds == <<r1, r2>>
=============================================================================
