------------------------- MODULE MCPyWaitForResults -------------------------
(* Model values for PyWaitForResults: two results, one batch or two.        *)
EXTENDS PyWaitForResults

CONSTANTS r1, r2

MCResults == {r1, r2}
MCResultIds == <<r1, r2>>
=============================================================================
