----------------------- MODULE MCCsTaskRequestStream ------------------------
(* Batches of up to MaxTasks tasks, with payloads on both sides of the      *)
(* chunk size, empty ones and an empty batch included.                      *)
EXTENDS CsTaskRequestStream

CONSTANTS MaxTasks, MaxPayload

MCBatches == UNION {[1 .. n -> 0 .. MaxPayload] : n \in 0 .. MaxTasks}
=============================================================================
