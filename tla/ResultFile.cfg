SPECIFICATION Spec
CONSTANTS
  Workers = {"python", "cpp", "csharp", "java"}
  Keys = {k1, k2}
  Senders = {s1, s2}
  MaxSends = 3
  MaxLen = 2
INVARIANTS StoredIsSent NeverMixed
CHECK_DEADLOCK FALSE
