SPECIFICATION FairSpec
CONSTANTS
  Calls = {c1, c2, c3}
INVARIANTS NoOrphanHandler ReplyIsTheHandlers OnlyCancelKills
PROPERTIES CancelSettles
CHECK_DEADLOCK FALSE
