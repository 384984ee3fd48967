\* What the host owes its clients in the end, with no rival process.
SPECIFICATION FairSpec
CONSTANTS
  Kinds = {"event", "warm", "delete"}
  Servers = {s1}
  NoServer = NoServer
  MaxSeq = 2
  MaxOpens = 1
  MaxFailures = 2
  MaxRivalries = 0
  MayClose = TRUE
CHECK_DEADLOCK FALSE
PROPERTIES EventsServed SessionServed WarmServed DeletionEndsService CloseReturned
