\* Safety of one space's tenures, with a rival process and the host's close.
SPECIFICATION Spec
CONSTANTS
  Kinds = {"event", "warm", "authored", "system", "delete"}
  Servers = {s1, s2}
  NoServer = NoServer
  MaxSeq = 2
  MaxOpens = 2
  MaxFailures = 2
  MaxRivalries = 1
  MayClose = TRUE
SYMMETRY Symmetry
CHECK_DEADLOCK FALSE
INVARIANTS ServesUnderLease ClosedIsQuiet EventReachable
