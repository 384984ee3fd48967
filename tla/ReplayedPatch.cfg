SPECIFICATION Spec
CONSTANTS
  Docs = {d}
  MaxCommits = 2
  MaxForeign = 0
  MaxFaults = 1
  ReadUnsettled = TRUE
CHECK_DEADLOCK FALSE
INVARIANT SeenIsStored
