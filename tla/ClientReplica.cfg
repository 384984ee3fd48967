SPECIFICATION Spec
CONSTANTS
  Docs = {d}
  MaxCommits = 2
  MaxForeign = 1
  MaxFaults = 2
  ReadUnsettled = FALSE
CHECK_DEADLOCK FALSE
INVARIANTS MirrorTrue SeenIsStored DroppedNotStored QuietView
PROPERTIES RepairedBase Settles
