SPECIFICATION Spec
CONSTANTS
  ClientIds = {"a"}
  RowIds = {"x","y"}
  Refusable = {"y"}
  Sourceless = {"y"}
  Streams = {"s"}
  StreamOf <- OneStream
  MaxFaults = 1
  MayDeny = FALSE
  MayReplace = TRUE
  ReplaceEarly = FALSE
CHECK_DEADLOCK FALSE
INVARIANTS
  FiredOrder
  RowsKept
  MarkSound
PROPERTY
  IntentsKept
