SPECIFICATION Spec
CONSTANTS
  ClientIds = {"a", "b", "c"}
  RowIds = {}
  Refusable = {"b"}
  Sourceless = {}
  Streams = {"s", "t"}
  StreamOf <- TwoStreams
  MaxFaults = 2
  MayDeny = TRUE
  MayReplace = TRUE
  ReplaceEarly = FALSE
CHECK_DEADLOCK FALSE
INVARIANTS
  FiredOrder
  NothingStranded
