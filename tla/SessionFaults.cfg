SPECIFICATION Spec
CONSTANTS
  MaxConns = 3
  MaxCommits = 2
  MaxTroubles = 2
  AclActive = TRUE
CHECK_DEADLOCK FALSE
INVARIANTS NotLockedOut VerdictTrue OwnerAgrees
PROPERTY CallKept
