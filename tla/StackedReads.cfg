SPECIFICATION Spec
CONSTANTS
  s = s
  t = t
  d = d
  a = a
  b = b
  Sessions = {s, t}
  Docs = {d}
  Keys <- MCKeys
  Holders = {}
  ContentDocs = {}
  ContentOf = {}
  AclDoc = AclDoc
  Tombstone = Tombstone
  ElidedVerdicts = {}
  Absent = Absent
  None = None
  NoBasis = NoBasis
  NoHolder = NoHolder
  Submissions <- Stacked
  Renumbered = {}
  MaxSeq = 5
INVARIANTS
  ReadCoherence
  NoStaleRead
