SPECIFICATION Spec
CONSTANTS
  s = s
  t = t
  g = g
  h = h
  receipt = receipt
  content = content
  data = data
  acl = acl
  a = a
  Sessions = {s, t, g, h}
  Docs = {receipt, content, data, acl}
  Keys <- MCKeys
  Holders = {g, h}
  ContentDocs = {content}
  ContentOf <- MCContentOf
  AclDoc = acl
  Tombstone = Tombstone
  ElidedVerdicts = {}
  Absent = Absent
  None = None
  NoBasis = NoBasis
  NoHolder = NoHolder
  Submissions <- Admission
  Renumbered <- Renumberings
  MaxSeq = 4
INVARIANTS
  TypeOK
  UniqueResolution
  AnswersAgree
  ReceiptOnce
  ContentImmutable
  AcceptedNeverRefused
  DeletionIsFinal
