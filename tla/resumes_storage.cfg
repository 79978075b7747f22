SPECIFICATION FairSpec
CONSTANTS
  None = None
  Contents = {a}
  Extensions = {pdf, txt}
  Uploads = {u1, u2}
  Deletes = {d1, d2}
  MaxCrashes = 1
INVARIANTS
  IInv
  RowsHaveTheirFile
  AuditMatchesRows
  TruncatedFilesHaveAWriter
PROPERTIES
  RowsArePermanent
  EveryUploadEnds
  FileIsCompleteAgain
