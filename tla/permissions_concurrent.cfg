SPECIFICATION FairSpec
CONSTANTS
  None = None
  Users = {u}
  Permissions = {a, b}
  Edits = {e1, e2, e3}
  MaxEdits = 3
  MaxCrashes = 1
INVARIANTS
  GrantsAreUnique
  IInv
PROPERTIES
  EditRemovesWhatItSaw
  EveryEditEnds
CHECK_DEADLOCK FALSE
