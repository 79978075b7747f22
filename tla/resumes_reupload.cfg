SPECIFICATION Spec
CONSTANTS
  None = None
  Contents = {a}
  Extensions = {txt}
  Uploads = {u1}
  Deletes = {d1}
  MaxCrashes = 0
SYMMETRY Symmetry
INVARIANTS
  KnownFileIsReturned
