SPECIFICATION Spec
CONSTANTS
  None = None
  Accounts = {a, b}
  Logins = {l1, l2}
  Verifies = {v1, v2}
  MaxCodes = 2
  MaxCrashes = 1
SYMMETRY Symmetry
INVARIANTS
  IInv
  SpentCodesAreGone
  FailedLoginLeavesNoCode
