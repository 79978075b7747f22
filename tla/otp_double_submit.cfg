SPECIFICATION Spec
CONSTANTS
  None = None
  Accounts = {a}
  Logins = {l1}
  Verifies = {v1, v2}
  MaxCodes = 2
  MaxCrashes = 0
SYMMETRY Symmetry
INVARIANTS
  CodesAreSingleUse
