SPECIFICATION FairSpec
CONSTANTS
  Root = root
  Anna = anna
  Setup = c1
  Emails = {root, anna}
  Slots = {s1, s2, c1, m1}
  Containers = {c1}
  Manuals = {m1}
  AdminEmail = root
  Installed <- MC_Installed
  Bodies <- MC_Bodies
  MaxUsers = 2
  MaxRequests = 2
  MaxCrashes = 1
  Same = Same
  None = None
INVARIANT IInv
INVARIANT EmailsAreUnique
INVARIANT ServingIsReady
PROPERTY EditsKeepToTheirColumns
PROPERTY EditsTakeEffect
PROPERTY EveryContainerServes
