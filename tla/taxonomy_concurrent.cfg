SPECIFICATION FairSpec
CONSTANTS
  First = python
  Second = java
  Third = sql
  Plain = plain
  Editor = anna
  Names = {python, java, sql}
  Categories = {plain}
  Actors = {anna, otto}
  Requests = {r1, r2}
  Bodies <- MC_Bodies
  Existing <- MC_Existing
  MaxSkills = 3
  MaxRequests = 3
  MaxCrashes = 1
  Same = Same
  None = None
INVARIANT IInv
INVARIANT NamesAreUnique
PROPERTY EditsKeepToTheirColumns
PROPERTY EditsTakeEffect
PROPERTY ImplementsTable
PROPERTY EveryRequestEnds
CHECK_DEADLOCK FALSE
