SPECIFICATION Spec
CONSTANTS
  Resumes = {r1}
  JobDescriptions = {j1}
  MaxId = 2
  None = None
  Requests = {h1, h2}
  Callbacks = {c1}
  OutcomeSets <- OneOutcome
  LateAnswers = FALSE
  MayRetry = TRUE
  LostReports = FALSE
  MaxCrashes = 0
SYMMETRY Symmetry
INVARIANTS
  SamePairSameAnalysis
