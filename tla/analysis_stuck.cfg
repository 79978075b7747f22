SPECIFICATION FairSpec
CONSTANTS
  Resumes = {r1}
  JobDescriptions = {j1}
  MaxId = 1
  None = None
  Requests = {h1}
  Callbacks = {c1}
  OutcomeSets <- OneOutcome
  LateAnswers = FALSE
  MayRetry = FALSE
  LostReports = FALSE
  MaxCrashes = 0
PROPERTIES
  EveryAnalysisEnds
