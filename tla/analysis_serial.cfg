SPECIFICATION FairSpec
CONSTANTS
  Resumes = {r1}
  JobDescriptions = {j1, j2}
  MaxId = 2
  None = None
  Requests = {h1}
  Callbacks = {c1}
  OutcomeSets <- OneOutcome
  LateAnswers = TRUE
  MayRetry = TRUE
  LostReports = TRUE
  MaxCrashes = 1
INVARIANTS
  ResultBelongsToPair
  SamePairSameAnalysis
  SerialInv
  AckedIsStored
PROPERTIES
  TerminalIsFinal
  EveryReportedAnalysisEnds
