SPECIFICATION FairSpec
CONSTANTS
  NULL = NULL
  NaN = NaN
  BadAnswer = BadAnswer
  Tests = 2
  TimeLimit = 1
  CompileLimit = 1
  SetupBudget = 6
  PhaseSlack = 1
  DefaultTimeout = 900
  OutputLimit = 1
  StderrLimit = 1
  Unit = 8
  Grain = 2
  Objectives <- MCObjectives
  PipeRoom = 1
  MaxEvents = 2
  MaxStaging = 2
  Numbers <- MCNumbers
  Packages <- MCPackages
  Answers <- MCAnswers
INVARIANTS
  GradingTypeOK
  VerdictsAreEarned
  AcceptedCandidatesEnded
  StraysAreTimeouts
  PhasesGetTheirLimit
  LooserModesAcceptMore
  AuthorFaultsFail
  
  ClassicVerdictAgrees
  RatioAgainstBaseline
  ClassicFitsBudget
  FinalIsTheGraders
  DockerLeavesNothing
PROPERTIES
  EvaluationEnds
CHECK_DEADLOCK FALSE
