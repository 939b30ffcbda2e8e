SPECIFICATION Spec
CONSTANTS
  Parts = {"counterfactual", "shadow", "judge", "drift", "views", "plist"}
  Sources = {1, 2, 3}
  WithInput = {1, 2}
  Unfit = {2}
  Matured = {1}
  MaxCases = 2
  Command = Command
  Worker = Worker
  Handles = {p1, p2}
  Callers = {o1, o2}
  LiveSources = {1}
  MaxSubmits = 3
  Budget = 2
  NoJob = NoJob
  Judged = {1, 2}
  Recent = {2}
  SelfMade = {1}
  JudgeCommands = {p1, p2}
  Scores = {2, 5}
  MaxSent = 2
  MaxVerdicts = 2
  MaxStarts = 2
  MinPairs = 2
  MinSuccesses = 1
  Kinds = {0, 1, 2, 3, 4}
  NoType = 1
  Versions = {"v1", ""}
  NoVersion = ""
  Tenths = {0, 4, 5, 10}
  Bounds <- MCBounds
  TraceValues <- MCTraceValues
  NoValue = NoValue
  PastSamples <- MCPast
  RecentSamples <- MCRecent
  MaxLabels = 1
  MinBaseline = 1
  MinRecent = 1
  EvaluationSamples = 2
  HalfReference = 1
  Warning = 1
  Alert = 3
  MaxSamples = 3
  Filed = {1, 2, 3, 4}
  TenthsOf <- MCTenthsOf
  PageSize = 1
  Spans = {p1, p2, s3}
  NoParent = NoParent
  NoCursor = NoCursor
  Operators = {p1, p2}
  Owned = {o1, o2}
  Foreign = {f1, f2}
  NoEntry = NoEntry
SYMMETRY Interchangeable
CHECK_DEADLOCK FALSE
INVARIANTS
  EvaluationTypeOK
  RunsKeepTheirWord
  ShadowKeepsBooks
  CalibrationMatchesHistory
  BaselineReadsBack
  VerdictShowsWorstShift
  ViewsShowEverything
PROPERTIES
  ForeignFilesSurvive
