SPECIFICATION CounterfactualSpec
CONSTANTS
  Sources = {1, 2}
  WithInput = {1}
  Unfit = {2}
  Matured = {1}
  MaxCases = 2
  Command = Command
  Worker = Worker
CHECK_DEADLOCK FALSE
INVARIANTS
  CasesPersistIndependently
