SPECIFICATION CalmOrNotSpec
CONSTANTS
  NumInvocations = 3
  Few = {1, 2}
  InspectLimit = 2
  RecoverLimit = 1
  StaleAfter = 2
  MaxTime = 3
  Faults = {"crash", "store"}
INVARIANTS
  TypeOK
  HistoryIsTrue
  DuplicateNeedsLoss
  RecoveryIsContained
PROPERTIES
  SettledIsFinal
  OwnerAttemptsFirst
  InvocationsEnd
