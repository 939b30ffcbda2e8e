SPECIFICATION Spec
CONSTANTS
  p1 = p1
  p2 = p2
  none = none
  Emitters <- MCEmitters
  Traces <- MCTraces
  Events <- MCEvents
  NoTrace = none
  NoEvent = none
  KindOf <- MCKindOf
  TraceOf <- MCTraceOf
  DecisionOf <- MCDecisionOf
  Capacity = 1
  Faults = {"write", "mark"}
SYMMETRY Threads
INVARIANTS
  TypeOK
  Accounting
  DrainedBeforeExit
  EarlyLossClosesPartial
  PartialMeansLoss
PROPERTIES
  PartialIsSticky
