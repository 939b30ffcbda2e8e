SPECIFICATION Spec
CONSTANTS
  p1 = p1
  p2 = p2
  none = none
  Emitters <- MCEmitters
  Traces <- MCTraces
  Events <- SmallEvents
  NoTrace = none
  NoEvent = none
  KindOf <- SmallKindOf
  TraceOf <- SmallTraceOf
  DecisionOf <- SmallDecisionOf
  Capacity = 1
  Faults = {}
INVARIANTS
  LossBeforeCloseMarksPartial
