SPECIFICATION Spec
CONSTANTS
  s1 = s1
  s2 = s2
  s3 = s3
  main = main
  helper = helper
  Spans <- ThreeSpans
  Tasks <- TwoTasks
  Main = main
  Executor = Executor
  NoSpan = NoSpan
  MaxCalls = 1
SYMMETRY SameSpans
INVARIANTS
  TypeOK
  OfferedOnce
  NothingLeftBehind
  AncestorsFirst
  FlushCoversExits
