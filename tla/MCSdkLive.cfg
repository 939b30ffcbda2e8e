SPECIFICATION Spec
CONSTANTS
  s1 = s1
  s2 = s2
  s3 = s3
  main = main
  helper = helper
  Spans <- TwoSpans
  Tasks <- OneTask
  Main = main
  Executor = Executor
  NoSpan = NoSpan
  MaxCalls = 2
PROPERTIES
  CapturedSpansSettle
  CallsReturn
