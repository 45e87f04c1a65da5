\* Two executions of the collect job that may follow each other or overlap.
SPECIFICATION CaptureSpec
CONSTANTS
  u1 = u1
  u2 = u2
  p1 = p1
  p2 = p2
  None = None
  NaN = NaN
  PosInf = PosInf
  NegInf = NegInf
  Junk = Junk
  MaxSeries = 3
  TrendPoints = 3
  MaxExecutions = 2
  Alerts <- SomeAlerts
  Answers <- SomeAnswers
CHECK_DEADLOCK FALSE
INVARIANTS
  CaptureTypeOK
  ServedWhileConfigured
  SnapshotsAreWhole
  OverwrittenOnlyByRerun
  
  SummaryFaithful
