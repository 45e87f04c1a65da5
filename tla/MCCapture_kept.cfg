\* The collect job is executed twice.
SPECIFICATION CaptureSpec
CONSTANTS
  u1 = u1
  u2 = u2
  p1 = p1
  p2 = p2
  None = None
  NaN = NaN
  PosInf = PosInf
  NegInf = NegInf
  Junk = Junk
  MaxSeries = 3
  TrendPoints = 3
  MaxExecutions = 2
  Alerts <- OneAlert
  Answers <- OneAnswer
CHECK_DEADLOCK FALSE
INVARIANT CaptureKept
