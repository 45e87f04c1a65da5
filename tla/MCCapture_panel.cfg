\* The job is executed once, for alerts that name their panels in different ways.
SPECIFICATION CaptureSpec
CONSTANTS
  u1 = u1
  u2 = u2
  p1 = p1
  p2 = p2
  None = None
  NaN = NaN
  PosInf = PosInf
  NegInf = NegInf
  Junk = Junk
  MaxSeries = 3
  TrendPoints = 3
  MaxExecutions = 1
  Alerts <- SomeAlerts
  Answers <- OneAnswer
CHECK_DEADLOCK FALSE
INVARIANT PanelOfAnAlert
