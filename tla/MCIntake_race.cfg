\* Two deliveries of one outage at the same time.
SPECIFICATION IntakeSpec
CONSTANTS
  Deliveries = {d1, d2}
  Incidents = {1, 2}
  Batches <- OneOutage
  Threshold = 3
  Free = Free
  Engineer = Engineer
  MaxRetries = 0
  MaxResolved = 0
INVARIANTS
  OneOutageOneRow
