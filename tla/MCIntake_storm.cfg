\* Two deliveries of mixed batches in any overlap, and one redelivery.
SPECIFICATION IntakeSpec
CONSTANTS
  Deliveries = {d1, d2}
  Incidents = {1, 2, 3}
  Batches <- MixedBatches
  Threshold = 3
  Free = Free
  Engineer = Engineer
  MaxRetries = 1
  MaxResolved = 2
SYMMETRY DeliverySymmetry
INVARIANTS
  IntakeTypeOK
  RivalsOverlap
  OneCollectJob
  AcceptedIsOnFile
PROPERTIES
  ClosedTakesNoAlerts
