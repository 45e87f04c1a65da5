\* The provider always errs, one claim is lost and one statement fails.
SPECIFICATION PipelineFairSpec
CONSTANTS
  Jobs = {1, 2, 3, 4, 5, 6, 7}
  Workers = {w1, w2}
  NoJob = NoJob
  MaxAttempts = 3
  MaxLost = 1
  SlowHandlers = FALSE
  Incidents = {i1}
  NoIncident = NoIncident
  Items = {}
  Channels <- OneChannel
  ProviderResults = {"failed"}
  MaxFaults = 1
INVARIANTS
  NextStepIsQueued
  PingsPaidFor
PROPERTIES
  EventuallyPublished
  EventuallyNotified
