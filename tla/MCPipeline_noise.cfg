\* One worker, no lost claim.
SPECIFICATION PipelineSpec
CONSTANTS
  Jobs = {1, 2, 3, 4}
  Workers = {w1}
  NoJob = NoJob
  MaxAttempts = 3
  MaxLost = 0
  SlowHandlers = FALSE
  Incidents = {i1}
  NoIncident = NoIncident
  Items = {}
  Channels <- OneChannel
  ProviderResults = {"ok", "failed"}
  MaxFaults = 0
INVARIANTS
  NoiseIsQuiet
