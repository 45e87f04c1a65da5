\* Two workers and one lost claim (also to a slow handler): analyses collide.
SPECIFICATION PipelineSpec
CONSTANTS
  Jobs = {1, 2, 3, 4, 5}
  Workers = {w1, w2}
  NoJob = NoJob
  MaxAttempts = 2
  MaxLost = 1
  SlowHandlers = TRUE
  Incidents = {i1}
  NoIncident = NoIncident
  Items = {e1}
  Channels <- OneChannel
  ProviderResults = {"ok", "failed"}
  MaxFaults = 0
SYMMETRY WorkerSymmetry
INVARIANTS
  PipelineTypeOK
  OneCurrentAnalysis
  PublishedVerdictIsCurrent
  CitationsExist
  PingsFollowAnalysis
PROPERTIES
  LifeIsKept
