SPECIFICATION NotebookSpec
CONSTANTS
  Nobody = Nobody
  Incidents = {i1, i2}
  Items = {e1, e2}
  Engineers = {g1, g2}
  Alike <- AllAlike
  MaxSimilar = 3
  MaxAnalyses = 2
  MaxReviews = 2
SYMMETRY NotebookSymmetry
CONSTRAINT PagesApart
INVARIANTS
  NotebookTypeOK
  AuditTellsState
  PageCitesAll
PROPERTIES
  CitedOnceTrusted
  LearnedFromVerified
  ReviewKeepsLife
