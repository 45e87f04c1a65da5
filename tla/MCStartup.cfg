SPECIFICATION FairStartupSpec
CONSTANTS
  new = new
  other = other
  old = old
  Servers = {new, old}
  Migrators = {other}
  Workers = {w1, w2}
  Release <- Releases
  JobsVersion = 3
  MaxCrashes = 3
INVARIANTS
  StartupTypeOK
  AppliedOnceInOrder
  ServesMigrated
PROPERTIES
  AllComeUp
