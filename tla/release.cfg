SPECIFICATION Spec
CONSTANTS
  Build = {0, 1, 2}
  Mig <- Migrations
  Irreversible = {}
  Engines = {TRUE, FALSE}
  Histories = {TRUE, FALSE}
  Retention = 1
  MaxDeploys = 3
  MaxFaults = 2
  MaxWrites = 1
  Backups = {"b1", "b2"}
  Keep = 3
  MaxOps = 4
  MaxSeconds = 1
  MaxFailures = 1
INVARIANTS FallbackKept ServesOwnSchema WritesKept  
PROPERTY ServesAgain
CHECK_DEADLOCK FALSE
