CONSTANTS
  Backup = {b1}
  NoBackup = NoBackup
  Restore = {r1}
  Seed = seed
  InstanceSources <- SeedSources
  RestoreSources <- AllSources
  UserMay = {"restore"}
  MaxEdits = 1
  MaxFaults = 0
SPECIFICATION FairSpec
CHECK_DEADLOCK FALSE
PROPERTIES
  RestoreEnds
  InstanceStarts
