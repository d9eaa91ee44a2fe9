CONSTANTS
  Backup = {b1}
  NoBackup = NoBackup
  Restore = {r1}
  Seed = seed
  InstanceSources <- NoDataSource
  RestoreSources <- OwnStream
  UserMay = {"restore", "early"}
  MaxEdits = 1
  MaxFaults = 0
SPECIFICATION FairSpec
CHECK_DEADLOCK FALSE
PROPERTIES
  InstanceStarts
