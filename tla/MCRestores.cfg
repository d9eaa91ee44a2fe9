CONSTANTS
  Backup = {b1}
  NoBackup = NoBackup
  Restore = {r1}
  Seed = seed
  InstanceSources <- SeedSources
  RestoreSources <- AllSources
  UserMay = {"list", "restore", "cancel", "backup", "delete", "other"}
  MaxEdits = 2
  MaxFaults = 1
SPECIFICATION Spec
CHECK_DEADLOCK FALSE
INVARIANTS
  TypeOK
  RestoreIsSeen
  OwnRepoOnly
  SeededFromSource
PROPERTY
  KeepsContract
