CONSTANTS
  Backup = {b1}
  NoBackup = NoBackup
  Restore = {r1}
  Seed = seed
  InstanceSources <- BackupSources
  RestoreSources <- BackupSources
  UserMay = {"delete", "careless"}
  MaxEdits = 1
  MaxFaults = 0
SPECIFICATION Spec
CHECK_DEADLOCK FALSE
INVARIANTS
  SuccessIsReal
