CONSTANTS
  Storage = {s1, s2}
  Backup = {b1}
  NoStorage = NoStorage
  NoBackup = NoBackup
  s1 = s1
  s2 = s2
  b1 = b1
  MaxRepos = 2
  FirstLists <- ShortLists
  UserMay = {"add", "remove"}
  DataSourceStorages <- NoDataSource
  MaxEdits = 2
  MaxFaults = 0
  MaxRestores = 0
SPECIFICATION Spec
CHECK_DEADLOCK FALSE
SYMMETRY Symmetry
INVARIANT
  DataInItsStorage
