CONSTANTS
  Storage = {s1, s2}
  Backup = {b1}
  NoStorage = NoStorage
  NoBackup = NoBackup
  s1 = s1
  s2 = s2
  b1 = b1
  MaxRepos = 2
  FirstLists <- ShortLists
  UserMay = {"add", "delete"}
  DataSourceStorages <- NoDataSource
  MaxEdits = 1
  MaxFaults = 0
  MaxRestores = 1
SPECIFICATION FairSpec
CHECK_DEADLOCK FALSE
PROPERTIES
  BackupIsTaken
  InstanceSettles
  ClusterFollows
