CONSTANTS
  Storage = {s1, s2, s3}
  Backup = {b1}
  NoStorage = NoStorage
  NoBackup = NoBackup
  s1 = s1
  s2 = s2
  s3 = s3
  b1 = b1
  MaxRepos = 2
  FirstLists <- FullLists
  UserMay = {"switch", "add", "remove", "schedule", "storage", "class", "delete"}
  DataSourceStorages <- NoDataSource
  MaxEdits = 1
  MaxFaults = 1
  MaxRestores = 1
SPECIFICATION Spec
CHECK_DEADLOCK FALSE
SYMMETRY Symmetry
INVARIANTS
  TypeOK
  SlotsAgree
  CredentialsMatch
  UniqueStorages
PROPERTY
  SlotsAreSticky
