CONSTANTS
  Token = {t1, t2}
  NoToken = NoToken
  Secret = {x1, x2}
  UserMay = {"secret", "delete"}
  MaxEdits = 3
  MaxFaults = 1
SPECIFICATION FairSpec
CHECK_DEADLOCK FALSE
INVARIANTS
  TypeOK
  
  NothingIsLeft
PROPERTIES
  StaysMonitored
  MonitoringFollows
  DeletionEnds
