CONSTANTS
  v14 = v14
  v17 = v17
  v18 = v18
  Version = {v14, v17, v18}
  NoVersion = NoVersion
  OwnImage = OwnImage
  Major <- MajorOf
  Catalogs <- Releases
  Choices <- AllChoices
  First <- FirstChoices
  UserMay = {"restore", "secret"}
  MaxEdits = 1
  MaxFaults = 1
SPECIFICATION FairSpec
CHECK_DEADLOCK FALSE
INVARIANTS
  TypeOK
  AcceptedSyncs
  RunsItsMajor
  SpreadAsStated
  EndpointServes
  NoLostWakeup
PROPERTIES
  ReportCatchesUp
