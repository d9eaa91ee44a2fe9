CONSTANTS
  Storage = {s1, s2}
  Name = {b1}
  NoStorage = NoStorage
  NoName = NoName
  s1 = s1
  s2 = s2
  b1 = b1
  MaxRepos = 2
  Lists <- AllLists
  FinalizerRaces = FALSE
  MaxFaults = 1
SPECIFICATION FairSpec
CHECK_DEADLOCK FALSE
INVARIANTS
  TypeOK
  MirroredIsReal
  WindowIsOwn
PROPERTIES
  KeepsPromise
  OrphansGo
  ScheduledIsMirrored
  InstanceGoes
