CONSTANTS
  Storage = {s1, s2, s3, s4}
  NoStorage = NoStorage
  s1 = s1
  s2 = s2
  s3 = s3
  s4 = s4
  MaxRepos = 3
SPECIFICATION Spec
SYMMETRY Symmetry
INVARIANTS
  SameAsLoop
  LeftOutOnlyWhenFull
  MirroredUnderItsSchedule
  RetentionIsLongEnough
PROPERTY
  ReorderingMovesNothing
