SPECIFICATION MCSpec
CONSTANTS
  Levels = {"disk-low"}
  MaxHeight = 2
  MaxRebuilds = 1
  MaxLines = 4
  MaxFiles = 3
  MaxTruncates = 1
  NoFile = NoFile
  Old = 4
  Never = Never
  Count = 2
  Window = 2
  Cooldown = 3
  Flap = 2
  MaxRestarts = 1
INVARIANTS
  
  NothingTwice
  NoGap
  EventIsTimed
PROPERTIES
  
  RecoveryResolves
  CatchesUp
  EventCloses
  HotIsPagedAgain
CHECK_DEADLOCK FALSE
