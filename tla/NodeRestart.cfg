SPECIFICATION FairSpec
CONSTANTS
  Nodes = {n1}
  NodeDownMin = 0
  GraceMin = 1
  Old = 1
  Never = Never
  MaxRebuilds = 1
PROPERTIES
  NoFalseAllClear
CHECK_DEADLOCK FALSE
