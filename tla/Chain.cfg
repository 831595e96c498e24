SPECIFICATION MCSpec
CONSTANTS
  Nodes = {n1, n2}
  PublicFallback = TRUE
  NodeDownMin = 0
  StalledMinutes = 0
  Old = 1
  Never = Never
  MaxRestarts = 1
  Scopes = {"stalled", "node-stalled"}
  MaxReloads = 2
  MaxBoots = 2

INVARIANTS
  StallIsWatched
PROPERTIES
  StallIsSeen
  
  RecoveryResolves
  StallEnds
CHECK_DEADLOCK FALSE
