SPECIFICATION MCSpec
CONSTANTS
  ConsecutiveMissed = 2
  MaxHeight = 3
  MaxLag = 1
  MaxSessions = 1
  MaxRebuilds = 1
  evmDown = evmDown
  nodeDown = nodeDown
  CardKeys = {evmDown, nodeDown}
  CardOf <- MCCardOf
  RankOf <- MCRankOf
  MaxPosts = 2
  MaxSends = 2
  NoCard = NoCard
INVARIANTS
  NoContamination
PROPERTIES
  AllClearIsEarned
  NeverOrphaned
  DeliveredIsShown
CHECK_DEADLOCK FALSE
