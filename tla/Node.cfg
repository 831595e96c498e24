SPECIFICATION MCSpec
CONSTANTS
  Nodes = {n1}
  NodeDownMin = 2
  GraceMin = 1
  MaxRebuilds = 2
  Old = 3
  Never = Never
  EvmDownMin = 1
  EvmLagBlocks = 1
  MaxHead = 3
  MaxEvmRebuilds = 1
  MaxReplacements = 1
  MaxStarts = 1
INVARIANTS
  OneProblemOnePage
  
  NewsIsPending
PROPERTIES
  OutageStaysPaged
  
  BackIsResolved
  
  
  
  PageStandsWhileOver
  ChangesAreTold
CHECK_DEADLOCK FALSE
