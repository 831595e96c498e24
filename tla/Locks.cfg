SPECIFICATION FairSpec
CONSTANTS
  c1 = c1
  c2 = c2
  w1 = w1
  w2 = w2
  Chains = {c1, c2}
  Supervisor = supervisor
  Engine = engine
  Watchers = {w1, w2}
  ChainOf <- MCChainOf
  Senders = {s1}
  Admins = {a1}
  Reminders = {}
  None = None
INVARIANTS
  NoDeadlock
  Ordered
PROPERTIES
  EveryoneServed
CHECK_DEADLOCK FALSE
