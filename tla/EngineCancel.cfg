SPECIFICATION Spec
CONSTANTS
  k1 = k1
  Keys <- MCKeys
  Mutes <- MCMutes
  Ticker = ticker
  FlapMinutes = 1
  Never = Never
  SilenceKeep = 0
  Dests = {d1}
  Silences = {s1}
  Monitors = {m1}
  Apis = {a1}
  RemindMinutes = 0
  MaxSilence = 2
  CanFail = FALSE
  MaxTime = 2
  MaxWire = 0
INVARIANTS
  NoPageOnDeadContext
CHECK_DEADLOCK FALSE
