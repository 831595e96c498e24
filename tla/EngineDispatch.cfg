SPECIFICATION Spec
CONSTANTS
  k1 = k1
  Keys <- MCKeys
  Mutes <- MCMutes
  Ticker = ticker
  FlapMinutes = 1
  Never = Never
  SilenceKeep = 0
  Dests = {d1}
  Silences = {}
  Monitors = {m1, m2}
  Apis = {}
  RemindMinutes = 1
  MaxSilence = 0
  CanFail = TRUE
  MaxTime = 3
  MaxWire = 1
INVARIANTS
  TypeOK
PROPERTIES
  ImplementsLedger
CHECK_DEADLOCK FALSE
