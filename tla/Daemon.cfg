SPECIFICATION FairDaemon
CONSTANTS
  k1 = k1
  Keys <- MCKeys
  Mutes <- MCMutes
  Dests = {d1}
  Silences = {}
  Ticker = ticker
  Apis = {}
  RemindMinutes = 0
  MaxSilence = 0
  CanFail = FALSE
  MaxWire = 0
  FlapMinutes = 1
  Never = Never
  SilenceKeep = 0
  Monitors = {m1, m2}
  Styles = {"guarded", "healing"}
  MaxTime = 1
  MaxAge = 2
  ResolveOnStart = FALSE
  CanCrash = TRUE
  CanReload = TRUE
  MaxStarts = 2
INVARIANTS
  KnowsOpenIncidents
PROPERTIES
  Cleared
  ImplementsDurableLedger
CHECK_DEADLOCK FALSE
