SPECIFICATION FairDaemon
CONSTANTS
  k1 = k1
  Keys <- MCKeys
  Mutes <- MCMutes
  Dests = {d1}
  Silences = {}
  Ticker = ticker
  Apis = {}
  RemindMinutes = 0
  MaxSilence = 0
  CanFail = FALSE
  MaxWire = 0
  FlapMinutes = 1
  Never = Never
  SilenceKeep = 0
  Monitors = {m1}
  Styles = {"latched"}
  MaxTime = 1
  MaxAge = 2
  ResolveOnStart = FALSE
  CanCrash = FALSE
  CanReload = FALSE
  MaxStarts = 2
PROPERTIES
  Cleared
CHECK_DEADLOCK FALSE
