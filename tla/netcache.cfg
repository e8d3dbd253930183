SPECIFICATION FairSpec
CONSTANTS
  ticker = ticker
  r1 = r1
  r2 = r2
  Ticker = ticker
  NoSnapshot = NoSnapshot
  Refresher <- Three
  Drift = TRUE
  StatusFaults = TRUE
INVARIANTS
  TypeOK
PROPERTIES
  EventuallyFresh
  StopEndsTicker
