SPECIFICATION FairSpec
CONSTANTS
  ListFaults = TRUE
  CommandFaults = TRUE
  StatusFaults = TRUE
  ForeignReload = TRUE
  Promotion = TRUE
  MayCrash = TRUE
INVARIANTS
  TypeOK
  FlagTracksChain
PROPERTIES
  ImplementsWatchdog
  DeadSingboxBypassed
  RedirectRestored
  DeadPortDemoted
