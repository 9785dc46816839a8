SPECIFICATION InTurnSpec
CONSTANTS
  Arrivals <- OneArrival
  Packs <- OnePack
  Workers <- BothWorkers
  RealDispatch = TRUE
  ForensicsOn = FALSE
  Cooldown = 1
  MaxClock = 3
  MaxLag = 1
  MaxLost = 1
  MaxErrors = 1
  MaxRestarts = 1
  MaxUpserts = 1
PROPERTIES ImplementsLifecycle
CHECK_DEADLOCK FALSE
