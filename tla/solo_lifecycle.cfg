SPECIFICATION Spec
CONSTANTS
  Arrivals <- OneArrival
  Packs <- TwoPacks
  Workers <- TickerOnly
  RealDispatch = TRUE
  ForensicsOn = TRUE
  Cooldown = 1
  MaxClock = 3
  MaxLag = 0
  MaxLost = 0
  MaxErrors = 1
  MaxRestarts = 1
  MaxUpserts = 1
INVARIANTS TypeOK
PROPERTIES ImplementsLifecycle
