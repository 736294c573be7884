SPECIFICATION Spec
CONSTANTS
    None = None
    NumEpisodes = 3
    NumEnvs = 2
    StartDay = 1
    Days = 3
    Hours = 2
    Budgets = {5, 4}
    Capacities = {12, 6}
    Castings <- CastingsC
    Hirers <- HirersC
    Estimates <- EstimatesC
    Gamma = 1
    Lambda = 1
INVARIANTS
  SelfPlaySound
  DecisionsSound
PROPERTIES
  LaborIsYesterdays
  Settles
CHECK_DEADLOCK FALSE
