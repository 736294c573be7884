SPECIFICATION MaskedSpec
CONSTANTS
  None = None
  Crops = {"WHEAT"}
  FirstYieldDay <- FirstYieldDayC
  MaxYieldDay <- MaxYieldDayC
  MaxYield <- MaxYieldC
  Interval <- IntervalC
  Structures = {"COOP"}
  Animals = {"GOOSE"}
  StructureOf <- StructureOfC
  AnimalFirstDay <- AnimalFirstDayC
  AnimalInterval <- AnimalIntervalC
  MaxHeld <- MaxHeldC
  AnimalProduct <- AnimalProductC
  TurnsPerDay = 3
  Items = {"WHEAT", "GOOSE", "EGG", "FERTILIZER"}
  ShedCapacity = 3
  MaxHands = 1
  Wheat = "WHEAT"
  Fertilizer = "FERTILIZER"
  Half = 1
  EpisodeSteps = 6
  MaxMarketOrders = 1
  UnitOrders <- StoreOrders
  MarketOrders <- StoreTrades
  OrderUnits = 2
  SeedBound = 1
INVARIANTS
  FarmOK
PROPERTIES
  ArrivalOrderKept
  HandlingSound
  EpisodeEnds
