SPECIFICATION LifeSpec
CONSTANTS
  None = None
  Crops = {"WHEAT", "TOMATO"}
  FirstYieldDay <- FirstYieldDayC
  MaxYieldDay <- MaxYieldDayC
  MaxYield <- MaxYieldC
  Interval <- IntervalC
  Structures = {"COOP"}
  Animals = {"GOOSE"}
  StructureOf <- StructureOfC
  AnimalFirstDay <- AnimalFirstDayC
  AnimalInterval <- AnimalIntervalC
  MaxHeld <- MaxHeldC
  AnimalProduct <- AnimalProductC
  TurnsPerDay = 3
  Items = {"WHEAT", "TOMATO", "GOOSE", "EGG", "FERTILIZER"}
  ShedCapacity = 2
  MaxHands = 0
  Wheat = "WHEAT"
  Fertilizer = "FERTILIZER"
  Half = 1
  EpisodeSteps = 18
  MaxMarketOrders = 1
  UnitOrders <- LifeOrders
  MarketOrders <- LifeTrades
  OrderUnits = 1
  SeedBound = 1
  CropTable <- CropTableC
  AnimalTable <- AnimalTableC
  ProductTable <- ProductTableC
  SeasonDays = 6
  MaxQuantity = 2
CONSTRAINT OneKind
ACTION_CONSTRAINT InKind
INVARIANTS
  CropLife
  AnimalLife
  ForecastsHold
PROPERTIES
  BenefitsGiven
