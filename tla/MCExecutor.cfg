SPECIFICATION ExecutorSpec
CONSTANTS
  None = None
  Crops = {"WHEAT"}
  FirstYieldDay <- FirstYieldDayC
  MaxYieldDay <- MaxYieldDayC
  MaxYield <- MaxYieldC
  Interval <- IntervalC
  Structures = {"COOP"}
  Animals = {"GOOSE"}
  StructureOf <- StructureOfC
  AnimalFirstDay <- AnimalFirstDayC
  AnimalInterval <- AnimalIntervalC
  MaxHeld <- MaxHeldC
  AnimalProduct <- AnimalProductC
  TurnsPerDay = 3
  Items = {"WHEAT", "GOOSE", "EGG", "FERTILIZER"}
  ShedCapacity = 4
  MaxHands = 1
  Wheat = "WHEAT"
  Fertilizer = "FERTILIZER"
  Half = 1
  EpisodeSteps = 7
  MaxMarketOrders = 2
  UnitOrders = {}
  MarketOrders <- MarketOrder
  OrderUnits = 2
  SeedBound = 2
  CropOrder <- CropOrderC
  AnimalOrder <- AnimalOrderC
  Alphabet <- AlphabetC
  TasksPerWorker = 4
  ProductOrder <- ProductOrderC
  BinHours = 2
  Plans <- PlansC
  Starts <- StartsC
  Fails = TRUE
INVARIANTS
  ExecutorSound
  LaborNotWasted
PROPERTIES
  FeedingKept
  DebtCoversLosses
  FeedbackIsYesterdays
