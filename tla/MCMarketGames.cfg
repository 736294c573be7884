SPECIFICATION GameSpec
CONSTANTS
  Products = {"WHEAT", "EGG"}
  Buyable = {"WHEAT"}
  CenterProducts = {"WHEAT", "EGG"}
  Crops = {"WHEAT"}
  SeedCost <- DearSeedC
  Animals = {"GOOSE"}
  AnimalCost <- AnimalCostC
  LandPrices <- LandPricesC
  HireCost <- HireCostC
  Base <- BaseC
  I0 <- I0C
  Scarcity <- ScarcityC
  Glut <- GlutC
  Demands <- DemandsC
  Fibonacci <- HireCostC
  FarmHandCostMult = 1
  StartingMoney = 6
  ShedCapacity = 3
  MaxHands = 2
  MaxMarketOrders = 2
  TurnsPerDay = 1
  CenterInterval = 1
  ShopInterval = 1
  UnlockDays = 1
  MaxShops = 1
  Escape = 100
  Offers <- GameOffers
  MaxStep = 2
INVARIANTS
  MarketSound
  BulkMatchesLockstep
PROPERTIES
  SlotsEnd
  TradesTold
