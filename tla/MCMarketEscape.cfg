SPECIFICATION Spec
CONSTANTS
  Products = {"WHEAT", "FERTILIZER"}
  Buyable = {"WHEAT", "FERTILIZER"}
  CenterProducts = {"WHEAT"}
  Crops = {"WHEAT"}
  SeedCost <- SeedCostC
  Animals = {"GOOSE"}
  AnimalCost <- AnimalCostC
  LandPrices <- LandPricesC
  HireCost <- HireCostC
  Base <- BaseC
  I0 <- I0C
  Scarcity <- ScarcityC
  Glut <- GlutC
  Demands <- DemandsC
  StartingMoney = 30
  ShedCapacity = 4
  MaxHands = 2
  MaxMarketOrders = 1
  TurnsPerDay = 1
  CenterInterval = 2
  ShopInterval = 2
  UnlockDays = 1
  MaxShops = 1
  Escape = 3
  Offers <- LargeOffers
  MaxStep = 2
INVARIANTS
  BulkMatchesLockstep
