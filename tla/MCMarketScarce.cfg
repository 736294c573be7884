SPECIFICATION Spec
CONSTANTS
  Products = {"WHEAT", "EGG"}
  Buyable = {"WHEAT"}
  CenterProducts = {"WHEAT", "EGG"}
  Crops = {"WHEAT"}
  SeedCost <- SeedCostC
  Animals = {"GOOSE"}
  AnimalCost <- AnimalCostC
  LandPrices <- LandPricesC
  HireCost <- HireCostC
  Base <- BaseC
  I0 <- LowI0C
  Scarcity <- ScarcityC
  Glut <- GlutC
  Demands <- DemandsC
  StartingMoney = 5
  ShedCapacity = 3
  MaxHands = 2
  MaxMarketOrders = 1
  TurnsPerDay = 1
  CenterInterval = 1
  ShopInterval = 1
  UnlockDays = 1
  MaxShops = 1
  Escape = 100
  Offers <- TradeOffers
  MaxStep = 2
INVARIANTS
  MarketInventoryNonNegative
