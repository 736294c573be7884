SPECIFICATION Spec
CONSTANTS
    None = None
    wheat = wheat
    goose = goose
    diner = diner
    kiosk = kiosk
    Days = 3
    Hours = 2
    Moneys = {1, 4}
    Hires = {0, 1}
    OpeningDays = {0, 1}
    Lands = 2
    Resources <- ResourcesC
    Shops <- ShopsC
    Crops <- CropsC
    Products <- ProductsC
    BinHours = 4
    QuantityCap = 8
    SchemaVersion = 3
    Others <- OthersC
    Loads <- LoadsC
    MinScore = 3
    Heads <- HeadsC
    Word = 16
INVARIANTS
  LiveIsStored
  DataSound
  DecodersAgree
CHECK_DEADLOCK FALSE
