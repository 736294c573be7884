----------------------------- MODULE MCFarmLife -----------------------------
(***************************************************************************)
(* A farm of one farmer that keeps either crops or animals, through six    *)
(* days: from seed to weed, from the shed to the escape, and what the      *)
(* observer's forecasts (Lifecycle.tla) say of it on the way, from what    *)
(* the wire (Wire.tla) lets through.                                       *)
(***************************************************************************)
EXTENDS MCFarm, Wire

(* Crops from seed to weed. *)
CropOrders ==
    {For("PLANT", c, 0) : c \in Crops}
      \cup {Plain(op) : op \in {"WATER", "HARVEST", "FERTILIZE", "DIG"}}
      \cup {For("PICKUP", Fertilizer, 1)}
CropTrades == {Trade("BUY_SEED", c) : c \in Crops} \cup {Trade("BUY", Fertilizer)}

(* An animal from the shed to its escape. *)
AnimalOrders ==
    {Plain(op) : op \in {"FEED", "CARE", "COLLECT_FERTILIZER", "HARVEST"}}
      \cup {For("BUILD", s, 0) : s \in Structures}
      \cup {For("PLACE", a, 1) : a \in Animals}
      \cup {For("PICKUP", i, 1) : i \in Animals \cup {Wheat}}
AnimalTrades == {Trade("BUY", i) : i \in Animals \cup {Wheat}}

LifeOrders == CropOrders \cup AnimalOrders \cup {Plain("PASS")}
LifeTrades == CropTrades \cup AnimalTrades

\* The farm of a crop has seeds or has had one planted, fertilized or rotten; that of an
\* animal has bought one or built for it.  What a farm of one kind leaves on its tile the
\* other one meets, but it is played no further.
Tills == \/ \E c \in Crops : seeds[c] > 0
         \/ \E p \in Board : field[p].crop # None \/ field[p].weed
Breeds == \/ \E a \in Animals : Owned(a) > 0
          \/ \E p \in Board : field[p].structure # None
OneKind == ~(Tills /\ Breeds)

Beginnings == {Plain("PASS")} \cup {For("BUILD", s, 0) : s \in Structures}

\* Goods are bought by the farm that has a use for them, and orders are those of its kind.
InKind ==
    /\ phase' = "units" =>
          orders'[Farmer] \in (IF Tills THEN CropOrders
                               ELSE IF Breeds THEN AnimalOrders ELSE Beginnings)
    /\ phase = "market" =>
          /\ shed'[Fertilizer] > shed[Fertilizer] => Tills
          /\ shed'[Wheat] > shed[Wheat] => Breeds

\* Next without the actions of which this farm has no order and no trade: nobody moves, drops,
\* sells, hires or buys land.  Those are seen to by the farm of MCFarmStores.
LifeNext ==
    \/ Submit \/ SubmitWhenDone \/ UnitsDone
    \/ Skip \/ Plant \/ Harvest \/ Feed \/ Water \/ Build \/ Fertilize \/ Care
    \/ CollectFertilizer \/ Dig \/ Place \/ PickUp
    \/ PassSlot \/ BuySeed \/ BuyGoods
    \/ EndTurn \/ Dusk \/ StoreCarried \/ Dawn

LifeSpec == Init /\ [][LifeNext]_vars

-----------------------------------------------------------------------------
\* The tomato and the goose have the places of the melon and the sheep, whose slots mean
\* something else on other tiles.
CropTableC == <<"WHEAT", "CARROT", "PEPPER", "STRAWBERRY", "TOMATO">>
AnimalTableC == <<"COW", "SHEEP", "GOOSE">>
ProductTableC == CropTableC \o <<"EGG", "MILK", "WOOL", "FERTILIZER">>
=============================================================================
