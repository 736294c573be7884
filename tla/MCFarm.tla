------------------------------- MODULE MCFarm -------------------------------
(***************************************************************************)
(* Small farms for TLC: a 2 x 2 board (one tile per quadrant, all four     *)
(* around the shed), short days, kinds with the engine's shapes and small  *)
(* numbers.  Every configuration picks the orders its agents submit.       *)
(***************************************************************************)
EXTENDS Farm

Plain(op) == [op |-> op, target |-> None, n |-> 0]
For(op, target, n) == [op |-> op, target |-> target, n |-> n]
Trade(op, target) == [op |-> op, target |-> target]

\* Wheat is a single-harvest crop, tomato an ongoing one.
FirstYieldDayC == [c \in Crops |-> IF c = "WHEAT" THEN 1 ELSE 2]
MaxYieldDayC == [c \in Crops |-> IF c = "WHEAT" THEN 2 ELSE 1]
MaxYieldC == [c \in Crops |-> IF c = "WHEAT" THEN 3 ELSE 2]
IntervalC == [c \in Crops |-> IF c = "WHEAT" THEN 0 ELSE 1]

StructureOfC == [a \in Animals |-> IF a = "GOOSE" THEN "COOP" ELSE "PASTURE"]
AnimalFirstDayC == [a \in Animals |-> IF a = "GOOSE" THEN 1 ELSE 2]
AnimalIntervalC == [a \in Animals |-> 2]
MaxHeldC == [a \in Animals |-> 2]
AnimalProductC == [a \in Animals |-> IF a = "GOOSE" THEN "EGG" ELSE "MILK"]

-----------------------------------------------------------------------------
(* Goods between the shed, the farmer and a hand, who may both want to plant the one seed, *)
(* also on land that is not theirs.                                                        *)
StoreOrders ==
    {Plain("DROP"), Plain("PASS"), For("PICKUP", "WHEAT", 1), For("PICKUP", "GOOSE", 2),
     For("PLACE", "GOOSE", 1), For("PLACE", "WHEAT", 2), For("PLANT", "WHEAT", 0),
     Plain("SOUTH")}
StoreTrades == {Trade("BUY", "WHEAT"), Trade("BUY", "GOOSE"), Trade("SELL", "WHEAT"),
                Trade("HIRE", None), Trade("BUY_SEED", "WHEAT"), Trade("BUY_LAND", None)}
=============================================================================
