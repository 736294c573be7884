----------------------------- MODULE MCExecutor -----------------------------
(***************************************************************************)
(* A small executor for TLC: a 2 x 2 farm, wheat and geese, days of three  *)
(* hours in two sell bins, a manager that asks for more than the farm has. *)
(***************************************************************************)
EXTENDS Executor, TLC

CropOrderC == <<"WHEAT">>
AnimalOrderC == <<"GOOSE">>
AlphabetC == <<"GOOSE", "WHEAT">>
ProductOrderC == <<"WHEAT", "EGG", "FERTILIZER">>

FirstYieldDayC == [c \in Crops |-> 1]
MaxYieldDayC == [c \in Crops |-> 2]
MaxYieldC == [c \in Crops |-> 3]
IntervalC == [c \in Crops |-> 0]
StructureOfC == [a \in Animals |-> "COOP"]
AnimalFirstDayC == [a \in Animals |-> 1]
AnimalIntervalC == [a \in Animals |-> 1]
MaxHeldC == [a \in Animals |-> 2]
AnimalProductC == [a \in Animals |-> "EGG"]

Stock(w, g) == [i \in Items |-> IF i = Wheat THEN w ELSE IF i = "GOOSE" THEN g ELSE 1]
Farmed(p, q, r, s) == (Access[1] :> p @@ Access[2] :> q @@ Access[3] :> r @@ Access[4] :> s)
Goose == [AnimalPlaced(Built(BareTile, "COOP"), "GOOSE") EXCEPT !.animal_age = 1, !.unfed = 1]
Wheatfield == Planted(BareTile, "WHEAT", 0)
Weed == [BareTile EXCEPT !.weed = TRUE]

Start(f, owned, s, store) ==
    [field |-> f, unlocked |-> [q \in Quadrants |-> q \in owned],
     seeds |-> [c \in Crops |-> s], shed |-> store]
StartsC ==
    {Start(Farmed(Goose, Wheatfield, BareTile, BareTile), {0, 1, 2}, 1, Stock(2, 0)),
     Start(Farmed(BareTile, BareTile, Weed, BareTile), {0, 1, 2}, 1, Stock(1, 1))}
\* A farm with a crop on every tile and a goose in the shed.
FullC == {Start([p \in Board |-> Wheatfield], {0, 1, 2}, 1, Stock(1, 1))}

Sells(n) == [b \in Bins |-> [i \in Products |-> IF i = Wheat THEN n ELSE 1]]
Plan(wheat, geese, land, care, fert, sell) ==
    [crops |-> [c \in Crops |-> wheat], animals |-> [a \in Animals |-> geese],
     land |-> land, care |-> [a \in Animals |-> care],
     fertilizer |-> [c \in Crops |-> fert], sells |-> Sells(sell)]
PlansC == {Plan(2, 1, 4, 1, 0, 1), Plan(1, 2, 3, 0, 1, 2)}
=============================================================================
