-------------------------------- MODULE Farm --------------------------------
(***************************************************************************)
(* One player's farm through an episode: the turn that                     *)
(* RustBatchEnv::advance_state plays (rust/kaggriculture_env/src/lib.rs).  *)
(* Every turn the agent submits an order for the farmer and for every hand *)
(* slot; the farmer acts, then the hired hands in index order; then the    *)
(* market slots are served; then plants rot; and after the last turn of a  *)
(* day the field grows overnight, all carried goods go to the shed, the    *)
(* hands leave and weeds sprout.                                           *)
(*                                                                         *)
(* Two farms touch only through market prices (Market.tla).  Here money is *)
(* left out: the market may accept any number of units of an order that    *)
(* the shed's room or stock allows.                                        *)
(***************************************************************************)
EXTENDS Field, Stores, Sequences, FiniteSetsExt

CONSTANTS
    Wheat,             \* product 0, which is also the animals' feed
    Fertilizer,        \* product 8
    AnimalProduct,     \* ANIMAL_PRODUCT
    Half,              \* BOARD_SIZE / 2
    EpisodeSteps,      \* episode_steps
    MaxMarketOrders,   \* max_market_orders
    UnitOrders,        \* the unit orders an agent may submit
    MarketOrders,      \* the market orders an agent may submit
    OrderUnits,        \* bound: units accepted of one market order
    SeedBound          \* bound: seeds of a crop a farm ever holds

Moves == {"NORTH", "SOUTH", "EAST", "WEST"}

\* What an agent may order a unit to do.
UnitOrder ==
    [op: Moves \cup {"PASS", "HARVEST", "FEED", "WATER", "FERTILIZE", "CARE",
                     "COLLECT_FERTILIZER", "DROP", "DIG"},
     target: {None}, n: {0}]
      \cup [op: {"PLANT"}, target: Crops, n: {0}]
      \cup [op: {"BUILD"}, target: Structures, n: {0}]
      \cup [op: {"PLACE", "PICKUP"}, target: Items, n: Nat]

MarketOrder ==
    [op: {"BUY_SEED"}, target: Crops]
      \cup [op: {"BUY"}, target: {Wheat, Fertilizer} \cup Animals]
      \cup [op: {"SELL"}, target: Items \ Animals]
      \cup [op: {"HIRE", "BUY_LAND"}, target: {None}]

Pass == [op |-> "PASS", target |-> None, n |-> 0]

ASSUME FarmAssumption ==
    /\ Crops \cup Animals \cup {Fertilizer} \subseteq Items
    /\ Wheat \in Crops
    /\ Crops \cap Animals = {}
    /\ Fertilizer \notin Crops \cup Animals
    /\ AnimalProduct \in [Animals -> Items \ Animals]
    /\ Half \in Nat \ {0}
    /\ EpisodeSteps \in Nat
    /\ MaxMarketOrders \in Nat
    /\ OrderUnits \in Nat
    /\ SeedBound \in Nat
    /\ UnitOrders \subseteq UnitOrder
    /\ MarketOrders \subseteq MarketOrder

-----------------------------------------------------------------------------
(* The board. *)

Line == 0..(2 * Half - 1)
Board == Line \X Line
Home == <<Half - 1, Half - 1>>
Corner == <<0, 0>>

\* The four tiles around the shed, in the order in which new hands look at them.
Access == <<Home, <<Half, Half - 1>>, <<Half - 1, Half>>, <<Half, Half>>>>
AtShed(p) == p \in {Access[k] : k \in 1..4}

Quadrant(p) == (IF p[2] < Half THEN 0 ELSE 2) + (IF p[1] < Half THEN 0 ELSE 1)
Quadrants == 0..3

\* move_position: a step off the board is no step.
Stepped(p, move) ==
    LET q == CASE move = "NORTH" -> <<p[1], p[2] - 1>>
               [] move = "SOUTH" -> <<p[1], p[2] + 1>>
               [] move = "EAST"  -> <<p[1] + 1, p[2]>>
               [] move = "WEST"  -> <<p[1] - 1, p[2]>>
    IN  IF q \in Board THEN q ELSE p

-----------------------------------------------------------------------------
VARIABLES
    field,        \* field[p]: the tile at p
    seeds,        \* seeds[c]: seeds of crop c
    position,     \* position[u]: where unit u stands
    hand_count,   \* hired hands; they are the units 1..hand_count
    unlocked,     \* unlocked[q]: is quadrant q the player's?
    day, hour,    \* the clock: step = day * TurnsPerDay + hour
    done,
    phase,        \* where advance_state is
    orders,       \* the submitted unit orders
    blocked,      \* crops whose PLANT requests exceed the seeds held before the turn
    next,         \* the unit served next
    slot          \* market slots served

turn == <<day, hour, done, phase, orders, blocked, next, slot>>
vars == <<field, seeds, position, hand_count, unlocked, turn, stores>>

step == day * TurnsPerDay + hour

TypeOK ==
    /\ field \in [Board -> Tile]
    /\ seeds \in [Crops -> Nat]
    /\ position \in [Units -> Board]
    /\ hand_count \in 0..MaxHands
    /\ unlocked \in [Quadrants -> BOOLEAN]
    /\ day \in Nat
    /\ hour \in 0..(TurnsPerDay - 1)
    /\ done \in BOOLEAN
    /\ phase \in {"agent", "units", "market", "night"}
    /\ orders \in [Units -> UnitOrder]
    /\ blocked \in SUBSET Crops
    /\ next \in 0..(MaxHands + 1)
    /\ slot \in 0..MaxMarketOrders
    /\ StoresTypeOK

Init ==
    /\ field = [p \in Board |-> BareTile]
    /\ seeds = [c \in Crops |-> 0]
    /\ position = [u \in Units |-> IF u = Farmer THEN Home ELSE Corner]
    /\ hand_count = 0
    /\ unlocked = [q \in Quadrants |-> q = 0]
    /\ day = 0
    /\ hour = 0
    /\ done = FALSE
    /\ phase = "agent"
    /\ orders = [u \in Units |-> Pass]
    /\ blocked = {}
    /\ next = 0
    /\ slot = 0
    /\ StoresInit

-----------------------------------------------------------------------------
(* A turn begins: the agent's orders, one per unit slot, hired or not. *)

\* Every slot's PLANT counts, also those of slots nobody was hired for.
Requests(o, c) == {u \in Units : o[u].op = "PLANT" /\ o[u].target = c}

OverRequestedIfNone(o) == {c \in Crops : seeds[c] = 0}     \* seeded bug
OverRequested(o) == {c \in Crops : Cardinality(Requests(o, c)) > seeds[c]}

Submitted(o) ==
    /\ phase = "agent"
    /\ ~done
    /\ orders' = o
    /\ blocked' = OverRequested(o)
    /\ phase' = "units"
    /\ next' = Farmer
    /\ UNCHANGED <<field, seeds, position, hand_count, unlocked, day, hour, done,
                   slot, stores>>
Submit == \E o \in [Units -> UnitOrders] : Submitted(o)

\* A finished episode ignores what is submitted.
SubmitWhenDone == done /\ UNCHANGED vars

-----------------------------------------------------------------------------
(* The units act. *)

order == orders[next]
here == position[next]
tile == field[here]
openAlways == TRUE     \* seeded bug
open == unlocked[Quadrant(here)]
holds(i) == inventory[next][i] > 0

\* An animal is housed where it stands, or else put back into the shed.
Houses == /\ order.target \in Animals
          /\ holds(order.target)
          /\ Welcomes(tile, order.target)

\* When an order does anything; PLACE, PICKUP, DROP and moves ignore locked land.
Effective ==
    \/ order.op \in Moves
    \/ /\ open
       /\ \/ /\ order.op = "PLANT"
             /\ Vacant(tile)
             /\ seeds[order.target] > 0
             /\ order.target \notin blocked
          \/ /\ order.op = "HARVEST"
             /\ IF tile.animal # None THEN tile.animal_yield > 0 ELSE Ripe(tile)
          \/ /\ order.op = "FEED"
             /\ tile.animal # None /\ ~tile.fed
             /\ holds(Wheat)
          \/ order.op = "WATER" /\ tile.crop # None
          \/ order.op = "BUILD" /\ Vacant(tile)
          \/ order.op = "FERTILIZE" /\ tile.crop # None /\ holds(Fertilizer)
          \/ order.op = "CARE" /\ tile.animal # None
          \/ order.op = "COLLECT_FERTILIZER" /\ tile.animal # None /\ tile.fertilizer
          \/ order.op = "DIG"
    \/ order.op = "PLACE" /\ (Houses \/ (AtShed(here) /\ order.n > 0))
    \/ order.op = "PICKUP" /\ AtShed(here) /\ order.n > 0
    \/ order.op = "DROP" /\ AtShed(here) /\ ~EmptyHanded(next)

Serving == phase = "units" /\ next <= hand_count
Acts(op) == Serving /\ order.op = op /\ Effective
\* Seeded bug: an order is served again for as long as it has an effect.
ServedWhileEffective ==
    /\ next' = IF Effective THEN next ELSE next + 1
    /\ UNCHANGED <<hand_count, unlocked, day, hour, done, phase, orders, blocked, slot>>
Served == /\ next' = next + 1
          /\ UNCHANGED <<hand_count, unlocked, day, hour, done, phase, orders,
                         blocked, slot>>
Becomes(t) == field' = [field EXCEPT ![here] = t]

Skip == /\ Serving /\ ~Effective
        /\ Served
        /\ UNCHANGED <<field, seeds, position, stores>>

Move == /\ Serving /\ order.op \in Moves
        /\ position' = [position EXCEPT ![next] = Stepped(here, order.op)]
        /\ Served
        /\ UNCHANGED <<field, seeds, stores>>

Plant == /\ Acts("PLANT")
         /\ Becomes(Planted(tile, order.target, day))
         /\ seeds' = [seeds EXCEPT ![order.target] = @ - 1]
         /\ Served
         /\ UNCHANGED <<position, stores>>

\* One HARVEST takes everything the tile holds.
Harvest ==
    /\ Acts("HARVEST")
    /\ IF tile.animal # None
       THEN /\ Receive(next, AnimalProduct[tile.animal], tile.animal_yield)
            /\ Becomes([tile EXCEPT !.animal_yield = 0])
       ELSE /\ Receive(next, tile.crop, tile.yield)
            /\ Becomes(CropHarvested(tile))
    /\ Served
    /\ UNCHANGED <<seeds, position, shed, shed_used>>

Feed == /\ Acts("FEED")
        /\ Spend(next, Wheat, 1)
        /\ Becomes([tile EXCEPT !.fed = TRUE])
        /\ Served
        /\ UNCHANGED <<seeds, position, shed, shed_used>>

Water == /\ Acts("WATER")
         /\ Becomes(CropWatered(tile, day))
         /\ Served
         /\ UNCHANGED <<seeds, position, stores>>

Build == /\ Acts("BUILD")
         /\ Becomes(Built(tile, order.target))
         /\ Served
         /\ UNCHANGED <<seeds, position, stores>>

Fertilize == /\ Acts("FERTILIZE")
             /\ Spend(next, Fertilizer, 1)
             /\ Becomes(CropFertilized(tile, day))
             /\ Served
             /\ UNCHANGED <<seeds, position, shed, shed_used>>

Care == /\ Acts("CARE")
        /\ Becomes([tile EXCEPT !.cared = TRUE])
        /\ Served
        /\ UNCHANGED <<seeds, position, stores>>

CollectFertilizer ==
    /\ Acts("COLLECT_FERTILIZER")
    /\ Receive(next, Fertilizer, 1)
    /\ Becomes([tile EXCEPT !.fertilizer = FALSE])
    /\ Served
    /\ UNCHANGED <<seeds, position, shed, shed_used>>

Dig == /\ Acts("DIG")
       /\ Becomes(Dug(tile))
       /\ Served
       /\ UNCHANGED <<seeds, position, stores>>

Place ==
    /\ Acts("PLACE")
    /\ IF Houses
       THEN /\ Spend(next, order.target, 1)
            /\ Becomes(AnimalPlaced(tile, order.target))
            /\ UNCHANGED <<shed, shed_used>>
       ELSE LET moved == Lesser(Lesser(inventory[next][order.target], ShedRoom), order.n)
            IN  /\ MoveToShed(order.target, moved)
                /\ Spend(next, order.target, moved)
                /\ UNCHANGED field
    /\ Served
    /\ UNCHANGED <<seeds, position>>

PickUp == /\ Acts("PICKUP")
          /\ MoveFromShed(order.target, order.n)
          /\ Receive(next, order.target, Lesser(order.n, shed[order.target]))
          /\ Served
          /\ UNCHANGED <<field, seeds, position>>

\* DROP empties the unit item by item; the order is over when nothing is carried.
Drop == /\ Acts("DROP")
        /\ \E i \in Items : StoreItem(next, i)
        /\ UNCHANGED <<field, seeds, position, hand_count, unlocked, turn>>

UnitsDone ==
    /\ phase = "units"
    /\ next > hand_count
    /\ phase' = "market"
    /\ orders' = [u \in Units |-> Pass]
    /\ blocked' = {}
    /\ next' = 0
    /\ slot' = 0
    /\ UNCHANGED <<field, seeds, position, hand_count, unlocked, day, hour, done, stores>>

UnitActs == \/ Skip \/ Move \/ Plant \/ Harvest \/ Feed \/ Water \/ Build
            \/ Fertilize \/ Care \/ CollectFertilizer \/ Dig \/ Place \/ PickUp \/ Drop

-----------------------------------------------------------------------------
(* The market slots, as the farm sees them. *)

Trades(op, target) ==
    /\ phase = "market"
    /\ slot < MaxMarketOrders
    /\ [op |-> op, target |-> target] \in MarketOrders
    /\ slot' = slot + 1
    /\ UNCHANGED <<field, day, hour, done, phase, orders, blocked, next>>

\* No order in this slot, or none of it accepted.
PassSlot ==
    /\ phase = "market"
    /\ slot < MaxMarketOrders
    /\ slot' = slot + 1
    /\ UNCHANGED <<field, seeds, position, hand_count, unlocked, day, hour, done, phase,
                   orders, blocked, next, stores>>

BuySeed ==
    \E c \in Crops, n \in 1..OrderUnits :
        /\ Trades("BUY_SEED", c)
        /\ seeds[c] + n <= SeedBound
        /\ seeds' = [seeds EXCEPT ![c] = @ + n]
        /\ UNCHANGED <<position, hand_count, unlocked, stores>>

BuyGoods ==
    \E i \in {Wheat, Fertilizer} \cup Animals, n \in 1..OrderUnits :
        /\ Trades("BUY", i)
        /\ n <= ShedRoom
        /\ MoveToShed(i, n)
        /\ UNCHANGED <<seeds, position, hand_count, unlocked, inventory, item_order,
                       item_order_seq>>

Sell ==
    \E i \in Items \ Animals, n \in 1..OrderUnits :
        /\ Trades("SELL", i)
        /\ n <= shed[i]
        /\ MoveFromShed(i, n)
        /\ UNCHANGED <<seeds, position, hand_count, unlocked, inventory, item_order,
                       item_order_seq>>

\* How many of the farmer and the hired hands stand on an access tile.
Crowd(k) == Cardinality({u \in 0..hand_count : position[u] = Access[k]})

Hire ==
    /\ Trades("HIRE", None)
    /\ hand_count < MaxHands
    /\ \E k \in 1..4 :
          /\ \A j \in 1..4 : Crowd(k) < Crowd(j) \/ (Crowd(k) = Crowd(j) /\ k <= j)
          /\ position' = [position EXCEPT ![hand_count + 1] = Access[k]]
    /\ hand_count' = hand_count + 1
    /\ UNCHANGED <<seeds, unlocked, stores>>

BuyLand ==
    /\ Trades("BUY_LAND", None)
    /\ \E q \in 1..3 :
          /\ ~unlocked[q]
          /\ \A r \in 1..(q - 1) : unlocked[r]
          /\ unlocked' = [unlocked EXCEPT ![q] = TRUE]
    /\ UNCHANGED <<seeds, position, hand_count, stores>>

MarketServes == PassSlot \/ BuySeed \/ BuyGoods \/ Sell \/ Hire \/ BuyLand

-----------------------------------------------------------------------------
(* The turn ends. *)

Closing == phase = "market" /\ slot = MaxMarketOrders
LastHour == hour = TurnsPerDay - 1

\* state.step += 1; the episode is over one step before episode_steps.
Finished(newStep) == newStep + 1 >= EpisodeSteps

EndTurn ==
    /\ Closing /\ ~LastHour
    /\ field' = [p \in Board |-> Decayed(field[p], step)]
    /\ hour' = hour + 1
    /\ done' = Finished(step + 1)
    /\ phase' = "agent"
    /\ slot' = 0
    /\ UNCHANGED <<seeds, position, hand_count, unlocked, day, orders, blocked, next,
                   stores>>

\* The last turn of a day also grows the field (advance_farm_growth) ...
Dusk ==
    /\ Closing /\ LastHour
    /\ field' = [p \in Board |-> Overnight(Decayed(field[p], step), day)]
    /\ phase' = "night"
    /\ slot' = 0
    /\ UNCHANGED <<seeds, position, hand_count, unlocked, day, hour, done, orders,
                   blocked, next, stores>>

\* Everybody is served; seeded bug: all but the last.
AllStoredButOne == next >= hand_count
AllStored == next > hand_count

\* ... stores what the farmer, then each hand, still carries ...
StoreCarried ==
    /\ phase = "night"
    /\ ~AllStored
    /\ IF EmptyHanded(next)
       THEN next' = next + 1 /\ UNCHANGED stores
       ELSE (\E i \in Items : StoreItem(next, i)) /\ UNCHANGED next
    /\ UNCHANGED <<field, seeds, position, hand_count, unlocked, day, hour, done,
                   phase, orders, blocked, slot>>

\* ... dismisses the hands and lets weeds sprout on any vacant tile of the farm.
Dawn ==
    /\ phase = "night"
    /\ AllStored
    /\ \E sprouts \in SUBSET {p \in Board : Vacant(field[p]) /\ unlocked[Quadrant(p)]} :
          field' = [p \in Board |-> [field[p] EXCEPT !.weed = @ \/ p \in sprouts]]
    /\ position' = [u \in Units |-> IF u = Farmer THEN Home ELSE Corner]
    /\ hand_count' = 0
    /\ day' = day + 1
    /\ hour' = 0
    /\ done' = Finished(step + 1)
    /\ phase' = "agent"
    /\ next' = 0
    /\ UNCHANGED <<seeds, unlocked, orders, blocked, slot, stores>>

Next == \/ Submit \/ UnitActs \/ UnitsDone \/ MarketServes
        \/ EndTurn \/ Dusk \/ StoreCarried \/ Dawn
        \/ SubmitWhenDone

Spec == Init /\ [][Next]_vars

\* advance_state is a sequence of finite loops: once called it returns.  That the agents
\* keep submitting is the runner's part.
FairSpec == Spec /\ WF_vars(Next)
-----------------------------------------------------------------------------
(* What a farm can rely on. *)

\* The day the plants believe it is: they age at dusk, the clock turns at dawn.
Today == IF phase = "night" THEN day + 1 ELSE day
PlantedOn(t) == Today - t.age

\* One use per tile, whatever is ordered in whatever sequence (apply_unit_action,
\* decay_plants, advance_farm_growth).
TilesOneUse == \A p \in Board : OneUse(field[p])

\* Nothing ever stands or grows on land that was not bought: PLACE and the moves ignore
\* the lock, and weeds sprout at night, yet none of them reaches a locked tile.
LockedLandBare == \A p \in Board : ~unlocked[Quadrant(p)] => Vacant(field[p])

\* A plant's age, kept by counting nights, and its decay step, fixed when it was planted,
\* always tell the same planting day.
CropCalendar ==
    \A p \in Board : LET t == field[p] IN
        t.crop # None => /\ t.age >= 0
                         /\ t.decay_step = DecayStep(t.crop, PlantedOn(t))

\* Fertilizer covers two days from its use, so a cover that ends earlier than two days
\* after planting was given to a former crop of the tile.
FertilizerOwnLife ==
    \A p \in Board : LET t == field[p] IN
        t.crop # None => \/ t.fertilized_until = -1
                         \/ t.fertilized_until >= PlantedOn(t) + 2

\* A single-harvest crop owes its yield to its waterings, one a day inside its window,
\* worth one unit each, or two with fertilizer.
Waterings(t) ==
    {a \in ((MaxYieldDay[t.crop] + 1) \div 2)..MaxYieldDay[t.crop] :
        a < t.age \/ (a = t.age /\ t.watered)}
YieldEarned ==
    \A p \in Board : LET t == field[p] IN
        t.crop # None /\ ~Ongoing(t.crop)
            => t.yield <= 1 + Cardinality(Waterings(t)) *
                              (IF t.fertilized_until = -1 THEN 1 ELSE 2)

\* Once its decay step has come a crop only loses: one unit every two turns, so that none
\* outlives it by more than 2 * MaxYield turns.
RotRunsOut ==
    \A p \in Board : LET t == field[p] IN
        t.crop # None /\ step >= t.decay_step
            => 2 * t.yield + (step - t.decay_step) <= 2 * MaxYield[t.crop]

\* A living plant was dry for at most one night and never holds more than its kind can.
CropsThrive ==
    \A p \in Board : LET t == field[p] IN
        t.crop # None => t.yield \in 0..MaxYield[t.crop] /\ t.unwatered <= 1

\* An animal was hungry for at most one night and never holds more than its kind can.
AnimalsThrive ==
    \A p \in Board : LET t == field[p] IN
        t.animal # None => t.animal_yield \in 0..MaxHeld[t.animal] /\ t.unfed <= 1

\* The care bonus waits for the next production day only: it never counts more nights
\* than have passed since the last one.
CareNotBanked ==
    \A p \in Board : LET t == field[p] IN
        t.animal # None =>
            t.pending_care <=
                IF t.animal_age < AnimalFirstDay[t.animal] THEN t.animal_age
                ELSE ((t.animal_age - AnimalFirstDay[t.animal]) % AnimalInterval[t.animal]) + 1

\* A hand that is not hired holds nothing, so nobody is hired with goods in hand.
IdleHandsEmpty == \A u \in Units : u > hand_count => EmptyHanded(u)

\* While units act, the seeds still cover every PLANT to come of a crop that was not
\* over-requested: whoever acts first, all of its requests are served or none is.
SeedsReserved ==
    phase = "units" =>
        \A c \in Crops \ blocked :
            Cardinality({u \in Requests(orders, c) : u >= next}) <= seeds[c]

\* How many of item i the farm has, in the shed and in all hands.
Owned(i) == shed[i] + SumFunctionOnSet([u \in Units |-> inventory[u][i]], Units)

\* Emptying units into the shed creates nothing, and loses goods only when the shed is
\* full: DROP, PLACE, PICKUP and the end of the day (an animal put into its structure is
\* not lost).
StorageConserves ==
    [][phase = "night" \/ Acts("DROP") \/ Acts("PLACE") \/ Acts("PICKUP")
          => \A i \in Items :
                /\ Owned(i)' <= Owned(i)
                /\ Owned(i)' < Owned(i) => shed_used' = ShedCapacity \/ field' # field]_vars

\* A plant stands watered or covered by fertilizer only through its own WATER and
\* FERTILIZE, never as an inheritance of the tile's former crop: the leaks the comments at
\* PLANT tell of (lib.rs:1249-1270).
Wet(t) == t.crop # None /\ t.watered
Covered(t) == t.crop # None /\ t.fertilized_until >= day
CropBenefitsGiven ==
    [][\A p \in Board :
          /\ ~Wet(field[p]) /\ Wet(field'[p]) => Acts("WATER")
          /\ ~Covered(field[p]) /\ Covered(field'[p]) => Acts("FERTILIZE")]_vars

\* An animal is fed or cared for only by FEED and CARE and has fertilizer to give only
\* after a night, never as an inheritance of the animal that was there before.
Fed(t) == t.animal # None /\ t.fed
Cared(t) == t.animal # None /\ t.cared
Manured(t) == t.animal # None /\ t.fertilizer
AnimalBenefitsGiven ==
    [][\A p \in Board :
          /\ ~Fed(field[p]) /\ Fed(field'[p]) => Acts("FEED")
          /\ ~Cared(field[p]) /\ Cared(field'[p]) => Acts("CARE")
          /\ ~Manured(field[p]) /\ Manured(field'[p]) => phase' = "night"]_vars

\* A crop turns to weed only because its time has come or because it was dry today.
WeedHasCause ==
    [][\A p \in Board :
          field[p].crop # None /\ field'[p].weed
              => step >= field[p].decay_step \/ ~field[p].watered]_vars

\* The farm as a whole: its goods are where the books say, in the order in which they came,
\* its land has one use per tile and none where it is locked, its seeds cover what was
\* promised and nobody is hired with goods in hand.
FarmOK == /\ TypeOK /\ ShedAccounted /\ StampsInOrder /\ IdleHandsEmpty
          /\ TilesOneUse /\ LockedLandBare /\ SeedsReserved

\* A crop from its seed to its rot, and an animal from the shed to its escape.
CropLife == CropCalendar /\ FertilizerOwnLife /\ YieldEarned /\ RotRunsOut /\ CropsThrive
AnimalLife == AnimalsThrive /\ CareNotBanked

\* Water, fertilizer, food and care are given, never inherited, and weeds have a cause.
BenefitsGiven == CropBenefitsGiven /\ AnimalBenefitsGiven /\ WeedHasCause

\* An episode is played to its end.
EpisodeEnds == <>done
=============================================================================
