-------------------------------- MODULE Wire --------------------------------
(***************************************************************************)
(* The wire between the compiled engine and its callers in Python.  The    *)
(* engine writes every tile as 26 numbers (lib.rs, GameState::observe)     *)
(* that fast_env/api.py turns back into the tile of an observation         *)
(* (_tile); an action's entries go to the engine as rows of an operation   *)
(* code, a target and a quantity (_unit_row, _market_row), on whose codes  *)
(* apply_unit_action and the market dispatch.                              *)
(*                                                                         *)
(* Numbers travel as fractions of a scale, in 32 bits.  Dividing an        *)
(* integer of a game by the scale and rounding the product gives it back,  *)
(* so a slot holds the integer; what is not the identity - values cut off  *)
(* at the scale, slots that mean one thing for a crop and another for an   *)
(* animal, what is left out - is kept.                                     *)
(***************************************************************************)
EXTENDS Farm, Lifecycle

CONSTANTS
    CropTable, AnimalTable,    \* CROPS, ANIMALS
    ProductTable,              \* PRODUCTS: the crops first
    SeasonDays,                \* SEASON_DAYS (30)
    MaxQuantity                \* NORMALIZE_QUANTITY (100)

\* A kind's number, from 0.
IsIn(table, kind) == \E k \in DOMAIN table : table[k] = kind
Number(table, kind) == CHOOSE k \in 0..(Len(table) - 1) : table[k + 1] = kind

\* A table of n names.
Lists(table, n) ==
    /\ DOMAIN table = 1..n /\ Len(table) = n
    /\ \A k, l \in 1..n : table[k] = table[l] => k = l

\* The tables have what a game plays with, and its figures stay within the scales.
ASSUME WireAssumption ==
    /\ Lists(CropTable, 5) /\ Lists(AnimalTable, 3) /\ Lists(ProductTable, 9)
    /\ \A c \in Crops : IsIn(CropTable, c)
    /\ \A a \in Animals : IsIn(AnimalTable, a)
    /\ \A i \in Items \ Animals : IsIn(ProductTable, i)
    /\ ProductTable[1] = Wheat /\ ProductTable[9] = Fertilizer
    /\ Structures \subseteq {"COOP", "PASTURE"}
    /\ {SeasonDays, MaxQuantity} \subseteq Nat \ {0}
    /\ EpisodeSteps <= SeasonDays * TurnsPerDay
    /\ \A a \in Animals : \A n \in {MaxHeld[a], AnimalFirstDay[a], AnimalInterval[a]} :
          n <= MaxQuantity

Flag(b) == IF b THEN 1 ELSE 0
Slots == 0..25

-----------------------------------------------------------------------------
(* A tile, from the engine to the observation. *)

\* crop_lifespan_step: an ongoing crop tells when it rots from its last production day on.
LifespanStep(t, now) ==
    IF \/ t.decay_step < 0
       \/ Ongoing(t.crop) /\ now \div TurnsPerDay < t.decay_step \div TurnsPerDay - 1
    THEN -1 ELSE t.decay_step

Zeros == [i \in Slots |-> 0]

CropSlots(t, now) ==
    [i \in Slots |->
        CASE i \in {2, 6, 7 + Number(CropTable, t.crop)} -> 1
          [] i = 14 -> AtMost(t.age, SeasonDays)
          [] i = 15 -> t.yield
          [] i = 16 -> LifespanStep(t, now)
          [] i = 17 -> Flag(t.watered)
          [] i = 18 -> t.unwatered
          [] i = 19 -> t.fertilized_until
          [] OTHER -> 0]

AnimalSlots(t) ==
    [i \in Slots |->
        CASE i \in {11, 12 + Number(AnimalTable, t.animal)} -> 1
          [] i = 15 -> AtMost(t.animal_yield, MaxQuantity)
          [] i = 20 -> t.animal_age
          [] i = 21 -> Flag(t.fed)
          [] i = 22 -> t.unfed
          [] i = 23 -> Flag(t.cared)
          [] i = 24 -> Flag(t.fertilizer)
          [] i = 25 -> AtMost(t.pending_care, MaxQuantity)
          [] OTHER -> 0]

ObservedTile(t, owned, now, coop) ==
    LET stands ==
          CASE t.weed -> [Zeros EXCEPT ![3] = 1]
            [] ~t.weed /\ t.crop # None -> CropSlots(t, now)
            [] ~t.weed /\ t.crop = None /\ t.structure # None ->
                  [(IF t.animal # None THEN AnimalSlots(t) ELSE Zeros)
                      EXCEPT ![IF t.structure = coop THEN 4 ELSE 5] = 1]
            [] OTHER -> [Zeros EXCEPT ![0] = Flag(owned)]
    IN  [stands EXCEPT ![1] = Flag(~owned)]

\* next(index for index in range(size) if raw[first + index] > 0.5).
FirstSet(raw, first, size) ==
    CHOOSE i \in 0..(size - 1) :
        raw[first + i] > 0 /\ \A j \in 0..(i - 1) : raw[first + j] = 0

\* The tile of an observation; a key it does not have keeps the value of a bare tile.
Decoded(raw, coop, pasture) ==
    CASE raw[1] > 0 -> BareTile                                  \* "LOCKED"
      [] raw[1] = 0 /\ raw[2] > 0 ->
           [BareTile EXCEPT !.crop = CropTable[FirstSet(raw, 7, 5) + 1], !.age = raw[14],
                            !.decay_step = raw[16], !.yield = raw[15],
                            !.watered = raw[17] > 0, !.unwatered = raw[18],
                            !.fertilized_until = raw[19]]
      [] raw[1] = 0 /\ raw[2] = 0 /\ raw[3] > 0 -> [BareTile EXCEPT !.weed = TRUE]
      [] raw[1] = 0 /\ raw[2] = 0 /\ raw[3] = 0 /\ (raw[4] > 0 \/ raw[5] > 0) ->
           LET housed == [BareTile EXCEPT !.structure = IF raw[4] > 0 THEN coop ELSE pasture]
           IN  IF raw[11] = 0 THEN housed
               ELSE [housed EXCEPT !.animal = AnimalTable[FirstSet(raw, 12, 3) + 1],
                                   !.animal_yield = raw[15], !.animal_age = raw[20],
                                   !.fed = raw[21] > 0, !.unfed = raw[22],
                                   !.cared = raw[23] > 0, !.fertilizer = raw[24] > 0,
                                   !.pending_care = raw[25]]
      [] OTHER -> BareTile

-----------------------------------------------------------------------------
(* An order, from the action to the engine. *)

\* Seeded bug: the places in the list of operations are taken for the engine's codes.
UnitCodesAsListed ==
    [PASS |-> 0, NORTH |-> 1, SOUTH |-> 2, EAST |-> 3, WEST |-> 4, PICKUP |-> 5, PLACE |-> 6,
     DROP |-> 7, PLANT |-> 8, WATER |-> 9, HARVEST |-> 10, FERTILIZE |-> 11, BUILD_COOP |-> 12,
     BUILD_PASTURE |-> 13, FEED |-> 14, COLLECT_FERTILIZER |-> 15, CARE |-> 16, DIG |-> 17]
\* UNIT_OP_CODES, MARKET_IDS.
UnitCodes ==
    [PASS |-> 0, NORTH |-> 1, SOUTH |-> 2, EAST |-> 3, WEST |-> 4, PLANT |-> 5, HARVEST |-> 6,
     FEED |-> 7, BUILD_COOP |-> 8, BUILD_PASTURE |-> 8, PLACE |-> 9, WATER |-> 10,
     PICKUP |-> 11, FERTILIZE |-> 12, CARE |-> 13, COLLECT_FERTILIZER |-> 14, DROP |-> 15,
     DIG |-> 17]
MarketCodes ==
    [BUY_SEED |-> 1, BUY_PRODUCT |-> 2, BUY_ANIMAL |-> 3, SELL |-> 4, HIRE |-> 5, BUY_LAND |-> 6]

NoopRow == <<0, 0, 0>>

\* Animals are counted from 1 when they are picked up and from 0 when they are placed.
UnitTarget(e) ==
    CASE e.op = "PLANT" -> Number(CropTable, e.target)
      [] e.op = "BUILD_PASTURE" -> 1
      [] e.op \in {"PICKUP", "PLACE"} /\ IsIn(AnimalTable, e.target) ->
            Number(AnimalTable, e.target) + Flag(e.op = "PICKUP")
      [] e.op \in {"PICKUP", "PLACE"} /\ ~IsIn(AnimalTable, e.target) ->
            Number(ProductTable, e.target) + 4
      [] OTHER -> 0

\* Whatever the official interpreter ignores is sent as an order to do nothing.
UnitRow(e) ==
    IF \/ e.op \notin DOMAIN UnitCodes
       \/ e.op = "PLANT" /\ ~IsIn(CropTable, e.target)
       \/ e.op \in {"PICKUP", "PLACE"}
            /\ ~IsIn(AnimalTable, e.target) /\ ~IsIn(ProductTable, e.target)
    THEN NoopRow
    ELSE <<UnitCodes[e.op], UnitTarget(e), IF e.op \in {"PICKUP", "PLACE"} THEN e.n ELSE 0>>

MarketRow(e) ==
    LET table == CASE e.op = "BUY_ANIMAL" -> AnimalTable
                   [] e.op = "BUY_SEED" -> CropTable
                   [] OTHER -> ProductTable
    IN  IF e.op \in {"HIRE", "BUY_LAND"} THEN <<MarketCodes[e.op], 0, 1>>
        ELSE IF e.op \notin DOMAIN MarketCodes \/ ~IsIn(table, e.target) THEN NoopRow
        ELSE <<MarketCodes[e.op], Number(table, e.target), e.n>>

-----------------------------------------------------------------------------
(* What the engine takes a row for. *)

Entry(op, target, n) == [op |-> op, target |-> target, n |-> n]

\* The arms of apply_unit_action that take no target.
PlainArm(code) ==
    CASE code = 1 -> "NORTH"
      [] code = 2 -> "SOUTH"
      [] code = 3 -> "EAST"
      [] code = 4 -> "WEST"
      [] code = 6 -> "HARVEST"
      [] code = 7 -> "FEED"
      [] code = 10 -> "WATER"
      [] code = 12 -> "FERTILIZE"
      [] code = 13 -> "CARE"
      [] code = 14 -> "COLLECT_FERTILIZER"
      [] code = 15 -> "DROP"
      [] code = 17 -> "DIG"

UnitDispatched(row) ==
    LET code == row[1]
        target == row[2]
    IN  CASE code \in {1, 2, 3, 4, 6, 7, 10, 12, 13, 14, 15, 17} -> Entry(PlainArm(code), None, 0)
          [] code = 5 /\ target \in 0..4 -> Entry("PLANT", CropTable[target + 1], 0)
          [] code = 8 /\ target \in {0, 1} ->
                Entry(IF target = 0 THEN "BUILD_COOP" ELSE "BUILD_PASTURE", None, 0)
          [] code = 9 /\ target \in 0..2 -> Entry("PLACE", AnimalTable[target + 1], row[3])
          [] code = 9 /\ target \in 4..12 -> Entry("PLACE", ProductTable[target - 3], row[3])
          [] code = 11 /\ target \in 1..3 -> Entry("PICKUP", AnimalTable[target], row[3])
          [] code = 11 /\ target = 0 -> Entry("PICKUP", ProductTable[1], row[3])
          [] code = 11 /\ target \in 4..12 -> Entry("PICKUP", ProductTable[target - 3], row[3])
          [] OTHER -> Entry("PASS", None, 0)

\* A seed, an animal, wheat or fertilizer is bought; every product is sold.
MarketDispatched(row) ==
    LET code == row[1]
        target == row[2]
    IN  CASE code = 1 /\ target \in 0..4 -> Entry("BUY_SEED", CropTable[target + 1], row[3])
          [] code = 2 /\ target \in {0, 8} -> Entry("BUY_PRODUCT", ProductTable[target + 1], row[3])
          [] code = 3 /\ target \in 0..2 -> Entry("BUY_ANIMAL", AnimalTable[target + 1], row[3])
          [] code = 4 /\ target \in 0..8 -> Entry("SELL", ProductTable[target + 1], row[3])
          [] code = 5 -> Entry("HIRE", None, 1)
          [] code = 6 -> Entry("BUY_LAND", None, 1)
          [] OTHER -> Entry("PASS", None, 0)

-----------------------------------------------------------------------------
\* What a caller in Python sees of the tile at p.
Sight(p) ==
    Decoded(ObservedTile(field[p], unlocked[Quadrant(p)], step, "COOP"), "COOP", "PASTURE")

\* The entry of an action that stands for an order of the model.
UnitEntry(o) ==
    IF o.op = "BUILD"
    THEN Entry(IF o.target = "COOP" THEN "BUILD_COOP" ELSE "BUILD_PASTURE", None, 0)
    ELSE Entry(o.op, o.target, o.n)
MarketEntry(o) ==
    Entry(IF o.op # "BUY" THEN o.op
          ELSE IF o.target \in Animals THEN "BUY_ANIMAL" ELSE "BUY_PRODUCT", o.target, 1)

\* An observation shows what stands on a tile and how it fares, and when a rotten plant's
\* time came (GameState::observe, _tile).
TileFaithful(p) ==
    LET t == field[p]
        seen == Sight(p)
        same(fields) == \A f \in fields : seen[f] = t[f]
    IN  /\ same({"crop", "weed", "structure", "animal"})
        /\ t.crop # None =>
              /\ same({"age", "yield", "watered", "unwatered", "fertilized_until"})
              /\ DerivePlant(seen, day, step).past_lifespan <=> t.decay_step \in 0..step
        /\ t.animal # None =>
              same({"animal_yield", "animal_age", "fed", "unfed", "cared", "fertilizer",
                    "pending_care"})

\* The wire loses nothing: observations are faithful, and the engine takes every order for
\* what it is (_unit_row, _market_row, apply_unit_action).
WireFaithful ==
    /\ phase = "agent" => \A p \in Board : TileFaithful(p)
    /\ step = 0 =>
         /\ \A o \in UnitOrders : UnitDispatched(UnitRow(UnitEntry(o))) = UnitEntry(o)
         /\ \A o \in MarketOrders : MarketDispatched(MarketRow(MarketEntry(o))) = MarketEntry(o)

\* What an observation promises comes true for a farm that keeps watering and feeding
\* (replay_daily/lifecycle.py).
ForecastsComeTrue ==
    phase = "agent" => \A p \in Board : ComesTrue(Sight(p), field[p], day, step)

\* Observations tell the truth, and what is derived from them comes true.
ForecastsHold == WireFaithful /\ ForecastsComeTrue
=============================================================================
