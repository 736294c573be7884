------------------------------- MODULE Field -------------------------------
(***************************************************************************)
(* One tile of a farm: the crop, the weed, the structure and the animal    *)
(* that may stand on it, and what every operation of the engine does to    *)
(* them (rust/kaggriculture_env/src/lib.rs, GameState::apply_unit_action,  *)
(* advance_farm_growth and decay_plants).  The operators are pure: a tile  *)
(* record in, a tile record out.  Farm.tla supplies the units, the goods   *)
(* and the clock.                                                          *)
(*                                                                         *)
(* The engine keeps two fields for one fact in three places (crop_age /    *)
(* crop_kind, structure / structure_kind, animal_on_tile / animal_kind),   *)
(* always written together; each pair is one field here.                   *)
(***************************************************************************)
EXTENDS Integers

CONSTANTS
    None,               \* EMPTY_KIND
    Crops,              \* CROPS
    FirstYieldDay,      \* CROP_FIRST_YIELD_DAY
    MaxYieldDay,        \* CROP_MAX_YIELD_DAY
    MaxYield,           \* CROP_MAX_YIELD
    Interval,           \* CROP_INTERVAL: 0 for a single-harvest crop
    Structures,         \* coop, pasture
    Animals,            \* ANIMALS
    StructureOf,        \* ANIMAL_STRUCTURE
    AnimalFirstDay,     \* ANIMAL_FIRST_YIELD_DAY
    AnimalInterval,     \* ANIMAL_INTERVAL
    MaxHeld,            \* ANIMAL_MAX_HELD
    TurnsPerDay         \* turns_per_day

ASSUME FieldAssumption ==
    /\ None \notin Crops \cup Structures \cup Animals
    /\ FirstYieldDay \in [Crops -> Nat]
    /\ MaxYieldDay \in [Crops -> Nat]
    /\ MaxYield \in [Crops -> Nat \ {0}]
    /\ Interval \in [Crops -> Nat]
    /\ StructureOf \in [Animals -> Structures]
    /\ AnimalFirstDay \in [Animals -> Nat]
    /\ AnimalInterval \in [Animals -> Nat \ {0}]
    /\ MaxHeld \in [Animals -> Nat \ {0}]
    /\ TurnsPerDay \in Nat \ {0}

-----------------------------------------------------------------------------
Tile == [crop: Crops \cup {None}, age: Int, yield: Int, decay_step: Int,
         unwatered: Nat, watered: BOOLEAN, fertilized_until: Int,
         weed: BOOLEAN, structure: Structures \cup {None},
         animal: Animals \cup {None}, animal_age: Nat, animal_yield: Nat,
         unfed: Nat, fed: BOOLEAN, cared: BOOLEAN, pending_care: Nat,
         fertilizer: BOOLEAN]

BareTile ==
    [crop |-> None, age |-> -1, yield |-> 0, decay_step |-> -1,
     unwatered |-> 0, watered |-> FALSE, fertilized_until |-> -1,
     weed |-> FALSE, structure |-> None,
     animal |-> None, animal_age |-> 0, animal_yield |-> 0,
     unfed |-> 0, fed |-> FALSE, cared |-> FALSE, pending_care |-> 0,
     fertilizer |-> FALSE]

\* Nothing grows, stands or sprouts here: a crop, a structure or a weed may come.
Vacant(t) == t.crop = None /\ ~t.weed /\ t.structure = None

Ongoing(c) == Interval[c] > 0

AtMostUncapped(n, bound) == n     \* seeded bug: the cap is forgotten
AtMost(n, bound) == IF n <= bound THEN n ELSE bound

-----------------------------------------------------------------------------
(* Crops. *)

\* Days from planting to the end of production.
ProductionDays(c) ==
    IF Ongoing(c) THEN FirstYieldDay[c] + (MaxYield[c] - 1) * Interval[c]
                  ELSE MaxYieldDay[c]

\* The step at which a crop planted on the given day starts to rot.
DecayStep(c, planted) == (planted + ProductionDays(c) + 1) * TurnsPerDay

\* Seeded bugs: a fresh plant that inherits the tile's fertilizer, or its watering.
PlantedKeepingCover(t, c, day) ==
    [t EXCEPT !.crop = c, !.age = 0, !.decay_step = DecayStep(c, day),
              !.yield = IF Ongoing(c) THEN 0 ELSE 1,
              !.unwatered = 1, !.weed = FALSE, !.watered = FALSE]
PlantedStillWet(t, c, day) ==
    [t EXCEPT !.crop = c, !.age = 0, !.decay_step = DecayStep(c, day),
              !.yield = IF Ongoing(c) THEN 0 ELSE 1,
              !.unwatered = 1, !.weed = FALSE, !.fertilized_until = -1]

Planted(t, c, day) ==
    [t EXCEPT !.crop = c, !.age = 0, !.decay_step = DecayStep(c, day),
              !.yield = IF Ongoing(c) THEN 0 ELSE 1,
              !.unwatered = 1, !.weed = FALSE,
              !.fertilized_until = -1, !.watered = FALSE]

UprootedKindKept(t) == [t EXCEPT !.age = -1, !.decay_step = -1]    \* seeded bug

\* The crop leaves the tile; which of its other fields are cleared is the caller's affair.
Uprooted(t) == [t EXCEPT !.crop = None, !.age = -1, !.decay_step = -1]

Ripe(t) == t.crop # None /\ t.yield > 0 /\ t.age >= FirstYieldDay[t.crop]

CropHarvested(t) ==
    LET picked == [t EXCEPT !.yield = 0]
    IN  IF Ongoing(t.crop) THEN picked ELSE Uprooted(picked)

InWateringWindow(t) ==
    /\ ~Ongoing(t.crop)
    /\ t.age >= (MaxYieldDay[t.crop] + 1) \div 2
    /\ t.age <= MaxYieldDay[t.crop]

\* Seeded bug: every watering of a day adds to the yield.
CropWateredAgain(t, day) ==
    LET bonus == IF t.fertilized_until >= day THEN 2 ELSE 1
    IN  [t EXCEPT !.watered = TRUE,
                  !.yield = IF InWateringWindow(t)
                            THEN AtMost(@ + bonus, MaxYield[t.crop]) ELSE @]

\* Watering a crop that has been watered today changes nothing.
CropWatered(t, day) ==
    LET bonus == IF t.fertilized_until >= day THEN 2 ELSE 1
    IN  [t EXCEPT !.watered = TRUE,
                  !.yield = IF ~t.watered /\ InWateringWindow(t)
                            THEN AtMost(@ + bonus, MaxYield[t.crop]) ELSE @]

CropFertilized(t, day) ==
    [t EXCEPT !.fertilized_until = IF @ >= day + 2 THEN @ ELSE day + 2]

\* DIG: everything goes, except a structure with an animal in it.
Dug(t) ==
    LET cleared == IF t.crop = None THEN t
                   ELSE [Uprooted(t) EXCEPT !.yield = 0, !.watered = FALSE,
                                            !.unwatered = 0, !.fertilized_until = -1]
    IN  [cleared EXCEPT !.weed = FALSE,
                        !.structure = IF t.animal = None THEN None ELSE @]

\* decay_plants, every turn: a crop past its decay step loses a unit of yield every
\* second step and turns to weed when none is left.
Rotting(t, step) ==
    t.crop # None /\ step >= t.decay_step /\ (step - t.decay_step) % 2 = 0

\* Seeded bug (the engine once had it): a plant with no yield left never rots.
DecayedIfYielding(t, step) ==
    IF ~Rotting(t, step) \/ t.yield <= 0 THEN t
    ELSE LET rotten == [t EXCEPT !.yield = @ - 1]
         IN  IF rotten.yield <= 0 THEN [Uprooted(rotten) EXCEPT !.weed = TRUE]
                                  ELSE rotten

Decayed(t, step) ==
    IF ~Rotting(t, step) THEN t
    ELSE LET rotten == [t EXCEPT !.yield = @ - 1]
         IN  IF rotten.yield <= 0 THEN [Uprooted(rotten) EXCEPT !.weed = TRUE]
                                  ELSE rotten

\* An ongoing crop of the given age bears fruit tonight, MaxYield times in its life.
BearsAt(c, age) ==
    LET since == age - FirstYieldDay[c]
    IN  /\ Ongoing(c)
        /\ since >= 0
        /\ since % Interval[c] = 0
        /\ since \div Interval[c] + 1 <= MaxYield[c]

\* The crop half of the end-of-day refresh: a second dry day kills the plant.
CropNight(t, day) ==
    IF t.crop = None THEN [t EXCEPT !.watered = FALSE]
    ELSE LET age   == t.age + 1
             dry   == IF t.watered THEN 0 ELSE t.unwatered + 1
             bonus == IF t.watered /\ t.fertilized_until >= day THEN 2 ELSE 1
         IN  IF dry >= 2
             THEN [Uprooted(t) EXCEPT !.yield = 0, !.unwatered = dry,
                                      !.weed = TRUE, !.watered = FALSE]
             ELSE [t EXCEPT !.age = age, !.unwatered = dry, !.watered = FALSE,
                            !.yield = IF BearsAt(t.crop, age)
                                      THEN AtMost(@ + bonus, MaxYield[t.crop]) ELSE @]

-----------------------------------------------------------------------------
(* Structures and animals. *)

Built(t, s) == [t EXCEPT !.structure = s]

Welcomes(t, a) == t.structure = StructureOf[a] /\ t.animal = None

\* Seeded bug: the newcomer inherits what its predecessor left to collect.
AnimalPlacedWithManure(t, a) ==
    [t EXCEPT !.animal = a, !.animal_age = 0, !.animal_yield = 0, !.unfed = 0,
              !.fed = FALSE, !.cared = FALSE, !.pending_care = 0]

AnimalPlaced(t, a) ==
    [t EXCEPT !.animal = a, !.animal_age = 0, !.animal_yield = 0, !.unfed = 0,
              !.fed = FALSE, !.cared = FALSE, !.pending_care = 0, !.fertilizer = FALSE]

ProducesAt(a, age) ==
    age >= AnimalFirstDay[a] /\ (age - AnimalFirstDay[a]) % AnimalInterval[a] = 0

\* A production day uses up the pending care, also when the animal was not fed.
CareLeftIfUnfed(t, produces) == IF produces /\ t.fed THEN 0 ELSE t.pending_care  \* seeded bug
CareLeft(t, produces) == IF produces THEN 0 ELSE t.pending_care

\* The animal half of the refresh: two hungry days and the animal escapes, leaving its
\* structure (and the other fields) behind.
AnimalNight(t) ==
    IF t.animal = None THEN t
    ELSE LET hungry   == IF t.fed THEN 0 ELSE t.unfed + 1
             age      == t.animal_age + 1
             produces == ProducesAt(t.animal, age)
             bonus    == IF t.fed THEN t.pending_care ELSE 0
             care     == CareLeft(t, produces)
         IN  IF hungry >= 2
             THEN [t EXCEPT !.animal = None, !.unfed = hungry]
             ELSE [t EXCEPT !.unfed = hungry, !.animal_age = age,
                            !.animal_yield = IF produces
                                             THEN AtMost(@ + 1 + bonus, MaxHeld[t.animal])
                                             ELSE @,
                            !.pending_care = IF t.fed /\ t.cared THEN care + 1 ELSE care,
                            !.fertilizer = TRUE, !.cared = FALSE, !.fed = FALSE]

\* Seeded bugs: the refresh runs twice; the watering is forgotten before it is counted.
OvernightTwice(t, day) == CropNight(CropNight(AnimalNight(t), day), day)
OvernightDriedFirst(t, day) == CropNight([AnimalNight(t) EXCEPT !.watered = FALSE], day)
Overnight(t, day) == CropNight(AnimalNight(t), day)

-----------------------------------------------------------------------------
(* What must be true of every tile. *)

\* One use per tile: crop, weed and structure exclude each other and an animal lives
\* only in the structure its kind needs (GameState::debug_assert_invariants).
OneUse(t) ==
    /\ t.crop # None => ~t.weed /\ t.structure = None
    /\ t.weed => t.structure = None
    /\ t.animal # None => t.structure = StructureOf[t.animal]
=============================================================================
