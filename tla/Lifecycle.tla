----------------------------- MODULE Lifecycle -----------------------------
(***************************************************************************)
(* What replay_daily/lifecycle.py derives from one observed tile: how old  *)
(* a crop is, whether it can be harvested and in how many days it or the   *)
(* animal will next bear something, as far as the observation settles it.  *)
(* The executor plans with these figures and the replay extractor stores   *)
(* them; the engine (Field.tla) decides whether they come true.            *)
(***************************************************************************)
EXTENDS Field

ASSUME LifecycleAssumption == None \notin Int

Later(m, n) == IF m >= n THEN m ELSE n

\* Seeded bug: today counts as a production day to come.
NextProductionDayFromToday(today, origin, first, interval, most) ==
    LET start == Later(today, origin + first)
        since == start - origin - first
        found == start + ((interval - (since % interval)) % interval)
    IN  IF interval <= 0 \/ (most # None /\ (found - origin - first) \div interval + 1 > most)
        THEN None ELSE found

\* The first day after today whose morning brings produce, None when there is none: most
\* bounds how often a crop bears and is None for animals.
NextProductionDay(today, origin, first, interval, most) ==
    LET start == Later(today + 1, origin + first)
        since == start - origin - first
        found == start + ((interval - (since % interval)) % interval)
    IN  IF interval <= 0 \/ (most # None /\ (found - origin - first) \div interval + 1 > most)
        THEN None ELSE found

\* The engine's age is the observation's current_day - planted_day (Farm!CropCalendar).
PlantNext(t, day) ==
    LET found == NextProductionDay(day, day - t.age, FirstYieldDay[t.crop],
                                   Interval[t.crop], MaxYield[t.crop])
    IN  IF t.yield > 0
        THEN IF t.age >= FirstYieldDay[t.crop] THEN 0 ELSE FirstYieldDay[t.crop] - t.age
        ELSE IF Ongoing(t.crop) /\ t.watered /\ found # None THEN found - day ELSE None

DerivePlant(t, day, step) ==
    [age_days |-> t.age,
     currently_harvestable |-> t.yield > 0 /\ t.age >= FirstYieldDay[t.crop],
     days_until_next_harvest |-> PlantNext(t, day),
     fertilizer_active |-> t.fertilized_until >= day,
     past_lifespan |-> t.decay_step >= 0 /\ step >= t.decay_step]

DeriveAnimal(t, day) ==
    LET found == NextProductionDay(day, day - t.animal_age, AnimalFirstDay[t.animal],
                                   AnimalInterval[t.animal], None)
    IN  [currently_harvestable |-> t.animal_yield > 0,
         days_until_next_product |->
            IF t.animal_yield > 0 THEN 0
            ELSE IF (t.unfed < 1 \/ t.fed) /\ found # None THEN found - day ELSE None,
         starving |-> t.unfed >= 1]

-----------------------------------------------------------------------------
\* The tile after n nights on which it was kept watered and fed, the weather aside.
Kept(t, day, n) ==
    LET kept[k \in 0..n] ==
            IF k = 0 THEN t
            ELSE Overnight([kept[k - 1] EXCEPT !.watered = TRUE, !.fed = TRUE], day + k - 1)
    IN  kept[n]

\* Who sees what stands on a tile and how it fares.
Shows(seen, t) ==
    /\ seen.crop = t.crop /\ seen.animal = t.animal
    /\ t.crop # None =>
          seen.age = t.age /\ seen.yield = t.yield /\ seen.watered = t.watered
    /\ t.animal # None =>
          /\ seen.animal_age = t.animal_age /\ seen.animal_yield = t.animal_yield
          /\ seen.unfed = t.unfed /\ seen.fed = t.fed

\* What is derived from a sight of tile t comes true when it is kept watered and fed: a
\* harvest or a product is there on the day that was named, and on no day before; what is
\* called harvestable the engine lets be harvested.
HarvestComesTrue(seen, t, day, step) ==
    LET plant == DerivePlant(seen, day, step)
        n == plant.days_until_next_harvest
    IN  /\ plant.currently_harvestable = Ripe(t)
        /\ n # None => /\ n \in Nat
                       /\ Ripe(Kept(t, day, n))
                       /\ \A k \in 0..(n - 1) : ~Ripe(Kept(t, day, k))
ProductComesTrue(seen, t, day) ==
    LET animal == DeriveAnimal(seen, day)
        n == animal.days_until_next_product
    IN  /\ animal.currently_harvestable = (t.animal_yield > 0)
        /\ n # None => /\ n \in Nat
                       /\ Kept(t, day, n).animal_yield > 0
                       /\ \A k \in 0..(n - 1) : Kept(t, day, k).animal_yield = 0
ComesTrue(seen, t, day, step) ==
    /\ t.crop # None => HarvestComesTrue(seen, t, day, step)
    /\ t.animal # None => ProductComesTrue(seen, t, day)
=============================================================================
