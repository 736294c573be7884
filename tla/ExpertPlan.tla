----------------------------- MODULE ExpertPlan -----------------------------
(***************************************************************************)
(* The second reading of a replay (tools/expert_plan.py): the plan a       *)
(* recorded day amounts to, collected without the extractor of Replays.tla *)
(* and given to the executor; and the harness that lets the executor play  *)
(* that one day (tools/day_slice.py), after the fast engine has replayed   *)
(* the days before and its farm was compared with the recorded one.        *)
(*                                                                         *)
(* External: the fast engine, which may show something else than what was  *)
(* recorded, and the executor (Executor.tla).                              *)
(***************************************************************************)
EXTENDS Replays

-----------------------------------------------------------------------------
(* extract_daily_plan. *)

\* _tile_at: only a tile with something on it counts.
TileUnder(tiles, position) ==
    IF position[2] + 1 \in DOMAIN tiles /\ position[1] + 1 \in DOMAIN tiles[position[2] + 1]
         /\ tiles[position[2] + 1][position[1] + 1].form = "dict"
    THEN tiles[position[2] + 1][position[1] + 1] ELSE None

\* Seeded bug: an action is told by the observation before the one it acted on.
ActedOnLate(i, day) == i < Len(steps) /\ steps[i].day = day
\* The action in step i acted on the observation of step i - 1.
ActedOn(i, day) == i > 1 /\ steps[i - 1].day = day

CollectDayEvents(seat, day, position) ==
    LET acts(i) == ActedOn(i, day) /\ steps[i].action[seat] # None
        works(op) == Cardinality({i \in DOMAIN steps :
                        /\ acts(i) /\ steps[i].action[seat].farmer = op
                        /\ LET t == TileUnder(steps[i - 1].farms[seat].tiles, position)
                           IN  t # None /\ t.kind = "PLANT"})
        ordered(op) == FlattenSeq([i \in DOMAIN steps |->
                        IF acts(i) THEN [n \in 1..OrdersOf(steps[i].action[seat], op) |->
                                           steps[i - 1].hour]
                        ELSE <<>>])
    IN  [sells |-> ordered("SELL"),
         fert_counts |-> works("FERTILIZE"), harvest_counts |-> works("HARVEST"),
         hires_submitted |-> Len(ordered("HIRE")), land_buys |-> Len(ordered("BUY_LAND"))]

EndOfDayObservation(day) ==
    LET mornings == {i \in DOMAIN steps : steps[i].day = day + 1 /\ steps[i].hour = 0}
    IN  steps[IF mornings = {} THEN Len(steps) ELSE Min(mornings)]

BoardCounts(tiles, kind) ==
    Cardinality({p \in UNION {{y} \X DOMAIN tiles[y] : y \in DOMAIN tiles} :
                    tiles[p[1]][p[2]].form = "dict" /\ tiles[p[1]][p[2]].kind = kind})

\* A crop is fertilized at most once per plant that is left.
ExtractDailyPlan(seat, day, position) ==
    LET events == CollectDayEvents(seat, day, position)
        farm == EndOfDayObservation(day).farms[seat]
        crops == BoardCounts(farm.tiles, "PLANT")
    IN  [crop_targets |-> crops,
         land_count |-> Max({1, Min({4, Len(farm.unlocked_quadrants)})}),
         fertilizer_by_crop |-> Min({events.fert_counts, crops}),
         sell_quantities |->
            [anchor \in {n \in 0..(Hours - 1) : n % BinHours = 0} |->
                Cardinality({k \in DOMAIN events.sells :
                               (events.sells[k] \div BinHours) * BinHours = anchor})]]

-----------------------------------------------------------------------------
(* run_day_slice. *)

\* No difference is none of the places of one.
ASSUME DiffAssumption == None \notin {"hires_today", "tiles", "unlocked_quadrants"}

\* normalize_obs: fields the engines spell differently and zeros are dropped.
Cosmetic == {"age", "placed_day"}
NormalizeTile(t) ==
    [t EXCEPT !.fields = [f \in {g \in DOMAIN @ : g \notin Cosmetic /\ @[g] # 0} |-> @[f]]]
\* first_diff, in the order of the keys.
FirstDiff(a, b) ==
    IF a.hires_today # b.hires_today THEN "hires_today"
    ELSE IF a.tiles # b.tiles THEN "tiles"
    ELSE IF a.unlocked_quadrants # b.unlocked_quadrants THEN "unlocked_quadrants"
    ELSE None

\* External: the fast engine after the recorded days, exactly as recorded, without zeros, with
\* ages of its own, or led astray.
Engines == {"exact", "terse", "aged", "astray"}
OfTiles(farm, Seen(_)) ==
    [farm EXCEPT !.tiles = [y \in DOMAIN @ |-> [x \in DOMAIN @[y] |-> Seen(@[y][x])]]]
Terse(t) == [t EXCEPT !.fields = [f \in {g \in DOMAIN @ : @[g] # 0} |-> @[f]]]
Aged(t) ==
    IF t.form # "dict" THEN t
    ELSE [t EXCEPT !.fields = [f \in DOMAIN @ \cup {"age"} |-> IF f = "age" THEN 1 ELSE @[f]]]
Astray(t) == IF t.kind # "PLANT" THEN t ELSE [t EXCEPT !.fields["yield_units"] = 1 - @]
Shown(engine, farm) ==
    CASE engine = "exact" -> farm
      [] engine = "terse" -> OfTiles(farm, Terse)
      [] engine = "aged" -> OfTiles(farm, Aged)
      [] engine = "astray" -> OfTiles(farm, Astray)

\* The slice of a day: the boundary, and the actions the opponent repeats until the engine
\* has played the day or the game is over.
DaySlice(seat, day, engine) ==
    LET boundary == day * Hours + 1
        recorded == steps[boundary].farms[seat]
        normal(farm) == OfTiles(farm, NormalizeTile)
        diff == FirstDiff(normal(Shown(engine, recorded)), normal(recorded))
        turns == Min({Hours, LastIndex + 1 - boundary})
    IN  [boundary_verified |-> diff = None, boundary_first_diff |-> diff,
         repeated |-> [h \in 1..turns |-> steps[boundary + h].action[1 - seat]]]

-----------------------------------------------------------------------------
Recorded == Len(steps) = LastIndex + 1 /\ phase = "playing"

\* Both readings of a replay tell the same story: what the plan of a day sets as targets is
\* what the day's record ends with, it sells what the record sold and when, and it fertilizes
\* no more than the day did (extract_daily_plan against extract_replay).
ReadingsAgree ==
    Recorded => \A seat \in Seats, day \in DaysStarted, position \in Positions :
        LET plan == ExtractDailyPlan(seat, day, position)
            events == CollectDayEvents(seat, day, position)
            record == Record(seat, day, position)
            works == record.events.works
            done(op) == Cardinality({k \in DOMAIN works :
                                       works[k].op = op /\ works[k].on = "PLANT"})
        IN  /\ plan.crop_targets = record.targets.crops
            /\ plan.land_count = Len(record.end.unlocked_quadrants)
            /\ plan.fertilizer_by_crop <= done("FERTILIZE")
            /\ events.harvest_counts = done("HARVEST")
            /\ events.hires_submitted = record.events.hires
            /\ events.land_buys = Len(record.events.land)
            /\ \A anchor \in DOMAIN plan.sell_quantities :
                  plan.sell_quantities[anchor]
                     = Cardinality({k \in DOMAIN record.targets.sell_bins :
                                      record.targets.sell_bins[k] = anchor})
            /\ \A k \in DOMAIN record.targets.sell_bins :
                  record.targets.sell_bins[k] \in DOMAIN plan.sell_quantities

\* What can be seen on a tile, a missing field being none of it.
Shows(t, f) == IF f \in DOMAIN t.fields THEN t.fields[f] ELSE 0
SameToTheEye(a, b) ==
    /\ a.hires_today = b.hires_today /\ a.unlocked_quadrants = b.unlocked_quadrants
    /\ \A y \in DOMAIN a.tiles, x \in {1, 2} :
          LET s == a.tiles[y][x]
              t == b.tiles[y][x]
          IN  /\ s.form = t.form /\ s.kind = t.kind
              /\ \A f \in (DOMAIN s.fields \cup DOMAIN t.fields) \ Cosmetic : Shows(s, f) = Shows(t, f)

\* A slice is verified exactly if its day began on the recorded farm, whatever zeros and ages
\* the engine adds or leaves out, and the opponent does in it what it did in that day: each
\* recorded action in the turn it was recorded in, none of another day.
SliceIsThatDay ==
    Recorded => \A seat \in Seats, day \in DaysStarted, engine \in Engines :
        LET recorded == steps[FirstStart(day)].farms[seat]
            slice == DaySlice(seat, day, engine)
        IN  /\ slice.boundary_verified <=> SameToTheEye(Shown(engine, recorded), recorded)
            /\ seat # actor =>
                 slice.repeated = [k \in DOMAIN TurnsOf(day) |-> TurnsOf(day)[k].action]

\* Every order of a replay is told once, by both readings alike, and replayed in its turn.
OrdersTold == OrdersSound /\ ReadingsAgree /\ SliceIsThatDay
=============================================================================
