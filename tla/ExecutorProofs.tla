--------------------------- MODULE ExecutorProofs ---------------------------
(***************************************************************************)
(* The executor agent of Executor.tla on its farm, for every board, herd,  *)
(* market and set of plans: whatever the agent orders is a turn the farm   *)
(* can play, so that the farm's own invariants hold under it, and the      *)
(* agent keeps its types, its ledger of sales and its promise never to     *)
(* raise; its workers find what they were sent for, what the night takes   *)
(* was on its list, and no sale takes a meal from the herd.                *)
(***************************************************************************)
EXTENDS Executor, FarmProofs, NaturalsInduction, WellFoundedInduction

-----------------------------------------------------------------------------
\* Of two numbers.
LEMMA TwoNumbers ==
  ASSUME NEW m \in Int, NEW n \in Int
  PROVE  /\ Min({m, n}) = IF m <= n THEN m ELSE n
         /\ Larger(m, n) = IF m >= n THEN m ELSE n
         /\ Max({m, n}) = IF m >= n THEN m ELSE n
<1>1. Min({m, n}) = IF m <= n THEN m ELSE n
  <2>1. IsFiniteSet({m, n}) /\ {m, n} \in SUBSET Int /\ {m, n} # {}
    <3>1. {m, n} = {m} \cup {n}
      OBVIOUS
    <3>2. IsFiniteSet({m}) /\ IsFiniteSet({n})
      BY FS_Singleton
    <3> QED BY <3>1, <3>2, FS_Union
  <2>2. Min({m, n}) \in {m, n} /\ \A y \in {m, n} : Min({m, n}) <= y
    BY <2>1, MinIs
  <2> QED BY <2>2
<1>2. Max({m, n}) = IF m >= n THEN m ELSE n
  <2>1. \E x \in {m, n} : \A y \in {m, n} : x >= y
    OBVIOUS
  <2>2. Max({m, n}) \in {m, n} /\ \A y \in {m, n} : Max({m, n}) >= y
    BY <2>1 DEF Max
  <2> QED BY <2>2
<1> QED BY <1>1, <1>2 DEF Larger

-----------------------------------------------------------------------------
(* The board, and what the planners rank its tiles by. *)

LEMMA FiniteKinds ==
  /\ IsFiniteSet(Board) /\ IsFiniteSet(Units)
  /\ IsFiniteSet(Crops) /\ IsFiniteSet(Animals)
<1>1. Half \in Nat
  BY FarmAssumption
<1>2. IsFiniteSet(Line)
  <2>1. 0 \in Int /\ 2 * Half - 1 \in Int
    BY <1>1
  <2> QED BY <2>1, FS_Interval DEF Line
<1>3. IsFiniteSet(Board)
  BY <1>2, FS_Product DEF Board
<1>4. IsFiniteSet(Units)
  BY StoresAssumption, FS_Interval DEF Units
<1>5. Crops \in SUBSET Items /\ Animals \in SUBSET Items
  BY FarmAssumption
<1> QED BY <1>3, <1>4, <1>5, StoresAssumption, FS_Subset

LEMMA BoardTiles ==
  ASSUME NEW p \in Board
  PROVE  /\ p[1] \in Nat /\ p[2] \in Nat /\ p = <<p[1], p[2]>> /\ p # Nowhere
         /\ p[1] < 2 * Half /\ p[2] < 2 * Half /\ Half \in Nat
<1>1. Half \in Nat
  BY FarmAssumption
<1>2. p[1] \in Line /\ p[2] \in Line /\ p = <<p[1], p[2]>>
  BY DEF Board
<1>3. p[1] \in Nat /\ p[2] \in Nat /\ p[1] < 2 * Half /\ p[2] < 2 * Half
  BY <1>1, <1>2 DEF Line
<1>4. p # Nowhere
  BY <1>3 DEF Nowhere
<1> QED BY <1>1, <1>2, <1>3, <1>4

LEMMA ManhattanIs ==
  ASSUME NEW p \in Board, NEW q \in Board
  PROVE  Manhattan(p, q) \in Nat
BY BoardTiles DEF Manhattan, Far

LEMMA RankIs ==
  ASSUME NEW pool \in Int, NEW cost \in Int, NEW p \in Board
  PROVE  Rank(pool, cost, p) \in Int
<1>1. p[1] \in Int /\ p[2] \in Int /\ Half \in Int
  BY BoardTiles
<1>2. Area \in Int
  BY <1>1 DEF Area
<1>3. pool * CostBound + cost \in Int
  BY DEF CostBound
<1>4. (pool * CostBound + cost) * Area \in Int
  BY <1>2, <1>3
<1>5. p[2] * 2 * Half \in Int
  BY <1>1
<1> QED BY <1>1, <1>4, <1>5 DEF Rank

LEMMA ScoreIs ==
  ASSUME ClockOK, FieldOK, NEW p \in Board
  PROVE  SacrificeScore(p) \in Int
<1>1. field[p].age \in Int /\ field[p].yield \in Int
  BY DEF FieldOK, Tile
<1>2. Manhattan(p, Anchor) \in Int
  BY ManhattanIs, BoardFacts DEF Anchor
<1> DEFINE d == DerivePlant(field[p], day, step)
<1>3. d.age_days \in Int
  BY <1>1 DEF DerivePlant
<1>4. SacrificeScore(p) = Manhattan(p, Anchor) + d.age_days + 2 * field[p].yield
          + (IF d.fertilizer_active THEN 10 ELSE 0)
          + (IF d.currently_harvestable THEN 25 ELSE 0)
          + (IF d.days_until_next_harvest = None THEN 5 ELSE 0)
  BY DEF SacrificeScore
<1> HIDE DEF d
<1> QED BY <1>1, <1>2, <1>3, <1>4

\* A demand lists the kinds that are demanded.
LEMMA DemandIs ==
  ASSUME NEW S, NEW kinds \in Seq(S), NEW count, \A x \in S : count[x] \in Nat
  PROVE  Demand(kinds, count) \in Seq(S)
<1> DEFINE L == Len(kinds)
           more(k) == [n \in 1..count[kinds[k]] |-> kinds[k]]
           step_(f) == [k \in 0..L |-> IF k = 0 THEN <<>> ELSE f[k - 1] \o more(k)]
           units == CHOOSE f : f = step_(f)
           G == [k \in 1..L |-> [q \in Seq(S) |-> q \o more(k)]]
<1>1. Demand(kinds, count) = units[L]
  BY DEF Demand
<1>2. L \in Nat
  OBVIOUS
<1> HIDE DEF L
<1>3. ASSUME NEW k \in 1..L, NEW q \in Seq(S) PROVE q \o more(k) \in Seq(S)
  <2>1. kinds[k] \in S /\ count[kinds[k]] \in Nat
    BY DEF L
  <2>2. more(k) \in Seq(S)
    BY <2>1
  <2> HIDE DEF more
  <2> QED BY <2>2
<1> HIDE DEF more
<1>4. G \in [1..L -> [Seq(S) -> Seq(S)]] /\ <<>> \in Seq(S)
  BY <1>3
<1> HIDE DEF G
<1>5. PICK f : Unfolds(f, L, Seq(S), <<>>, G)
  BY <1>2, <1>4, Recursion
<1>6. f = step_(f)
  <2>0. f = [k \in 0..L |-> f[k]]
    BY <1>5 DEF Unfolds
  <2>1. ASSUME NEW k \in 0..L PROVE f[k] = step_(f)[k]
    <3>1. CASE k = 0
      BY <3>1, <1>5 DEF Unfolds
    <3>2. CASE k # 0
      <4>1. k \in 1..L /\ k - 1 \in 0..L /\ f[k - 1] \in Seq(S)
        BY <3>2, <1>2, <1>5 DEF Unfolds
      <4> QED BY <4>1, <1>5, <3>2 DEF G, Unfolds
    <3> QED BY <3>1, <3>2
  <2> QED BY <2>0, <2>1
<1>7. units = step_(units)
  <2> HIDE DEF step_
  <2> QED BY <1>6
<1> HIDE DEF units
<1>8. units[0] = <<>> /\ \A k \in 1..L : units[k] = units[k - 1] \o more(k)
  <2>1. ASSUME NEW k \in 0..L PROVE units[k] = step_(units)[k]
    <3> HIDE DEF step_
    <3> QED BY <1>7
  <2>2. units[0] = <<>>
    BY <2>1, <1>2
  <2>3. ASSUME NEW k \in 1..L PROVE units[k] = units[k - 1] \o more(k)
    <3>1. k \in 0..L /\ k # 0
      BY <1>2
    <3> QED BY <3>1, <2>1
  <2> QED BY <2>2, <2>3
<1>9. \A k \in 0..L : units[k] \in Seq(S)
  <2>1. units[0] \in Seq(S)
    BY <1>8
  <2>a. ASSUME NEW k \in 1..L, units[k - 1] \in Seq(S) PROVE units[k] \in Seq(S)
    BY <2>a, <1>3, <1>8
  <2> QED BY <2>1, <2>a, <1>2, Closure
<1> QED BY <1>1, <1>2, <1>9

-----------------------------------------------------------------------------
(* The layouts: no two animals and no two crops get one tile, and each tile *)
(* is of the pool its slot names.                                           *)

SlotSpace == [animal: Animals, tile: Board, source: {Sources[k] : k \in 1..4}]
SlotsOK(slots) ==
  /\ slots \in SUBSET SlotSpace
  /\ \A s \in slots : /\ s.tile \in Unlocked /\ Pool(s.tile, s.animal) # 0
                      /\ s.source = Sources[Pool(s.tile, s.animal)]
  /\ \A s, t \in slots : s.tile = t.tile => s = t

LEMMA HousedOK ==
  ASSUME ClockOK, FieldOK, NEW slots, SlotsOK(slots), NEW a \in Animals
  PROVE  SlotsOK(Housed(slots, a))
<1> DEFINE free == {p \in Unlocked : Pool(p, a) # 0 /\ \A s \in slots : s.tile # p}
           best == CHOOSE p \in free : \A q \in free : SlotRank(p, a) <= SlotRank(q, a)
           slot_ == [animal |-> a, tile |-> best, source |-> Sources[Pool(best, a)]]
<1>1. Housed(slots, a) = IF free = {} THEN slots ELSE slots \cup {slot_}
  BY DEF Housed, Least
<1>2. CASE free = {}
  BY <1>1, <1>2
<1>3. CASE free # {}
  <2>1. IsFiniteSet(free)
    <3>1. free \in SUBSET Board
      BY DEF Unlocked
    <3> HIDE DEF free
    <3> QED BY <3>1, FiniteKinds, FS_Subset
  <2>2. best \in free
    <3> DEFINE f == [p \in free |-> SlotRank(p, a)]
    <3>1. ASSUME NEW p \in free PROVE SlotRank(p, a) \in Int
      <4>1. p \in Board
        BY DEF Unlocked
      <4>2. SacrificeScore(p) \in Int /\ Manhattan(p, Anchor) \in Int
        BY <4>1, ScoreIs, ManhattanIs, BoardFacts DEF Anchor
      <4>3. Pool(p, a) \in Int
        BY DEF Pool
      <4> QED BY <4>1, <4>2, <4>3, RankIs DEF SlotRank
    <3>2. \A p \in free : f[p] \in Int /\ f[p] = SlotRank(p, a)
      BY <3>1
    <3> HIDE DEF f, free
    <3>3. \E p \in free : \A q \in free : f[p] <= f[q]
      BY <3>2, <2>1, <1>3, FiniteLeast
    <3>4. \E p \in free : \A q \in free : SlotRank(p, a) <= SlotRank(q, a)
      BY <3>2, <3>3
    <3> QED BY <3>4
  <2>3. /\ best \in Unlocked /\ best \in Board /\ Pool(best, a) # 0
        /\ \A s \in slots : s.tile # best
    BY <2>2 DEF Unlocked
  <2> HIDE DEF best
  <2>4. slot_ \in SlotSpace
    <3>1. Pool(best, a) \in 1..4
      BY <2>3 DEF Pool
    <3> QED BY <3>1, <2>3 DEF SlotSpace
  <2>5. slot_.tile = best /\ slot_.animal = a /\ slot_.source = Sources[Pool(best, a)]
    OBVIOUS
  <2> HIDE DEF slot_
  <2>6. Housed(slots, a) = slots \cup {slot_}
    BY <1>1, <1>3
  <2> HIDE DEF free
  <2>7. slots \cup {slot_} \in SUBSET SlotSpace
    BY <2>4 DEF SlotsOK
  <2>8. \A s \in slots \cup {slot_} : /\ s.tile \in Unlocked /\ Pool(s.tile, s.animal) # 0
                                      /\ s.source = Sources[Pool(s.tile, s.animal)]
    BY <2>3, <2>5 DEF SlotsOK
  <2>9. \A s, t \in slots \cup {slot_} : s.tile = t.tile => s = t
    BY <2>3, <2>5 DEF SlotsOK
  <2> QED BY <2>6, <2>7, <2>8, <2>9 DEF SlotsOK
<1> QED BY <1>2, <1>3

LEMMA HerdLaid ==
  ASSUME ClockOK, FieldOK, NEW needed, \A a \in Animals : needed[a] \in Nat
  PROVE  SlotsOK(PlanAnimalLayout(needed))
<1> DEFINE herd == Demand(AnimalOrder, needed)
           L == Len(herd)
           S == {s \in SUBSET SlotSpace : SlotsOK(s)}
           G == [k \in 1..L |-> [s \in S |-> Housed(s, herd[k])]]
           step_(f) == [k \in 0..L |-> IF k = 0 THEN {} ELSE Housed(f[k - 1], herd[k])]
           slots == CHOOSE f : f = step_(f)
<1>1. PlanAnimalLayout(needed) = slots[L]
  BY DEF PlanAnimalLayout
<1>2. herd \in Seq(Animals)
  BY ExecutorAssumption, DemandIs
<1> HIDE DEF herd
<1>3. L \in Nat /\ \A k \in 1..L : herd[k] \in Animals
  BY <1>2
<1> HIDE DEF L
<1>4. {} \in S
  BY DEF SlotsOK
<1>5. ASSUME NEW k \in 1..L, NEW s \in S PROVE Housed(s, herd[k]) \in S
  <2>1. SlotsOK(s)
    OBVIOUS
  <2>2. SlotsOK(Housed(s, herd[k]))
    BY <2>1, <1>3, HousedOK
  <2> QED BY <2>2 DEF SlotsOK
<1>a. \A s \in S : SlotsOK(s)
  OBVIOUS
<1> HIDE DEF S
<1>6. G \in [1..L -> [S -> S]]
  BY <1>5
<1> HIDE DEF G
<1>7. PICK f : Unfolds(f, L, S, {}, G)
  BY <1>3, <1>4, <1>6, Recursion
<1>8. f = step_(f)
  <2>1. f = [k \in 0..L |-> f[k]]
    BY <1>7 DEF Unfolds
  <2>2. ASSUME NEW k \in 0..L PROVE f[k] = step_(f)[k]
    <3>1. CASE k = 0
      BY <3>1, <1>7 DEF Unfolds
    <3>2. CASE k # 0
      <4>1. k \in 1..L /\ k - 1 \in 0..L /\ f[k - 1] \in S
        BY <3>2, <1>3, <1>7 DEF Unfolds
      <4> QED BY <4>1, <1>7, <3>2 DEF G, Unfolds
    <3> QED BY <3>1, <3>2
  <2> QED BY <2>1, <2>2
<1>9. slots = step_(slots)
  <2> HIDE DEF step_
  <2> QED BY <1>8
<1> HIDE DEF slots
<1>10. \A k \in 0..L : slots[k] = step_(slots)[k]
  <2> HIDE DEF step_
  <2> QED BY <1>9
<1>11. slots[0] \in S
  BY <1>10, <1>3, <1>4
<1>12. ASSUME NEW k \in 1..L, slots[k - 1] \in S PROVE slots[k] \in S
  <2>1. k \in 0..L /\ k # 0
    BY <1>3
  <2>2. slots[k] = Housed(slots[k - 1], herd[k])
    BY <2>1, <1>10
  <2> QED BY <2>2, <1>5, <1>12
<1>13. \A k \in 0..L : slots[k] \in S
  BY <1>3, <1>11, <1>12, Closure
<1> QED BY <1>1, <1>3, <1>13, <1>a

BedSpace(tiles) == [tile: tiles, crop: Crops]
BedsOK(plants, tiles) ==
  /\ plants \in SUBSET BedSpace(tiles)
  /\ \A s, t \in plants : s.tile = t.tile => s = t

LEMMA BeddedOK ==
  ASSUME ClockOK, FieldOK, NEW released, NEW tiles \in SUBSET Board,
         NEW plants, BedsOK(plants, tiles), NEW c \in Crops
  PROVE  BedsOK(Bedded(plants, c, released, tiles), tiles)
<1> DEFINE free == {p \in tiles : BedPool(p, released) # 0 /\ \A s \in plants : s.tile # p}
           best == CHOOSE p \in free : \A q \in free : BedRank(p, released) <= BedRank(q, released)
           bed == [tile |-> best, crop |-> c]
<1>1. Bedded(plants, c, released, tiles) = IF free = {} THEN plants ELSE plants \cup {bed}
  BY DEF Bedded, Least
<1>2. CASE free = {}
  BY <1>1, <1>2
<1>3. CASE free # {}
  <2>1. IsFiniteSet(free)
    <3>1. free \in SUBSET Board
      OBVIOUS
    <3> HIDE DEF free
    <3> QED BY <3>1, FiniteKinds, FS_Subset
  <2>2. best \in free
    <3> DEFINE f == [p \in free |-> BedRank(p, released)]
    <3>1. ASSUME NEW p \in free PROVE BedRank(p, released) \in Int
      <4>1. p \in Board
        OBVIOUS
      <4>2. SacrificeScore(p) \in Int /\ Manhattan(p, Anchor) \in Int
        BY <4>1, ScoreIs, ManhattanIs, BoardFacts DEF Anchor
      <4>3. BedPool(p, released) \in Int
        BY DEF BedPool
      <4> QED BY <4>1, <4>2, <4>3, RankIs DEF BedRank
    <3>2. \A p \in free : f[p] \in Int /\ f[p] = BedRank(p, released)
      BY <3>1
    <3> HIDE DEF f, free
    <3>3. \E p \in free : \A q \in free : f[p] <= f[q]
      BY <3>2, <2>1, <1>3, FiniteLeast
    <3>4. \E p \in free : \A q \in free : BedRank(p, released) <= BedRank(q, released)
      BY <3>2, <3>3
    <3> QED BY <3>4
  <2>3. best \in tiles /\ \A s \in plants : s.tile # best
    BY <2>2
  <2> HIDE DEF best
  <2>4. bed \in BedSpace(tiles) /\ bed.tile = best
    BY <2>3 DEF BedSpace
  <2> HIDE DEF bed
  <2>5. Bedded(plants, c, released, tiles) = plants \cup {bed}
    BY <1>1, <1>3
  <2> HIDE DEF free
  <2>6. plants \cup {bed} \in SUBSET BedSpace(tiles)
    BY <2>4 DEF BedsOK
  <2>7. \A s, t \in plants \cup {bed} : s.tile = t.tile => s = t
    BY <2>3, <2>4 DEF BedsOK
  <2> QED BY <2>5, <2>6, <2>7 DEF BedsOK
<1> QED BY <1>2, <1>3

\* What the crops' planner answers: beds for which it digs where they are not vacant.
CropsOK(crops, tiles) ==
  /\ BedsOK(crops.plants, tiles)
  /\ crops.digs = {s.tile : s \in {s \in crops.plants : ~Vacant(field[s.tile])}}

LEMMA CropsLaid ==
  ASSUME ClockOK, FieldOK, NEW targets, \A c \in Crops : targets[c] \in Nat,
         NEW tiles \in SUBSET Board
  PROVE  CropsOK(ReconcileCrops(targets, tiles), tiles)
<1> DEFINE released == UNION {Released(c, targets, tiles) : c \in Crops}
           deficits == [c \in Crops |-> Deficit(c, targets, tiles)]
           wanted == Demand(CropOrder, deficits)
           L == Len(wanted)
           S == {s \in SUBSET BedSpace(tiles) : BedsOK(s, tiles)}
           G == [k \in 1..L |-> [s \in S |-> Bedded(s, wanted[k], released, tiles)]]
           step_(f) == [k \in 0..L |-> IF k = 0 THEN {}
                                       ELSE Bedded(f[k - 1], wanted[k], released, tiles)]
           plants == CHOOSE f : f = step_(f)
           sown == plants[L]
<1>1. ReconcileCrops(targets, tiles) =
        [plants |-> sown, digs |-> {s.tile : s \in {s \in sown : ~Vacant(field[s.tile])}}]
  BY DEF ReconcileCrops
<1>2. wanted \in Seq(Crops)
  <2>1. ASSUME NEW c \in Crops PROVE deficits[c] \in Nat
    <3>1. Growing(c, tiles) \in SUBSET Board
      BY DEF Growing
    <3>2. Cardinality(Growing(c, tiles)) \in Nat
      BY <3>1, FiniteKinds, FS_Subset, FS_CardinalityType
    <3> QED BY <3>2 DEF Deficit
  <2> HIDE DEF deficits
  <2> QED BY <2>1, ExecutorAssumption, DemandIs
<1> HIDE DEF wanted, released
<1>3. L \in Nat /\ \A k \in 1..L : wanted[k] \in Crops
  BY <1>2
<1> HIDE DEF L
<1>4. {} \in S
  BY DEF BedsOK
<1>5. ASSUME NEW k \in 1..L, NEW s \in S PROVE Bedded(s, wanted[k], released, tiles) \in S
  <2>1. BedsOK(s, tiles)
    OBVIOUS
  <2>2. BedsOK(Bedded(s, wanted[k], released, tiles), tiles)
    BY <2>1, <1>3, BeddedOK
  <2> QED BY <2>2 DEF BedsOK
<1>a. \A s \in S : BedsOK(s, tiles)
  OBVIOUS
<1> HIDE DEF S
<1>6. G \in [1..L -> [S -> S]]
  BY <1>5
<1> HIDE DEF G
<1>7. PICK f : Unfolds(f, L, S, {}, G)
  BY <1>3, <1>4, <1>6, Recursion
<1>8. f = step_(f)
  <2>1. f = [k \in 0..L |-> f[k]]
    BY <1>7 DEF Unfolds
  <2>2. ASSUME NEW k \in 0..L PROVE f[k] = step_(f)[k]
    <3>1. CASE k = 0
      BY <3>1, <1>7 DEF Unfolds
    <3>2. CASE k # 0
      <4>1. k \in 1..L /\ k - 1 \in 0..L /\ f[k - 1] \in S
        BY <3>2, <1>3, <1>7 DEF Unfolds
      <4> QED BY <4>1, <1>7, <3>2 DEF G, Unfolds
    <3> QED BY <3>1, <3>2
  <2> QED BY <2>1, <2>2
<1>9. plants = step_(plants)
  <2> HIDE DEF step_
  <2> QED BY <1>8
<1> HIDE DEF plants
<1>10. \A k \in 0..L : plants[k] = step_(plants)[k]
  <2> HIDE DEF step_
  <2> QED BY <1>9
<1>11. plants[0] \in S
  BY <1>10, <1>3, <1>4
<1>12. ASSUME NEW k \in 1..L, plants[k - 1] \in S PROVE plants[k] \in S
  <2>1. k \in 0..L /\ k # 0
    BY <1>3
  <2>2. plants[k] = Bedded(plants[k - 1], wanted[k], released, tiles)
    BY <2>1, <1>10
  <2> QED BY <2>2, <1>5, <1>12
<1>13. \A k \in 0..L : plants[k] \in S
  BY <1>3, <1>11, <1>12, Closure
<1>14. BedsOK(sown, tiles)
  BY <1>3, <1>13, <1>a
<1> HIDE DEF sown
<1> QED BY <1>1, <1>14 DEF CropsOK

\* Both layouts of a day: no tile is claimed twice.
LayoutsOK(l) ==
  /\ SlotsOK(l.animals)
  /\ CropsOK(l.crops, Unlocked \ {s.tile : s \in l.animals})

LEMMA DayLaid ==
  ASSUME ClockOK, FieldOK, NEW targets, \A c \in Crops : targets[c] \in Nat,
         NEW needed, \A a \in Animals : needed[a] \in Nat
  PROVE  LayoutsOK(PlanDayLayouts(targets, needed))
<1> DEFINE slots == PlanAnimalLayout(needed)
           tiles == Unlocked \ {s.tile : s \in slots}
<1>1. SlotsOK(slots)
  BY HerdLaid
<1>2. CropsOK(ReconcileCrops(targets, tiles), tiles)
  <2>1. tiles \in SUBSET Board
    BY DEF Unlocked
  <2> HIDE DEF tiles
  <2> QED BY <2>1, CropsLaid
<1>3. PlanDayLayouts(targets, needed) = [animals |-> slots, crops |-> ReconcileCrops(targets, tiles)]
  BY DEF PlanDayLayouts, CropsBeside
<1> HIDE DEF slots
<1> QED BY <1>1, <1>2, <1>3 DEF LayoutsOK

-----------------------------------------------------------------------------
(* The tasks of a turn, by kind; each is settled by its target and tile. *)

IsWater(t) ==
  /\ t.tile \in Plants /\ WaterUrgency(t.tile) # None
  /\ t = Task("WATER", WaterUrgency(t.tile), t.tile, None, None, "mechanical")
IsFeed(t) ==
  /\ t.tile \in Herd /\ ~field[t.tile].fed
  /\ t = Task("FEED", Maintenance, t.tile, None, Wheat, "mechanical")
IsCollect(t) ==
  /\ t.tile \in Herd /\ field[t.tile].fertilizer
  /\ t = Task("COLLECT_FERTILIZER", Maintenance, t.tile, None, None, "mechanical")
IsHarvest(t) ==
  /\ t.tile \in Board
  /\ t = Task("HARVEST", Productive, t.tile, None, None, "mechanical")
IsDig(t, l) ==
  /\ t.tile \in l.crops.digs
  /\ t = Task("DIG", Manager, t.tile, None, None, "manager_reconciliation")
IsReclaim(t, l) ==
  /\ \E s \in l.animals : s.tile = t.tile /\ s.source = "weed_reclaim"
  /\ t = Task("DIG", Manager, t.tile, None, None, "weed_reclaim")
IsPlant(t, l) ==
  /\ \E s \in l.crops.plants : s.tile = t.tile /\ s.crop = t.target
  /\ t = [Task("PLANT", Manager, t.tile, t.target, None, "manager_reconciliation")
             EXCEPT !.after = IF t.tile \in l.crops.digs THEN "DIG" ELSE None]
IsBuild(t, l) ==
  \E s \in l.animals :
     /\ s.source # "empty_structure" /\ s.tile = t.tile /\ t.target = StructureOf[s.animal]
     /\ t = [Task("BUILD", Manager, s.tile, StructureOf[s.animal], None, s.source)
                EXCEPT !.after = IF s.source = "weed_reclaim" THEN "DIG" ELSE None]
IsPlace(t, l) ==
  \E s \in l.animals :
     /\ s.tile = t.tile /\ t.target = s.animal
     /\ t = [Task("PLACE", Manager, s.tile, s.animal, s.animal, "manager_target")
                EXCEPT !.after = IF s.source # "empty_structure" THEN "BUILD" ELSE None]
IsCare(t) ==
  /\ t.tile \in Herd /\ t.target \in Animals
  /\ t = Task("CARE", Manager, t.tile, t.target, None, "manager_allocation")
IsFertilize(t) ==
  /\ t.tile \in Plants /\ t.target \in Crops
  /\ t = Task("FERTILIZE", Manager, t.tile, t.target, Fertilizer, "manager_allocation")
IsWork(t, l) ==
  \/ IsWater(t) \/ IsFeed(t) \/ IsCollect(t) \/ IsHarvest(t)
  \/ IsDig(t, l) \/ IsReclaim(t, l) \/ IsPlant(t, l) \/ IsBuild(t, l) \/ IsPlace(t, l)
  \/ IsCare(t) \/ IsFertilize(t)

LEMMA MechanicalWork ==
  ASSUME NEW l, NEW t \in MechanicalTasks
  PROVE  IsWork(t, l)
<1>1. CASE t \in {Task("WATER", WaterUrgency(p), p, None, None, "mechanical") :
                     p \in {p \in Plants : WaterUrgency(p) # None}}
  <2>1. IsWater(t)
    BY <1>1 DEF IsWater, Task
  <2> QED BY <2>1 DEF IsWork
<1>2. CASE t \in {Task("FEED", Maintenance, p, None, Wheat, "mechanical") :
                     p \in {p \in Herd : ~field[p].fed}}
  <2>1. IsFeed(t)
    BY <1>2 DEF IsFeed, Task
  <2> QED BY <2>1 DEF IsWork
<1>3. CASE t \in {Task("COLLECT_FERTILIZER", Maintenance, p, None, None, "mechanical") :
                     p \in {p \in Herd : field[p].fertilizer}}
  <2>1. IsCollect(t)
    BY <1>3 DEF IsCollect, Task
  <2> QED BY <2>1 DEF IsWork
<1>4. CASE \E p \in Board : t = Task("HARVEST", Productive, p, None, None, "mechanical")
  <2>1. IsHarvest(t)
    BY <1>4 DEF IsHarvest, Task
  <2> QED BY <2>1 DEF IsWork
<1> QED BY <1>1, <1>2, <1>3, <1>4 DEF MechanicalTasks, Plants, Herd

LEMMA CropWork ==
  ASSUME NEW l, NEW t \in CropTasks(l.crops)
  PROVE  IsDig(t, l) \/ IsPlant(t, l)
<1>1. CASE t \in {Task("DIG", Manager, p, None, None, "manager_reconciliation") : p \in l.crops.digs}
  BY <1>1 DEF IsDig, Task
<1>2. CASE t \notin {Task("DIG", Manager, p, None, None, "manager_reconciliation") : p \in l.crops.digs}
  <2>1. PICK s \in l.crops.plants :
          t = [Task("PLANT", Manager, s.tile, s.crop, None, "manager_reconciliation")
                 EXCEPT !.after = IF s.tile \in l.crops.digs THEN "DIG" ELSE None]
    BY <1>2 DEF CropTasks
  <2>2. t.tile = s.tile /\ t.target = s.crop
    BY <2>1 DEF Task
  <2> QED BY <2>1, <2>2 DEF IsPlant
<1> QED BY <1>1, <1>2

LEMMA AnimalWork ==
  ASSUME NEW l, NEW affordable, NEW t \in AnimalTasks(l.animals, affordable)
  PROVE  IsReclaim(t, l) \/ IsBuild(t, l) \/ IsPlace(t, l)
<1> DEFINE ready == {s \in l.animals : \/ s.source = "empty_structure"
                                       \/ Available(s.animal) > 0
                                       \/ s.animal \in affordable}
           toBuild == {s \in ready : s.source # "empty_structure"}
<1>1. \/ \E s \in {s \in toBuild : s.source = "weed_reclaim"} :
            t = Task("DIG", Manager, s.tile, None, None, "weed_reclaim")
      \/ \E s \in toBuild :
            t = [Task("BUILD", Manager, s.tile, StructureOf[s.animal], None, s.source)
                    EXCEPT !.after = IF s.source = "weed_reclaim" THEN "DIG" ELSE None]
      \/ \E s \in ready :
            t = [Task("PLACE", Manager, s.tile, s.animal, s.animal, "manager_target")
                    EXCEPT !.after = IF s \in toBuild THEN "BUILD" ELSE None]
  BY DEF AnimalTasks
<1>2. ASSUME NEW s \in toBuild, s.source = "weed_reclaim",
             t = Task("DIG", Manager, s.tile, None, None, "weed_reclaim")
      PROVE  IsReclaim(t, l)
  BY <1>2 DEF IsReclaim, Task
<1>3. ASSUME NEW s \in toBuild,
             t = [Task("BUILD", Manager, s.tile, StructureOf[s.animal], None, s.source)
                    EXCEPT !.after = IF s.source = "weed_reclaim" THEN "DIG" ELSE None]
      PROVE  IsBuild(t, l)
  <2>1. t.tile = s.tile /\ t.target = StructureOf[s.animal]
    BY <1>3 DEF Task
  <2> QED BY <1>3, <2>1 DEF IsBuild
<1>4. ASSUME NEW s \in ready,
             t = [Task("PLACE", Manager, s.tile, s.animal, s.animal, "manager_target")
                    EXCEPT !.after = IF s \in toBuild THEN "BUILD" ELSE None]
      PROVE  IsPlace(t, l)
  <2>1. t.tile = s.tile /\ t.target = s.animal
    BY <1>4 DEF Task
  <2>2. s \in toBuild <=> s.source # "empty_structure"
    OBVIOUS
  <2>3. s \in l.animals
    OBVIOUS
  <2> HIDE DEF ready, toBuild
  <2> QED BY <1>4, <2>1, <2>2, <2>3 DEF IsPlace
<1> HIDE DEF ready, toBuild
<1> QED BY <1>1, <1>2, <1>3, <1>4

LEMMA AllocatedWork ==
  ASSUME NEW plan, NEW t \in Allocations(plan)
  PROVE  IsCare(t) \/ IsFertilize(t)
<1> DEFINE careful == UNION {NearestFew(Uncared(a), plan.care[a]) : a \in Animals}
           dunged == UNION {NearestFew(Unfertilized(c), plan.fertilizer[c]) : c \in Crops}
<1>1. \A p \in careful : p \in Herd /\ field[p].animal \in Animals
  BY DEF NearestFew, Uncared
<1>2. \A p \in dunged : p \in Plants /\ field[p].crop \in Crops
  BY DEF NearestFew, Unfertilized
<1>3. \/ \E p \in careful :
            t = Task("CARE", Manager, p, field[p].animal, None, "manager_allocation")
      \/ \E p \in dunged :
            t = Task("FERTILIZE", Manager, p, field[p].crop, Fertilizer, "manager_allocation")
  BY DEF Allocations
<1> HIDE DEF careful, dunged
<1>4. ASSUME NEW p \in careful,
             t = Task("CARE", Manager, p, field[p].animal, None, "manager_allocation")
      PROVE  IsCare(t)
  BY <1>1, <1>4 DEF IsCare, Task
<1>5. ASSUME NEW p \in dunged,
             t = Task("FERTILIZE", Manager, p, field[p].crop, Fertilizer, "manager_allocation")
      PROVE  IsFertilize(t)
  BY <1>2, <1>5 DEF IsFertilize, Task
<1> QED BY <1>3, <1>4, <1>5

LEMMA WorkIs ==
  ASSUME NEW l, NEW plan, NEW affordable, NEW t \in WorkOn(l, plan, affordable)
  PROVE  IsWork(t, l)
BY MechanicalWork, CropWork, AnimalWork, AllocatedWork DEF WorkOn, IsWork


\* Each kind of work has its name.
LEMMA WorkKinds ==
  ASSUME NEW l, NEW t, IsWork(t, l)
  PROVE  /\ t.kind = "WATER" <=> IsWater(t)
         /\ t.kind = "FEED" <=> IsFeed(t)
         /\ t.kind = "COLLECT_FERTILIZER" <=> IsCollect(t)
         /\ t.kind = "HARVEST" <=> IsHarvest(t)
         /\ t.kind = "DIG" <=> IsDig(t, l) \/ IsReclaim(t, l)
         /\ t.kind = "PLANT" <=> IsPlant(t, l)
         /\ t.kind = "BUILD" <=> IsBuild(t, l)
         /\ t.kind = "PLACE" <=> IsPlace(t, l)
         /\ t.kind = "CARE" <=> IsCare(t)
         /\ t.kind = "FERTILIZE" <=> IsFertilize(t)
<1>1. /\ IsWater(t) => t.kind = "WATER"
      /\ IsFeed(t) => t.kind = "FEED"
      /\ IsCollect(t) => t.kind = "COLLECT_FERTILIZER"
      /\ IsHarvest(t) => t.kind = "HARVEST"
  BY DEF IsWater, IsFeed, IsCollect, IsHarvest, Task
<1>2. /\ IsDig(t, l) => t.kind = "DIG"
      /\ IsReclaim(t, l) => t.kind = "DIG"
  BY DEF IsDig, IsReclaim, Task
<1>3. IsPlant(t, l) => t.kind = "PLANT"
  BY DEF IsPlant, Task
<1>4. IsBuild(t, l) => t.kind = "BUILD"
  BY DEF IsBuild, Task
<1>5. IsPlace(t, l) => t.kind = "PLACE"
  BY DEF IsPlace, Task
<1>6. /\ IsCare(t) => t.kind = "CARE"
      /\ IsFertilize(t) => t.kind = "FERTILIZE"
  BY DEF IsCare, IsFertilize, Task
<1> QED BY <1>1, <1>2, <1>3, <1>4, <1>5, <1>6 DEF IsWork

\* Two pieces of work with one key are one: the planners never claim a tile twice.
LEMMA WorkKeys ==
  ASSUME NEW l, LayoutsOK(l), NEW s, IsWork(s, l), NEW t, IsWork(t, l), Key(s) = Key(t)
  PROVE  s = t
<1>1. s.kind = t.kind /\ s.target = t.target /\ s.tile = t.tile
  BY DEF Key
<1>2. CASE IsWater(s)
  <2>1. IsWater(t)
    BY <1>1, <1>2, WorkKinds
  <2> QED BY <1>1, <1>2, <2>1 DEF IsWater
<1>3. CASE IsFeed(s)
  <2>1. IsFeed(t)
    BY <1>1, <1>3, WorkKinds
  <2> QED BY <1>1, <1>3, <2>1 DEF IsFeed
<1>4. CASE IsCollect(s)
  <2>1. IsCollect(t)
    BY <1>1, <1>4, WorkKinds
  <2> QED BY <1>1, <1>4, <2>1 DEF IsCollect
<1>5. CASE IsHarvest(s)
  <2>1. IsHarvest(t)
    BY <1>1, <1>5, WorkKinds
  <2> QED BY <1>1, <1>5, <2>1 DEF IsHarvest
<1>6. CASE IsDig(s, l) \/ IsReclaim(s, l)
  <2>1. IsDig(t, l) \/ IsReclaim(t, l)
    BY <1>1, <1>6, WorkKinds
  <2>2. l.crops.digs \cap {x.tile : x \in l.animals} = {}
    <3>1. l.crops.plants \in SUBSET BedSpace(Unlocked \ {x.tile : x \in l.animals})
      BY DEF LayoutsOK, CropsOK, BedsOK
    <3>2. \A x \in l.crops.plants : x.tile \notin {y.tile : y \in l.animals}
      BY <3>1 DEF BedSpace
    <3>3. l.crops.digs = {x.tile : x \in {x \in l.crops.plants : ~Vacant(field[x.tile])}}
      BY DEF LayoutsOK, CropsOK
    <3> QED BY <3>2, <3>3
  <2>3. \A x : IsDig(x, l) => x.tile \in l.crops.digs
    BY DEF IsDig
  <2>4. \A x : IsReclaim(x, l) => x.tile \in {y.tile : y \in l.animals}
    BY DEF IsReclaim
  <2>5. CASE IsDig(s, l)
    <3>1. IsDig(t, l)
      BY <2>1, <2>2, <2>3, <2>4, <2>5, <1>1
    <3> QED BY <1>1, <2>5, <3>1 DEF IsDig
  <2>6. CASE IsReclaim(s, l)
    <3>1. IsReclaim(t, l)
      BY <2>1, <2>2, <2>3, <2>4, <2>6, <1>1
    <3> QED BY <1>1, <2>6, <3>1 DEF IsReclaim
  <2> QED BY <1>6, <2>5, <2>6
<1>7. CASE IsPlant(s, l)
  <2>1. IsPlant(t, l)
    BY <1>1, <1>7, WorkKinds
  <2> QED BY <1>1, <1>7, <2>1 DEF IsPlant
<1>a. \A x, y \in l.animals : x.tile = y.tile => x = y
  BY DEF LayoutsOK, SlotsOK
<1>8. CASE IsBuild(s, l)
  <2>1. IsBuild(t, l)
    BY <1>1, <1>8, WorkKinds
  <2>2. PICK x \in l.animals :
          /\ x.tile = s.tile
          /\ s = [Task("BUILD", Manager, x.tile, StructureOf[x.animal], None, x.source)
                    EXCEPT !.after = IF x.source = "weed_reclaim" THEN "DIG" ELSE None]
    BY <1>8 DEF IsBuild
  <2>3. PICK y \in l.animals :
          /\ y.tile = t.tile
          /\ t = [Task("BUILD", Manager, y.tile, StructureOf[y.animal], None, y.source)
                    EXCEPT !.after = IF y.source = "weed_reclaim" THEN "DIG" ELSE None]
    BY <2>1 DEF IsBuild
  <2>4. x = y
    BY <2>2, <2>3, <1>1, <1>a
  <2> QED BY <2>2, <2>3, <2>4
<1>9. CASE IsPlace(s, l)
  <2>1. IsPlace(t, l)
    BY <1>1, <1>9, WorkKinds
  <2>2. PICK x \in l.animals :
          /\ x.tile = s.tile
          /\ s = [Task("PLACE", Manager, x.tile, x.animal, x.animal, "manager_target")
                    EXCEPT !.after = IF x.source # "empty_structure" THEN "BUILD" ELSE None]
    BY <1>9 DEF IsPlace
  <2>3. PICK y \in l.animals :
          /\ y.tile = t.tile
          /\ t = [Task("PLACE", Manager, y.tile, y.animal, y.animal, "manager_target")
                    EXCEPT !.after = IF y.source # "empty_structure" THEN "BUILD" ELSE None]
    BY <2>1 DEF IsPlace
  <2>4. x = y
    BY <2>2, <2>3, <1>1, <1>a
  <2> QED BY <2>2, <2>3, <2>4
<1>10. CASE IsCare(s)
  <2>1. IsCare(t)
    BY <1>1, <1>10, WorkKinds
  <2> QED BY <1>1, <1>10, <2>1 DEF IsCare
<1>11. CASE IsFertilize(s)
  <2>1. IsFertilize(t)
    BY <1>1, <1>11, WorkKinds
  <2> QED BY <1>1, <1>11, <2>1 DEF IsFertilize
<1> QED BY <1>2, <1>3, <1>4, <1>5, <1>6, <1>7, <1>8, <1>9, <1>10, <1>11 DEF IsWork

-----------------------------------------------------------------------------
(* What a worker can be told to do. *)

WorkNames == {"BUILD", "CARE", "COLLECT_FERTILIZER", "DIG", "FEED", "FERTILIZE",
              "HARVEST", "PLACE", "PLANT", "WATER"}
Targets == Items \cup ({None} \cup {StructureOf[a] : a \in Animals})
Chore(t) ==
  /\ t.kind \in WorkNames /\ t.priority \in 0..3 /\ t.tile \in Board /\ t.n = 1
  /\ t.target \in Targets /\ t.item \in Items \cup {None}
  /\ t.kind = "PLANT" => t.target \in Crops
  /\ t.kind = "BUILD" => t.target \in Structures
  /\ t.kind = "PLACE" => t.target \in Animals

LEMMA WorkIsChore ==
  ASSUME NEW l, LayoutsOK(l), NEW t, IsWork(t, l)
  PROVE  Chore(t)
<1>a. Maintenance \in 0..3 /\ Productive \in 0..3 /\ Manager \in 0..3
  BY DEF Maintenance, Productive, Manager
<1>b. Plants \in SUBSET Board /\ Herd \in SUBSET Board
  BY DEF Plants, Herd
<1>c. /\ Crops \in SUBSET Items /\ Animals \in SUBSET Items
      /\ Wheat \in Items /\ Fertilizer \in Items
      /\ \A a \in Animals : StructureOf[a] \in Structures
  BY FarmAssumption, FieldAssumption
<1>d. \A x \in l.animals : x.tile \in Board /\ x.animal \in Animals
  BY DEF LayoutsOK, SlotsOK, SlotSpace
<1>e. \A x \in l.crops.plants : x.tile \in Board /\ x.crop \in Crops
  BY DEF LayoutsOK, CropsOK, BedsOK, BedSpace, Unlocked
<1>f. l.crops.digs \in SUBSET Board
  BY <1>e DEF LayoutsOK, CropsOK
<1>1. CASE IsWater(t)
  <2>1. WaterUrgency(t.tile) \in {Maintenance, Productive}
    BY <1>1 DEF IsWater, WaterUrgency
  <2>2. /\ t.kind = "WATER" /\ t.tile \in Board /\ t.n = 1 /\ t.target = None /\ t.item = None
        /\ t.priority = WaterUrgency(t.tile)
    BY <1>1, <1>b DEF IsWater, Task
  <2> QED BY <2>1, <2>2, <1>a DEF Chore, WorkNames, Targets
<1>2. CASE IsFeed(t)
  <2>1. /\ t.kind = "FEED" /\ t.tile \in Board /\ t.n = 1 /\ t.target = None /\ t.item = Wheat
        /\ t.priority = Maintenance
    BY <1>2, <1>b DEF IsFeed, Task
  <2> QED BY <2>1, <1>a, <1>c DEF Chore, WorkNames, Targets
<1>3. CASE IsCollect(t)
  <2>1. /\ t.kind = "COLLECT_FERTILIZER" /\ t.tile \in Board /\ t.n = 1
        /\ t.target = None /\ t.item = None /\ t.priority = Maintenance
    BY <1>3, <1>b DEF IsCollect, Task
  <2> QED BY <2>1, <1>a DEF Chore, WorkNames, Targets
<1>4. CASE IsHarvest(t)
  <2>1. /\ t.kind = "HARVEST" /\ t.tile \in Board /\ t.n = 1
        /\ t.target = None /\ t.item = None /\ t.priority = Productive
    BY <1>4 DEF IsHarvest, Task
  <2> QED BY <2>1, <1>a DEF Chore, WorkNames, Targets
<1>5. CASE IsDig(t, l)
  <2>1. /\ t.kind = "DIG" /\ t.tile \in Board /\ t.n = 1
        /\ t.target = None /\ t.item = None /\ t.priority = Manager
    BY <1>5, <1>f DEF IsDig, Task
  <2> QED BY <2>1, <1>a DEF Chore, WorkNames, Targets
<1>6. CASE IsReclaim(t, l)
  <2>1. /\ t.kind = "DIG" /\ t.tile \in Board /\ t.n = 1
        /\ t.target = None /\ t.item = None /\ t.priority = Manager
    BY <1>6, <1>d DEF IsReclaim, Task
  <2> QED BY <2>1, <1>a DEF Chore, WorkNames, Targets
<1>7. CASE IsPlant(t, l)
  <2>1. /\ t.kind = "PLANT" /\ t.tile \in Board /\ t.n = 1
        /\ t.target \in Crops /\ t.item = None /\ t.priority = Manager
    BY <1>7, <1>e DEF IsPlant, Task
  <2> QED BY <2>1, <1>a, <1>c DEF Chore, WorkNames, Targets
<1>8. CASE IsBuild(t, l)
  <2>1. PICK x \in l.animals :
          /\ x.tile = t.tile
          /\ t = [Task("BUILD", Manager, x.tile, StructureOf[x.animal], None, x.source)
                    EXCEPT !.after = IF x.source = "weed_reclaim" THEN "DIG" ELSE None]
    BY <1>8 DEF IsBuild
  <2>2. /\ t.kind = "BUILD" /\ t.tile \in Board /\ t.n = 1
        /\ t.target = StructureOf[x.animal] /\ t.item = None /\ t.priority = Manager
    BY <2>1, <1>d DEF Task
  <2> QED BY <2>2, <1>a, <1>c, <1>d DEF Chore, WorkNames, Targets
<1>9. CASE IsPlace(t, l)
  <2>1. PICK x \in l.animals :
          /\ x.tile = t.tile
          /\ t = [Task("PLACE", Manager, x.tile, x.animal, x.animal, "manager_target")
                    EXCEPT !.after = IF x.source # "empty_structure" THEN "BUILD" ELSE None]
    BY <1>9 DEF IsPlace
  <2>2. /\ t.kind = "PLACE" /\ t.tile \in Board /\ t.n = 1
        /\ t.target = x.animal /\ t.item = x.animal /\ t.priority = Manager
    BY <2>1, <1>d DEF Task
  <2> QED BY <2>2, <1>a, <1>c, <1>d DEF Chore, WorkNames, Targets
<1>10. CASE IsCare(t)
  <2>1. /\ t.kind = "CARE" /\ t.tile \in Board /\ t.n = 1
        /\ t.target \in Animals /\ t.item = None /\ t.priority = Manager
    BY <1>10, <1>b DEF IsCare, Task
  <2> QED BY <2>1, <1>a, <1>c DEF Chore, WorkNames, Targets
<1>11. CASE IsFertilize(t)
  <2>1. /\ t.kind = "FERTILIZE" /\ t.tile \in Board /\ t.n = 1
        /\ t.target \in Crops /\ t.item = Fertilizer /\ t.priority = Manager
    BY <1>11, <1>b DEF IsFertilize, Task
  <2> QED BY <2>1, <1>a, <1>c DEF Chore, WorkNames, Targets
<1> QED BY <1>1, <1>2, <1>3, <1>4, <1>5, <1>6, <1>7, <1>8, <1>9, <1>10, <1>11 DEF IsWork

\* Chores with keys of their own are finitely many.
LEMMA FiniteChores ==
  ASSUME NEW work, \A t \in work : Chore(t),
         \A s, t \in work : Key(s) = Key(t) => s = t
  PROVE  IsFiniteSet(work)
<1> DEFINE keys == WorkNames \X (Targets \X Board)
           f == [x \in keys |-> CHOOSE t \in work : Key(t) = <<x[1], x[2][1], x[2][2]>>]
<1>1. IsFiniteSet(WorkNames)
  <2>1. \A y \in WorkNames : \E x \in 1..10 : y = Kinds[x]
    <3> SUFFICES ASSUME NEW y \in WorkNames PROVE \E x \in 1..10 : y = Kinds[x]
      OBVIOUS
    <3>1. /\ Kinds[1] = "BUILD" /\ Kinds[2] = "CARE" /\ Kinds[3] = "COLLECT_FERTILIZER"
          /\ Kinds[4] = "DIG" /\ Kinds[5] = "FEED" /\ Kinds[6] = "FERTILIZE"
          /\ Kinds[7] = "HARVEST" /\ Kinds[8] = "PLACE" /\ Kinds[9] = "PLANT"
          /\ Kinds[10] = "WATER"
      BY DEF Kinds
    <3> QED BY <3>1 DEF WorkNames
  <2>2. IsFiniteSet(1..10)
    <3>1. 1 \in Int /\ 10 \in Int
      OBVIOUS
    <3> QED BY <3>1, FS_Interval
  <2> QED BY <2>1, <2>2, FiniteReach
<1>2. IsFiniteSet(Targets)
  <2>1. IsFiniteSet(Items) /\ IsFiniteSet({None})
    BY StoresAssumption, FS_Singleton
  <2>2. IsFiniteSet({StructureOf[a] : a \in Animals})
    BY FiniteKinds, FiniteReach
  <2>3. IsFiniteSet({None} \cup {StructureOf[a] : a \in Animals})
    BY <2>1, <2>2, FS_Union
  <2> QED BY <2>1, <2>3, FS_Union DEF Targets
<1>3. IsFiniteSet(keys)
  <2>1. IsFiniteSet(Targets \X Board)
    BY <1>2, FiniteKinds, FS_Product
  <2> QED BY <1>1, <2>1, FS_Product
<1>4. ASSUME NEW t \in work PROVE \E x \in keys : t = f[x]
  <2> DEFINE x == <<t.kind, <<t.target, t.tile>>>>
  <2>1. x \in keys
    BY DEF Chore
  <2>2. x[1] = t.kind /\ x[2][1] = t.target /\ x[2][2] = t.tile
    OBVIOUS
  <2> HIDE DEF x
  <2>3. f[x] = CHOOSE s \in work : Key(s) = Key(t)
    BY <2>1, <2>2 DEF Key
  <2>4. f[x] \in work /\ Key(f[x]) = Key(t)
    BY <2>3
  <2> HIDE DEF f, keys
  <2>5. f[x] = t
    BY <2>4
  <2> QED BY <2>1, <2>5
<1> HIDE DEF f, keys
<1> QED BY <1>3, <1>4, FiniteReach

-----------------------------------------------------------------------------
(* All tasks of a turn: the work on the tiles and the purchases for it. *)

\* What a plan has to be for its layouts: the counts are counts.
PlanOK(plan) == /\ \A c \in Crops : plan.crops[c] \in Nat
                /\ \A a \in Animals : plan.animals[a] \in Nat

\* The work is that of layouts which claim no tile twice.
PlannedFor(work, l, plan, affordable) ==
  LayoutsOK(l) /\ work = WorkOn(l, plan, affordable)

LEMMA GeneratedIs ==
  ASSUME ClockOK, FieldOK, NEW plan, PlanOK(plan), NEW affordable
  PROVE  \E l, work : /\ PlannedFor(work, l, plan, affordable)
                      /\ GenerateTasks(plan, affordable) = WithPurchases(work, plan)
<1> DEFINE needed == [a \in Animals |-> IF plan.animals[a] > HeadCount(a)
                                        THEN plan.animals[a] - HeadCount(a) ELSE 0]
           l == PlanDayLayouts(plan.crops, needed)
<1>1. ASSUME NEW a \in Animals PROVE HeadCount(a) \in Nat
  <2>1. {p \in Herd : field[p].animal = a} \in SUBSET Board
    BY DEF Herd
  <2> QED BY <2>1, FiniteKinds, FS_Subset, FS_CardinalityType DEF HeadCount
<1>2. \A a \in Animals : needed[a] \in Nat
  BY <1>1 DEF PlanOK
<1> HIDE DEF needed
<1>3. LayoutsOK(l)
  BY <1>2, DayLaid DEF PlanOK
<1>4. GenerateTasks(plan, affordable) = WithPurchases(WorkOn(l, plan, affordable), plan)
  BY DEF GenerateTasks, needed
<1> HIDE DEF l
<1> QED BY <1>3, <1>4 DEF PlannedFor

LEMMA WorkSound ==
  ASSUME NEW l, NEW plan, NEW affordable, NEW work, PlannedFor(work, l, plan, affordable)
  PROVE  /\ \A t \in work : IsWork(t, l) /\ Chore(t)
         /\ \A s, t \in work : Key(s) = Key(t) => s = t
         /\ IsFiniteSet(work)
         /\ MechanicalTasks \subseteq work
<1>1. \A t \in work : IsWork(t, l) /\ Chore(t)
  BY WorkIs, WorkIsChore DEF PlannedFor
<1>2. \A s, t \in work : Key(s) = Key(t) => s = t
  BY <1>1, WorkKeys DEF PlannedFor
<1>3. IsFiniteSet(work)
  BY <1>1, <1>2, FiniteChores
<1>4. MechanicalTasks \subseteq work
  BY DEF PlannedFor, WorkOn
<1> QED BY <1>1, <1>2, <1>3, <1>4

\* What is carried and what is at hand are counted in integers.
LEMMA GoodsCounted ==
  ASSUME ShedOK, CarryOK, NEW i \in Items
  PROVE  Carrying(i) \in Int /\ Available(i) \in Int /\ shed[i] \in Nat
<1> DEFINE f == [u \in Units |-> inventory[u][i]]
<1>1. \A u \in Units : f[u] \in Int
  BY DEF CarryOK
<1> HIDE DEF f
<1>2. SumFunctionOnSet(f, Units) \in Int
  BY <1>1, FiniteKinds, SumType
<1>3. Carrying(i) \in Int
  BY <1>2 DEF Carrying, f
<1>4. shed[i] \in Nat
  BY StoresAssumption DEF ShedOK
<1> QED BY <1>3, <1>4 DEF Available

\* A purchase is of something that is short.
Errand(t) ==
  /\ t.kind \in {"BUY_SEED", "BUY_PRODUCT", "BUY_ANIMAL", "BUY_LAND"}
  /\ t.tile = Nowhere /\ t.priority \in 0..3 /\ t.target \in Items \cup {None}
  /\ t.n \in Nat \ {0}

\* Its amount is settled by its kind and its target.
Amount(t, work) ==
  CASE t.kind = "BUY_SEED"    -> SeedShortage(t.target, work)
    [] t.kind = "BUY_PRODUCT" -> GoodsShortage(t.target, work)
    [] t.kind = "BUY_ANIMAL"  -> HerdShortage(t.target, work)
    [] OTHER                  -> 1

\* What is common to the purchases of one kind.
Bought(t, kind, priority, work) ==
  t = Purchase(kind, priority, t.target, Amount(t, work)) /\ t.kind = kind

LEMMA PurchaseFields ==
  ASSUME NEW kind, NEW priority, NEW target, NEW n, NEW t, t = Purchase(kind, priority, target, n)
  PROVE  /\ t.kind = kind /\ t.priority = priority /\ t.tile = Nowhere /\ t.target = target
         /\ t.n = n
BY DEF Purchase, Task

\* The purchases for finitely many chores.
LEMMA Purchases ==
  ASSUME ClockOK, ShedOK, CarryOK, NEW work, IsFiniteSet(work), NEW plan,
         NEW t \in LandTasks(plan) \cup Shortages(work)
  PROVE  /\ Errand(t)
         /\ \/ Bought(t, "BUY_SEED", Logistics, work) \/ Bought(t, "BUY_PRODUCT", Logistics, work)
            \/ Bought(t, "BUY_ANIMAL", Logistics, work) \/ Bought(t, "BUY_LAND", Manager, work)
<1>a. Logistics \in 0..3 /\ Manager \in 0..3
  BY DEF Logistics, Manager
<1>b. /\ Crops \in SUBSET Items /\ Animals \in SUBSET Items
      /\ Wheat \in Items /\ Fertilizer \in Items
  BY FarmAssumption
<1>c. \A s \in SUBSET work : Cardinality(s) \in Nat
  BY FS_Subset, FS_CardinalityType
<1>1. CASE t \in {Purchase("BUY_SEED", Logistics, c, SeedShortage(c, work)) :
                     c \in {c \in Crops : SeedShortage(c, work) > 0}}
  <2>1. PICK c \in Crops : /\ SeedShortage(c, work) > 0
                           /\ t = Purchase("BUY_SEED", Logistics, c, SeedShortage(c, work))
    BY <1>1
  <2>2. SeedShortage(c, work) \in Int
    <3>1. Cardinality({s \in work : s.kind = "PLANT" /\ s.target = c}) \in Nat
      BY <1>c
    <3> QED BY <3>1 DEF SeedShortage, ClockOK
  <2>3. /\ t.kind = "BUY_SEED" /\ t.priority = Logistics /\ t.tile = Nowhere /\ t.target = c
        /\ t.n = SeedShortage(c, work)
    BY <2>1, PurchaseFields
  <2>4. Errand(t)
    BY <2>1, <2>2, <2>3, <1>a, <1>b DEF Errand
  <2>5. Amount(t, work) = SeedShortage(c, work)
    BY <2>3 DEF Amount
  <2> QED BY <2>1, <2>3, <2>4, <2>5 DEF Bought
<1>2. CASE t \in {Purchase("BUY_PRODUCT", Logistics, i, GoodsShortage(i, work)) :
                     i \in {i \in {Wheat, Fertilizer} : GoodsShortage(i, work) > 0}}
  <2>1. PICK i \in {Wheat, Fertilizer} :
           /\ GoodsShortage(i, work) > 0
           /\ t = Purchase("BUY_PRODUCT", Logistics, i, GoodsShortage(i, work))
    BY <1>2
  <2>2. GoodsShortage(i, work) \in Int
    <3>1. Cardinality({s \in work : s.item = i}) \in Nat
      BY <1>c
    <3>2. Available(i) \in Int
      BY <1>b, GoodsCounted
    <3> QED BY <3>1, <3>2 DEF GoodsShortage
  <2>3. /\ t.kind = "BUY_PRODUCT" /\ t.priority = Logistics /\ t.tile = Nowhere /\ t.target = i
        /\ t.n = GoodsShortage(i, work)
    BY <2>1, PurchaseFields
  <2>4. Errand(t)
    BY <2>1, <2>2, <2>3, <1>a, <1>b DEF Errand
  <2>5. Amount(t, work) = GoodsShortage(i, work)
    BY <2>3 DEF Amount
  <2> QED BY <2>1, <2>3, <2>4, <2>5 DEF Bought
<1>3. CASE t \in {Purchase("BUY_ANIMAL", Logistics, a, HerdShortage(a, work)) :
                     a \in {a \in Animals : HerdShortage(a, work) > 0}}
  <2>1. PICK a \in Animals : /\ HerdShortage(a, work) > 0
                             /\ t = Purchase("BUY_ANIMAL", Logistics, a, HerdShortage(a, work))
    BY <1>3
  <2>2. HerdShortage(a, work) \in Int
    <3>1. Cardinality({s \in work : s.kind = "PLACE" /\ s.target = a}) \in Nat
      BY <1>c
    <3>2. Available(a) \in Int
      BY <1>b, GoodsCounted
    <3> QED BY <3>1, <3>2 DEF HerdShortage
  <2>3. /\ t.kind = "BUY_ANIMAL" /\ t.priority = Logistics /\ t.tile = Nowhere /\ t.target = a
        /\ t.n = HerdShortage(a, work)
    BY <2>1, PurchaseFields
  <2>4. Errand(t)
    BY <2>1, <2>2, <2>3, <1>a, <1>b DEF Errand
  <2>5. Amount(t, work) = HerdShortage(a, work)
    BY <2>3 DEF Amount
  <2> QED BY <2>1, <2>3, <2>4, <2>5 DEF Bought
<1>4. CASE t = Purchase("BUY_LAND", Manager, None, 1)
  <2>1. /\ t.kind = "BUY_LAND" /\ t.priority = Manager /\ t.tile = Nowhere /\ t.target = None
        /\ t.n = 1
    BY <1>4, PurchaseFields
  <2>2. Errand(t)
    BY <2>1, <1>a DEF Errand
  <2>3. Amount(t, work) = 1
    BY <2>1 DEF Amount
  <2> QED BY <1>4, <2>1, <2>2, <2>3 DEF Bought
<1>5. LandTasks(plan) \subseteq {Purchase("BUY_LAND", Manager, None, 1)}
  BY DEF LandTasks
<1>6. t \in LandTasks(plan) \/ t \in Shortages(work)
  OBVIOUS
<1>7. CASE t \in Shortages(work)
  BY <1>7, <1>1, <1>2, <1>3 DEF Shortages
<1> QED BY <1>4, <1>5, <1>6, <1>7

LEMMA FinitePurchases ==
  ASSUME NEW work, NEW plan
  PROVE  IsFiniteSet(LandTasks(plan) \cup Shortages(work))
<1> DEFINE seed == {Purchase("BUY_SEED", Logistics, c, SeedShortage(c, work)) :
                       c \in {c \in Crops : SeedShortage(c, work) > 0}}
           goods == {Purchase("BUY_PRODUCT", Logistics, i, GoodsShortage(i, work)) :
                       i \in {i \in {Wheat, Fertilizer} : GoodsShortage(i, work) > 0}}
           herd == {Purchase("BUY_ANIMAL", Logistics, a, HerdShortage(a, work)) :
                       a \in {a \in Animals : HerdShortage(a, work) > 0}}
<1>1. IsFiniteSet(seed)
  <2> DEFINE f == [c \in Crops |-> Purchase("BUY_SEED", Logistics, c, SeedShortage(c, work))]
  <2>1. \A y \in seed : \E c \in Crops : y = f[c]
    OBVIOUS
  <2> HIDE DEF f, seed
  <2> QED BY <2>1, FiniteKinds, FiniteReach
<1>2. IsFiniteSet(goods)
  <2> DEFINE f == [c \in {Wheat, Fertilizer} |->
                      Purchase("BUY_PRODUCT", Logistics, c, GoodsShortage(c, work))]
  <2>1. \A y \in goods : \E c \in {Wheat, Fertilizer} : y = f[c]
    OBVIOUS
  <2>2. IsFiniteSet({Wheat, Fertilizer})
    <3>1. IsFiniteSet({Wheat}) /\ IsFiniteSet({Fertilizer})
      BY FS_Singleton
    <3>2. {Wheat, Fertilizer} = {Wheat} \cup {Fertilizer}
      OBVIOUS
    <3> QED BY <3>1, <3>2, FS_Union
  <2> HIDE DEF f, goods
  <2> QED BY <2>1, <2>2, FiniteReach
<1>3. IsFiniteSet(herd)
  <2> DEFINE f == [c \in Animals |-> Purchase("BUY_ANIMAL", Logistics, c, HerdShortage(c, work))]
  <2>1. \A y \in herd : \E c \in Animals : y = f[c]
    OBVIOUS
  <2> HIDE DEF f, herd
  <2> QED BY <2>1, FiniteKinds, FiniteReach
<1>4. IsFiniteSet(LandTasks(plan))
  <2> DEFINE land == Purchase("BUY_LAND", Manager, None, 1)
  <2>1. LandTasks(plan) \in SUBSET {land}
    BY DEF LandTasks
  <2> HIDE DEF land
  <2>2. IsFiniteSet({land})
    BY FS_Singleton
  <2> QED BY <2>1, <2>2, FS_Subset
<1>5. Shortages(work) = seed \cup goods \cup herd
  BY DEF Shortages
<1> HIDE DEF seed, goods, herd
<1>6. IsFiniteSet(seed \cup goods)
  BY <1>1, <1>2, FS_Union
<1>7. IsFiniteSet(Shortages(work))
  BY <1>5, <1>6, <1>3, FS_Union
<1> QED BY <1>4, <1>7, FS_Union

\* The tasks of a turn have keys of their own, so that generate_tasks never raises.
TasksOK(tasks) ==
  /\ KeysUnique(tasks) /\ IsFiniteSet(tasks)
  /\ \A t \in tasks : Chore(t) \/ Errand(t)
  /\ MechanicalTasks \subseteq tasks

LEMMA Generated ==
  ASSUME ClockOK, FieldOK, ShedOK, CarryOK, NEW plan, PlanOK(plan), NEW affordable
  PROVE  TasksOK(GenerateTasks(plan, affordable))
<1>1. PICK l, work : /\ PlannedFor(work, l, plan, affordable)
                     /\ GenerateTasks(plan, affordable) = WithPurchases(work, plan)
  BY GeneratedIs
<1>2. /\ \A t \in work : Chore(t)
      /\ \A s, t \in work : Key(s) = Key(t) => s = t
      /\ IsFiniteSet(work)
      /\ MechanicalTasks \subseteq work
  BY <1>1, WorkSound
<1> DEFINE bought == LandTasks(plan) \cup Shortages(work)
<1>3. GenerateTasks(plan, affordable) = work \cup bought
  BY <1>1 DEF WithPurchases
<1>4. \A t \in bought :
        /\ Errand(t)
        /\ \/ Bought(t, "BUY_SEED", Logistics, work) \/ Bought(t, "BUY_PRODUCT", Logistics, work)
           \/ Bought(t, "BUY_ANIMAL", Logistics, work) \/ Bought(t, "BUY_LAND", Manager, work)
  BY <1>2, Purchases
<1>5. IsFiniteSet(bought)
  BY FinitePurchases
<1> HIDE DEF bought
<1>6. IsFiniteSet(work \cup bought)
  BY <1>2, <1>5, FS_Union
<1>7. ASSUME NEW s \in work \cup bought, NEW t \in work \cup bought, Key(s) = Key(t)
      PROVE  s = t
  <2>1. s.kind = t.kind /\ s.target = t.target
    BY <1>7 DEF Key
  <2>2. CASE s \in work /\ t \in work
    BY <2>2, <1>7, <1>2
  <2>3. CASE s \in bought /\ t \in bought
    <3>1. Amount(s, work) = Amount(t, work)
      BY <2>1 DEF Amount
    <3>2. /\ \/ Bought(s, "BUY_SEED", Logistics, work) \/ Bought(s, "BUY_PRODUCT", Logistics, work)
             \/ Bought(s, "BUY_ANIMAL", Logistics, work) \/ Bought(s, "BUY_LAND", Manager, work)
          /\ \/ Bought(t, "BUY_SEED", Logistics, work) \/ Bought(t, "BUY_PRODUCT", Logistics, work)
             \/ Bought(t, "BUY_ANIMAL", Logistics, work) \/ Bought(t, "BUY_LAND", Manager, work)
      BY <2>3, <1>4
    <3> QED BY <3>1, <3>2, <2>1 DEF Bought
  <2>4. \A x \in work : x.kind \in WorkNames
    BY <1>2 DEF Chore
  <2>5. \A x \in bought : x.kind \notin WorkNames
    BY <1>4 DEF Errand, WorkNames
  <2> QED BY <2>1, <2>2, <2>3, <2>4, <2>5
<1> QED BY <1>2, <1>3, <1>4, <1>6, <1>7 DEF TasksOK, KeysUnique

-----------------------------------------------------------------------------
(* The dispatch: every worker gets an order the farm understands. *)

LEMMA IndexIs ==
  ASSUME NEW seq, Len(seq) \in Nat, NEW x
  PROVE  IndexIn(seq, x) \in Nat
BY DEF IndexIn

LEMMA SortKeyIs ==
  ASSUME NEW t, Chore(t) \/ Errand(t)
  PROVE  SortKey(t) \in Int
<1>1. Half \in Nat
  BY FarmAssumption
<1>2. Len(Kinds) \in Nat
  BY DEF Kinds
<1>3. Len(Alphabet) \in Nat
  BY ExecutorAssumption
<1>4. IndexIn(Kinds, t.kind) \in Nat /\ IndexIn(Alphabet, t.target) \in Nat
  BY <1>2, <1>3, IndexIs
<1>5. Area + 1 \in Int
  BY <1>1 DEF Area
<1> DEFINE place == IF t.tile = Nowhere THEN 0 ELSE 1 + t.tile[2] * 2 * Half + t.tile[1]
           name == (t.priority * Len(Kinds) + IndexIn(Kinds, t.kind)) * (Len(Alphabet) + 1)
                      + IndexIn(Alphabet, t.target)
<1>6. place \in Int
  <2>1. CASE t.tile = Nowhere
    BY <2>1
  <2>2. CASE t.tile # Nowhere
    <3>1. t.tile \in Board
      BY <2>2 DEF Chore, Errand
    <3>2. t.tile[1] \in Nat /\ t.tile[2] \in Nat
      BY <3>1, BoardTiles
    <3>3. t.tile[2] * 2 * Half \in Int
      BY <3>2, <1>1
    <3> QED BY <3>2, <3>3
  <2> QED BY <2>1, <2>2
<1>7. name \in Int
  <2>1. t.priority \in Int
    BY DEF Chore, Errand
  <2>2. t.priority * Len(Kinds) + IndexIn(Kinds, t.kind) \in Int
    BY <2>1, <1>2, <1>4
  <2>3. Len(Alphabet) + 1 \in Int
    BY <1>3
  <2>4. (t.priority * Len(Kinds) + IndexIn(Kinds, t.kind)) * (Len(Alphabet) + 1) \in Int
    BY <2>2, <2>3
  <2> QED BY <2>4, <1>4
<1>8. SortKey(t) = name * (Area + 1) + place
  BY DEF SortKey
<1> HIDE DEF name, place
<1>9. name * (Area + 1) \in Int
  BY <1>5, <1>7
<1> QED BY <1>6, <1>8, <1>9

\* The first of some tasks is one of them.
LEMMA LeastTask ==
  ASSUME NEW S, IsFiniteSet(S), S # {}, \A t \in S : Chore(t) \/ Errand(t)
  PROVE  Least(S, SortKey) \in S
<1> DEFINE f == [t \in S |-> SortKey(t)]
<1>1. \A t \in S : f[t] \in Int /\ f[t] = SortKey(t)
  BY SortKeyIs
<1> HIDE DEF f
<1>2. \E t \in S : \A s \in S : f[t] <= f[s]
  BY <1>1, FiniteLeast
<1>3. \E t \in S : \A s \in S : SortKey(t) <= SortKey(s)
  BY <1>1, <1>2
<1> QED BY <1>3 DEF Least

\* The places around the shed.
AccessTiles == {Access[k] : k \in 1..4}

LEMMA AccessIs ==
  IsFiniteSet(AccessTiles) /\ AccessTiles # {} /\ AccessTiles \in SUBSET Board
<1>1. IsFiniteSet(1..4)
  <2>1. 1 \in Int /\ 4 \in Int
    OBVIOUS
  <2> QED BY <2>1, FS_Interval
<1>2. \A y \in AccessTiles : \E k \in 1..4 : y = Access[k]
  BY DEF AccessTiles
<1>3. IsFiniteSet(AccessTiles)
  BY <1>1, <1>2, FiniteReach
<1>4. AccessTiles # {}
  <2>1. Access[1] \in AccessTiles
    BY DEF AccessTiles
  <2> QED BY <2>1
<1>5. AccessTiles \in SUBSET Board
  BY <1>2, BoardFacts
<1> QED BY <1>3, <1>4, <1>5

LEMMA RouteIs ==
  ASSUME NEW p \in Board, NEW q \in Board
  PROVE  RouteDistance(p, q) \in Int
<1> DEFINE f == [a \in AccessTiles |-> Manhattan(p, a) + Manhattan(a, q)]
           S == {Manhattan(p, Access[k]) + Manhattan(Access[k], q) : k \in 1..4}
<1>1. \A y \in S : \E k \in 1..4 : y = Manhattan(p, Access[k]) + Manhattan(Access[k], q)
  OBVIOUS
<1>2. \A a \in AccessTiles : Manhattan(p, a) + Manhattan(a, q) \in Int
  BY AccessIs, ManhattanIs
<1>3. \A y \in S : y \in Int /\ \E a \in AccessTiles : y = f[a]
  BY <1>1, <1>2 DEF AccessTiles
<1>4. S # {}
  OBVIOUS
<1>5. RouteDistance(p, q) = Min(S)
  BY DEF RouteDistance
<1> HIDE DEF S, f
<1>6. IsFiniteSet(S)
  BY <1>3, AccessIs, FiniteReach
<1>7. S \in SUBSET Int
  BY <1>3
<1> QED BY <1>4, <1>5, <1>6, <1>7, MinIs

LEMMA NearestAccessIs ==
  ASSUME NEW p \in Board
  PROVE  NearestAccess(p) \in AccessTiles
<1> DEFINE f == [a \in AccessTiles |-> Rank(0, Manhattan(p, a), a)]
<1>1. \A a \in AccessTiles : Rank(0, Manhattan(p, a), a) \in Int
  BY AccessIs, ManhattanIs, RankIs
<1>2. \A a \in AccessTiles : f[a] \in Int /\ f[a] = Rank(0, Manhattan(p, a), a)
  BY <1>1
<1> HIDE DEF f
<1>3. \E a \in AccessTiles : \A b \in AccessTiles : f[a] <= f[b]
  BY <1>2, AccessIs, FiniteLeast
<1>4. \E a \in AccessTiles : \A b \in AccessTiles :
         Rank(0, Manhattan(p, a), a) <= Rank(0, Manhattan(p, b), b)
  BY <1>2, <1>3
<1>5. NearestAccess(p) = CHOOSE a \in AccessTiles : \A b \in AccessTiles :
                            Rank(0, Manhattan(p, a), a) <= Rank(0, Manhattan(p, b), b)
  BY DEF NearestAccess, Least, AccessTiles
<1> QED BY <1>4, <1>5

LEMMA ReachIs ==
  ASSUME ClockOK, NEW u \in Units, NEW t, Chore(t)
  PROVE  Score(u, t) \in Int
<1>1. position[u] \in Board /\ t.tile \in Board /\ t.priority \in Int
  BY DEF ClockOK, Chore
<1> DEFINE far == Manhattan(position[u], t.tile)
           near == Max({0, far - CarryAffinityBonus})
           there == IF ~Carries(u, t.item) THEN RouteDistance(position[u], t.tile)
                    ELSE IF t.item = None THEN far ELSE near
           more == IF ~Carries(u, t.item) /\ Cardinality(Carried(u)) >= MaxCarriedItemTypes
                   THEN VarietyPenalty ELSE 0
<1>2. far \in Int
  BY <1>1, ManhattanIs
<1> HIDE DEF far
<1>3. near \in Int
  <2>1. 0 \in Int /\ far - CarryAffinityBonus \in Int
    BY <1>2 DEF CarryAffinityBonus
  <2> QED BY <2>1, TwoNumbers
<1> HIDE DEF near
<1>4. RouteDistance(position[u], t.tile) \in Int
  BY <1>1, RouteIs
<1>5. there \in Int
  BY <1>2, <1>3, <1>4
<1>6. more \in Int
  BY DEF VarietyPenalty
<1>7. Score(u, t) = t.priority * PriorityStep + there + more
  BY DEF Score, far, near
<1> HIDE DEF there, more
<1> QED BY <1>1, <1>5, <1>6, <1>7 DEF PriorityStep

LEMMA ChosenIn ==
  ASSUME ClockOK, NEW u \in Units, NEW ready, IsFiniteSet(ready), \A t \in ready : Chore(t)
  PROVE  Chosen(u, ready) \subseteq ready
<1> DEFINE underfoot == {t \in ready : t.tile = position[u] /\ Carries(u, t.item)}
           able == {t \in ready : Carries(u, t.item) \/ shed[t.item] > 0}
           scores == {Score(u, t) : t \in able}
           top == {t \in able : Score(u, t) = Min(scores)}
<1>1. underfoot \in SUBSET ready /\ able \in SUBSET ready /\ top \in SUBSET ready
  OBVIOUS
<1>2. Chosen(u, ready) = IF underfoot # {} THEN {Least(underfoot, SortKey)}
                         ELSE IF able # {} THEN {Least(top, SortKey)} ELSE {}
  BY DEF Chosen
<1>3. able # {} => top # {}
  <2>1. ASSUME able # {} PROVE top # {}
    <3> DEFINE f == [t \in able |-> Score(u, t)]
    <3>1. \A t \in able : Score(u, t) \in Int
      BY ReachIs
    <3>2. \A y \in scores : y \in Int /\ \E t \in able : y = f[t] /\ y = Score(u, t)
      BY <3>1
    <3>3. scores # {}
      BY <2>1
    <3>4. IsFiniteSet(able)
      <4> HIDE DEF able
      <4> QED BY <1>1, FS_Subset
    <3> HIDE DEF f, scores, able
    <3>5. IsFiniteSet(scores) /\ scores \in SUBSET Int
      BY <3>2, <3>4, FiniteReach
    <3>6. Min(scores) \in scores
      BY <3>3, <3>5, MinIs
    <3> QED BY <3>2, <3>6
  <2> QED BY <2>1
<1> HIDE DEF underfoot, able, top
<1>4. ASSUME NEW S \in SUBSET ready, S # {} PROVE Least(S, SortKey) \in ready
  <2>1. IsFiniteSet(S)
    BY FS_Subset
  <2>2. Least(S, SortKey) \in S
    BY <1>4, <2>1, LeastTask
  <2> QED BY <2>2
<1> QED BY <1>1, <1>2, <1>3, <1>4

\* What a worker with a task is told.
LEMMA OrderIs ==
  ASSUME ClockOK, ShedOK, NEW u \in Units, NEW t, Chore(t)
  PROVE  OrderFor(u, t) \in UnitOrder
<1>1. position[u] \in Board
  BY DEF ClockOK
<1>2. CASE Interacts(u, t)
  <2>1. OrderFor(u, t) = InteractionOp(t)
    BY <1>2 DEF OrderFor
  <2>2. Animals \in SUBSET Items
    BY FarmAssumption
  <2>3. CASE t.kind \in {"PLANT", "BUILD", "PLACE"}
    BY <2>1, <2>2, <2>3 DEF InteractionOp, UnitOrder, Chore
  <2>4. CASE t.kind \notin {"PLANT", "BUILD", "PLACE"}
    <3>1. t.kind \in {"CARE", "COLLECT_FERTILIZER", "DIG", "FEED", "FERTILIZE", "HARVEST", "WATER"}
      BY <2>4 DEF Chore, WorkNames
    <3>2. InteractionOp(t) = [op |-> t.kind, n |-> 0, target |-> None]
      BY <2>4 DEF InteractionOp
    <3> QED BY <2>1, <3>1, <3>2 DEF UnitOrder
  <2> QED BY <2>3, <2>4
<1>3. CASE ~Interacts(u, t)
  <2> DEFINE waypoint == IF Carries(u, t.item) THEN t.tile ELSE NearestAccess(position[u])
  <2>1. OrderFor(u, t) = IF position[u] # waypoint
                         THEN [op |-> StepToward(position[u], waypoint), target |-> None, n |-> 0]
                         ELSE [op |-> "PICKUP", target |-> t.item, n |-> Min({PickupBatch, shed[t.item]})]
    BY <1>3 DEF OrderFor
  <2>2. CASE position[u] # waypoint
    <3>1. StepToward(position[u], waypoint) \in Moves
      BY DEF StepToward, Moves
    <3> HIDE DEF waypoint
    <3> QED BY <2>1, <2>2, <3>1 DEF UnitOrder
  <2>3. CASE position[u] = waypoint
    <3>1. ~Carries(u, t.item)
      BY <1>3, <2>3 DEF Interacts
    <3>2. t.item \in Items
      BY <3>1 DEF Carries, Chore
    <3>3. shed[t.item] \in Nat
      BY <3>2, StoresAssumption DEF ShedOK
    <3>4. Min({PickupBatch, shed[t.item]}) \in Nat
      <4>1. PickupBatch \in Int /\ PickupBatch >= 0 /\ shed[t.item] \in Int
        BY <3>3 DEF PickupBatch
      <4>2. Min({PickupBatch, shed[t.item]}) = IF PickupBatch <= shed[t.item] THEN PickupBatch
                                               ELSE shed[t.item]
        BY <4>1, TwoNumbers
      <4> QED BY <4>1, <4>2, <3>3
    <3> HIDE DEF waypoint
    <3> QED BY <2>1, <2>3, <3>2, <3>4 DEF UnitOrder
  <2> QED BY <2>2, <2>3
<1> QED BY <1>2, <1>3

\* Where the dispatch may be.
Dispatch(work) == [claimed: SUBSET work, budget: [Crops -> Int],
                   orders: [Units -> UnitOrder], done: SUBSET work]

\* A worker takes a task nobody has, and no more seeds than are left.
Takes(x, y, u, t, work) ==
  /\ t \in work \ x.claimed /\ (t.kind = "PLANT" => x.budget[t.target] > 0)
  /\ y.claimed = x.claimed \cup {t} /\ y.budget = Reserved(x.budget, t)
  /\ y.orders = [x.orders EXCEPT ![u] = OrderFor(u, t)]
  /\ y.done = x.done \cup {s \in {t} : Interacts(u, t)}

LEMMA AssignedIs ==
  ASSUME ClockOK, ShedOK, NEW work, IsFiniteSet(work), \A t \in work : Chore(t),
         NEW x \in Dispatch(work), NEW u \in Units
  PROVE  /\ Assigned(x, u, work) \in Dispatch(work)
         /\ \/ Assigned(x, u, work) = x
            \/ \E t \in work : Takes(x, Assigned(x, u, work), u, t, work)
<1> DEFINE ready == {t \in work \ x.claimed : t.kind = "PLANT" => x.budget[t.target] > 0}
           choice == Chosen(u, ready)
           t == CHOOSE t \in choice : TRUE
           y == [claimed |-> x.claimed \cup {t}, budget |-> Reserved(x.budget, t),
                 orders |-> [x.orders EXCEPT ![u] = OrderFor(u, t)],
                 done |-> x.done \cup {s \in {t} : Interacts(u, s)}]
<1>1. Assigned(x, u, work) = IF choice = {} THEN x ELSE y
  BY DEF Assigned
<1>2. CASE choice = {}
  BY <1>1, <1>2
<1>3. CASE choice # {}
  <2>1. choice \subseteq ready
    <3>1. ready \in SUBSET work
      OBVIOUS
    <3> HIDE DEF ready
    <3>2. IsFiniteSet(ready) /\ \A s \in ready : Chore(s)
      BY <3>1, FS_Subset
    <3> QED BY <3>2, ChosenIn
  <2>2. t \in ready
    <3> HIDE DEF ready, choice
    <3> QED BY <1>3, <2>1
  <2>3. t \in work \ x.claimed /\ (t.kind = "PLANT" => x.budget[t.target] > 0)
    <3> HIDE DEF t
    <3> QED BY <2>2
  <2> HIDE DEF t
  <2>4. Chore(t)
    BY <2>3
  <2>5. OrderFor(u, t) \in UnitOrder
    BY <2>4, OrderIs
  <2>6. Reserved(x.budget, t) \in [Crops -> Int]
    <3>1. CASE t.kind = "PLANT"
      <4>1. t.target \in Crops /\ x.budget \in [Crops -> Int]
        BY <3>1, <2>4 DEF Chore, Dispatch
      <4> QED BY <3>1, <4>1 DEF Reserved
    <3>2. CASE t.kind # "PLANT"
      BY <3>2 DEF Reserved, Dispatch
    <3> QED BY <3>1, <3>2
  <2>7. x.orders \in [Units -> UnitOrder] /\ x.claimed \in SUBSET work /\ x.done \in SUBSET work
    BY DEF Dispatch
  <2>8. [x.orders EXCEPT ![u] = OrderFor(u, t)] \in [Units -> UnitOrder]
    BY <2>5, <2>7
  <2>9. y \in Dispatch(work)
    <3>1. x.claimed \cup {t} \in SUBSET work /\ x.done \cup {s \in {t} : Interacts(u, s)} \in SUBSET work
      BY <2>3, <2>7
    <3> QED BY <3>1, <2>6, <2>8 DEF Dispatch
  <2>10. {s \in {t} : Interacts(u, s)} = {s \in {t} : Interacts(u, t)}
    OBVIOUS
  <2>11. Takes(x, y, u, t, work)
    BY <2>3, <2>10 DEF Takes
  <2>12. Assigned(x, u, work) = y
    BY <1>1, <1>3
  <2> HIDE DEF y
  <2> QED BY <2>3, <2>9, <2>11, <2>12
<1> QED BY <1>2, <1>3

\* No task is given to two workers, and no more seeds to plant than there are.
Apart(x) ==
  \A u, v \in Units : u # v =>
     \/ x.orders[u] = Pass \/ x.orders[v] = Pass
     \/ \E s, t \in x.claimed : s # t /\ x.orders[u] = OrderFor(u, s) /\ x.orders[v] = OrderFor(v, t)
Budgeted(x) ==
  \A c \in Crops : x.budget[c] >= 0 /\ Cardinality(Requests(x.orders, c)) + x.budget[c] <= seeds[c]

\* What has come of the first n workers: what is done is done by one of them, who stands
\* there with what it takes; each has no order or that of a claimed task, its own.
Led(x, n, work) ==
  /\ x \in Dispatch(work)
  /\ x.done \subseteq x.claimed
  /\ \A t \in x.done : \E u \in Units : u < n /\ Interacts(u, t) /\ x.orders[u] = InteractionOp(t)
  /\ \A u \in Units : /\ u >= n => x.orders[u] = Pass
                      /\ u < n => \/ x.orders[u] = Pass
                                  \/ \E t \in x.claimed : x.orders[u] = OrderFor(u, t)
  /\ Apart(x) /\ Budgeted(x)

\* Only who carries out a task gets the order of its name.
LEMMA OrderOp ==
  ASSUME NEW u, NEW t, OrderFor(u, t).op \in WorkNames
  PROVE  Interacts(u, t) /\ OrderFor(u, t) = InteractionOp(t) /\ OrderFor(u, t).op = t.kind
<1>1. StepToward(position[u], IF Carries(u, t.item) THEN t.tile ELSE NearestAccess(position[u])) \in Moves
  BY DEF StepToward, Moves
<1>2. Interacts(u, t)
  BY <1>1 DEF OrderFor, WorkNames, Moves
<1> QED BY <1>2 DEF OrderFor, InteractionOp

\* The units that plant a crop are few enough to be counted.
LEMMA RequestsCounted ==
  ASSUME NEW o, NEW c
  PROVE  IsFiniteSet(Requests(o, c)) /\ Cardinality(Requests(o, c)) \in Nat
<1>1. IsFiniteSet(Units)
  BY StoresAssumption, FS_Interval DEF Units
<1>2. Requests(o, c) \subseteq Units
  BY DEF Requests
<1> QED BY <1>1, <1>2, FS_Subset, FS_CardinalityType

\* A task that is taken keeps the tasks apart and the seeds reserved.
LEMMA TakesApart ==
  ASSUME NEW work, \A t \in work : Chore(t), NEW n \in Units, NEW x, NEW y,
         x \in Dispatch(work), y \in Dispatch(work), Apart(x), Budgeted(x), x.orders[n] = Pass,
         \A u \in Units : x.orders[u] = Pass \/ \E s \in x.claimed : x.orders[u] = OrderFor(u, s),
         NEW t \in work, Takes(x, y, n, t, work), ClockOK
  PROVE  Apart(y) /\ Budgeted(y)
<1>1. /\ y.claimed = x.claimed \cup {t} /\ t \notin x.claimed
      /\ y.orders = [x.orders EXCEPT ![n] = OrderFor(n, t)]
      /\ y.budget = Reserved(x.budget, t)
      /\ t.kind = "PLANT" => x.budget[t.target] > 0
      /\ x.orders \in [Units -> UnitOrder] /\ x.budget \in [Crops -> Int]
  BY DEF Takes, Dispatch
<1>2. y.orders[n] = OrderFor(n, t) /\ \A u \in Units : u # n => y.orders[u] = x.orders[u]
  BY <1>1
<1>3. ASSUME NEW u \in Units, NEW v \in Units, u # v, y.orders[u] # Pass, y.orders[v] # Pass
      PROVE  \E r, s \in y.claimed : /\ r # s /\ y.orders[u] = OrderFor(u, r)
                                    /\ y.orders[v] = OrderFor(v, s)
  <2>1. CASE u = n
    <3>1. v # n /\ y.orders[v] = x.orders[v]
      BY <1>2, <1>3, <2>1
    <3>2. PICK s \in x.claimed : x.orders[v] = OrderFor(v, s)
      BY <1>3, <3>1
    <3>3. t # s /\ t \in y.claimed /\ s \in y.claimed
      BY <1>1, <3>2
    <3> QED BY <1>2, <2>1, <3>1, <3>2, <3>3
  <2>2. CASE v = n
    <3>1. u # n /\ y.orders[u] = x.orders[u]
      BY <1>2, <1>3, <2>2
    <3>2. PICK s \in x.claimed : x.orders[u] = OrderFor(u, s)
      BY <1>3, <3>1
    <3>3. t # s /\ t \in y.claimed /\ s \in y.claimed
      BY <1>1, <3>2
    <3> QED BY <1>2, <2>2, <3>1, <3>2, <3>3
  <2>3. CASE u # n /\ v # n
    <3>1. y.orders[u] = x.orders[u] /\ y.orders[v] = x.orders[v] /\ x.claimed \subseteq y.claimed
      BY <1>1, <1>2, <2>3
    <3>2. PICK r \in x.claimed, s \in x.claimed : /\ r # s /\ x.orders[u] = OrderFor(u, r)
                                                  /\ x.orders[v] = OrderFor(v, s)
      BY <1>3, <3>1 DEF Apart
    <3> QED BY <3>1, <3>2
  <2> QED BY <2>1, <2>2, <2>3
<1>4. ASSUME NEW c \in Crops
      PROVE  y.budget[c] >= 0 /\ Cardinality(Requests(y.orders, c)) + y.budget[c] <= seeds[c]
  <2> DEFINE before == Requests(x.orders, c)
             after == Requests(y.orders, c)
  <2>1. /\ IsFiniteSet(before) /\ Cardinality(before) \in Nat
        /\ IsFiniteSet(after) /\ Cardinality(after) \in Nat
    BY RequestsCounted
  <2>2. after \subseteq before \cup {n}
    BY <1>2 DEF Requests
  <2>3. x.budget[c] >= 0 /\ Cardinality(before) + x.budget[c] <= seeds[c] /\ x.budget[c] \in Int
    BY <1>1 DEF Budgeted
  <2>4. seeds[c] \in Nat
    BY DEF ClockOK
  <2>5. CASE n \notin after
    <3>1. after \subseteq before
      BY <2>2, <2>5
    <3> HIDE DEF before, after
    <3>2. Cardinality(after) <= Cardinality(before)
      BY <2>1, <3>1, FS_Subset
    <3>3. y.budget[c] \in Int /\ y.budget[c] >= 0 /\ y.budget[c] <= x.budget[c]
      <4>1. CASE t.kind = "PLANT"
        <5>1. t.target \in Crops /\ x.budget[t.target] > 0
          BY <1>1, <4>1 DEF Chore
        <5>2. y.budget = [x.budget EXCEPT ![t.target] = @ - 1]
          BY <1>1, <4>1 DEF Reserved
        <5>3. y.budget[c] = IF c = t.target THEN x.budget[c] - 1 ELSE x.budget[c]
          BY <1>1, <5>1, <5>2
        <5> QED BY <5>1, <5>3, <2>3
      <4>2. CASE t.kind # "PLANT"
        BY <1>1, <2>3, <4>2 DEF Reserved
      <4> QED BY <4>1, <4>2
    <3>4. Cardinality(after) + y.budget[c] <= seeds[c]
      BY <2>1, <2>3, <2>4, <3>2, <3>3
    <3> QED BY <3>3, <3>4 DEF after
  <2>6. CASE n \in after
    <3>1. OrderFor(n, t).op = "PLANT" /\ OrderFor(n, t).target = c
      BY <1>2, <2>6 DEF Requests
    <3>2. t.kind = "PLANT" /\ t.target = c
      <4>1. OrderFor(n, t) = InteractionOp(t) /\ t.kind = "PLANT"
        BY <3>1, OrderOp DEF WorkNames
      <4> QED BY <3>1, <4>1 DEF InteractionOp
    <3>3. n \notin before
      BY DEF Requests, Pass
    <3> HIDE DEF before, after
    <3>4. Cardinality(before \cup {n}) = Cardinality(before) + 1 /\ IsFiniteSet(before \cup {n})
      BY <2>1, <3>3, FS_AddElement
    <3>5. Cardinality(after) <= Cardinality(before) + 1
      <4>1. Cardinality(after) <= Cardinality(before \cup {n})
        BY <2>2, <3>4, FS_Subset
      <4> QED BY <3>4, <4>1
    <3>6. y.budget[c] = x.budget[c] - 1 /\ x.budget[c] > 0
      BY <1>1, <3>2 DEF Reserved
    <3>7. y.budget[c] >= 0 /\ Cardinality(after) + y.budget[c] <= seeds[c]
      BY <2>1, <2>3, <2>4, <3>5, <3>6
    <3> QED BY <3>7 DEF after
  <2> QED BY <2>5, <2>6
<1> QED BY <1>3, <1>4 DEF Apart, Budgeted

LEMMA LedStep ==
  ASSUME ClockOK, ShedOK, NEW work, IsFiniteSet(work), \A t \in work : Chore(t),
         NEW n \in Units, NEW x, Led(x, n, work)
  PROVE  Led(Assigned(x, n, work), n + 1, work)
<1> DEFINE y == Assigned(x, n, work)
<1>1. x \in Dispatch(work) /\ n \in Nat
  BY DEF Led, Units
<1>2. y \in Dispatch(work) /\ (y = x \/ \E t \in work : Takes(x, y, n, t, work))
  BY <1>1, AssignedIs
<1> HIDE DEF y
<1>a. \A u \in Units : u \in Nat
  BY DEF Units
<1>3. CASE y = x
  <2>1. \A t \in y.done : \E u \in Units : u < n + 1 /\ Interacts(u, t)
                                           /\ y.orders[u] = InteractionOp(t)
    BY <1>1, <1>3, <1>a DEF Led
  <2>2. ASSUME NEW u \in Units
        PROVE  /\ u >= n + 1 => y.orders[u] = Pass
               /\ u < n + 1 => \/ y.orders[u] = Pass
                               \/ \E t \in y.claimed : y.orders[u] = OrderFor(u, t)
    <3>1. u \in Nat
      BY <1>a
    <3>2. (u >= n + 1 => u >= n) /\ (u < n + 1 => u < n \/ u >= n)
      BY <3>1, <1>1
    <3> QED BY <3>2, <1>3 DEF Led
  <2>3. y.done \subseteq y.claimed
    BY <1>3 DEF Led
  <2>4. Apart(y) /\ Budgeted(y)
    BY <1>3 DEF Led
  <2>5. Led(y, n + 1, work)
    BY <1>2, <2>1, <2>2, <2>3, <2>4 DEF Led
  <2> QED BY <2>5 DEF y
<1>4. CASE \E t \in work : Takes(x, y, n, t, work)
  <2>1. PICK t \in work : Takes(x, y, n, t, work)
    BY <1>4
  <2>2. /\ y.claimed = x.claimed \cup {t}
        /\ y.orders = [x.orders EXCEPT ![n] = OrderFor(n, t)]
        /\ y.done = x.done \cup {s \in {t} : Interacts(n, t)}
        /\ x.orders \in [Units -> UnitOrder]
    BY <2>1, <1>1 DEF Takes, Dispatch
  <2>3. y.orders[n] = OrderFor(n, t) /\ \A u \in Units : u # n => y.orders[u] = x.orders[u]
    BY <2>2
  <2>4. ASSUME NEW s \in y.done
        PROVE  \E u \in Units : u < n + 1 /\ Interacts(u, s) /\ y.orders[u] = InteractionOp(s)
    <3>1. CASE s \in x.done
      <4>1. PICK u \in Units : u < n /\ Interacts(u, s) /\ x.orders[u] = InteractionOp(s)
        BY <3>1 DEF Led
      <4>2. u # n /\ u < n + 1
        <5>1. u < n /\ u \in Nat /\ n \in Nat
          BY <4>1, <1>1, <1>a
        <5> QED BY <5>1
      <4> QED BY <4>1, <4>2, <2>3
    <3>2. CASE s \notin x.done
      <4>1. s = t /\ Interacts(n, t)
        BY <3>2, <2>2
      <4>2. OrderFor(n, t) = InteractionOp(t)
        BY <4>1 DEF OrderFor
      <4>3. n < n + 1
        BY <1>1
      <4> QED BY <4>1, <4>2, <4>3, <2>3
    <3> QED BY <3>1, <3>2
  <2>5. ASSUME NEW u \in Units
        PROVE  /\ u >= n + 1 => y.orders[u] = Pass
               /\ u < n + 1 => \/ y.orders[u] = Pass
                               \/ \E s \in y.claimed : y.orders[u] = OrderFor(u, s)
    <3>1. CASE u = n
      <4>1. ~(n >= n + 1) /\ t \in y.claimed
        BY <1>1, <2>2
      <4> QED BY <3>1, <4>1, <2>3
    <3>2. CASE u # n
      <4>1. y.orders[u] = x.orders[u] /\ x.claimed \subseteq y.claimed
        BY <3>2, <2>2, <2>3
      <4>2. (u >= n + 1 => u >= n) /\ (u < n + 1 => u < n)
        BY <3>2, <1>1, <1>a
      <4> QED BY <4>1, <4>2 DEF Led
    <3> QED BY <3>1, <3>2
  <2>6. y.done \subseteq y.claimed
    BY <2>2 DEF Led
  <2>7. Apart(y) /\ Budgeted(y)
    <3>1. /\ Apart(x) /\ Budgeted(x) /\ x.orders[n] = Pass
          /\ \A u \in Units : \/ x.orders[u] = Pass
                               \/ \E s \in x.claimed : x.orders[u] = OrderFor(u, s)
      <4>1. n >= n /\ \A u \in Units : u >= n \/ u < n
        BY <1>1, <1>a
      <4> QED BY <4>1 DEF Led
    <3> QED BY <1>1, <1>2, <2>1, <3>1, TakesApart
  <2>8. Led(y, n + 1, work)
    BY <1>2, <2>4, <2>5, <2>6, <2>7 DEF Led
  <2> QED BY <2>8 DEF y
<1> QED BY <1>2, <1>3, <1>4

\* The work the foreman gives out.
Undone(tasks) == {t \in OnTiles(tasks) : ~Blocked(t, tasks)}

LEMMA UndoneIs ==
  ASSUME NEW tasks, IsFiniteSet(tasks), \A t \in tasks : Chore(t) \/ Errand(t)
  PROVE  /\ IsFiniteSet(Undone(tasks)) /\ \A t \in Undone(tasks) : Chore(t)
         /\ Undone(tasks) \subseteq OnTiles(tasks) /\ OnTiles(tasks) \subseteq tasks
         /\ IsFiniteSet(OnTiles(tasks)) /\ \A t \in OnTiles(tasks) : Chore(t)
<1>1. Undone(tasks) \subseteq OnTiles(tasks) /\ OnTiles(tasks) \subseteq tasks
  BY DEF Undone, OnTiles
<1>2. IsFiniteSet(Undone(tasks)) /\ IsFiniteSet(OnTiles(tasks))
  BY <1>1, FS_Subset
<1>3. \A t \in OnTiles(tasks) : Chore(t)
  BY DEF OnTiles, Errand
<1> QED BY <1>1, <1>2, <1>3

LEMMA ForemanLeads ==
  ASSUME ClockOK, ShedOK, NEW tasks, IsFiniteSet(tasks), \A t \in tasks : Chore(t) \/ Errand(t)
  PROVE  Led(RunForeman(tasks), hand_count + 1, Undone(tasks))
<1> DEFINE work == Undone(tasks)
           L == hand_count + 1
           S == Dispatch(work)
           G == [k \in 1..L |-> [x \in S |-> Assigned(x, k - 1, work)]]
           step_(f) == [k \in 0..L |-> IF k = 0 THEN Unassigned ELSE Assigned(f[k - 1], k - 1, work)]
           sofar == CHOOSE f : f = step_(f)
<1>1. RunForeman(tasks) = sofar[L]
  BY DEF RunForeman, Undone
<1>2. IsFiniteSet(work) /\ \A t \in work : Chore(t)
  BY UndoneIs
<1> HIDE DEF work
<1>3. L \in Nat /\ \A k \in 1..L : k - 1 \in Units
  BY StoresAssumption DEF ClockOK, Units
<1>4. Unassigned \in S /\ Led(Unassigned, 0, work)
  <2>1. /\ Unassigned.claimed = {} /\ Unassigned.done = {} /\ Unassigned.budget = seeds
        /\ Unassigned.orders = [u \in Units |-> Pass]
        /\ Unassigned = [claimed |-> {}, budget |-> seeds, done |-> {},
                         orders |-> [u \in Units |-> Pass]]
    BY DEF Unassigned
  <2>2. seeds \in [Crops -> Int] /\ [u \in Units |-> Pass] \in [Units -> UnitOrder]
    BY PassIsOrder DEF ClockOK
  <2>3. Unassigned \in S
    BY <2>1, <2>2 DEF Dispatch
  <2>4. \A u \in Units : ~(u < 0) /\ Unassigned.orders[u] = Pass
    BY <2>1 DEF Units
  <2>5. Apart(Unassigned)
    BY <2>4 DEF Apart
  <2>6. ASSUME NEW c \in Crops
        PROVE  /\ Unassigned.budget[c] >= 0
               /\ Cardinality(Requests(Unassigned.orders, c)) + Unassigned.budget[c] <= seeds[c]
    <3>1. Requests(Unassigned.orders, c) = {}
      BY <2>4 DEF Requests, Pass
    <3>2. Cardinality(Requests(Unassigned.orders, c)) = 0
      BY <3>1, FS_EmptySet
    <3>3. seeds[c] \in Nat
      BY DEF ClockOK
    <3> QED BY <2>1, <3>2, <3>3
  <2> QED BY <2>1, <2>3, <2>4, <2>5, <2>6 DEF Led, Budgeted
<1>5. ASSUME NEW k \in 1..L, NEW x \in S PROVE Assigned(x, k - 1, work) \in S
  BY <1>2, <1>3, AssignedIs
<1> HIDE DEF S, L
<1>6. G \in [1..L -> [S -> S]]
  BY <1>5
<1> HIDE DEF G
<1>7. PICK f : Unfolds(f, L, S, Unassigned, G)
  BY <1>3, <1>4, <1>6, Recursion
<1>8. f = step_(f)
  <2>1. f = [k \in 0..L |-> f[k]]
    BY <1>7 DEF Unfolds
  <2>2. ASSUME NEW k \in 0..L PROVE f[k] = step_(f)[k]
    <3>1. CASE k = 0
      BY <3>1, <1>7 DEF Unfolds
    <3>2. CASE k # 0
      <4>1. k \in 1..L /\ k - 1 \in 0..L /\ f[k - 1] \in S
        BY <3>2, <1>3, <1>7 DEF Unfolds
      <4> QED BY <4>1, <1>7, <3>2 DEF G, Unfolds
    <3> QED BY <3>1, <3>2
  <2> QED BY <2>1, <2>2
<1>9. sofar = step_(sofar)
  <2> HIDE DEF step_
  <2> QED BY <1>8
<1> HIDE DEF sofar
<1>10. \A k \in 0..L : sofar[k] = step_(sofar)[k]
  <2> HIDE DEF step_
  <2> QED BY <1>9
<1> DEFINE T == {m \in Nat : m <= L => Led(sofar[m], m, work)}
<1>11. 0 \in T
  <2>1. sofar[0] = Unassigned
    BY <1>10, <1>3
  <2> QED BY <2>1, <1>4
<1>12. ASSUME NEW m \in T PROVE m + 1 \in T
  <2> SUFFICES ASSUME m + 1 <= L PROVE Led(sofar[m + 1], m + 1, work)
    OBVIOUS
  <2>1. Led(sofar[m], m, work)
    BY <1>3
  <2>2. m + 1 \in 1..L /\ m + 1 \in 0..L /\ m + 1 # 0 /\ (m + 1) - 1 = m
    BY <1>3
  <2>3. sofar[m + 1] = Assigned(sofar[m], m, work)
    BY <2>2, <1>10
  <2>4. m \in Units
    BY <2>2, <1>3
  <2> QED BY <2>1, <2>3, <2>4, <1>2, LedStep
<1> HIDE DEF T
<1>13. T = Nat
  <2>1. T \subseteq Nat
    BY DEF T
  <2> QED BY <2>1, <1>11, <1>12, Induction
<1>14. Led(sofar[L], L, work)
  BY <1>3, <1>13 DEF T
<1> QED BY <1>1, <1>14 DEF L, work

-----------------------------------------------------------------------------
(* The market queue and the ledger of sales. *)

Bids == [op: {"SELL", "BUY", "HIRE", "BUY_SEED", "BUY_LAND"}, target: Items \cup {None},
         n: Nat \ {0}]

\* At most one sale of an item, of no more than the ledger and the shed allow.
OneSale(q, remaining) ==
  /\ q \in Seq(Bids)
  /\ \A k \in 1..Len(q) : q[k].op = "SELL" =>
        /\ q[k].target \in Products /\ q[k].n <= remaining[q[k].target]
        /\ q[k].n <= ForSale(q[k].target)
  /\ \A j, k \in 1..Len(q) :
        q[j].op = "SELL" /\ q[k].op = "SELL" /\ q[j].target = q[k].target => j = k

\* A queue sells an item once at most, and no more of it than the shed can spare.
Spares(q) ==
  /\ \A k \in 1..Len(q) : q[k].op = "SELL" =>
        q[k].target \in Products /\ q[k].n <= ForSale(q[k].target)
  /\ \A j, k \in 1..Len(q) :
        q[j].op = "SELL" /\ q[k].op = "SELL" /\ q[j].target = q[k].target => j = k

LEMMA MoreOrders ==
  ASSUME NEW remaining, NEW q, OneSale(q, remaining), NEW w \in Seq(Bids),
         \A k \in 1..Len(w) : w[k].op # "SELL"
  PROVE  OneSale(q \o w, remaining)
<1> DEFINE c == q \o w
<1>1. /\ c \in Seq(Bids) /\ Len(c) = Len(q) + Len(w) /\ Len(q) \in Nat /\ Len(w) \in Nat
      /\ \A k \in 1..Len(c) : c[k] = IF k <= Len(q) THEN q[k] ELSE w[k - Len(q)]
  BY DEF OneSale
<1> HIDE DEF c
<1>2. ASSUME NEW k \in 1..Len(c), c[k].op = "SELL" PROVE k \in 1..Len(q) /\ c[k] = q[k]
  <2>1. CASE k <= Len(q)
    BY <1>1, <2>1
  <2>2. CASE ~(k <= Len(q))
    <3>1. k - Len(q) \in 1..Len(w) /\ c[k] = w[k - Len(q)]
      BY <1>1, <2>2
    <3> QED BY <3>1, <1>2
  <2> QED BY <2>1, <2>2
<1>3. ASSUME NEW k \in 1..Len(c), c[k].op = "SELL"
      PROVE  /\ c[k].target \in Products /\ c[k].n <= remaining[c[k].target]
             /\ c[k].n <= ForSale(c[k].target)
  BY <1>2, <1>3 DEF OneSale
<1>4. ASSUME NEW j \in 1..Len(c), NEW k \in 1..Len(c),
             c[j].op = "SELL", c[k].op = "SELL", c[j].target = c[k].target
      PROVE  j = k
  <2>1. j \in 1..Len(q) /\ c[j] = q[j] /\ k \in 1..Len(q) /\ c[k] = q[k]
    BY <1>2, <1>4
  <2> QED BY <2>1, <1>4 DEF OneSale
<1>5. OneSale(c, remaining)
  BY <1>1, <1>3, <1>4 DEF OneSale
<1> QED BY <1>5 DEF c

\* What is cut off at the end of the queue was never offered.
LEMMA TruncatedIs ==
  ASSUME NEW remaining, NEW q, OneSale(q, remaining)
  PROVE  OneSale(Truncated(q), remaining) /\ Len(Truncated(q)) <= MaxMarketOrders
<1> DEFINE m == Min({Len(q), MaxMarketOrders})
<1>1. Len(q) \in Nat /\ q \in Seq(Bids) /\ MaxMarketOrders \in Nat
  BY FarmAssumption DEF OneSale
<1>2. m \in Nat /\ m <= Len(q) /\ m <= MaxMarketOrders
  <2>1. Len(q) \in Int /\ MaxMarketOrders \in Int
    BY <1>1
  <2>2. m = IF Len(q) <= MaxMarketOrders THEN Len(q) ELSE MaxMarketOrders
    BY <2>1, TwoNumbers
  <2> HIDE DEF m
  <2> QED BY <1>1, <2>2
<1>3. Truncated(q) = SubSeq(q, 1, m)
  BY DEF Truncated
<1> HIDE DEF m
<1> DEFINE c == SubSeq(q, 1, m)
<1>4. c \in Seq(Bids) /\ Len(c) = m /\ \A k \in 1..m : c[k] = q[k] /\ k \in 1..Len(q)
  BY <1>1, <1>2
<1> HIDE DEF c
<1>5. OneSale(c, remaining)
  BY <1>4 DEF OneSale
<1> QED BY <1>2, <1>3, <1>4, <1>5 DEF c

\* Of an item that is sold once the sum of its sales is that sale.
LEMMA SoldIs ==
  ASSUME NEW remaining \in [Products -> Nat], NEW q, OneSale(q, remaining), NEW i \in Products
  PROVE  Sold(q, i) \in Nat /\ Sold(q, i) <= remaining[i]
<1> DEFINE f == [k \in DOMAIN q |-> q[k].n]
           K == {k \in DOMAIN q : q[k].op = "SELL" /\ q[k].target = i}
<1>1. DOMAIN q = 1..Len(q) /\ Sold(q, i) = SumFunctionOnSet(f, K)
  BY DEF OneSale, Sold
<1>2. ASSUME NEW k \in K
      PROVE  f[k] = q[k].n /\ f[k] \in Nat /\ f[k] <= remaining[i]
  <2>1. k \in 1..Len(q) /\ q[k] \in Bids /\ q[k].op = "SELL" /\ q[k].target = i
    BY <1>1 DEF OneSale
  <2>2. f[k] = q[k].n
    OBVIOUS
  <2>3. q[k].n \in Nat /\ q[k].n <= remaining[i]
    BY <2>1 DEF OneSale, Bids
  <2> QED BY <2>2, <2>3
<1>3. \A j, k \in K : j = k
  BY <1>1 DEF OneSale
<1> HIDE DEF f, K
<1>4. remaining[i] \in Nat
  OBVIOUS
<1>5. CASE K = {}
  <2>1. Sold(q, i) = 0
    BY <1>1, <1>5, SumEmpty
  <2> QED BY <2>1, <1>4
<1>6. CASE K # {}
  <2>1. PICK k \in K : TRUE
    BY <1>6
  <2>2. K = {k}
    BY <2>1, <1>3
  <2>3. f[k] \in Int
    BY <2>1, <1>2
  <2>4. SumFunctionOnSet(f, {k}) = f[k]
    BY <2>3, SumSingle
  <2> QED BY <2>1, <2>2, <2>4, <1>1, <1>2
<1> QED BY <1>5, <1>6

LEMMA ForSaleIs ==
  ASSUME ShedOK, CarryOK, NEW i \in Items
  PROVE  ForSale(i) \in Int
<1>1. Hungry \in SUBSET Board
  BY DEF Hungry, Herd
<1>2. Cardinality(Hungry) \in Nat
  BY <1>1, FiniteKinds, FS_Subset, FS_CardinalityType
<1>3. Wheat \in Items
  BY FarmAssumption
<1>4. Carrying(Wheat) \in Int /\ shed[i] \in Int
  BY <1>3, GoodsCounted
<1> DEFINE short == Cardinality(Hungry) - Carrying(Wheat)
           reserve == Larger(0, short)
<1>5. short \in Int
  BY <1>2, <1>4
<1> HIDE DEF short
<1>6. reserve \in Int
  <2>1. 0 \in Int
    OBVIOUS
  <2>2. Larger(0, short) = IF 0 >= short THEN 0 ELSE short
    BY <1>5, <2>1, TwoNumbers
  <2> QED BY <1>5, <2>2
<1> HIDE DEF reserve
<1>7. Larger(0, shed[i] - reserve) \in Int
  <2>1. 0 \in Int /\ shed[i] - reserve \in Int
    BY <1>4, <1>6
  <2> QED BY <2>1, TwoNumbers
<1>8. ForSale(i) = IF i = Wheat THEN Larger(0, shed[i] - reserve) ELSE shed[i]
  BY DEF ForSale, reserve, short
<1> QED BY <1>4, <1>7, <1>8

\* A sale of one product.
Sale(remaining, i) == Bid("SELL", i, Min({remaining[i], ForSale(i)}))

\* The sales of the first k products.
SalesOf(q, k, remaining) ==
  /\ OneSale(q, remaining)
  /\ \A j \in 1..Len(q) : q[j].op = "SELL" /\ \E m \in 1..k : q[j].target = ProductOrder[m]

LEMMA SaleAdded ==
  ASSUME ShedOK, CarryOK, NEW remaining \in [Products -> Nat],
         NEW k \in Nat, k + 1 \in 1..Len(ProductOrder), NEW q, SalesOf(q, k, remaining)
  PROVE  SalesOf(IF Min({remaining[ProductOrder[k + 1]], ForSale(ProductOrder[k + 1])}) > 0
                 THEN Append(q, Sale(remaining, ProductOrder[k + 1])) ELSE q, k + 1, remaining)
<1> DEFINE i == ProductOrder[k + 1]
           n == Min({remaining[i], ForSale(i)})
           sale == Sale(remaining, i)
<1>1. i \in Products /\ i \in Items /\ \A m \in 1..k : ProductOrder[m] # i
  <2>1. Len(ProductOrder) \in Nat
    BY ExecutorAssumption
  <2>2. i \in Products
    BY DEF Products
  <2>3. i \in Items
    BY ExecutorAssumption
  <2>4. ASSUME NEW m \in 1..k PROVE ProductOrder[m] # i
    <3>1. m \in 1..Len(ProductOrder) /\ m # k + 1
      BY <2>1
    <3> QED BY <3>1, ExecutorAssumption
  <2> QED BY <2>2, <2>3, <2>4
<1>2. remaining[i] \in Int /\ ForSale(i) \in Int
  BY <1>1, ForSaleIs
<1>3. n \in Int /\ n <= remaining[i] /\ n <= ForSale(i)
  <2>1. n = IF remaining[i] <= ForSale(i) THEN remaining[i] ELSE ForSale(i)
    BY <1>2, TwoNumbers
  <2> HIDE DEF n, i
  <2> QED BY <2>1, <1>2
<1>4. sale = [op |-> "SELL", target |-> i, n |-> n]
  BY DEF Sale, Bid
<1> HIDE DEF i, n, sale
<1>5. \A j \in 1..Len(q) : \E m \in 1..(k + 1) : q[j].target = ProductOrder[m]
  <2>1. \A m \in 1..k : m \in 1..(k + 1)
    OBVIOUS
  <2> QED BY <2>1 DEF SalesOf
<1>6. CASE ~(n > 0)
  <2>1. SalesOf(q, k + 1, remaining)
    BY <1>5 DEF SalesOf
  <2> QED BY <2>1, <1>6 DEF n, i, sale
<1>7. CASE n > 0
  <2> DEFINE c == Append(q, sale)
  <2>1. sale \in Bids
    BY <1>1, <1>3, <1>4, <1>7 DEF Bids
  <2>2. q \in Seq(Bids) /\ Len(q) \in Nat
    BY DEF SalesOf, OneSale
  <2>3. /\ c \in Seq(Bids) /\ Len(c) = Len(q) + 1 /\ c[Len(q) + 1] = sale
        /\ \A j \in 1..Len(q) : c[j] = q[j]
    BY <2>1, <2>2
  <2> HIDE DEF c
  <2>4. \A j \in 1..Len(c) : j \in 1..Len(q) \/ j = Len(q) + 1
    BY <2>2, <2>3
  <2>5. \A j \in 1..Len(q) : q[j].op = "SELL" /\ q[j].target # i
    BY <1>1 DEF SalesOf
  <2>6. sale.op = "SELL" /\ sale.target = i /\ sale.n = n
    BY <1>4
  <2>7. ASSUME NEW j \in 1..Len(c)
        PROVE  /\ c[j].op = "SELL" /\ c[j].target \in Products
               /\ c[j].n <= remaining[c[j].target] /\ c[j].n <= ForSale(c[j].target)
               /\ \E m \in 1..(k + 1) : c[j].target = ProductOrder[m]
    <3>1. CASE j \in 1..Len(q)
      BY <3>1, <2>3, <2>5, <1>5 DEF SalesOf, OneSale
    <3>2. CASE j = Len(q) + 1
      <4>1. k + 1 \in 1..(k + 1)
        OBVIOUS
      <4>2. c[j] = sale
        BY <3>2, <2>3
      <4> QED BY <4>1, <4>2, <2>6, <1>1, <1>3 DEF i
    <3> QED BY <3>1, <3>2, <2>4
  <2>8. ASSUME NEW j \in 1..Len(c), NEW m \in 1..Len(c), c[j].target = c[m].target
        PROVE  j = m
    <3>1. CASE j \in 1..Len(q) /\ m \in 1..Len(q)
      BY <3>1, <2>3, <2>5, <2>8 DEF SalesOf, OneSale
    <3>2. CASE j \in 1..Len(q) /\ m = Len(q) + 1
      BY <3>2, <2>3, <2>5, <2>6, <2>8
    <3>3. CASE m \in 1..Len(q) /\ j = Len(q) + 1
      BY <3>3, <2>3, <2>5, <2>6, <2>8
    <3> QED BY <3>1, <3>2, <3>3, <2>4
  <2>9. SalesOf(c, k + 1, remaining)
    BY <2>3, <2>7, <2>8 DEF SalesOf, OneSale
  <2> QED BY <2>9, <1>7 DEF n, i, sale, c
<1> QED BY <1>6, <1>7

LEMMA SellOrdersIs ==
  ASSUME ShedOK, CarryOK, NEW remaining \in [Products -> Nat]
  PROVE  OneSale(SellOrders(remaining), remaining)
<1> DEFINE L == Len(ProductOrder)
           executed(i) == Min({remaining[i], ForSale(i)})
           then_(q, k) == IF executed(ProductOrder[k]) > 0
                          THEN Append(q, Bid("SELL", ProductOrder[k], executed(ProductOrder[k])))
                          ELSE q
           S == {q \in Seq(Bids) : OneSale(q, remaining)}
           step_(f) == [k \in 0..L |-> IF k = 0 THEN <<>>
                          ELSE IF executed(ProductOrder[k]) > 0
                          THEN Append(f[k - 1], Bid("SELL", ProductOrder[k], executed(ProductOrder[k])))
                          ELSE f[k - 1]]
           sales == CHOOSE f : f = step_(f)
           P(m, f) == /\ DOMAIN f = 0..m /\ f = [k \in 0..m |-> f[k]] /\ f[0] = <<>>
                      /\ \A k \in 1..m : f[k] = then_(f[k - 1], k)
                      /\ \A k \in 0..m : SalesOf(f[k], k, remaining)
           T == {m \in Nat : m <= L => \E f : P(m, f)}
<1>1. SellOrders(remaining) = sales[L]
  BY DEF SellOrders
<1>2. L \in Nat
  BY ExecutorAssumption
<1>3. SalesOf(<<>>, 0, remaining)
  <2>1. <<>> \in Seq(Bids) /\ Len(<<>>) = 0 /\ \A k \in 1..0 : FALSE
    OBVIOUS
  <2> QED BY <2>1 DEF SalesOf, OneSale
<1>4. ASSUME NEW k \in Nat, k + 1 <= L, NEW q, SalesOf(q, k, remaining)
      PROVE  SalesOf(then_(q, k + 1), k + 1, remaining)
  <2>1. k + 1 \in 1..Len(ProductOrder)
    BY <1>2, <1>4
  <2> QED BY <2>1, <1>4, SaleAdded DEF Sale
<1> HIDE DEF then_
<1>5. 0 \in T
  <2> DEFINE g == [k \in 0..0 |-> <<>>]
  <2>1. (\A k \in 0..0 : k = 0) /\ 0 \in 0..0 /\ (\A k \in 1..0 : FALSE)
    OBVIOUS
  <2>2. DOMAIN g = 0..0 /\ g = [k \in 0..0 |-> g[k]] /\ g[0] = <<>>
    BY <2>1
  <2> HIDE DEF g
  <2>3. P(0, g)
    BY <2>1, <2>2, <1>3
  <2> HIDE DEF P
  <2> QED BY <2>3
<1>6. ASSUME NEW m \in T PROVE m + 1 \in T
  <2> HIDE DEF P
  <2> SUFFICES ASSUME m + 1 <= L PROVE \E f : P(m + 1, f)
    OBVIOUS
  <2>1. PICK f : P(m, f)
    BY <1>2
  <2> DEFINE g == [k \in 0..(m + 1) |-> IF k = m + 1 THEN then_(f[m], m + 1) ELSE f[k]]
  <2>2. m \in 0..m /\ SalesOf(f[m], m, remaining)
    BY <2>1 DEF P
  <2>3. SalesOf(then_(f[m], m + 1), m + 1, remaining)
    BY <2>2, <1>4
  <2>4. DOMAIN g = 0..(m + 1) /\ g = [k \in 0..(m + 1) |-> g[k]]
    OBVIOUS
  <2>5. g[0] = <<>>
    BY <2>1 DEF P
  <2>6. g[m + 1] = then_(f[m], m + 1) /\ \A k \in 0..m : g[k] = f[k]
    OBVIOUS
  <2> HIDE DEF g
  <2>7. ASSUME NEW k \in 1..(m + 1) PROVE g[k] = then_(g[k - 1], k)
    <3>1. CASE k = m + 1
      BY <3>1, <2>6
    <3>2. CASE k # m + 1
      <4>1. k \in 1..m /\ k \in 0..m /\ k - 1 \in 0..m
        BY <3>2
      <4> QED BY <4>1, <2>6, <2>1 DEF P
    <3> QED BY <3>1, <3>2
  <2>8. ASSUME NEW k \in 0..(m + 1) PROVE SalesOf(g[k], k, remaining)
    <3>1. CASE k = m + 1
      BY <3>1, <2>3, <2>6
    <3>2. CASE k # m + 1
      <4>1. k \in 0..m
        BY <3>2
      <4> QED BY <4>1, <2>6, <2>1 DEF P
    <3> QED BY <3>1, <3>2
  <2>9. P(m + 1, g)
    BY <2>4, <2>5, <2>7, <2>8 DEF P
  <2> QED BY <2>9
<1> HIDE DEF T
<1>7. T = Nat
  <2>1. T \subseteq Nat
    BY DEF T
  <2> QED BY <2>1, <1>5, <1>6, Induction
<1>8. PICK f : P(L, f)
  <2> HIDE DEF P
  <2> QED BY <1>2, <1>7 DEF T
<1>9. f = step_(f)
  <2>1. f = [k \in 0..L |-> f[k]]
    BY <1>8
  <2>2. ASSUME NEW k \in 0..L PROVE f[k] = step_(f)[k]
    <3>1. CASE k = 0
      BY <3>1, <1>8
    <3>2. CASE k # 0
      <4>1. k \in 1..L
        BY <3>2, <1>2
      <4>2. f[k] = then_(f[k - 1], k)
        BY <4>1, <1>8
      <4> QED BY <4>2, <3>2 DEF then_
    <3> QED BY <3>1, <3>2
  <2> QED BY <2>1, <2>2
<1>10. sales = step_(sales)
  <2> HIDE DEF step_
  <2> QED BY <1>9
<1> HIDE DEF sales
<1>11. \A k \in 0..L : sales[k] = step_(sales)[k]
  <2> HIDE DEF step_
  <2> QED BY <1>10
<1> DEFINE Q == {m \in Nat : m <= L => SalesOf(sales[m], m, remaining)}
<1>12. 0 \in Q
  <2>1. 0 \in 0..L
    BY <1>2
  <2>2. sales[0] = <<>>
    BY <2>1, <1>11
  <2> QED BY <2>2, <1>3
<1>13. ASSUME NEW m \in Q PROVE m + 1 \in Q
  <2> SUFFICES ASSUME m + 1 <= L PROVE SalesOf(sales[m + 1], m + 1, remaining)
    OBVIOUS
  <2>1. m + 1 \in 0..L /\ m + 1 # 0 /\ (m + 1) - 1 = m /\ m <= L
    BY <1>2
  <2>2. sales[m + 1] = then_(sales[m], m + 1)
    BY <2>1, <1>11 DEF then_
  <2> QED BY <2>1, <2>2, <1>4
<1> HIDE DEF Q
<1>14. Q = Nat
  <2>1. Q \subseteq Nat
    BY DEF Q
  <2> QED BY <2>1, <1>12, <1>13, Induction
<1>15. SalesOf(sales[L], L, remaining)
  BY <1>2, <1>14 DEF Q
<1> QED BY <1>1, <1>15 DEF SalesOf

\* Tasks in order are those tasks.
LEMMA InOrderIs ==
  ASSUME NEW S, IsFiniteSet(S), \A t \in S : Chore(t) \/ Errand(t)
  PROVE  Cardinality(S) \in Nat /\ \A k \in 1..Cardinality(S) : InOrder(S)[k] \in S
<1> DEFINE L == Cardinality(S)
           Z == SUBSET S
           G == [k \in 1..L |-> [z \in Z |-> z \ {Least(z, SortKey)}]]
           step_(f) == [k \in 0..L |-> IF k = 0 THEN S ELSE f[k - 1] \ {Least(f[k - 1], SortKey)}]
           rest == CHOOSE f : f = step_(f)
<1>1. InOrder(S) = [k \in 1..L |-> Least(rest[k - 1], SortKey)]
  BY DEF InOrder
<1>2. L \in Nat
  BY FS_CardinalityType
<1> HIDE DEF L
<1>3. S \in Z
  OBVIOUS
<1>4. ASSUME NEW z \in Z PROVE z \ {Least(z, SortKey)} \in Z
  OBVIOUS
<1>5. G \in [1..L -> [Z -> Z]]
  BY <1>4
<1> HIDE DEF G, Z
<1>6. PICK f : Unfolds(f, L, Z, S, G)
  BY <1>2, <1>3, <1>5, Recursion
<1>7. f = step_(f)
  <2>1. f = [k \in 0..L |-> f[k]]
    BY <1>6 DEF Unfolds
  <2>2. ASSUME NEW k \in 0..L PROVE f[k] = step_(f)[k]
    <3>1. CASE k = 0
      BY <3>1, <1>6 DEF Unfolds
    <3>2. CASE k # 0
      <4>1. k \in 1..L /\ k - 1 \in 0..L /\ f[k - 1] \in Z
        BY <3>2, <1>2, <1>6 DEF Unfolds
      <4> QED BY <4>1, <1>6, <3>2 DEF G, Unfolds
    <3> QED BY <3>1, <3>2
  <2> QED BY <2>1, <2>2
<1>8. rest = step_(rest)
  <2> HIDE DEF step_
  <2> QED BY <1>7
<1> HIDE DEF rest
<1>9. \A k \in 0..L : rest[k] = step_(rest)[k]
  <2> HIDE DEF step_
  <2> QED BY <1>8
<1> DEFINE T == {m \in Nat : m <= L => rest[m] \in SUBSET S /\ Cardinality(rest[m]) = L - m}
<1>10. 0 \in T
  <2>1. 0 \in 0..L
    BY <1>2
  <2>2. rest[0] = S
    BY <2>1, <1>9
  <2> QED BY <2>2, <1>2 DEF L
<1>11. ASSUME NEW s \in SUBSET S, NEW n \in Nat, Cardinality(s) = n, n > 0
       PROVE  Least(s, SortKey) \in s
  <2>1. IsFiniteSet(s)
    BY FS_Subset
  <2>2. s # {}
    BY <1>11, <2>1, FS_EmptySet
  <2> QED BY <2>1, <2>2, LeastTask
<1>12. ASSUME NEW m \in T PROVE m + 1 \in T
  <2> SUFFICES ASSUME m + 1 <= L
               PROVE  rest[m + 1] \in SUBSET S /\ Cardinality(rest[m + 1]) = L - (m + 1)
    OBVIOUS
  <2>1. m + 1 \in 0..L /\ m + 1 # 0 /\ (m + 1) - 1 = m /\ m <= L /\ L - m \in Nat /\ L - m > 0
    BY <1>2
  <2>2. rest[m + 1] = rest[m] \ {Least(rest[m], SortKey)}
    BY <2>1, <1>9
  <2>3. rest[m] \in SUBSET S /\ Cardinality(rest[m]) = L - m
    BY <2>1
  <2>4. Least(rest[m], SortKey) \in rest[m]
    BY <2>1, <2>3, <1>11
  <2>5. IsFiniteSet(rest[m])
    BY <2>3, FS_Subset
  <2> DEFINE least == Least(rest[m], SortKey)
             r == rest[m]
  <2>6. least \in r /\ IsFiniteSet(r) /\ Cardinality(r) = L - m
    BY <2>3, <2>4, <2>5
  <2> HIDE DEF least, r
  <2>7. Cardinality(r \ {least}) = L - (m + 1)
    <3>1. Cardinality(r \ {least}) = Cardinality(r) - 1
      BY <2>6, Shrinks
    <3> QED BY <3>1, <2>6, <1>2
  <2>8. rest[m + 1] = r \ {least}
    BY <2>2 DEF least, r
  <2> QED BY <2>3, <2>7, <2>8 DEF r
<1> HIDE DEF T
<1>13. T = Nat
  <2>1. T \subseteq Nat
    BY DEF T
  <2> QED BY <2>1, <1>10, <1>12, Induction
<1>14. ASSUME NEW k \in 1..L PROVE InOrder(S)[k] \in S
  <2>1. k - 1 \in Nat /\ k - 1 <= L /\ L - (k - 1) \in Nat /\ L - (k - 1) > 0
    BY <1>2
  <2>2. rest[k - 1] \in SUBSET S /\ Cardinality(rest[k - 1]) = L - (k - 1)
    BY <2>1, <1>13 DEF T
  <2>3. Least(rest[k - 1], SortKey) \in rest[k - 1]
    BY <2>1, <2>2, <1>11
  <2>4. InOrder(S)[k] = Least(rest[k - 1], SortKey)
    BY <1>1
  <2> QED BY <2>2, <2>3, <2>4
<1> QED BY <1>2, <1>14 DEF L

\* A number of an interval is an integer, whatever its bounds.
LEMMA Counted == \A e : \A x \in 0..e : x \in Nat
OBVIOUS

\* The candidates: at most one sale of a product, and nothing for no units.
LEMMA CandidatesIs ==
  ASSUME ShedOK, CarryOK, NEW remaining \in [Products -> Nat], NEW fed \in Nat, NEW hires \in Nat,
         NEW others, IsFiniteSet(others), \A t \in others : Errand(t)
  PROVE  OneSale(Candidates(remaining, fed, hires, others), remaining)
<1> DEFINE feed == [k \in 1..Min({fed, 1}) |-> Bid("BUY", Wheat, fed)]
           hands == [k \in 1..hires |-> Bid("HIRE", None, 1)]
           n == Cardinality(others)
           rest == [k \in 1..n |-> BuyOrder(InOrder(others)[k])]
<1>1. OneSale(SellOrders(remaining), remaining)
  BY SellOrdersIs
<1>2. feed \in Seq(Bids) /\ \A k \in 1..Len(feed) : feed[k].op # "SELL"
  <2>1. Min({fed, 1}) = IF fed <= 1 THEN fed ELSE 1
    <3>1. fed \in Int /\ 1 \in Int
      OBVIOUS
    <3> QED BY <3>1, TwoNumbers
  <2> DEFINE meal == Bid("BUY", Wheat, fed)
             m == Min({fed, 1})
  <2>2. m \in Nat /\ (m >= 1 => fed >= 1)
    BY <2>1
  <2> HIDE DEF m
  <2>3. fed >= 1 => meal \in Bids
    BY FarmAssumption DEF Bid, Bids
  <2>4. meal.op # "SELL"
    BY DEF Bid
  <2> HIDE DEF meal
  <2>5. [k \in 1..m |-> meal] \in Seq(Bids)
    <3>1. \A k \in 1..m : m >= 1
      BY <2>2
    <3>2. \A k \in 1..m : meal \in Bids
      BY <3>1, <2>2, <2>3
    <3> QED BY <3>2, <2>2
  <2>6. Len([k \in 1..m |-> meal]) = m
    BY <2>2
  <2> QED BY <2>4, <2>5, <2>6 DEF m, meal
<1>3. hands \in Seq(Bids) /\ \A k \in 1..Len(hands) : hands[k].op # "SELL"
  <2>1. Bid("HIRE", None, 1) \in Bids /\ Bid("HIRE", None, 1).op # "SELL"
    BY DEF Bid, Bids
  <2> QED BY <2>1
<1>4. rest \in Seq(Bids) /\ \A k \in 1..Len(rest) : rest[k].op # "SELL"
  <2>1. n \in Nat /\ \A k \in 1..n : InOrder(others)[k] \in others
    BY InOrderIs
  <2> HIDE DEF n
  <2>2. ASSUME NEW t \in others PROVE BuyOrder(t) \in Bids /\ BuyOrder(t).op # "SELL"
    <3>1. Errand(t)
      OBVIOUS
    <3> QED BY <3>1 DEF Errand, BuyOrder, Bid, Bids
  <2>3. \A k \in 1..n : BuyOrder(InOrder(others)[k]) \in Bids
                        /\ BuyOrder(InOrder(others)[k]).op # "SELL"
    BY <2>1, <2>2
  <2>4. rest \in Seq(Bids) /\ Len(rest) = n
    BY <2>1, <2>3
  <2>5. \A k \in 1..n : rest[k] = BuyOrder(InOrder(others)[k])
    OBVIOUS
  <2> HIDE DEF rest
  <2> QED BY <2>3, <2>4, <2>5
<1>5. Candidates(remaining, fed, hires, others) = SellOrders(remaining) \o feed \o hands \o rest
  BY DEF Candidates
<1> HIDE DEF feed, hands, rest
<1>6. OneSale(SellOrders(remaining) \o feed, remaining)
  BY <1>1, <1>2, MoreOrders
<1>7. OneSale((SellOrders(remaining) \o feed) \o hands, remaining)
  BY <1>3, <1>6, MoreOrders
<1> QED BY <1>4, <1>5, <1>7, MoreOrders

\* What is put in the queue is taken off the ledger, no more and no less.
LEMMA QueuedIs ==
  ASSUME ShedOK, CarryOK, NEW tasks, IsFiniteSet(tasks), \A t \in tasks : Chore(t) \/ Errand(t),
         NEW remaining \in [Products -> Nat], NEW onSale \in [Products -> Int],
         Queued(tasks, remaining, onSale)
  PROVE  /\ queue' \in Seq(Bids) /\ Len(queue') <= MaxMarketOrders /\ Spares(queue')
         /\ remaining_sells' \in [Products -> Nat] /\ offered' \in [Products -> Int]
         /\ \A i \in Products : remaining_sells'[i] + offered'[i] = remaining[i] + onSale[i]
<1> DEFINE market == {t \in tasks : t.tile = Nowhere}
           meals == {t \in market : /\ t.kind = "BUY_PRODUCT" /\ t.target = Wheat
                                    /\ FeedShortage > 0}
<1>1. PICK fed \in 0..(IF meals = {} THEN 0 ELSE FeedShortage),
           hires \in 0..HiresWanted(OnTiles(Dispatched(tasks))),
           others \in SUBSET (market \ meals) :
              LET candidates == Candidates(remaining, fed, hires, others)
              IN  /\ queue' = Truncated(candidates)
                  /\ remaining_sells' = Committed(remaining, candidates, queue')
                  /\ offered' = [i \in Products |-> onSale[i] + Sold(queue', i)]
  BY DEF Queued
<1>2. fed \in Nat /\ hires \in Nat
  BY Counted
<1>3. others \in SUBSET tasks /\ \A t \in others : Errand(t)
  <2>1. \A t \in others : t \in tasks /\ t.tile = Nowhere
    OBVIOUS
  <2>2. \A t : Chore(t) => t.tile # Nowhere
    BY BoardTiles DEF Chore
  <2> QED BY <2>1, <2>2
<1>4. IsFiniteSet(others)
  BY <1>3, FS_Subset
<1> DEFINE candidates == Candidates(remaining, fed, hires, others)
<1>5. OneSale(candidates, remaining)
  BY <1>2, <1>3, <1>4, CandidatesIs
<1>6. /\ queue' = Truncated(candidates)
      /\ remaining_sells' = Committed(remaining, candidates, queue')
      /\ offered' = [i \in Products |-> onSale[i] + Sold(queue', i)]
  BY <1>1
<1> HIDE DEF candidates
<1>7. OneSale(queue', remaining) /\ Len(queue') <= MaxMarketOrders
  BY <1>5, <1>6, TruncatedIs
<1>8. PICK q : q = queue'
  OBVIOUS
<1>9. \A i \in Products : Sold(q, i) \in Nat /\ Sold(q, i) <= remaining[i]
  BY <1>7, <1>8, SoldIs
<1>10. remaining_sells' = [i \in Products |-> remaining[i] - Sold(q, i)]
  BY <1>6, <1>8 DEF Committed
<1>11. offered' = [i \in Products |-> onSale[i] + Sold(q, i)]
  BY <1>6, <1>8
<1>12. ASSUME NEW i \in Products
       PROVE  /\ remaining_sells'[i] \in Nat /\ offered'[i] \in Int
              /\ remaining_sells'[i] + offered'[i] = remaining[i] + onSale[i]
  <2>1. remaining[i] \in Nat /\ onSale[i] \in Int /\ Sold(q, i) \in Nat /\ Sold(q, i) <= remaining[i]
    BY <1>9
  <2>2. remaining_sells'[i] = remaining[i] - Sold(q, i) /\ offered'[i] = onSale[i] + Sold(q, i)
    BY <1>10, <1>11
  <2> QED BY <2>1, <2>2
<1>13. remaining_sells' \in [Products -> Nat]
  <2>1. remaining_sells' = [i \in Products |-> remaining_sells'[i]]
    BY <1>10
  <2> QED BY <2>1, <1>12
<1>14. offered' \in [Products -> Int]
  <2>1. offered' = [i \in Products |-> offered'[i]]
    BY <1>11
  <2> QED BY <2>1, <1>12
<1> QED BY <1>7, <1>12, <1>13, <1>14 DEF OneSale, Spares

-----------------------------------------------------------------------------
(* A TURN *)

\* What is still owed after the last turn of a day: water and food are either on the list
\* or being given by a worker who stands there.
Owed == LastHour => \A t \in MechanicalTasks : t.kind \in {"WATER", "FEED"} =>
            \/ t \in debt'
            \/ \E u \in Units : u <= hand_count /\ Interacts(u, t) /\ orders'[u] = InteractionOp(t)

\* Whatever the plan is, a turn orders what the farm can play and keeps the books.
TurnOK(remaining, onSale) ==
  /\ orders' \in [Units -> UnitOrder] /\ blocked' = OverRequested(orders')
  /\ queue' \in Seq(Bids) /\ Len(queue') <= MaxMarketOrders /\ Spares(queue')
  /\ remaining_sells' \in [Products -> Nat] /\ offered' \in [Products -> Int]
  /\ \A i \in Products : remaining_sells'[i] + offered'[i] = remaining[i] + onSale[i]
  /\ \A t \in debt' : t.tile \in Board

LEMMA PassedIs ==
  ASSUME NEW remaining \in [Products -> Nat], NEW onSale \in [Products -> Int], NEW oldDebt,
         \A t \in oldDebt : t.tile \in Board, ClockOK, PassAll(remaining, onSale, oldDebt)
  PROVE  TurnOK(remaining, onSale)
<1>1. orders' = [u \in Units |-> Pass]
  BY DEF PassAll
<1>2. orders' \in [Units -> UnitOrder]
  BY <1>1, PassIsOrder
<1>3. OverRequested(orders') = {}
  <2>1. PICK o : o = orders'
    OBVIOUS
  <2>2. ASSUME NEW c \in Crops PROVE ~(Cardinality(Requests(o, c)) > seeds[c])
    <3>1. Requests(o, c) = {}
      BY <1>1, <2>1 DEF Requests, Pass
    <3>2. Cardinality({}) = 0
      BY FS_EmptySet
    <3>3. seeds[c] \in Nat
      BY DEF ClockOK
    <3> QED BY <3>1, <3>2, <3>3
  <2>3. OverRequested(o) = {}
    BY <2>2 DEF OverRequested
  <2> QED BY <2>1, <2>3
<1>4. blocked' = OverRequested(orders')
  BY <1>3 DEF PassAll
<1>5. queue' \in Seq(Bids) /\ Len(queue') <= MaxMarketOrders
  <2>1. queue' = <<>> /\ MaxMarketOrders \in Nat
    BY FarmAssumption DEF PassAll
  <2> QED BY <2>1
<1>6. Spares(queue')
  <2>1. Len(queue') = 0 /\ \A k \in 1..0 : FALSE
    BY DEF PassAll
  <2> QED BY <2>1 DEF Spares
<1> QED BY <1>2, <1>4, <1>5, <1>6 DEF PassAll, TurnOK

LEMMA UndertakenIs ==
  ASSUME NEW generated, NEW holdBack, TasksOK(generated)
  PROVE  /\ Undertaken(generated, holdBack) \subseteq generated
         /\ IsFiniteSet(Undertaken(generated, holdBack))
         /\ \A t \in Undertaken(generated, holdBack) : Chore(t) \/ Errand(t)
         /\ \A t \in MechanicalTasks : t \in Undertaken(generated, holdBack)
<1>1. Undertaken(generated, holdBack) \subseteq generated
  BY DEF Undertaken
<1>2. ASSUME NEW t \in MechanicalTasks PROVE t.kind \notin Expansion
  BY DEF MechanicalTasks, Task, Expansion
<1>3. \A t \in MechanicalTasks : t \in Undertaken(generated, holdBack)
  BY <1>2 DEF TasksOK, Undertaken
<1>4. IsFiniteSet(Undertaken(generated, holdBack))
  BY <1>1, FS_Subset DEF TasksOK
<1> QED BY <1>1, <1>3, <1>4 DEF TasksOK

LEMMA DispatchedIs ==
  ASSUME NEW tasks, IsFiniteSet(tasks), \A t \in tasks : Chore(t) \/ Errand(t)
  PROVE  /\ Dispatched(tasks) \subseteq tasks /\ IsFiniteSet(Dispatched(tasks))
         /\ \A t \in Dispatched(tasks) : Chore(t) \/ Errand(t)
<1>1. Dispatched(tasks) \subseteq tasks
  BY DEF Dispatched
<1> QED BY <1>1, FS_Subset

LEMMA TurnIs ==
  ASSUME Inv, NEW plan, PlanOK(plan), NEW holdBack,
         NEW remaining \in [Products -> Nat], NEW onSale \in [Products -> Int], NEW oldDebt,
         \A t \in oldDebt : t.tile \in Board, Turn(plan, holdBack, remaining, onSale, oldDebt)
  PROVE  TurnOK(remaining, onSale) /\ raised' = raised /\ Owed
<1>i. ClockOK /\ FieldOK /\ ShedOK /\ CarryOK
  BY DEF Inv
<1>1. PICK affordable \in SUBSET Animals :
         \E generated \in {GenerateTasks(plan, affordable)} :
         \E tasks \in {Undertaken(generated, holdBack)} :
         \E result \in {RunForeman(Dispatched(tasks))} :
            IF ~KeysUnique(generated)
            THEN raised' = TRUE /\ PassAll(remaining, onSale, oldDebt)
            ELSE /\ raised' = raised
                 /\ Queued(tasks, remaining, onSale)
                 /\ orders' = result.orders
                 /\ blocked' = OverRequested(result.orders)
                 /\ debt' = IF LastHour THEN Remaining(tasks, result) ELSE oldDebt
  BY DEF Turn
<1>2. PICK generated : /\ generated = GenerateTasks(plan, affordable)
         /\ \E tasks \in {Undertaken(generated, holdBack)} :
            \E result \in {RunForeman(Dispatched(tasks))} :
            IF ~KeysUnique(generated)
            THEN raised' = TRUE /\ PassAll(remaining, onSale, oldDebt)
            ELSE /\ raised' = raised
                 /\ Queued(tasks, remaining, onSale)
                 /\ orders' = result.orders
                 /\ blocked' = OverRequested(result.orders)
                 /\ debt' = IF LastHour THEN Remaining(tasks, result) ELSE oldDebt
  BY <1>1
<1>3. TasksOK(generated)
  BY <1>i, <1>2, Generated
<1>4. PICK tasks, result :
            /\ tasks = Undertaken(generated, holdBack) /\ result = RunForeman(Dispatched(tasks))
            /\ raised' = raised
            /\ Queued(tasks, remaining, onSale)
            /\ orders' = result.orders
            /\ blocked' = OverRequested(result.orders)
            /\ debt' = IF LastHour THEN Remaining(tasks, result) ELSE oldDebt
  BY <1>2, <1>3 DEF TasksOK
<1>5. /\ IsFiniteSet(tasks) /\ \A t \in tasks : Chore(t) \/ Errand(t)
      /\ \A t \in MechanicalTasks : t \in tasks
  BY <1>3, <1>4, UndertakenIs
<1>6. /\ Dispatched(tasks) \subseteq tasks /\ IsFiniteSet(Dispatched(tasks))
      /\ \A t \in Dispatched(tasks) : Chore(t) \/ Errand(t)
  BY <1>5, DispatchedIs
<1>7. Led(result, hand_count + 1, Undone(Dispatched(tasks)))
  BY <1>i, <1>4, <1>6, ForemanLeads
<1>8. orders' \in [Units -> UnitOrder] /\ blocked' = OverRequested(orders')
  <2>1. result.orders \in [Units -> UnitOrder]
    BY <1>7 DEF Led, Dispatch
  <2>2. orders' = result.orders /\ blocked' = OverRequested(result.orders)
    BY <1>4
  <2> QED BY <2>1, <2>2
<1>9. /\ queue' \in Seq(Bids) /\ Len(queue') <= MaxMarketOrders /\ Spares(queue')
      /\ remaining_sells' \in [Products -> Nat] /\ offered' \in [Products -> Int]
      /\ \A i \in Products : remaining_sells'[i] + offered'[i] = remaining[i] + onSale[i]
  BY <1>i, <1>4, <1>5, QueuedIs
<1>10. \A t \in OnTiles(tasks) : t.tile \in Board
  BY <1>5 DEF OnTiles, Chore, Errand
<1>11. debt' = IF LastHour THEN OnTiles(tasks) \ result.done ELSE oldDebt
  BY <1>4 DEF Remaining
<1>12. \A t \in debt' : t.tile \in Board
  BY <1>10, <1>11
<1>13. ASSUME LastHour, NEW t \in MechanicalTasks, t.kind \in {"WATER", "FEED"}, t \notin debt'
       PROVE  \E u \in Units : u <= hand_count /\ Interacts(u, t) /\ orders'[u] = InteractionOp(t)
  <2>1. t \in tasks /\ (Chore(t) \/ Errand(t))
    BY <1>5, <1>13
  <2>2. t.tile # Nowhere
    <3>1. Chore(t)
      BY <2>1, <1>13 DEF Errand
    <3> QED BY <3>1, BoardTiles DEF Chore
  <2>3. t \in result.done
    BY <2>1, <2>2, <1>11, <1>13 DEF OnTiles
  <2>4. PICK u \in Units : /\ u < hand_count + 1 /\ Interacts(u, t)
                           /\ result.orders[u] = InteractionOp(t)
    BY <2>3, <1>7 DEF Led
  <2>5. u <= hand_count
    BY <2>4, <1>i DEF Units, ClockOK
  <2>6. orders'[u] = InteractionOp(t)
    BY <2>4, <1>4
  <2> QED BY <2>4, <2>5, <2>6
<1>14. Owed
  BY <1>13 DEF Owed
<1> QED BY <1>4, <1>8, <1>9, <1>12, <1>14 DEF TurnOK

-----------------------------------------------------------------------------
(* THE AGENT *)

LEMMA HeadsCounted ==
  ASSUME ClockOK, FieldOK
  PROVE  /\ \A a : HeadCount(a) \in Nat
         /\ \A c : Cardinality({p \in Plants : field[p].crop = c}) \in Nat
<1>1. Plants \subseteq Board /\ Herd \subseteq Board
  BY DEF Plants, Herd
<1>2. \A S : S \subseteq Board => Cardinality(S) \in Nat
  BY FiniteKinds, FS_Subset, FS_CardinalityType
<1>3. ASSUME NEW a PROVE HeadCount(a) \in Nat
  <2>1. {p \in Herd : field[p].animal = a} \subseteq Board
    BY <1>1
  <2> QED BY <2>1, <1>2 DEF HeadCount
<1>4. ASSUME NEW c PROVE Cardinality({p \in Plants : field[p].crop = c}) \in Nat
  <2>1. {p \in Plants : field[p].crop = c} \subseteq Board
    BY <1>1
  <2> QED BY <2>1, <1>2
<1> QED BY <1>3, <1>4

LEMMA LandCounted ==
  Cardinality({q \in Quadrants : unlocked[q]}) \in 0..4
<1> DEFINE S == {q \in Quadrants : unlocked[q]}
<1>1. S \subseteq Quadrants
  OBVIOUS
<1> HIDE DEF S
<1>2. IsFiniteSet(Quadrants) /\ Cardinality(Quadrants) = 4
  <2>1. 0 \in Int /\ 3 \in Int
    OBVIOUS
  <2>2. IsFiniteSet(0..3) /\ Cardinality(0..3) = IF 0 > 3 THEN 0 ELSE 3 - 0 + 1
    BY <2>1, FS_Interval
  <2> QED BY <2>2 DEF Quadrants
<1>3. IsFiniteSet(S) /\ Cardinality(S) <= 4 /\ Cardinality(S) \in Nat
  BY <1>1, <1>2, FS_Subset, FS_CardinalityType
<1> QED BY <1>3 DEF S

\* A projection of a plan is a plan; what it sells is as planned.
LEMMA ProjectedIs ==
  ASSUME ClockOK, FieldOK, NEW plan \in DailyPlan
  PROVE  Projected(plan) \in DailyPlan /\ Projected(plan).sells = plan.sells
<1> DEFINE grown(c) == Cardinality({p \in Plants : field[p].crop = c})
           owned == Cardinality({q \in Quadrants : unlocked[q]})
           animals == [a \in Animals |-> Larger(HeadCount(a), plan.animals[a])]
           land == Larger(owned, plan.land)
           fert == [c \in Crops |-> Min({plan.fertilizer[c], Larger(grown(c), plan.crops[c])})]
           care == [a \in Animals |-> Min({plan.care[a], Larger(HeadCount(a), plan.animals[a])})]
<1>1. Projected(plan) = [plan EXCEPT !.animals = animals, !.land = land,
                                     !.fertilizer = fert, !.care = care]
  BY DEF Projected
<1>p. /\ plan.crops \in [Crops -> Nat] /\ plan.animals \in [Animals -> Nat] /\ plan.land \in 1..4
      /\ plan.care \in [Animals -> Nat] /\ plan.fertilizer \in [Crops -> Nat]
  BY DEF DailyPlan
<1>t. \A m, n \in Nat : Larger(m, n) \in Nat /\ Min({m, n}) \in Nat
  BY TwoNumbers
<1>h. \A a : HeadCount(a) \in Nat
  BY HeadsCounted
<1>g. \A c : grown(c) \in Nat
  BY HeadsCounted
<1>2. animals \in [Animals -> Nat]
  BY <1>p, <1>t, <1>h
<1>3. land \in 1..4
  <2>1. owned \in 0..4
    BY LandCounted
  <2>2. plan.land \in 1..4
    BY <1>p
  <2>4. owned \in Int /\ plan.land \in Int
    BY <2>1, <2>2
  <2> HIDE DEF owned
  <2>3. Larger(owned, plan.land) = IF owned >= plan.land THEN owned ELSE plan.land
    BY <2>4, TwoNumbers
  <2> QED BY <2>1, <2>2, <2>3
<1> HIDE DEF grown
<1>4. fert \in [Crops -> Nat]
  <2>1. ASSUME NEW c \in Crops
        PROVE  Min({plan.fertilizer[c], Larger(grown(c), plan.crops[c])}) \in Nat
    <3>1. plan.fertilizer[c] \in Nat /\ Larger(grown(c), plan.crops[c]) \in Nat
      BY <1>p, <1>t, <1>g
    <3> QED BY <3>1, <1>t
  <2> QED BY <2>1
<1>5. care \in [Animals -> Nat]
  <2>1. ASSUME NEW a \in Animals
        PROVE  Min({plan.care[a], Larger(HeadCount(a), plan.animals[a])}) \in Nat
    <3>1. plan.care[a] \in Nat /\ Larger(HeadCount(a), plan.animals[a]) \in Nat
      BY <1>p, <1>t, <1>h
    <3> QED BY <3>1, <1>t
  <2> QED BY <2>1
<1> HIDE DEF animals, land, fert, care
<1> QED BY <1>1, <1>2, <1>3, <1>4, <1>5 DEF DailyPlan

LEMMA PlanIsPlan == ASSUME NEW plan \in DailyPlan PROVE PlanOK(plan)
BY DEF DailyPlan, PlanOK

LEMMA BinIs == ASSUME ClockOK PROVE Bin \in Bins
<1>1. hour \in Nat /\ hour <= TurnsPerDay - 1 /\ TurnsPerDay - 1 \in Nat /\ BinHours \in Nat \ {0}
  BY FieldAssumption, ExecutorAssumption DEF ClockOK
<1>2. ASSUME NEW h \in Nat, NEW m \in Nat, NEW d \in Nat \ {0}, h <= m
      PROVE  (h \div d) \in 0..(m \div d)
  <2>1. h = d * (h \div d) + (h % d) /\ h % d \in 0..(d - 1) /\ h \div d \in Int
    BY <1>2
  <2>2. m = d * (m \div d) + (m % d) /\ m % d \in 0..(d - 1) /\ m \div d \in Int
    BY <1>2
  <2>3. ASSUME NEW x \in Int, NEW y \in Int, NEW r \in 0..(d - 1), NEW s \in 0..(d - 1),
               h = d * x + r, m = d * y + s
        PROVE  x \in 0..y
    <3>1. x >= 0
      <4>1. SUFFICES ASSUME x <= -1 PROVE FALSE
        OBVIOUS
      <4>2. d * x <= -d
        BY <4>1
      <4> QED BY <4>2, <2>3
    <3>2. x <= y
      <4>1. SUFFICES ASSUME x >= y + 1 PROVE FALSE
        OBVIOUS
      <4>2. d * x >= d * (y + 1)
        BY <4>1
      <4>3. d * (y + 1) = d * y + d
        OBVIOUS
      <4> QED BY <4>2, <4>3, <2>3, <1>2
    <3> QED BY <3>1, <3>2
  <2> QED BY <2>1, <2>2, <2>3
<1> QED BY <1>1, <1>2 DEF Bin, Bins

Seen == [day: Nat \cup {None}, hires: 0..MaxHands, excused: BOOLEAN, newcomers: SUBSET Board]

AgentOK ==
  /\ agent_day \in Nat \cup {None}
  /\ feasible \in DailyPlan
  /\ bin_anchor \in Bins \cup {None}
  /\ remaining_sells \in [Products -> Nat] /\ offered \in [Products -> Int]
  /\ max_hires_today \in 0..MaxHands /\ previous_execution \in 0..MaxHands
  /\ suppressed \in BOOLEAN /\ raised = FALSE
  /\ queue \in Seq(Bids) /\ Len(queue) <= MaxMarketOrders
  /\ \A t \in debt : t.tile \in Board
  /\ SellLedger
  /\ seen \in Seen

AgentInv == Inv /\ AgentOK

LEMMA AgentSound == AgentInv => ExecutorSound
<1> SUFFICES ASSUME AgentInv PROVE ExecutorSound
  OBVIOUS
<1>1. TypeOK
  BY InvTypeOK DEF AgentInv
<1>2. ASSUME NEW k \in 1..Len(queue) PROVE queue[k].n > 0
  <2>1. queue[k] \in Bids
    BY DEF AgentInv, AgentOK
  <2> QED BY <2>1 DEF Bids
<1>3. ExecutorTypeOK
  BY <1>1, <1>2 DEF AgentInv, AgentOK, ExecutorTypeOK
<1> QED BY <1>3 DEF AgentInv, AgentOK, NeverRaises, ExecutorSound

\* Yesterday's hires and today's.
LEMMA HiresSeen ==
  ASSUME ClockOK, NEW m \in 0..MaxHands PROVE Larger(m, hand_count) \in 0..MaxHands
<1>1. m \in Int /\ hand_count \in Int /\ hand_count \in 0..MaxHands
  BY StoresAssumption DEF ClockOK
<1>2. Larger(m, hand_count) = IF m >= hand_count THEN m ELSE hand_count
  BY <1>1, TwoNumbers
<1> QED BY <1>1, <1>2

LEMMA ObservedIs ==
  ASSUME ClockOK, AgentOK, orders' \in [Units -> UnitOrder], NEW failed \in BOOLEAN,
         Observed(failed)
  PROVE  seen' \in Seen
<1> DEFINE today == seen.day = day
           newcomers == {position[u] : u \in {u \in Units : orders'[u].op \in {"PLANT", "PLACE"}}}
           hires == IF today THEN Larger(seen.hires, hand_count) ELSE hand_count
           excused == failed \/ (IF today THEN seen.excused ELSE FeedShortage > 0)
<1>1. seen' = [day |-> day, hires |-> hires, excused |-> excused, newcomers |-> newcomers]
  BY DEF Observed
<1>2. newcomers \in SUBSET Board
  BY DEF ClockOK
<1>3. hires \in 0..MaxHands
  BY HiresSeen DEF ClockOK, AgentOK, Seen
<1>4. excused \in BOOLEAN
  BY DEF AgentOK, Seen
<1> HIDE DEF newcomers, hires, excused
<1> QED BY <1>1, <1>2, <1>3, <1>4 DEF Seen, ClockOK

-----------------------------------------------------------------------------
(* The steps. *)

\* What a call orders is a turn the farm can play.
LEMMA CallPlays ==
  ASSUME Called, orders' \in [Units -> UnitOrder], blocked' = OverRequested(orders')
  PROVE  Plays
<1>1. Submitted(orders')
  BY DEF Called, Submitted
<1>2. PICK o \in [Units -> UnitOrder] : o = orders'
  OBVIOUS
<1>3. Submitted(o)
  BY <1>1, <1>2
<1>4. Submits
  BY <1>3 DEF Submits
<1> QED BY <1>4 DEF Plays

LEMMA FarmPlaysOn == ASSUME FarmPlays PROVE [Plays]_vars
<1>1. CASE slot < Len(queue) /\ Filled(queue[slot + 1])
  BY <1>1 DEF Filled, Plays, MarketServes
<1>2. CASE SubmitWhenDone
  BY <1>2 DEF SubmitWhenDone
<1>3. CASE UnitActs \/ UnitsDone \/ PassSlot \/ EndTurn \/ Dusk \/ StoreCarried \/ Dawn
  BY <1>3 DEF Plays, MarketServes
<1> QED BY <1>1, <1>2, <1>3 DEF FarmPlays

\* What a bin has for sale, a map of products to numbers.
LEMMA BinSells ==
  ASSUME NEW plan \in DailyPlan, NEW b \in Bins PROVE plan.sells[b] \in [Products -> Nat]
BY DEF DailyPlan

LEMMA NothingIs == Nothing \in [Products -> Int] /\ \A i \in Products : Nothing[i] = 0
BY DEF Nothing

\* What a call leaves behind, whoever answers it.
Left(plan, b) ==
  /\ queue' \in Seq(Bids) /\ Len(queue') <= MaxMarketOrders
  /\ remaining_sells' \in [Products -> Nat] /\ offered' \in [Products -> Int]
  /\ \A i \in Products : remaining_sells'[i] + offered'[i] = plan.sells[b][i]
  /\ \A t \in debt' : t.tile \in Board

LEMMA SameDayIs == ASSUME AgentInv, SameDay PROVE Plays /\ Owed /\ AgentOK' /\ Spares(queue')
<1>i. Inv /\ AgentOK /\ ClockOK
  BY DEF AgentInv, Inv
<1> DEFINE same == bin_anchor = Bin
           remaining == IF same THEN remaining_sells ELSE feasible.sells[Bin]
           onSale == IF same THEN offered ELSE Nothing
<1>1. Bin \in Bins /\ Bin # None
  BY <1>i, BinIs, ExecutorAssumption, FieldAssumption DEF Bins
<1>2. remaining \in [Products -> Nat] /\ onSale \in [Products -> Int]
  BY <1>i, <1>1, BinSells, NothingIs DEF AgentOK
<1>3. \A i \in Products : remaining[i] + onSale[i] = feasible.sells[Bin][i]
  <2>1. CASE same
    BY <2>1, <1>1, <1>i DEF AgentOK, SellLedger
  <2>2. CASE ~same
    <3>1. feasible.sells[Bin] \in [Products -> Nat]
      BY <1>i, <1>1, BinSells DEF AgentOK
    <3>2. remaining = feasible.sells[Bin] /\ onSale = Nothing
      BY <2>2
    <3> QED BY <3>1, <3>2, NothingIs
  <2> QED BY <2>1, <2>2
<1>4. Turn(feasible, suppressed, remaining, onSale, debt)
  BY DEF SameDay
<1> HIDE DEF remaining, onSale, same
<1>5. PlanOK(feasible)
  BY <1>i, PlanIsPlan DEF AgentOK
<1>6. TurnOK(remaining, onSale) /\ raised' = raised /\ Owed
  BY <1>i, <1>2, <1>4, <1>5, TurnIs DEF AgentOK
<1>7. Plays
  BY <1>6, CallPlays DEF TurnOK, SameDay
<1>8. seen' \in Seen
  BY <1>i, <1>6, ObservedIs DEF SameDay, TurnOK
<1>9. Left(feasible, Bin)
  BY <1>3, <1>6 DEF TurnOK, Left
<1>10. bin_anchor' = Bin /\ feasible' = feasible
  BY DEF SameDay
<1>11. SellLedger'
  BY <1>9, <1>10 DEF Left, SellLedger
<1>12. max_hires_today' \in 0..MaxHands
  BY <1>i, HiresSeen DEF SameDay, AgentOK
<1>13. /\ agent_day' = agent_day /\ previous_execution' = previous_execution
       /\ suppressed' = suppressed /\ raised' = raised
  BY <1>6 DEF SameDay
<1>14. AgentOK'
  BY <1>i, <1>1, <1>8, <1>9, <1>10, <1>11, <1>12, <1>13 DEF AgentOK, Left
<1> QED BY <1>6, <1>7, <1>14 DEF TurnOK

LEMMA NewDayIs == ASSUME AgentInv, NewDay PROVE Plays /\ Owed /\ AgentOK' /\ Spares(queue')
<1>i. Inv /\ AgentOK /\ ClockOK /\ FieldOK
  BY DEF AgentInv, Inv
<1>1. Bin \in Bins /\ Bin # None
  BY <1>i, BinIs, ExecutorAssumption, FieldAssumption DEF Bins
<1>2. PICK requested \in Plans :
         /\ feasible' = Projected(requested)
         /\ Turn(feasible', suppressed', requested.sells[Bin], Nothing, {})
  BY DEF NewDay
<1>3. requested \in DailyPlan
  BY ExecutorAssumption
<1>4. PICK plan, holdBack : plan = feasible' /\ holdBack = suppressed'
  OBVIOUS
<1>5. plan \in DailyPlan /\ plan.sells = requested.sells
  BY <1>i, <1>2, <1>3, <1>4, ProjectedIs
<1>6. Turn(plan, holdBack, requested.sells[Bin], Nothing, {})
  BY <1>2, <1>4
<1> DEFINE remaining == requested.sells[Bin]
<1>7. remaining \in [Products -> Nat]
  BY <1>1, <1>3, BinSells
<1> HIDE DEF remaining
<1>8. TurnOK(remaining, Nothing) /\ raised' = raised /\ Owed
  <2>1. PlanOK(plan)
    BY <1>5, PlanIsPlan
  <2>2. Turn(plan, holdBack, remaining, Nothing, {})
    BY <1>6 DEF remaining
  <2> QED BY <1>i, <1>7, <2>1, <2>2, TurnIs, NothingIs
<1>9. Plays
  BY <1>8, CallPlays DEF TurnOK, NewDay
<1>10. seen' \in Seen
  BY <1>i, <1>8, ObservedIs DEF NewDay, TurnOK
<1>11. Left(plan, Bin)
  <2>1. plan.sells[Bin] = remaining
    BY <1>5 DEF remaining
  <2>2. \A i \in Products : remaining[i] + Nothing[i] = remaining[i]
    BY <1>7, NothingIs
  <2> QED BY <1>8, <2>1, <2>2 DEF TurnOK, Left
<1>12. bin_anchor' = Bin /\ feasible' = plan /\ agent_day' = day
  BY <1>4 DEF NewDay
<1>13. SellLedger'
  BY <1>11, <1>12 DEF Left, SellLedger
<1>14. /\ max_hires_today' \in 0..MaxHands /\ previous_execution' \in 0..MaxHands
       /\ suppressed' \in BOOLEAN
  BY <1>i DEF NewDay, DayClosed, AgentOK, ClockOK
<1>15. agent_day' \in Nat
  BY <1>i, <1>12 DEF ClockOK
<1>16. AgentOK'
  BY <1>i, <1>1, <1>5, <1>8, <1>10, <1>11, <1>12, <1>13, <1>14, <1>15 DEF AgentOK, Left
<1> QED BY <1>8, <1>9, <1>16 DEF TurnOK

LEMMA FailsIs == ASSUME AgentInv, ManagerFails PROVE Plays /\ AgentOK' /\ Spares(queue')
<1>i. Inv /\ AgentOK /\ ClockOK
  BY DEF AgentInv, Inv
<1>1. PassAll(remaining_sells, offered, debt)
  BY DEF ManagerFails
<1>2. TurnOK(remaining_sells, offered)
  BY <1>i, <1>1, PassedIs DEF AgentOK
<1>3. Plays
  BY <1>2, CallPlays DEF TurnOK, ManagerFails
<1>4. seen' \in Seen
  BY <1>i, <1>2, ObservedIs DEF ManagerFails, TurnOK
<1>5. /\ remaining_sells' = remaining_sells /\ offered' = offered /\ debt' = debt
      /\ feasible' = feasible /\ bin_anchor' = bin_anchor /\ agent_day' = agent_day
      /\ raised' = raised
  BY <1>1 DEF PassAll, ManagerFails
<1>6. SellLedger'
  BY <1>i, <1>5 DEF AgentOK, SellLedger
<1>7. /\ max_hires_today' \in 0..MaxHands /\ previous_execution' \in 0..MaxHands
      /\ suppressed' \in BOOLEAN
  BY <1>i DEF ManagerFails, DayClosed, AgentOK, ClockOK
<1>8. queue' \in Seq(Bids) /\ Len(queue') <= MaxMarketOrders
  BY <1>2 DEF TurnOK
<1>9. AgentOK'
  BY <1>i, <1>4, <1>5, <1>6, <1>7, <1>8 DEF AgentOK
<1> QED BY <1>2, <1>3, <1>9 DEF TurnOK

LEMMA MemoryKept == ASSUME AgentOK, UNCHANGED memory PROVE AgentOK'
<1>1. /\ agent_day' = agent_day /\ feasible' = feasible /\ bin_anchor' = bin_anchor
      /\ remaining_sells' = remaining_sells /\ max_hires_today' = max_hires_today
      /\ previous_execution' = previous_execution /\ suppressed' = suppressed
      /\ raised' = raised /\ debt' = debt /\ queue' = queue /\ offered' = offered
      /\ seen' = seen
  BY DEF memory
<1>2. SellLedger'
  BY <1>1 DEF AgentOK, SellLedger
<1> QED BY <1>1, <1>2 DEF AgentOK

LEMMA InvStep == ASSUME Inv, [Plays]_vars PROVE Inv'
BY ClockStep, FieldStep, GoodsStep, IdleStep, SeedsStep DEF Inv

LEMMA AgentStep == ASSUME AgentInv, [ExecutorNext]_all PROVE AgentInv' /\ [Plays]_vars
<1>1. CASE SameDay
  BY <1>1, SameDayIs, InvStep DEF AgentInv
<1>2. CASE NewDay
  BY <1>2, NewDayIs, InvStep DEF AgentInv
<1>3. CASE ManagerFails
  BY <1>3, FailsIs, InvStep DEF AgentInv
<1>4. CASE FarmPlays
  <2>1. [Plays]_vars
    BY <1>4, FarmPlaysOn
  <2>2. UNCHANGED memory
    BY <1>4 DEF FarmPlays
  <2> QED BY <2>1, <2>2, InvStep, MemoryKept DEF AgentInv
<1>5. CASE UNCHANGED all
  <2>1. UNCHANGED vars /\ UNCHANGED memory
    BY <1>5 DEF all
  <2> QED BY <2>1, InvStep, MemoryKept DEF AgentInv
<1> QED BY <1>1, <1>2, <1>3, <1>4, <1>5 DEF ExecutorNext

-----------------------------------------------------------------------------
(* The start. *)

LEMMA FarmStarts == ExecutorInit => Inv
<1> SUFFICES ASSUME ExecutorInit PROVE Inv
  OBVIOUS
<1>1. PICK start \in Starts : /\ field = start.field /\ unlocked = start.unlocked
                              /\ seeds = start.seeds /\ shed = start.shed
  BY DEF ExecutorInit
<1>2. Farmland(start)
  BY ExecutorAssumption
<1>3. ClockOK
  <2>1. position \in [Units -> Board]
    BY BoardFacts DEF ExecutorInit
  <2>2. orders \in [Units -> UnitOrder]
    BY PassIsOrder DEF ExecutorInit
  <2>3. seeds \in [Crops -> Nat] /\ unlocked \in [Quadrants -> BOOLEAN]
    BY <1>1, <1>2 DEF Farmland
  <2>4. /\ hand_count \in 0..MaxHands /\ next \in 0..(MaxHands + 1)
        /\ slot \in 0..MaxMarketOrders
    BY StoresAssumption, FarmAssumption DEF ExecutorInit
  <2>5. day \in Nat /\ hour \in 0..(TurnsPerDay - 1)
    BY FieldAssumption DEF ExecutorInit
  <2>6. /\ phase \in {"agent", "units", "market", "night"} /\ phase # "market"
        /\ done \in BOOLEAN /\ blocked \in SUBSET Crops
    BY DEF ExecutorInit
  <2> QED BY <2>1, <2>2, <2>3, <2>4, <2>5, <2>6 DEF ClockOK
<1>4. FieldOK
  BY <1>1, <1>2 DEF Farmland, FieldOK, TilesOneUse, LockedLandBare
<1>5. ShedOK
  <2>1. shed \in [Items -> 0..ShedCapacity] /\ Cardinality(Places(shed)) <= ShedCapacity
    BY <1>1, <1>2 DEF Farmland
  <2>2. shed_used = Cardinality(Places(shed))
    BY DEF ExecutorInit
  <2>3. shed \in [Items -> Nat]
    BY <2>1
  <2>4. Cardinality(Places(shed)) \in Nat
    BY <2>3, PlacesFinite
  <2> QED BY <2>1, <2>2, <2>4, StoresAssumption DEF ShedOK, ShedAccounted
<1>6. CarryOK
  <2>1. /\ inventory = [u \in Units |-> [i \in Items |-> 0]]
        /\ item_order = [u \in Units |-> [i \in Items |-> 0]] /\ item_order_seq = 0
    BY DEF ExecutorInit
  <2> QED BY <2>1 DEF CarryOK, StampsInOrder
<1>7. IdleOK
  BY DEF ExecutorInit, IdleOK, IdleHandsEmpty, EmptyHanded, Carried
<1>8. SeedsReserved
  BY DEF ExecutorInit, SeedsReserved
<1> QED BY <1>3, <1>4, <1>5, <1>6, <1>7, <1>8 DEF Inv

LEMMA NoPlanIsPlan == NoPlan \in DailyPlan
<1>1. Nothing \in [Products -> Nat]
  BY DEF Nothing
<1>2. 1 \in 1..4
  OBVIOUS
<1> QED BY <1>1, <1>2 DEF NoPlan, DailyPlan

LEMMA AgentStarts == ExecutorInit => AgentInv
<1> SUFFICES ASSUME ExecutorInit PROVE AgentInv
  OBVIOUS
<1>1. feasible \in DailyPlan
  BY NoPlanIsPlan DEF ExecutorInit
<1>2. remaining_sells \in [Products -> Nat] /\ offered \in [Products -> Int]
  BY DEF ExecutorInit, Nothing
<1>3. queue \in Seq(Bids) /\ Len(queue) <= MaxMarketOrders
  BY FarmAssumption DEF ExecutorInit
<1>4. 0 \in 0..MaxHands
  BY StoresAssumption
<1>5. seen \in Seen
  BY <1>4 DEF ExecutorInit, Seen
<1>6. SellLedger
  BY DEF ExecutorInit, SellLedger
<1>7. AgentOK
  BY <1>1, <1>2, <1>3, <1>4, <1>5, <1>6 DEF ExecutorInit, AgentOK
<1> QED BY <1>7, FarmStarts DEF AgentInv

LEMMA AgentHolds == ExecutorSpec => []AgentInv
<1>1. AgentInv /\ [ExecutorNext]_all => AgentInv'
  BY AgentStep
<1> QED BY <1>1, AgentStarts, PTL DEF ExecutorSpec

\* The executor keeps its types and its ledger of sales (what is left of a bin's plan and
\* what was put on sale add up to it, whatever the queue cut off, the manager did or the
\* day brought), and no plan makes two of its tasks share a key, so that a turn never
\* raises for any other reason than its manager (ExecutorSound; agent.py, tasks.py).
THEOREM ExecutorHolds == ExecutorSpec => []ExecutorSound
BY AgentHolds, AgentSound, PTL

\* The farm under the executor is a farm: whatever the agent orders, its goods, its land,
\* its seeds and its hands are accounted for as the farm's own theorem says.
THEOREM ExecutorKeepsFarm == ExecutorSpec => []FarmOK
<1>1. AgentInv => FarmOK
  <2>1. Inv => TypeOK
    BY InvTypeOK
  <2> QED BY <2>1 DEF AgentInv, Inv, FarmOK, ShedOK, CarryOK, FieldOK, IdleOK
<1> QED BY <1>1, AgentHolds, PTL

-----------------------------------------------------------------------------
(* YESTERDAY'S HIRES *)

\* The hires the agent counts are those its observations showed.  As long as a day has no
\* plan nobody is hired in it: a failing turn orders nothing.
Memoir ==
  /\ max_hires_today = seen.hires
  /\ agent_day # None => agent_day <= day
  /\ seen.day # None => seen.day <= day
  /\ agent_day = day => seen.day = day
  /\ agent_day # day => /\ hand_count = 0
                        /\ phase # "agent" => queue = <<>>
                        /\ seen.day = day => seen.hires = 0

LEMMA MemoirStarts == ExecutorInit => Memoir
BY ExecutorAssumption DEF ExecutorInit, Memoir

LEMMA ObservedHires ==
  ASSUME Observed(FALSE) \/ Observed(TRUE)
  PROVE  /\ seen'.day = day
         /\ seen'.hires = IF seen.day = day THEN Larger(seen.hires, hand_count) ELSE hand_count
BY DEF Observed

LEMMA MemoirCalled ==
  ASSUME AgentInv, Memoir, SameDay \/ NewDay \/ ManagerFails PROVE Memoir'
<1>i. /\ day \in Nat /\ agent_day \in Nat \cup {None} /\ seen.day \in Nat \cup {None}
      /\ None \notin Nat /\ hand_count \in Int
  BY ExecutorAssumption DEF AgentInv, Inv, ClockOK, AgentOK, Seen
<1>0. Larger(0, 0) = 0
  <2>1. 0 \in Int
    OBVIOUS
  <2>2. Larger(0, 0) = IF 0 >= 0 THEN 0 ELSE 0
    BY <2>1, TwoNumbers
  <2> QED BY <2>2
<1>1. CASE SameDay
  <2>1. agent_day' = day /\ day' = day /\ agent_day = day
    BY <1>1 DEF SameDay, Called
  <2>2. seen'.day = day /\ seen'.hires = Larger(seen.hires, hand_count)
    BY <1>1, <2>1, ObservedHires DEF SameDay, Memoir
  <2>3. max_hires_today' = Larger(seen.hires, hand_count)
    BY <1>1 DEF SameDay, Memoir
  <2> QED BY <1>i, <2>1, <2>2, <2>3 DEF Memoir
<1>2. CASE NewDay
  <2>1. agent_day' = day /\ day' = day /\ agent_day # day /\ max_hires_today' = hand_count
    BY <1>2 DEF NewDay, DayClosed, Called
  <2>2. hand_count = 0 /\ (seen.day = day => seen.hires = 0)
    BY <2>1 DEF Memoir
  <2>3. seen'.day = day /\ seen'.hires = 0
    BY <1>2, <1>0, <2>2, ObservedHires DEF NewDay
  <2> QED BY <1>i, <2>1, <2>2, <2>3 DEF Memoir
<1>3. CASE ManagerFails
  <2>1. agent_day' = agent_day /\ day' = day /\ agent_day # day /\ max_hires_today' = hand_count
    BY <1>3 DEF ManagerFails, DayClosed, Called
  <2>2. hand_count = 0 /\ (seen.day = day => seen.hires = 0)
    BY <2>1 DEF Memoir
  <2>3. seen'.day = day /\ seen'.hires = 0
    BY <1>3, <1>0, <2>2, ObservedHires DEF ManagerFails
  <2>4. queue' = <<>> /\ hand_count' = hand_count
    BY <1>3 DEF ManagerFails, PassAll, Called
  <2> QED BY <1>i, <2>1, <2>2, <2>3, <2>4 DEF Memoir
<1> QED BY <1>1, <1>2, <1>3

LEMMA MemoirPlayed == ASSUME AgentInv, Memoir, FarmPlays PROVE Memoir'
<1>i. /\ day \in Nat /\ agent_day \in Nat \cup {None} /\ seen.day \in Nat \cup {None}
      /\ None \notin Nat /\ slot \in Nat /\ queue \in Seq(Bids)
  BY FarmAssumption, ExecutorAssumption DEF AgentInv, Inv, ClockOK, AgentOK, Seen
<1>m. /\ agent_day' = agent_day /\ max_hires_today' = max_hires_today /\ queue' = queue
      /\ seen' = seen
  BY DEF FarmPlays, memory
<1>1. CASE UnitActs \/ UnitsDone \/ PassSlot \/ EndTurn \/ Dusk \/ StoreCarried \/ SubmitWhenDone
  <2>1. day' = day /\ hand_count' = hand_count /\ (phase = "agent" => phase' = "agent")
    BY <1>1 DEF UnitActs, Skip, Move, Plant, Harvest, Feed, Water, Build, Fertilize, Care,
                CollectFertilizer, Dig, Place, PickUp, Drop, Served, Acts, Serving, turn,
                UnitsDone, PassSlot, EndTurn, Dusk, StoreCarried, SubmitWhenDone, vars, Closing
  <2> QED BY <1>m, <2>1 DEF Memoir
<1>2. CASE slot < Len(queue) /\ Filled(queue[slot + 1])
  <2>1. phase = "market" /\ day' = day
    BY <1>2 DEF Filled, BuySeed, BuyGoods, Sell, Hire, BuyLand, Trades
  <2>2. agent_day = day
    <3>1. SUFFICES ASSUME agent_day # day PROVE FALSE
      OBVIOUS
    <3>2. queue = <<>>
      BY <2>1, <3>1 DEF Memoir
    <3>3. Len(queue) = 0
      BY <3>2
    <3> QED BY <1>2, <1>i, <3>3
  <2> QED BY <1>m, <2>1, <2>2 DEF Memoir
<1>3. CASE Dawn
  <2>1. day' = day + 1 /\ hand_count' = 0 /\ phase' = "agent"
    BY <1>3 DEF Dawn
  <2>2. agent_day' # day' /\ seen'.day # day'
    BY <1>i, <1>m, <2>1 DEF Memoir
  <2> QED BY <1>i, <1>m, <2>1, <2>2 DEF Memoir
<1> QED BY <1>1, <1>2, <1>3 DEF FarmPlays

LEMMA MemoirStep ==
  ASSUME AgentInv, Memoir, [ExecutorNext]_all PROVE Memoir'
<1>1. CASE UNCHANGED all
  BY <1>1 DEF all, memory, vars, turn, Memoir
<1> QED BY <1>1, MemoirCalled, MemoirPlayed DEF ExecutorNext

LEMMA FeedbackTold ==
  ASSUME AgentInv, Memoir
  PROVE  DayClosed /\ phase = "agent" /\ agent_day # None /\ seen.day # day
             => previous_execution' = seen.hires
BY DEF DayClosed, Memoir

\* On the first call of a day the manager is told how many hands were seen the day
\* before, also after turns in which it failed (FeedbackIsYesterdays; agent.py, _new_day
\* and _max_hires_today).
THEOREM FeedbackHolds == ExecutorSpec => FeedbackIsYesterdays
<1>1. ExecutorInit => AgentInv /\ Memoir
  BY AgentStarts, MemoirStarts
<1>2. AgentInv /\ Memoir /\ [ExecutorNext]_all => AgentInv' /\ Memoir'
  BY AgentStep, MemoirStep
<1>3. AgentInv /\ Memoir /\ [ExecutorNext]_all
        => [DayClosed /\ phase = "agent" /\ agent_day # None /\ seen.day # day
              => previous_execution' = seen.hires]_all
  BY FeedbackTold
<1> QED BY <1>1, <1>2, <1>3, PTL DEF ExecutorSpec, FeedbackIsYesterdays

-----------------------------------------------------------------------------
(* WHAT THE NIGHT TAKES *)

Dry(t) == t.crop # None /\ ~t.watered /\ t.unwatered >= 1
Starved(t) == t.animal # None /\ ~t.fed /\ t.unfed >= 1

\* Somebody hired stands at p, is still to act and will water or feed there.
Awaits(p, op) ==
  /\ phase = "units"
  /\ \E u \in Units : /\ next <= u /\ u <= hand_count /\ position[u] = p /\ orders[u].op = op
                      /\ op = "FEED" => inventory[u][Wheat] > 0
Tended(p) == /\ Dry(field[p]) => Listed(p) \/ Awaits(p, "WATER")
             /\ Starved(field[p]) => Listed(p) \/ Awaits(p, "FEED")

\* In the last turn of a day everything that would be lost is on the list or about to be
\* seen to; and whoever is still to plant stands where the observation put the newcomers.
Watched ==
  /\ phase = "units" => \A u \in Units : u >= next /\ orders[u].op = "PLANT"
                                            => position[u] \in seen.newcomers
  /\ agent_day = day /\ LastHour /\ phase \in {"units", "market"} =>
        \A p \in Board \ seen.newcomers : Tended(p)

\* What a unit does leaves the other units where and as they are.
LEMMA ActFrame ==
  ASSUME ClockOK, UnitActs
  PROVE  /\ Serving /\ next \in Units /\ next' \in {next, next + 1}
         /\ UNCHANGED <<orders, hand_count, phase, day, hour, unlocked>>
         /\ \A u \in Units \ {next} : position'[u] = position[u]
<1>1. /\ Serving /\ next' \in {next, next + 1}
      /\ UNCHANGED <<orders, hand_count, phase, day, hour, unlocked>>
  BY DEF UnitActs, Skip, Move, Plant, Harvest, Feed, Water, Build, Fertilize, Care,
         CollectFertilizer, Dig, Place, PickUp, Drop, Served, Acts, turn
<1>2. next \in Units
  BY <1>1, ServingFacts
<1>3. CASE Move
  BY <1>1, <1>2, <1>3 DEF Move, ClockOK
<1>4. CASE ~Move
  <2>1. position' = position
    BY <1>4 DEF UnitActs, Skip, Plant, Harvest, Feed, Water, Build, Fertilize, Care,
                CollectFertilizer, Dig, Place, PickUp, Drop
  <2> QED BY <1>1, <1>2, <2>1
<1> QED BY <1>1, <1>2, <1>3, <1>4

\* No work but planting leaves a plant drier or an animal hungrier than it was.
LEMMA WorkSpares ==
  ASSUME NEW t \in Tile, OneUse(t), NEW s, day \in Nat,
         \/ Given(t, s) \/ Reaping(t, s) \/ Digging(t, s) \/ Building(t, s)
         \/ Housing(t, s) \/ Gathering(t, s) \/ Mucking(t, s)
  PROVE  (Dry(s) => Dry(t)) /\ (Starved(s) => Starved(t))
<1> USE DEF Dry, Starved
<1>1. CASE Given(t, s)
  BY <1>1 DEF Given, Watering, CropWatered, Fertilizing, CropFertilized, Feeding, Caring, Tile
<1>2. CASE Building(t, s) \/ Housing(t, s) \/ Gathering(t, s) \/ Mucking(t, s)
  <2>1. CASE Building(t, s)
    BY <2>1 DEF Building, Built, Tile
  <2>2. CASE Housing(t, s)
    <3>1. s.crop = t.crop /\ s.watered = t.watered /\ s.unwatered = t.unwatered /\ s.unfed = 0
      BY <2>2 DEF Housing, AnimalPlaced, Tile
    <3> QED BY <3>1
  <2>3. CASE Gathering(t, s) \/ Mucking(t, s)
    BY <2>3 DEF Gathering, Mucking, Tile
  <2> QED BY <1>2, <2>1, <2>2, <2>3
<1>3. CASE Reaping(t, s)
  <2>1. CASE Ongoing(t.crop)
    BY <1>3, <2>1 DEF Reaping, CropHarvested, Tile
  <2>2. CASE ~Ongoing(t.crop)
    BY <1>3, <2>2 DEF Reaping, CropHarvested, Uprooted, Tile
  <2> QED BY <2>1, <2>2
<1>4. CASE Digging(t, s)
  BY <1>4, DugFields DEF Digging, SameAnimal
<1> QED BY <1>1, <1>2, <1>3, <1>4

LEMMA UnitsSpare ==
  ASSUME ClockOK, FieldOK, UnitActs, ~Plant, NEW p \in Board
  PROVE  /\ Dry(field'[p]) => Dry(field[p])
         /\ Starved(field'[p]) => Starved(field[p])
<1>1. day \in Nat
  BY DEF ClockOK
<1>2. ASSUME NEW s, here \in Board, Becomes(s),
             \/ Given(tile, s) \/ Reaping(tile, s) \/ Digging(tile, s) \/ Building(tile, s)
             \/ Housing(tile, s) \/ Gathering(tile, s) \/ Mucking(tile, s)
      PROVE  /\ Dry(field'[p]) => Dry(field[p])
             /\ Starved(field'[p]) => Starved(field[p])
  <2>1. tile \in Tile /\ OneUse(tile) /\ field \in [Board -> Tile]
    BY <1>2 DEF FieldOK, TilesOneUse, tile
  <2>2. (Dry(s) => Dry(tile)) /\ (Starved(s) => Starved(tile))
    BY <1>1, <1>2, <2>1, WorkSpares
  <2>3. CASE p = here
    <3>1. field'[p] = s
      BY <1>2, <2>1, <2>3 DEF Becomes
    <3> QED BY <2>2, <2>3, <3>1 DEF tile
  <2>4. CASE p # here
    <3>1. field'[p] = field[p]
      BY <1>2, <2>1, <2>4 DEF Becomes
    <3> QED BY <3>1
  <2> QED BY <2>3, <2>4
<1>3. Serving => here \in Board
  BY ServingFacts
<1> USE DEF Given
<1>4. CASE Skip \/ Move \/ PickUp \/ Drop
  <2>1. field' = field
    BY <1>4 DEF Skip, Move, PickUp, Drop
  <2> QED BY <2>1
<1>5. CASE Harvest
  <2>1. Serving /\ (tile.animal = None => tile.crop # None)
    BY <1>5, EffectiveFacts DEF Harvest, Acts, Ripe
  <2>2. \E s : Becomes(s) /\ (Reaping(tile, s) \/ Gathering(tile, s))
    BY <1>5, <2>1 DEF Harvest, Gathering, Reaping
  <2> QED BY <1>2, <1>3, <2>1, <2>2
<1>6. CASE Feed
  <2>1. Serving /\ \E s : Becomes(s) /\ Acts("FEED") /\ Feeding(tile, s)
    BY <1>6, EffectiveFacts DEF Feed, Feeding, Acts
  <2> QED BY <1>2, <1>3, <2>1
<1>7. CASE Water
  <2>1. Serving /\ \E s : Becomes(s) /\ Acts("WATER") /\ Watering(tile, s)
    BY <1>7, EffectiveFacts DEF Water, Watering, Acts
  <2> QED BY <1>2, <1>3, <2>1
<1>8. CASE Build
  <2>1. Serving /\ order.target \in Structures /\ Vacant(tile)
    BY <1>8, EffectiveFacts, ServingFacts, OrderFields DEF Build, Acts
  <2>2. \E s : Becomes(s) /\ Building(tile, s)
    BY <1>8, <2>1 DEF Build, Building
  <2> QED BY <1>2, <1>3, <2>1, <2>2
<1>9. CASE Fertilize
  <2>1. Serving /\ \E s : Becomes(s) /\ Acts("FERTILIZE") /\ Fertilizing(tile, s)
    BY <1>9, EffectiveFacts DEF Fertilize, Fertilizing, Acts
  <2> QED BY <1>2, <1>3, <2>1
<1>10. CASE Care
  <2>1. Serving /\ \E s : Becomes(s) /\ Acts("CARE") /\ Caring(tile, s)
    BY <1>10, EffectiveFacts DEF Care, Caring, Acts
  <2> QED BY <1>2, <1>3, <2>1
<1>11. CASE CollectFertilizer
  <2>1. Serving /\ \E s : Becomes(s) /\ Mucking(tile, s)
    BY <1>11, EffectiveFacts DEF CollectFertilizer, Mucking, Acts
  <2> QED BY <1>2, <1>3, <2>1
<1>12. CASE Dig
  <2>1. Serving /\ \E s : Becomes(s) /\ Digging(tile, s)
    BY <1>12 DEF Dig, Digging, Acts
  <2> QED BY <1>2, <1>3, <2>1
<1>13. CASE Place
  <2>1. CASE Houses
    <3>1. Serving /\ \E s : Becomes(s) /\ Housing(tile, s)
      BY <1>13, <2>1 DEF Place, Houses, Housing, Acts
    <3> QED BY <1>2, <1>3, <3>1
  <2>2. CASE ~Houses
    <3>1. field' = field
      BY <1>13, <2>2 DEF Place
    <3> QED BY <3>1
  <2> QED BY <2>1, <2>2
<1> QED BY <1>4, <1>5, <1>6, <1>7, <1>8, <1>9, <1>10, <1>11, <1>12, <1>13 DEF UnitActs

LEMMA OpenLand ==
  ASSUME ClockOK, FieldOK, Serving, ~Vacant(tile) PROVE open
<1>1. here \in Board
  BY ServingFacts
<1>2. Quadrant(here) \in Quadrants
  BY <1>1 DEF Quadrant, Quadrants
<1> QED BY <1>1, <1>2 DEF FieldOK, LockedLandBare, open, tile, ClockOK

\* Whoever waters a dry plant or feeds a starved animal does so to good effect.
LEMMA WaterHelps ==
  ASSUME ClockOK, FieldOK, UnitActs, order.op = "WATER", Dry(tile) PROVE ~Dry(field'[here])
<1>1. Serving /\ here \in Board
  BY ActFrame, ServingFacts
<1>2. tile \in Tile /\ field \in [Board -> Tile]
  BY <1>1 DEF FieldOK, tile
<1>3. ~Vacant(tile) /\ tile.crop # None
  BY DEF Dry, Vacant
<1>4. Effective
  BY <1>1, <1>3, OpenLand DEF Effective
<1>5. Water
  BY <1>4 DEF UnitActs, Skip, Move, Plant, Harvest, Feed, Build, Fertilize, Care,
              CollectFertilizer, Dig, Place, PickUp, Drop, Acts, Moves
<1>6. field'[here] = CropWatered(tile, day)
  BY <1>1, <1>2, <1>5 DEF Water, Becomes
<1>7. CropWatered(tile, day).watered
  BY <1>2 DEF CropWatered, Tile
<1> QED BY <1>6, <1>7 DEF Dry

LEMMA FeedHelps ==
  ASSUME ClockOK, FieldOK, UnitActs, order.op = "FEED", inventory[next][Wheat] > 0, Starved(tile)
  PROVE  ~Starved(field'[here])
<1>1. Serving /\ here \in Board
  BY ActFrame, ServingFacts
<1>2. tile \in Tile /\ field \in [Board -> Tile] /\ OneUse(tile)
  BY <1>1 DEF FieldOK, TilesOneUse, tile
<1>3. tile.animal # None /\ ~tile.fed
  BY DEF Starved
<1>4. ~Vacant(tile)
  BY <1>2, <1>3, FieldAssumption DEF Vacant, OneUse, Tile
<1>5. Effective
  BY <1>1, <1>3, <1>4, OpenLand DEF Effective, holds
<1>6. Feed
  BY <1>5 DEF UnitActs, Skip, Move, Plant, Harvest, Water, Build, Fertilize, Care,
              CollectFertilizer, Dig, Place, PickUp, Drop, Acts, Moves
<1>7. field'[here] = [tile EXCEPT !.fed = TRUE]
  BY <1>1, <1>2, <1>6 DEF Feed, Becomes
<1>8. field'[here].fed
  BY <1>2, <1>7 DEF Tile
<1> QED BY <1>8 DEF Starved

\* While the others act, somebody who waits to see to a tile goes on waiting.
LEMMA WaitsOn ==
  ASSUME ClockOK, FieldOK, ShedOK, CarryOK, UnitActs, NEW p \in Board,
         NEW op, Awaits(p, op), ~(here = p /\ order.op = op /\ (op = "FEED" => inventory[next][Wheat] > 0))
  PROVE  Awaits(p, op)'
<1>1. PICK u \in Units : /\ next <= u /\ u <= hand_count /\ position[u] = p /\ orders[u].op = op
                         /\ op = "FEED" => inventory[u][Wheat] > 0
  BY DEF Awaits
<1>2. /\ next \in Units /\ next' \in {next, next + 1} /\ phase = "units"
      /\ UNCHANGED <<orders, hand_count, phase>>
      /\ \A v \in Units \ {next} : position'[v] = position[v]
  BY ActFrame DEF Serving
<1>3. u # next
  BY <1>1 DEF here, order
<1>4. next \in Int /\ u \in Int
  BY <1>2 DEF Units
<1>5. next' <= u
  BY <1>1, <1>2, <1>3, <1>4
<1>6. inventory'[u] = inventory[u]
  BY <1>3, GoodsUnits DEF OnlyCarrier
<1>7. position'[u] = position[u]
  BY <1>2, <1>3
<1> QED BY <1>1, <1>2, <1>5, <1>6, <1>7 DEF Awaits

LEMMA TendedServed ==
  ASSUME ClockOK, FieldOK, ShedOK, CarryOK, UnitActs, UNCHANGED memory,
         NEW p \in Board, Tended(p), Plant => here # p
  PROVE  Tended(p)'
<1>1. /\ Dry(field'[p]) => Dry(field[p])
      /\ Starved(field'[p]) => Starved(field[p])
  <2>1. CASE ~Plant
    BY <2>1, UnitsSpare
  <2>2. CASE Plant
    <3>1. here \in Board /\ field \in [Board -> Tile]
      BY ActFrame, ServingFacts DEF FieldOK
    <3>2. field'[p] = field[p]
      BY <2>2, <3>1 DEF Plant, Becomes
    <3> QED BY <3>2
  <2> QED BY <2>1, <2>2
<1>2. Listed(p)' <=> Listed(p)
  BY DEF Listed, memory
<1>3. ASSUME Dry(field'[p]), ~Listed(p) PROVE Awaits(p, "WATER")'
  <2>1. Awaits(p, "WATER")
    BY <1>1, <1>3 DEF Tended
  <2>2. ~(here = p /\ order.op = "WATER")
    BY <1>1, <1>3, WaterHelps DEF tile
  <2> QED BY <2>1, <2>2, WaitsOn
<1>4. ASSUME Starved(field'[p]), ~Listed(p) PROVE Awaits(p, "FEED")'
  <2>1. Awaits(p, "FEED")
    BY <1>1, <1>4 DEF Tended
  <2>2. ~(here = p /\ order.op = "FEED" /\ inventory[next][Wheat] > 0)
    BY <1>1, <1>4, FeedHelps DEF tile
  <2> QED BY <2>1, <2>2, WaitsOn
<1>5. (Dry(field[p]))' <=> Dry(field'[p])
  BY DEF Dry
<1>6. (Starved(field[p]))' <=> Starved(field'[p])
  BY DEF Starved
<1> QED BY <1>2, <1>3, <1>4, <1>5, <1>6 DEF Tended

LEMMA WatchedStarts == ExecutorInit => Watched
BY ExecutorAssumption DEF ExecutorInit, Watched, Pass

\* What the last turn leaves undone is on the list.
LEMMA OwedTends ==
  ASSUME ClockOK, FieldOK, Called, Owed, LastHour, NEW p \in Board PROVE Tended(p)'
<1>1. /\ field' = field /\ phase' = "units" /\ next' = 0 /\ hand_count' = hand_count
      /\ position' = position /\ inventory' = inventory
  BY DEF Called, stores, Farmer
<1>2. ASSUME NEW t \in MechanicalTasks, NEW op \in {"WATER", "FEED"}, t.kind = op, t.tile = p,
             t.item = (IF op = "FEED" THEN Wheat ELSE None)
      PROVE  Listed(p)' \/ Awaits(p, op)'
  <2>1. CASE t \in debt'
    <3>1. \E s \in debt' : s.kind \in {"WATER", "FEED"} /\ s.tile = p
      BY <1>2, <2>1
    <3> QED BY <3>1 DEF Listed
  <2>2. CASE t \notin debt'
    <3>1. PICK u \in Units : u <= hand_count /\ Interacts(u, t) /\ orders'[u] = InteractionOp(t)
      BY <1>2, <2>2 DEF Owed
    <3>2. position[u] = p /\ orders'[u].op = op
      BY <1>2, <3>1 DEF Interacts, InteractionOp
    <3>3. op = "FEED" => inventory[u][Wheat] > 0
      <4>1. Wheat # None
        BY FarmAssumption, ExecutorAssumption
      <4> QED BY <1>2, <3>1, <4>1 DEF Interacts, Carries
    <3>4. 0 <= u
      BY DEF Units
    <3> QED BY <1>1, <3>1, <3>2, <3>3, <3>4 DEF Awaits
  <2> QED BY <2>1, <2>2
<1>3. ASSUME Dry(field[p]) PROVE Listed(p)' \/ Awaits(p, "WATER")'
  <2>1. WaterUrgency(p) = Maintenance
    <3>1. field[p] \in Tile
      BY DEF FieldOK
    <3>2. field[p].watered = FALSE /\ field[p].unwatered \in Nat /\ ~(field[p].unwatered < 1)
      BY <1>3, <3>1 DEF Dry, Tile
    <3> QED BY <3>2 DEF WaterUrgency
  <2>2. Maintenance # None
    BY ExecutorAssumption DEF Maintenance
  <2> DEFINE t == Task("WATER", WaterUrgency(p), p, None, None, "mechanical")
  <2>3. t \in MechanicalTasks
    BY <1>3, <2>1, <2>2 DEF MechanicalTasks, Plants, Dry
  <2>4. t.kind = "WATER" /\ t.tile = p /\ t.item = None
    BY DEF Task
  <2> HIDE DEF t
  <2> QED BY <2>3, <2>4, <1>2
<1>4. ASSUME Starved(field[p]) PROVE Listed(p)' \/ Awaits(p, "FEED")'
  <2> DEFINE t == Task("FEED", Maintenance, p, None, Wheat, "mechanical")
  <2>1. t \in MechanicalTasks
    BY <1>4 DEF MechanicalTasks, Herd, Starved
  <2>2. t.kind = "FEED" /\ t.tile = p /\ t.item = Wheat
    BY DEF Task
  <2> HIDE DEF t
  <2> QED BY <2>1, <2>2, <1>2
<1>5. (Dry(field[p]))' <=> Dry(field[p])
  BY <1>1 DEF Dry
<1>6. (Starved(field[p]))' <=> Starved(field[p])
  BY <1>1 DEF Starved
<1> QED BY <1>3, <1>4, <1>5, <1>6 DEF Tended

LEMMA WatchedCalled ==
  ASSUME AgentInv, Memoir, Watched, SameDay \/ NewDay \/ ManagerFails PROVE Watched'
<1>i. ClockOK /\ FieldOK
  BY DEF AgentInv, Inv
<1>1. Called /\ (Observed(FALSE) \/ Observed(TRUE))
  BY DEF SameDay, NewDay, ManagerFails
<1>2. seen'.newcomers = {position[u] : u \in {u \in Units : orders'[u].op \in {"PLANT", "PLACE"}}}
  BY <1>1 DEF Observed
<1>3. position' = position /\ day' = day /\ hour' = hour
  BY <1>1 DEF Called
<1>4. \A u \in Units : orders'[u].op = "PLANT" => position'[u] \in seen'.newcomers
  BY <1>2, <1>3
<1>5. ASSUME agent_day' = day', LastHour', NEW p \in Board PROVE Tended(p)'
  <2>1. LastHour
    BY <1>3, <1>5 DEF LastHour
  <2>2. ~ManagerFails
    BY <1>3, <1>5 DEF ManagerFails, DayClosed
  <2>3. Owed
    BY <2>2, SameDayIs, NewDayIs
  <2> QED BY <1>i, <1>1, <2>1, <2>3, OwedTends
<1> QED BY <1>4, <1>5 DEF Watched

LEMMA WatchedPlayed ==
  ASSUME AgentInv, Watched, FarmPlays PROVE Watched'
<1>i. ClockOK /\ FieldOK /\ ShedOK /\ CarryOK
  BY DEF AgentInv, Inv
<1>m. UNCHANGED memory /\ agent_day' = agent_day /\ seen' = seen /\ debt' = debt
  BY DEF FarmPlays, memory
<1>1. CASE UnitActs
  <2>1. /\ Serving /\ next \in Units /\ next' \in {next, next + 1}
        /\ UNCHANGED <<orders, hand_count, phase, day, hour, unlocked>>
        /\ \A u \in Units \ {next} : position'[u] = position[u]
    BY <1>i, <1>1, ActFrame
  <2>2. phase = "units"
    BY <2>1 DEF Serving
  <2>3. ASSUME NEW u \in Units, u >= next', orders'[u].op = "PLANT"
        PROVE  position'[u] \in seen'.newcomers
    <3>1. u >= next /\ orders[u].op = "PLANT"
      BY <2>1, <2>3 DEF Units
    <3>2. position[u] \in seen.newcomers
      BY <2>2, <3>1 DEF Watched
    <3>3. position'[u] = position[u]
      <4>1. CASE u # next
        BY <2>1, <4>1
      <4>2. CASE u = next
        <5>1. order.op = "PLANT"
          BY <3>1, <4>2 DEF order
        <5>2. ~Move
          BY <5>1 DEF Move, Moves
        <5> QED BY <1>1, <5>2 DEF UnitActs, Skip, Plant, Harvest, Feed, Water, Build, Fertilize,
                         Care, CollectFertilizer, Dig, Place, PickUp, Drop
      <4> QED BY <4>1, <4>2
    <3> QED BY <1>m, <3>2, <3>3
  <2>4. ASSUME agent_day' = day', LastHour', NEW p \in Board \ seen'.newcomers
        PROVE  Tended(p)'
    <3>1. agent_day = day /\ LastHour /\ p \in Board \ seen.newcomers
      BY <1>m, <2>1, <2>4 DEF LastHour
    <3>2. Tended(p)
      BY <2>2, <3>1 DEF Watched
    <3>3. Plant => here # p
      <4>1. SUFFICES ASSUME Plant PROVE here \in seen.newcomers
        BY <3>1
      <4>2. orders[next].op = "PLANT"
        BY <4>1 DEF Plant, Acts, order
      <4>3. next >= next
        BY <2>1 DEF Units
      <4> QED BY <2>1, <2>2, <4>2, <4>3 DEF Watched, here
    <3> QED BY <1>i, <1>1, <1>m, <3>1, <3>2, <3>3, TendedServed
  <2> QED BY <2>3, <2>4 DEF Watched
<1>2. CASE UnitsDone
  <2>1. /\ phase = "units" /\ next > hand_count /\ phase' = "market" /\ field' = field
        /\ day' = day /\ hour' = hour
    BY <1>2 DEF UnitsDone
  <2>2. ASSUME agent_day' = day', LastHour', NEW p \in Board \ seen'.newcomers
        PROVE  Tended(p)'
    <3>1. Tended(p)
      BY <1>m, <2>1, <2>2 DEF LastHour, Watched
    <3>2. ~Awaits(p, "WATER") /\ ~Awaits(p, "FEED")
      <4>1. ~ \E u \in Units : next <= u /\ u <= hand_count
        BY <1>i, <2>1, StoresAssumption DEF Units, ClockOK
      <4> QED BY <4>1 DEF Awaits
    <3>3. Listed(p)' <=> Listed(p)
      BY <1>m DEF Listed
    <3> QED BY <2>1, <3>1, <3>2, <3>3 DEF Tended, Dry, Starved
  <2> QED BY <2>1, <2>2 DEF Watched
<1>3. CASE PassSlot \/ (slot < Len(queue) /\ Filled(queue[slot + 1]))
  <2>1. /\ phase = "market" /\ phase' = "market" /\ field' = field /\ day' = day /\ hour' = hour
    BY <1>3 DEF PassSlot, Filled, BuySeed, BuyGoods, Sell, Hire, BuyLand, Trades
  <2>2. ASSUME agent_day' = day', LastHour', NEW p \in Board \ seen'.newcomers
        PROVE  Tended(p)'
    <3>1. Tended(p)
      BY <1>m, <2>1, <2>2 DEF LastHour, Watched
    <3>2. ~Awaits(p, "WATER") /\ ~Awaits(p, "FEED")
      BY <2>1 DEF Awaits
    <3>3. Listed(p)' <=> Listed(p)
      BY <1>m DEF Listed
    <3> QED BY <2>1, <3>1, <3>2, <3>3 DEF Tended, Dry, Starved
  <2> QED BY <2>1, <2>2 DEF Watched
<1>4. CASE EndTurn \/ Dusk \/ StoreCarried \/ Dawn
  <2>1. phase' \notin {"units", "market"}
    BY <1>4 DEF EndTurn, Dusk, StoreCarried, Dawn
  <2> QED BY <2>1 DEF Watched
<1>5. CASE SubmitWhenDone
  <2>1. UNCHANGED all
    BY <1>5, <1>m DEF SubmitWhenDone, all
  <2> QED BY <2>1 DEF all, vars, turn, stores, memory, Watched, LastHour, Tended, Dry, Starved,
                      Listed, Awaits
<1> QED BY <1>1, <1>2, <1>3, <1>4, <1>5 DEF FarmPlays

LEMMA WatchedStep ==
  ASSUME AgentInv, Memoir, Watched, [ExecutorNext]_all PROVE Watched'
<1>1. CASE UNCHANGED all
  BY <1>1 DEF all, vars, turn, stores, memory, Watched, LastHour, Tended, Dry, Starved,
              Listed, Awaits
<1> QED BY <1>1, WatchedCalled, WatchedPlayed DEF ExecutorNext

LEMMA LossesListed ==
  ASSUME AgentInv, Watched, Dusk, agent_day = day, NEW p \in Board \ seen.newcomers, Lost(p)
  PROVE  Listed(p)
<1>1. LastHour /\ phase = "market"
  BY DEF Dusk, Closing
<1>2. Tended(p)
  BY <1>1 DEF Watched
<1>3. Dry(field[p]) \/ Starved(field[p])
  BY DEF Lost, Dry, Starved
<1>4. ~Awaits(p, "WATER") /\ ~Awaits(p, "FEED")
  BY <1>1 DEF Awaits
<1> QED BY <1>2, <1>3, <1>4 DEF Tended

\* A plant that withers or an animal that runs away at dusk is in the day's list of work
\* left undone, unless it was set in the very last turn: no worker that the list trusts to
\* water or feed is displaced, emptied or beaten to it by another
\* (DebtCoversLosses; _end_of_day_debt in agent.py, run_foreman in foreman.py).
THEOREM DebtHolds == ExecutorSpec => DebtCoversLosses
<1>1. ExecutorInit => AgentInv /\ Memoir /\ Watched
  BY AgentStarts, MemoirStarts, WatchedStarts
<1>2. AgentInv /\ Memoir /\ Watched /\ [ExecutorNext]_all => AgentInv' /\ Memoir' /\ Watched'
  BY AgentStep, MemoirStep, WatchedStep
<1>3. AgentInv /\ Memoir /\ Watched /\ [ExecutorNext]_all
        => [Dusk /\ agent_day = day => \A p \in Board \ seen.newcomers : Lost(p) => Listed(p)]_all
  BY LossesListed
<1> QED BY <1>1, <1>2, <1>3, PTL DEF ExecutorSpec, DebtCoversLosses
-----------------------------------------------------------------------------
(* NO LABOR IS WASTED *)

\* What the four sources of work are called.
LEMMA WorkSources ==
  ASSUME NEW l, NEW plan, NEW affordable, NEW t \in WorkOn(l, plan, affordable)
  PROVE  /\ t.kind = "PLANT" => t \in CropTasks(l.crops)
         /\ t.kind \in {"BUILD", "PLACE"} => t \in AnimalTasks(l.animals, affordable)
         /\ t.kind = "FEED" => IsFeed(t)
         /\ t.kind = "CARE" => IsCare(t)
         /\ t.kind = "COLLECT_FERTILIZER" => IsCollect(t)
<1>1. \/ t \in MechanicalTasks \/ t \in CropTasks(l.crops)
      \/ t \in AnimalTasks(l.animals, affordable) \/ t \in Allocations(plan)
  BY DEF WorkOn
<1>2. t \in MechanicalTasks => t.kind \in {"WATER", "FEED", "COLLECT_FERTILIZER", "HARVEST"}
  BY DEF MechanicalTasks, Task
<1>3. t \in CropTasks(l.crops) => t.kind \in {"DIG", "PLANT"}
  <2>1. IsDig(t, l) => t.kind = "DIG"
    BY DEF IsDig, Task
  <2>2. IsPlant(t, l) => t.kind = "PLANT"
    BY DEF IsPlant, Task
  <2> QED BY <2>1, <2>2, CropWork
<1>4. t \in AnimalTasks(l.animals, affordable) => t.kind \in {"DIG", "BUILD", "PLACE"}
  <2>1. IsReclaim(t, l) => t.kind = "DIG"
    BY DEF IsReclaim, Task
  <2>2. IsBuild(t, l) => t.kind = "BUILD"
    BY DEF IsBuild, Task
  <2>3. IsPlace(t, l) => t.kind = "PLACE"
    BY DEF IsPlace, Task
  <2> QED BY <2>1, <2>2, <2>3, AnimalWork
<1>5. t \in Allocations(plan) => t.kind \in {"CARE", "FERTILIZE"}
  BY AllocatedWork DEF IsCare, IsFertilize, Task
<1>6. IsWork(t, l)
  BY WorkIs
<1>7. /\ t.kind = "FEED" => IsFeed(t)
      /\ t.kind = "CARE" => IsCare(t)
      /\ t.kind = "COLLECT_FERTILIZER" => IsCollect(t)
  BY <1>6, WorkKinds
<1> QED BY <1>1, <1>2, <1>3, <1>4, <1>5, <1>7

\* A slot's source tells what stands on its tile.
LEMMA SlotFinds ==
  ASSUME FieldOK, NEW l, LayoutsOK(l), NEW s \in l.animals
  PROVE  /\ s.tile \in Board /\ unlocked[Quadrant(s.tile)] /\ s.animal \in Animals
         /\ s.source = "empty_structure" => Welcomes(field[s.tile], s.animal)
         /\ s.source # "empty_structure" => \/ Vacant(field[s.tile]) \/ field[s.tile].crop # None
                                            \/ s.source = "weed_reclaim"
<1>1. /\ s \in SlotSpace /\ s.tile \in Unlocked /\ Pool(s.tile, s.animal) # 0
      /\ s.source = Sources[Pool(s.tile, s.animal)]
  BY DEF LayoutsOK, SlotsOK
<1>2. s.tile \in Board /\ unlocked[Quadrant(s.tile)] /\ s.animal \in Animals
  BY <1>1 DEF SlotSpace, Unlocked
<1>3. field[s.tile] \in Tile /\ OneUse(field[s.tile])
  BY <1>2 DEF FieldOK, TilesOneUse
<1>4. \/ Pool(s.tile, s.animal) = 1 /\ Welcomes(field[s.tile], s.animal)
      \/ Pool(s.tile, s.animal) = 2 /\ Vacant(field[s.tile])
      \/ Pool(s.tile, s.animal) = 3 /\ field[s.tile].weed
      \/ Pool(s.tile, s.animal) = 4 /\ field[s.tile].crop # None
  <2> DEFINE t == field[s.tile]
  <2>1. StructureOf[s.animal] \in Structures /\ None \notin Structures
    BY <1>2, FieldAssumption
  <2>2. ~(Welcomes(t, s.animal) /\ Vacant(t))
    BY <2>1 DEF Welcomes, Vacant
  <2>3. ~(Welcomes(t, s.animal) /\ t.weed) /\ ~(Welcomes(t, s.animal) /\ t.crop # None)
    BY <1>3, <2>1 DEF Welcomes, OneUse
  <2>4. ~(Vacant(t) /\ t.weed) /\ ~(Vacant(t) /\ t.crop # None) /\ ~(t.weed /\ t.crop # None)
    BY <1>3 DEF Vacant, OneUse
  <2>5. t.weed \in BOOLEAN
    BY <1>3 DEF Tile
  <2>6. Pool(s.tile, s.animal) = CASE Welcomes(t, s.animal) -> 1 [] Vacant(t) -> 2
                                   [] t.weed -> 3 [] t.crop # None -> 4 [] OTHER -> 0
    BY DEF Pool
  <2> HIDE DEF t
  <2>7. CASE Welcomes(t, s.animal)
    BY <2>2, <2>3, <2>6, <2>7 DEF t
  <2>8. CASE Vacant(t)
    BY <2>2, <2>4, <2>6, <2>8 DEF t
  <2>9. CASE t.weed
    BY <2>3, <2>4, <2>6, <2>9 DEF t
  <2>10. CASE t.crop # None
    BY <2>3, <2>4, <2>6, <2>10 DEF t
  <2> QED BY <2>6, <2>7, <2>8, <2>9, <2>10, <1>1 DEF t
<1>5. /\ Sources[1] = "empty_structure" /\ Sources[2] = "new_build"
      /\ Sources[3] = "weed_reclaim" /\ Sources[4] = "crop_sacrifice"
  BY DEF Sources
<1> QED BY <1>1, <1>2, <1>4, <1>5

\* The tasks of a tile that wait for another one of the same tile.
Waits(t, work) ==
  \E s \in work : /\ s.tile = t.tile /\ s.kind = t.after
                  /\ <<t.kind, s.kind>> \in {<<"PLANT", "DIG">>, <<"BUILD", "DIG">>,
                                             <<"PLACE", "BUILD">>}

\* A bed whose tile has to be dug waits for that.
LEMMA PlantWork ==
  ASSUME FieldOK, NEW l, NEW plan, NEW affordable, NEW work, PlannedFor(work, l, plan, affordable),
         NEW t \in work, t.kind = "PLANT", ~Waits(t, work)
  PROVE  /\ t.tile \in Board /\ unlocked[Quadrant(t.tile)] /\ Vacant(field[t.tile])
         /\ \A s \in l.animals : s.tile # t.tile
         /\ \E s \in l.crops.plants : s.tile = t.tile /\ s.crop = t.target
<1>1. LayoutsOK(l) /\ work = WorkOn(l, plan, affordable)
  BY DEF PlannedFor
<1>2. t \in CropTasks(l.crops)
  BY <1>1, WorkSources
<1>3. IsPlant(t, l)
  BY <1>2, CropWork DEF IsDig, Task
<1>4. PICK s \in l.crops.plants : s.tile = t.tile /\ s.crop = t.target
  BY <1>3 DEF IsPlant
<1>5. s.tile \in Unlocked \ {r.tile : r \in l.animals}
  BY <1>1 DEF LayoutsOK, CropsOK, BedsOK, BedSpace
<1>6. Vacant(field[t.tile])
  <2>1. SUFFICES ASSUME ~Vacant(field[t.tile]) PROVE FALSE
    OBVIOUS
  <2>2. t.tile \in l.crops.digs
    BY <1>1, <1>4, <2>1 DEF LayoutsOK, CropsOK
  <2>3. t.after = "DIG"
    BY <1>3, <2>2 DEF IsPlant, Task
  <2> DEFINE d == Task("DIG", Manager, t.tile, None, None, "manager_reconciliation")
  <2>4. d \in work
    BY <1>1, <2>2 DEF WorkOn, CropTasks
  <2>5. d.kind = "DIG" /\ d.tile = t.tile
    BY DEF Task
  <2> HIDE DEF d
  <2> QED BY <2>3, <2>4, <2>5 DEF Waits
<1> QED BY <1>4, <1>5, <1>6 DEF Unlocked

\* A building site that has to be weeded waits for that.
LEMMA BuildWork ==
  ASSUME FieldOK, NEW l, NEW plan, NEW affordable, NEW work, PlannedFor(work, l, plan, affordable),
         NEW t \in work, t.kind = "BUILD", ~Waits(t, work)
  PROVE  /\ t.tile \in Board /\ unlocked[Quadrant(t.tile)]
         /\ Vacant(field[t.tile]) \/ field[t.tile].crop # None
         /\ \E s \in l.animals : s.tile = t.tile /\ t.target = StructureOf[s.animal]
<1> DEFINE ready == {s \in l.animals : \/ s.source = "empty_structure"
                                       \/ Available(s.animal) > 0
                                       \/ s.animal \in affordable}
           toBuild == {s \in ready : s.source # "empty_structure"}
<1>1. LayoutsOK(l) /\ work = WorkOn(l, plan, affordable)
  BY DEF PlannedFor
<1>2. t \in AnimalTasks(l.animals, affordable)
  BY <1>1, WorkSources
<1>3. PICK s \in toBuild :
            t = [Task("BUILD", Manager, s.tile, StructureOf[s.animal], None, s.source)
                    EXCEPT !.after = IF s.source = "weed_reclaim" THEN "DIG" ELSE None]
  <2>1. \/ \E s \in {s \in toBuild : s.source = "weed_reclaim"} :
              t = Task("DIG", Manager, s.tile, None, None, "weed_reclaim")
        \/ \E s \in toBuild :
              t = [Task("BUILD", Manager, s.tile, StructureOf[s.animal], None, s.source)
                      EXCEPT !.after = IF s.source = "weed_reclaim" THEN "DIG" ELSE None]
        \/ \E s \in ready :
              t = [Task("PLACE", Manager, s.tile, s.animal, s.animal, "manager_target")
                      EXCEPT !.after = IF s \in toBuild THEN "BUILD" ELSE None]
    BY <1>2 DEF AnimalTasks
  <2> HIDE DEF ready, toBuild
  <2>2. ~ \E s \in {s \in toBuild : s.source = "weed_reclaim"} :
            t = Task("DIG", Manager, s.tile, None, None, "weed_reclaim")
    BY DEF Task
  <2>3. ~ \E s \in ready :
            t = [Task("PLACE", Manager, s.tile, s.animal, s.animal, "manager_target")
                   EXCEPT !.after = IF s \in toBuild THEN "BUILD" ELSE None]
    BY DEF Task
  <2> QED BY <2>1, <2>2, <2>3
<1>4. /\ s \in l.animals /\ s.source # "empty_structure"
      /\ t.tile = s.tile /\ t.target = StructureOf[s.animal]
      /\ s.source = "weed_reclaim" => t.after = "DIG"
  BY <1>3 DEF Task
<1>5. s.source # "weed_reclaim"
  <2>1. SUFFICES ASSUME s.source = "weed_reclaim" PROVE FALSE
    OBVIOUS
  <2> DEFINE d == Task("DIG", Manager, s.tile, None, None, "weed_reclaim")
  <2>2. d \in AnimalTasks(l.animals, affordable)
    BY <1>3, <2>1 DEF AnimalTasks
  <2>3. d.kind = "DIG" /\ d.tile = t.tile
    BY <1>4 DEF Task
  <2> HIDE DEF d
  <2>4. d \in work
    BY <1>1, <2>2 DEF WorkOn
  <2> QED BY <1>4, <2>1, <2>3, <2>4 DEF Waits
<1> HIDE DEF ready, toBuild
<1>6. /\ s.tile \in Board /\ unlocked[Quadrant(s.tile)]
      /\ Vacant(field[s.tile]) \/ field[s.tile].crop # None
  BY <1>1, <1>4, <1>5, SlotFinds
<1> QED BY <1>4, <1>6

\* An animal whose house has to be built waits for that.
LEMMA PlaceWork ==
  ASSUME FieldOK, NEW l, NEW plan, NEW affordable, NEW work, PlannedFor(work, l, plan, affordable),
         NEW t \in work, t.kind = "PLACE", ~Waits(t, work)
  PROVE  \E s \in l.animals : /\ s.source = "empty_structure" /\ s.tile = t.tile
                              /\ s.animal = t.target /\ s.animal = t.item
                              /\ t.target \in Animals
                              /\ Welcomes(field[t.tile], t.target)
<1> DEFINE ready == {s \in l.animals : \/ s.source = "empty_structure"
                                       \/ Available(s.animal) > 0
                                       \/ s.animal \in affordable}
           toBuild == {s \in ready : s.source # "empty_structure"}
<1>1. LayoutsOK(l) /\ work = WorkOn(l, plan, affordable)
  BY DEF PlannedFor
<1>2. t \in AnimalTasks(l.animals, affordable)
  BY <1>1, WorkSources
<1>3. PICK s \in ready :
            t = [Task("PLACE", Manager, s.tile, s.animal, s.animal, "manager_target")
                    EXCEPT !.after = IF s \in toBuild THEN "BUILD" ELSE None]
  <2>1. \/ \E s \in {s \in toBuild : s.source = "weed_reclaim"} :
              t = Task("DIG", Manager, s.tile, None, None, "weed_reclaim")
        \/ \E s \in toBuild :
              t = [Task("BUILD", Manager, s.tile, StructureOf[s.animal], None, s.source)
                      EXCEPT !.after = IF s.source = "weed_reclaim" THEN "DIG" ELSE None]
        \/ \E s \in ready :
              t = [Task("PLACE", Manager, s.tile, s.animal, s.animal, "manager_target")
                      EXCEPT !.after = IF s \in toBuild THEN "BUILD" ELSE None]
    BY <1>2 DEF AnimalTasks
  <2> HIDE DEF ready, toBuild
  <2>2. ~ \E s \in {s \in toBuild : s.source = "weed_reclaim"} :
            t = Task("DIG", Manager, s.tile, None, None, "weed_reclaim")
    BY DEF Task
  <2>3. ~ \E s \in toBuild :
            t = [Task("BUILD", Manager, s.tile, StructureOf[s.animal], None, s.source)
                   EXCEPT !.after = IF s.source = "weed_reclaim" THEN "DIG" ELSE None]
    BY DEF Task
  <2> QED BY <2>1, <2>2, <2>3
<1>4. /\ s \in l.animals /\ t.tile = s.tile /\ t.target = s.animal /\ t.item = s.animal
      /\ s \in toBuild => t.after = "BUILD"
  <2>1. s \in l.animals
    OBVIOUS
  <2> HIDE DEF ready, toBuild
  <2> QED BY <1>3, <2>1 DEF Task
<1>5. s.source = "empty_structure"
  <2>1. SUFFICES ASSUME s.source # "empty_structure" PROVE FALSE
    OBVIOUS
  <2>2. s \in toBuild
    BY <2>1
  <2> DEFINE b == [Task("BUILD", Manager, s.tile, StructureOf[s.animal], None, s.source)
                     EXCEPT !.after = IF s.source = "weed_reclaim" THEN "DIG" ELSE None]
  <2>3. b \in AnimalTasks(l.animals, affordable)
    BY <2>2 DEF AnimalTasks
  <2>4. b.kind = "BUILD" /\ b.tile = t.tile
    BY <1>4 DEF Task
  <2> HIDE DEF b, ready, toBuild
  <2>5. b \in work
    BY <1>1, <2>3 DEF WorkOn
  <2> QED BY <1>4, <2>2, <2>4, <2>5 DEF Waits
<1> HIDE DEF ready, toBuild
<1>6. s.animal \in Animals /\ Welcomes(field[s.tile], s.animal)
  BY <1>1, <1>4, <1>5, SlotFinds
<1> QED BY <1>4, <1>5, <1>6

\* What the tile of a task is like when the task does not wait for another one.
Prepared(t) ==
  LET p == field[t.tile]
      owned == unlocked[Quadrant(t.tile)]
  IN  /\ t.kind \in WorkNames
      /\ t.kind = "PLANT" => owned /\ Vacant(p)
      /\ t.kind = "BUILD" => owned /\ (Vacant(p) \/ p.crop # None)
      /\ t.kind = "PLACE" => t.target \in Animals /\ t.item = t.target /\ Welcomes(p, t.target)
      /\ t.kind = "FEED" => p.animal # None /\ ~p.fed /\ t.item = Wheat
      /\ t.kind = "CARE" => p.animal # None
      /\ t.kind = "COLLECT_FERTILIZER" => p.animal # None /\ p.fertilizer

LEMMA WorkPrepared ==
  ASSUME FieldOK, NEW l, NEW plan, NEW affordable, NEW work, PlannedFor(work, l, plan, affordable),
         NEW t \in work, ~Waits(t, work)
  PROVE  Prepared(t)
<1>1. t \in WorkOn(l, plan, affordable)
  BY DEF PlannedFor
<1>2. t.kind = "FEED" => t.tile \in Herd /\ ~field[t.tile].fed /\ t.item = Wheat
  <2>1. t.kind = "FEED" => IsFeed(t)
    BY <1>1, WorkSources
  <2> QED BY <2>1 DEF IsFeed, Task
<1>3. t.kind = "CARE" => t.tile \in Herd
  BY <1>1, WorkSources DEF IsCare
<1>4. t.kind = "COLLECT_FERTILIZER" => t.tile \in Herd /\ field[t.tile].fertilizer
  BY <1>1, WorkSources DEF IsCollect
<1>5. t.kind = "PLANT" => unlocked[Quadrant(t.tile)] /\ Vacant(field[t.tile])
  BY PlantWork
<1>6. t.kind = "BUILD" => /\ unlocked[Quadrant(t.tile)]
                          /\ Vacant(field[t.tile]) \/ field[t.tile].crop # None
  BY BuildWork
<1>7. t.kind = "PLACE" => /\ t.target \in Animals /\ t.item = t.target
                          /\ Welcomes(field[t.tile], t.target)
  BY PlaceWork
<1>8. t.kind \in WorkNames
  BY WorkSound DEF Chore
<1> QED BY <1>2, <1>3, <1>4, <1>5, <1>6, <1>7, <1>8 DEF Prepared, Herd

\* Orders of which one would spoil the other on the same tile.
Clash(a, b) ==
  \/ a = b /\ a \in {"PLANT", "BUILD", "PLACE", "FEED", "COLLECT_FERTILIZER"}
  \/ <<a, b>> \in {<<"PLANT", "BUILD">>, <<"BUILD", "PLANT">>, <<"DIG", "PLACE">>,
                   <<"PLACE", "DIG">>}

\* The same the other way round.
LEMMA ClashBoth == ASSUME NEW a, NEW b, Clash(a, b) PROVE Clash(b, a)
BY DEF Clash

LEMMA WorkOfOneTile ==
  ASSUME FieldOK, NEW l, NEW plan, NEW affordable, NEW work, PlannedFor(work, l, plan, affordable),
         NEW s \in work, ~Waits(s, work), NEW t \in work, ~Waits(t, work), s.tile = t.tile,
         Clash(s.kind, t.kind)
  PROVE  s = t
<1>1. LayoutsOK(l) /\ work = WorkOn(l, plan, affordable)
  BY DEF PlannedFor
<1>2. s \in WorkOn(l, plan, affordable) /\ t \in WorkOn(l, plan, affordable)
  BY <1>1
<1>3. IsWork(s, l) /\ IsWork(t, l)
  BY <1>2, WorkIs
<1>4. \A p, q \in l.animals : p.tile = q.tile => p = q
  BY <1>1 DEF LayoutsOK, SlotsOK
<1>5. \A p, q \in l.crops.plants : p.tile = q.tile => p = q
  BY <1>1 DEF LayoutsOK, CropsOK, BedsOK
<1>6. Key(s) = Key(t) => s = t
  BY <1>1, <1>3, WorkKeys
<1>7. CASE s.kind = t.kind
  <2>1. CASE s.kind \in {"FEED", "COLLECT_FERTILIZER"}
    <3>1. s.target = None /\ t.target = None
      BY <1>2, <1>7, <2>1, WorkSources DEF IsFeed, IsCollect, Task
    <3> QED BY <1>6, <1>7, <3>1 DEF Key
  <2>2. CASE s.kind = "PLANT"
    <3>1. \E p \in l.crops.plants : p.tile = s.tile /\ p.crop = s.target
      BY <2>2, PlantWork
    <3>2. t.kind = "PLANT"
      BY <1>7, <2>2
    <3>3. \E p \in l.crops.plants : p.tile = t.tile /\ p.crop = t.target
      BY <3>2, PlantWork
    <3>4. s.target = t.target
      BY <1>5, <3>1, <3>3
    <3> QED BY <1>6, <1>7, <3>4 DEF Key
  <2>3. CASE s.kind = "BUILD"
    <3>1. /\ \E p \in l.animals : p.tile = s.tile /\ s.target = StructureOf[p.animal]
          /\ \E p \in l.animals : p.tile = t.tile /\ t.target = StructureOf[p.animal]
      BY <1>7, <2>3, BuildWork
    <3>2. s.target = t.target
      BY <1>4, <3>1
    <3> QED BY <1>6, <1>7, <3>2 DEF Key
  <2>4. CASE s.kind = "PLACE"
    <3>1. \E p \in l.animals : p.tile = s.tile /\ p.animal = s.target
      BY <2>4, PlaceWork
    <3>2. t.kind = "PLACE"
      BY <1>7, <2>4
    <3>3. \E p \in l.animals : p.tile = t.tile /\ p.animal = t.target
      BY <3>2, PlaceWork
    <3>4. s.target = t.target
      BY <1>4, <3>1, <3>3
    <3> QED BY <1>6, <1>7, <3>4 DEF Key
  <2> QED BY <1>7, <2>1, <2>2, <2>3, <2>4 DEF Clash
<1>8. ASSUME NEW p \in work, NEW q \in work, ~Waits(p, work), ~Waits(q, work), p.tile = q.tile,
             p.kind = "PLANT", q.kind = "BUILD"
      PROVE  FALSE
  <2>1. \A r \in l.animals : r.tile # p.tile
    BY <1>8, PlantWork
  <2>2. \E r \in l.animals : r.tile = q.tile
    BY <1>8, BuildWork
  <2> QED BY <1>8, <2>1, <2>2
<1>9. ASSUME NEW p \in work, NEW q \in work, ~Waits(p, work), ~Waits(q, work), p.tile = q.tile,
             p.kind = "DIG", q.kind = "PLACE"
      PROVE  FALSE
  <2>1. PICK r \in l.animals : r.source = "empty_structure" /\ r.tile = q.tile
    BY <1>9, PlaceWork
  <2>2. IsDig(p, l) \/ IsReclaim(p, l)
    <3>1. IsWork(p, l)
      BY <1>1, <1>9, WorkIs
    <3> QED BY <1>9, <3>1, WorkKinds
  <2>3. CASE IsDig(p, l)
    <3>1. \E b \in l.crops.plants : b.tile = p.tile
      BY <1>1, <2>3 DEF IsDig, LayoutsOK, CropsOK
    <3>2. p.tile \notin {b.tile : b \in l.animals}
      BY <1>1, <3>1 DEF LayoutsOK, CropsOK, BedsOK, BedSpace
    <3> QED BY <1>9, <2>1, <3>2
  <2>4. CASE IsReclaim(p, l)
    <3>1. PICK b \in l.animals : b.tile = p.tile /\ b.source = "weed_reclaim"
      BY <2>4 DEF IsReclaim
    <3> QED BY <1>4, <1>9, <2>1, <3>1
  <2> QED BY <2>2, <2>3, <2>4
<1> QED BY <1>7, <1>8, <1>9 DEF Clash

\* What the foreman gives out does not wait for other work of the tile: whenever that work
\* was called for, it was held back together with the task or not at all.
LEMMA UndoneWaitsNot ==
  ASSUME ClockOK, ShedOK, CarryOK, NEW l, NEW plan, PlanOK(plan), NEW affordable, NEW work,
         PlannedFor(work, l, plan, affordable), NEW holdBack, NEW tasks,
         tasks = Dispatched(Undertaken(WithPurchases(work, plan), holdBack)), NEW t \in Undone(tasks)
  PROVE  t \in work /\ ~Waits(t, work)
<1> DEFINE generated == WithPurchases(work, plan)
           bought == LandTasks(plan) \cup Shortages(work)
<1>1. generated = work \cup bought
  BY DEF WithPurchases
<1>2. t \in tasks /\ t.tile # Nowhere /\ ~Blocked(t, tasks)
  BY DEF Undone, OnTiles
<1>3. t \in Undertaken(generated, holdBack) /\ t \in generated
  BY <1>2 DEF Dispatched, Undertaken
<1>4. t \in work
  <2>1. IsFiniteSet(work) /\ \A s \in work : Chore(s)
    BY WorkSound
  <2>2. \A s \in bought : Errand(s)
    BY <2>1, Purchases
  <2> QED BY <1>1, <1>2, <1>3, <2>2 DEF Errand
<1>5. ASSUME Waits(t, work) PROVE FALSE
  <2>1. PICK s \in work : /\ s.tile = t.tile /\ s.kind = t.after
                          /\ <<t.kind, s.kind>> \in {<<"PLANT", "DIG">>, <<"BUILD", "DIG">>,
                                                     <<"PLACE", "BUILD">>}
    BY <1>5 DEF Waits
  <2>2. s \in generated
    BY <1>1
  <2> HIDE DEF generated
  <2>3. s \in Undertaken(generated, holdBack)
    BY <1>3, <2>1, <2>2 DEF Undertaken, Expansion
  <2>4. Starving = {}
    <3>1. t.kind # "FEED"
      BY <2>1
    <3>2. t \in Dispatched(Undertaken(generated, holdBack))
      BY <1>2 DEF generated
    <3> QED BY <1>2, <3>1, <3>2 DEF Dispatched
  <2>5. s \in tasks
    <3>1. Dispatched(Undertaken(generated, holdBack)) = Undertaken(generated, holdBack)
      BY <2>4 DEF Dispatched
    <3> QED BY <2>3, <3>1 DEF generated
  <2> QED BY <1>2, <2>1, <2>5 DEF Blocked
<1> QED BY <1>4, <1>5

\* What the tile and the unit must be like for a unit's order to have its effect.
Suits(o, u) ==
  LET t == field[position[u]]
      owned == unlocked[Quadrant(position[u])]
  IN  /\ o.op # "DROP"
      /\ o.op = "PLANT" => owned /\ Vacant(t)
      /\ o.op = "BUILD" => owned /\ (Vacant(t) \/ t.crop # None)
      /\ o.op = "PLACE" => /\ o.target \in Animals /\ inventory[u][o.target] > 0
                           /\ Welcomes(t, o.target)
      /\ o.op = "FEED" => t.animal # None /\ ~t.fed /\ inventory[u][Wheat] > 0
      /\ o.op = "CARE" => t.animal # None
      /\ o.op = "COLLECT_FERTILIZER" => t.animal # None /\ t.fertilizer

\* The orders of a turn as they are given.
Fitted ==
  /\ blocked' = {}
  /\ \A u \in Units : Suits(orders'[u], u)
  /\ \A u, v \in Units : u # v /\ position[u] = position[v]
                           => ~Clash(orders'[u].op, orders'[v].op)

LEMMA TaskSuits ==
  ASSUME NEW u \in Units, NEW t, Prepared(t), NEW o, o = OrderFor(u, t)
  PROVE  Suits(o, u)
<1>1. CASE o.op \in WorkNames
  <2>1. Interacts(u, t) /\ o = InteractionOp(t) /\ o.op = t.kind
    BY <1>1, OrderOp
  <2>2. t.tile = position[u] /\ (t.item = None \/ inventory[u][t.item] > 0)
    BY <2>1 DEF Interacts, Carries
  <2>3. o.op = "PLACE" => o.target = t.target
    BY <2>1 DEF InteractionOp
  <2>4. Wheat # None /\ None \notin Animals
    BY FarmAssumption, FieldAssumption, ExecutorAssumption
  <2>5. o.op # "DROP"
    BY <1>1 DEF WorkNames
  <2> QED BY <2>1, <2>2, <2>3, <2>4, <2>5 DEF Prepared, Suits
<1>2. CASE o.op \notin WorkNames
  <2>1. ~Interacts(u, t)
    BY <1>2 DEF OrderFor, InteractionOp, Prepared
  <2>2. o.op # "DROP"
    BY <2>1 DEF OrderFor, StepToward
  <2> QED BY <1>2, <2>2 DEF Suits, WorkNames
<1> QED BY <1>1, <1>2

LEMMA PassSuits == ASSUME NEW u PROVE Suits(Pass, u) /\ \A b : ~Clash(Pass.op, b)
<1>1. Pass.op = "PASS"
  BY DEF Pass
<1> QED BY <1>1 DEF Suits, Clash

\* Whatever the plan, a turn's orders fit the farm and one another.
LEMMA TurnFits ==
  ASSUME Inv, NEW plan, PlanOK(plan), NEW holdBack, NEW remaining, NEW onSale, NEW oldDebt,
         Turn(plan, holdBack, remaining, onSale, oldDebt)
  PROVE  Fitted
<1>i. ClockOK /\ FieldOK /\ ShedOK /\ CarryOK
  BY DEF Inv
<1>1. PICK affordable \in SUBSET Animals :
         \E generated \in {GenerateTasks(plan, affordable)} :
         \E tasks \in {Undertaken(generated, holdBack)} :
         \E result \in {RunForeman(Dispatched(tasks))} :
            IF ~KeysUnique(generated)
            THEN raised' = TRUE /\ PassAll(remaining, onSale, oldDebt)
            ELSE /\ raised' = raised
                 /\ Queued(tasks, remaining, onSale)
                 /\ orders' = result.orders
                 /\ blocked' = OverRequested(result.orders)
                 /\ debt' = IF LastHour THEN Remaining(tasks, result) ELSE oldDebt
  BY DEF Turn
<1>2. PICK l, work : /\ PlannedFor(work, l, plan, affordable)
                     /\ GenerateTasks(plan, affordable) = WithPurchases(work, plan)
  BY <1>i, GeneratedIs
<1>3. TasksOK(WithPurchases(work, plan))
  BY <1>i, <1>2, Generated
<1>4. KeysUnique(WithPurchases(work, plan))
  BY <1>3 DEF TasksOK
<1>5. PICK generated, undertaken, result :
            /\ generated = WithPurchases(work, plan)
            /\ undertaken = Undertaken(generated, holdBack)
            /\ result = RunForeman(Dispatched(undertaken))
            /\ orders' = result.orders
            /\ blocked' = OverRequested(result.orders)
  BY <1>1, <1>2, <1>4
<1>6. PICK tasks : tasks = Dispatched(undertaken)
  OBVIOUS
<1>7. IsFiniteSet(tasks) /\ \A t \in tasks : Chore(t) \/ Errand(t)
  <2>1. IsFiniteSet(undertaken) /\ \A t \in undertaken : Chore(t) \/ Errand(t)
    BY <1>3, <1>5, UndertakenIs
  <2> QED BY <1>6, <2>1, DispatchedIs
<1>8. Led(result, hand_count + 1, Undone(tasks))
  BY <1>i, <1>5, <1>6, <1>7, ForemanLeads
<1>9. \A t \in Undone(tasks) : t \in work /\ ~Waits(t, work)
  BY <1>i, <1>2, <1>5, <1>6, UndoneWaitsNot
<1>10. result.claimed \subseteq Undone(tasks)
  BY <1>8 DEF Led, Dispatch
<1>11. \A t \in result.claimed : t \in work /\ ~Waits(t, work) /\ Prepared(t)
  BY <1>i, <1>2, <1>9, <1>10, WorkPrepared
<1>12. ASSUME NEW u \in Units PROVE Suits(orders'[u], u)
  <2>1. orders'[u] = result.orders[u]
    BY <1>5
  <2>2. result.orders[u] = Pass \/ \E t \in result.claimed : result.orders[u] = OrderFor(u, t)
    <3>1. u >= hand_count + 1 \/ u < hand_count + 1
      BY <1>i, StoresAssumption DEF ClockOK, Units
    <3> QED BY <1>8, <3>1 DEF Led
  <2>3. PICK o : o = orders'[u]
    OBVIOUS
  <2>4. CASE o = Pass
    BY <2>3, <2>4, PassSuits
  <2>5. CASE \E t \in result.claimed : o = OrderFor(u, t)
    <3>1. Suits(o, u)
      BY <1>11, <2>5, TaskSuits
    <3> QED BY <2>3, <3>1
  <2> QED BY <2>1, <2>2, <2>3, <2>4, <2>5
<1>13. ASSUME NEW u \in Units, NEW v \in Units, u # v, position[u] = position[v],
              Clash(orders'[u].op, orders'[v].op)
       PROVE  FALSE
  <2>1. PICK a, b : a = result.orders[u] /\ b = result.orders[v]
    OBVIOUS
  <2>2. Clash(a.op, b.op) /\ Clash(b.op, a.op)
    BY <1>5, <1>13, <2>1, ClashBoth
  <2>3. a # Pass /\ b # Pass
    BY <2>2, PassSuits
  <2>4. PICK s \in result.claimed, t \in result.claimed :
             s # t /\ a = OrderFor(u, s) /\ b = OrderFor(v, t)
    BY <1>8, <1>13, <2>1, <2>3 DEF Led, Apart
  <2>5. a.op \in WorkNames /\ b.op \in WorkNames
    BY <2>2 DEF Clash, WorkNames
  <2>6. Interacts(u, s) /\ a.op = s.kind /\ Interacts(v, t) /\ b.op = t.kind
    BY <2>4, <2>5, OrderOp
  <2>7. s.tile = t.tile /\ Clash(s.kind, t.kind)
    BY <1>13, <2>2, <2>6 DEF Interacts
  <2>8. s \in work /\ ~Waits(s, work) /\ t \in work /\ ~Waits(t, work)
    BY <1>11, <2>4
  <2> QED BY <1>i, <1>2, <2>4, <2>7, <2>8, WorkOfOneTile
<1>14. blocked' = {}
  <2>1. ASSUME NEW c \in Crops PROVE ~(Cardinality(Requests(result.orders, c)) > seeds[c])
    <3>1. /\ result.budget[c] >= 0 /\ result.budget[c] \in Int
          /\ Cardinality(Requests(result.orders, c)) + result.budget[c] <= seeds[c]
      BY <1>8 DEF Led, Budgeted, Dispatch
    <3>2. Cardinality(Requests(result.orders, c)) \in Nat /\ seeds[c] \in Nat
      BY <1>i, RequestsCounted DEF ClockOK
    <3> QED BY <3>1, <3>2
  <2> QED BY <1>5, <2>1 DEF OverRequested
<1> QED BY <1>12, <1>13, <1>14 DEF Fitted

\* While the units act, those still to act find what they need, and no two of them get in
\* each other's way.
Labored ==
  phase = "units" =>
    /\ blocked = {}
    /\ \A u \in Units : u >= next => Suits(orders[u], u)
    /\ \A u, v \in Units : u >= next /\ v >= next /\ u # v /\ position[u] = position[v]
                             => ~Clash(orders[u].op, orders[v].op)

LEMMA LaboredStarts == ExecutorInit => Labored
BY DEF ExecutorInit, Labored

LEMMA LaboredCalled ==
  ASSUME AgentInv, SameDay \/ NewDay \/ ManagerFails PROVE Labored'
<1>i. Inv /\ AgentOK /\ ClockOK
  BY DEF AgentInv, Inv
<1>1. Fitted
  <2>1. CASE SameDay
    <3> DEFINE same == bin_anchor = Bin
               remaining == IF same THEN remaining_sells ELSE feasible.sells[Bin]
               onSale == IF same THEN offered ELSE Nothing
    <3>1. Turn(feasible, suppressed, remaining, onSale, debt)
      BY <2>1 DEF SameDay
    <3>2. PlanOK(feasible)
      BY <1>i, PlanIsPlan DEF AgentOK
    <3> HIDE DEF remaining, onSale
    <3> QED BY <1>i, <3>1, <3>2, TurnFits
  <2>2. CASE NewDay
    <3>1. PICK requested \in Plans :
             /\ feasible' = Projected(requested)
             /\ Turn(feasible', suppressed', requested.sells[Bin], Nothing, {})
      BY <2>2 DEF NewDay
    <3>2. PICK plan, holdBack, remaining :
             plan = feasible' /\ holdBack = suppressed' /\ remaining = requested.sells[Bin]
      OBVIOUS
    <3>3. Turn(plan, holdBack, remaining, Nothing, {})
      BY <3>1, <3>2
    <3>4. plan \in DailyPlan
      <4>1. requested \in DailyPlan /\ FieldOK
        BY <1>i, ExecutorAssumption DEF Inv
      <4> QED BY <1>i, <3>1, <3>2, <4>1, ProjectedIs
    <3>5. PlanOK(plan)
      BY <3>4, PlanIsPlan
    <3> QED BY <1>i, <3>3, <3>5, TurnFits
  <2>3. CASE ManagerFails
    <3>1. orders' = [u \in Units |-> Pass] /\ blocked' = {}
      BY <2>3 DEF ManagerFails, PassAll
    <3>2. \A u \in Units : orders'[u] = Pass
      BY <3>1
    <3>3. PICK o : o = orders'
      OBVIOUS
    <3>4. \A u \in Units : o[u] = Pass
      BY <3>2, <3>3
    <3>5. \A u \in Units : Suits(o[u], u)
      BY <3>4, PassSuits
    <3>6. \A u, v \in Units : ~Clash(o[u].op, o[v].op)
      BY <3>4, PassSuits
    <3> QED BY <3>1, <3>3, <3>5, <3>6 DEF Fitted
  <2> QED BY <2>1, <2>2, <2>3
<1>2. Called
  BY DEF SameDay, NewDay, ManagerFails
<1>3. /\ field' = field /\ position' = position /\ unlocked' = unlocked /\ inventory' = inventory
  BY <1>2 DEF Called, stores
<1>4. \A u \in Units : Suits(orders'[u], u)
  BY <1>1 DEF Fitted
<1>5. \A u \in Units : Suits(orders[u], u)'
  BY <1>3, <1>4 DEF Suits
<1> QED BY <1>1, <1>3, <1>5 DEF Fitted, Labored

\* What a unit makes of its tile leaves a tile that suits the order of whoever stands on it
\* too, unless the orders clash.
Alters(t, s, op) ==
  \/ op = "PLANT" /\ Vacant(t) /\ \E c \in Crops : s = Planted(t, c, day)
  \/ op = "WATER" /\ Watering(t, s)
  \/ op = "FERTILIZE" /\ Fertilizing(t, s)
  \/ op = "FEED" /\ Feeding(t, s)
  \/ op = "CARE" /\ Caring(t, s)
  \/ op = "HARVEST" /\ (Reaping(t, s) \/ Gathering(t, s))
  \/ op = "DIG" /\ Digging(t, s)
  \/ op = "BUILD" /\ Building(t, s)
  \/ op = "PLACE" /\ Housing(t, s)
  \/ op = "COLLECT_FERTILIZER" /\ Mucking(t, s)

\* The tile's part in Suits.
Finds(t, o, owned) ==
  /\ o.op = "PLANT" => owned /\ Vacant(t)
  /\ o.op = "BUILD" => owned /\ (Vacant(t) \/ t.crop # None)
  /\ o.op = "PLACE" => o.target \in Animals /\ Welcomes(t, o.target)
  /\ o.op = "FEED" => t.animal # None /\ ~t.fed
  /\ o.op = "CARE" => t.animal # None
  /\ o.op = "COLLECT_FERTILIZER" => t.animal # None /\ t.fertilizer

\* What there is on a tile as far as orders go.
SameUse(t, s) == /\ s.crop = t.crop /\ s.weed = t.weed /\ s.structure = t.structure
                 /\ s.animal = t.animal

LEMMA StillSuits ==
  ASSUME NEW t \in Tile, OneUse(t), NEW s, day \in Nat, NEW op, Alters(t, s, op), NEW o,
         NEW owned \in BOOLEAN, Finds(t, o, owned), ~Clash(op, o.op)
  PROVE  Finds(s, o, owned)
<1>a. /\ None \notin Crops /\ None \notin Structures /\ None \notin Animals
      /\ \A a \in Animals : StructureOf[a] \in Structures
  BY FieldAssumption
<1>1. CASE op \in {"WATER", "FERTILIZE", "FEED", "CARE", "COLLECT_FERTILIZER"}
           \/ (op = "HARVEST" /\ Gathering(t, s))
  <2>1. SameUse(t, s)
    BY <1>1 DEF Alters, Watering, CropWatered, Fertilizing, CropFertilized, Feeding, Caring, Mucking,
                Gathering, SameUse, Tile
  <2>2. op # "FEED" => s.fed = t.fed
    BY <1>1 DEF Alters, Watering, CropWatered, Fertilizing, CropFertilized, Caring, Mucking,
                Gathering, Tile
  <2>3. op # "COLLECT_FERTILIZER" => s.fertilizer = t.fertilizer
    BY <1>1 DEF Alters, Watering, CropWatered, Fertilizing, CropFertilized, Feeding, Caring,
                Gathering, Tile
  <2>4. (op = "FEED" => o.op # "FEED") /\ (op = "COLLECT_FERTILIZER" => o.op # "COLLECT_FERTILIZER")
    BY DEF Clash
  <2> QED BY <2>1, <2>2, <2>3, <2>4 DEF SameUse, Finds, Vacant, Welcomes
<1>2. CASE op = "HARVEST" /\ Reaping(t, s)
  <2>1. t.crop # None /\ ~t.weed /\ t.structure = None
    BY <1>2 DEF Reaping, OneUse
  <2>2. t.animal = None
    BY <2>1, <1>a DEF OneUse, Tile
  <2>3. s.weed = t.weed /\ s.structure = t.structure /\ s.animal = t.animal
    BY <1>2 DEF Reaping, CropHarvested, Uprooted, Tile
  <2>4. s.crop # None \/ s.crop = None
    OBVIOUS
  <2>5. ~Vacant(t)
    BY <2>1 DEF Vacant
  <2>6. \A a \in Animals : ~Welcomes(t, a)
    BY <2>1, <1>a DEF Welcomes
  <2>7. Vacant(s) \/ s.crop # None
    BY <2>1, <2>3 DEF Vacant
  <2> QED BY <2>2, <2>5, <2>6, <2>7 DEF Finds
<1>3. CASE op = "PLANT"
  <2>1. Vacant(t) /\ o.op # "PLANT" /\ o.op # "BUILD"
    BY <1>3 DEF Alters, Clash
  <2>2. t.animal = None /\ \A a \in Animals : ~Welcomes(t, a)
    BY <2>1, <1>a DEF Vacant, Welcomes, OneUse, Tile
  <2> QED BY <2>1, <2>2 DEF Finds
<1>4. CASE op = "BUILD"
  <2>1. Vacant(t) /\ o.op # "PLANT" /\ o.op # "BUILD"
    BY <1>4 DEF Alters, Building, Clash
  <2>2. t.animal = None /\ \A a \in Animals : ~Welcomes(t, a)
    BY <2>1, <1>a DEF Vacant, Welcomes, OneUse, Tile
  <2> QED BY <2>1, <2>2 DEF Finds
<1>5. CASE op = "PLACE"
  <2>1. PICK a \in Animals : Welcomes(t, a)
    BY <1>5 DEF Alters, Housing
  <2>2. o.op # "PLACE"
    BY <1>5 DEF Clash
  <2>3. t.animal = None /\ ~Vacant(t) /\ t.crop = None
    BY <2>1, <1>a DEF Welcomes, Vacant, OneUse
  <2> QED BY <2>2, <2>3 DEF Finds
<1>6. CASE op = "DIG"
  <2>1. /\ s = Dug(t) /\ s.crop = None /\ ~s.weed /\ s.animal = t.animal
        /\ s.fed = t.fed /\ s.cared = t.cared /\ s.fertilizer = t.fertilizer
    BY <1>6, DugFields DEF Alters, Digging, SameAnimal
  <2>2. t.structure = None => s.structure = None
    BY <2>1 DEF Dug, Uprooted, Tile
  <2>3. o.op # "PLACE"
    BY <1>6 DEF Clash
  <2>4. Vacant(t) => Vacant(s)
    BY <2>1, <2>2 DEF Vacant
  <2>5. t.crop # None => Vacant(s)
    BY <2>1, <2>2 DEF Vacant, OneUse
  <2> QED BY <2>1, <2>3, <2>4, <2>5 DEF Finds
<1> QED BY <1>1, <1>2, <1>3, <1>4, <1>5, <1>6 DEF Alters

\* A step of the units leaves the tiles as they are or alters the one at hand by its order.
LEMMA UnitsAlter ==
  ASSUME ClockOK, FieldOK, UnitActs
  PROVE  \/ field' = field
         \/ \E s : field' = [field EXCEPT ![here] = s] /\ Alters(tile, s, order.op)
<1>1. CASE Skip \/ Move \/ PickUp \/ Drop
  BY <1>1 DEF Skip, Move, PickUp, Drop
<1>2. CASE Plant
  <2>1. Serving /\ Vacant(tile) /\ order.op = "PLANT"
    BY <1>2, EffectiveFacts DEF Plant, Acts
  <2>2. order.target \in Crops
    BY <2>1, ServingFacts, OrderFields
  <2> QED BY <1>2, <2>1, <2>2 DEF Plant, Becomes, Alters
<1>3. CASE Harvest
  <2>1. order.op = "HARVEST" /\ (tile.animal = None => tile.crop # None)
    BY <1>3, EffectiveFacts DEF Harvest, Acts, Ripe
  <2> QED BY <1>3, <2>1 DEF Harvest, Becomes, Alters, Reaping, Gathering
<1>4. CASE Feed
  <2>1. order.op = "FEED" /\ tile.animal # None
    BY <1>4, EffectiveFacts DEF Feed, Acts
  <2> QED BY <1>4, <2>1 DEF Feed, Becomes, Alters, Feeding
<1>5. CASE Water
  <2>1. order.op = "WATER" /\ tile.crop # None
    BY <1>5, EffectiveFacts DEF Water, Acts
  <2> QED BY <1>5, <2>1 DEF Water, Becomes, Alters, Watering
<1>6. CASE Build
  <2>1. Serving /\ order.op = "BUILD" /\ Vacant(tile)
    BY <1>6, EffectiveFacts DEF Build, Acts
  <2>2. order.target \in Structures
    BY <2>1, ServingFacts, OrderFields
  <2> QED BY <1>6, <2>1, <2>2 DEF Build, Becomes, Alters, Building
<1>7. CASE Fertilize
  <2>1. order.op = "FERTILIZE" /\ tile.crop # None
    BY <1>7, EffectiveFacts DEF Fertilize, Acts
  <2> QED BY <1>7, <2>1 DEF Fertilize, Becomes, Alters, Fertilizing
<1>8. CASE Care
  <2>1. order.op = "CARE" /\ tile.animal # None
    BY <1>8, EffectiveFacts DEF Care, Acts
  <2> QED BY <1>8, <2>1 DEF Care, Becomes, Alters, Caring
<1>9. CASE CollectFertilizer
  <2>1. order.op = "COLLECT_FERTILIZER" /\ tile.animal # None
    BY <1>9, EffectiveFacts DEF CollectFertilizer, Acts
  <2> QED BY <1>9, <2>1 DEF CollectFertilizer, Becomes, Alters, Mucking
<1>10. CASE Dig
  BY <1>10 DEF Dig, Acts, Becomes, Alters, Digging
<1>11. CASE Place
  <2>1. CASE Houses
    BY <1>11, <2>1 DEF Place, Acts, Houses, Becomes, Alters, Housing
  <2>2. CASE ~Houses
    BY <1>11, <2>2 DEF Place
  <2> QED BY <2>1, <2>2
<1> QED BY <1>1, <1>2, <1>3, <1>4, <1>5, <1>6, <1>7, <1>8, <1>9, <1>10, <1>11 DEF UnitActs

\* Who acts goes on to the next unit, but for the one that is emptying its hands.
LEMMA NextServed ==
  ASSUME UnitActs PROVE next' = next + 1 \/ order.op = "DROP"
BY DEF UnitActs, Skip, Move, Plant, Harvest, Feed, Water, Build, Fertilize, Care,
       CollectFertilizer, Dig, Place, PickUp, Drop, Served, Acts

LEMMA LaboredActs ==
  ASSUME AgentInv, Labored, UnitActs PROVE Labored'
<1>i. ClockOK /\ FieldOK /\ ShedOK /\ CarryOK
  BY DEF AgentInv, Inv
<1>1. /\ Serving /\ next \in Units /\ next' \in {next, next + 1}
      /\ UNCHANGED <<orders, hand_count, phase, day, hour, unlocked>>
      /\ \A u \in Units \ {next} : position'[u] = position[u]
  BY <1>i, ActFrame
<1>2. /\ phase = "units" /\ blocked = {}
      /\ \A u \in Units : u >= next => Suits(orders[u], u)
      /\ \A u, v \in Units : u >= next /\ v >= next /\ u # v /\ position[u] = position[v]
                               => ~Clash(orders[u].op, orders[v].op)
  BY <1>1 DEF Labored, Serving
<1>3. blocked' = {}
  <2>1. blocked' = blocked
    BY DEF UnitActs, Skip, Move, Plant, Harvest, Feed, Water, Build, Fertilize, Care,
           CollectFertilizer, Dig, Place, PickUp, Drop, Served, turn
  <2> QED BY <1>2, <2>1
<1>4. \A u \in Units : inventory'[u] = inventory[u] \/ u = next
  BY <1>i, GoodsUnits DEF OnlyCarrier
<1>5. /\ here \in Board /\ tile \in Tile /\ OneUse(tile) /\ day \in Nat
      /\ field \in [Board -> Tile] /\ position \in [Units -> Board]
      /\ unlocked \in [Quadrants -> BOOLEAN]
  <2>1. here \in Board
    BY <1>i, <1>1, ServingFacts
  <2> QED BY <1>i, <2>1 DEF FieldOK, TilesOneUse, tile, ClockOK
<1>6. \A u \in Units : u >= next' => u >= next /\ (u # next \/ orders[u].op = "DROP")
  <2>1. next' = next + 1 \/ order.op = "DROP"
    BY NextServed
  <2> QED BY <1>1, <2>1 DEF Units, order
<1>7. ASSUME NEW u \in Units, u >= next'
      PROVE  Suits(orders[u], u)'
  <2>1. orders[u].op # "DROP"
    BY <1>2, <1>6, <1>7 DEF Suits
  <2>2. CASE u # next
    <3>1. /\ u >= next /\ orders'[u] = orders[u] /\ position'[u] = position[u]
          /\ inventory'[u] = inventory[u] /\ unlocked' = unlocked
      BY <1>1, <1>4, <1>6, <1>7, <2>2
    <3>2. PICK o : o = orders[u]
      OBVIOUS
    <3> DEFINE p == position[u]
               owned == unlocked[Quadrant(p)]
    <3>3. Suits(o, u)
      BY <1>2, <3>1, <3>2
    <3>4. p \in Board /\ owned \in BOOLEAN
      <4>1. p \in Board
        BY <1>5
      <4>2. Quadrant(p) \in Quadrants
        BY DEF Quadrant, Quadrants
      <4> QED BY <1>5, <4>1, <4>2
    <3>5. Finds(field[p], o, owned)
      BY <3>3 DEF Suits, Finds
    <3>6. Finds(field'[p], o, owned)
      <4>1. CASE field'[p] = field[p]
        BY <3>5, <4>1
      <4>2. CASE field'[p] # field[p]
        <5>1. PICK s : field' = [field EXCEPT ![here] = s] /\ Alters(tile, s, order.op)
          BY <1>i, <4>2, UnitsAlter
        <5>2. p = here /\ field'[p] = s
          BY <1>5, <3>4, <4>2, <5>1
        <5>3. ~Clash(order.op, o.op)
          <6>1. next >= next
            BY <1>1 DEF Units
          <6> QED BY <1>1, <1>2, <2>2, <3>1, <3>2, <5>2, <6>1 DEF order, here
        <5>4. Finds(tile, o, owned)
          BY <3>5, <5>2 DEF tile
        <5> HIDE DEF owned
        <5>5. Finds(s, o, owned)
          BY <1>5, <3>4, <5>1, <5>3, <5>4, StillSuits
        <5> QED BY <5>2, <5>5
      <4> QED BY <4>1, <4>2
    <3>7. /\ o.op # "DROP"
          /\ o.op = "PLACE" => inventory[u][o.target] > 0
          /\ o.op = "FEED" => inventory[u][Wheat] > 0
      BY <3>3 DEF Suits
    <3>8. /\ field'[p] = field'[position'[u]] /\ owned = unlocked'[Quadrant(position'[u])]
      BY <3>1
    <3> QED BY <3>1, <3>2, <3>6, <3>7, <3>8 DEF Suits, Finds
  <2> QED BY <1>6, <1>7, <2>1, <2>2
<1>8. ASSUME NEW u \in Units, NEW v \in Units, u >= next', v >= next', u # v,
             position'[u] = position'[v], Clash(orders'[u].op, orders'[v].op)
      PROVE  FALSE
  <2>1. u >= next /\ v >= next /\ orders' = orders
    BY <1>1, <1>6, <1>8
  <2>2. orders[u].op # "DROP" /\ orders[v].op # "DROP"
    BY <1>8, <2>1 DEF Clash
  <2>3. position'[u] = position[u] /\ position'[v] = position[v]
    BY <1>1, <1>6, <1>8, <2>2
  <2> QED BY <1>2, <1>8, <2>1, <2>3
<1> QED BY <1>3, <1>7, <1>8 DEF Labored

LEMMA LaboredStep ==
  ASSUME AgentInv, Labored, [ExecutorNext]_all PROVE Labored'
<1>1. CASE SameDay \/ NewDay \/ ManagerFails
  BY <1>1, LaboredCalled
<1>2. CASE FarmPlays /\ UnitActs
  BY <1>2, LaboredActs
<1>3. CASE FarmPlays /\ ~UnitActs /\ ~SubmitWhenDone
  <2>1. phase' # "units"
    BY <1>3 DEF FarmPlays, UnitsDone, PassSlot, Filled, BuySeed, BuyGoods, Sell, Hire, BuyLand,
                Trades, EndTurn, Dusk, StoreCarried, Dawn
  <2> QED BY <2>1 DEF Labored
<1>4. CASE (FarmPlays /\ SubmitWhenDone) \/ UNCHANGED all
  <2>1. UNCHANGED vars
    BY <1>4 DEF SubmitWhenDone, all
  <2> QED BY <2>1 DEF vars, turn, stores, Labored, Suits
<1> QED BY <1>1, <1>2, <1>3, <1>4 DEF ExecutorNext

\* Seeds are left for whoever is to plant: no more units plant a crop than there are seeds.
LEMMA SeedLeft ==
  ASSUME ClockOK, SeedsReserved, Serving, order.op = "PLANT", blocked = {}
  PROVE  order.target \in Crops /\ seeds[order.target] > 0
<1>1. next \in Units /\ phase = "units" /\ order \in UnitOrder
  BY ServingFacts
<1>2. order.target \in Crops
  BY <1>1, OrderFields
<1> DEFINE c == order.target
           waiting == {u \in Requests(orders, c) : u >= next}
<1>3. Cardinality(waiting) <= seeds[c]
  BY <1>1, <1>2 DEF SeedsReserved
<1>4. next \in waiting
  BY <1>1 DEF Requests, order, Units
<1>5. IsFiniteSet(waiting) /\ Cardinality(waiting) \in Nat
  <2>1. waiting \subseteq Requests(orders, c)
    OBVIOUS
  <2> HIDE DEF waiting
  <2> QED BY <2>1, RequestsCounted, FS_Subset, FS_CardinalityType
<1> HIDE DEF waiting
<1>6. Cardinality(waiting) # 0
  BY <1>4, <1>5, FS_EmptySet
<1>7. seeds[c] \in Nat
  BY <1>2 DEF ClockOK
<1> QED BY <1>2, <1>3, <1>5, <1>6, <1>7

LEMMA LaborUseful == ASSUME AgentInv, Labored PROVE LaborNotWasted
<1>i. ClockOK /\ FieldOK /\ SeedsReserved
  BY DEF AgentInv, Inv
<1> SUFFICES ASSUME Serving, order.op \in {"PLANT", "FEED", "PLACE", "CARE", "BUILD",
                                           "COLLECT_FERTILIZER"}
             PROVE  \/ IF order.op = "PLACE" THEN Houses ELSE Effective
                    \/ order.op = "BUILD" /\ tile.crop # None
  BY DEF LaborNotWasted
<1>1. Suits(order, next) /\ blocked = {}
  <2>1. next \in Units /\ phase = "units" /\ next >= next
    BY <1>i, ServingFacts DEF Units
  <2> QED BY <2>1 DEF Labored, order
<1>2. here \in Board /\ tile \in Tile /\ OneUse(tile)
  <2>1. here \in Board
    BY <1>i, ServingFacts
  <2> QED BY <1>i, <2>1 DEF FieldOK, TilesOneUse, tile
<1>3. tile.animal # None => ~Vacant(tile)
  BY <1>2, FieldAssumption DEF Vacant, OneUse, Tile
<1>4. ~Vacant(tile) => open
  BY <1>i, OpenLand
<1>5. CASE order.op = "PLANT"
  <2>1. open /\ Vacant(tile) /\ seeds[order.target] > 0 /\ order.target \notin blocked
    BY <1>i, <1>1, <1>5, SeedLeft DEF Suits, open, tile, here
  <2> QED BY <1>5, <2>1 DEF Effective
<1>6. CASE order.op = "BUILD"
  BY <1>1, <1>6 DEF Suits, open, tile, here, Effective
<1>7. CASE order.op = "PLACE"
  BY <1>1, <1>7 DEF Suits, tile, here, Houses, holds
<1>8. CASE order.op = "FEED"
  <2>1. tile.animal # None /\ ~tile.fed /\ holds(Wheat)
    BY <1>1, <1>8 DEF Suits, tile, here, holds
  <2> QED BY <1>3, <1>4, <1>8, <2>1 DEF Effective
<1>9. CASE order.op \in {"CARE", "COLLECT_FERTILIZER"}
  <2>1. tile.animal # None /\ (order.op = "COLLECT_FERTILIZER" => tile.fertilizer)
    BY <1>1, <1>9 DEF Suits, tile, here
  <2> QED BY <1>3, <1>4, <1>9, <2>1 DEF Effective
<1> QED BY <1>5, <1>6, <1>7, <1>8, <1>9

\* No labor is wasted: whoever is sent to plant, feed, place, care, build or collect finds
\* the tile, the seed and the item there when its turn comes, whatever the workers before
\* it did; two tasks that would spoil each other are never given out together
\* (LaborNotWasted; the seed budget and the claims of run_foreman, the dependencies of
\* generate_tasks, the tile claims of plan_day_layouts).
THEOREM LaborHolds == ExecutorSpec => []LaborNotWasted
<1>1. ExecutorInit => AgentInv /\ Labored
  BY AgentStarts, LaboredStarts
<1>2. AgentInv /\ Labored /\ [ExecutorNext]_all => AgentInv' /\ Labored'
  BY AgentStep, LaboredStep
<1>3. AgentInv /\ Labored => LaborNotWasted
  BY LaborUseful
<1> QED BY <1>1, <1>2, <1>3, PTL DEF ExecutorSpec

-----------------------------------------------------------------------------
(* THE HERD'S MEALS *)

\* What one unit takes or puts away is what all carry more or less.
LEMMA CarryingMoves ==
  ASSUME CarryOK, CarryOK', NEW u \in Units, OnlyCarrier(u), NEW i \in Items
  PROVE  Carrying(i)' = Carrying(i) + (inventory'[u][i] - inventory[u][i])
<1>1. PICK f, g : f = [v \in Units |-> inventory[v][i]] /\ g = [v \in Units |-> inventory'[v][i]]
  OBVIOUS
<1>2. (\A v \in Units : f[v] \in Int) /\ (\A v \in Units : g[v] \in Int)
  BY <1>1 DEF CarryOK
<1>3. \A v \in Units \ {u} : g[v] = f[v]
  BY <1>1 DEF OnlyCarrier
<1>4. SumFunctionOnSet(g, Units) = SumFunctionOnSet(f, Units) + (g[u] - f[u])
  BY <1>2, <1>3, FiniteKinds, SumShift
<1>5. Carrying(i) = SumFunctionOnSet(f, Units) /\ Carrying(i)' = SumFunctionOnSet(g, Units)
  BY <1>1 DEF Carrying
<1> QED BY <1>1, <1>4, <1>5

\* Units at work leave the farm its wheat, but for what they feed.
LEMMA WheatActs ==
  ASSUME ClockOK, FieldOK, ShedOK, CarryOK, UnitActs, order.op # "DROP", order.op = "PLACE" => Houses
  PROVE  Available(Wheat)' >= Available(Wheat) - (IF Feed THEN 1 ELSE 0)
<1>0. Serving /\ next \in Units
  BY ActFrame
<1>a. order \in UnitOrder /\ tile \in Tile
  BY <1>0, ServingFacts, HereSound
<1>b. /\ Wheat \in Items /\ Fertilizer \in Items /\ Crops \subseteq Items /\ Animals \subseteq Items
      /\ Fertilizer # Wheat /\ Wheat \notin Animals
  BY FarmAssumption
<1>c. ShedOK' /\ CarryOK' /\ OnlyCarrier(next)
  BY GoodsUnits
<1>d. /\ inventory \in [Units -> [Items -> Nat]] /\ shed \in [Items -> Nat]
      /\ shed'[Wheat] \in Nat /\ inventory'[next][Wheat] \in Nat
  BY <1>0, <1>b, <1>c, StoresAssumption DEF ShedOK, CarryOK
<1> DEFINE had == shed[Wheat] + inventory[next][Wheat]
           has == shed'[Wheat] + inventory'[next][Wheat]
<1>e. ASSUME NEW i \in Items, NEW n \in Nat, Receive(next, i, n)
      PROVE  inventory'[next][Wheat] >= inventory[next][Wheat]
  <2>1. inventory' = [inventory EXCEPT ![next][i] = @ + n]
    BY <1>e DEF Receive
  <2>2. CASE i = Wheat
    <3>1. inventory'[next][Wheat] = inventory[next][Wheat] + n
      BY <1>0, <1>b, <1>d, <2>1, <2>2
    <3>2. inventory[next][Wheat] \in Nat
      BY <1>0, <1>b, <1>d
    <3> QED BY <3>1, <3>2
  <2>3. CASE i # Wheat
    <3>1. inventory'[next][Wheat] = inventory[next][Wheat]
      BY <1>0, <1>b, <1>d, <2>1, <2>3
    <3>2. inventory[next][Wheat] \in Nat
      BY <1>0, <1>b, <1>d
    <3> QED BY <3>1, <3>2
  <2> QED BY <2>2, <2>3
<1>f. ASSUME NEW i \in Items \ {Wheat}, NEW n \in Nat, Spend(next, i, n)
      PROVE  inventory'[next][Wheat] = inventory[next][Wheat]
  <2>1. inventory' = [inventory EXCEPT ![next][i] = @ - n]
    BY <1>f DEF Spend
  <2> QED BY <1>0, <1>b, <1>d, <2>1
<1>g. shed[Wheat] \in Nat /\ inventory[next][Wheat] \in Nat
  BY <1>0, <1>b, <1>d
<1> SUFFICES has >= had - (IF Feed THEN 1 ELSE 0)
  <2>1. SUFFICES ASSUME has >= had - (IF Feed THEN 1 ELSE 0)
                 PROVE  Available(Wheat)' >= Available(Wheat) - (IF Feed THEN 1 ELSE 0)
    OBVIOUS
  <2>2. Carrying(Wheat)' = Carrying(Wheat) + (inventory'[next][Wheat] - inventory[next][Wheat])
    BY <1>0, <1>b, <1>c, CarryingMoves
  <2>3. Carrying(Wheat) \in Int
    BY <1>b, GoodsCounted
  <2>4. Available(Wheat)' = shed'[Wheat] + Carrying(Wheat)' /\ Available(Wheat) = shed[Wheat] + Carrying(Wheat)
    BY DEF Available
  <2> QED BY <1>d, <1>g, <2>1, <2>2, <2>3, <2>4
<1>1. CASE Skip \/ Move \/ Plant \/ Water \/ Build \/ Care \/ Dig
  <2>1. has = had
    BY <1>1 DEF Skip, Move, Plant, Water, Build, Care, Dig, stores
  <2> QED BY <1>d, <1>g, <2>1
<1>2. CASE Harvest
  <2>1. shed' = shed
    BY <1>2 DEF Harvest
  <2>2. inventory'[next][Wheat] >= inventory[next][Wheat]
    <3>1. CASE tile.animal # None
      <4>1. AnimalProduct[tile.animal] \in Items /\ tile.animal_yield \in Nat
        BY <3>1, <1>a, FarmAssumption DEF Tile
      <4> QED BY <1>2, <3>1, <4>1, <1>e DEF Harvest
    <3>2. CASE tile.animal = None
      <4>1. tile.crop \in Items /\ tile.yield \in Nat
        BY <1>2, <1>a, <1>b, <3>2, EffectiveFacts DEF Harvest, Ripe, Tile
      <4> QED BY <1>2, <3>2, <4>1, <1>e DEF Harvest
    <3> QED BY <3>1, <3>2
  <2> QED BY <1>g, <1>d, <2>1, <2>2
<1>3. CASE Feed
  <2>1. shed' = shed /\ inventory' = [inventory EXCEPT ![next][Wheat] = @ - 1]
    BY <1>3 DEF Feed, Spend
  <2>2. inventory'[next][Wheat] = inventory[next][Wheat] - 1
    BY <1>0, <1>b, <1>d, <2>1
  <2> QED BY <1>3, <1>g, <2>1, <2>2
<1>4. CASE Fertilize
  BY <1>4, <1>b, <1>f, <1>g DEF Fertilize
<1>5. CASE CollectFertilizer
  BY <1>5, <1>b, <1>d, <1>e, <1>g DEF CollectFertilizer
<1>6. CASE Place
  <2>1. Houses /\ order.target \in Items \ {Wheat}
    BY <1>6, <1>b DEF Place, Acts, Houses
  <2>2. Spend(next, order.target, 1) /\ shed' = shed
    BY <1>6, <2>1 DEF Place
  <2> QED BY <2>1, <2>2, <1>f, <1>g
<1>7. CASE PickUp
  <2> DEFINE i == order.target
             moved == Lesser(order.n, shed[i])
  <2>1. i \in Items /\ order.n \in Nat /\ shed[i] \in Nat
    BY <1>7, <1>a, <1>d, OrderFields DEF PickUp, Acts
  <2>2. shed' = [shed EXCEPT ![i] = @ - moved] /\ inventory' = [inventory EXCEPT ![next][i] = @ + moved]
    BY <1>7 DEF PickUp, MoveFromShed, Receive
  <2>3. moved \in Nat
    BY <2>1, LesserSound
  <2> HIDE DEF i, moved
  <2>4. CASE i = Wheat
    <3>1. shed'[Wheat] = shed[Wheat] - moved
      BY <1>b, <1>d, <2>2, <2>4
    <3>2. inventory'[next][Wheat] = inventory[next][Wheat] + moved
      BY <1>0, <1>b, <1>d, <2>2, <2>4
    <3> QED BY <1>g, <2>3, <3>1, <3>2
  <2>5. CASE i # Wheat
    <3>1. shed'[Wheat] = shed[Wheat]
      BY <1>b, <1>d, <2>2, <2>5
    <3>2. inventory'[next][Wheat] = inventory[next][Wheat]
      BY <1>0, <1>b, <1>d, <2>2, <2>5
    <3> QED BY <1>g, <3>1, <3>2
  <2> QED BY <2>4, <2>5
<1>8. ~Drop
  BY DEF Drop, Acts
<1> QED
  BY <1>1, <1>2, <1>3, <1>4, <1>5, <1>6, <1>7, <1>8 DEF UnitActs

\* An animal that is still to be fed today.
Unfed(t) == t.animal # None /\ ~t.fed

LEMMA WorkFeeds ==
  ASSUME NEW t \in Tile, OneUse(t), NEW s, NEW op, Alters(t, s, op)
  PROVE  /\ op # "PLACE" /\ Unfed(s) => Unfed(t)
         /\ op = "FEED" => ~Unfed(s)
<1> USE DEF Unfed
<1>1. CASE op = "PLANT"
  BY <1>1 DEF Alters, Planted, Tile
<1>2. CASE op \in {"WATER", "FERTILIZE", "CARE", "COLLECT_FERTILIZER", "BUILD"}
  BY <1>2 DEF Alters, Watering, CropWatered, Fertilizing, CropFertilized, Caring, Mucking,
              Building, Built, Tile
<1>3. CASE op = "FEED"
  BY <1>3 DEF Alters, Feeding, Tile
<1>4. CASE op = "HARVEST"
  <2>1. CASE Gathering(t, s)
    BY <1>4, <2>1 DEF Gathering, Tile
  <2>2. CASE Reaping(t, s)
    BY <1>4, <2>2 DEF Reaping, CropHarvested, Uprooted, Tile
  <2> QED BY <1>4, <2>1, <2>2 DEF Alters
<1>5. CASE op = "DIG"
  BY <1>5, DugFields DEF Alters, Digging, SameAnimal
<1>6. CASE op = "PLACE"
  BY <1>6
<1> QED BY <1>1, <1>2, <1>3, <1>4, <1>5, <1>6 DEF Alters

LEMMA HungryIs == Hungry = {p \in Board : Unfed(field[p])}
BY DEF Hungry, Herd, Unfed

\* Of the animals that were there, none gets hungry again today, and who is fed is not.
LEMMA HungryActs ==
  ASSUME ClockOK, FieldOK, UnitActs, NEW N, order.op = "PLACE" => here \in N,
         order.op = "FEED" => here \notin N
  PROVE  /\ Cardinality(Hungry \ N) \in Nat /\ Cardinality(Hungry' \ N) \in Nat
         /\ Cardinality(Hungry' \ N) <= Cardinality(Hungry \ N) - (IF Feed THEN 1 ELSE 0)
<1>1. Serving /\ here \in Board /\ tile \in Tile /\ OneUse(tile) /\ field \in [Board -> Tile]
  <2>1. Serving
    BY ActFrame
  <2>2. here \in Board
    BY <2>1, ServingFacts
  <2> QED BY <2>1, <2>2 DEF FieldOK, TilesOneUse, tile
<1>2. PICK h, k : h = Hungry \ N /\ k = Hungry' \ N
  OBVIOUS
<1>3. /\ h = {p \in Board : Unfed(field[p])} \ N
      /\ k = {p \in Board : Unfed(field'[p])} \ N
  <2>1. Hungry' = {p \in Board : Unfed(field'[p])}
    BY DEF Hungry, Herd, Unfed
  <2> QED BY <1>2, <2>1, HungryIs
<1>4. ASSUME NEW p \in k PROVE p \in h /\ (Feed => p # here)
  <2>1. p \in Board /\ p \notin N /\ Unfed(field'[p])
    BY <1>3
  <2>2. CASE field' = field
    <3>1. p \in h
      BY <1>3, <2>1, <2>2
    <3>2. Feed => field'[here] = [tile EXCEPT !.fed = TRUE]
      BY <1>1 DEF Feed, Becomes
    <3>3. Feed => ~Unfed(field'[here])
      BY <1>1, <3>2 DEF Unfed, Tile
    <3> QED BY <2>1, <3>1, <3>3
  <2>3. CASE \E s : field' = [field EXCEPT ![here] = s] /\ Alters(tile, s, order.op)
    <3>1. PICK s : field' = [field EXCEPT ![here] = s] /\ Alters(tile, s, order.op)
      BY <2>3
    <3>2. CASE p = here
      <4>1. field'[p] = s /\ Unfed(s)
        BY <1>1, <2>1, <3>1, <3>2
      <4>2. order.op # "PLACE"
        BY <2>1, <3>2
      <4>3. Unfed(tile) /\ order.op # "FEED"
        BY <1>1, <3>1, <4>1, <4>2, WorkFeeds
      <4> QED BY <1>3, <2>1, <3>2, <4>3 DEF tile, Feed, Acts
    <3>3. CASE p # here
      <4>1. field'[p] = field[p]
        BY <1>1, <2>1, <3>1, <3>3
      <4> QED BY <1>3, <2>1, <3>3, <4>1
    <3> QED BY <3>2, <3>3
  <2> QED BY <2>2, <2>3, UnitsAlter
<1>5. Feed => here \in h
  <2>1. SUFFICES ASSUME Feed PROVE here \in h
    OBVIOUS
  <2>2. order.op = "FEED" /\ tile.animal # None /\ ~tile.fed
    BY <2>1 DEF Feed, Acts, Effective, Moves
  <2> QED BY <1>1, <1>3, <2>2 DEF Unfed, tile
<1>6. IsFiniteSet(h) /\ Cardinality(h) \in Nat
  <2>1. h \in SUBSET Board
    BY <1>3
  <2> QED BY <2>1, FiniteKinds, FS_Subset, FS_CardinalityType
<1>7. k \subseteq h /\ IsFiniteSet(k) /\ Cardinality(k) \in Nat /\ Cardinality(k) <= Cardinality(h)
  <2>1. k \subseteq h
    BY <1>4
  <2> QED BY <1>6, <2>1, FS_Subset, FS_CardinalityType
<1>8. CASE Feed
  <2>1. k \subseteq h \ {here}
    BY <1>4, <1>8
  <2>2. IsFiniteSet(h \ {here}) /\ Cardinality(h \ {here}) = Cardinality(h) - 1
    BY <1>5, <1>6, <1>8, Shrinks
  <2>3. Cardinality(k) <= Cardinality(h) - 1
    BY <2>1, <2>2, FS_Subset
  <2> QED BY <1>2, <1>6, <1>7, <1>8, <2>3
<1>9. CASE ~Feed
  BY <1>2, <1>6, <1>7, <1>9
<1> QED BY <1>8, <1>9

\* While units are at work and the market opens, a sale of wheat that is still to come
\* leaves a meal for every animal that waits for one; nobody but the newcomers' keepers
\* puts more animals on the farm, and it is others that are fed.
Stocked ==
  /\ phase \in {"units", "market"} =>
        /\ \A k \in 1..Len(queue) :
              /\ queue[k].op = "SELL" /\ queue[k].target = Wheat
              /\ phase = "market" => k > slot
              => Available(Wheat) - queue[k].n >= Cardinality(Hungry \ seen.newcomers)
        /\ \A k \in 1..Len(queue) : queue[k].op = "SELL" => queue[k].target \in Products
        /\ \A j, k \in 1..Len(queue) :
              queue[j].op = "SELL" /\ queue[k].op = "SELL" /\ queue[j].target = queue[k].target
                => j = k
  /\ phase = "units" => \A u \in Units : u >= next =>
        /\ orders[u].op = "PLACE" => position[u] \in seen.newcomers
        /\ orders[u].op = "FEED" => position[u] \notin seen.newcomers

LEMMA StockedStarts == ExecutorInit => Stocked
BY DEF ExecutorInit, Stocked

\* What is for sale leaves the herd its meals.
LEMMA MealsSpared ==
  ASSUME ShedOK, CarryOK, NEW n \in Nat \ {0}, n <= ForSale(Wheat), NEW N
  PROVE  Available(Wheat) - n >= Cardinality(Hungry \ N)
<1>1. IsFiniteSet(Hungry) /\ Cardinality(Hungry) \in Nat
  <2>1. Hungry \in SUBSET Board
    BY DEF Hungry, Herd
  <2> QED BY <2>1, FiniteKinds, FS_Subset, FS_CardinalityType
<1>2. /\ Cardinality(Hungry \ N) \in Nat /\ Cardinality(Hungry \ N) <= Cardinality(Hungry)
  <2>1. Hungry \ N \in SUBSET Hungry
    OBVIOUS
  <2>2. IsFiniteSet(Hungry \ N) /\ Cardinality(Hungry \ N) <= Cardinality(Hungry)
    BY <1>1, <2>1, FS_Subset
  <2> QED BY <2>2, FS_CardinalityType
<1>3. Carrying(Wheat) \in Int /\ shed[Wheat] \in Nat /\ Available(Wheat) = shed[Wheat] + Carrying(Wheat)
  BY FarmAssumption, GoodsCounted DEF Available
<1> DEFINE short == Cardinality(Hungry) - Carrying(Wheat)
           reserve == Larger(0, short)
           spare == shed[Wheat] - reserve
<1>4. short \in Int /\ 0 \in Int
  BY <1>1, <1>3
<1>5. ForSale(Wheat) = Larger(0, spare)
  BY DEF ForSale
<1> HIDE DEF short
<1>6. reserve = IF 0 >= short THEN 0 ELSE short
  BY <1>4, TwoNumbers
<1> HIDE DEF reserve
<1>7. spare \in Int
  BY <1>3, <1>4, <1>6
<1> HIDE DEF spare
<1>8. Larger(0, spare) = IF 0 >= spare THEN 0 ELSE spare
  BY <1>4, <1>7, TwoNumbers
<1>9. n <= spare
  BY <1>5, <1>7, <1>8
<1>10. n <= shed[Wheat] - short
  BY <1>3, <1>4, <1>6, <1>7, <1>9 DEF spare
<1> QED BY <1>1, <1>2, <1>3, <1>10 DEF short

LEMMA StockedCalled ==
  ASSUME AgentInv, SameDay \/ NewDay \/ ManagerFails PROVE Stocked'
<1>i. Inv /\ ClockOK /\ FieldOK /\ ShedOK /\ CarryOK
  BY DEF AgentInv, Inv
<1>1. Called /\ (Observed(FALSE) \/ Observed(TRUE))
  BY DEF SameDay, NewDay, ManagerFails
<1>2. /\ phase' = "units" /\ next' = 0 /\ UNCHANGED <<field, position, shed, inventory, unlocked>>
  BY <1>1 DEF Called, stores, Farmer
<1>3. Spares(queue') /\ queue' \in Seq(Bids)
  BY SameDayIs, NewDayIs, FailsIs DEF AgentOK
<1>4. ASSUME NEW k \in 1..Len(queue'), queue'[k].op = "SELL", queue'[k].target = Wheat
      PROVE  Available(Wheat)' - queue'[k].n >= Cardinality(Hungry' \ seen'.newcomers)
  <2>1. PICK n, N : n = queue'[k].n /\ N = seen'.newcomers
    OBVIOUS
  <2>2. queue'[k] \in Bids
    BY <1>3, <1>4
  <2>3. n \in Nat \ {0} /\ n <= ForSale(Wheat)
    BY <1>3, <1>4, <2>1, <2>2 DEF Spares, Bids
  <2>4. Available(Wheat) - n >= Cardinality(Hungry \ N)
    BY <1>i, <2>3, MealsSpared
  <2>5. Available(Wheat)' = Available(Wheat) /\ Hungry' = Hungry
    BY <1>2 DEF Available, Carrying, Hungry, Herd
  <2> QED BY <2>1, <2>4, <2>5
<1>5. seen'.newcomers = {position[u] : u \in {u \in Units : orders'[u].op \in {"PLANT", "PLACE"}}}
  BY <1>1 DEF Observed
<1>6. \A u \in Units : orders'[u].op = "PLACE" => position'[u] \in seen'.newcomers
  BY <1>2, <1>5
<1>7. ASSUME NEW u \in Units, orders'[u].op = "FEED", position'[u] \in seen'.newcomers PROVE FALSE
  <2>1. PICK v \in Units : orders'[v].op \in {"PLANT", "PLACE"} /\ position[u] = position[v]
    BY <1>2, <1>5, <1>7
  <2>2. \A w \in Units : Suits(orders[w], w)'
    <3>1. Labored'
      BY LaboredCalled
    <3>2. \A w \in Units : w >= next'
      BY <1>2 DEF Units
    <3> QED BY <1>2, <3>1, <3>2 DEF Labored
  <2>3. PICK t : t = field[position[u]] /\ t \in Tile /\ OneUse(t)
    BY <1>i DEF ClockOK, FieldOK, TilesOneUse
  <2>4. t.animal # None
    BY <1>2, <1>7, <2>2, <2>3 DEF Suits
  <2>5. Vacant(t) \/ \E a : Welcomes(t, a)
    BY <1>2, <2>1, <2>2, <2>3 DEF Suits
  <2> QED BY <2>3, <2>4, <2>5, FieldAssumption DEF Vacant, Welcomes, OneUse, Tile
<1>8. /\ \A k \in 1..Len(queue') : queue'[k].op = "SELL" => queue'[k].target \in Products
      /\ \A j, k \in 1..Len(queue') :
         queue'[j].op = "SELL" /\ queue'[k].op = "SELL" /\ queue'[j].target = queue'[k].target => j = k
  BY <1>3 DEF Spares
<1> QED BY <1>2, <1>4, <1>6, <1>7, <1>8 DEF Stocked

LEMMA StockedActs ==
  ASSUME AgentInv, Labored, Stocked, UnitActs, UNCHANGED memory PROVE Stocked'
<1>i. ClockOK /\ FieldOK /\ ShedOK /\ CarryOK
  BY DEF AgentInv, Inv
<1>m. queue' = queue /\ seen' = seen
  BY DEF memory
<1>1. /\ Serving /\ next \in Units /\ next' \in {next, next + 1}
      /\ UNCHANGED <<orders, hand_count, phase, day, hour, unlocked>>
      /\ \A u \in Units \ {next} : position'[u] = position[u]
  BY <1>i, ActFrame
<1>2. phase = "units" /\ next >= next
  BY <1>1 DEF Serving, Units
<1>3. Suits(order, next)
  BY <1>1, <1>2 DEF Labored, order
<1>4. order.op # "DROP"
  BY <1>3 DEF Suits
<1>5. order.op = "PLACE" => Houses
  BY <1>3 DEF Suits, Houses, holds, tile, here
<1>6. /\ order.op = "PLACE" => here \in seen.newcomers
      /\ order.op = "FEED" => here \notin seen.newcomers
  BY <1>1, <1>2 DEF Stocked, order, here
<1>7. PICK N : N = seen.newcomers
  OBVIOUS
<1>8. Available(Wheat)' >= Available(Wheat) - (IF Feed THEN 1 ELSE 0)
  BY <1>i, <1>4, <1>5, WheatActs
<1>9. /\ Cardinality(Hungry \ N) \in Nat /\ Cardinality(Hungry' \ N) \in Nat
      /\ Cardinality(Hungry' \ N) <= Cardinality(Hungry \ N) - (IF Feed THEN 1 ELSE 0)
  BY <1>i, <1>6, <1>7, HungryActs
<1>10. Available(Wheat) \in Int /\ Available(Wheat)' \in Int
  <2>1. ShedOK' /\ CarryOK'
    BY <1>i, GoodsUnits
  <2>2. Wheat \in Items
    BY FarmAssumption
  <2>3. Carrying(Wheat)' \in Int
    <3>1. PICK f : f = [u \in Units |-> inventory'[u][Wheat]]
      OBVIOUS
    <3>2. \A u \in Units : f[u] \in Int
      BY <2>1, <2>2, <3>1 DEF CarryOK
    <3>3. SumFunctionOnSet(f, Units) \in Int
      BY <3>2, FiniteKinds, SumType
    <3> QED BY <3>1, <3>3 DEF Carrying
  <2>4. shed'[Wheat] \in Int
    BY <2>1, <2>2, StoresAssumption DEF ShedOK
  <2>5. Available(Wheat)' = shed'[Wheat] + Carrying(Wheat)'
    BY DEF Available
  <2> QED BY <1>i, <2>2, <2>3, <2>4, <2>5, GoodsCounted
<1>11. ASSUME NEW k \in 1..Len(queue), queue[k].op = "SELL", queue[k].target = Wheat
       PROVE  Available(Wheat)' - queue[k].n >= Cardinality(Hungry' \ N)
  <2>1. Available(Wheat) - queue[k].n >= Cardinality(Hungry \ N)
    BY <1>2, <1>7, <1>11 DEF Stocked
  <2>2. queue[k].n \in Int
    <3>1. queue[k] \in Bids
      BY DEF AgentInv, AgentOK
    <3> QED BY <3>1 DEF Bids
  <2> QED BY <1>8, <1>9, <1>10, <2>1, <2>2
<1>12. next' = next + 1
  BY <1>4, NextServed
<1>13. ASSUME NEW u \in Units, u >= next'
       PROVE  /\ orders'[u].op = "PLACE" => position'[u] \in seen'.newcomers
              /\ orders'[u].op = "FEED" => position'[u] \notin seen'.newcomers
  <2>1. u >= next /\ u # next
    BY <1>1, <1>12, <1>13 DEF Units
  <2>2. position'[u] = position[u] /\ orders'[u] = orders[u]
    BY <1>1, <2>1
  <2> QED BY <1>2, <1>m, <2>1, <2>2 DEF Stocked
<1>14. /\ \A k \in 1..Len(queue') : queue'[k].op = "SELL" => queue'[k].target \in Products
       /\ \A j, k \in 1..Len(queue') :
          queue'[j].op = "SELL" /\ queue'[k].op = "SELL" /\ queue'[j].target = queue'[k].target => j = k
  BY <1>2, <1>m DEF Stocked
<1>15. \A k \in 1..Len(queue') : queue'[k].op = "SELL" /\ queue'[k].target = Wheat
          => Available(Wheat)' - queue'[k].n >= Cardinality(Hungry' \ seen'.newcomers)
  BY <1>m, <1>7, <1>11
<1> QED BY <1>13, <1>14, <1>15 DEF Stocked

\* What a slot of the market does to the wheat.
LEMMA SlotServed ==
  ASSUME AgentInv, Stocked, slot < Len(queue), Filled(queue[slot + 1])
  PROVE  /\ phase = "market" /\ phase' = "market" /\ slot' = slot + 1 /\ field' = field
         /\ inventory' = inventory
         /\ \/ shed'[Wheat] >= shed[Wheat]
            \/ /\ queue[slot + 1].op = "SELL" /\ queue[slot + 1].target = Wheat
               /\ shed[Wheat] - shed'[Wheat] <= queue[slot + 1].n
<1>i. ShedOK
  BY DEF AgentInv, Inv
<1>1. /\ phase = "market" /\ phase' = "market" /\ slot' = slot + 1 /\ field' = field
      /\ inventory' = inventory
  BY DEF Filled, BuySeed, BuyGoods, Sell, Hire, BuyLand, Trades, stores
<1>2. Wheat \in Items /\ shed \in [Items -> Nat] /\ shed[Wheat] \in Nat
  BY <1>i, FarmAssumption, StoresAssumption DEF ShedOK
<1>3. PICK o : o = queue[slot + 1] /\ Filled(o)
  OBVIOUS
<1>o. o.n \in Nat /\ (phase = "market" /\ o.op = "SELL" => o.target \in Items)
  <2>1. slot \in Nat
    BY FarmAssumption DEF AgentInv, Inv, ClockOK
  <2>2. slot + 1 \in 1..Len(queue)
    BY <2>1 DEF AgentInv, AgentOK
  <2>3. o \in Bids
    BY <1>3, <2>2 DEF AgentInv, AgentOK
  <2>4. phase = "market" /\ o.op = "SELL" => o.target \in Products
    BY <1>3, <2>2 DEF Stocked
  <2>5. Products \subseteq Items
    BY ExecutorAssumption DEF Products
  <2> QED BY <2>3, <2>4, <2>5 DEF Bids
<1>4. CASE BuySeed \/ Hire \/ BuyLand
  <2>1. shed' = shed
    BY <1>4 DEF BuySeed, Hire, BuyLand, stores
  <2> QED BY <1>1, <1>2, <2>1
<1>5. CASE BuyGoods
  <2>1. PICK i \in {Wheat, Fertilizer} \cup Animals, n \in 1..OrderUnits : MoveToShed(i, n)
    BY <1>5 DEF BuyGoods
  <2>2. Lesser(n, ShedRoom) \in Nat
    <3>1. n \in Nat /\ ShedRoom \in Nat
      BY <1>i, FarmAssumption, ShedRoomSound
    <3> QED BY <3>1, LesserSound
  <2>3. shed' = [shed EXCEPT ![i] = @ + Lesser(n, ShedRoom)]
    BY <2>1 DEF MoveToShed
  <2>4. PICK m \in Nat : shed' = [shed EXCEPT ![i] = @ + m]
    BY <2>2, <2>3
  <2>5. shed'[Wheat] >= shed[Wheat]
    <3>1. CASE i = Wheat
      <4>1. shed'[Wheat] = shed[Wheat] + m
        BY <1>2, <2>4, <3>1
      <4> QED BY <1>2, <4>1
    <3>2. CASE i # Wheat
      <4>1. shed'[Wheat] = shed[Wheat]
        BY <1>2, <2>4, <3>2
      <4> QED BY <1>2, <4>1
    <3> QED BY <3>1, <3>2
  <2> QED BY <1>1, <2>5
<1>6. CASE o.op = "SELL" /\ Sell /\ shed[o.target] - shed'[o.target] \in 1..o.n
  <2>1. PICK i \in Items \ Animals, n \in 1..OrderUnits : MoveFromShed(i, n)
    BY <1>6 DEF Sell
  <2>2. shed' = [shed EXCEPT ![i] = @ - Lesser(n, shed[i])]
    BY <2>1 DEF MoveFromShed
  <2>3. PICK m : shed' = [shed EXCEPT ![i] = @ - m]
    BY <2>2
  <2>4. CASE i # Wheat
    <3>1. shed'[Wheat] = shed[Wheat]
      BY <1>2, <2>3, <2>4
    <3> QED BY <1>1, <1>2, <3>1
  <2>5. CASE i = Wheat /\ o.target = Wheat
    <3>1. shed[Wheat] - shed'[Wheat] <= o.n
      BY <1>6, <1>o, <2>5
    <3> QED BY <1>1, <1>3, <1>6, <2>5, <3>1
  <2>6. CASE i = Wheat /\ o.target # Wheat
    <3>1. o.target \in Items
      BY <1>1, <1>6, <1>o
    <3>2. shed'[o.target] = shed[o.target] /\ shed[o.target] \in Nat
      BY <2>3, <2>6, <1>2, <3>1
    <3> QED BY <1>6, <3>2
  <2> QED BY <2>4, <2>5, <2>6
<1> QED BY <1>3, <1>4, <1>5, <1>6 DEF Filled

LEMMA StockedTraded ==
  ASSUME AgentInv, Stocked, slot < Len(queue), Filled(queue[slot + 1]), UNCHANGED memory
  PROVE  /\ Stocked'
         /\ shed'[Wheat] < shed[Wheat] => Available(Wheat)' >= Cardinality(Hungry \ seen.newcomers)
<1>i. ShedOK /\ CarryOK
  BY DEF AgentInv, Inv
<1>m. queue' = queue /\ seen' = seen
  BY DEF memory
<1>1. /\ phase = "market" /\ phase' = "market" /\ slot' = slot + 1 /\ field' = field
      /\ inventory' = inventory
      /\ \/ shed'[Wheat] >= shed[Wheat]
         \/ /\ queue[slot + 1].op = "SELL" /\ queue[slot + 1].target = Wheat
            /\ shed[Wheat] - shed'[Wheat] <= queue[slot + 1].n
  BY SlotServed
<1>2. Wheat \in Items /\ Carrying(Wheat) \in Int /\ shed[Wheat] \in Nat
  BY <1>i, FarmAssumption, GoodsCounted
<1>3. shed'[Wheat] \in Int
  <2>1. ShedOK'
    <3>1. MarketServes /\ ClockOK
      BY DEF Filled, MarketServes, AgentInv, Inv
    <3> QED BY <1>i, <3>1, GoodsMarket
  <2> QED BY <1>2, <2>1, StoresAssumption DEF ShedOK
<1>4. /\ Available(Wheat) = shed[Wheat] + Carrying(Wheat)
      /\ Available(Wheat)' = shed'[Wheat] + Carrying(Wheat)
  BY <1>1 DEF Available, Carrying
<1>5. PICK h : h = Cardinality(Hungry \ seen.newcomers) /\ h \in Nat
  <2>1. Hungry \ seen.newcomers \in SUBSET Board
    BY DEF Hungry, Herd
  <2>2. Cardinality(Hungry \ seen.newcomers) \in Nat
    BY <2>1, FiniteKinds, FS_Subset, FS_CardinalityType
  <2> QED BY <2>2
<1>6. Hungry' = Hungry
  BY <1>1 DEF Hungry, Herd
<1>7. slot \in Nat /\ slot + 1 \in 1..Len(queue)
  <2>1. slot \in Nat
    BY FarmAssumption DEF AgentInv, Inv, ClockOK
  <2> QED BY <2>1 DEF AgentInv, AgentOK
<1>8. \A k \in 1..Len(queue) : queue[k].n \in Nat
  <2>1. \A k \in 1..Len(queue) : queue[k] \in Bids
    BY DEF AgentInv, AgentOK
  <2> QED BY <2>1 DEF Bids
<1>9. ASSUME NEW k \in 1..Len(queue), queue[k].op = "SELL", queue[k].target = Wheat, k > slot
      PROVE  Available(Wheat) - queue[k].n >= h
  BY <1>1, <1>5, <1>9 DEF Stocked
<1>10. /\ \A k \in 1..Len(queue) : queue[k].op = "SELL" => queue[k].target \in Products
       /\ \A j, k \in 1..Len(queue) :
             queue[j].op = "SELL" /\ queue[k].op = "SELL" /\ queue[j].target = queue[k].target => j = k
  BY <1>1 DEF Stocked
<1>11. ASSUME shed'[Wheat] < shed[Wheat] PROVE Available(Wheat)' >= h
  <2>1. /\ queue[slot + 1].op = "SELL" /\ queue[slot + 1].target = Wheat
        /\ shed[Wheat] - shed'[Wheat] <= queue[slot + 1].n
    BY <1>1, <1>2, <1>3, <1>11
  <2>2. Available(Wheat) - queue[slot + 1].n >= h
    BY <1>7, <1>9, <2>1
  <2>3. queue[slot + 1].n \in Nat
    BY <1>7, <1>8
  <2> QED BY <1>2, <1>3, <1>4, <1>5, <2>1, <2>2, <2>3
<1>12. ASSUME NEW k \in 1..Len(queue), queue[k].op = "SELL", queue[k].target = Wheat, k > slot + 1
       PROVE  Available(Wheat)' - queue[k].n >= h
  <2>1. Available(Wheat) - queue[k].n >= h
    BY <1>7, <1>9, <1>12
  <2>2. ~(queue[slot + 1].op = "SELL" /\ queue[slot + 1].target = Wheat)
    <3>1. k # slot + 1
      BY <1>7, <1>12
    <3> QED BY <1>7, <1>10, <1>12, <3>1
  <2>3. shed'[Wheat] >= shed[Wheat]
    BY <1>1, <2>2
  <2>4. queue[k].n \in Nat
    BY <1>8
  <2> QED BY <1>2, <1>3, <1>4, <1>5, <2>1, <2>3, <2>4
<1>13. \A k \in 1..Len(queue') : /\ queue'[k].op = "SELL" /\ queue'[k].target = Wheat
                                 /\ phase' = "market" => k > slot'
          => Available(Wheat)' - queue'[k].n >= Cardinality(Hungry' \ seen'.newcomers)
  BY <1>m, <1>1, <1>5, <1>6, <1>12
<1>14. Stocked'
  BY <1>m, <1>1, <1>10, <1>13 DEF Stocked
<1> QED BY <1>5, <1>11, <1>14

LEMMA StockedPlayed ==
  ASSUME AgentInv, Labored, Stocked, FarmPlays
  PROVE  /\ Stocked'
         /\ phase = "market" /\ shed'[Wheat] < shed[Wheat]
              => Available(Wheat)' >= Cardinality(Hungry \ seen.newcomers)
<1>m. UNCHANGED memory /\ queue' = queue /\ seen' = seen
  BY DEF FarmPlays, memory
<1>s. Wheat \in Items /\ shed[Wheat] \in Nat
  BY FarmAssumption, StoresAssumption DEF AgentInv, Inv, ShedOK
<1>1. CASE UnitActs
  <2>1. phase = "units"
    BY <1>1, ActFrame DEF AgentInv, Inv, Serving
  <2> QED BY <1>m, <1>1, <2>1, StockedActs
<1>2. CASE UnitsDone \/ PassSlot
  <2>1. /\ UNCHANGED <<field, shed, inventory>> /\ phase' = "market"
        /\ \/ phase = "units" /\ slot' = 0
           \/ phase = "market" /\ slot' = slot + 1
    BY <1>2 DEF UnitsDone, PassSlot, stores
  <2>2. Available(Wheat)' = Available(Wheat) /\ Hungry' = Hungry
    BY <2>1 DEF Available, Carrying, Hungry, Herd
  <2>3. slot \in Nat
    BY FarmAssumption DEF AgentInv, Inv, ClockOK
  <2>4. \A k \in 1..Len(queue) : phase = "market" /\ k > slot' => k > slot
    BY <2>1, <2>3
  <2>5. /\ \A k \in 1..Len(queue) : /\ queue[k].op = "SELL" /\ queue[k].target = Wheat /\ k > slot'
              => Available(Wheat) - queue[k].n >= Cardinality(Hungry \ seen.newcomers)
        /\ \A k \in 1..Len(queue) : queue[k].op = "SELL" => queue[k].target \in Products
        /\ \A j, k \in 1..Len(queue) :
              queue[j].op = "SELL" /\ queue[k].op = "SELL" /\ queue[j].target = queue[k].target => j = k
    BY <2>1, <2>4 DEF Stocked
  <2>6. Stocked'
    BY <1>m, <2>1, <2>2, <2>5 DEF Stocked
  <2> QED BY <1>s, <2>1, <2>6
<1>3. CASE slot < Len(queue) /\ Filled(queue[slot + 1])
  BY <1>m, <1>3, StockedTraded
<1>4. CASE EndTurn \/ Dusk \/ StoreCarried \/ Dawn
  <2>1. /\ phase' \notin {"units", "market"} /\ (phase = "market" => shed' = shed)
    BY <1>4 DEF EndTurn, Dusk, StoreCarried, Dawn, stores
  <2> QED BY <1>s, <2>1 DEF Stocked
<1>5. CASE SubmitWhenDone
  <2>1. UNCHANGED vars
    BY <1>5 DEF SubmitWhenDone
  <2>2. shed' = shed
    BY <2>1 DEF vars, stores
  <2>3. Stocked'
    BY <1>m, <2>1 DEF vars, turn, stores, Stocked, Available, Carrying, Hungry, Herd
  <2> QED BY <1>s, <2>2, <2>3
<1> QED BY <1>1, <1>2, <1>3, <1>4, <1>5 DEF FarmPlays

LEMMA StockedStep ==
  ASSUME AgentInv, Labored, Stocked, [ExecutorNext]_all PROVE Stocked'
<1>1. CASE UNCHANGED all
  BY <1>1 DEF all, memory, vars, turn, stores, Stocked, Available, Carrying, Hungry, Herd
<1> QED BY <1>1, StockedCalled, StockedPlayed DEF ExecutorNext

LEMMA MealsLeft ==
  ASSUME AgentInv, Labored, Stocked, ExecutorNext, phase = "market", shed'[Wheat] < shed[Wheat]
  PROVE  Available(Wheat)' >= Cardinality(Hungry \ seen.newcomers)
<1>1. ~(SameDay \/ NewDay \/ ManagerFails)
  BY DEF SameDay, NewDay, ManagerFails, Called
<1> QED BY <1>1, StockedPlayed DEF ExecutorNext

\* A sale of wheat leaves a meal for every animal that is still to be fed today, whatever
\* the workers took, fed, harvested or placed between the decision and the sale; only the
\* animals placed in the very turn are not counted (FeedKept, the first half of
\* FeedingKept; _sell_candidates and shed_reserve).
THEOREM FeedHolds == ExecutorSpec => FeedKept
<1>1. ExecutorInit => AgentInv /\ Labored /\ Stocked
  BY AgentStarts, LaboredStarts, StockedStarts
<1>2. AgentInv /\ Labored /\ Stocked /\ [ExecutorNext]_all => AgentInv' /\ Labored' /\ Stocked'
  BY AgentStep, LaboredStep, StockedStep
<1>3. AgentInv /\ Labored /\ Stocked /\ [ExecutorNext]_all
        => [phase = "market" /\ shed'[Wheat] < shed[Wheat]
              => Available(Wheat)' >= Cardinality(Hungry \ seen.newcomers)]_all
  BY MealsLeft
<1> QED BY <1>1, <1>2, <1>3, PTL DEF ExecutorSpec, FeedKept
=============================================================================
