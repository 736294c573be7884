------------------------------- MODULE Layout -------------------------------
(***************************************************************************)
(* Where the executor wants crops and animals to stand                     *)
(* (executor_v0/layout.py): a deficit of animals is given tiles first, and *)
(* the crops are reconciled on what is left of the farm.  Both planners    *)
(* are pure and greedy.  The code fills one deficit after the other, each  *)
(* from the front of sorted lists of tiles; here each unit of demand takes *)
(* the tile of least rank that is still free, which is the same.           *)
(***************************************************************************)
EXTENDS Farm, Lifecycle

CONSTANTS CropOrder,     \* CROP_ORDER
          AnimalOrder    \* ANIMAL_ORDER

Far(a, b) == IF a >= b THEN a - b ELSE b - a
Manhattan(p, q) == Far(p[1], q[1]) + Far(p[2], q[2])
Anchor == Home                                    \* SHED_HUB_ANCHOR

\* Ranks compare the pool a tile comes from, then its cost, then (y, x).
Area == 4 * Half * Half
CostBound == 1000                                 \* above every cost
Rank(pool, cost, p) == (pool * CostBound + cost) * Area + p[2] * 2 * Half + p[1]
Least(S, rank(_)) == CHOOSE p \in S : \A q \in S : rank(p) <= rank(q)

\* What destroying the crop on tile p would waste, with SacrificeConfig's weights.
SacrificeScore(p) ==
    LET d == DerivePlant(field[p], day, step)
    IN  Manhattan(p, Anchor) + d.age_days + 2 * field[p].yield
          + (IF d.fertilizer_active THEN 10 ELSE 0)
          + (IF d.currently_harvestable THEN 25 ELSE 0)
          + (IF d.days_until_next_harvest = None THEN 5 ELSE 0)

Unlocked == {p \in Board : unlocked[Quadrant(p)]}

\* The units of a demand, in the canonical order of their kinds.
Demand(kinds, count) ==
    LET units[k \in 0..Len(kinds)] ==
            IF k = 0 THEN <<>>
            ELSE units[k - 1] \o [n \in 1..count[kinds[k]] |-> kinds[k]]
    IN  units[Len(kinds)]

-----------------------------------------------------------------------------
(* Animals. *)

Sources == <<"empty_structure", "new_build", "weed_reclaim", "crop_sacrifice">>

\* Which pool a tile belongs to as a home for animal a; 0: none, it is never selected.
\* An animal keeps its tile, and so does an empty structure of the wrong type.
Pool(p, a) ==
    LET t == field[p]
    IN  CASE Welcomes(t, a) -> 1
          [] Vacant(t)      -> 2
          [] t.weed         -> 3
          [] t.crop # None  -> 4
          [] OTHER          -> 0

SlotRank(p, a) ==
    Rank(Pool(p, a), IF Pool(p, a) = 4 THEN SacrificeScore(p) ELSE Manhattan(p, Anchor), p)

Housed(slots, a) ==
    LET free == {p \in Unlocked : Pool(p, a) # 0 /\ \A s \in slots : s.tile # p}
        best == Least(free, LAMBDA p : SlotRank(p, a))
    IN  IF free = {} THEN slots
        ELSE slots \cup {[animal |-> a, tile |-> best, source |-> Sources[Pool(best, a)]]}

PlanAnimalLayout(needed) ==
    LET herd == Demand(AnimalOrder, needed)
        slots[n \in 0..Len(herd)] == IF n = 0 THEN {} ELSE Housed(slots[n - 1], herd[n])
    IN  slots[Len(herd)]

-----------------------------------------------------------------------------
(* Crops. *)

Growing(c, tiles) == {p \in tiles : field[p].crop = c}

\* Of the plants of a crop as many as its target asks for are kept, the dearest first;
\* the others are released.
Released(c, targets, tiles) ==
    LET plants == Growing(c, tiles)
        Dearer(p, q) == Rank(0, CostBound - SacrificeScore(p), p)
                          < Rank(0, CostBound - SacrificeScore(q), q)
    IN  {p \in plants : Cardinality({q \in plants : Dearer(q, p)}) >= targets[c]}

Deficit(c, targets, tiles) ==
    LET n == Cardinality(Growing(c, tiles)) IN IF targets[c] > n THEN targets[c] - n ELSE 0

\* Empty tiles are planted first, then weeds reclaimed, then released plants replaced.
BedPool(p, released) ==
    CASE Vacant(field[p]) -> 1
      [] field[p].weed    -> 2
      [] p \in released   -> 3
      [] OTHER            -> 0
BedRank(p, released) ==
    LET pool == BedPool(p, released)
    IN  Rank(pool, IF pool = 3 THEN SacrificeScore(p) ELSE Manhattan(p, Anchor), p)

Bedded(plants, c, released, tiles) ==
    LET free == {p \in tiles : BedPool(p, released) # 0 /\ \A s \in plants : s.tile # p}
    IN  IF free = {} THEN plants
        ELSE plants \cup {[tile |-> Least(free, LAMBDA p : BedRank(p, released)), crop |-> c]}

ReconcileCrops(targets, tiles) ==
    LET released == UNION {Released(c, targets, tiles) : c \in Crops}
        wanted == Demand(CropOrder, [c \in Crops |-> Deficit(c, targets, tiles)])
        plants[n \in 0..Len(wanted)] ==
            IF n = 0 THEN {} ELSE Bedded(plants[n - 1], wanted[n], released, tiles)
        sown == plants[Len(wanted)]
    IN  [plants |-> sown,
         digs   |-> {s.tile : s \in {s \in sown : ~Vacant(field[s.tile])}}]

-----------------------------------------------------------------------------
\* Seeded bug: each planner plans on the whole farm, as before issue #7.
PlanDayLayoutsApart(targets, needed) ==
    [animals |-> PlanAnimalLayout(needed), crops |-> ReconcileCrops(targets, Unlocked)]

\* Animals choose first; their tiles are hidden from the crops' planner.
CropsBeside(slots, targets) ==
    [animals |-> slots,
     crops   |-> ReconcileCrops(targets, Unlocked \ {s.tile : s \in slots})]
PlanDayLayouts(targets, needed) == CropsBeside(PlanAnimalLayout(needed), targets)
=============================================================================
