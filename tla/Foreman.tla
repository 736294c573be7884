------------------------------ MODULE Foreman ------------------------------
(***************************************************************************)
(* The work of one turn (executor_v0/tasks.py, executor_v0/foreman.py):    *)
(* the tasks that the observed farm and the day's plan call for, and the   *)
(* greedy dispatch that gives every worker one order.  Tasks are made anew *)
(* every turn; nothing here remembers the turn before.                     *)
(*                                                                         *)
(* A task's key is its kind, target and tile; the keys' alphabetical order *)
(* breaks ties.  Money is left out as in Farm.tla: the caller says which   *)
(* animals are affordable.                                                 *)
(***************************************************************************)
EXTENDS Layout, FiniteSetsExt

CONSTANTS Alphabet,        \* crops, animals and products, in alphabetical order
          TasksPerWorker   \* AgentConfig.tasks_per_worker

\* Task kinds in the alphabetical order of their keys, and the priority groups.
Kinds == <<"BUILD", "CARE", "COLLECT_FERTILIZER", "DIG", "FEED", "FERTILIZE",
           "HARVEST", "PLACE", "PLANT", "WATER",
           "BUY_ANIMAL", "BUY_LAND", "BUY_PRODUCT", "BUY_SEED">>
Maintenance == 0
Productive == 1
Manager == 2
Logistics == 3

Nowhere == <<-1, -1>>
Task(kind, priority, p, target, item, source) ==
    [kind |-> kind, priority |-> priority, tile |-> p, target |-> target, item |-> item,
     n |-> 1, after |-> None, source |-> source]
Key(t) == <<t.kind, t.target, t.tile>>

IndexIn(seq, x) == IF \E k \in 1..Len(seq) : seq[k] = x
                   THEN CHOOSE k \in 1..Len(seq) : seq[k] = x ELSE 0

\* Task.sort_key.
SortKey(t) ==
    ((t.priority * Len(Kinds) + IndexIn(Kinds, t.kind)) * (Len(Alphabet) + 1)
       + IndexIn(Alphabet, t.target)) * (Area + 1)
      + (IF t.tile = Nowhere THEN 0 ELSE 1 + t.tile[2] * 2 * Half + t.tile[1])

Proximity(p) == Rank(0, Manhattan(p, Anchor), p)
NearestFew(S, n) == {p \in S : Cardinality({q \in S : Proximity(q) < Proximity(p)}) < n}

Carrying(i) == SumFunctionOnSet([u \in Units |-> inventory[u][i]], Units)
Available(i) == shed[i] + Carrying(i)

-----------------------------------------------------------------------------
(* What has to be done on the tiles. *)

\* Two dry nights turn a plant into a weed; a watering in a single-harvest crop's window,
\* or before a bearing night under fertilizer, adds to the yield; any other is deferred.
WaterUrgency(p) ==
    LET t == field[p]
    IN  CASE t.watered -> None
          [] ~t.watered /\ t.unwatered >= 1 -> Maintenance
          [] ~t.watered /\ t.unwatered < 1 /\ InWateringWindow(t)
                /\ t.yield < MaxYield[t.crop] -> Productive
          [] ~t.watered /\ t.unwatered < 1 /\ Ongoing(t.crop)
                /\ t.fertilized_until >= day /\ BearsAt(t.crop, t.age + 1) -> Productive
          [] OTHER -> None

Plants == {p \in Board : field[p].crop # None}
Herd == {p \in Board : field[p].animal # None}
HeadCount(a) == Cardinality({p \in Herd : field[p].animal = a})

MechanicalTasks ==
    {Task("WATER", WaterUrgency(p), p, None, None, "mechanical") :
        p \in {p \in Plants : WaterUrgency(p) # None}}
      \cup {Task("FEED", Maintenance, p, None, Wheat, "mechanical") :
               p \in {p \in Herd : ~field[p].fed}}
      \cup {Task("COLLECT_FERTILIZER", Maintenance, p, None, None, "mechanical") :
               p \in {p \in Herd : field[p].fertilizer}}
      \cup {Task("HARVEST", Productive, p, None, None, "mechanical") :
               p \in {p \in Plants : DerivePlant(field[p], day, step).currently_harvestable}
                     \cup {p \in Herd : field[p].animal_yield > 0}}

\* A tile is dug before something else is planted on it.
CropTasks(crops) ==
    {Task("DIG", Manager, p, None, None, "manager_reconciliation") : p \in crops.digs}
      \cup {[Task("PLANT", Manager, s.tile, s.crop, None, "manager_reconciliation")
                EXCEPT !.after = IF s.tile \in crops.digs THEN "DIG" ELSE None] :
               s \in crops.plants}

\* A structure is built only for an animal that is owned or can be paid for.  A weed is
\* dug first; a crop that gives way to an animal is not.
AnimalTasks(slots, affordable) ==
    LET ready == {s \in slots : \/ s.source = "empty_structure"
                                \/ Available(s.animal) > 0
                                \/ s.animal \in affordable}
        toBuild == {s \in ready : s.source # "empty_structure"}
    IN  {Task("DIG", Manager, s.tile, None, None, "weed_reclaim") :
            s \in {s \in toBuild : s.source = "weed_reclaim"}}
          \cup {[Task("BUILD", Manager, s.tile, StructureOf[s.animal], None, s.source)
                    EXCEPT !.after = IF s.source = "weed_reclaim" THEN "DIG" ELSE None] :
                   s \in toBuild}
          \cup {[Task("PLACE", Manager, s.tile, s.animal, s.animal, "manager_target")
                    EXCEPT !.after = IF s \in toBuild THEN "BUILD" ELSE None] : s \in ready}

Uncared(a) == {p \in Herd : field[p].animal = a /\ ~field[p].cared}
Unfertilized(c) == {p \in Plants : field[p].crop = c /\ field[p].fertilized_until < day}

Allocations(plan) ==
    {Task("CARE", Manager, p, field[p].animal, None, "manager_allocation") :
        p \in UNION {NearestFew(Uncared(a), plan.care[a]) : a \in Animals}}
      \cup {Task("FERTILIZE", Manager, p, field[p].crop, Fertilizer, "manager_allocation") :
               p \in UNION {NearestFew(Unfertilized(c), plan.fertilizer[c]) : c \in Crops}}

-----------------------------------------------------------------------------
(* What has to be bought for it. *)

Purchase(kind, priority, target, n) ==
    [Task(kind, priority, Nowhere, target, None, "task_shortage") EXCEPT !.n = n]

SeedShortage(c, work) ==
    Cardinality({t \in work : t.kind = "PLANT" /\ t.target = c}) - seeds[c]
GoodsShortage(i, work) == Cardinality({t \in work : t.item = i}) - Available(i)
HerdShortage(a, work) ==
    Cardinality({t \in work : t.kind = "PLACE" /\ t.target = a}) - Available(a)

Shortages(work) ==
    {Purchase("BUY_SEED", Logistics, c, SeedShortage(c, work)) :
        c \in {c \in Crops : SeedShortage(c, work) > 0}}
      \cup {Purchase("BUY_PRODUCT", Logistics, i, GoodsShortage(i, work)) :
               i \in {i \in {Wheat, Fertilizer} : GoodsShortage(i, work) > 0}}
      \cup {Purchase("BUY_ANIMAL", Logistics, a, HerdShortage(a, work)) :
               a \in {a \in Animals : HerdShortage(a, work) > 0}}

LandTasks(plan) ==
    LET owned == Cardinality({q \in Quadrants : unlocked[q]})
    IN  IF plan.land > owned /\ owned < 4 THEN {Purchase("BUY_LAND", Manager, None, 1)} ELSE {}

WorkOn(layouts, plan, affordable) ==
    MechanicalTasks \cup CropTasks(layouts.crops)
      \cup AnimalTasks(layouts.animals, affordable) \cup Allocations(plan)
WithPurchases(work, plan) == work \cup LandTasks(plan) \cup Shortages(work)

GenerateTasks(plan, affordable) ==
    LET needed == [a \in Animals |-> IF plan.animals[a] > HeadCount(a)
                                     THEN plan.animals[a] - HeadCount(a) ELSE 0]
    IN  WithPurchases(WorkOn(PlanDayLayouts(plan.crops, needed), plan, affordable), plan)

\* "Unique keys are a contract": the code raises when two tasks share one.
KeysUnique(tasks) == \A s, t \in tasks : Key(s) = Key(t) => s = t

OnTiles(tasks) == {t \in tasks : t.tile # Nowhere}

-----------------------------------------------------------------------------
(* The dispatch. *)

PriorityStep == 100000
VarietyPenalty == 50000
CarryAffinityBonus == 10
MaxCarriedItemTypes == 2
PickupBatch == 5

Carries(u, item) == item = None \/ inventory[u][item] > 0

\* From p to q by way of the shed.
RouteDistance(p, q) ==
    Min({Manhattan(p, Access[k]) + Manhattan(Access[k], q) : k \in 1..4})

NearestAccess(p) ==
    Least({Access[k] : k \in 1..4}, LAMBDA a : Rank(0, Manhattan(p, a), a))

Score(u, t) ==
    LET there == IF ~Carries(u, t.item) THEN RouteDistance(position[u], t.tile)
                 ELSE IF t.item = None THEN Manhattan(position[u], t.tile)
                 ELSE Max({0, Manhattan(position[u], t.tile) - CarryAffinityBonus})
    IN  t.priority * PriorityStep + there
          + (IF /\ ~Carries(u, t.item)
                /\ Cardinality(Carried(u)) >= MaxCarriedItemTypes
             THEN VarietyPenalty ELSE 0)

\* What a worker turns to: the first task it can do where it stands, else the task of the
\* lowest score among those whose item it holds or can fetch.
Chosen(u, ready) ==
    LET underfoot == {t \in ready : t.tile = position[u] /\ Carries(u, t.item)}
        able == {t \in ready : Carries(u, t.item) \/ shed[t.item] > 0}
        best == Min({Score(u, t) : t \in able})
    IN  IF underfoot # {} THEN {Least(underfoot, SortKey)}
        ELSE IF able # {} THEN {Least({t \in able : Score(u, t) = best}, SortKey)}
        ELSE {}

\* The larger distance is reduced first; a tie goes to the vertical one.
StepToward(p, q) ==
    IF Far(p[2], q[2]) >= Far(p[1], q[1])
    THEN IF q[2] > p[2] THEN "SOUTH" ELSE "NORTH"
    ELSE IF q[1] > p[1] THEN "EAST" ELSE "WEST"

InteractionOp(t) ==
    [op |-> t.kind, n |-> IF t.kind = "PLACE" THEN 1 ELSE 0,
     target |-> IF t.kind \in {"PLANT", "BUILD", "PLACE"} THEN t.target ELSE None]

Interacts(u, t) == Carries(u, t.item) /\ t.tile = position[u]

OrderFor(u, t) ==
    LET waypoint == IF Carries(u, t.item) THEN t.tile ELSE NearestAccess(position[u])
    IN  IF Interacts(u, t) THEN InteractionOp(t)
        ELSE IF position[u] # waypoint
        THEN [op |-> StepToward(position[u], waypoint), target |-> None, n |-> 0]
        ELSE [op |-> "PICKUP", target |-> t.item, n |-> Min({PickupBatch, shed[t.item]})]

\* Seeded bug: a PLANT reserves no seed.
ReservedNone(budget, t) == budget
Reserved(budget, t) ==
    IF t.kind = "PLANT" THEN [budget EXCEPT ![t.target] = @ - 1] ELSE budget

Blocked(t, tasks) == \E s \in tasks : s.tile = t.tile /\ s.kind = t.after

\* The next worker's choice, if it has any, is claimed, and the worker gets its order.
Assigned(sofar, u, work) ==
    LET ready == {t \in work \ sofar.claimed :
                     t.kind = "PLANT" => sofar.budget[t.target] > 0}
        choice == Chosen(u, ready)
        t == CHOOSE t \in choice : TRUE
    IN  IF choice = {} THEN sofar
        ELSE [claimed |-> sofar.claimed \cup {t},
              budget  |-> Reserved(sofar.budget, t),
              orders  |-> [sofar.orders EXCEPT ![u] = OrderFor(u, t)],
              done    |-> sofar.done \cup {s \in {t} : Interacts(u, t)}]

Unassigned == [claimed |-> {}, budget |-> seeds, done |-> {},
               orders |-> [u \in Units |-> Pass]]

\* One worker after the other claims a task, the farmer first.
RunForeman(tasks) ==
    LET work == {t \in OnTiles(tasks) : ~Blocked(t, tasks)}
        sofar[n \in 0..(hand_count + 1)] ==
            IF n = 0 THEN Unassigned ELSE Assigned(sofar[n - 1], n - 1, work)
    IN  sofar[hand_count + 1]
=============================================================================
