------------------------------ MODULE Executor ------------------------------
(***************************************************************************)
(* The executor agent and the farm it plays (executor_v0/agent.py over the *)
(* engine of Farm.tla): ExecutorAgent is called once a turn, asks its      *)
(* manager for a plan once a day, gives every worker an order and the      *)
(* market a queue of at most max_market_orders; the farm then plays the    *)
(* turn and the agent sees the result.                                     *)
(*                                                                         *)
(* Money is left out on both sides: the cash the agent counts on may cover *)
(* any of the orders it would make, and the market may fill any part of an *)
(* order.  The manager may answer with any plan of a set, or fail; then,   *)
(* in safe mode, the turn is passed and it is asked again next turn.       *)
(***************************************************************************)
EXTENDS Foreman

CONSTANTS
    ProductOrder,    \* PRODUCTS
    BinHours,        \* hours of a sell bin (4)
    Plans,           \* the plans the manager may answer with
    Starts,          \* the farms the agent may be attached to at the start of a day
    Fails            \* BOOLEAN: may the manager fail?

Products == {ProductOrder[k] : k \in 1..Len(ProductOrder)}
Bins == 0..((TurnsPerDay - 1) \div BinHours)

DailyPlan == [crops: [Crops -> Nat], animals: [Animals -> Nat], land: 1..4,
              care: [Animals -> Nat], fertilizer: [Crops -> Nat],
              sells: [Bins -> [Products -> Nat]]]

\* A farm as a game leaves it: one use per tile, bare where locked, the shed not overfull.
Farmland(s) ==
    /\ s.field \in [Board -> Tile] /\ s.unlocked \in [Quadrants -> BOOLEAN]
    /\ s.seeds \in [Crops -> Nat] /\ s.shed \in [Items -> 0..ShedCapacity]
    /\ \A p \in Board : OneUse(s.field[p]) /\ (~s.unlocked[Quadrant(p)] => Vacant(s.field[p]))
    /\ Cardinality(Places(s.shed)) <= ShedCapacity

ASSUME ExecutorAssumption ==
    /\ Plans \subseteq DailyPlan
    /\ \A s \in Starts : Farmland(s)
    /\ CropOrder \in Seq(Crops) /\ AnimalOrder \in Seq(Animals)
    /\ ProductOrder \in Seq(Items) /\ Alphabet \in Seq(Items)
    /\ \A j, k \in 1..Len(ProductOrder) : ProductOrder[j] = ProductOrder[k] => j = k
    /\ {TasksPerWorker, BinHours} \subseteq Nat \ {0}
    /\ None \notin Items \cup Nat

VARIABLES
    agent_day,            \* _day: the day whose plan is in force
    feasible,             \* _feasible
    bin_anchor,           \* _bin_anchor
    remaining_sells,      \* _remaining_sells
    max_hires_today,      \* _max_hires_today
    previous_execution,   \* _previous_execution: yesterday's hires
    suppressed,           \* _suppress_expansion_today
    raised,               \* did a turn of the agent raise for any other reason than its manager?
    debt,                 \* end_of_day_work_debt in agent_day's record
    queue,                \* the market orders of the turn
    offered,              \* history: what was put on sale in the bin
    seen                  \* history: what today's observations showed

memory == <<agent_day, feasible, bin_anchor, remaining_sells, max_hires_today,
            previous_execution, suppressed, raised, debt, queue, offered, seen>>
all == <<vars, memory>>

Nothing == [p \in Products |-> 0]
NoPlan == [crops |-> [c \in Crops |-> 0], animals |-> [a \in Animals |-> 0], land |-> 1,
           care |-> [a \in Animals |-> 0], fertilizer |-> [c \in Crops |-> 0],
           sells |-> [b \in Bins |-> Nothing]]

ExecutorTypeOK ==
    /\ TypeOK
    /\ agent_day \in Nat \cup {None}
    /\ feasible \in DailyPlan
    /\ bin_anchor \in Bins \cup {None}
    /\ remaining_sells \in [Products -> Nat]
    /\ {max_hires_today, previous_execution} \subseteq 0..MaxHands
    /\ {suppressed, raised} \subseteq BOOLEAN
    /\ Len(queue) <= MaxMarketOrders
    /\ \A k \in 1..Len(queue) : queue[k].n > 0
    /\ \A t \in debt : t.tile \in Board

ExecutorInit ==
    /\ \E start \in Starts :
          /\ field = start.field
          /\ unlocked = start.unlocked
          /\ seeds = start.seeds
          /\ shed = start.shed
    /\ shed_used = Cardinality(Places(shed))
    /\ inventory = [u \in Units |-> [i \in Items |-> 0]]
    /\ item_order = [u \in Units |-> [i \in Items |-> 0]]
    /\ item_order_seq = 0
    /\ position = [u \in Units |-> IF u = Farmer THEN Home ELSE Corner]
    /\ hand_count = 0
    /\ day = 0 /\ hour = 0 /\ done = FALSE
    /\ phase = "agent"
    /\ orders = [u \in Units |-> Pass]
    /\ blocked = {}
    /\ next = 0
    /\ slot = 0
    /\ agent_day = None
    /\ feasible = NoPlan
    /\ bin_anchor = None
    /\ remaining_sells = Nothing
    /\ max_hires_today = 0
    /\ previous_execution = 0
    /\ suppressed = FALSE
    /\ raised = FALSE
    /\ debt = {}
    /\ queue = <<>>
    /\ offered = Nothing
    /\ seen = [day |-> None, hires |-> 0, excused |-> FALSE, newcomers |-> {}]

-----------------------------------------------------------------------------
(* The day's plan. *)

Larger(m, n) == Max({m, n})

\* project_plan: animals and land are never given up; fertilizer and care go at most to
\* what the plan itself sets up.
Projected(plan) ==
    LET grown(c) == Cardinality({p \in Plants : field[p].crop = c})
        owned == Cardinality({q \in Quadrants : unlocked[q]})
    IN  [plan EXCEPT
            !.animals = [a \in Animals |-> Larger(HeadCount(a), @[a])],
            !.land = Larger(owned, @),
            !.fertilizer = [c \in Crops |-> Min({@[c], Larger(grown(c), plan.crops[c])})],
            !.care = [a \in Animals |-> Min({@[a], Larger(HeadCount(a), plan.animals[a])})]]

-----------------------------------------------------------------------------
(* The orders of a turn. *)

Hungry == {p \in Herd : ~field[p].fed}
Starving == {p \in Hungry : field[p].unfed >= 1}
FeedShortage == Larger(0, Cardinality(Hungry) - Available(Wheat))

Bid(op, target, n) == [op |-> op, target |-> target, n |-> n]

\* Seeded bug: the herd's feed is for sale like everything else.
ForSaleUnprotected(i) == shed[i]
\* What the shed can spare: wheat is kept for the hungry animals.
ForSale(i) ==
    IF i = Wheat
    THEN Larger(0, shed[i] - Larger(0, Cardinality(Hungry) - Carrying(Wheat)))
    ELSE shed[i]

SellOrders(remaining) ==
    LET executed(i) == Min({remaining[i], ForSale(i)})
        sales[k \in 0..Len(ProductOrder)] ==
            IF k = 0 THEN <<>>
            ELSE IF executed(ProductOrder[k]) > 0
            THEN Append(sales[k - 1], Bid("SELL", ProductOrder[k], executed(ProductOrder[k])))
            ELSE sales[k - 1]
    IN  sales[Len(ProductOrder)]

Expansion == {"BUILD", "PLACE", "BUY_ANIMAL", "BUY_LAND"}

CeilDiv(m, n) == (m + n - 1) \div n

\* Hands for the crude workload, or for the maintenance that is due today.
HiresWanted(work) ==
    LET due == {t \in work : t.priority = Maintenance}
        travel(t) == Min({Manhattan(position[u], t.tile) : u \in 0..hand_count})
        turns == SumFunctionOnSet([t \in due |-> 1 + travel(t)], due)
        forDue == Min({CeilDiv(turns, TurnsPerDay - hour),
                       hand_count + 1 + Cardinality(due)})
    IN  Larger(0, Larger(CeilDiv(Cardinality(work), TasksPerWorker),
                         IF due = {} THEN 0 ELSE forDue) - hand_count)

BuyOrder(t) ==
    Bid(IF t.kind \in {"BUY_PRODUCT", "BUY_ANIMAL"} THEN "BUY" ELSE t.kind, t.target, t.n)

Sold(bids, i) ==
    SumFunctionOnSet([k \in DOMAIN bids |-> bids[k].n],
                     {k \in DOMAIN bids : bids[k].op = "SELL" /\ bids[k].target = i})

\* Seeded bug: a sale that was cut from the queue is written off as well.
CommittedUncut(remaining, candidates, included) ==
    [i \in Products |-> remaining[i] - Sold(candidates, i)]
Committed(remaining, candidates, included) ==
    [i \in Products |-> remaining[i] - Sold(included, i)]

\* Seeded bug: starving animals or not, all work is dispatched.
DispatchedAll(tasks) == tasks
\* While an animal starves nothing but feeding is done on the tiles.
Dispatched(tasks) ==
    IF Starving = {} THEN tasks
    ELSE {t \in tasks : t.tile = Nowhere \/ t.kind = "FEED"}

\* Seeded bug: whoever is on the way to a task has done it.
RemainingUnclaimed(tasks, result) == OnTiles(tasks) \ result.claimed
\* _end_of_day_debt.
Remaining(tasks, result) == OnTiles(tasks) \ result.done

TruncatedLate(candidates) ==                       \* seeded bug: off by one
    SubSeq(candidates, 1, Min({Len(candidates), MaxMarketOrders + 1}))
Truncated(candidates) == SubSeq(candidates, 1, Min({Len(candidates), MaxMarketOrders}))

\* _fallback_action: everybody passes.
PassAll(remaining, onSale, oldDebt) ==
    /\ orders' = [u \in Units |-> Pass]
    /\ blocked' = {}
    /\ queue' = <<>>
    /\ remaining_sells' = remaining
    /\ offered' = onSale
    /\ debt' = oldDebt

\* Nothing is built or settled while debt is worked off or the herd is short of food.
Undertaken(generated, holdBack) ==
    IF holdBack \/ Starving # {} \/ FeedShortage > 0
    THEN {t \in generated : t.kind \notin Expansion} ELSE generated

\* Tasks by their sort keys.
InOrder(tasks) ==
    LET rest[k \in 0..Cardinality(tasks)] ==
            IF k = 0 THEN tasks ELSE rest[k - 1] \ {Least(rest[k - 1], SortKey)}
    IN  [k \in 1..Cardinality(tasks) |-> Least(rest[k - 1], SortKey)]

\* The market queue: sales, feed, hands, then the other purchases.
Candidates(remaining, fed, hires, others) ==
    SellOrders(remaining)
      \o [k \in 1..Min({fed, 1}) |-> Bid("BUY", Wheat, fed)]
      \o [k \in 1..hires |-> Bid("HIRE", None, 1)]
      \o [k \in 1..Cardinality(others) |-> BuyOrder(InOrder(others)[k])]

\* Of the purchases cash may cover any, of the feed and of the hands any number.
Queued(tasks, remaining, onSale) ==
    LET market == {t \in tasks : t.tile = Nowhere}
        meals == {t \in market : /\ t.kind = "BUY_PRODUCT" /\ t.target = Wheat
                                 /\ FeedShortage > 0}
    IN  \E fed \in 0..(IF meals = {} THEN 0 ELSE FeedShortage),
           hires \in 0..HiresWanted(OnTiles(Dispatched(tasks))),
           others \in SUBSET (market \ meals) :
           \E candidates \in {Candidates(remaining, fed, hires, others)} :
               /\ queue' = Truncated(candidates)
               /\ remaining_sells' = Committed(remaining, candidates, queue')
               /\ offered' = [i \in Products |-> onSale[i] + Sold(queue', i)]

\* The rest of _act once the plan is known.  Two tasks with one key are an error.
Turn(plan, holdBack, remaining, onSale, oldDebt) ==
    \E affordable \in SUBSET Animals :
    \E generated \in {GenerateTasks(plan, affordable)} :
    \E tasks \in {Undertaken(generated, holdBack)} :
    \E result \in {RunForeman(Dispatched(tasks))} :
        IF ~KeysUnique(generated)
        THEN raised' = TRUE /\ PassAll(remaining, onSale, oldDebt)
        ELSE /\ raised' = raised
             /\ Queued(tasks, remaining, onSale)
             /\ orders' = result.orders
             /\ blocked' = OverRequested(result.orders)
             /\ debt' = IF LastHour THEN Remaining(tasks, result) ELSE oldDebt

-----------------------------------------------------------------------------
(* One call of the agent. *)

Bin == hour \div BinHours

Observed(failed) ==
    LET today == seen.day = day
    IN  seen' = [day       |-> day,
                 hires     |-> IF today THEN Larger(seen.hires, hand_count) ELSE hand_count,
                 excused   |-> failed \/ (IF today THEN seen.excused ELSE FeedShortage > 0),
                 newcomers |-> {position[u] : u \in {u \in Units :
                                    orders'[u].op \in {"PLANT", "PLACE"}}}]

Called ==
    /\ phase = "agent" /\ ~done
    /\ phase' = "units"
    /\ next' = Farmer
    /\ UNCHANGED <<field, seeds, position, hand_count, unlocked, day, hour, done, slot,
                   stores>>

SameDay ==
    /\ Called
    /\ agent_day = day
    /\ max_hires_today' = Larger(max_hires_today, hand_count)
    /\ bin_anchor' = Bin
    /\ LET same == bin_anchor = Bin
       IN  Turn(feasible, suppressed,
                IF same THEN remaining_sells ELSE feasible.sells[Bin],
                IF same THEN offered ELSE Nothing, debt)
    /\ Observed(FALSE)
    /\ UNCHANGED <<agent_day, feasible, previous_execution, suppressed>>

\* Seeded bug: the day is closed with the hands of the new one.
DayClosedAfterReset ==
    /\ agent_day # day
    /\ previous_execution' = IF agent_day = None THEN previous_execution ELSE hand_count
    /\ max_hires_today' = hand_count
    /\ suppressed' = (agent_day # None /\ debt # {})

\* What _new_day settles before it asks the manager.
DayClosed ==
    /\ agent_day # day
    /\ previous_execution' = IF agent_day = None THEN previous_execution
                             ELSE max_hires_today
    /\ max_hires_today' = hand_count
    /\ suppressed' = (agent_day # None /\ debt # {})

NewDay ==
    /\ Called
    /\ DayClosed
    /\ agent_day' = day
    /\ bin_anchor' = Bin
    /\ \E requested \in Plans :
          /\ feasible' = Projected(requested)
          /\ Turn(feasible', suppressed', requested.sells[Bin], Nothing, {})
    /\ Observed(FALSE)

\* The manager raises: the day is not begun, and the next call begins it again.
ManagerFails ==
    /\ Called
    /\ Fails
    /\ DayClosed
    /\ PassAll(remaining_sells, offered, debt)
    /\ Observed(TRUE)
    /\ UNCHANGED <<agent_day, feasible, bin_anchor, raised>>

-----------------------------------------------------------------------------
(* The farm plays the turn: units as ordered, market slots as queued. *)

Filled(o) ==
    \/ o.op = "BUY_SEED" /\ BuySeed /\ seeds'[o.target] - seeds[o.target] \in 1..o.n
    \/ o.op = "BUY" /\ BuyGoods /\ shed'[o.target] - shed[o.target] \in 1..o.n
    \/ o.op = "SELL" /\ Sell /\ shed[o.target] - shed'[o.target] \in 1..o.n
    \/ o.op = "HIRE" /\ Hire
    \/ o.op = "BUY_LAND" /\ BuyLand

FarmPlays ==
    /\ \/ UnitActs
       \/ UnitsDone
       \/ PassSlot
       \/ slot < Len(queue) /\ Filled(queue[slot + 1])
       \/ EndTurn \/ Dusk \/ StoreCarried \/ Dawn
       \/ SubmitWhenDone
    /\ UNCHANGED memory

ExecutorNext == SameDay \/ NewDay \/ ManagerFails \/ FarmPlays
ExecutorSpec == ExecutorInit /\ [][ExecutorNext]_all

-----------------------------------------------------------------------------
(* What the executor promises. *)

\* No labor is wasted: a worker that plants, feeds, places an animal, cares for one,
\* builds or collects fertilizer finds the tile as its task needs it, with the seed or the
\* item there, whatever the workers before it did in the same turn (the seed budget of
\* run_foreman, the tile claims of plan_day_layouts, the dependencies of generate_tasks).
\* A crop that gives way to an animal is the exception: nobody clears it.
LaborNotWasted ==
    Serving /\ order.op \in {"PLANT", "FEED", "PLACE", "CARE", "BUILD", "COLLECT_FERTILIZER"}
        => \/ IF order.op = "PLACE" THEN Houses ELSE Effective
           \/ order.op = "BUILD" /\ tile.crop # None

\* plan_animal_layout: "then convert the cheapest crop tile".
EveryBuildBuilds == Serving /\ order.op = "BUILD" => Effective

\* The sell ledger of a bin is the plan less what was put on sale: an order the queue had
\* no room for is tried again, one that was submitted is not, and a failing turn, a new
\* bin or a new day leaves no remainder behind (agent.py, _refresh_sell_ledger,
\* _commit_sells and the truncation in _act).
SellLedger ==
    bin_anchor # None =>
        \A i \in Products : remaining_sells[i] + offered[i] = feasible.sells[bin_anchor][i]

\* "Unique keys are a contract" (tasks.py): animals and crops never claim the same tile, so
\* the agent never raises but for its manager.
NeverRaises == ~raised

\* A sale of wheat leaves a meal for every animal that is still to be fed today, those
\* placed in the very turn excepted: whatever the workers took, fed or harvested between
\* the decision and the sale (_sell_candidates, shed_reserve).
FeedKept ==
    [][phase = "market" /\ shed'[Wheat] < shed[Wheat]
          => Available(Wheat)' >= Cardinality(Hungry \ seen.newcomers)]_all

\* An animal that starves at dawn is fed before dusk if the farm had wheat for its herd
\* and the manager answered: neither the day's sales nor any other work comes first
\* (the survival guardrails of agent.py).
StarvingAreFed ==
    [][Dusk /\ ~seen.excused => \A p \in Herd : field[p].unfed >= 1 => field[p].fed]_all

\* What the night takes was on the list: a plant that withers or an animal that runs away
\* is in the day's end_of_day_work_debt, unless the last turn failed or the plant was
\* set in it.
Lost(p) == \/ field[p].crop # None /\ ~field[p].watered /\ field[p].unwatered >= 1
           \/ field[p].animal # None /\ ~field[p].fed /\ field[p].unfed >= 1
Listed(p) == \E t \in debt : t.kind \in {"WATER", "FEED"} /\ t.tile = p
DebtCoversLosses ==
    [][Dusk /\ agent_day = day => \A p \in Board \ seen.newcomers : Lost(p) => Listed(p)]_all

\* "End-of-day work debt is measured from tasks still requiring work after the final
\* primitive action" (agent.py): a plant set in the last turn of a day needs water too.
DebtIsComplete ==
    [][Dusk /\ agent_day = day => \A p \in Board : Lost(p) => Listed(p)]_all

\* On the first call of a day the manager is told how many hands were seen the day before
\* (_new_day, _max_hires_today).
FeedbackIsYesterdays ==
    [][DayClosed /\ phase = "agent" /\ agent_day # None /\ seen.day # day
          => previous_execution' = seen.hires]_all

(* The agent as a whole: it keeps to its types, never raises on a plan and *)
(* keeps its ledger of sales.                                              *)
ExecutorSound == ExecutorTypeOK /\ NeverRaises /\ SellLedger

(* Animals are fed before wheat is sold and before other work is done.     *)
FeedingKept == FeedKept /\ StarvingAreFed
=============================================================================
