------------------------------- MODULE Market -------------------------------
(***************************************************************************)
(* The market of a turn (rust/kaggriculture_env/src/lib.rs): both players' *)
(* orders of a slot are served together.  HIRE and BUY_LAND come first;    *)
(* then units change hands one at a time in lockstep, both players quoted  *)
(* before either commits; an order nobody competes with is settled in bulk *)
(* (advance_state, apply_market_action, market_action_possible,            *)
(* apply_market_bulk).  After the slots the town consumes, the posted      *)
(* prices are refreshed and, at the end of a day, a shop may open.         *)
(*                                                                         *)
(* Money is whole dollars: the engine's f32 is exact below 2^24.  Prices   *)
(* have the linear shape (market_shape code 0) with whole-dollar slopes.   *)
(***************************************************************************)
EXTENDS Integers, Sequences, FiniteSetsExt, Functions

CONSTANTS
    Products,            \* PRODUCTS
    Buyable,             \* the products the market sells: 0 (wheat) and 8 (fertilizer)
    CenterProducts,      \* products 0..7, which the town center consumes
    Crops, SeedCost,     \* CROP_SEED_COSTS
    Animals, AnimalCost, \* ANIMAL_COSTS
    LandPrices,          \* LAND_PRICES
    HireCost,            \* hire_cost, by the number of hires made today
    Base, I0,            \* MARKET_BASE, MARKET_I0
    Scarcity, Glut,      \* dollars per unit missing from, or in excess of, I0
    Demands,             \* SHOP_DEMANDS, doubled for one-product shops
    StartingMoney, ShedCapacity, MaxHands, MaxMarketOrders,
    TurnsPerDay, CenterInterval, ShopInterval, UnlockDays, MaxShops,
    Escape,              \* rounds after which a slot is abandoned (100 000)
    Offers,              \* the market orders the agents may submit
    MaxStep              \* bound: turns played

Items == Products \cup Animals
Players == {0, 1}
Other(p) == 1 - p

Offer ==
    [op: {"PASS"}, target: {"NONE"}, n: Nat]
      \cup [op: {"HIRE", "BUY_LAND"}, target: {"NONE"}, n: Nat]
      \cup [op: {"BUY_SEED"}, target: Crops, n: Nat]
      \cup [op: {"BUY_PRODUCT"}, target: Buyable, n: Nat]
      \cup [op: {"BUY_ANIMAL"}, target: Animals, n: Nat]
      \cup [op: {"SELL"}, target: Products, n: Nat]

NoOffer == [op |-> "PASS", target |-> "NONE", n |-> 0]

ASSUME MarketAssumption ==
    /\ Buyable \subseteq Products
    /\ CenterProducts \subseteq Products
    /\ Products \cap Animals = {}
    /\ IsFiniteSet(Items)
    /\ SeedCost \in [Crops -> Nat]
    /\ AnimalCost \in [Animals -> Nat]
    /\ LandPrices \in [1..3 -> Nat]
    /\ HireCost \in [0..MaxHands -> Nat]
    /\ Base \in [Products -> Nat] /\ I0 \in [Products -> Nat \ {0}]
    /\ Scarcity \in [Products -> Nat] /\ Glut \in [Products -> Nat]
    /\ \A d \in Demands : d \in [Products -> Nat]
    /\ {StartingMoney, MaxHands, MaxMarketOrders, MaxShops, MaxStep} \subseteq Nat
    /\ {ShedCapacity, TurnsPerDay, CenterInterval, ShopInterval, UnlockDays, Escape}
          \subseteq Nat \ {0}
    /\ Offers \subseteq Offer

-----------------------------------------------------------------------------
(* Prices. *)

\* Never below PRICE_FLOOR; never rising with the inventory.
Price(i, n) ==
    LET target == IF n < I0[i] THEN Base[i] + Scarcity[i] * (I0[i] - n)
                               ELSE Base[i] - Glut[i] * (n - I0[i])
    IN  IF target >= 1 THEN target ELSE 1

\* A buyer pays the price of the inventory that is left, a seller gets the present one.
Quote(o, inv) ==
    CASE o.op = "BUY_PRODUCT" -> Price(o.target, inv[o.target] - 1)
      [] o.op = "SELL"        -> Price(o.target, inv[o.target])
      [] o.op = "BUY_SEED"    -> SeedCost[o.target]
      [] o.op = "BUY_ANIMAL"  -> AnimalCost[o.target]
      [] OTHER -> 0

-----------------------------------------------------------------------------
(* An account: what the market may change of a player. *)

Account == [money: Int, seeds: [Crops -> Nat], shed: [Items -> Nat], shed_used: Int,
            hires: Nat, lands: 0..3]

Room(a) == IF a.shed_used <= ShedCapacity THEN ShedCapacity - a.shed_used ELSE 0

\* k more (or -k fewer) of item i in the shed, for the given change of money.
Shelved(a, i, k, dollars) ==
    [a EXCEPT !.money = @ + dollars, !.shed[i] = @ + k, !.shed_used = @ + k]

\* Seeded bugs: a sale from an empty shelf, an animal on credit.
PossibleUnstocked(a, o, quote) ==
    CASE o.op = "BUY_SEED" -> a.money >= quote
      [] o.op \in {"BUY_PRODUCT", "BUY_ANIMAL"} ->
             a.shed_used < ShedCapacity /\ a.money >= quote
      [] OTHER -> o.op = "SELL"
PossibleOnCredit(a, o, quote) ==
    CASE o.op = "BUY_SEED" -> a.money >= quote
      [] o.op = "BUY_PRODUCT" -> a.shed_used < ShedCapacity /\ a.money >= quote
      [] o.op = "BUY_ANIMAL" -> a.shed_used < ShedCapacity
      [] o.op = "SELL" -> a.shed[o.target] > 0
      [] OTHER -> FALSE

\* market_action_possible, for one unit at the given quote.
Possible(a, o, quote) ==
    CASE o.op = "BUY_SEED" -> a.money >= quote
      [] o.op \in {"BUY_PRODUCT", "BUY_ANIMAL"} ->
             a.shed_used < ShedCapacity /\ a.money >= quote
      [] o.op = "SELL" -> a.shed[o.target] > 0
      [] OTHER -> FALSE

\* apply_market_action, for one unit at the given quote.
Committed(a, o, quote) ==
    CASE o.op = "BUY_SEED" -> [a EXCEPT !.money = @ - quote, !.seeds[o.target] = @ + 1]
      [] o.op \in {"BUY_PRODUCT", "BUY_ANIMAL"} -> Shelved(a, o.target, 1, -quote)
      [] o.op = "SELL" -> Shelved(a, o.target, -1, quote)

\* What one committed unit does to the market inventory: a sale at the floor price adds
\* no supply.
Supply(o, quote) ==
    CASE o.op = "BUY_PRODUCT" -> -1
      [] o.op = "SELL" /\ quote > 1 -> 1
      [] OTHER -> 0

\* HIRE and BUY_LAND: once per slot, whatever the quantity says.
Hired(a) ==
    IF a.hires < MaxHands /\ a.money >= HireCost[a.hires]
    THEN [a EXCEPT !.money = @ - HireCost[a.hires], !.hires = @ + 1] ELSE a

Landed(a) ==
    IF a.lands < 3 /\ a.money >= LandPrices[a.lands + 1]
    THEN [a EXCEPT !.money = @ - LandPrices[a.lands + 1], !.lands = @ + 1] ELSE a

AtOnce(a, o) == CASE o.op = "HIRE" -> Hired(a)
                  [] o.op = "BUY_LAND" -> Landed(a)
                  [] OTHER -> a

-----------------------------------------------------------------------------
(* Settling n units in one go, from the prefix sums of MarketLookupTables. *)

\* What k units cost when the inventory is m, and what k units fetch.
BuyCostTooLow(i, m, k) == SumFunction([j \in 1..k |-> Price(i, m - j + 1)])   \* seeded bug
BuyCost(i, m, k) == SumFunction([j \in 1..k |-> Price(i, m - j)])
SellRevenue(i, m, k) == SumFunction([j \in 0..(k - 1) |-> Price(i, m + j)])
SellSupply(i, m, k) == Cardinality({j \in 0..(k - 1) : Price(i, m + j) > 1})

\* The account and the change of the market inventory.
Bulk(a, o, n, inv) ==
    LET i == o.target
        m == inv[i]
    IN  IF o.op = "BUY_PRODUCT"
        THEN LET room == Min({n, Room(a)})
                 k    == Max({j \in 0..room : BuyCost(i, m, j) <= a.money})
             IN  [account |-> Shelved(a, i, k, -BuyCost(i, m, k)), supply |-> -k]
        ELSE LET k == Min({n, a.shed[i]})
             IN  [account |-> Shelved(a, i, -k, SellRevenue(i, m, k)),
                  supply |-> SellSupply(i, m, k)]

Bulkable(o) == o.op \in {"BUY_PRODUCT", "SELL"}

-----------------------------------------------------------------------------
(* A slot in progress: the accounts, the market inventory, the two offers, who is still  *)
(* active and the number of rounds played.                                               *)

SlotState == [acct: [Players -> Account], inv: [Products -> Int], offer: [Players -> Offer],
              active: [Players -> BOOLEAN], unit: Nat]

Opened(acct, inv, offer) ==
    [acct |-> [p \in Players |-> AtOnce(acct[p], offer[p])], inv |-> inv, offer |-> offer,
     active |-> [p \in Players |-> offer[p].n > 0 /\ offer[p].op \notin {"HIRE", "BUY_LAND"}],
     unit |-> 0]

\* Both players trade, in different products: neither affects the other's prices.
Independent(s) ==
    /\ s.unit = 0
    /\ \A p \in Players : s.active[p] /\ Bulkable(s.offer[p])
    /\ s.offer[0].target # s.offer[1].target

BothBulk(s) ==
    LET b == [p \in Players |-> Bulk(s.acct[p], s.offer[p], s.offer[p].n, s.inv)]
    IN  [s EXCEPT !.acct = [p \in Players |-> b[p].account],
                  !.inv = [i \in Products |-> s.inv[i] +
                              SumFunction([p \in Players |-> IF s.offer[p].target = i
                                                             THEN b[p].supply ELSE 0])],
                  !.active = [p \in Players |-> FALSE]]

Served(s, p) == s.active[p] /\ s.unit < s.offer[p].n

\* The rest of the only remaining order is settled in bulk.
Alone(s, p) == Served(s, p) /\ ~Served(s, Other(p)) /\ Bulkable(s.offer[p])

\* Seeded bug: the loop goes on after the bulk settlement.
AloneBulkStillActive(s, p) ==
    LET b == Bulk(s.acct[p], s.offer[p], s.offer[p].n - s.unit, s.inv)
    IN  [s EXCEPT !.acct[p] = b.account, !.inv[s.offer[p].target] = @ + b.supply]

AloneBulk(s, p) ==
    LET b == Bulk(s.acct[p], s.offer[p], s.offer[p].n - s.unit, s.inv)
    IN  [s EXCEPT !.acct[p] = b.account,
                  !.inv[s.offer[p].target] = @ + b.supply,
                  !.active = [q \in Players |-> FALSE]]

\* Seeded bug: player 1 is quoted after player 0 has traded.
LockstepInTurn(s) ==
    LET one(t, p) ==
            LET q == Quote(t.offer[p], t.inv)
                can == Served(t, p) /\ Possible(t.acct[p], t.offer[p], q)
                d == IF can THEN Supply(t.offer[p], q) ELSE 0
            IN  [t EXCEPT !.acct[p] = IF can THEN Committed(@, t.offer[p], q) ELSE @,
                          !.inv = [i \in Products |->
                                      IF i = t.offer[p].target THEN t.inv[i] + d ELSE t.inv[i]],
                          !.active[p] = can]
    IN  [one(one(s, 0), 1) EXCEPT !.unit = @ + 1]

\* One unit for each active player: both are quoted, then both commit.
Lockstep(s) ==
    LET quote == [p \in Players |-> Quote(s.offer[p], s.inv)]
        able  == [p \in Players |->
                    Served(s, p) /\ Possible(s.acct[p], s.offer[p], quote[p])]
        moves(p, i) == IF able[p] /\ s.offer[p].target = i
                       THEN Supply(s.offer[p], quote[p]) ELSE 0
    IN  [s EXCEPT !.acct = [p \in Players |->
                               IF able[p] THEN Committed(s.acct[p], s.offer[p], quote[p])
                                          ELSE s.acct[p]],
                  !.inv = [i \in Products |->
                              s.inv[i] + SumFunction([p \in Players |-> moves(p, i)])],
                  !.active = able,
                  !.unit = @ + 1]

Round(s) ==
    IF Independent(s) THEN BothBulk(s)
    ELSE IF \E p \in Players : Alone(s, p)
         THEN AloneBulk(s, CHOOSE p \in Players : Alone(s, p))
         ELSE Lockstep(s)

\* The loop of a slot ends when nobody is active, all units were tried or it was too long.
Over(s) ==
    \/ \A p \in Players : ~s.active[p]
    \/ \A p \in Players : s.unit >= s.offer[p].n
    \/ ~Independent(s) /\ s.unit + 1 >= Escape

-----------------------------------------------------------------------------
VARIABLES
    step,              \* turns played
    phase,             \* where advance_state is
    slot,              \* market slots served
    current,           \* the slot in progress, with the accounts and the market inventory
    market_prices,     \* the posted prices
    market_dirty,      \* products whose posted price may be out of date
    shops              \* the demands of the shops that have opened

vars == <<step, phase, slot, current, market_prices, market_dirty, shops>>

acct == current.acct
market_inventory == current.inv

TypeOK ==
    /\ step \in 0..MaxStep
    /\ phase \in {"units", "market", "loop"}
    /\ slot \in 0..MaxMarketOrders
    /\ current \in SlotState
    /\ market_prices \in [Products -> Nat \ {0}]
    /\ market_dirty \subseteq Products
    /\ shops \in Seq(Demands) /\ Len(shops) <= MaxShops

NewAccount == [money |-> StartingMoney, seeds |-> [c \in Crops |-> 0],
               shed |-> [i \in Items |-> 0], shed_used |-> 0, hires |-> 0, lands |-> 0]

\* Between slots nothing of the last slot but its accounts and inventory is left.
Resting(accounts, inv) ==
    [acct |-> accounts, inv |-> inv, offer |-> [p \in Players |-> NoOffer],
     active |-> [p \in Players |-> FALSE], unit |-> 0]

Init ==
    /\ step = 0
    /\ phase = "units"
    /\ slot = 0
    /\ current = Resting([p \in Players |-> NewAccount], I0)
    /\ market_prices = [i \in Products |-> Price(i, I0[i])]
    /\ market_dirty = {}
    /\ shops = << >>

\* The units of the farms act first; what matters here is that they may bring something to
\* the shed or take something out of it (Farm.tla has the rest).
UnitsAct ==
    /\ phase = "units" /\ step < MaxStep
    /\ phase' = "market"
    /\ \E p \in Players, i \in Items : \E k \in (-acct[p].shed[i])..Room(acct[p]) :
          current' = [current EXCEPT !.acct[p] = Shelved(@, i, k, 0)]
    /\ UNCHANGED <<step, slot, market_prices, market_dirty, shops>>

OpenSlot ==
    /\ phase = "market" /\ slot < MaxMarketOrders
    /\ \E offer \in [Players -> Offers] : current' = Opened(acct, market_inventory, offer)
    /\ phase' = "loop"
    /\ UNCHANGED <<step, slot, market_prices, market_dirty, shops>>

\* adjust_market_inventory marks what it changes.
PlayRound ==
    /\ phase = "loop" /\ ~Over(current)
    /\ current' = Round(current)
    /\ market_dirty' = market_dirty \cup
                       {i \in Products : Round(current).inv[i] # market_inventory[i]}
    /\ UNCHANGED <<step, phase, slot, market_prices, shops>>

CloseSlot ==
    /\ phase = "loop" /\ Over(current)
    /\ current' = Resting(acct, market_inventory)
    /\ phase' = "market"
    /\ slot' = slot + 1
    /\ UNCHANGED <<step, market_prices, market_dirty, shops>>

EndOfDay == (step + 1) % TurnsPerDay = 0

\* apply_town_center and apply_town_shops.
CenterBuys(i) == IF step % CenterInterval = 0 /\ i \in CenterProducts THEN 1 ELSE 0
ShopsBuy(i) == IF step % ShopInterval = 0
               THEN SumFunction([k \in 1..Len(shops) |-> shops[k][i]]) ELSE 0
Consumed(i) == CenterBuys(i) + ShopsBuy(i)

\* The posted prices to be renewed.
StaleTrades == market_dirty     \* seeded bug: what the town consumes is not marked
Stale == market_dirty \cup {i \in Products : Consumed(i) > 0}

\* The town consumes, prices are posted, and at the end of a day the hands leave and a
\* shop may open, any of the eight kinds.
TownTurn ==
    /\ phase = "market" /\ slot = MaxMarketOrders
    /\ LET inv == [i \in Products |-> market_inventory[i] - Consumed(i)]
       IN  /\ current' = Resting([p \in Players |->
                            [acct[p] EXCEPT !.hires = IF EndOfDay THEN 0 ELSE @]], inv)
           /\ market_prices' = [i \in Products |-> IF i \in Stale THEN Price(i, inv[i])
                                                   ELSE market_prices[i]]
           /\ market_dirty' = {}
    /\ IF EndOfDay /\ ((step + 1) \div TurnsPerDay) % UnlockDays = 0 /\ Len(shops) < MaxShops
       THEN \E d \in Demands : shops' = Append(shops, d)
       ELSE UNCHANGED shops
    /\ step' = step + 1
    /\ phase' = "units"
    /\ slot' = 0

\* The bound on turns is reached.
Rest == phase = "units" /\ step = MaxStep /\ UNCHANGED vars

Next == UnitsAct \/ OpenSlot \/ PlayRound \/ CloseSlot \/ TownTurn \/ Rest

Spec == Init /\ [][Next]_vars

\* The loops of advance_state are finite and nothing interrupts them.
FairSpec == Spec /\ WF_vars(Next)
-----------------------------------------------------------------------------
(* What the players can rely on. *)

\* Nobody spends money or goods he has not: through lockstep and bulk alike the account is
\* never overdrawn and the shed's running total is what lies in it, within its capacity
\* (debug_assert_invariants).
AccountsSound ==
    \A p \in Players : LET a == acct[p] IN
        /\ a.money >= 0
        /\ \A i \in Items : a.shed[i] >= 0
        /\ a.shed_used = SumFunction(a.shed)
        /\ a.shed_used <= ShedCapacity

\* The seats are equal: with the seats swapped a round ends as the same round with the
\* seats swapped.  Quoting a player after the other's commit would break it, or serving
\* player 0 first for the last unit (MECHANICS.md:202, both players see the same
\* pre-commit price, and MECHANICS.md:616 ff., seat-swapped equivalence).
Swapped(s) ==
    [s EXCEPT !.acct = [p \in Players |-> s.acct[Other(p)]],
              !.offer = [p \in Players |-> s.offer[Other(p)]],
              !.active = [p \in Players |-> s.active[Other(p)]]]
SeatsSymmetric ==
    phase = "loop" /\ ~Over(current) => Round(Swapped(current)) = Swapped(Round(current))

\* The posted prices are a cache: whatever is not marked dirty is posted at the price of
\* the present inventory (refresh_prices, adjust_market_inventory).
PostedPricesCurrent ==
    \A i \in Products \ market_dirty : market_prices[i] = Price(i, market_inventory[i])

\* Buying goods and selling them back at once gains nothing, however many and whatever
\* the inventory between two turns (MECHANICS.md:383 has it for one unit: "nets exactly zero").
RoundTripNeverGains ==
    phase = "units" => \A p \in Players, i \in Buyable, n \in 1..ShedCapacity :
        LET bought == Bulk(acct[p], [op |-> "BUY_PRODUCT", target |-> i, n |-> n], n,
                           market_inventory)
            k      == bought.account.shed[i] - acct[p].shed[i]
            sold   == Bulk(bought.account, [op |-> "SELL", target |-> i, n |-> k], k,
                           [market_inventory EXCEPT ![i] = @ + bought.supply])
        IN  sold.account = acct[p]

\* "The interleaved path remains the reference path" (apply_market_bulk): at any point of
\* a slot, finishing with the bulk settlements gives every account and the market the same
\* as trading unit by unit.  No slot has more rounds than the larger order has units.
MostUnits(s) == Max({s.offer[p].n : p \in Players})
Played(s) ==
    LET after[k \in Nat] ==
            IF k = 0 THEN s
            ELSE LET t == after[k - 1] IN IF Over(t) THEN t ELSE Round(t)
    IN  after[MostUnits(s)]
PlayedInLockstep(s) ==
    LET after[k \in Nat] ==
            IF k = 0 THEN s
            ELSE LET t == after[k - 1]
                 IN  IF (\A p \in Players : ~Served(t, p)) \/ t.unit + 1 >= Escape THEN t
                     ELSE Lockstep(t)
    IN  after[MostUnits(s)]
BulkMatchesLockstep ==
    phase = "loop" =>
        LET fast == Played(current)
            slow == PlayedInLockstep(current)
        IN  fast.acct = slow.acct /\ fast.inv = slow.inv

\* The market's books: accounts that are sound and posted prices that are current.
MarketOK == TypeOK /\ AccountsSound /\ PostedPricesCurrent

\* Nobody gains by his seat, nor by buying and selling in circles.
TradeFair == SeatsSymmetric /\ RoundTripNeverGains

\* The books are right, and the trade they record is fair.
MarketSound == MarketOK /\ TradeFair

\* Whatever is ordered, the slot is served in finitely many rounds.
SlotsEnd == (phase = "loop") ~> (phase = "market")

\* debug_assert_invariants, called at the end of advance_state: the market inventory is
\* never negative.
MarketInventoryNonNegative ==
    phase = "units" => \A i \in Products : market_inventory[i] >= 0
=============================================================================
