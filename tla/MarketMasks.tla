---------------------------- MODULE MarketMasks -----------------------------
(***************************************************************************)
(* What the engine tells a policy it may trade (lib.rs,                    *)
(* write_action_masks): operations and targets, the same for every market  *)
(* slot.  The masks are written once a turn, after reset or step, from     *)
(* the state that is observed then; units, the slots before and the other  *)
(* player change it before a slot is served.  Every quantity is offered.   *)
(***************************************************************************)
EXTENDS Market

CONSTANTS
    Fibonacci,       \* fibonacci, by the number of hires made today
    FarmHandCostMult \* farm_hand_cost_mult

ASSUME MasksAssumption ==
    /\ Fibonacci \in [0..MaxHands -> Nat]
    /\ \A k \in 0..MaxHands :
          Fibonacci[k] = IF k <= 1 THEN 1 ELSE Fibonacci[k - 1] + Fibonacci[k - 2]
    /\ FarmHandCostMult \in Nat
    /\ HireCost = [k \in 0..MaxHands |-> FarmHandCostMult * Fibonacci[k]]
    /\ \A j, k \in 1..3 : j <= k => LandPrices[j] <= LandPrices[k]

VARIABLE observed    \* the accounts and posted prices that the masks were written from

Observation == [acct |-> acct, prices |-> market_prices]

ObservedInit == Init /\ observed = Observation

ObservedNext ==
    /\ Next
    /\ observed' = IF phase' = "units" THEN Observation' ELSE observed

ObservedSpec == ObservedInit /\ [][ObservedNext]_<<vars, observed>>

-----------------------------------------------------------------------------
MarketOperations ==
    {"PASS", "BUY_SEED", "BUY_PRODUCT", "BUY_ANIMAL", "SELL", "HIRE", "BUY_LAND"}

\* HIRE is offered at the plain Fibonacci price, whatever multiple of it is charged.
OperationMask(a) ==
    MarketOperations
      \ ((IF a.hires >= MaxHands \/ a.money < Fibonacci[a.hires] THEN {"HIRE"} ELSE {})
         \cup (IF a.lands >= 3 \/ a.money < LandPrices[a.lands + 1] THEN {"BUY_LAND"} ELSE {}))

\* Seeded bug: what lies in a full shed is not offered.
TargetMaskOfRoom(a, prices) ==
    {c \in Crops : a.money >= SeedCost[c]}
      \cup (IF a.shed_used < ShedCapacity
            THEN {i \in Buyable : a.money >= prices[i]}
                   \cup {i \in Animals : a.money >= AnimalCost[i]}
                   \cup {i \in Products : a.shed[i] > 0}
            ELSE {})

\* One list of targets for all operations: seeds share the places of their crops.
TargetMask(a, prices) ==
    {c \in Crops : a.money >= SeedCost[c]}
      \cup (IF a.shed_used < ShedCapacity
            THEN {i \in Buyable : a.money >= prices[i]}
                   \cup {i \in Animals : a.money >= AnimalCost[i]}
            ELSE {})
      \cup {i \in Products : a.shed[i] > 0}

Offered(p, o) ==
    /\ o.op \in OperationMask(observed.acct[p])
    /\ o.op \notin {"PASS", "HIRE", "BUY_LAND"} =>
          o.target \in TargetMask(observed.acct[p], observed.prices)

\* What a trade needs and the masks did not know of: money, room or goods that came since the
\* observation, a price that has fallen since, or hands that cost nothing.
Richer(p) == acct[p].money > observed.acct[p].money
Roomier(p) == Room(acct[p]) > Room(observed.acct[p])
Cheaper(i) == Price(i, market_inventory[i]) < observed.prices[i]
Restocked(p, i) == acct[p].shed[i] > observed.acct[p].shed[i]

MadePossible(p, o) ==
    CASE o.op = "SELL" -> Restocked(p, o.target)
      [] o.op = "BUY_PRODUCT" -> Richer(p) \/ Roomier(p) \/ Cheaper(o.target)
      [] o.op = "BUY_ANIMAL" -> Richer(p) \/ Roomier(p)
      [] o.op = "HIRE" -> Richer(p) \/ FarmHandCostMult = 0
      [] OTHER -> Richer(p)

\* The masks of a turn hide no trade that the observed state allowed: in whatever slot and
\* round, by lockstep or in bulk, a trade that was not offered comes about only through what
\* units, earlier trades or the other player have changed since the masks were written
\* (write_action_masks against apply_market_action and apply_market_bulk).
TradesTold ==
    [][phase' = "loop" =>
          \A p \in Players : LET o == current'.offer[p] IN
              acct'[p] # acct[p] /\ ~Offered(p, o) => MadePossible(p, o)]_vars
=============================================================================
