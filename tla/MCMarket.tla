------------------------------ MODULE MCMarket ------------------------------
(***************************************************************************)
(* A small market for TLC: two products, one of them on sale, one crop and *)
(* one animal, prices a few dollars apart and close to the floor.          *)
(***************************************************************************)
EXTENDS Market

Bid(op, target, n) == [op |-> op, target |-> target, n |-> n]

SeedCostC == [c \in Crops |-> 2]
AnimalCostC == [a \in Animals |-> 3]
LandPricesC == <<3, 4, 5>>
HireCostC == [k \in 0..MaxHands |-> IF k <= 1 THEN 1 ELSE k]
BaseC == [i \in Products |-> 2]
ScarcityC == [i \in Products |-> 1]
GlutC == [i \in Products |-> 1]
I0C == [i \in Products |-> 3]
LowI0C == [i \in Products |-> 1]
DemandsC == {[i \in Products |-> IF i = "EGG" THEN 2 ELSE 0], [i \in Products |-> 1]}

\* Everything that meets in the lockstep: the same product and different ones, a buyer
\* and a seller, orders larger than the shed or the purse.
TradeOffers ==
    {NoOffer, Bid("BUY_PRODUCT", "WHEAT", 1), Bid("BUY_PRODUCT", "WHEAT", 3),
     Bid("SELL", "WHEAT", 2), Bid("SELL", "EGG", 3)}

\* Hands, land, seeds and animals beside trade.
InvestOffers ==
    {NoOffer, Bid("HIRE", "NONE", 1), Bid("BUY_LAND", "NONE", 0),
     Bid("BUY_SEED", "WHEAT", 2), Bid("BUY_ANIMAL", "GOOSE", 2),
     Bid("BUY_PRODUCT", "WHEAT", 4)}

\* Two buyers whose orders exceed the rounds of a slot.
LargeOffers == {NoOffer, Bid("BUY_PRODUCT", "WHEAT", 4), Bid("BUY_PRODUCT", "FERTILIZER", 4)}

AllOffers == TradeOffers \cup InvestOffers

=============================================================================
