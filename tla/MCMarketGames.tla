--------------------------- MODULE MCMarketGames ----------------------------
(***************************************************************************)
(* The small market played as two kinds of game, so that one run sees the  *)
(* trade that meets in a slot and the investments beside it.               *)
(***************************************************************************)
EXTENDS MCMarket, MarketMasks

\* In one game the players trade in two turns, in another they invest in the two slots of
\* one, and in a third they spend in one turn and sell and invest in the two slots of the
\* next, when the masks were written by a poorer player.
VARIABLE game
DearSeedC == [c \in Crops |-> 5]     \* whoever can pay the price of a crop cannot always sow it
Spent == << {NoOffer, Bid("BUY_LAND", "NONE", 0), Bid("BUY_ANIMAL", "GOOSE", 1),
             Bid("HIRE", "NONE", 1)},
            {NoOffer, Bid("HIRE", "NONE", 1), Bid("BUY_LAND", "NONE", 0)} >>
Recovered ==
    << {NoOffer, Bid("SELL", "EGG", 1)},
       {NoOffer, Bid("HIRE", "NONE", 1), Bid("BUY_SEED", "WHEAT", 1),
        Bid("BUY_ANIMAL", "GOOSE", 1), Bid("BUY_PRODUCT", "WHEAT", 1)} >>
Dumped == {NoOffer, Bid("SELL", "WHEAT", 3)}
GameOffers == AllOffers \cup UNION {Spent[k] \cup Recovered[k] : k \in 1..2} \cup Dumped

OffersOf(p) ==
    CASE game = "trade" /\ slot = 0 -> TradeOffers
      [] game = "invest" /\ step = 0 -> InvestOffers
      [] game = "recover" /\ p = 0 -> IF step = 0 THEN Spent[slot + 1] ELSE Recovered[slot + 1]
      [] game = "recover" /\ p = 1 /\ step = 1 /\ slot = 0 -> Dumped
      [] OTHER -> {NoOffer}

GameInit == ObservedInit /\ game \in {"trade", "invest", "recover"}
GameNext == /\ ObservedNext /\ UNCHANGED game
            /\ phase' = "loop" => \A p \in Players : current'.offer[p] \in OffersOf(p)
            /\ phase = "units" /\ (game # "recover" \/ step = 0) =>
                  \A p \in Players : acct'[p].shed_used - acct[p].shed_used \in
                     (IF game = "recover" THEN {0, 3 - 3 * p} ELSE {-1, 0, 1})

\* A slot that is begun is played on (FairSpec, for the two actions that matter here).
GameSpec == /\ GameInit /\ [][GameNext]_<<vars, observed, game>>
            /\ WF_vars(PlayRound) /\ WF_vars(CloseSlot)
=============================================================================
