------------------------------- MODULE MCGame -------------------------------
(***************************************************************************)
(* Small matches of three players: two hexes and a desert around a common  *)
(* corner, two resources, cheap pieces and low thresholds.  Each scenario  *)
(* lets the players send a few commands of the kinds it is about; the      *)
(* clock plays the rest.                                                   *)
(***************************************************************************)
EXTENDS GameBots, TLC

CONSTANTS Ann, Bob, Cyd

Seats == <<Ann, Bob, Cyd>>

\* Three rings of six around vertex 0.
AllVertices == 0..12
AllEdges == {{0, 1}, {1, 2}, {2, 3}, {3, 4}, {4, 5}, {5, 0}, {1, 6}, {6, 7}, {7, 8}, {8, 9},
             {9, 0}, {9, 12}, {12, 11}, {11, 10}, {10, 5}}
AllHexes == {"wood", "hill", "sand"}
HexCorners == [wood |-> 0..5, hill |-> {0, 1, 6, 7, 8, 9}, sand |-> {0, 5, 9, 10, 11, 12}]
HexTerrain == [wood |-> "timber", hill |-> "ore", sand |-> "desert"]
HexToken == [wood |-> 6, hill |-> 6, sand |-> 0]
Harbours == {[corners |-> {6, 7}, resource |-> "ore"], [corners |-> {3, 4}, resource |-> "any"]}

Materials == {"timber", "ore"}
Price(timber, ore) == [timber |-> timber, ore |-> ore]
Timber == Price(1, 0)
Ore == Price(0, 1)
TimberAndOre == Price(1, 1)
TwoOre == Price(0, 2)
Swaps == {[offered |-> Timber, requested |-> Ore], [offered |-> Ore, requested |-> Timber]}

\* Ann and Bob face each other across vertex 0, where either road may be cut.
Spot(v, w) == [vertex |-> v, edge |-> {v, w}]
Fixed == <<{Spot(12, 9)}, {Spot(10, 5)}, {Spot(4, 3)}, {Spot(8, 7)}, {Spot(6, 1)}, {Spot(2, 1)}>>
Free == [Fixed EXCEPT ![4] = {Spot(8, 7), Spot(8, 9)}, ![6] = {Spot(2, 1), Spot(2, 3)}]

Rules(points, plight, turns) ==
    [victoryPoints |-> points, plightTurn |-> plight, maxTurns |-> turns, diceDoubles |-> FALSE]
Kinds == {"PLACE_SETUP", "ROLL_DICE", "DISCARD_RESOURCES", "MOVE_THIEF", "BUILD_ROAD",
          "BUILD_SETTLEMENT", "UPGRADE_CITY", "BUY_SPECIAL_CARD", "PLAY_KNIGHT",
          "PLAY_ROAD_BUILDING", "PLAY_MONOPOLY", "PLAY_YEAR_OF_PLENTY", "MARITIME_TRADE",
          "OFFER_TRADE", "CANCEL_TRADE", "RESPOND_TRADE", "FINALIZE_TRADE", "EXPIRE_TRADE",
          "END_TURN"}
Allow(commands) == commands @@ [k \in Kinds |-> 0]
NoCards == [type \in {"KNIGHT"} |-> 0]

\* Building against each other for the longest road.
Roads == [rules |-> Rules(6, 0, 4), deck |-> NoCards, sums |-> {6}, setups |-> Fixed,
    left |-> Allow("BUILD_ROAD" :> 4 @@ "BUILD_SETTLEMENT" :> 1 @@ "MARITIME_TRADE" :> 1)]

\* A city, a road, and the plight before the second turn.
Plight == [rules |-> Rules(5, 2, 3), deck |-> NoCards, sums |-> {6}, setups |-> Fixed,
    left |-> Allow("BUILD_ROAD" :> 2 @@ "UPGRADE_CITY" :> 1)]

\* Sevens and doubled production, from several openings.
Thief == [rules |-> [Rules(6, 0, 2) EXCEPT !.diceDoubles = TRUE], deck |-> NoCards,
    sums |-> {6, 7}, setups |-> Free,
    left |-> Allow("PLACE_SETUP" :> 1 @@ "ROLL_DICE" :> 1 @@ "DISCARD_RESOURCES" :> 1
                   @@ "MOVE_THIEF" :> 1)]

\* Every kind of development card.
Deck == [rules |-> Rules(5, 0, 6), sums |-> {6}, setups |-> Fixed,
    deck |-> [KNIGHT |-> 2, ROAD_BUILDING |-> 1, MONOPOLY |-> 1, YEAR_OF_PLENTY |-> 1,
              VICTORY_POINT |-> 1],
    left |-> Allow("BUY_SPECIAL_CARD" :> 2 @@ "PLAY_KNIGHT" :> 2 @@ "PLAY_ROAD_BUILDING" :> 1
                   @@ "PLAY_MONOPOLY" :> 1 @@ "PLAY_YEAR_OF_PLENTY" :> 1)]

\* Two offers after each other, with every answer.
Trade == [rules |-> Rules(6, 0, 2), deck |-> NoCards, sums |-> {6}, setups |-> Fixed,
    left |-> Allow("OFFER_TRADE" :> 2 @@ "RESPOND_TRADE" :> 3 @@ "FINALIZE_TRADE" :> 1
                   @@ "CANCEL_TRADE" :> 1 @@ "EXPIRE_TRADE" :> 1 @@ "END_TURN" :> 1)]

Matches == {Roads, Plight, Thief, Deck, Trade}
JustRoads == {Roads}
=============================================================================
