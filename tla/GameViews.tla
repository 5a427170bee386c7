----------------------------- MODULE GameViews -----------------------------
(***************************************************************************)
(* What a player is shown of a match and what is made of it: the view the  *)
(* server serializes (game-core/src/serialize.ts), the game the web client *)
(* rebuilds from it (web/src/viewer-projection.ts), the game a bot guesses *)
(* from it (bots/src/index.ts), and the menu of legal actions all three    *)
(* compute (getLegalActions).                                              *)
(***************************************************************************)
EXTENDS Game, SequencesExt

ShownToAll(g, viewer, p) == TRUE                     \* mutant
Shown(g, viewer, p) == viewer = p \/ Is(g, "GAME_OVER")
CanSeeTrade(trade, viewer) == viewer = trade.from \/ viewer \in trade.recipients

\* serializeTradeForViewer
TradeFor(trade, viewer) ==
    IF trade = NoTrade \/ CanSeeTrade(trade, viewer) THEN trade
    ELSE [trade EXCEPT !.offered = Nothing, !.requested = Nothing, !.responses = <<>>]

\* phaseForViewer: who has discarded, but what only to themselves.
PhaseFor(phase, viewer) ==
    IF phase.type # "DISCARDING" THEN phase
    ELSE DiscardPhase(phase.active, phase.roller, phase.pending,
             [p \in DOMAIN phase.submitted |->
                 IF p = viewer THEN phase.submitted[p] ELSE Nothing])

Unplayed(g, p) == {i \in CardsOf(g, p) : ~g.cards[i].played}

\* A card that is not shown, only counted.
Absent == [owner |-> NoOne, type |-> "hidden", bought |-> 0, played |-> FALSE]

\* serializeForViewer.  Whoever is not shown a player's cards gets their number.
View(g, viewer) ==
    [rules |-> g.rules, phase |-> PhaseFor(g.phase, viewer), turn |-> g.turn, roads |-> g.roads,
     buildings |-> g.buildings, thief |-> g.thief, bank |-> g.bank,
     roadOwner |-> g.roadOwner, armyOwner |-> g.armyOwner,
     hasLongestRoad |-> g.hasLongestRoad, hasLargestArmy |-> g.hasLargestArmy,
     knights |-> g.knights, playedCardTurn |-> g.playedCardTurn, score |-> g.score,
     points |-> [p \in Player |-> IF Shown(g, viewer, p) THEN TrueVictoryPoints(g, p)
                                  ELSE g.score[p]],
     cardCount |-> [p \in Player |-> Cardinality(Unplayed(g, p))],
     cards |-> [i \in DOMAIN g.cards |-> IF Shown(g, viewer, g.cards[i].owner)
                                         THEN g.cards[i] ELSE Absent],
     handCount |-> [p \in Player |-> Count(g.hand[p])],
     hand |-> g.hand[viewer],
     trades |-> [t \in TradeId |-> TradeFor(g.trades[t], viewer)],
     deckLeft |-> SumFunctionOnSet(g.deck, DOMAIN g.deck)]

-----------------------------------------------------------------------------
\* A game rebuilt from a view: what the view lacks is filled in by the caller, and
\* the deck is so many cards of some kind.

Rebuilt(view, hands, plightApplied) ==
    [rules |-> view.rules, deck |-> [KNIGHT |-> view.deckLeft], turn |-> view.turn,
     phase |-> view.phase, hand |-> hands, bank |-> view.bank, roads |-> view.roads,
     buildings |-> view.buildings, thief |-> view.thief,
     cards |-> view.cards, playedCardTurn |-> view.playedCardTurn, knights |-> view.knights, score |-> view.score,
     hasLongestRoad |-> view.hasLongestRoad, roadOwner |-> view.roadOwner,
     hasLargestArmy |-> view.hasLargestArmy, armyOwner |-> view.armyOwner,
     trades |-> view.trades, plightApplied |-> plightApplied]

\* projectViewerToGameState: to the client the others' hands are empty.
ClientState(view, viewer) ==
    Rebuilt(view, [p \in Player |-> IF p = viewer THEN view.hand ELSE Nothing], FALSE)

\* visibleStealTargets: the client asks the counts of the view instead.
VisibleStealTargets(view, viewer, h) ==
    {q \in Player \ {viewer} : /\ view.handCount[q] > 0
                               /\ \E v \in Corners[h] : view.buildings[v].owner = q}

\* viewerResourceBundles: a bot deals the cards it does not see to the others in
\* seat order, always the resource of which most are left.
HiddenCards(view, bot) ==
    FlattenSeq([i \in DOMAIN PlayerOrder |->
        IF PlayerOrder[i] = bot THEN <<>>
        ELSE [n \in 1..view.handCount[PlayerOrder[i]] |-> PlayerOrder[i]]])

NoneDealt(view, bot) ==
    [hands |-> [p \in Player |-> IF p = bot THEN view.hand ELSE Nothing],
     left  |-> [r \in Resource |-> Max({0, BankSize - view.bank[r] - view.hand[r]})]]

DealOne(dealt, p) ==
    LET most == CHOOSE r \in Resource : \A s \in Resource : dealt.left[r] >= dealt.left[s]
    IN  IF dealt.left[most] = 0 THEN dealt
        ELSE [hands |-> [dealt.hands EXCEPT ![p][most] = @ + 1],
              left |-> [dealt.left EXCEPT ![most] = @ - 1]]

EstimatedHands(view, bot) ==
    FoldLeft(DealOne, NoneDealt(view, bot), HiddenCards(view, bot)).hands

\* createBotView's state
BotState(view, bot) == Rebuilt(view, EstimatedHands(view, bot), FALSE)

-----------------------------------------------------------------------------
\* getLegalActions.  Setup and thief choices are listed without the edge and the
\* victim that go with them; two plenty resources as bots and the client pair them.

\* Mutant: a card can be played on the turn it was bought.
UnplayedCards(g, p, type) ==
    {i \in CardsOf(g, p) : /\ g.cards[i].type = type /\ ~g.cards[i].played
                           /\ g.playedCardTurn[p] # g.turn}

PlayableCards(g, p, type) ==
    {i \in CardsOf(g, p) : /\ g.cards[i].type = type /\ ~g.cards[i].played
                           /\ g.cards[i].bought # g.turn /\ g.playedCardTurn[p] # g.turn}

LegalActions(g, p) ==
    LET free     == ActivePlayer(g) = p /\ ActiveCollectingTrades(g, p) = {}
        at(phase) == free /\ Is(g, phase)
        acting   == at("ACTION_PHASE")
        cards(type) == {i \in PlayableCards(g, p, type) : acting \/ at("WAITING_FOR_ROLL")}
        discards == IF Pending(g, p) THEN g.phase.pending[p] ELSE 0
    IN  [DISCARD_RESOURCES |-> discards,
         ROLL_DICE |-> at("WAITING_FOR_ROLL"),
         END_TURN |-> acting,
         PLACE_SETUP |-> {v \in Vertex : at("SETUP_PLACEMENT") /\ CanPlaceSettlement(g, v, FALSE, p)},
         MOVE_THIEF |-> {h \in ValidThiefHexes(g) : at("MOVING_THIEF")},
         MARITIME_TRADE |-> {x \in Resource \X Resource :
             /\ acting /\ x[1] # x[2] /\ g.bank[x[2]] > 0
             /\ g.hand[p][x[1]] >= MaritimeTradeRatio(g, p, x[1])},
         BUILD_ROAD |-> {e \in Edge : /\ acting /\ Cardinality(RoadsOf(g, p)) < MaxRoads
                                      /\ CanBuildRoad(g, p, e) /\ Has(g.hand[p], RoadCost)},
         BUILD_SETTLEMENT |-> {v \in Vertex :
             /\ acting /\ Cardinality(BuildingsOf(g, p, "settlement")) < MaxSettlements
             /\ CanPlaceSettlement(g, v, TRUE, p) /\ Has(g.hand[p], SettlementCost)},
         UPGRADE_CITY |-> {v \in BuildingsOf(g, p, "settlement") :
             /\ acting /\ Cardinality(BuildingsOf(g, p, "city")) < MaxCities
             /\ Has(g.hand[p], CityCost)},
         BUY_SPECIAL_CARD |-> acting /\ InDeck(g) # {} /\ Has(g.hand[p], CardCost),
         PLAY_KNIGHT |-> cards("KNIGHT") \X ValidThiefHexes(g),
         PLAY_ROAD_BUILDING |-> IF cards("ROAD_BUILDING") = {} THEN {}
                                ELSE cards("ROAD_BUILDING") \X RoadBuildingOptions(g, p),
         PLAY_MONOPOLY |-> cards("MONOPOLY") \X Resource,
         PLAY_YEAR_OF_PLENTY |-> {x \in cards("YEAR_OF_PLENTY") \X Resource \X Resource :
             /\ g.bank[x[2]] > 0 /\ g.bank[x[3]] > 0
             /\ x[2] = x[3] => g.bank[x[2]] >= 2}]

-----------------------------------------------------------------------------
\* What validateCommand accepts, in the same form.
Accepted(g, p) ==
    LET victim == Player \cup {NoOne}
        mine   == CardsOf(g, p)
    IN  [DISCARD_RESOURCES |->
             IF Pending(g, p) /\ (\E b \in SubBundles(g.hand[p], g.phase.pending[p]) :
                                      ValidDiscardResources(g, p, b))
             THEN g.phase.pending[p] ELSE 0,
         ROLL_DICE |-> ValidRollDice(g, p),
         END_TURN |-> ValidEndTurn(g, p),
         PLACE_SETUP |-> {v \in Vertex : \E e \in Edge : ValidPlaceSetup(g, p, v, e)},
         MOVE_THIEF |-> {h \in Hex : \E q \in victim : ValidMoveThief(g, p, h, q)},
         MARITIME_TRADE |-> {x \in Resource \X Resource :
                               ValidMaritimeTrade(g, p, x[1], x[2])},
         BUILD_ROAD |-> {e \in Edge : ValidBuildRoad(g, p, e)},
         BUILD_SETTLEMENT |-> {v \in Vertex : ValidBuildSettlement(g, p, v)},
         UPGRADE_CITY |-> {v \in Vertex : ValidUpgradeCity(g, p, v)},
         BUY_SPECIAL_CARD |-> ValidBuySpecialCard(g, p),
         PLAY_KNIGHT |-> {x \in mine \X Hex :
                            \E q \in victim : ValidPlayKnight(g, p, x[1], x[2], q)},
         PLAY_ROAD_BUILDING |->
             IF \A i \in mine : ~ValidDevelopmentCardPlay(g, p, i, "ROAD_BUILDING") THEN {}
             ELSE {x \in mine \X RoadBuildingOptions(g, p) :
                      ValidPlayRoadBuilding(g, p, x[1], x[2])},
         PLAY_MONOPOLY |-> {x \in mine \X Resource :
                               ValidDevelopmentCardPlay(g, p, x[1], "MONOPOLY")},
         PLAY_YEAR_OF_PLENTY |-> {x \in mine \X Resource \X Resource :
                                     ValidPlayYearOfPlenty(g, p, x[1], x[2], x[3])}]

(* The menus are true.  What getLegalActions lists is what validateCommand *)
(* accepts, no more and no less, and a client or a bot that computes the   *)
(* menu from its own incomplete view of the game gets the same one, with   *)
(* the same players to steal from.                                         *)
MenusAreTrue ==
    \A p \in Player :
        LET view == View(game, p)
            menu == LegalActions(game, p)
        IN  /\ menu = Accepted(game, p)
            /\ menu = LegalActions(ClientState(view, p), p)
            /\ menu = LegalActions(BotState(view, p), p)
            /\ \A h \in Hex :
                   EligibleStealTargets(game, p, h) = VisibleStealTargets(view, p, h)

(* Players can act.  What the menu offers is what the engine accepts, and  *)
(* whoever is held to a staged offer can carry it out.                     *)
PlayersCanAct == MenusAreTrue /\ StagedOffersHold

\* The matches that differ from this one only in what p must not know: one card
\* of two other hands is swapped, somebody's unplayed card is another kind, an
\* offer between others is another offer with other answers, or somebody has
\* discarded other cards.
Indistinguishable(p) ==
    LET others == Player \ {p}
        swap(q, r, x, y) == [game EXCEPT !.hand[q] = Plus(Minus(@, One(x)), One(y)),
                                         !.hand[r] = Plus(Minus(@, One(y)), One(x))]
        swaps == {s \in others \X others \X Resource \X Resource :
                     s[1] # s[2] /\ game.hand[s[1]][s[3]] > 0 /\ game.hand[s[2]][s[4]] > 0}
        kinds == {k \in (UNION {Unplayed(game, q) : q \in others}) \X InDeck(game) :
                     ~Is(game, "GAME_OVER") /\ game.cards[k[1]].type # k[2]}
        offers == {t \in TradeId : game.trades[t] # NoTrade /\ ~CanSeeTrade(game.trades[t], p)}
        other(trade, o) == [trade EXCEPT !.offered = o.offered, !.requested = o.requested,
                                         !.responses = [q \in DOMAIN @ |-> "REJECTED"]]
        thrown == {d \in others \X Resource :
                      Is(game, "DISCARDING") /\ d[1] \in DOMAIN game.phase.submitted}
    IN  {swap(s[1], s[2], s[3], s[4]) : s \in swaps}
        \cup {[game EXCEPT !.cards[k[1]].type = k[2], !.deck[k[2]] = @ - 1,
                           !.deck[game.cards[k[1]].type] = @ + 1] : k \in kinds}
        \cup {[game EXCEPT !.trades[x[1]] = other(@, x[2])] : x \in offers \X Offers}
        \cup {[game EXCEPT !.phase.submitted[d[1]] = Many(d[2], game.phase.pending[d[1]])] :
                  d \in thrown}

(* A view tells nothing of what its viewer must not know, whatever the     *)
(* course of the match: hands, unplayed cards and the points they hide,    *)
(* discards, what is offered between others and how it is answered.        *)
ViewsDoNotTell == \A p \in Player : \A g \in Indistinguishable(p) : View(g, p) = View(game, p)
=============================================================================
