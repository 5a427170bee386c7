-------------------------------- MODULE Game --------------------------------
(***************************************************************************)
(* A match: the commands players send, what makes one valid and what it    *)
(* does (packages/game-core/src/engine.ts), and the command the server     *)
(* plays for whoever lets the clock run out (server/src/room-manager.ts).  *)
(*                                                                         *)
(* Dice, draws, thefts and the plight take any outcome the seed may give.  *)
(* An offer of the current schema is born collecting responses, so that    *)
(* nothing is ever OPEN: ACCEPT_TRADE, REJECT_TRADE and the expiry of open *)
(* offers, which demand OPEN, are left out.  left bounds how often each    *)
(* command is sent; the clock is not bounded, a game is by maxTurns.       *)
(***************************************************************************)
EXTENDS GameEvents

CONSTANTS
    TradeId,          \* names of offers: no more are made in one game
    Offers,           \* the [offered, requested] players think of
    Scenarios         \* the instances: [rules, deck, sums, setups, left]

VARIABLES
    game,             \* the GameState of the room
    scenario,         \* the instance being played
    left              \* left[type]: commands of the type still to be sent

vars == <<game, scenario, left>>

ASSUME OffersFit == Offers \subseteq [offered : Bundle, requested : Bundle]

\* A match needs a point to be won; every placement has its spots.
ASSUME ScenariosFit ==
    \A s \in Scenarios :
        /\ s.rules.victoryPoints \in Nat \ {0}
        /\ s.rules.plightTurn \in Nat
        /\ DOMAIN s.deck \subseteq CardTypes
        /\ s.deck \in [DOMAIN s.deck -> Nat]
        /\ s.setups \in [1..Len(SetupOrder) -> SUBSET [vertex : Vertex, edge : Edge]]

\* The land is large enough: whatever was taken of the spots considered, a vertex
\* of the board is left for the next placement (RoomToSettle of Board).
SetupSpots(s) == {x.vertex : x \in UNION {s.setups[i] : i \in 1..Len(SetupOrder)}}

ASSUME SetupsFit ==
    \A s \in Scenarios : \A taken \in SUBSET SetupSpots(s) :
        Cardinality(taken) < Len(SetupOrder) =>
            \E v \in Vertex \ taken : Neighbours(v) \cap taken = {}

CreateGame(s) ==
    [rules |-> s.rules, deck |-> s.deck, turn |-> 0, phase |-> SetupPhase(PlayerOrder[1], 0),
     hand |-> [p \in Player |-> Nothing], bank |-> [r \in Resource |-> BankSize],
     roads |-> [e \in Edge |-> NoOne], buildings |-> [v \in Vertex |-> NoBuilding],
     thief |-> IF \E h \in Hex : Terrain[h] = Desert
               THEN CHOOSE h \in Hex : Terrain[h] = Desert ELSE CHOOSE h \in Hex : TRUE,
     cards |-> <<>>, playedCardTurn |-> [p \in Player |-> -1],
     knights |-> [p \in Player |-> 0], score |-> [p \in Player |-> 0],
     hasLongestRoad |-> [p \in Player |-> FALSE], roadOwner |-> NoOne,
     hasLargestArmy |-> [p \in Player |-> FALSE], armyOwner |-> NoOne,
     trades |-> [t \in TradeId |-> NoTrade], plightApplied |-> FALSE]

Init == /\ scenario \in Scenarios
        /\ game = CreateGame(scenario)
        /\ left = scenario.left

-----------------------------------------------------------------------------
(* What follows every command (the end of applyCommand): the plight, then  *)
(* a winner, then the limit of turns.                                      *)
PlightOutcomes(g) ==
    LET owners == {p \in Player : \E v \in Vertex : g.buildings[v].owner = p}
    IN  IF g.rules.plightTurn = 0 \/ g.plightApplied \/ g.turn < g.rules.plightTurn
        THEN {g}
        ELSE {PlightStruck(g, lost) : lost \in
                 {f \in [owners -> Vertex] : \A p \in owners : g.buildings[f[p]].owner = p}}

\* Mutant: points are counted against each player's public score.
JudgedByScore(g, type) ==
    LET winner == FirstSeated({p \in Player : g.score[p] >= g.rules.victoryPoints})
    IN  IF winner # NoOne THEN {GameOver(g, winner, "VICTORY_POINTS")}
        ELSE IF type = "END_TURN" /\ g.rules.maxTurns # 0 /\ g.turn >= g.rules.maxTurns
             THEN {GameOver(g, p, "TURN_LIMIT") : p \in AdjudicatedLeaders(g)}
        ELSE {g}

Judged(g, type) ==
    LET winner == WinnerByVictoryPoints(g)
    IN  IF winner # NoOne THEN {GameOver(g, winner, "VICTORY_POINTS")}
        ELSE IF type = "END_TURN" /\ g.rules.maxTurns # 0 /\ g.turn >= g.rules.maxTurns
             THEN {GameOver(g, p, "TURN_LIMIT") : p \in AdjudicatedLeaders(g)}
        ELSE {g}

AfterCommand(g, type) == UNION {Judged(h, type) : h \in PlightOutcomes(g)}

\* A command of the type is sent and its events lead to one of the states.
Reach(type, states) ==
    /\ game' \in UNION {AfterCommand(g, type) : g \in states}
    /\ UNCHANGED scenario

Command(type, states) ==
    /\ left[type] > 0
    /\ left' = [left EXCEPT ![type] = @ - 1]
    /\ Reach(type, states)

\* Before any case of validateCommand: a game that is over takes no command, a
\* player with a staged trade only those that resolve it.
Unlocked(g, p) == ~Is(g, "GAME_OVER") /\ ActiveCollectingTrades(g, p) = {}
Active(g, p, phase) == Unlocked(g, p) /\ ActivePlayer(g) = p /\ Is(g, phase)

-----------------------------------------------------------------------------
\* Setup, dice, discards and the thief.

ValidPlaceSetup(g, p, v, e) ==
    /\ Active(g, p, "SETUP_PLACEMENT")
    /\ v \in e
    /\ Cardinality(BuildingsOf(g, p, "settlement")) < MaxSettlements
    /\ Cardinality(RoadsOf(g, p)) < MaxRoads
    /\ CanPlaceSettlement(g, v, FALSE, p)
    /\ CanBuildSetupRoad(g, e, v)

AfterSetup(g, p, v, e) ==
    SetupPlaced(g, p, v, e, IF g.phase.index >= Len(PlayerOrder)
                            THEN StartingResources(v) ELSE Nothing)

\* The spots the instance considers for this placement.
SetupsHere == scenario.setups[game.phase.index + 1]

PlaceSetup(p, v, e) ==
    /\ ValidPlaceSetup(game, p, v, e)
    /\ Command("PLACE_SETUP", {AfterSetup(game, p, v, e)})

ValidRollDice(g, p) == Active(g, p, "WAITING_FOR_ROLL")

AfterRoll(g, p, sum, multiplier) ==
    LET rolled  == DiceRolled(g, p)
        pending == DiscardRequirements(g)
    IN  IF sum # 7
        THEN ResourcesProduced(rolled,
                 EnforceBankProductionLimit(g, ResourceGainForRoll(g, sum, multiplier)))
        ELSE IF pending = <<>> THEN SevenRolled(rolled, p)
             ELSE DiscardRequired(SevenRolled(rolled, p), p, pending)

Rolls(g, p) ==
    {AfterRoll(g, p, sum, m) : sum \in scenario.sums,
                               m \in IF g.rules.diceDoubles THEN {1, 2} ELSE {1}}

RollDice(p) == ValidRollDice(game, p) /\ Command("ROLL_DICE", Rolls(game, p))

Pending(g, p) == Is(g, "DISCARDING") /\ p \in DOMAIN g.phase.pending \ DOMAIN g.phase.submitted

ValidDiscardResources(g, p, bundle) ==
    /\ Unlocked(g, p) /\ Pending(g, p)
    /\ bundle \in SubBundles(g.hand[p], g.phase.pending[p])

DiscardResources(p, bundle) ==
    /\ ValidDiscardResources(game, p, bundle)
    /\ Command("DISCARD_RESOURCES", {ResourcesDiscarded(game, p, bundle)})

ValidThiefMove(g, p, h, from) ==
    LET targets == EligibleStealTargets(g, p, h)
    IN  /\ h \in ValidThiefHexes(g)
        /\ IF targets = {} THEN from = NoOne ELSE from \in targets

ValidMoveThief(g, p, h, from) ==
    Active(g, p, "MOVING_THIEF") /\ ValidThiefMove(g, p, h, from)

Thefts(g, p, h, reason, from) ==
    {ThiefMoved(g, p, h, reason, from, stolen) : stolen \in StolenResources(g, from)}

MoveThief(p, h, from) ==
    /\ ValidMoveThief(game, p, h, from)
    /\ Command("MOVE_THIEF", Thefts(game, p, h, "ROLL_7", from))

-----------------------------------------------------------------------------
\* Building and buying.

ValidBuildRoad(g, p, e) ==
    /\ Active(g, p, "ACTION_PHASE")
    /\ Cardinality(RoadsOf(g, p)) < MaxRoads
    /\ CanBuildRoad(g, p, e)
    /\ Has(g.hand[p], RoadCost)

BuildRoad(p, e) ==
    /\ ValidBuildRoad(game, p, e)
    /\ Command("BUILD_ROAD", {RoadBuilt(game, p, e, RoadCost)})

ValidBuildSettlement(g, p, v) ==
    /\ Active(g, p, "ACTION_PHASE")
    /\ Cardinality(BuildingsOf(g, p, "settlement")) < MaxSettlements
    /\ CanPlaceSettlement(g, v, TRUE, p)
    /\ Has(g.hand[p], SettlementCost)

BuildSettlement(p, v) ==
    /\ ValidBuildSettlement(game, p, v)
    /\ Command("BUILD_SETTLEMENT", {SettlementBuilt(game, p, v)})

ValidUpgradeCity(g, p, v) ==
    /\ Active(g, p, "ACTION_PHASE")
    /\ g.buildings[v] = Building(p, "settlement")
    /\ Cardinality(BuildingsOf(g, p, "city")) < MaxCities
    /\ Has(g.hand[p], CityCost)

UpgradeCity(p, v) ==
    /\ ValidUpgradeCity(game, p, v)
    /\ Command("UPGRADE_CITY", {CityUpgraded(game, p, v)})

InDeck(g) == {type \in DOMAIN g.deck : g.deck[type] > 0}

ValidBuySpecialCard(g, p) ==
    Active(g, p, "ACTION_PHASE") /\ InDeck(g) # {} /\ Has(g.hand[p], CardCost)

BuySpecialCard(p) ==
    /\ ValidBuySpecialCard(game, p)
    /\ Command("BUY_SPECIAL_CARD", {SpecialCardBought(game, p, type) : type \in InDeck(game)})

-----------------------------------------------------------------------------
\* Development cards.

ValidDevelopmentCardPlay(g, p, i, type) ==
    /\ \/ Active(g, p, "WAITING_FOR_ROLL") \/ Active(g, p, "ACTION_PHASE")
    /\ g.playedCardTurn[p] # g.turn
    /\ g.cards[i].owner = p /\ g.cards[i].type = type
    /\ ~g.cards[i].played /\ g.cards[i].bought # g.turn

ValidPlayKnight(g, p, i, h, from) ==
    ValidDevelopmentCardPlay(g, p, i, "KNIGHT") /\ ValidThiefMove(g, p, h, from)

\* The title changes hands only with the event LARGEST_ARMY_UPDATED.
WithArmyUpdate(before, after) ==
    IF LargestArmyLeader(after) = before.armyOwner THEN after ELSE RefreshLargestArmy(after)

PlayKnight(p, i, h, from) ==
    /\ ValidPlayKnight(game, p, i, h, from)
    /\ Command("PLAY_KNIGHT",
           {WithArmyUpdate(game, g) :
               g \in Thefts(DevelopmentCardPlayed(game, p, i), p, h, "KNIGHT", from)})

ValidPlayRoadBuilding(g, p, i, edges) ==
    /\ ValidDevelopmentCardPlay(g, p, i, "ROAD_BUILDING")
    /\ Cardinality(RoadsOf(g, p)) + Len(edges) <= MaxRoads
    /\ edges \in RoadBuildingOptions(g, p)

AfterRoadBuilding(g, p, i, edges) ==
    LET first == RoadBuilt(DevelopmentCardPlayed(g, p, i), p, edges[1], Nothing)
    IN  IF Len(edges) = 1 THEN first ELSE RoadBuilt(first, p, edges[2], Nothing)

PlayRoadBuilding(p, i, edges) ==
    /\ ValidPlayRoadBuilding(game, p, i, edges)
    /\ Command("PLAY_ROAD_BUILDING", {AfterRoadBuilding(game, p, i, edges)})

PlayMonopoly(p, i, r) ==
    /\ ValidDevelopmentCardPlay(game, p, i, "MONOPOLY")
    /\ Command("PLAY_MONOPOLY", {MonopolyPlayed(DevelopmentCardPlayed(game, p, i), p, r)})

ValidPlayYearOfPlenty(g, p, i, r, s) ==
    /\ ValidDevelopmentCardPlay(g, p, i, "YEAR_OF_PLENTY")
    /\ Has(g.bank, Plus(One(r), One(s)))

PlayYearOfPlenty(p, i, r, s) ==
    /\ ValidPlayYearOfPlenty(game, p, i, r, s)
    /\ Command("PLAY_YEAR_OF_PLENTY",
           {YearOfPlentyPlayed(DevelopmentCardPlayed(game, p, i), p, Plus(One(r), One(s)))})

-----------------------------------------------------------------------------
\* Trades with the bank and with the others, and the end of a turn.

ValidMaritimeTrade(g, p, r, s) ==
    /\ Active(g, p, "ACTION_PHASE")
    /\ r # s
    /\ g.hand[p][r] >= MaritimeTradeRatio(g, p, r)
    /\ g.bank[s] >= 1

MaritimeTrade(p, r, s) ==
    /\ ValidMaritimeTrade(game, p, r, s)
    /\ Command("MARITIME_TRADE", {MaritimeTraded(game, p, r, s, MaritimeTradeRatio(game, p, r))})

ValidOfferTrade(g, p, t, o, to) ==
    /\ Active(g, p, "ACTION_PHASE")
    /\ g.trades[t] = NoTrade
    /\ to # {} /\ p \notin to
    /\ Has(g.hand[p], o.offered)
    /\ Count(o.offered) > 0 /\ Count(o.requested) > 0
    /\ \A r \in Resource : o.offered[r] = 0 \/ o.requested[r] = 0

NewTrade(p, o, to) ==
    [from |-> p, recipients |-> to, offered |-> o.offered, requested |-> o.requested,
     status |-> "COLLECTING_RESPONSES", responses |-> [q \in to |-> "PENDING"]]

OfferTrade(p, t, o, to) ==
    /\ ValidOfferTrade(game, p, t, o, to)
    /\ Command("OFFER_TRADE", {TradeOffered(game, t, NewTrade(p, o, to))})

Mine(g, p, t) == ~Is(g, "GAME_OVER") /\ Collecting(g, t) /\ g.trades[t].from = p

CancelTrade(p, t) ==
    Mine(game, p, t) /\ Command("CANCEL_TRADE", {TradeCancelled(game, t)})

ValidRespondTrade(g, p, t, response) ==
    /\ Unlocked(g, p)
    /\ Collecting(g, t) /\ p \in g.trades[t].recipients
    /\ response = "WANTS_ACCEPT" => /\ Has(g.hand[g.trades[t].from], g.trades[t].offered)
                                    /\ Has(g.hand[p], g.trades[t].requested)

AfterResponse(g, p, t, response) ==
    LET recorded  == TradeResponseRecorded(g, t, p, response)
        trade     == recorded.trades[t]
    IN  IF \A q \in trade.recipients : trade.responses[q] = "REJECTED"
        THEN TradeClosed(recorded, t) ELSE recorded

RespondTrade(p, t, response) ==
    /\ ValidRespondTrade(game, p, t, response)
    /\ Command("RESPOND_TRADE", {AfterResponse(game, p, t, response)})

\* validateCommand's FINALIZE_TRADE up to its last two tests, of the two hands.
Chosen(g, p, t, q) ==
    /\ Mine(g, p, t)
    /\ q \in g.trades[t].recipients /\ g.trades[t].responses[q] = "WANTS_ACCEPT"

ValidFinalizeTrade(g, p, t, q) ==
    /\ Chosen(g, p, t, q)
    /\ Has(g.hand[p], g.trades[t].offered)
    /\ Has(g.hand[q], g.trades[t].requested)

FinalizeTrade(p, t, q) ==
    /\ ValidFinalizeTrade(game, p, t, q)
    /\ Command("FINALIZE_TRADE", {TradeAccepted(game, t, q)})

\* The server closes an offer whose time for answers is up.
ExpireTrade(p, t) ==
    Mine(game, p, t) /\ Command("EXPIRE_TRADE", {TradeClosed(game, t)})

ValidEndTurn(g, p) == Active(g, p, "ACTION_PHASE")

\* Closing the offers still open comes before the end: the lock leaves none.
AfterEndTurn(g, p) == TurnEnded(g, PlayerOrder[(SeatOf(p) % Len(PlayerOrder)) + 1])

EndTurn(p) == ValidEndTurn(game, p) /\ Command("END_TURN", {AfterEndTurn(game, p)})

-----------------------------------------------------------------------------
(* The clock: what the server plays for the active player when the time of *)
(* the phase is up.  Which hex, victim, bundle or spot its ranking takes   *)
(* is left open.                                                           *)
Clock(p, type, states) ==
    /\ p = ActivePlayer(game)
    /\ Reach(type, states)
    /\ UNCHANGED left

ClockPlaces(p) ==
    /\ Is(game, "SETUP_PLACEMENT")
    /\ Clock(p, "PLACE_SETUP",
           {AfterSetup(game, p, s.vertex, s.edge) :
               s \in {s \in SetupsHere : ValidPlaceSetup(game, p, s.vertex, s.edge)}})

ClockRolls(p) == ValidRollDice(game, p) /\ Clock(p, "ROLL_DICE", Rolls(game, p))

ClockDiscards(p) ==
    /\ Pending(game, p)
    /\ Clock(p, "DISCARD_RESOURCES",
           {ResourcesDiscarded(game, p, b) :
               b \in {b \in SubBundles(game.hand[p], game.phase.pending[p]) :
                         ValidDiscardResources(game, p, b)}})

ClockMovesThief(p) ==
    \E h \in ValidThiefHexes(game), from \in Player \cup {NoOne} :
        /\ ValidMoveThief(game, p, h, from)
        /\ Clock(p, "MOVE_THIEF", Thefts(game, p, h, "ROLL_7", from))

Unfreed(g, p) == {g}                                 \* mutant: the offer stays
\* With an offer of the player still staged, one commit closes it and ends the turn.
Freed(g, p) ==
    LET staged == ActiveCollectingTrades(g, p)
    IN  IF staged = {} THEN {g}
        ELSE AfterCommand(TradeClosed(g, CHOOSE t \in staged : TRUE), "EXPIRE_TRADE")

ClockEndsTurn(p) ==
    /\ Is(game, "ACTION_PHASE")
    /\ Clock(p, "END_TURN",
           {AfterEndTurn(g, p) : g \in {g \in Freed(game, p) : ValidEndTurn(g, p)}})

TurnClock ==
    \E p \in Player : \/ ClockPlaces(p) \/ ClockRolls(p) \/ ClockDiscards(p)
                      \/ ClockMovesThief(p) \/ ClockEndsTurn(p)

-----------------------------------------------------------------------------
Cards == DOMAIN game.cards

SetupMove ==
    /\ Is(game, "SETUP_PLACEMENT")
    /\ \E p \in Player, s \in SetupsHere : PlaceSetup(p, s.vertex, s.edge)

TurnMove ==
    \E p \in Player :
        \/ RollDice(p) \/ EndTurn(p) \/ BuySpecialCard(p)
        \/ Pending(game, p) /\ \E b \in SubBundles(game.hand[p], game.phase.pending[p]) :
               DiscardResources(p, b)
        \/ \E h \in Hex, from \in Player \cup {NoOne} : MoveThief(p, h, from)
        \/ \E e \in Edge : BuildRoad(p, e)
        \/ \E v \in Vertex : BuildSettlement(p, v) \/ UpgradeCity(p, v)
        \/ \E r, s \in Resource : MaritimeTrade(p, r, s)

CardMove ==
    \E p \in Player, i \in Cards :
        \/ \E h \in Hex, from \in Player \cup {NoOne} : PlayKnight(p, i, h, from)
        \/ /\ ValidDevelopmentCardPlay(game, p, i, "ROAD_BUILDING")
           /\ \E edges \in RoadBuildingOptions(game, p) : PlayRoadBuilding(p, i, edges)
        \/ \E r \in Resource : PlayMonopoly(p, i, r)
        \/ \E r, s \in Resource : PlayYearOfPlenty(p, i, r, s)

TradeMove ==
    \E p \in Player, t \in TradeId :
        \/ \E o \in Offers, to \in SUBSET (Player \ {p}) : OfferTrade(p, t, o, to)
        \/ \E response \in {"WANTS_ACCEPT", "REJECTED"} : RespondTrade(p, t, response)
        \/ \E q \in Player : FinalizeTrade(p, t, q)
        \/ CancelTrade(p, t) \/ ExpireTrade(p, t)

\* Nothing leaves a game that is over: it stops there.
Over == Is(game, "GAME_OVER") /\ UNCHANGED vars

Next == SetupMove \/ TurnMove \/ CardMove \/ TradeMove \/ TurnClock \/ Over

\* The server's scheduler runs the clock of every game that is not paused.
Spec == Init /\ [][Next]_vars /\ WF_vars(TurnClock)

-----------------------------------------------------------------------------
(* The room's state is one assertInvariants accepts: applyCommand, which   *)
(* rejects a command after which it fails, never has to reject one that    *)
(* validateCommand let through.  The bank and the hands add up over every  *)
(* setup, roll, theft, trade and card; no two buildings are neighbours.    *)
ValidCommandsApply == AssertInvariants(game)

(* The score, which every event only adjusts, is what the board and the    *)
(* titles are worth, after any mixture of building, knights, broken roads  *)
(* and the plight.                                                         *)
ScoresAddUp(g) ==
    \A p \in Player :
        g.score[p] = Cardinality(BuildingsOf(g, p, "settlement"))
                     + 2 * Cardinality(BuildingsOf(g, p, "city"))
                     + (IF g.hasLongestRoad[p] THEN Bonus ELSE 0)
                     + (IF g.hasLargestArmy[p] THEN Bonus ELSE 0)

(* Each title is held by its owner alone, who has earned it: nobody has a  *)
(* longer road or a larger army, though the army's title is moved only by  *)
(* an event and the road's by whoever builds, anywhere.                    *)
Earned(owner, count, least) ==
    /\ owner # NoOne => /\ count[owner] >= least
                        /\ \A q \in Player : count[q] <= count[owner]
    /\ \A p \in Player :
           count[p] >= least /\ (\A q \in Player \ {p} : count[q] < count[p]) => owner = p

TitlesEarned(g) ==
    /\ \A p \in Player : /\ g.hasLongestRoad[p] <=> g.roadOwner = p
                         /\ g.hasLargestArmy[p] <=> g.armyOwner = p
    /\ Earned(g.roadOwner, [p \in Player |-> LongestRoadLength(g, p)], LongestRoadMinimum)
    /\ Earned(g.armyOwner, g.knights, LargestArmyMinimum)

(* Play stops exactly when somebody has the points: nobody plays on with   *)
(* them, whoever's move it was that brought them.                          *)
WonInTime(g) ==
    ~Is(g, "GAME_OVER") =>
        \A p \in Player : TrueVictoryPoints(g, p) < g.rules.victoryPoints

(* Scores, titles and the end of the match always belong together.         *)
ScoresTrue == ScoresAddUp(game) /\ TitlesEarned(game) /\ WonInTime(game)

(* A staged offer holds its player in the action phase, is the only one,   *)
(* and a promise to accept it can always be kept by both sides: the tests  *)
(* of the hands when it is finalized never fail.                           *)
StagedOffersHold ==
    \A p \in Player : \A t \in ActiveCollectingTrades(game, p) :
        Is(game, "GAME_OVER") \/
        /\ game.phase = ActionPhase(p)
        /\ ActiveCollectingTrades(game, p) = {t}
        /\ \A q \in Player : Chosen(game, p, t, q) => ValidFinalizeTrade(game, p, t, q)

(* Whatever the clock is about to play is valid, in every phase: the       *)
(* server's automatic command is never refused, and no player's absence,   *)
(* hand or staged offer stops the match.  In the setup it takes the first  *)
(* free spot, so every free spot must leave a free edge.                   *)
ClockCanAct ==
    LET p == ActivePlayer(game)
        spots == {v \in Vertex : CanPlaceSettlement(game, v, FALSE, p)}
    IN  CASE Is(game, "SETUP_PLACEMENT") ->
               spots # {} /\ \A v \in spots : \E e \in Edge : ValidPlaceSetup(game, p, v, e)
          [] Is(game, "WAITING_FOR_ROLL") -> ValidRollDice(game, p)
          [] Is(game, "DISCARDING") ->
               /\ Pending(game, p)
               /\ SubBundles(game.hand[p], game.phase.pending[p]) # {}
               /\ \A b \in SubBundles(game.hand[p], game.phase.pending[p]) :
                      ValidDiscardResources(game, p, b)
          [] Is(game, "MOVING_THIEF") ->
               \A h \in ValidThiefHexes(game) :
                   \E from \in Player \cup {NoOne} : ValidMoveThief(game, p, h, from)
          [] Is(game, "ACTION_PHASE") -> \A g \in Freed(game, p) : ValidEndTurn(g, p)
          [] Is(game, "GAME_OVER") -> TRUE

(* Whatever players do or fail to do, the clock brings every match with a  *)
(* limit of turns to its end.                                              *)
GamesEnd == <>Is(game, "GAME_OVER")

(* docs/mvp-rules.md, line 16: no tie displaces the current holder of the  *)
(* longest road.  A holder who loses the title has a shorter road than     *)
(* somebody, or a road below the minimum.                                  *)
TieKeepsHolder ==
    [][\A p \in Player :
        game.roadOwner = p /\ game'.roadOwner # p =>
            \/ LongestRoadLength(game', p) < LongestRoadMinimum
            \/ \E q \in Player : LongestRoadLength(game', q) > LongestRoadLength(game', p)]_vars
=============================================================================
