----------------------------- MODULE GameState -----------------------------
(***************************************************************************)
(* The state of a match and the questions the rules ask of it              *)
(* (packages/game-core: engine.ts, invariants.ts, resources.ts,            *)
(* game-constants.ts).  Everything here is an operator on a game record g; *)
(* GameEvents changes such records, Game decides when.                     *)
(*                                                                         *)
(* Abstractions.  The maps settlements and buildings, which every reducer  *)
(* writes together, are one function; a development card is known by its   *)
(* index in the deck; longestRoadLength, recomputed with every change of   *)
(* roads or buildings, is the operator that computes it; the deck is known *)
(* by what is left in it; eventSeq, colours and names are left out.  The   *)
(* sizes the code fixes are CONSTANTS so that an instance can be small.    *)
(***************************************************************************)
EXTENDS Integers, Sequences, FiniteSets, FiniteSetsExt

CONSTANTS
    PlayerOrder,             \* sequence of the players, in seat order
    Vertex, Edge,            \* the board graph; an edge is the set of its two ends
    Hex, Corners,            \* Corners[h]: the vertices of hex h
    Terrain, Token,          \* per hex: a resource or Desert; its number
    Ports,                   \* set of [corners, resource], resource possibly AnyResource
    Resource, Desert, AnyResource,
    RoadCost, SettlementCost, CityCost, CardCost,
    BankSize,                \* classicResourceBankSize
    MaxRoads, MaxSettlements, MaxCities,
    HandLimit,               \* seven: a larger hand is halved by a seven
    LongestRoadMinimum, LargestArmyMinimum, Bonus,
    NoOne                    \* "undefined" where a player or a hex may be absent

Player == {PlayerOrder[i] : i \in DOMAIN PlayerOrder}

ASSUME PlayersSeated == PlayerOrder # <<>> /\ PlayerOrder \in Seq(Player) /\ NoOne \notin Player

\* A finite board: edges join two vertices, a vertex touches at most three hexes.
ASSUME BoardFits ==
    /\ IsFiniteSet(Vertex) /\ IsFiniteSet(Edge) /\ IsFiniteSet(Hex) /\ IsFiniteSet(Resource)
    /\ \A e \in Edge : \E v, w \in Vertex : v # w /\ e = {v, w}
    /\ Hex # {} /\ Corners \in [Hex -> SUBSET Vertex]
    /\ \A v \in Vertex : Cardinality({h \in Hex : v \in Corners[h]}) <= 3

\* The bank can pay every player's second placement.
ASSUME SizesFit ==
    /\ {RoadCost, SettlementCost, CityCost, CardCost} \subseteq [Resource -> Nat]
    /\ BankSize \in Nat /\ BankSize >= 3 * Len(PlayerOrder)
    /\ {MaxRoads, MaxSettlements, MaxCities} \subseteq Nat
    /\ {LongestRoadMinimum, LargestArmyMinimum} \subseteq Nat \ {0} /\ Bonus \in Nat
    /\ HandLimit \in Nat \ {0}

\* Two play at least, each in one seat; two placements have pieces and an edge.
ASSUME SeatsFit ==
    /\ Len(PlayerOrder) >= 2 /\ Resource # {}
    /\ \A i, j \in DOMAIN PlayerOrder : PlayerOrder[i] = PlayerOrder[j] => i = j
    /\ MaxRoads >= 2 /\ MaxSettlements >= 2
    /\ \A v \in Vertex : \E e \in Edge : v \in e

SeatOf(p) == CHOOSE i \in DOMAIN PlayerOrder : PlayerOrder[i] = p

\* The first player in seat order with the property, Array.find on playerOrder.
FirstSeated(S) == IF S = {} THEN NoOne
                  ELSE CHOOSE p \in S : \A q \in S : SeatOf(p) <= SeatOf(q)

-----------------------------------------------------------------------------
\* Bundles of resources.

Bundle == [Resource -> Nat]
Nothing == [r \in Resource |-> 0]
One(r) == [Nothing EXCEPT ![r] = 1]
Many(r, n) == [Nothing EXCEPT ![r] = n]
Plus(a, b) == [r \in Resource |-> a[r] + b[r]]
Minus(a, b) == [r \in Resource |-> a[r] - b[r]]
Count(b) == SumFunctionOnSet(b, Resource)
Has(hand, cost) == \A r \in Resource : hand[r] >= cost[r]
SubBundles(hand, n) ==
    {b \in [Resource -> 0..n] : Has(hand, b) /\ Count(b) = n}

-----------------------------------------------------------------------------
\* Phases, with the fields each of them has in the code.

SetupPhase(p, i) == [type |-> "SETUP_PLACEMENT", active |-> p, index |-> i]
RollPhase(p) == [type |-> "WAITING_FOR_ROLL", active |-> p]
ActionPhase(p) == [type |-> "ACTION_PHASE", active |-> p]
ThiefPhase(p) == [type |-> "MOVING_THIEF", active |-> p]
DiscardPhase(p, roller, pending, submitted) ==
    [type |-> "DISCARDING", active |-> p, roller |-> roller,
     pending |-> pending, submitted |-> submitted]
OverPhase(p, reason) == [type |-> "GAME_OVER", winner |-> p, reason |-> reason]

Is(g, phase) == g.phase.type = phase
ActivePlayer(g) == IF Is(g, "GAME_OVER") THEN NoOne ELSE g.phase.active

SetupOrder == PlayerOrder \o [i \in DOMAIN PlayerOrder |->
                                 PlayerOrder[Len(PlayerOrder) + 1 - i]]

-----------------------------------------------------------------------------
\* Buildings, roads and cards.

NoBuilding == [owner |-> NoOne, type |-> "none"]
Building(p, type) == [owner |-> p, type |-> type]
BuildingsOf(g, p, type) == {v \in Vertex : g.buildings[v] = Building(p, type)}
RoadsOf(g, p) == {e \in Edge : g.roads[e] = p}
Neighbours(v) == (UNION {e \in Edge : v \in e}) \ {v}

CardTypes == {"KNIGHT", "ROAD_BUILDING", "MONOPOLY", "YEAR_OF_PLENTY", "VICTORY_POINT"}
CardsOf(g, p) == {i \in DOMAIN g.cards : g.cards[i].owner = p}
CardVictoryPoints(g, p) ==
    Cardinality({i \in CardsOf(g, p) : g.cards[i].type = "VICTORY_POINT"})
TrueVictoryPoints(g, p) == g.score[p] + CardVictoryPoints(g, p)
WinnerByVictoryPoints(g) ==
    FirstSeated({p \in Player : TrueVictoryPoints(g, p) >= g.rules.victoryPoints})

\* The players adjudication may choose: the most points, then the most public
\* points; the weighing of production and hands that follows is left open.
AdjudicatedLeaders(g) ==
    LET best == {p \in Player : \A q \in Player :
                     TrueVictoryPoints(g, p) >= TrueVictoryPoints(g, q)}
    IN  {p \in best : \A q \in best : g.score[p] >= g.score[q]}

CanPlaceSettlement(g, v, requireRoad, p) ==
    /\ g.buildings[v] = NoBuilding
    /\ \A w \in Neighbours(v) : g.buildings[w] = NoBuilding
    /\ requireRoad => \E e \in RoadsOf(g, p) : v \in e

CanBuildRoad(g, p, e) ==
    /\ g.roads[e] = NoOne
    /\ \E v \in e : \/ g.buildings[v].owner = p
                    \/ /\ g.buildings[v] = NoBuilding
                       /\ \E f \in RoadsOf(g, p) : v \in f

CanBuildSetupRoad(g, e, v) == g.roads[e] = NoOne /\ v \in e

\* What Road Building must build: sequences of two roads if any exists, else of
\* one; nothing without a piece or a place.
RoadBuildingOptions(g, p) ==
    LET first == {e \in Edge : CanBuildRoad(g, p, e)}
        ones  == {<<e>> : e \in first}
        twos  == {ef \in first \X Edge :
                     /\ ef[1] # ef[2]
                     /\ CanBuildRoad([g EXCEPT !.roads[ef[1]] = p], p, ef[2])}
        left  == MaxRoads - Cardinality(RoadsOf(g, p))
    IN  IF left <= 0 \/ first = {} THEN {}
        ELSE IF left = 1 \/ twos = {} THEN ones ELSE twos

-----------------------------------------------------------------------------
\* The two titles.

Blocked(g, v, p) == g.buildings[v].owner \notin {p, NoOne}

\* The longest walk along roads, each taken once, that stops at a cut vertex.
LongestTrail(roads, cut) ==
    LET trail[unused \in SUBSET Edge] == [v \in Vertex |->
            Max({0} \cup {LET w == CHOOSE w \in e : w # v
                          IN  IF w \in cut THEN 1 ELSE 1 + trail[unused \ {e}][w]
                          : e \in {e \in unused : v \in e}})]
    IN  Max({0} \cup {trail[roads][v] : v \in UNION roads})

LongestRoadLength(g, p) == LongestTrail(RoadsOf(g, p), {v \in Vertex : Blocked(g, v, p)})

\* longestRoadSummary(state).owner: among equals the holder, if it is one of them.
LongestRoadLeader(g) ==
    LET length  == [p \in Player |-> LongestRoadLength(g, p)]
        leaders == {p \in Player : /\ length[p] >= LongestRoadMinimum
                                   /\ \A q \in Player : length[q] <= length[p]}
    IN  IF Cardinality(leaders) = 1 THEN CHOOSE p \in leaders : TRUE
        ELSE IF g.roadOwner \in leaders /\ g.hasLongestRoad[g.roadOwner]
             THEN g.roadOwner ELSE NoOne

\* largestArmySummary(state).owner: a holder yields to a strictly larger army only.
LargestArmyLeader(g) ==
    LET best    == Max({g.knights[p] : p \in Player})
        leaders == {p \in Player : g.knights[p] = best}
    IN  IF /\ g.armyOwner # NoOne
           /\ g.knights[g.armyOwner] >= LargestArmyMinimum
           /\ \A p \in Player : g.knights[p] <= g.knights[g.armyOwner]
        THEN g.armyOwner
        ELSE IF best >= LargestArmyMinimum /\ Cardinality(leaders) = 1
             THEN CHOOSE p \in leaders : TRUE ELSE NoOne

-----------------------------------------------------------------------------
\* Production, the thief and the ports.

ResourceGainForRoll(g, sum, multiplier) ==
    LET yield  == [v \in Vertex |->
                      multiplier * (IF g.buildings[v].type = "city" THEN 2 ELSE 1)]
        due(p) == [h \in Hex |->
                      SumFunctionOnSet(yield, {v \in Corners[h] : g.buildings[v].owner = p})]
    IN  [p \in Player |-> [r \in Resource |->
            SumFunctionOnSet(due(p),
                {h \in Hex \ {g.thief} : Terrain[h] = r /\ Token[h] = sum})]]

\* What all players get of a resource, or hold of it.
Together(bundles, r) == SumFunctionOnSet([p \in Player |-> bundles[p][r]], Player)

\* Mutant: the bank pays whatever is due.
UnlimitedProduction(g, gains) == gains

\* A resource the bank cannot pay to everybody is paid to nobody.
EnforceBankProductionLimit(g, gains) ==
    [p \in Player |-> [r \in Resource |->
        IF Together(gains, r) > g.bank[r] THEN 0 ELSE gains[p][r]]]

StartingResources(v) ==
    [r \in Resource |-> Cardinality({h \in Hex : v \in Corners[h] /\ Terrain[h] = r})]

\* Who must discard how much after a seven, in a function on those who must.
DiscardRequirements(g) ==
    LET rich == {p \in Player : Count(g.hand[p]) > HandLimit}
    IN  [p \in rich |-> Count(g.hand[p]) \div 2]

\* Mutant: who has discarded is asked again.
FirstPendingPlayer(pending, submitted) == FirstSeated(DOMAIN pending)

NextPendingDiscardPlayer(pending, submitted) ==
    FirstSeated(DOMAIN pending \ DOMAIN submitted)

ValidThiefHexes(g) == IF Cardinality(Hex) <= 1 THEN Hex ELSE Hex \ {g.thief}

EligibleStealTargets(g, p, h) ==
    {q \in Player \ {p} : /\ Count(g.hand[q]) > 0
                          /\ \E v \in Corners[h] : g.buildings[v].owner = q}

\* What a theft may take: some resource of the victim, chosen by the seed.
StolenResources(g, from) ==
    IF from = NoOne THEN {Nothing}
    ELSE {One(r) : r \in {r \in Resource : g.hand[from][r] > 0}}

MaritimeTradeRatio(g, p, r) ==
    LET mine == {port \in Ports : \E v \in port.corners : g.buildings[v].owner = p}
    IN  IF \E port \in mine : port.resource = r THEN 2
        ELSE IF \E port \in mine : port.resource = AnyResource THEN 3 ELSE 4

-----------------------------------------------------------------------------
\* Trades: to recipients, "ANY" being everybody else, each of them with a response.

ResponseStatus == {"PENDING", "WANTS_ACCEPT", "REJECTED"}
NoTrade == [status |-> "none"]
Collecting(g, t) == g.trades[t].status = "COLLECTING_RESPONSES"
ActiveCollectingTrades(g, p) ==
    {t \in DOMAIN g.trades : Collecting(g, t) /\ g.trades[t].from = p}

-----------------------------------------------------------------------------
(* assertInvariants: what applyCommand checks of the state it is about to  *)
(* return; a command after which it fails is rejected as a whole.          *)
AssertInvariants(g) ==
    /\ g.thief \in Hex
    /\ g.bank \in Bundle
    /\ \A p \in Player : /\ g.hand[p] \in Bundle /\ g.score[p] >= 0
                         /\ \A i \in CardsOf(g, p) : g.cards[i].type \in CardTypes
    /\ \A e \in Edge : g.roads[e] \in Player \cup {NoOne}
    /\ \A v \in Vertex : g.buildings[v] # NoBuilding =>
           /\ g.buildings[v].owner \in Player
           /\ \A w \in Neighbours(v) : g.buildings[w] = NoBuilding
    /\ \A t \in DOMAIN g.trades :
           LET trade == g.trades[t]
           IN  /\ trade # NoTrade => trade.from \in Player
               /\ Collecting(g, t) =>
                     /\ DOMAIN trade.responses = trade.recipients
                     /\ \A q \in trade.recipients : trade.responses[q] \in ResponseStatus
    /\ \A p \in Player : /\ Cardinality(RoadsOf(g, p)) <= MaxRoads
                         /\ Cardinality(BuildingsOf(g, p, "settlement")) <= MaxSettlements
                         /\ Cardinality(BuildingsOf(g, p, "city")) <= MaxCities
    /\ \A r \in Resource : Together(g.hand, r) + g.bank[r] = BankSize
    /\ Is(g, "DISCARDING") => \A p \in DOMAIN g.phase.pending :
           /\ p \in Player /\ g.phase.pending[p] > 0
           /\ p \in DOMAIN g.phase.submitted => Count(g.phase.submitted[p]) = g.phase.pending[p]
    /\ (Is(g, "GAME_OVER") /\ g.phase.reason # "TURN_LIMIT") =>
           TrueVictoryPoints(g, g.phase.winner) >= g.rules.victoryPoints
=============================================================================
