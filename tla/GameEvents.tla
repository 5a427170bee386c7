----------------------------- MODULE GameEvents -----------------------------
(***************************************************************************)
(* The events of a match and what each of them does to the state           *)
(* (packages/game-core/src/event-reducer.ts, and the two refresh functions *)
(* of engine.ts the reducer calls back).  One operator per event, named    *)
(* after it; a command of Game applies the events it produces in order.    *)
(***************************************************************************)
EXTENDS GameState

Pays(g, p, cost) == [g EXCEPT !.hand[p] = Minus(@, cost), !.bank = Plus(@, cost)]
Draws(g, p, gain) == [g EXCEPT !.hand[p] = Plus(@, gain), !.bank = Minus(@, gain)]
Scores(g, p, n) == [g EXCEPT !.score[p] = @ + n]

\* refreshLongestRoad: takes the title and its points from everybody, then
\* asks who leads.  (Sets of one element, so that TLC computes each once.)
WithoutLongestRoad(g) ==
    [g EXCEPT !.score = [p \in Player |-> @[p] - (IF g.hasLongestRoad[p] THEN Bonus ELSE 0)],
              !.hasLongestRoad = [p \in Player |-> FALSE]]

WithLongestRoad(g, leader) ==
    IF leader = NoOne THEN [g EXCEPT !.roadOwner = NoOne]
    ELSE [Scores(g, leader, Bonus) EXCEPT !.roadOwner = leader, !.hasLongestRoad[leader] = TRUE]

RefreshLongestRoad(g) ==
    CHOOSE after \in UNION {{WithLongestRoad(h, p) : p \in {LongestRoadLeader(h)}} :
                            h \in {WithoutLongestRoad(g)}} : TRUE

\* refreshLargestArmy: the same for the army.
RefreshLargestArmy(g) ==
    LET stripped == [g EXCEPT
            !.score = [p \in Player |-> @[p] - (IF g.hasLargestArmy[p] THEN Bonus ELSE 0)],
            !.hasLargestArmy = [p \in Player |-> FALSE]]
        leader == LargestArmyLeader(stripped)
    IN  IF leader = NoOne THEN [stripped EXCEPT !.armyOwner = NoOne]
        ELSE [Scores(stripped, leader, Bonus) EXCEPT
                 !.armyOwner = leader, !.hasLargestArmy[leader] = TRUE]

-----------------------------------------------------------------------------
SetupPlaced(g, p, v, e, gain) ==
    LET placed == Scores(Draws([g EXCEPT !.buildings[v] = Building(p, "settlement"),
                                         !.roads[e] = p], p, gain), p, 1)
        next   == g.phase.index + 1
    IN  [RefreshLongestRoad(placed) EXCEPT
            !.phase = IF next < Len(SetupOrder) THEN SetupPhase(SetupOrder[next + 1], next)
                      ELSE RollPhase(PlayerOrder[1])]

DiceRolled(g, p) == [g EXCEPT !.phase = ActionPhase(p)]
SevenRolled(g, p) == [g EXCEPT !.phase = ThiefPhase(p)]

DiscardRequired(g, roller, pending) ==
    [g EXCEPT !.phase = DiscardPhase(NextPendingDiscardPlayer(pending, <<>>),
                                     roller, pending, <<>>)]

ResourcesDiscarded(g, p, bundle) ==
    LET before    == g.phase.submitted
        submitted == [q \in DOMAIN before \cup {p} |-> IF q = p THEN bundle ELSE before[q]]
        next      == NextPendingDiscardPlayer(g.phase.pending, submitted)
    IN  [Pays(g, p, bundle) EXCEPT
            !.phase = IF next = NoOne THEN ThiefPhase(@.roller)
                      ELSE DiscardPhase(next, @.roller, @.pending, submitted)]

ThiefMoved(g, p, h, reason, from, stolen) ==
    LET moved  == [g EXCEPT !.thief = h]
        robbed == IF from = NoOne THEN moved
                  ELSE [moved EXCEPT !.hand[from] = Minus(@, stolen),
                                     !.hand[p] = Plus(@, stolen)]
    IN  IF reason = "ROLL_7" THEN [robbed EXCEPT !.phase = ActionPhase(p)] ELSE robbed

ResourcesProduced(g, gains) ==
    [g EXCEPT !.hand = [p \in Player |-> Plus(@[p], gains[p])],
              !.bank = [r \in Resource |-> @[r] - Together(gains, r)]]

-----------------------------------------------------------------------------
RoadBuilt(g, p, e, cost) == RefreshLongestRoad(Pays([g EXCEPT !.roads[e] = p], p, cost))

\* Mutant: a settlement that cuts a road leaves the title where it was.
SettlementBuiltQuietly(g, p, v) ==
    Scores(Pays([g EXCEPT !.buildings[v] = Building(p, "settlement")], p, SettlementCost), p, 1)

SettlementBuilt(g, p, v) ==
    RefreshLongestRoad(Scores(Pays([g EXCEPT !.buildings[v] = Building(p, "settlement")],
                                   p, SettlementCost), p, 1))

CityUpgraded(g, p, v) ==
    Scores(Pays([g EXCEPT !.buildings[v] = Building(p, "city")], p, CityCost), p, 1)

\* Mutant: a lost city costs one point.
PlightTakesOne(g, lost) ==
    RefreshLongestRoad([g EXCEPT
        !.plightApplied = TRUE,
        !.buildings = [v \in Vertex |->
            IF \E p \in DOMAIN lost : lost[p] = v THEN NoBuilding ELSE @[v]],
        !.score = [p \in Player |-> @[p] - (IF p \in DOMAIN lost THEN 1 ELSE 0)]])

\* lost: the building each player loses, in a function on those who have one.
PlightStruck(g, lost) ==
    LET worth(p) == IF p \notin DOMAIN lost THEN 0
                    ELSE IF g.buildings[lost[p]].type = "city" THEN 2 ELSE 1
    IN  RefreshLongestRoad([g EXCEPT
            !.plightApplied = TRUE,
            !.buildings = [v \in Vertex |->
                IF \E p \in DOMAIN lost : lost[p] = v THEN NoBuilding ELSE @[v]],
            !.score = [p \in Player |-> Max({0, @[p] - worth(p)})]])

-----------------------------------------------------------------------------
SpecialCardBought(g, p, type) ==
    [Pays(g, p, CardCost) EXCEPT
        !.deck[type] = @ - 1,
        !.cards = Append(@, [owner |-> p, type |-> type, bought |-> g.turn, played |-> FALSE])]

DevelopmentCardPlayed(g, p, i) ==
    [g EXCEPT !.cards[i].played = TRUE,
              !.playedCardTurn[p] = g.turn,
              !.knights[p] = @ + (IF g.cards[i].type = "KNIGHT" THEN 1 ELSE 0)]

MonopolyPlayed(g, p, r) ==
    LET others == Player \ {p}
        total  == SumFunctionOnSet([q \in Player |-> g.hand[q][r]], others)
    IN  [g EXCEPT !.hand = [q \in Player |->
            IF q = p THEN Plus(@[p], Many(r, total)) ELSE [@[q] EXCEPT ![r] = 0]]]

YearOfPlentyPlayed(g, p, gained) == Draws(g, p, gained)

-----------------------------------------------------------------------------
MaritimeTraded(g, p, offered, requested, ratio) ==
    Draws(Pays(g, p, Many(offered, ratio)), p, One(requested))

TradeOffered(g, t, trade) == [g EXCEPT !.trades[t] = trade]
TradeCancelled(g, t) == [g EXCEPT !.trades[t].status = "CANCELLED"]
TradeClosed(g, t) == [g EXCEPT !.trades[t].status = "CLOSED"]
TradeResponseRecorded(g, t, p, response) == [g EXCEPT !.trades[t].responses[p] = response]

TradeAccepted(g, t, to) ==
    LET trade == g.trades[t]
    IN  [g EXCEPT !.hand[trade.from] = Plus(Minus(@, trade.offered), trade.requested),
                  !.hand[to] = Minus(Plus(@, trade.offered), trade.requested),
                  !.trades[t].status = "ACCEPTED"]

TurnEnded(g, next) == [g EXCEPT !.turn = @ + 1, !.phase = RollPhase(next)]
GameOver(g, winner, reason) == [g EXCEPT !.phase = OverPhase(winner, reason)]
=============================================================================
