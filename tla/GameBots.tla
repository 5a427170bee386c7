------------------------------ MODULE GameBots ------------------------------
(***************************************************************************)
(* The bots: which commands they may choose (packages/bots/src/index.ts)   *)
(* and when the server asks them (server/src/bot-automation.ts).           *)
(*                                                                         *)
(* How a bot weighs its options, a sum of estimates and a throw of seeded  *)
(* dice, is left open: it may choose any of its candidates.  What it may   *)
(* look at is not: candidates are computed from the game rebuilt from its  *)
(* own view, and must be right in the true one.                            *)
(***************************************************************************)
EXTENDS GameViews

\* chooseSetupPlacement: a listed vertex and the first edge found free there.
BotSetups(g, spots) == {x \in spots \X Edge : CanBuildSetupRoad(g, x[2], x[1])}

\* thiefMoveCommand: a listed hex with one of its victims, if it has any.
BotThiefMoves(g, p, hexes) ==
    UNION {LET targets == EligibleStealTargets(g, p, h)
           IN  {<<h, q>> : q \in IF targets = {} THEN {NoOne} ELSE targets} : h \in hexes}

\* deterministicDiscard: so many cards of its own, the most numerous first.
BotDiscards(g, p) == SubBundles(g.hand[p], g.phase.pending[p])

\* tradeShapeKey: the same cards for the same cards to the same players.
Equivalent(trade, o, to) ==
    /\ trade.offered = o.offered /\ trade.requested = o.requested
    /\ trade.recipients = to

\* chooseTradeOffer: one card, or two of three it cannot trade well with the
\* bank, for one of another kind, from everybody, never the same offer twice.
BotOffers(g, p) ==
    LET others   == Player \ {p}
        given(r) == IF g.hand[p][r] >= 3 /\ MaritimeTradeRatio(g, p, r) > 3 THEN 2 ELSE 1
        offer(r, s) == [offered |-> Many(r, given(r)), requested |-> One(s)]
        repeated(o) == \E t \in TradeId : /\ g.trades[t] # NoTrade /\ g.trades[t].from = p
                                          /\ Equivalent(g.trades[t], o, others)
    IN  {offer(x[1], x[2]) : x \in {y \in Resource \X Resource :
            /\ y[1] # y[2] /\ g.hand[p][y[1]] > 1
            /\ given(y[1]) < MaritimeTradeRatio(g, p, y[1])
            /\ ~repeated(offer(y[1], y[2]))}}

\* botTradeResponseCommand and evaluateTrade: the bot refuses what it cannot pay.
BotResponses(g, p, t) ==
    IF Has(g.hand[p], g.trades[t].requested) THEN {"WANTS_ACCEPT", "REJECTED"}
    ELSE {"REJECTED"}

Asked(g, p, t) ==
    /\ Collecting(g, t) /\ p \in g.trades[t].recipients
    /\ g.trades[t].responses[p] = "PENDING"
    /\ Has(g.hand[g.trades[t].from], g.trades[t].offered)

\* resolveBotOfferCommand: finalize with one who wants to and can, else cancel.
Acceptors(g, t) ==
    {q \in g.trades[t].recipients : /\ g.trades[t].responses[q] = "WANTS_ACCEPT"
                                    /\ Has(g.hand[q], g.trades[t].requested)}
BotFinalizes(g, t) == /\ Has(g.hand[g.trades[t].from], g.trades[t].offered)
                      /\ Acceptors(g, t) # {}

\* generateActionCandidates: the menu, its thief moves with a victim, and offers.
BotCandidates(g, p) ==
    LET menu == LegalActions(g, p)
    IN  [setups |-> BotSetups(g, menu.PLACE_SETUP),
         discards |-> IF Pending(g, p) THEN BotDiscards(g, p) ELSE {},
         thief |-> BotThiefMoves(g, p, menu.MOVE_THIEF),
         knights |-> {<<k[1], x>> : k \in menu.PLAY_KNIGHT,
                                    x \in BotThiefMoves(g, p, ValidThiefHexes(g))},
         offers |-> IF menu.END_TURN THEN BotOffers(g, p) ELSE {}]

\* commandAfterUtility: in the action phase the bot to move applies each of its
\* candidates to its guess.  (Elsewhere a guess may break the invariants: what
\* others answer or have discarded is not in it.)
TriesOut(g, p) == Active(g, p, "ACTION_PHASE")

\* chooseBotCommand, where there is a choice: the phases it must not leave empty-handed.
HasChoice(g, candidates) ==
    /\ Is(g, "SETUP_PLACEMENT") => candidates.setups # {}
    /\ Is(g, "DISCARDING") => candidates.discards # {}
    /\ Is(g, "MOVING_THIEF") => candidates.thief # {}

-----------------------------------------------------------------------------
(* A bot never stalls and never errs.  Whoever's place it took, whenever   *)
(* it is its turn it has something to play, and whatever it may choose     *)
(* from its guess of the game is valid in the game itself: spots, victims, *)
(* discards, offers, answers, and the closing of its own offers.  Where it *)
(* tries its moves out, the guess is a game assertInvariants accepts, else *)
(* the engine would refuse them all and the bot only end its turns.        *)
BotsPlayOn ==
    ~Is(game, "GAME_OVER") => \A p \in Player :
        LET guess  == BotState(View(game, p), p)
            choice == BotCandidates(guess, p)
        IN  /\ TriesOut(game, p) => AssertInvariants(guess)
            /\ (ActivePlayer(game) = p /\ ActiveCollectingTrades(game, p) = {}) =>
                   HasChoice(game, choice)
            /\ \A x \in choice.setups : ValidPlaceSetup(game, p, x[1], x[2])
            /\ \A b \in choice.discards : ValidDiscardResources(game, p, b)
            /\ \A x \in choice.thief : ValidMoveThief(game, p, x[1], x[2])
            /\ \A k \in choice.knights : ValidPlayKnight(game, p, k[1], k[2][1], k[2][2])
            /\ \A o \in choice.offers, t \in TradeId :
                   game.trades[t] = NoTrade => ValidOfferTrade(game, p, t, o, Player \ {p})
            /\ \A t \in TradeId :
                   /\ Asked(game, p, t) => \A response \in BotResponses(guess, p, t) :
                          ValidRespondTrade(game, p, t, response)
                   /\ (t \in ActiveCollectingTrades(game, p) /\ BotFinalizes(game, t)) =>
                          \A q \in Acceptors(game, t) : ValidFinalizeTrade(game, p, t, q)

(* Nobody's absence stops a match: what the clock or a bot plays in place  *)
(* of a player is there, and valid.                                        *)
AutomationCanAct == ClockCanAct /\ BotsPlayOn
=============================================================================
