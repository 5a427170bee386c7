------------------------------ MODULE TurnGame ------------------------------
(***************************************************************************)
(* The game as those see it who play it by themselves, the room with its   *)
(* clock and bots (RoomAutomation) and the browser in a local match        *)
(* (LocalPlay): the phase, who acts, who must discard, the staged offer.   *)
(* The whole game is in Game; that a bot always has a choice, that what    *)
(* the clock plays is always valid and that offers stay funded is shown    *)
(* there.  Setup is left out: it is a phase like WAITING_FOR_ROLL here.    *)
(***************************************************************************)
EXTENDS Naturals, Sequences, FiniteSets, SequencesExt

CONSTANTS
  Humans, Bots,
  Order,           \* playerOrder
  None

Players == Humans \cup Bots
ASSUME PlayersAssumption == /\ Humans \cap Bots = {} /\ None \notin Players
                            /\ Order \in Seq(Players) /\ ToSet(Order) = Players /\ Len(Order) >= 2
                            /\ IsInjective(Order)

NoTrade == None
Turn(p) == [type |-> "WAITING_FOR_ROLL", owner |-> p, active |-> p, discards |-> {}, trade |-> NoTrade]
Over(g) == g.type = "GAME_OVER"
Staged(g) == g.trade # NoTrade
Successor(p) == Order[(SelectInSeq(Order, LAMBDA q : q = p) % Len(Order)) + 1]
EndedTurn(g) == Turn(Successor(g.owner))

MovingThief(g) == [g EXCEPT !.type = "MOVING_THIEF", !.active = g.owner, !.discards = {}]
Acting(g) == [g EXCEPT !.type = "ACTION_PHASE", !.active = g.owner]
Won(g) == [g EXCEPT !.type = "GAME_OVER"]

\* Those who must discard do so in any order; the first of playerOrder is active.
FirstOf(S) == Order[SelectInSeq(Order, LAMBDA q : q \in S)]
Discarding(g, S) == [g EXCEPT !.type = "DISCARDING", !.discards = S, !.active = FirstOf(S)]
Discarded(g, p) ==
  LET rest == g.discards \ {p} IN IF rest = {} THEN MovingThief(g) ELSE Discarding(g, rest)

\* What a roll may come to: goods, or a seven with or without discards.
Rolled(g) == {Acting(g), MovingThief(g)} \cup {Discarding(g, S) : S \in (SUBSET Players) \ {{}}}
\* Building, buying and cards leave nothing here but a longer log, or win.
Built(g) == {g, Won(g)}

Offer(p, to) == [from |-> p, to |-> to, pending |-> to, willing |-> {}]
Offered(g) == {[g EXCEPT !.trade = Offer(g.active, to)] : to \in SUBSET (Players \ {g.active}) \ {{}}}
Closed(g) == [g EXCEPT !.trade = NoTrade]

\* What p may do while no offer is staged.
MovesOf(g, p) ==
  IF p \in g.discards THEN {Discarded(g, p)}
  ELSE IF g.active # p THEN {}
  ELSE CASE g.type = "WAITING_FOR_ROLL" -> Rolled(g)
         [] g.type = "MOVING_THIEF"     -> {Acting(g)}
         [] g.type = "ACTION_PHASE"     -> Built(g) \cup Offered(g) \cup {EndedTurn(g)}
         [] OTHER                       -> {}

\* An answer, which may be changed later; unanimous refusal closes the offer.
Answered(g, p, yes) ==
  LET t == [g.trade EXCEPT !.pending = @ \ {p}, !.willing = IF yes THEN @ \cup {p} ELSE @ \ {p}]
  IN  IF t.pending = {} /\ t.willing = {} THEN Closed(g) ELSE [g EXCEPT !.trade = t]

\* The offerer's choice: a willing recipient, or nobody.
Resolved(g) == Closed(g)

BotsToAnswer(g) == IF Staged(g) THEN g.trade.pending \cap Bots ELSE {}
FullyAnswered(g) == Staged(g) /\ g.trade.pending = {}
ReadyBotOffer(g) == FullyAnswered(g) /\ g.trade.from \in Bots
=============================================================================
