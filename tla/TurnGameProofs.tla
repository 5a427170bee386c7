--------------------------- MODULE TurnGameProofs ---------------------------
(***************************************************************************)
(* What every state of TurnGame is like, for any players in any order, and *)
(* that whoever is to move can.                                            *)
(***************************************************************************)
EXTENDS TurnGame, SequenceTheorems, WellFoundedInduction, TLAPS

Phases == {"WAITING_FOR_ROLL", "MOVING_THIEF", "DISCARDING", "ACTION_PHASE", "GAME_OVER"}

\* An offer is the active player's, who has turned to the others.
OfferShape(g) ==
  /\ g.type = "ACTION_PHASE"
  /\ DOMAIN g.trade = {"from", "to", "pending", "willing"}
  /\ g.trade.from = g.active /\ g.trade.to \subseteq Players
  /\ g.trade.pending \subseteq g.trade.to

\* While players must discard, one of them is active.
GameShape(g) ==
  /\ DOMAIN g = {"type", "owner", "active", "discards", "trade"}
  /\ g.type \in Phases /\ g.owner \in Players /\ g.active \in Players
  /\ g.discards \subseteq Players
  /\ g.type = "DISCARDING" <=> g.discards # {}
  /\ g.discards # {} => g.active \in g.discards
  /\ Staged(g) => OfferShape(g)

-----------------------------------------------------------------------------
(* The order of the players.                                               *)

LEMMA LeastNatural ==
  ASSUME NEW S \in SUBSET Nat, S # {}
  PROVE  \E m \in S : \A k \in S : m <= k
<1>1. PICK m \in S : \A k \in S : <<k, m>> \notin OpToRel(<, Nat)
  BY WFMin, NatLessThanWellFounded
<1>2. \A k \in S : ~ (k < m)
  BY <1>1 DEF OpToRel
<1> QED
  BY <1>2

LEMMA MinIsLeast ==
  ASSUME NEW S \in SUBSET Nat, S # {}
  PROVE  Min(S) \in S /\ \A k \in S : Min(S) <= k
BY LeastNatural DEF Min

\* Somebody of every group comes first.
LEMMA FirstOfGroup ==
  ASSUME NEW S \in SUBSET Players, S # {}
  PROVE  FirstOf(S) \in S
<1> DEFINE I == {i \in 1 .. Len(Order) : Order[i] \in S}
<1>1. I # {} /\ I \in SUBSET Nat
  BY PlayersAssumption, LenProperties DEF ToSet
<1>2. Min(I) \in I
  BY <1>1, MinIsLeast
<1>3. FirstOf(S) = Order[Min(I)]
  BY <1>1 DEF FirstOf, SelectInSeq
<1> QED
  BY <1>2, <1>3

LEMMA SuccessorPlays == ASSUME NEW p PROVE Successor(p) \in Players
<1> DEFINE I == {i \in 1 .. Len(Order) : Order[i] = p}
<1>1. Len(Order) \in Nat /\ Len(Order) >= 2
  BY PlayersAssumption, LenProperties
<1>2. I \in SUBSET Nat
  OBVIOUS
<1>3. (IF I # {} THEN Min(I) ELSE 0) \in Nat
  BY <1>2, MinIsLeast
<1>4. SelectInSeq(Order, LAMBDA q : q = p) \in Nat
  BY <1>3 DEF SelectInSeq
<1> DEFINE n == SelectInSeq(Order, LAMBDA q : q = p)
<1>5. (n % Len(Order)) + 1 \in 1 .. Len(Order)
  <2> HIDE DEF n
  <2> QED
    BY <1>1, <1>4 DEF n
<1> QED
  BY <1>5, PlayersAssumption, ElementOfSeq DEF Successor

-----------------------------------------------------------------------------
(* Every move keeps the shape.                                             *)

LEMMA TurnShape == ASSUME NEW p \in Players PROVE GameShape(Turn(p)) /\ ~Staged(Turn(p)) /\ ~Over(Turn(p))
BY DEF GameShape, Turn, Staged, NoTrade, Phases, Over

LEMMA EndedTurnShape == ASSUME NEW g PROVE GameShape(EndedTurn(g))
BY SuccessorPlays, TurnShape DEF EndedTurn

\* A group that must discard.
LEMMA DiscardingShape ==
  ASSUME NEW g, GameShape(g), ~Staged(g), NEW S \in SUBSET Players, S # {}
  PROVE  GameShape(Discarding(g, S)) /\ ~Staged(Discarding(g, S))
BY FirstOfGroup DEF GameShape, Discarding, Staged, Phases

\* The roll that ends the waiting, the thief's move and the plain actions.
LEMMA PhaseShape ==
  ASSUME NEW g, GameShape(g), ~Staged(g)
  PROVE  /\ GameShape(MovingThief(g)) /\ ~Staged(MovingThief(g))
         /\ g.discards = {} => GameShape(Acting(g)) /\ GameShape(Won(g))
         /\ ~Staged(Acting(g)) /\ ~Staged(Won(g))
BY DEF GameShape, MovingThief, Acting, Won, Staged, Phases

LEMMA OfferedShape ==
  ASSUME NEW g, GameShape(g), g.type = "ACTION_PHASE", NEW h \in Offered(g)
  PROVE  GameShape(h)
<1>1. PICK to \in SUBSET (Players \ {g.active}) \ {{}} : h = [g EXCEPT !.trade = Offer(g.active, to)]
  BY DEF Offered
<1> QED
  BY <1>1 DEF GameShape, OfferShape, Offer, Staged

LEMMA MovesShape ==
  ASSUME NEW g, GameShape(g), ~Staged(g), NEW p \in Players, NEW h \in MovesOf(g, p)
  PROVE  GameShape(h)
<1>1. CASE p \in g.discards
  <2>1. h = Discarded(g, p)
    BY <1>1 DEF MovesOf
  <2>2. CASE g.discards \ {p} = {}
    BY <2>1, <2>2, PhaseShape DEF Discarded
  <2>3. CASE g.discards \ {p} # {}
    BY <2>1, <2>3, DiscardingShape DEF Discarded, GameShape
  <2> QED
    BY <2>2, <2>3
<1>2. CASE p \notin g.discards /\ g.active = p /\ g.type = "WAITING_FOR_ROLL"
  <2>1. h \in Rolled(g) /\ g.discards = {}
    BY <1>2 DEF MovesOf, GameShape
  <2>2. CASE h \in {Acting(g), MovingThief(g)}
    BY <2>1, <2>2, PhaseShape
  <2>3. CASE \E S \in (SUBSET Players) \ {{}} : h = Discarding(g, S)
    <3>1. PICK S \in SUBSET Players : S # {} /\ h = Discarding(g, S)
      BY <2>3
    <3> QED
      BY <3>1, DiscardingShape
  <2> QED
    BY <2>1, <2>2, <2>3 DEF Rolled
<1>3. CASE p \notin g.discards /\ g.active = p /\ g.type = "MOVING_THIEF"
  <2>1. h = Acting(g) /\ g.discards = {}
    BY <1>3 DEF MovesOf, GameShape
  <2> QED
    BY <2>1, PhaseShape
<1>4. CASE p \notin g.discards /\ g.active = p /\ g.type = "ACTION_PHASE"
  <2>1. h \in Built(g) \cup Offered(g) \cup {EndedTurn(g)} /\ g.discards = {}
    BY <1>4 DEF MovesOf, GameShape
  <2> QED
    BY <1>4, <2>1, PhaseShape, OfferedShape, EndedTurnShape DEF Built
<1> QED
  BY <1>1, <1>2, <1>3, <1>4 DEF MovesOf, GameShape, Phases

LEMMA ClosedShape == ASSUME NEW g, GameShape(g), Staged(g) PROVE GameShape(Closed(g)) /\ ~Staged(Closed(g))
BY DEF GameShape, Closed, Staged, OfferShape, Phases

LEMMA AnsweredShape ==
  ASSUME NEW g, GameShape(g), Staged(g), NEW p, NEW yes \in BOOLEAN
  PROVE  GameShape(Answered(g, p, yes))
<1> DEFINE t == [g.trade EXCEPT !.pending = @ \ {p},
                                !.willing = IF yes THEN @ \cup {p} ELSE @ \ {p}]
<1>1. OfferShape(g)
  BY DEF GameShape
<1>2. /\ DOMAIN t = {"from", "to", "pending", "willing"} /\ t.from = g.trade.from
      /\ t.to = g.trade.to /\ t.pending = g.trade.pending \ {p}
  BY <1>1 DEF OfferShape
<1>3. GameShape([g EXCEPT !.trade = t])
  <2> HIDE DEF t
  <2> QED
    BY <1>1, <1>2 DEF GameShape, OfferShape, Staged
<1> QED
  BY <1>3, ClosedShape DEF Answered

-----------------------------------------------------------------------------
\* Whoever is active, while no offer is staged and the game not over, has a move.
LEMMA ActiveCanMove ==
  ASSUME NEW g, GameShape(g), ~Over(g)
  PROVE  MovesOf(g, g.active) # {}
<1>1. CASE g.active \in g.discards
  BY <1>1 DEF MovesOf
<1>2. CASE g.active \notin g.discards
  <2>1. g.type \in {"WAITING_FOR_ROLL", "MOVING_THIEF", "ACTION_PHASE"}
    BY <1>2 DEF GameShape, Phases, Over
  <2> QED
    BY <1>2, <2>1 DEF MovesOf, Rolled, Built
<1> QED
  BY <1>1, <1>2

\* A bot's offer that no bot has to answer, and that is not fully answered, waits
\* for a human.
LEMMA OfferWaitsForHuman ==
  ASSUME NEW g, GameShape(g), Staged(g), g.active \in Bots, BotsToAnswer(g) = {}, ~ReadyBotOffer(g)
  PROVE  g.trade.from \in Bots /\ g.trade.pending \cap Humans # {}
BY DEF GameShape, OfferShape, BotsToAnswer, ReadyBotOffer, FullyAnswered, Players
=============================================================================
