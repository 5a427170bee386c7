------------------------------ MODULE LocalPlay ------------------------------
(***************************************************************************)
(* A match against bots in the browser, without a server: App.tsx and its  *)
(* hooks useLocalAutomation, useTurnTimer and useSyncedRef.                *)
(*                                                                         *)
(* The match exists three times: in stateRef, on which commands work; in   *)
(* the updates React has queued; and in the last rendering.  Some time     *)
(* after a rendering its effects run, which set stateRef to what was drawn *)
(* and arm the timers that play for bots and for an absent player.  A      *)
(* timer may go off between any two of these; a click is rendered at once, *)
(* with its effects.                                                       *)
(*                                                                         *)
(* A timer may go off at any moment: delays are left out.                  *)
(***************************************************************************)
EXTENDS TurnGame

CONSTANTS
  Wrap,         \* bound: event numbers are counted modulo this
  MaxBehind     \* bound: commands of timers since the last rendering

ASSUME LocalAssumption == {Wrap, MaxBehind} \subseteq Nat \ {0} /\ 2 * MaxBehind + 1 < Wrap

VARIABLES
  current,   \* stateRef.current
  queued,    \* liveState after the updates in React's queue
  drawn,     \* liveState of the last rendering
  pending,   \* the effects of that rendering have not run
  turnKey,   \* what the turn timer's effect last depended on
  timers     \* the timers that run

localVars == <<current, queued, drawn, pending, turnKey, timers>>

\* A version of the match; an offer is told from others by createdAtSeq.
Version(g, seq, offer) == [game |-> g, seq |-> seq, offer |-> offer]
Fresh == CHOOSE n \in 1..9 : /\ n \notin {current.offer, queued.offer, drawn.offer}
                             /\ \A t \in timers : t[1] \in {"answer", "resolve", "deadline"} => t[2] # n
After(g) ==
  Version(g, (current.seq + 1) % Wrap,
          IF ~Staged(g) THEN 0 ELSE IF Staged(current.game) THEN current.offer ELSE Fresh)

-----------------------------------------------------------------------------
(* Timers.                                                                 *)
TurnDeadlineKey(g) == <<g.owner, g.type, g.active>>
AutomationKey(v) == <<"bot", v.seq, v.game.type, v.game.active>>
BotTimer(v) == IF Over(v.game) \/ v.game.active \notin Bots THEN {} ELSE {AutomationKey(v)}

AnswerTimers(v) == {<<"answer", v.offer, b>> : b \in BotsToAnswer(v.game)}
EndTimers(v) ==
  (IF ReadyBotOffer(v.game) THEN {<<"resolve", v.offer, v.game.trade.willing>>} ELSE {})
    \cup (IF Staged(v.game) THEN {<<"deadline", v.offer>>} ELSE {})
\* Mutant: bots are asked when the offer is new, and never again.
AskedOnce(v) ==
  EndTimers(v) \cup IF Staged(v.game) /\ v.game.trade.pending = v.game.trade.to THEN AnswerTimers(v) ELSE {}
TradeTimers(v) == AnswerTimers(v) \cup EndTimers(v)

TurnTimer(g) == IF Over(g) THEN {} ELSE {<<"turn", TurnDeadlineKey(g)>>}

\* Timers of an offer that is in no version left would do nothing.
Obsolete(t, versions) ==
  t[1] \in {"answer", "resolve", "deadline"} /\ \A v \in versions : v.offer # t[2]

\* The timers after the effects of a rendering of v: the bot's starts anew, a
\* trade's unless it runs already, the turn's when the turn or its phase changed.
Armed(v, running, key, others) ==
  LET kept == {t \in running : /\ t[1] # "bot" /\ ~Obsolete(t, {v} \cup others)
                               /\ (t[1] = "turn" => key = TurnDeadlineKey(v.game))}
  IN kept \cup BotTimer(v) \cup TradeTimers(v)
          \cup (IF key = TurnDeadlineKey(v.game) THEN {} ELSE TurnTimer(v.game))

-----------------------------------------------------------------------------
(* React.                                                                  *)
Started(v) ==
  /\ current' = v /\ queued' = v /\ drawn' = v /\ pending' = FALSE
  /\ turnKey' = TurnDeadlineKey(v.game) /\ timers' = Armed(v, {}, None, {})

LocalInit ==
  /\ \E p \in Players : current = Version(Turn(p), 0, 0)
  /\ queued = current /\ drawn = current /\ pending = FALSE
  /\ turnKey = TurnDeadlineKey(current.game)
  /\ timers = BotTimer(current) \cup TurnTimer(current.game)

\* The effects of a rendering run before the next one.
Render ==
  /\ ~pending /\ queued # drawn
  /\ drawn' = queued /\ pending' = TRUE
  /\ UNCHANGED <<current, queued, turnKey, timers>>

\* useSyncedRef takes stateRef back to what was drawn, even if a timer has
\* moved it on since.
Effects ==
  /\ pending /\ pending' = FALSE
  /\ current' = drawn
  /\ timers' = Armed(drawn, timers, turnKey, {queued})
  /\ turnKey' = TurnDeadlineKey(drawn.game)
  /\ UNCHANGED <<queued, drawn>>

\* applyLocalCommand in a click: what is queued is replaced, what was drawn
\* has its effects, and the rendering and its effects follow at once.
Click(g) ==
  LET v == After(g)
      ran == IF pending THEN Armed(drawn, timers, turnKey, {v}) ELSE timers
      key == IF pending THEN TurnDeadlineKey(drawn.game) ELSE turnKey
  IN /\ current' = v /\ queued' = v /\ drawn' = v /\ pending' = FALSE
     /\ timers' = Armed(v, ran, key, {}) /\ turnKey' = TurnDeadlineKey(g)

\* applyLocalCommand in a timer: the rendering comes later.
Command(g) == current' = After(g) /\ queued' = After(g)

-----------------------------------------------------------------------------
(* The player, on the table stateRef holds.                                *)
Plays ==
  /\ ~Staged(current.game)
  /\ \E p \in Humans : \E g \in MovesOf(current.game, p) : Click(g)

Answers ==
  /\ Staged(current.game)
  /\ \E p \in Humans \cap current.game.trade.to, yes \in BOOLEAN : Click(Answered(current.game, p, yes))

Resolves ==
  /\ Staged(current.game) /\ current.game.trade.from \in Humans
  /\ Click(Resolved(current.game))

\* returnToSetup and startBotMatch: every timer is cleared, and the keys of the
\* new match are its own.
NewMatch == \E p \in Players : Started(Version(Turn(p), (current.seq + 1) % Wrap, 0))

-----------------------------------------------------------------------------
(* Timers go off: each looks at stateRef, not at what it was armed for.    *)
GoesOff(t) ==
  /\ t \in timers /\ timers' = timers \ {t}
  /\ (current.seq + Wrap - drawn.seq) % Wrap < MaxBehind
  /\ UNCHANGED <<drawn, pending, turnKey>>
Idles == UNCHANGED <<current, queued>>

BotPlays ==
  \E t \in timers : t[1] = "bot" /\ GoesOff(t) /\
    IF t = AutomationKey(current) /\ ~Staged(current.game)
    THEN \E g \in MovesOf(current.game, current.game.active) : Command(g)
    ELSE Idles

Offers(t) == Staged(current.game) /\ current.offer = t[2]

BotAnswers ==
  \E t \in timers : t[1] = "answer" /\ GoesOff(t) /\
    IF Offers(t) /\ t[3] \in current.game.trade.to
    THEN \E yes \in BOOLEAN : Command(Answered(current.game, t[3], yes))
    ELSE Idles

BotResolves ==
  \E t \in timers : t[1] = "resolve" /\ GoesOff(t) /\
    IF Offers(t) /\ FullyAnswered(current.game) THEN Command(Resolved(current.game)) ELSE Idles

\* Mutant: at the deadline a bot waits for the answers that are missing.
WhenAnswered(g) == g.trade.from \in Bots => FullyAnswered(g)
AtDeadline(g) == TRUE
OfferEnds ==
  \E t \in timers : t[1] = "deadline" /\ GoesOff(t) /\
    IF Offers(t) /\ AtDeadline(current.game) THEN Command(Resolved(current.game)) ELSE Idles

\* onLocalTimeout: it plays for the human, and discards for whoever must.
TimeoutMoves(g) ==
  IF g.active \notin Humans /\ g.type # "DISCARDING" THEN {}
  ELSE IF g.type = "ACTION_PHASE" THEN {EndedTurn(g)}
  ELSE MovesOf(g, g.active)
TurnEnds ==
  \E t \in timers : t[1] = "turn" /\ GoesOff(t) /\
    IF t[2] = TurnDeadlineKey(current.game) /\ TimeoutMoves(current.game) # {}
    THEN \E g \in TimeoutMoves(current.game) : Command(g)
    ELSE Idles

Timers == BotPlays \/ BotAnswers \/ BotResolves \/ OfferEnds \/ TurnEnds
LocalNext == Plays \/ Answers \/ Resolves \/ NewMatch \/ Render \/ Effects \/ Timers

LocalSpec == LocalInit /\ [][LocalNext]_localVars

-----------------------------------------------------------------------------
Quiet == current = queued /\ queued = drawn /\ ~pending

\* Whatever went off between a rendering and its effects, once all is drawn the
\* timers run that the match needs to go on: that of a bot to move, those of the
\* bots to answer, that of the offer's end (useLocalAutomation).
LocalTimersArmed ==
  Quiet /\ ~Over(current.game) =>
    /\ current.game.active \in Bots /\ ~Staged(current.game) => AutomationKey(current) \in timers
    /\ AnswerTimers(current) \cup EndTimers(current) \subseteq timers

\* No bot is stuck: a match in which the player does nothing still goes on while
\* it is a bot's turn (useLocalAutomation).
BotsMoveOn ==
  \/ []<>(Over(current.game) \/ current.game.active \in Humans)
  \/ []<><<current'.seq # current.seq>>_localVars

\* The turn timer of the player runs while it is the player's turn.
ClockArmed == Quiet /\ ~Over(current.game) /\ current.game.active \in Humans
                => \E t \in timers : t[1] = "turn"
=============================================================================
