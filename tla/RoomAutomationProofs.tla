------------------------ MODULE RoomAutomationProofs ------------------------
(***************************************************************************)
(* Proofs about RoomAutomation: for any players, any durations and limits, *)
(* and any number of failures, absences and restarts.                      *)
(***************************************************************************)
EXTENDS RoomAutomation, TurnGameProofs

Moments == Int \cup {None}
Steps == {"asleep", "expire", "bots", "refresh"}

Typed ==
  /\ GameShape(game)
  /\ timer \in Moments /\ deadline \in Moments /\ due \in Moments
  /\ paused \in {"no", "EMPTY_ROOM", "STALLED_AUTOMATION"} /\ away \in Nat /\ here \in BOOLEAN
  /\ repeats \in Nat /\ sent \in Seq(Nat)
  /\ gaveUp \in {"no", "stalled", "budget"} /\ used \in Nat /\ left \in 0 .. MaxTroubles
  /\ DOMAIN sched = {"step", "lag", "wake", "failed", "streak"}
  /\ sched.step \in Steps /\ sched.lag \in 0 .. MaxLag
  /\ At("asleep") => sched.lag = 0

\* There is a clock while the game goes on, a deadline while an offer is open.
ClocksTrue ==
  /\ (timer = None) <=> Over(game)
  /\ (deadline = None) <=> ~Staged(game)

\* What somebody other than a person has to do.
BotNeeded(g) == BotsToAnswer(g) # {} \/ ReadyBotOffer(g) \/ g.active \in Bots

\* An entry that is early enough, and not for nothing.
Entry(g, t, d, entry) ==
  /\ entry \in Int /\ entry <= Max({t, BotDelay})
  /\ BotsToAnswer(g) # {} \/ ReadyBotOffer(g) => entry <= 0
  /\ g.active \in Bots => entry <= BotDelay
  /\ \/ t <= entry
     \/ d # None /\ d <= entry
     \/ BotNeeded(g)

EntryTrue ==
  /\ paused # "no" => due = None
  /\ At("asleep") /\ paused = "no" /\ ~Over(game) => Entry(game, timer, deadline, due)

\* A turn is over when its time is used up; a pause is given back.
PauseSoFar == IF paused = "no" THEN 0 ELSE away
TurnClock ==
  timer # None => \/ used >= Duration(game)
                  \/ timer + PauseSoFar + used + MaxLag >= Duration(game)

\* A tick that has something to do, if nothing comes between.
Useful == BotCommands # {} \/ (At("expire") /\ Expired)
Alone == IF here THEN 0 ELSE 1

\* Unless an offer waits for a human, each tick without progress goes back to a
\* trouble, or is the one in which the game last went on.
TicksExplained ==
  /\ ~here => left < MaxTroubles
  /\ ~Asking /\ ~Over(game) =>
       /\ paused = "no" => repeats + left + Alone <= MaxTroubles + 1
       /\ paused = "EMPTY_ROOM" => repeats + left <= MaxTroubles
       /\ paused = "no" /\ (At("expire") \/ At("bots"))
            => Useful \/ repeats + left + Alone <= MaxTroubles

\* Given up is given up.
StallTrue == gaveUp = "stalled" => paused = "STALLED_AUTOMATION"

IInv == Typed /\ ClocksTrue /\ EntryTrue /\ TurnClock /\ TicksExplained /\ StallTrue

-----------------------------------------------------------------------------
(* The least and the greatest of two.                                      *)

LEMMA MaxOfTwo == ASSUME NEW a \in Int, NEW b \in Int PROVE Max({a, b}) = IF a >= b THEN a ELSE b
<1>1. \E x \in {a, b} : \A y \in {a, b} : x >= y
  OBVIOUS
<1>2. Max({a, b}) \in {a, b} /\ \A y \in {a, b} : Max({a, b}) >= y
  BY <1>1 DEF Max
<1> QED
  BY <1>2

LEMMA MinOfTwo == ASSUME NEW a \in Int, NEW b \in Int PROVE Min({a, b}) = IF a <= b THEN a ELSE b
<1>1. \E x \in {a, b} : \A y \in {a, b} : x <= y
  OBVIOUS
<1>2. Min({a, b}) \in {a, b} /\ \A y \in {a, b} : Min({a, b}) <= y
  BY <1>1 DEF Min
<1> QED
  BY <1>2

LEMMA Constants ==
  /\ RollTime \in Nat \ {0} /\ ActionTime \in Nat \ {0} /\ Window \in Nat \ {0} /\ BotDelay \in Nat \ {0}
  /\ Minute \in Nat \ {0} /\ MaxLag \in Nat /\ MaxTroubles \in Nat /\ StallTickLimit \in Nat
  /\ None \notin Int /\ \A g : Duration(g) \in Nat \ {0}
BY TimesAssumption DEF Duration

-----------------------------------------------------------------------------
(* The entry of the room.                                                  *)

LEMMA DueIsMoment ==
  ASSUME NEW g, NEW t \in Moments, NEW d \in Moments, NEW reason, NEW times \in Seq(Nat), NEW base \in Int
  PROVE  /\ AutomationDueAt(g, t, d, reason, times, base) \in Moments
         /\ reason # "no" => AutomationDueAt(g, t, d, reason, times, base) = None
<1>1. times # <<>> => Last(times) \in Nat
  BY EmptySeq, LenProperties, ElementOfSeq DEF Last
<1> QED
  BY <1>1, Constants DEF AutomationDueAt, Moments

LEMMA DueIsEntry ==
  ASSUME NEW g, NEW t \in Int, NEW d \in Moments, NEW times \in Seq(Nat), ~Over(g)
  PROVE  Entry(g, t, d, AutomationDueAt(g, t, d, "no", times, 0))
<1> DEFINE r == AutomationDueAt(g, t, d, "no", times, 0)
<1>1. times # <<>> => Last(times) \in Nat
  BY EmptySeq, LenProperties, ElementOfSeq DEF Last
<1>2. Max({t, BotDelay}) >= t /\ Max({t, BotDelay}) >= BotDelay /\ Max({t, BotDelay}) \in Int
  BY MaxOfTwo, Constants
<1>3. CASE d # None /\ d <= 0
  BY <1>2, <1>3, Constants DEF AutomationDueAt, Entry, Moments
<1>4. CASE ~(d # None /\ d <= 0) /\ (BotsToAnswer(g) # {} \/ ReadyBotOffer(g))
  <2>1. r = 0
    BY <1>4 DEF AutomationDueAt
  <2> QED
    BY <1>2, <1>4, <2>1, Constants DEF Entry, BotNeeded
<1>5. CASE ~(d # None /\ d <= 0) /\ BotsToAnswer(g) = {} /\ ~ReadyBotOffer(g) /\ t <= 0
  <2>1. r = t
    BY <1>5, Constants DEF AutomationDueAt
  <2> QED
    BY <1>2, <1>5, <2>1, Constants DEF Entry
<1>6. CASE ~(d # None /\ d <= 0) /\ BotsToAnswer(g) = {} /\ ~ReadyBotOffer(g) /\ t > 0 /\ g.active \in Bots
  <2>1. r = IF times = <<>> THEN 0 ELSE BotDelay - Last(times)
    BY <1>6, Constants DEF AutomationDueAt
  <2> QED
    BY <1>1, <1>2, <1>6, <2>1, Constants DEF Entry, BotNeeded
<1>7. CASE ~(d # None /\ d <= 0) /\ BotsToAnswer(g) = {} /\ ~ReadyBotOffer(g) /\ t > 0 /\ g.active \notin Bots
  <2>1. r = t
    BY <1>7, Constants DEF AutomationDueAt
  <2> QED
    BY <1>2, <1>7, <2>1, Constants DEF Entry
<1> QED
  BY <1>3, <1>4, <1>5, <1>6, <1>7

\* The entry a step makes anew is right, whatever it is made from.
LEMMA EntryAnew ==
  ASSUME Typed', ClocksTrue', NEW times \in Seq(Nat),
         due' = AutomationDueAt(game', timer', deadline', paused', times, 0)
  PROVE  EntryTrue'
<1>1. CASE paused' # "no"
  BY <1>1, DueIsMoment, Constants DEF EntryTrue, Typed
<1>2. CASE paused' = "no" /\ ~Over(game)'
  <2>1. timer' \in Int /\ deadline' \in Moments
    BY <1>2 DEF Typed, ClocksTrue, Moments
  <2>2. Entry(game', timer', deadline', due')
    BY <1>2, <2>1, DueIsEntry DEF Over
  <2> QED
    BY <1>2, <2>2 DEF EntryTrue, Over, Entry, BotNeeded, BotsToAnswer, ReadyBotOffer, FullyAnswered, Staged, At
<1>3. CASE paused' = "no" /\ Over(game)'
  BY <1>3 DEF EntryTrue
<1> QED
  BY <1>1, <1>2, <1>3
-----------------------------------------------------------------------------
(* What a commit does, whoever makes it.                                   *)

LEMMA CommitKeeps ==
  ASSUME IInv, NEW g, GameShape(g), NEW base \in Int, 0 - MaxLag <= base, NEW times \in Seq(Nat),
         paused = "no", ~Over(game), Commit(g, base, times)
  PROVE  /\ game' = g /\ repeats' = 0 /\ used' \in Nat
         /\ timer' \in Moments /\ deadline' \in Moments /\ due' \in Moments
         /\ UNCHANGED <<paused, away, here, gaveUp>>
         /\ ClocksTrue' /\ TurnClock'
         /\ due' = AutomationDueAt(game', timer', deadline', paused', times, base)
<1>1. /\ game' = g /\ repeats' = 0 /\ UNCHANGED <<paused, away, here, gaveUp>>
      /\ timer' = RefreshTimer(g, game, base) /\ deadline' = TradeResponseDeadline(g, game, base)
      /\ used' = IF TimerKey(g) = TimerKey(game) THEN used ELSE 0
      /\ due' = AutomationDueAt(g, timer', deadline', paused, times, base)
  BY DEF Commit
<1>2. timer \in Int /\ used \in Nat /\ deadline \in Moments /\ (deadline = None <=> ~Staged(game))
  BY DEF IInv, Typed, ClocksTrue, Moments
<1>3. used' \in Nat
  BY <1>1, <1>2
<1>4. timer' \in Moments /\ (timer' = None <=> Over(g))
  BY <1>1, <1>2, Constants DEF RefreshTimer, Moments
<1>5. deadline' \in Moments /\ (deadline' = None <=> ~Staged(g))
  BY <1>1, <1>2, Constants DEF TradeResponseDeadline, Moments
<1>6. due' \in Moments
  BY <1>1, <1>4, <1>5, DueIsMoment
<1>7. TurnClock'
  <2>1. CASE TimerKey(g) = TimerKey(game) /\ ~Over(g)
    <3>1. timer' = timer /\ used' = used
      BY <1>1, <1>2, <2>1, Constants DEF RefreshTimer
    <3>2. Duration(g) = Duration(game)
      BY <2>1 DEF TimerKey, Duration
    <3> QED
      BY <1>1, <3>1, <3>2 DEF IInv, TurnClock, PauseSoFar, Duration
  <2>2. CASE TimerKey(g) # TimerKey(game) /\ ~Over(g)
    <3>1. timer' = base + Duration(g) /\ used' = 0
      BY <1>1, <2>2 DEF RefreshTimer
    <3>2. timer' + 0 + used' + MaxLag >= Duration(g)
      BY <3>1, Constants
    <3> QED
      BY <1>1, <3>2 DEF TurnClock, PauseSoFar, Duration
  <2>3. CASE Over(g)
    BY <1>4, <2>3 DEF TurnClock
  <2> QED
    BY <2>1, <2>2, <2>3
<1>8. ClocksTrue'
  BY <1>1, <1>4, <1>5 DEF ClocksTrue
<1> QED
  BY <1>1, <1>3, <1>4, <1>5, <1>6, <1>7, <1>8

\* Progress wipes out what there was to explain.
LEMMA ProgressExplained ==
  ASSUME IInv, repeats' = 0, UNCHANGED <<here, left>>
  PROVE  TicksExplained'
BY Constants DEF IInv, Typed, TicksExplained, Alone

\* While the game and the clocks stay, so does what there is to do.
LEMMA SameCommands ==
  ASSUME UNCHANGED game, DueTrade' <=> DueTrade
  PROVE  BotCommands' = BotCommands
BY DEF BotCommands

LEMMA SameGame ==
  ASSUME UNCHANGED game
  PROVE  /\ (Asking' <=> Asking) /\ (Over(game)' <=> Over(game)) /\ (Staged(game)' <=> Staged(game))
         /\ GameShape(game) => GameShape(game)'
         /\ ClocksTrue /\ UNCHANGED <<timer, deadline>> => ClocksTrue'
         /\ TurnClock /\ UNCHANGED <<timer, used, paused, away>> => TurnClock'
BY DEF Asking, Over, Staged, GameShape, OfferShape, ClocksTrue, TurnClock, PauseSoFar, Duration

-----------------------------------------------------------------------------
(* People.                                                                 *)

LEMMA HumanStep ==
  ASSUME IInv, HumanPlays \/ HumanAnswers \/ HumanResolves
  PROVE  IInv'
<1>1. PICK g : GameShape(g) /\ Commit(g, 0, sent)
  <2>1. CASE HumanPlays
    <3>1. PICK p \in Humans : \E g \in MovesOf(game, p) : Commit(g, 0, sent)
      BY <2>1 DEF HumanPlays
    <3> QED
      BY <2>1, <3>1, MovesShape DEF HumanPlays, IInv, Typed, Players
  <2>2. CASE HumanAnswers
    <3>1. PICK p \in Humans, yes \in BOOLEAN : Commit(Answered(game, p, yes), 0, sent)
      BY <2>2 DEF HumanAnswers
    <3> QED
      BY <2>2, <3>1, AnsweredShape DEF HumanAnswers, IInv, Typed
  <2>3. CASE HumanResolves
    BY <2>3, ClosedShape DEF HumanResolves, Resolved, IInv, Typed
  <2> QED
    BY <2>1, <2>2, <2>3
<1>2. paused = "no" /\ ~Over(game) /\ UNCHANGED <<sent, sched, left>>
  BY DEF HumanPlays, HumanAnswers, HumanResolves, Playing
<1>3. sent \in Seq(Nat) /\ 0 \in Int /\ 0 - MaxLag <= 0
  BY Constants DEF IInv, Typed
<1>4. /\ game' = g /\ repeats' = 0 /\ used' \in Nat
      /\ timer' \in Moments /\ deadline' \in Moments /\ due' \in Moments
      /\ UNCHANGED <<paused, away, here, gaveUp>>
      /\ ClocksTrue' /\ TurnClock'
      /\ due' = AutomationDueAt(game', timer', deadline', paused', sent, 0)
  BY <1>1, <1>2, <1>3, CommitKeeps
<1>5. Typed'
  BY <1>1, <1>2, <1>4 DEF IInv, Typed, At
<1>6. EntryTrue'
  BY <1>3, <1>4, <1>5, EntryAnew
<1>7. TicksExplained'
  BY <1>2, <1>4, ProgressExplained
<1> QED
  BY <1>4, <1>5, <1>6, <1>7 DEF IInv, StallTrue

LEMMA LeaveStep == ASSUME IInv, Leave PROVE IInv'
<1>1. /\ UNCHANGED <<game, timer, deadline, repeats, sent, sched, gaveUp, used>>
      /\ here = TRUE /\ here' = FALSE /\ left > 0 /\ left' = left - 1
      /\ left' \in 0 .. MaxTroubles
  BY Constants DEF Leave, Trouble, IInv, Typed
<1>2. CASE Over(game) \/ paused # "no"
  <2>1. UNCHANGED <<paused, away, due>>
    BY <1>2 DEF Leave
  <2>2. Typed'
    BY <1>1, <2>1, Constants DEF IInv, Typed, At
  <2>3. EntryTrue'
    BY <1>1, <2>1, SameGame DEF IInv, EntryTrue, At
  <2>4. TicksExplained'
    BY <1>1, <1>2, <2>1, SameGame, Constants DEF IInv, Typed, TicksExplained, Alone
  <2> QED
    BY <1>1, <2>1, <2>2, <2>3, <2>4, SameGame DEF IInv, StallTrue
<1>3. CASE ~Over(game) /\ paused = "no"
  <2>1. paused' = "EMPTY_ROOM" /\ away' = 0 /\ due' = None
    <3>1. paused' = "EMPTY_ROOM" /\ away' = 0 /\ due' = AutomationDueAt(game, timer, deadline, "EMPTY_ROOM", sent, 0)
      BY <1>3 DEF Leave, Pause
    <3> QED
      BY <3>1, DueIsMoment DEF IInv, Typed
  <2>2. Typed'
    BY <1>1, <2>1, Constants DEF IInv, Typed, At, Moments
  <2>3. EntryTrue'
    BY <2>1 DEF EntryTrue
  <2>4. TurnClock'
    BY <1>1, <1>3, <2>1, Constants DEF IInv, TurnClock, PauseSoFar, Duration
  <2>5. TicksExplained'
    BY <1>1, <1>3, <2>1, SameGame, Constants DEF IInv, Typed, TicksExplained, Alone
  <2>6. StallTrue'
    BY <1>1, <1>3 DEF IInv, StallTrue
  <2> QED
    BY <1>1, <2>2, <2>3, <2>4, <2>5, <2>6, SameGame DEF IInv
<1> QED
  BY <1>2, <1>3

LEMMA ReturnStep == ASSUME IInv, Return PROVE IInv'
<1>1. /\ UNCHANGED <<game, repeats, sent, sched, gaveUp, used, left>>
      /\ here = FALSE /\ here' = TRUE
  BY DEF Return, IInv, Typed
<1>2. CASE paused = "EMPTY_ROOM"
  <2>1. /\ paused' = "no" /\ away' = 0 /\ timer' = Shifted(timer) /\ deadline' = Shifted(deadline)
        /\ due' = AutomationDueAt(game', timer', deadline', paused', sent, 0)
    BY <1>1, <1>2 DEF Return
  <2>2. /\ timer' \in Moments /\ (timer' = None <=> timer = None)
        /\ deadline' \in Moments /\ (deadline' = None <=> deadline = None)
        /\ timer # None => timer' = timer + away
    BY <2>1, Constants DEF IInv, Typed, Shifted, Moments
  <2>3. due' \in Moments
    BY <1>1, <2>1, <2>2, DueIsMoment DEF IInv, Typed
  <2>4. Typed'
    BY <1>1, <2>1, <2>2, <2>3 DEF IInv, Typed, At
  <2>5. ClocksTrue'
    BY <1>1, <2>2 DEF IInv, ClocksTrue, Over, Staged
  <2>6. EntryTrue'
    BY <1>1, <2>1, <2>4, <2>5, EntryAnew DEF IInv, Typed
  <2>7. TurnClock'
    <3>1. timer # None => timer \in Int /\ away \in Nat /\ used \in Nat
      BY DEF IInv, Typed, Moments
    <3> QED
      BY <1>1, <1>2, <2>1, <2>2, <3>1, Constants DEF IInv, TurnClock, PauseSoFar, Duration
  <2>8. TicksExplained'
    BY <1>1, <1>2, <2>1, SameGame, Constants DEF IInv, Typed, TicksExplained, Alone
  <2>9. StallTrue'
    BY <1>1, <1>2 DEF IInv, StallTrue
  <2> QED
    BY <2>4, <2>5, <2>6, <2>7, <2>8, <2>9 DEF IInv
<1>3. CASE paused # "EMPTY_ROOM"
  <2>1. /\ UNCHANGED <<paused, away, timer, deadline>>
        /\ due' = AutomationDueAt(game', timer', deadline', paused', sent, 0)
    BY <1>1, <1>3 DEF Return
  <2>2. due' \in Moments
    BY <1>1, <2>1, DueIsMoment DEF IInv, Typed
  <2>3. Typed'
    BY <1>1, <2>1, <2>2 DEF IInv, Typed, At
  <2>4. EntryTrue'
    BY <1>1, <2>1, <2>3, EntryAnew, SameGame DEF IInv, Typed
  <2>5. Useful' <=> Useful
    BY <1>1, <2>1, SameCommands DEF Useful, Expired, DueTrade, TickNow, At, Over
  <2>6. TicksExplained'
    BY <1>1, <1>3, <2>1, <2>5, SameGame, Constants DEF IInv, Typed, TicksExplained, Alone, At
  <2> QED
    BY <1>1, <2>1, <2>3, <2>4, <2>6, SameGame DEF IInv, StallTrue
<1> QED
  BY <1>2, <1>3

-----------------------------------------------------------------------------
(* Cleanup and restart.                                                    *)

LEMMA CleanupStep == ASSUME IInv, CleanupPauses PROVE IInv'
<1>1. /\ UNCHANGED <<game, timer, deadline, here, repeats, sent, sched, gaveUp, used, left>>
      /\ here = FALSE /\ paused = "no" /\ ~Over(game) /\ paused' = "EMPTY_ROOM" /\ away' = 0
      /\ due' = AutomationDueAt(game, timer, deadline, "EMPTY_ROOM", sent, 0)
  BY DEF CleanupPauses, Pause, IInv, Typed
<1>2. due' = None
  BY <1>1, DueIsMoment DEF IInv, Typed
<1>3. Typed'
  BY <1>1, <1>2 DEF IInv, Typed, At, Moments
<1>4. EntryTrue'
  BY <1>1, <1>2 DEF EntryTrue
<1>5. TurnClock'
  BY <1>1, Constants DEF IInv, TurnClock, PauseSoFar, Duration
<1>6. TicksExplained'
  BY <1>1, SameGame, Constants DEF IInv, Typed, TicksExplained, Alone
<1> QED
  BY <1>1, <1>3, <1>4, <1>5, <1>6, SameGame DEF IInv, StallTrue

LEMMA RestartStep == ASSUME IInv, Restart PROVE IInv'
<1>1. /\ UNCHANGED <<game, timer, deadline, paused, away, gaveUp, used>>
      /\ here' = FALSE /\ repeats' = 0 /\ sent' = <<>> /\ left > 0 /\ left' = left - 1
      /\ due' = AutomationDueAt(game, timer, deadline, paused, <<>>, 0)
      /\ sched' = Asleep(0, 0) /\ left' \in 0 .. MaxTroubles
  BY Constants DEF Restart, Trouble, IInv, Typed
<1>2. <<>> \in Seq(Nat)
  BY EmptySeq
<1>3. due' \in Moments
  <2>1. timer \in Moments /\ deadline \in Moments /\ 0 \in Int
    BY DEF IInv, Typed
  <2>2. AutomationDueAt(game, timer, deadline, paused, <<>>, 0) \in Moments
    BY <1>2, <2>1, DueIsMoment, Zenon
  <2> QED
    BY <1>1, <2>2
<1>4. /\ DOMAIN sched' = {"step", "lag", "wake", "failed", "streak"}
      /\ sched'.step = "asleep" /\ sched'.lag = 0
  BY <1>1 DEF Asleep
<1>5. Typed'
  <2>1. sent' \in Seq(Nat)
    BY <1>1, <1>2, Zenon
  <2>2. repeats' \in Nat /\ sched'.lag \in 0 .. MaxLag /\ sched'.step \in Steps
    BY <1>1, <1>4, Constants DEF Steps
  <2> QED
    BY <1>1, <1>3, <1>4, <2>1, <2>2, SameGame DEF IInv, Typed, At
<1>6. EntryTrue'
  BY <1>1, <1>2, <1>5, EntryAnew, SameGame DEF IInv
<1>7. TicksExplained'
  BY <1>1, <1>4, Constants DEF IInv, Typed, TicksExplained, Alone, At
<1> QED
  BY <1>1, <1>5, <1>6, <1>7, SameGame DEF IInv, StallTrue
-----------------------------------------------------------------------------
(* The scheduler's tick.                                                   *)

\* An entry that is due is due for something: the tick will have something to do.
LEMMA DueIsUseful ==
  ASSUME IInv, At("asleep"), DueNow, ~Over(game), ~Asking
  PROVE  BotCommands # {} \/ Expired
<1>1. paused = "no" /\ Entry(game, timer, deadline, due) /\ due <= 0 /\ sched.lag = 0
  BY DEF IInv, Typed, EntryTrue, DueNow
<1>2. TickNow = 0
  BY <1>1 DEF TickNow
<1>3. timer \in Int /\ deadline \in Moments /\ due \in Int
  BY <1>1 DEF IInv, Typed, ClocksTrue, Moments, Entry
<1>4. CASE timer <= due
  BY <1>1, <1>2, <1>3, <1>4, Constants DEF Expired
<1>5. CASE deadline # None /\ deadline <= due
  <2>1. DueTrade
    BY <1>1, <1>2, <1>3, <1>5 DEF DueTrade, Moments
  <2> QED
    BY <2>1 DEF BotCommands
<1>6. CASE BotsToAnswer(game) # {}
  <2>1. PICK p : p \in BotsToAnswer(game)
    BY <1>6
  <2>2. Answered(game, p, TRUE) \in {Answered(game, q, TRUE) : q \in BotsToAnswer(game)}
    BY <2>1
  <2> QED
    BY <1>6, <2>2 DEF BotCommands
<1>7. CASE BotsToAnswer(game) = {} /\ ReadyBotOffer(game)
  BY <1>7 DEF BotCommands
<1>8. CASE BotsToAnswer(game) = {} /\ ~ReadyBotOffer(game) /\ game.active \in Bots
  <2>1. ~Staged(game)
    BY <1>8, OfferWaitsForHuman DEF IInv, Typed, Asking
  <2>2. MovesOf(game, game.active) # {}
    BY ActiveCanMove DEF IInv, Typed
  <2> QED
    BY <1>8, <2>1, <2>2 DEF BotCommands
<1> QED
  BY <1>1, <1>4, <1>5, <1>6, <1>7, <1>8 DEF Entry, BotNeeded

LEMMA ClaimStep == ASSUME IInv, ClaimDue PROVE IInv'
<1>1. /\ UNCHANGED <<game, timer, deadline, paused, away, here, repeats, sent, gaveUp, used, left>>
      /\ At("asleep") /\ DueNow /\ due' = None /\ sched' = [sched EXCEPT !.step = "expire"]
  BY DEF ClaimDue, Goes
<1>2. sched'.step = "expire" /\ sched'.lag = sched.lag /\ DOMAIN sched' = DOMAIN sched
  BY <1>1 DEF IInv, Typed
<1>3. Typed'
  BY <1>1, <1>2 DEF IInv, Typed, At, Steps, Moments
<1>4. EntryTrue'
  BY <1>1, <1>2 DEF EntryTrue, At
<1>5. ~Asking /\ ~Over(game) => Useful'
  <2>1. TickNow' = TickNow
    BY <1>2 DEF TickNow
  <2>2. BotCommands' = BotCommands /\ (Expired' <=> Expired)
    BY <1>1, <2>1, SameCommands DEF DueTrade, Expired, Over
  <2> QED
    BY <1>1, <1>2, <2>2, DueIsUseful DEF Useful, At
<1>6. TicksExplained'
  BY <1>1, <1>5, SameGame DEF IInv, TicksExplained, Alone
<1> QED
  BY <1>1, <1>3, <1>4, <1>6, SameGame DEF IInv, StallTrue

LEMMA NothingDueStep == ASSUME IInv, NothingDue PROVE IInv'
<1>1. /\ UNCHANGED <<game, timer, deadline, paused, away, here, repeats, sent, due, gaveUp, used, left>>
      /\ At("asleep") /\ sched' = Sleep(due, FALSE, 0)
  BY DEF NothingDue
<1>2. sched'.step = "asleep" /\ sched'.lag = 0 /\ DOMAIN sched' = DOMAIN sched
  BY <1>1 DEF Sleep, Asleep, IInv, Typed
<1>3. Typed'
  BY <1>1, <1>2, Constants DEF IInv, Typed, At
<1>4. EntryTrue'
  BY <1>1, <1>2, SameGame DEF IInv, EntryTrue, At
<1>5. TicksExplained'
  BY <1>1, <1>2, SameGame DEF IInv, TicksExplained, Alone, At
<1> QED
  BY <1>1, <1>3, <1>4, <1>5, SameGame DEF IInv, StallTrue

\* The steps of a tick that leave the room alone go on to the next, or count.
LEMMA TickGoesOn ==
  ASSUME IInv, NEW step \in Steps \ {"asleep"}, sched'.step = step, sched'.lag = sched.lag,
         DOMAIN sched' = DOMAIN sched,
         UNCHANGED <<game, timer, deadline, paused, away, here, sent, due, gaveUp, used>>,
         ~At("asleep"), repeats' \in Nat, left' \in 0 .. MaxTroubles, left' <= left
  PROVE  /\ Typed' /\ ClocksTrue' /\ EntryTrue' /\ TurnClock' /\ StallTrue'
         /\ ~here' => left' < MaxTroubles
<1>1. Typed'
  BY DEF IInv, Typed, At
<1>2. EntryTrue'
  BY DEF IInv, EntryTrue, At
<1> QED
  BY <1>1, <1>2, SameGame, Constants DEF IInv, Typed, StallTrue, TicksExplained

\* The commands the clock and the bots give.
LEMMA ClockPlaysShape == ASSUME Typed, ~Over(game), NEW g \in ClockPlays PROVE GameShape(g)
<1>1. CASE game.type = "ACTION_PHASE"
  BY <1>1, EndedTurnShape DEF ClockPlays
<1>2. CASE game.type # "ACTION_PHASE"
  BY <1>2, MovesShape DEF ClockPlays, Typed, GameShape, OfferShape
<1> QED
  BY <1>1, <1>2

LEMMA BotCommandsShape == ASSUME Typed, ClocksTrue, NEW g \in BotCommands PROVE GameShape(g)
<1>1. CASE g = Resolved(game) /\ Staged(game)
  BY <1>1, ClosedShape DEF Resolved, Typed
<1>2. CASE \E p \in BotsToAnswer(game), yes \in BOOLEAN : g = Answered(game, p, yes)
  <2>1. Staged(game)
    BY <1>2 DEF BotsToAnswer
  <2> QED
    BY <1>2, <2>1, AnsweredShape DEF Typed
<1>3. CASE ~Staged(game) /\ g \in MovesOf(game, game.active)
  BY <1>3, MovesShape DEF Typed, GameShape
<1>4. DueTrade \/ ReadyBotOffer(game) => Staged(game)
  BY DEF DueTrade, ReadyBotOffer, FullyAnswered, ClocksTrue
<1> QED
  BY <1>1, <1>2, <1>3, <1>4 DEF BotCommands

\* A commit inside a tick.
LEMMA TickCommits ==
  ASSUME IInv, NEW g, GameShape(g), NEW base \in Int, 0 - MaxLag <= base, NEW times \in Seq(Nat),
         paused = "no", ~Over(game), Commit(g, base, times), sent' = times, UNCHANGED left,
         sched'.step \in Steps \ {"asleep"}, sched'.lag = sched.lag, DOMAIN sched' = DOMAIN sched
  PROVE  IInv'
<1>1. /\ game' = g /\ repeats' = 0 /\ used' \in Nat
      /\ timer' \in Moments /\ deadline' \in Moments /\ due' \in Moments
      /\ UNCHANGED <<paused, away, here, gaveUp>>
      /\ ClocksTrue' /\ TurnClock'
  BY CommitKeeps
<1>2. Typed'
  BY <1>1 DEF IInv, Typed, At
<1>3. EntryTrue'
  BY <1>1 DEF EntryTrue, At
<1> QED
  BY <1>1, <1>2, <1>3, ProgressExplained DEF IInv, StallTrue

LEMMA TickNowBound == ASSUME IInv PROVE TickNow \in Int /\ 0 - MaxLag <= TickNow /\ TickNow <= 0
BY Constants DEF IInv, Typed, TickNow

LEMMA ExpireStep == ASSUME IInv, ExpireTurn PROVE IInv'
<1>1. At("expire") /\ Expired /\ paused = "no" /\ ~Over(game) /\ UNCHANGED sent
  BY DEF ExpireTurn, Expired
<1>2. CASE (\E g \in ClockPlays : Commit(g, TickNow, sent)) /\ UNCHANGED left /\ Goes("bots")
  <2>1. PICK g \in ClockPlays : Commit(g, TickNow, sent)
    BY <1>2
  <2>2. GameShape(g)
    BY <1>1, ClockPlaysShape DEF IInv
  <2>3. sched'.step \in Steps \ {"asleep"} /\ sched'.lag = sched.lag /\ DOMAIN sched' = DOMAIN sched
    BY <1>2 DEF Goes, IInv, Typed, Steps
  <2>4. sent \in Seq(Nat)
    BY DEF IInv, Typed
  <2> QED
    BY <1>1, <1>2, <2>1, <2>2, <2>3, <2>4, TickNowBound, TickCommits
<1>3. CASE CommitFails /\ GoesOn("bots")
  <2>1. /\ UNCHANGED <<game, timer, deadline, due, repeats, used, paused, away, here, gaveUp>>
        /\ left > 0 /\ left' = left - 1
    BY <1>3 DEF CommitFails, Trouble
  <2>2. sched'.step = "bots" /\ sched'.lag = sched.lag /\ DOMAIN sched' = DOMAIN sched
    BY <1>3 DEF GoesOn, IInv, Typed
  <2>3. left' \in 0 .. MaxTroubles /\ repeats' \in Nat /\ left' <= left
    BY <2>1, Constants DEF IInv, Typed
  <2>4. "bots" \in Steps \ {"asleep"} /\ ~At("asleep")
    BY <1>1 DEF At, Steps
  <2>5. /\ Typed' /\ ClocksTrue' /\ EntryTrue' /\ TurnClock' /\ StallTrue'
        /\ ~here' => left' < MaxTroubles
    BY <1>1, <2>1, <2>2, <2>3, <2>4, TickGoesOn
  <2>6. TicksExplained'
    BY <1>1, <2>1, <2>2, <2>5, SameGame, Constants DEF IInv, Typed, TicksExplained, Alone, At
  <2> QED
    BY <2>5, <2>6 DEF IInv
<1> QED
  BY <1>2, <1>3 DEF ExpireTurn

LEMMA NotExpiredStep == ASSUME IInv, NotExpired PROVE IInv'
<1>1. /\ UNCHANGED <<game, timer, deadline, paused, away, here, repeats, sent, due, gaveUp, used, left>>
      /\ At("expire") /\ ~Expired /\ Goes("bots")
  BY DEF NotExpired
<1>2. sched'.step = "bots" /\ sched'.lag = sched.lag /\ DOMAIN sched' = DOMAIN sched
  BY <1>1 DEF Goes, IInv, Typed
<1>3. left' \in 0 .. MaxTroubles /\ repeats' \in Nat /\ left' <= left
  BY <1>1, Constants DEF IInv, Typed
<1>4. "bots" \in Steps \ {"asleep"} /\ ~At("asleep")
  BY <1>1 DEF At, Steps
<1>5. Typed' /\ ClocksTrue' /\ EntryTrue' /\ TurnClock' /\ StallTrue'
  BY <1>1, <1>2, <1>3, <1>4, TickGoesOn
<1>6. Useful => Useful'
  <2>1. DueTrade' <=> DueTrade
    BY <1>1, <1>2 DEF DueTrade, TickNow
  <2> QED
    BY <1>1, <2>1, SameCommands DEF Useful
<1>7. TicksExplained'
  BY <1>1, <1>6, SameGame DEF IInv, TicksExplained, Alone, At
<1> QED
  BY <1>5, <1>7 DEF IInv

LEMMA RecentTyped == ASSUME Typed PROVE Recent \in Seq(Nat) /\ Append(Recent, sched.lag) \in Seq(Nat)
<1>1. Recent \in Seq(Nat)
  <2>1. sent \in Seq(Nat) /\ DOMAIN sent = 1 .. Len(sent) /\ Len(sent) \in Nat
    BY LenProperties DEF Typed
  <2>2. CASE Fresh = {}
    BY <2>2, EmptySeq DEF Recent
  <2>3. CASE Fresh # {}
    <3>1. Min(Fresh) \in Fresh
      <4>1. Fresh \subseteq Nat
        BY <2>1 DEF Fresh
      <4> QED
        BY <2>3, <4>1, MinIsLeast
    <3>2. Min(Fresh) \in 1 .. Len(sent)
      BY <2>1, <3>1 DEF Fresh
    <3>3. \A i \in Min(Fresh) .. Len(sent) : sent[i] \in Nat
      BY <2>1, <3>2, ElementOfSeq
    <3> QED
      BY <2>1, <2>3, <3>2, <3>3, SubSeqProperties DEF Recent
  <2> QED
    BY <2>2, <2>3
<1>2. sched.lag \in Nat
  BY Constants DEF Typed
<1> QED
  BY <1>1, <1>2, AppendProperties

\* The room is given up: whoever did it, with a pause that lasts.
LEMMA GivenUp ==
  ASSUME IInv, NEW why \in {"stalled", "budget"}, GiveUp(why), At("bots"), Goes("refresh"), paused = "no",
         repeats' = repeats + 1, sent' \in Seq(Nat), UNCHANGED left
  PROVE  IInv'
<1>1. /\ UNCHANGED <<game, timer, deadline, here, used>>
      /\ paused' = "STALLED_AUTOMATION" /\ away' = sched.lag /\ gaveUp' = why /\ due' = None
  BY DEF GiveUp
<1>2. sched'.step = "refresh" /\ sched'.lag = sched.lag /\ DOMAIN sched' = DOMAIN sched
  BY DEF Goes, IInv, Typed
<1>3. Typed'
  BY <1>1, <1>2, Constants DEF IInv, Typed, At, Steps, Moments
<1>4. EntryTrue'
  BY <1>1 DEF EntryTrue
<1>5. TurnClock'
  <2>1. timer # None => timer \in Int /\ used \in Nat /\ sched.lag \in Nat
    BY Constants DEF IInv, Typed, Moments
  <2> QED
    BY <1>1, <2>1, Constants DEF IInv, TurnClock, PauseSoFar, Duration
<1>6. TicksExplained'
  BY <1>1, <1>2 DEF IInv, TicksExplained
<1>7. StallTrue'
  BY <1>1 DEF StallTrue
<1> QED
  BY <1>1, <1>3, <1>4, <1>5, <1>6, <1>7, SameGame DEF IInv

LEMMA GiveUpStep == ASSUME IInv, BotsStall \/ BudgetSpent PROVE IInv'
<1>1. CASE BotsStall
  BY <1>1, GivenUp DEF BotsStall, RunnableBots, IInv, Typed
<1>2. CASE BudgetSpent
  <2>1. sent' \in Seq(Nat)
    BY <1>2, RecentTyped DEF BudgetSpent, IInv
  <2> QED
    BY <1>2, <2>1, GivenUp DEF BudgetSpent, RunnableBots
<1> QED
  BY <1>1, <1>2

\* A tick that a trouble leaves without progress.
LEMMA BotsTrouble ==
  ASSUME IInv, At("bots"), paused = "no", Trouble, sched' = [sched EXCEPT !.step = "refresh", !.failed = TRUE],
         repeats' = repeats + 1, sent' \in Seq(Nat),
         UNCHANGED <<game, timer, deadline, paused, away, here, due, gaveUp, used>>
  PROVE  IInv'
<1>1. sched'.step = "refresh" /\ sched'.lag = sched.lag /\ DOMAIN sched' = DOMAIN sched
  BY DEF IInv, Typed
<1>2. left > 0 /\ left' = left - 1 /\ left' \in 0 .. MaxTroubles
  BY Constants, SMTT(20) DEF Trouble, IInv, Typed
<1>3. Typed'
  BY <1>1, <1>2, Constants, SMTT(20) DEF IInv, Typed, At, Steps
<1>4. EntryTrue'
  BY <1>1 DEF IInv, EntryTrue, At
<1>5. TicksExplained'
  <2>1. left \in Int /\ left' \in Int /\ repeats \in Int /\ Alone \in Int /\ Alone' = Alone /\ MaxTroubles \in Int
    BY <1>2, Constants DEF IInv, Typed, Alone
  <2>2. (Asking' <=> Asking) /\ (Over(game)' <=> Over(game)) /\ paused' = "no" /\ ~At("expire")' /\ ~At("bots")'
    BY <1>1, SameGame DEF At
  <2>3. ~here' => left' < MaxTroubles
    BY <1>2, <2>1 DEF IInv, TicksExplained
  <2>4. ~Asking /\ ~Over(game) => repeats + left + Alone <= MaxTroubles + 1
    BY DEF IInv, TicksExplained
  <2>5. ~Asking /\ ~Over(game) => repeats' + left' + Alone' <= MaxTroubles + 1
    BY <1>2, <2>1, <2>4
  <2> QED
    BY <2>2, <2>3, <2>5 DEF TicksExplained
<1> QED
  BY <1>3, <1>4, <1>5, SameGame DEF IInv, StallTrue

LEMMA PauseFailsStep == ASSUME IInv, PauseFails PROVE IInv'
<1>1. sent' \in Seq(Nat)
  BY DEF PauseFails, IInv, Typed
<1> QED
  BY <1>1, BotsTrouble DEF PauseFails, RunnableBots, GoesOn

LEMMA BotsActStep == ASSUME IInv, BotsAct PROVE IInv'
<1>1. /\ At("bots") /\ paused = "no" /\ ~Over(game) /\ sent' = Append(Recent, sched.lag)
  BY DEF BotsAct, RunnableBots
<1>2. sent' \in Seq(Nat)
  BY <1>1, RecentTyped DEF IInv
<1>3. CASE (\E g \in BotCommands : Commit(g, 0, sent')) /\ UNCHANGED left /\ Goes("refresh")
  <2>1. PICK g \in BotCommands : Commit(g, 0, sent')
    BY <1>3
  <2>2. GameShape(g)
    BY BotCommandsShape DEF IInv
  <2>3. sched'.step \in Steps \ {"asleep"} /\ sched'.lag = sched.lag /\ DOMAIN sched' = DOMAIN sched
    BY <1>3 DEF Goes, IInv, Typed, Steps
  <2>4. 0 \in Int /\ 0 - MaxLag <= 0
    BY Constants
  <2> QED
    BY <1>1, <1>2, <1>3, <2>1, <2>2, <2>3, <2>4, TickCommits
<1>4. CASE /\ Trouble /\ GoesOn("refresh") /\ repeats' = repeats + 1
           /\ UNCHANGED <<game, timer, deadline, due, used, paused, away, here, gaveUp>>
  BY <1>1, <1>2, <1>4, BotsTrouble DEF GoesOn
<1> QED
  BY <1>3, <1>4 DEF BotsAct

\* Nothing to do for the bots: a tick without progress, and the last such one.
LEMMA BotsWaitStep == ASSUME IInv, BotsWait PROVE IInv'
<1>1. /\ UNCHANGED <<game, timer, deadline, paused, away, here, sent, due, gaveUp, used, left>>
      /\ At("bots") /\ paused = "no" /\ BotCommands = {} /\ repeats' = repeats + 1 /\ Goes("refresh")
  BY DEF BotsWait, RunnableBots
<1>2. sched'.step = "refresh" /\ sched'.lag = sched.lag /\ DOMAIN sched' = DOMAIN sched
  BY <1>1 DEF Goes, IInv, Typed
<1>3. left' \in 0 .. MaxTroubles /\ repeats' \in Nat /\ left' <= left
  BY <1>1, Constants DEF IInv, Typed
<1>4. "refresh" \in Steps \ {"asleep"} /\ ~At("asleep")
  BY <1>1 DEF At, Steps
<1>5. Typed' /\ ClocksTrue' /\ EntryTrue' /\ TurnClock' /\ StallTrue'
  BY <1>1, <1>2, <1>3, <1>4, TickGoesOn
<1>6. ~Useful
  BY <1>1 DEF Useful, At
<1>7. TicksExplained'
  BY <1>1, <1>2, <1>6, SameGame, Constants DEF IInv, Typed, TicksExplained, Alone, At
<1> QED
  BY <1>5, <1>7 DEF IInv

LEMMA NoBotsStep == ASSUME IInv, NoBots PROVE IInv'
<1>1. /\ UNCHANGED <<game, timer, deadline, paused, away, here, repeats, sent, due, gaveUp, used, left>>
      /\ At("bots") /\ Goes("refresh")
  BY DEF NoBots
<1>2. sched'.step = "refresh" /\ sched'.lag = sched.lag /\ DOMAIN sched' = DOMAIN sched
  BY <1>1 DEF Goes, IInv, Typed
<1>3. left' \in 0 .. MaxTroubles /\ repeats' \in Nat /\ left' <= left
  BY <1>1, Constants DEF IInv, Typed
<1>4. "refresh" \in Steps \ {"asleep"} /\ ~At("asleep")
  BY <1>1 DEF At, Steps
<1>5. Typed' /\ ClocksTrue' /\ EntryTrue' /\ TurnClock' /\ StallTrue'
  BY <1>1, <1>2, <1>3, <1>4, TickGoesOn
<1>6. TicksExplained'
  BY <1>1, <1>2, SameGame DEF IInv, TicksExplained, Alone, At
<1> QED
  BY <1>5, <1>6 DEF IInv

LEMMA RefreshStep == ASSUME IInv, Refresh PROVE IInv'
<1>1. /\ UNCHANGED <<game, timer, deadline, paused, away, here, repeats, sent, gaveUp, used, left>>
      /\ due' = AutomationDueAt(game, timer, deadline, paused, sent, 0)
      /\ sched' = Sleep(due', sched.failed, sched.streak)
  BY DEF Refresh
<1>2. sched'.step = "asleep" /\ sched'.lag = 0 /\ DOMAIN sched' = DOMAIN sched
  BY <1>1 DEF Sleep, Asleep, IInv, Typed
<1>3. due' \in Moments
  BY <1>1, DueIsMoment DEF IInv, Typed
<1>4. Typed'
  BY <1>1, <1>2, <1>3, Constants DEF IInv, Typed, At, Steps
<1>5. EntryTrue'
  BY <1>1, <1>4, EntryAnew, SameGame DEF IInv, Typed
<1>6. TicksExplained'
  BY <1>1, <1>2, SameGame DEF IInv, TicksExplained, Alone, At
<1> QED
  BY <1>1, <1>4, <1>5, <1>6, SameGame DEF IInv, StallTrue

-----------------------------------------------------------------------------
(* Time passes.                                                            *)

LEMMA OlderTyped == ASSUME NEW age \in Nat PROVE Older(age) \in Nat
<1>1. Max({Minute, BotDelay}) \in Nat
  BY MaxOfTwo, Constants
<1> QED
  BY <1>1, MinOfTwo, Constants DEF Older

LEMMA SoonerTyped == ASSUME NEW m \in Moments PROVE Sooner(m) \in Moments /\ (Sooner(m) = None <=> m = None)
                                                    /\ (m # None => Sooner(m) = m - 1)
BY Constants DEF Sooner, Moments

LEMMA PassStep == ASSUME IInv, Pass PROVE IInv'
<1>1. /\ ~Over(game) /\ UNCHANGED <<game, paused, here, repeats, gaveUp, left>>
      /\ timer' = Sooner(timer) /\ deadline' = Sooner(deadline) /\ due' = Sooner(due)
      /\ away' = IF paused = "no" THEN 0 ELSE away + 1
      /\ used' = IF paused = "no" THEN Min({used + 1, Duration(game)}) ELSE used
      /\ sent' = [i \in DOMAIN sent |-> Older(sent[i])]
      /\ sched' = IF At("asleep") THEN [sched EXCEPT !.wake = @ - 1] ELSE [sched EXCEPT !.lag = @ + 1]
      /\ ~At("asleep") => sched.lag < MaxLag
  BY DEF Pass
<1>2. /\ timer \in Int /\ timer' = timer - 1 /\ deadline' \in Moments /\ (deadline' = None <=> deadline = None)
      /\ deadline # None => deadline \in Int /\ deadline' = deadline - 1
      /\ due' \in Moments /\ (due' = None <=> due = None) /\ (due # None => due \in Int /\ due' = due - 1)
  BY <1>1, SoonerTyped DEF IInv, Typed, ClocksTrue, Moments
<1>3. /\ sched'.step = sched.step /\ DOMAIN sched' = DOMAIN sched /\ (At("asleep")' <=> At("asleep"))
      /\ At("asleep") => sched'.lag = 0
      /\ ~At("asleep") => sched'.lag = sched.lag + 1
      /\ sched'.lag \in 0 .. MaxLag
  BY <1>1, Constants DEF IInv, Typed, At
<1>4. /\ used' \in Nat /\ (paused = "no" => used' = used + 1 \/ used' >= Duration(game))
      /\ paused = "no" /\ used >= Duration(game) => used' >= Duration(game)
  <2>1. used \in Nat /\ used + 1 \in Int /\ Duration(game) \in Nat
    BY Constants DEF IInv, Typed
  <2>2. Min({used + 1, Duration(game)}) = IF used + 1 <= Duration(game) THEN used + 1 ELSE Duration(game)
    BY <2>1, MinOfTwo
  <2> QED
    BY <1>1, <2>1, <2>2
<1>5. sent' \in Seq(Nat)
  <2>1. sent \in Seq(Nat) /\ Len(sent) \in Nat /\ DOMAIN sent = 1 .. Len(sent)
    BY LenProperties DEF IInv, Typed
  <2>2. sent' = [i \in 1 .. Len(sent) |-> Older(sent[i])] /\ \A i \in 1 .. Len(sent) : Older(sent[i]) \in Nat
    BY <1>1, <2>1, ElementOfSeq, OlderTyped
  <2> QED
    BY <2>1, <2>2, SMT
<1>6. Typed'
  BY <1>1, <1>2, <1>3, <1>4, <1>5 DEF IInv, Typed, At, Moments
<1>7. ClocksTrue'
  BY <1>1, <1>2, Constants DEF IInv, ClocksTrue, Over, Staged
<1>8. EntryTrue'
  <2>1. ASSUME At("asleep"), paused = "no" PROVE Entry(game, timer', deadline', due')
    <3>1. Entry(game, timer, deadline, due) /\ due \in Int
      BY <1>1, <2>1 DEF IInv, EntryTrue, Entry
    <3>2. due <= Max({timer, BotDelay}) => due - 1 <= Max({timer - 1, BotDelay})
      BY <1>2, <3>1, MaxOfTwo, Constants
    <3> QED
      BY <1>2, <3>1, <3>2, Constants DEF Entry
  <2> QED
    BY <1>1, <1>2, <1>3, <2>1 DEF IInv, EntryTrue, At, Entry, BotNeeded, BotsToAnswer, ReadyBotOffer,
                                  FullyAnswered, Staged
<1>9. TurnClock'
  <2>1. Duration(game)' = Duration(game) /\ Duration(game) \in Nat
    BY <1>1, Constants DEF Duration
  <2>2. used >= Duration(game) \/ timer + PauseSoFar + used + MaxLag >= Duration(game)
    BY <1>2, Constants DEF IInv, TurnClock
  <2>3. CASE paused = "no"
    <3>1. PauseSoFar = 0 /\ PauseSoFar' = 0
      BY <1>1, <2>3 DEF PauseSoFar
    <3>2. used >= Duration(game) => used' >= Duration(game)
      BY <1>4, <2>3
    <3> QED
      BY <1>2, <1>4, <2>1, <2>2, <2>3, <3>1, <3>2, Constants, SMTT(20) DEF TurnClock, IInv, Typed
  <2>4. CASE paused # "no"
    <3>1. PauseSoFar = away /\ PauseSoFar' = away + 1 /\ used' = used /\ away \in Nat
      BY <1>1, <2>4 DEF PauseSoFar, IInv, Typed
    <3> QED
      BY <1>2, <2>1, <2>2, <3>1, Constants DEF TurnClock, IInv, Typed
  <2> QED
    BY <2>3, <2>4
<1>10. TicksExplained'
  <2>1. ~At("asleep") => Useful' = Useful
    <3>1. ASSUME ~At("asleep") PROVE (DueTrade' <=> DueTrade) /\ (Expired' <=> Expired)
      <4>1. TickNow' = TickNow - 1 /\ TickNow \in Int
        BY <1>3, <3>1 DEF TickNow, IInv, Typed
      <4> QED
        BY <1>1, <1>2, <4>1, Constants DEF DueTrade, Expired, Over
    <3> QED
      BY <1>1, <1>3, <3>1, SameCommands DEF Useful, At
  <2>2. (At("expire")' <=> At("expire")) /\ (At("bots")' <=> At("bots"))
    BY <1>3 DEF At
  <2>3. At("expire") \/ At("bots") => ~At("asleep")
    BY DEF At
  <2> QED
    BY <1>1, <2>1, <2>2, <2>3, SameGame DEF IInv, TicksExplained, Alone
<1> QED
  BY <1>1, <1>6, <1>7, <1>8, <1>9, <1>10 DEF IInv, StallTrue

-----------------------------------------------------------------------------
(* The invariant.                                                          *)

LEMMA InitIInv == Init => IInv
<1> SUFFICES ASSUME Init PROVE IInv
  OBVIOUS
<1>1. PICK p \in Players : game = Turn(p)
  BY DEF Init
<1>2. GameShape(game) /\ ~Staged(game) /\ ~Over(game)
  BY <1>1, TurnShape
<1>3. <<>> \in Seq(Nat)
  BY EmptySeq
<1>4. /\ timer = RollTime /\ deadline = None /\ paused = "no" /\ away = 0 /\ here = TRUE
      /\ repeats = 0 /\ sent = <<>> /\ gaveUp = "no" /\ used = 0 /\ left = MaxTroubles
      /\ due = AutomationDueAt(game, timer, deadline, "no", sent, 0)
  BY DEF Init
<1>5. sched.step = "asleep" /\ sched.lag = 0 /\ DOMAIN sched = {"step", "lag", "wake", "failed", "streak"}
  BY DEF Init, Asleep
<1>6. timer \in Int /\ timer \in Moments /\ deadline \in Moments /\ sent \in Seq(Nat)
  BY <1>3, <1>4, Constants DEF Moments
<1>7. Entry(game, timer, deadline, due)
  BY <1>2, <1>4, <1>6, DueIsEntry
<1>8. Typed
  BY <1>2, <1>4, <1>5, <1>6, <1>7, Constants DEF Typed, At, Steps, Moments, Entry
<1>9. ClocksTrue /\ EntryTrue
  BY <1>2, <1>4, <1>6, <1>7, Constants DEF ClocksTrue, EntryTrue
<1>10. TurnClock
  <2>1. Duration(game) = RollTime
    BY <1>1 DEF Turn, Duration
  <2> QED
    BY <1>4, <2>1, Constants DEF TurnClock, PauseSoFar
<1>11. TicksExplained /\ StallTrue
  BY <1>4, <1>5, Constants DEF TicksExplained, StallTrue, Alone, At
<1> QED
  BY <1>8, <1>9, <1>10, <1>11 DEF IInv

LEMMA NextIInv == IInv /\ [Next]_vars => IInv'
<1> SUFFICES ASSUME IInv, [Next]_vars PROVE IInv'
  OBVIOUS
<1>1. CASE People
  BY <1>1, HumanStep, LeaveStep, ReturnStep DEF People
<1>2. CASE Scheduler
  BY <1>2, ClaimStep, NothingDueStep, ExpireStep, NotExpiredStep, GiveUpStep, PauseFailsStep, BotsActStep,
     BotsWaitStep, NoBotsStep, RefreshStep DEF Scheduler
<1>3. CASE CleanupPauses \/ Restart \/ Pass
  BY <1>3, CleanupStep, RestartStep, PassStep
<1>4. CASE UNCHANGED vars
  <2>1. EntryTrue' /\ TicksExplained' /\ StallTrue'
    <3>1. StallTrue'
      BY <1>4 DEF vars, IInv, StallTrue
    <3>2. (\A x : At(x)' = At(x)) /\ Asking' = Asking
      BY <1>4 DEF vars, At, Asking
    <3>3. EntryTrue'
      BY <1>4, <3>2 DEF vars, IInv, EntryTrue
    <3>4. Alone' = Alone /\ Useful' = Useful
      BY <1>4, <3>2 DEF vars, Alone, Useful, BotCommands, BotsToAnswer, ReadyBotOffer, FullyAnswered, Staged,
                        Expired, DueTrade, TickNow, At
    <3>5. TicksExplained'
      BY <1>4, <3>2, <3>4 DEF vars, IInv, TicksExplained
    <3> QED
      BY <3>1, <3>3, <3>5
  <2>2. Typed'
    BY <1>4 DEF vars, IInv, Typed, GameShape, OfferShape, Staged, At
  <2> QED
    BY <1>4, <2>1, <2>2, SameGame DEF vars, IInv
<1> QED
  BY <1>1, <1>2, <1>3, <1>4 DEF Next

LEMMA AlwaysIInv == Spec => []IInv
BY InitIInv, NextIInv, PTL DEF Spec

-----------------------------------------------------------------------------
\* Whatever people, the store and time do: while the scheduler sleeps, a room in
\* play has an entry in the index, early enough.
THEOREM NoWakeupIsLost == Spec => []NoLostWakeup
<1>1. IInv => NoLostWakeup
  BY Constants DEF IInv, ClocksTrue, EntryTrue, Entry, NoLostWakeup
<1> QED
  BY <1>1, AlwaysIInv, PTL

\* However late the scheduler, and across pauses, failures and restarts: the
\* clock ends no turn before its time, less what a tick may be late.
THEOREM TurnsAreFull == Spec => FullTurn
<1> DEFINE Full == At("expire") /\ sched'.step = "bots" /\ game' # game => used + MaxLag >= Duration(game)
<1>1. IInv /\ [Next]_vars => [Full]_vars
  <2> SUFFICES ASSUME IInv, Next, At("expire"), sched'.step = "bots", game' # game
               PROVE  used + MaxLag >= Duration(game)
    OBVIOUS
  <2>1. sched' # sched
    BY DEF At
  <2>2. ExpireTurn
    BY <2>1 DEF Next, People, Scheduler, HumanPlays, HumanAnswers, HumanResolves, Leave, Return, ClaimDue,
         NothingDue, NotExpired, BotsStall, PauseFails, BotsAct, BudgetSpent, BotsWait, NoBots, Refresh,
         CleanupPauses, Restart, Pass, At
  <2>3. timer \in Int /\ timer <= 0 /\ paused = "no" /\ used \in Nat
    BY <2>2, TickNowBound DEF ExpireTurn, Expired, IInv, Typed, Moments
  <2> QED
    BY <2>3, Constants DEF IInv, TurnClock, PauseSoFar
<1> QED
  BY <1>1, AlwaysIInv, PTL DEF Spec, FullTurn

\* As long as the troubles are fewer than the ticks the stall guard lets go by,
\* it takes nothing for a stall but a bot's offer that waits for a human.
THEOREM StallsAreOpenOffers ==
  ASSUME MaxTroubles + 1 < StallTickLimit
  PROVE  Spec => []StallsOnlyOnOffers
<1>1. Init => StallsOnlyOnOffers
  BY DEF Init, StallsOnlyOnOffers
<1>2. IInv /\ StallsOnlyOnOffers /\ [Next]_vars => StallsOnlyOnOffers'
  <2> SUFFICES ASSUME IInv, StallsOnlyOnOffers, [Next]_vars, gaveUp' = "stalled"
               PROVE  Asking'
    BY DEF StallsOnlyOnOffers
  <2>1. CASE BotsStall
    <3>1. UNCHANGED game /\ At("bots") /\ paused = "no" /\ ~Over(game) /\ ~(repeats < StallTickLimit)
      BY <2>1 DEF BotsStall, GiveUp, RunnableBots, Progressing
    <3>2. Asking
      BY <3>1, Constants DEF IInv, Typed, TicksExplained, Alone
    <3> QED
      BY <3>1, <3>2, SameGame
  <2>2. CASE ~BotsStall
    <3>1. gaveUp' = gaveUp \/ gaveUp' = "budget"
      BY <2>2 DEF Next, People, Scheduler, HumanPlays, HumanAnswers, HumanResolves, Leave, Return, ClaimDue,
           NothingDue, ExpireTurn, NotExpired, PauseFails, BotsAct, BudgetSpent, BotsWait, NoBots, Refresh,
           CleanupPauses, Restart, Pass, Commit, CommitFails, GiveUp, vars
    <3>2. paused = "STALLED_AUTOMATION"
      BY <3>1 DEF IInv, StallTrue
    <3>3. UNCHANGED game
      BY <3>2 DEF Next, People, Scheduler, HumanPlays, HumanAnswers, HumanResolves, Playing, Leave, Return,
           ClaimDue, NothingDue, ExpireTurn, Expired, NotExpired, PauseFails, BotsStall, BotsAct, BudgetSpent,
           BotsWait, NoBots, RunnableBots, Refresh, CleanupPauses, Restart, Pass, vars
    <3> QED
      BY <3>1, <3>3, SameGame DEF StallsOnlyOnOffers
  <2> QED
    BY <2>1, <2>2
<1> QED
  BY <1>1, <1>2, AlwaysIInv, PTL DEF Spec
=============================================================================
