--------------------------- MODULE RoomAutomation ---------------------------
(***************************************************************************)
(* The room that plays by itself: the turn clock, the deadlines of staged  *)
(* offers, the bots, the stall guard and the automation budget, pausing    *)
(* and resuming, and the scheduler that finds out which room is due        *)
(* (packages/server/src/scheduler.ts, bot-automation.ts, room-lifecycle.ts *)
(* and the automation of room-manager.ts).                                 *)
(*                                                                         *)
(* Every moment is kept as the time left until it (negative: past), so     *)
(* that time goes on for ever in a finite model; Pass lets it pass.  A     *)
(* task of the room's queue is one action, since no other task of the room *)
(* runs meanwhile (RoomQueue); the scheduler's steps between such tasks    *)
(* interleave with everything else, and lag is how old the `now` of its    *)
(* tick has become.                                                        *)
(*                                                                         *)
(* The game is that of TurnGame, cut down to what the clock and the bots   *)
(* look at.                                                                *)
(***************************************************************************)
EXTENDS TurnGame, Integers, FiniteSetsExt

CONSTANTS
  RollTime,        \* rollTurnDurationMs
  ActionTime,      \* actionTurnDurationMs
  Window,          \* tradeResponseWindowMs
  BotDelay,        \* the 450 ms between commands of bots
  Fallback,        \* automationIntervalMs, or 1000 ms
  RetryCap,        \* the 30 s a failing scheduler waits at most
  StallTickLimit, MaxPerMinute, Minute,
  MaxLag,          \* bound: how long a tick takes at most
  MaxAway,         \* bound: how long a paused room is watched
  MaxTroubles      \* bound on absences, failed writes and restarts together

ASSUME TimesAssumption ==
  /\ {RollTime, ActionTime, Window, BotDelay, Fallback, RetryCap, Minute} \subseteq Nat \ {0}
  /\ {StallTickLimit, MaxPerMinute, MaxLag, MaxAway, MaxTroubles} \subseteq Nat
  /\ None \notin Int

VARIABLES
  game,      \* the GameState
  timer,     \* room.timer.expiresAt
  deadline,  \* room.tradeResponseDeadlines of the staged offer
  paused,    \* room.pauseReason while pausedAt is set
  away,      \* time since pausedAt
  here,      \* some seated human is connected
  repeats,   \* automationProgress: ticks seen since the last commit
  sent,      \* automationCommandTimes, as ages
  due,       \* automationDueWork: the room's entry
  sched,     \* the scheduler: step of its tick, lag, sleep left, failures
  gaveUp,    \* what recordAutomationPause was told
  used,      \* unpaused time of the player on the clock, up to a whole turn (history)
  left       \* troubles left

vars == <<game, timer, deadline, paused, away, here, repeats, sent, due, sched, gaveUp, used, left>>

-----------------------------------------------------------------------------
(* What the room has to do by itself.                                      *)
Duration(g) == IF g.type = "WAITING_FOR_ROLL" THEN RollTime ELSE ActionTime
TimerKey(g) == <<g.type, g.active>>
\* Mutant: the clock starts again with every command.
TimerRestarted(g, old, base) == IF Over(g) THEN None ELSE base + Duration(g)
RefreshTimer(g, old, base) ==
  IF Over(g) THEN None
  ELSE IF timer # None /\ TimerKey(g) = TimerKey(old) THEN timer
  ELSE base + Duration(g)

\* Mutant: an offer closed by the clock keeps its deadline.
DeadlineKept(g, old, base) ==
  IF Staged(g) /\ ~Staged(old) THEN base + Window
  ELSE IF Staged(old) /\ ~Staged(g) /\ g.type # "WAITING_FOR_ROLL" THEN None
  ELSE deadline
TradeResponseDeadline(g, old, base) ==
  IF Staged(g) /\ ~Staged(old) THEN base + Window ELSE IF Staged(g) THEN deadline ELSE None

\* automationDueAt, for a `now` of `base`
AutomationDueAt(g, t, d, reason, times, base) ==
  IF Over(g) \/ reason # "no" THEN None
  ELSE IF d # None /\ d <= base THEN d
  ELSE IF BotsToAnswer(g) # {} \/ ReadyBotOffer(g) THEN base
  ELSE IF t # None /\ t <= base THEN t
  ELSE IF g.active \in Bots THEN IF times = <<>> THEN base ELSE BotDelay - Last(times)
  ELSE t

-----------------------------------------------------------------------------
Asleep(n, failures) == [step |-> "asleep", lag |-> 0, wake |-> n, failed |-> FALSE, streak |-> failures]

Init ==
  /\ game \in {Turn(p) : p \in Players}
  /\ timer = RollTime /\ deadline = None
  /\ paused = "no" /\ away = 0 /\ here = TRUE
  /\ repeats = 0 /\ sent = <<>>
  /\ due = AutomationDueAt(game, RollTime, None, "no", <<>>, 0)
  /\ sched = Asleep(0, 0)
  /\ gaveUp = "no" /\ used = 0
  /\ left = MaxTroubles

Trouble == left > 0 /\ left' = left - 1

\* commitAcceptedEvents, given the commands of bots sent by now
Commit(g, base, times) ==
  LET t == RefreshTimer(g, game, base)
      d == TradeResponseDeadline(g, game, base)
  IN  /\ game' = g /\ timer' = t /\ deadline' = d
      /\ due' = AutomationDueAt(g, t, d, paused, times, base)
      /\ repeats' = 0
      /\ used' = IF TimerKey(g) = TimerKey(game) THEN used ELSE 0
      /\ UNCHANGED <<paused, away, here, gaveUp>>

\* The store refuses: the room stays as it was.
CommitFails ==
  /\ Trouble
  /\ UNCHANGED <<game, timer, deadline, due, repeats, used, paused, away, here, gaveUp>>

-----------------------------------------------------------------------------
(* People.  Their commands are refused while the room is paused.           *)
Playing == here /\ paused = "no" /\ ~Over(game)

HumanPlays ==
  /\ Playing /\ ~Staged(game)
  /\ \E p \in Humans : \E g \in MovesOf(game, p) : Commit(g, 0, sent)
  /\ UNCHANGED <<sent, sched, left>>

HumanAnswers ==
  /\ Playing /\ Staged(game)
  /\ \E p \in Humans \cap game.trade.to, yes \in BOOLEAN : Commit(Answered(game, p, yes), 0, sent)
  /\ UNCHANGED <<sent, sched, left>>

HumanResolves ==
  /\ Playing /\ Staged(game) /\ game.trade.from \in Humans
  /\ Commit(Resolved(game), 0, sent)
  /\ UNCHANGED <<sent, sched, left>>

Pause(reason) ==
  /\ paused' = reason /\ away' = 0
  /\ due' = AutomationDueAt(game, timer, deadline, reason, sent, 0)

\* syncConnections when the last human goes
Leave ==
  /\ here /\ Trouble
  /\ here' = FALSE
  /\ IF Over(game) \/ paused # "no" THEN UNCHANGED <<paused, away, due>> ELSE Pause("EMPTY_ROOM")
  /\ UNCHANGED <<game, timer, deadline, repeats, sent, sched, gaveUp, used>>

\* Mutant: the clock ran while the room was paused.
Unshifted(moment) == moment
Shifted(moment) == IF moment = None THEN None ELSE moment + away

\* syncConnections with resumeRoomIfNeeded when one comes back: not out of a
\* stall.
Return ==
  /\ ~here
  /\ here' = TRUE
  /\ IF paused = "EMPTY_ROOM"
     THEN /\ paused' = "no" /\ away' = 0
          /\ timer' = Shifted(timer) /\ deadline' = Shifted(deadline)
          /\ due' = AutomationDueAt(game, timer', deadline', "no", sent, 0)
     ELSE /\ UNCHANGED <<paused, away, timer, deadline>>
          /\ due' = AutomationDueAt(game, timer, deadline, paused, sent, 0)
  /\ UNCHANGED <<game, repeats, sent, sched, gaveUp, used, left>>

\* The scheduler's cleanup pauses the game nobody has come back to.
CleanupPauses ==
  /\ ~here /\ paused = "no" /\ ~Over(game)
  /\ Pause("EMPTY_ROOM")
  /\ UNCHANGED <<game, timer, deadline, here, repeats, sent, sched, gaveUp, used, left>>

\* The process dies and hydrateFromStore restores the room with its clock, its
\* deadlines and its pause; nobody is connected and the automation starts anew.
Restart ==
  /\ Trouble
  /\ here' = FALSE /\ repeats' = 0 /\ sent' = <<>>
  /\ due' = AutomationDueAt(game, timer, deadline, paused, <<>>, 0)
  /\ sched' = Asleep(0, 0)
  /\ UNCHANGED <<game, timer, deadline, paused, away, gaveUp, used>>

-----------------------------------------------------------------------------
(* The scheduler.                                                          *)
At(step) == sched.step = step
Goes(step) == sched' = [sched EXCEPT !.step = step]
GoesOn(step) == sched' = [sched EXCEPT !.step = step, !.failed = TRUE]

\* How long the scheduler sleeps: until the next entry, at most Fallback, and
\* longer after failures in a row.
RetryDelay(streak) == Min({RetryCap, Fallback * 2 ^ Min({streak - 1, 5})})
Sleep(entry, failed, streak) ==
  IF failed THEN Asleep(RetryDelay(streak + 1), streak + 1)
  ELSE Asleep(IF entry = None THEN Fallback ELSE Max({0, Min({entry, Fallback})}), 0)

\* Mutant: claimDue without the comparison with `now`.
Waiting == due # None
DueNow == due # None /\ due <= 0

\* claimDue takes the room out of the index.
ClaimDue ==
  /\ At("asleep") /\ sched.wake <= 0 /\ DueNow
  /\ due' = None /\ Goes("expire")
  /\ UNCHANGED <<game, timer, deadline, paused, away, here, repeats, sent, gaveUp, used, left>>

NothingDue ==
  /\ At("asleep") /\ sched.wake <= 0 /\ ~DueNow
  /\ sched' = Sleep(due, FALSE, 0)
  /\ UNCHANGED <<game, timer, deadline, paused, away, here, repeats, sent, due, gaveUp, used, left>>

TickNow == 0 - sched.lag
Expired == timer # None /\ timer <= TickNow /\ paused = "no" /\ ~Over(game)

\* What the clock plays: it closes the staged offer and ends the turn at once.
ClockPlays ==
  IF game.type = "ACTION_PHASE" THEN {EndedTurn(game)} ELSE MovesOf(game, game.active)

ExpireTurn ==
  /\ At("expire") /\ Expired
  /\ \/ (\E g \in ClockPlays : Commit(g, TickNow, sent)) /\ UNCHANGED left /\ Goes("bots")
     \/ CommitFails /\ GoesOn("bots")
  /\ UNCHANGED sent

NotExpired ==
  /\ At("expire") /\ ~Expired /\ Goes("bots")
  /\ UNCHANGED <<game, timer, deadline, paused, away, here, repeats, sent, due, gaveUp, used, left>>

\* What the bots do next, in the order runDueBotAutomationNow looks for it.
DueTrade == deadline # None /\ deadline <= TickNow
BotCommands ==
  IF DueTrade THEN {Resolved(game)}
  ELSE IF BotsToAnswer(game) # {}
       THEN {Answered(game, p, TRUE) : p \in BotsToAnswer(game)}
              \cup {Answered(game, p, FALSE) : p \in BotsToAnswer(game)}
  ELSE IF ReadyBotOffer(game) THEN {Resolved(game)}
  ELSE IF game.active \in Bots /\ ~Staged(game) THEN MovesOf(game, game.active)
  ELSE {}

\* automationCommandAllowed drops the commands of more than a minute ago from the
\* front of the list.
Fresh == {i \in DOMAIN sent : sent[i] - sched.lag <= Minute}
Recent == IF Fresh = {} THEN <<>> ELSE SubSeq(sent, Min(Fresh), Len(sent))
Allowed == Len(Recent) < MaxPerMinute

GiveUp(why) ==
  /\ paused' = "STALLED_AUTOMATION" /\ away' = sched.lag /\ gaveUp' = why /\ due' = None
  /\ UNCHANGED <<game, timer, deadline, here, used>>

\* guardAutomationProgress lets the tick go on.
Progressing == repeats < StallTickLimit

RunnableBots == paused = "no" /\ ~Over(game)

BotsStall ==
  /\ At("bots") /\ RunnableBots /\ ~Progressing
  /\ GiveUp("stalled") /\ Goes("refresh")
  /\ repeats' = repeats + 1
  /\ UNCHANGED <<sent, left>>

\* The store fails to keep a pause: the tick ends in an exception.
PauseFails ==
  /\ At("bots") /\ RunnableBots
  /\ ~(Progressing /\ (BotCommands = {} \/ Allowed))
  /\ Trouble /\ GoesOn("refresh")
  /\ repeats' = repeats + 1
  /\ UNCHANGED <<game, timer, deadline, paused, away, here, sent, due, gaveUp, used>>

BotsAct ==
  /\ At("bots") /\ RunnableBots /\ Progressing /\ BotCommands # {} /\ Allowed
  /\ sent' = Append(Recent, sched.lag)
  /\ \/ (\E g \in BotCommands : Commit(g, 0, sent')) /\ UNCHANGED left /\ Goes("refresh")
     \/ /\ Trouble /\ GoesOn("refresh") /\ repeats' = repeats + 1
        /\ UNCHANGED <<game, timer, deadline, due, used, paused, away, here, gaveUp>>

BudgetSpent ==
  /\ At("bots") /\ RunnableBots /\ Progressing /\ BotCommands # {} /\ ~Allowed
  /\ GiveUp("budget") /\ Goes("refresh")
  /\ repeats' = repeats + 1 /\ sent' = Recent
  /\ UNCHANGED left

\* Somebody else has to act.
BotsWait ==
  /\ At("bots") /\ RunnableBots /\ Progressing /\ BotCommands = {}
  /\ repeats' = repeats + 1 /\ Goes("refresh")
  /\ UNCHANGED <<game, timer, deadline, paused, away, here, sent, due, gaveUp, used, left>>

NoBots ==
  /\ At("bots") /\ ~RunnableBots /\ Goes("refresh")
  /\ UNCHANGED <<game, timer, deadline, paused, away, here, repeats, sent, due, gaveUp, used, left>>

\* The `finally` of the tick puts the room back, whatever happened.
Refresh ==
  /\ At("refresh")
  /\ due' = AutomationDueAt(game, timer, deadline, paused, sent, 0)
  /\ sched' = Sleep(due', sched.failed, sched.streak)
  /\ UNCHANGED <<game, timer, deadline, paused, away, here, repeats, sent, gaveUp, used, left>>

-----------------------------------------------------------------------------
Sooner(moment) == IF moment = None THEN None ELSE moment - 1
Older(age) == Min({age + 1, Max({Minute, BotDelay}) + MaxLag + 1})

\* Time passes; the scheduler is late by MaxLag at most.
Pass ==
  /\ ~Over(game)
  /\ IF At("asleep") THEN sched.wake > 0 ELSE sched.lag < MaxLag
  /\ (paused # "no" => away < MaxAway)
  /\ timer' = Sooner(timer) /\ deadline' = Sooner(deadline) /\ due' = Sooner(due)
  /\ away' = IF paused = "no" THEN 0 ELSE away + 1
  /\ sent' = [i \in DOMAIN sent |-> Older(sent[i])]
  /\ sched' = IF At("asleep") THEN [sched EXCEPT !.wake = @ - 1] ELSE [sched EXCEPT !.lag = @ + 1]
  /\ used' = IF paused = "no" THEN Min({used + 1, Duration(game)}) ELSE used
  /\ UNCHANGED <<game, paused, here, repeats, gaveUp, left>>

People == HumanPlays \/ HumanAnswers \/ HumanResolves \/ Leave \/ Return
Scheduler == \/ ClaimDue \/ NothingDue \/ ExpireTurn \/ NotExpired \/ BotsStall \/ PauseFails
             \/ BotsAct \/ BudgetSpent \/ BotsWait \/ NoBots \/ Refresh
Next == People \/ Scheduler \/ CleanupPauses \/ Restart \/ Pass

\* Time goes on, however busy the server is, and the event loop gives the
\* scheduler its turn; people owe nothing.
Spec == Init /\ [][Next]_vars /\ SF_vars(Pass) /\ WF_vars(Scheduler)

-----------------------------------------------------------------------------
(* Properties.                                                             *)

Asking == Staged(game) /\ game.trade.from \in Bots /\ game.trade.pending \cap Humans # {}

\* No wake-up is lost (updateRoomDueWork, refreshRoomDueWork): while the
\* scheduler sleeps, a room in play has an entry, early enough for its clock
\* and for whatever a bot must do, and an offer has a deadline while it is open.
NoLostWakeup ==
  /\ (deadline # None) <=> Staged(game)
  /\ (timer = None) <=> Over(game)
  /\ At("asleep") /\ paused = "no" /\ ~Over(game) =>
        /\ due # None /\ due <= Max({timer, BotDelay})
        /\ BotsToAnswer(game) # {} \/ ReadyBotOffer(game) => due <= 0
        /\ game.active \in Bots => due <= BotDelay

\* A player on the clock has the whole turn, less what a tick was late, not
\* counting the time the room was paused (refreshTimer, resumeRoomIfNeeded).
FullTurn == [][At("expire") /\ sched'.step = "bots" /\ game' # game
                 => used + MaxLag >= Duration(game)]_vars

\* The stall guard takes nothing for a stall but a bot's offer that waits for a
\* human's answer (guardAutomationProgress).
StallsOnlyOnOffers == gaveUp = "stalled" => Asking

\* What docs/bot-trade-and-rules.md says of bot offerers: they wait for the
\* response window.  The room is not given up while a human may still answer.
BotsAwaitAnswers == ~(gaveUp = "stalled" /\ Asking /\ deadline > 0)

\* What docs/bot-trade-and-rules.md says of the response window: an offer that
\* is still open when it expires is closed (by the tick that follows).
OffersCloseInTime == paused = "no" /\ deadline # None => deadline + MaxLag + Fallback >= 0

\* Turn follows turn, whatever the player, the others and the store do, unless
\* the room is paused or the game over (the scheduler as a whole).
TurnsPass == \/ []<><<game'.owner # game.owner>>_vars
             \/ []<>(paused # "no")
             \/ <>Over(game)
=============================================================================
