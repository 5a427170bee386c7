------------------------------ MODULE MCParts ------------------------------
(* The parts of the system that share nothing with each other: the index   *)
(* of due work, the leases of a room, the log a replay accepts, the making *)
(* of a board, and in the browser a local match and the page around a      *)
(* match.  A behaviour exercises one of them and leaves the others alone.  *)
EXTENDS DueWorkIndex, RoomLeases, ReplayLog, LocalPlay, AppShell, Board

CONSTANTS k1, k2, k3, old, new, ann, ben, hal, bot1, bot2, r1, r2

VARIABLE part

MCKeys == <<k1, k2, k3>>
MCTimes == 0..2
MCServers == {old, new}
MCSeated == {ann, ben}
MCHumans == {hal}
MCBots == {bot1, bot2}
MCOrder == <<hal, bot1, bot2>>
MCRooms == {r1, r2}

vars == <<indexVars, leaseVars, logged, localVars, shellVars, boardVars, part>>

\* What a part starts from while it is not the one exercised.
NoLog == logged = [snapshot |-> 0, at |-> 0, events |-> <<>>]
NoMatch == current = Version(Turn(hal), 0, 0)

Init ==
  /\ IndexInit /\ LeaseInit /\ ShellInit /\ LocalInit /\ ReplayInit /\ BoardInit
  /\ part \in {"index", "leases", "replay", "local", "page", "board"}
  /\ part # "replay" => NoLog
  /\ part # "local" => NoMatch

Next == \/ /\ part = "index" /\ IndexNext
           /\ UNCHANGED <<leaseVars, logged, localVars, shellVars, boardVars, part>>
        \/ /\ part = "leases" /\ LeaseNext
           /\ UNCHANGED <<indexVars, logged, localVars, shellVars, boardVars, part>>
        \/ /\ part = "local" /\ LocalNext
           /\ UNCHANGED <<indexVars, leaseVars, logged, shellVars, boardVars, part>>
        \/ /\ part = "page" /\ ShellNext
           /\ UNCHANGED <<indexVars, leaseVars, logged, localVars, boardVars, part>>
        \/ /\ part = "board" /\ BoardNext
           /\ UNCHANGED <<indexVars, leaseVars, logged, localVars, shellVars, part>>

\* React renders, effects run and timers go off; the player owes nothing.
LocalFairness ==
  /\ WF_localVars(part = "local" /\ Render)
  /\ WF_localVars(part = "local" /\ Effects)
  /\ WF_localVars(part = "local" /\ Timers)

Spec == Init /\ [][Next]_vars /\ LocalFairness

\* Of a local match: no bot is stuck.
LocalBotsMoveOn == part = "local" => BotsMoveOn
=============================================================================
