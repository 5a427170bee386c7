------------------------------ MODULE AppShell ------------------------------
(***************************************************************************)
(* The browser's page around a match (App.tsx): which screen is shown,     *)
(* whose seat it holds, what its session controller serves and what it     *)
(* would resume after a reload.  Calls to the server answer when they      *)
(* like, or fail; the player goes on meanwhile, and a generation number    *)
(* tells an answer that came too late.                                     *)
(*                                                                         *)
(* What the controller does about connections is in CommandPipeline; here  *)
(* it serves a seat or is stopped, and its messages come at any moment.    *)
(***************************************************************************)
EXTENDS Naturals, FiniteSets

CONSTANTS
  Rooms,       \* the rooms on the server
  Nothing,
  MaxAsked,    \* bound: resets of the session since the page was opened
  MaxReloads   \* bound: times the page is opened

Screens == {"setup", "localGame", "onlineLobby", "onlineGame"}

ASSUME ShellAssumption ==
  /\ {MaxAsked, MaxReloads} \subseteq Nat
  /\ Nothing \notin Screens \cup Rooms
  /\ Nothing \notin [session : Nat, room : Rooms] /\ Nothing \notin [seat : [session : Nat, room : Rooms], gen : Nat]

VARIABLES
  screen,      \* appScreen; Nothing while the page is closed
  generation,  \* networkGenerationRef
  seat,        \* networkSession and networkRoom(Id, Info)
  controller,  \* what the session controller was started for; Nothing when stopped
  live,        \* whose match liveState holds: "local", a room's or Nothing
  finished,    \* that match is over
  events,      \* whose events are held
  replay,      \* whose log the replay controller holds
  hydrated,    \* hydratedFinishedReplayRef
  calls,       \* calls to the server without an answer yet
  resume,      \* localStorage: the seat to resume
  asked,       \* what the player asked for last (history)
  issued,      \* sessions issued so far
  reloads

netVars == <<generation, seat, controller, resume>>
matchVars == <<live, finished, events, replay, hydrated>>
shellVars == <<screen, netVars, matchVars, calls, asked, issued, reloads>>

Seat(session, room) == [session |-> session, room |-> room]
Call(step, gen, session, room) == [step |-> step, gen |-> gen, session |-> session, room |-> room]
\* Mutant: answers are taken whenever they come.
AnyGeneration(gen) == TRUE
IsNetworkGeneration(gen) == generation = gen

-----------------------------------------------------------------------------
ResetNetworkSession ==
  /\ generation < MaxAsked /\ generation' = generation + 1
  /\ controller' = Nothing /\ seat' = Nothing /\ resume' = Nothing

ResetPlayUi == replay' = Nothing /\ events' = Nothing /\ hydrated' = Nothing

\* controller.start: the callbacks know the generation of their start.
Serve(room, session, gen) == controller' = [seat |-> Seat(session, room), gen |-> gen]

-----------------------------------------------------------------------------
(* The player.                                                             *)
ReturnToSetup ==
  /\ screen \notin {Nothing, "setup"}
  /\ ResetNetworkSession /\ ResetPlayUi
  /\ screen' = "setup" /\ asked' = "setup"
  /\ UNCHANGED <<live, finished, calls, issued, reloads>>

StartBotMatch ==
  /\ screen = "setup"
  /\ ResetNetworkSession /\ ResetPlayUi
  /\ live' = "local" /\ finished' = FALSE
  /\ screen' = "localGame" /\ asked' = "local"
  /\ UNCHANGED <<calls, issued, reloads>>

BotMatchEnds ==
  /\ screen = "localGame" /\ ~finished /\ finished' = TRUE
  /\ UNCHANGED <<screen, netVars, live, events, replay, hydrated, calls, asked, issued, reloads>>

\* Both leave the screen as it is until they are done.
Online(step, room, wish) ==
  /\ screen = "setup"
  /\ ResetNetworkSession /\ ResetPlayUi
  /\ calls' = calls \cup {Call(step, generation', Nothing, room)} /\ asked' = wish
  /\ UNCHANGED <<screen, live, finished, issued, reloads>>
StartOnlineRoom == Online("createSession", Nothing, "new room")
JoinOnlineRoom == \E r \in Rooms : Online("getRoom", r, r)

\* A local log is at hand; that of a room is loaded.
StartReplay ==
  /\ screen \in {"localGame", "onlineGame"} /\ finished /\ replay = Nothing
  /\ IF seat = Nothing
     THEN replay' = live /\ UNCHANGED calls
     ELSE calls' = calls \cup {Call("startReplay", generation, seat.session, seat.room)} /\ UNCHANGED replay
  /\ UNCHANGED <<screen, netVars, live, finished, events, hydrated, asked, issued, reloads>>

ExitReplay ==
  /\ screen # Nothing /\ replay # Nothing /\ replay' = Nothing
  /\ UNCHANGED <<screen, netVars, live, finished, events, hydrated, calls, asked, issued, reloads>>

-----------------------------------------------------------------------------
(* Answers.  Each step ends a call or goes on to the next one.             *)
Done(c) == calls' = calls \ {c}
GoesOn(c, d) == calls' = (calls \ {c}) \cup {d}

\* An answer nobody waits for any more.
TooLate(c) ==
  /\ c.step # "startReplay" /\ ~IsNetworkGeneration(c.gen) /\ Done(c)
  /\ issued' = IF c.step \in {"createSession", "joinSession"} THEN issued + 1 ELSE issued
  /\ UNCHANGED <<screen, netVars, matchVars>>

\* The seat is shown, kept for a reload and given to the controller.
Enter(c, session, room) ==
  /\ seat' = Seat(session, room) /\ resume' = Seat(session, room)
  /\ \E s \in {"onlineLobby", "onlineGame"} : screen' = s
  /\ Serve(room, session, c.gen) /\ Done(c)
  /\ UNCHANGED <<generation, matchVars>>

\* getRoom knows the room, or the page goes back to the setup.
GetRoomAnswers(c) ==
  /\ c.step = "getRoom" /\ IsNetworkGeneration(c.gen)
  /\ \/ GoesOn(c, [c EXCEPT !.step = "joinSession"]) /\ UNCHANGED <<screen, netVars>>
     \/ ResetNetworkSession /\ screen' = "setup" /\ Done(c)
  /\ UNCHANGED <<matchVars, issued>>

SessionAnswers(c) ==
  /\ IsNetworkGeneration(c.gen) /\ issued' = issued + 1
  /\ \/ c.step = "joinSession" /\ Enter(c, issued', c.room)
     \/ /\ c.step = "createSession"
        /\ GoesOn(c, [c EXCEPT !.step = "createRoom", !.session = issued'])
        /\ UNCHANGED <<screen, netVars, matchVars>>

CreateRoomAnswers(c) ==
  /\ c.step = "createRoom" /\ IsNetworkGeneration(c.gen)
  /\ \E r \in Rooms : Enter(c, c.session, r)
  /\ UNCHANGED issued

\* startReplay opens the log whatever the page shows by now.
ReplayAnswers(c) ==
  /\ c.step = "startReplay" /\ replay' = c.room /\ Done(c)
  /\ UNCHANGED <<screen, netVars, live, finished, events, hydrated, issued>>

HydrateAnswers(c) ==
  /\ c.step = "hydrate" /\ IsNetworkGeneration(c.gen) /\ Done(c)
  /\ events' = c.room /\ replay' = (IF replay = Nothing THEN Nothing ELSE c.room)
  /\ UNCHANGED <<screen, netVars, live, finished, hydrated, issued>>

\* A failure leaves the screen as it is; finished replays may be asked for again.
Fails(c) ==
  /\ Done(c)
  /\ hydrated' = IF c.step = "hydrate" /\ hydrated = c.room THEN Nothing ELSE hydrated
  /\ UNCHANGED <<screen, netVars, live, finished, events, replay, issued>>

ServerAnswers ==
  /\ \E c \in calls : \/ TooLate(c) \/ GetRoomAnswers(c) \/ SessionAnswers(c) \/ CreateRoomAnswers(c)
                       \/ ReplayAnswers(c) \/ HydrateAnswers(c) \/ Fails(c)
  /\ UNCHANGED <<asked, reloads>>

-----------------------------------------------------------------------------
(* The controller's callbacks; a stopped controller makes none.            *)
Called == controller # Nothing /\ IsNetworkGeneration(controller.gen)

HydrateFinishedReplayEvents(room) ==
  IF hydrated = room THEN UNCHANGED <<hydrated, calls>>
  ELSE hydrated' = room /\ calls' = calls \cup {Call("hydrate", controller.gen, controller.seat.session, room)}

\* What has ended has ended, and a game does not become a lobby again.
OnGame(room, over) ==
  /\ live = room /\ finished => over
  /\ live' = room /\ finished' = over /\ events' = room /\ screen' = "onlineGame"
  /\ IF over THEN HydrateFinishedReplayEvents(room) ELSE UNCHANGED <<hydrated, calls>>

OnRoom ==
  /\ Called
  /\ LET room == controller.seat.room
     IN  \/ \E over \in BOOLEAN : OnGame(room, over)
         \/ /\ screen = "onlineLobby" /\ events' = Nothing
            /\ UNCHANGED <<screen, live, finished, hydrated, calls>>
  /\ seat' = [seat EXCEPT !.room = controller.seat.room]
  /\ resume' = controller.seat
  /\ UNCHANGED <<generation, controller, replay, asked, issued, reloads>>

OnEvents ==
  /\ Called /\ \E over \in BOOLEAN : OnGame(controller.seat.room, over)
  /\ UNCHANGED <<netVars, replay, asked, issued, reloads>>

\* An error after which the seat is lost.
OnTerminalError ==
  /\ Called /\ ResetNetworkSession /\ screen' = "setup"
  /\ UNCHANGED <<matchVars, calls, asked, issued, reloads>>

-----------------------------------------------------------------------------
(* The page is closed and opened; only what is stored stays.               *)
ShellInit ==
  /\ screen = Nothing /\ generation = 0 /\ seat = Nothing /\ controller = Nothing
  /\ live = Nothing /\ finished = FALSE /\ events = Nothing /\ replay = Nothing /\ hydrated = Nothing
  /\ calls = {} /\ asked = "setup" /\ resume = Nothing /\ issued = 0 /\ reloads = 0

\* Suspended, the controller writes its seat once more.
ClosePage ==
  /\ screen # Nothing /\ screen' = Nothing /\ generation' = 0 /\ seat' = Nothing /\ controller' = Nothing
  /\ ResetPlayUi /\ live' = Nothing /\ finished' = FALSE /\ calls' = {} /\ asked' = "setup"
  /\ resume' = IF controller = Nothing THEN resume ELSE controller.seat
  /\ UNCHANGED <<issued, reloads>>

\* The page resumes the seat it finds, unless the link names another room.
ResumeSeat(link) ==
  /\ resume # Nothing /\ link \in {Nothing, resume.room}
  /\ screen' = "onlineLobby" /\ seat' = resume /\ asked' = resume.room
  /\ Serve(resume.room, resume.session, generation)
  /\ UNCHANGED <<generation, resume, matchVars, calls>>

FollowLink(link) ==
  /\ link # Nothing /\ (resume # Nothing => link # resume.room)
  /\ screen' = "setup" /\ asked' = link
  /\ ResetNetworkSession /\ ResetPlayUi
  /\ calls' = {Call("getRoom", generation', Nothing, link)}
  /\ UNCHANGED <<live, finished>>

OpenSetup(link) ==
  /\ link = Nothing /\ resume = Nothing
  /\ screen' = "setup" /\ UNCHANGED <<netVars, matchVars, calls, asked>>

OpenPage ==
  /\ screen = Nothing /\ reloads < MaxReloads /\ reloads' = reloads + 1
  /\ \E link \in Rooms \cup {Nothing} : ResumeSeat(link) \/ FollowLink(link) \/ OpenSetup(link)
  /\ UNCHANGED issued

ShellNext ==
  \/ ReturnToSetup \/ StartBotMatch \/ BotMatchEnds \/ StartOnlineRoom \/ JoinOnlineRoom
  \/ StartReplay \/ ExitReplay \/ ServerAnswers
  \/ OnRoom \/ OnEvents \/ OnTerminalError \/ ClosePage \/ OpenPage

ShellSpec == ShellInit /\ [][ShellNext]_shellVars

-----------------------------------------------------------------------------
\* Screen, seat, controller and what a reload would resume belong together.
SeatAgrees ==
  IF screen \in {"onlineLobby", "onlineGame"}
  THEN seat # Nothing /\ resume = seat /\ controller = [seat |-> seat, gen |-> generation]
  ELSE seat = Nothing /\ controller = Nothing /\ (screen # Nothing => resume = Nothing)

\* The page shows what the player asked for last, or the setup.
WishAgrees ==
  /\ screen \in {"onlineLobby", "onlineGame"} => asked \in {seat.room, "new room"}
  /\ screen = "localGame" => asked = "local"

\* The events are those of the match on the board.
EventsAgree == events # Nothing => events = live

\* Whatever answers came late, the page is of one mind (App.tsx): one seat,
\* the one asked for last, on the screen, in the controller and for a reload.
ShellCoherent == SeatAgrees /\ WishAgrees /\ EventsAgree

\* The replay is that of the match on the screen.
ReplayOfMatch == screen \in {"localGame", "onlineGame"} /\ replay # Nothing => replay = live
=============================================================================
