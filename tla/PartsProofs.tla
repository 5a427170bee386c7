----------------------------- MODULE PartsProofs -----------------------------
(***************************************************************************)
(* Proofs about the parts that share nothing: the page around a match      *)
(* (AppShell), for any number of rooms, resets and reloads; a local match  *)
(* (LocalPlay), for any players and however far rendering falls behind;    *)
(* and the leases of a room (RoomLeases), for any number of servers,       *)
(* players, commits and crashes, and leases of any length.                 *)
(***************************************************************************)
EXTENDS LocalPlay, AppShell, RoomLeases, TurnGameProofs

-----------------------------------------------------------------------------
(* The page.                                                               *)
Seats == [session : Nat, room : Rooms]
EntrySteps == {"createSession", "createRoom", "getRoom", "joinSession"}
OnlineScreens == {"onlineLobby", "onlineGame"}

CallShape(c) == DOMAIN c = {"step", "gen", "session", "room"} /\ c.gen \in Nat

ShellTyped ==
  /\ screen \in Screens \cup {Nothing} /\ generation \in Nat /\ issued \in Nat
  /\ seat \in Seats \cup {Nothing} /\ resume \in Seats \cup {Nothing}
  /\ controller \in [seat : Seats, gen : Nat] \cup {Nothing}
  /\ \A c \in calls : CallShape(c)

\* A call that may still bring the page to a room: it is of the last reset.
Entering(c) == c.step \in EntrySteps /\ c.gen = generation

AskedFor(c) ==
  /\ c.step \in {"getRoom", "joinSession"} => c.room \in Rooms /\ asked = c.room
  /\ c.step \in {"createSession", "createRoom"} => asked = "new room"

\* There is one at most, for what the player asked for, and the page waits for
\* it at the setup.
EntriesTrue ==
  /\ \A c \in calls : c.gen <= generation
  /\ \A c \in calls : Entering(c) =>
       screen = "setup" /\ AskedFor(c) /\ (c.step = "createRoom" => c.session \in Nat)
  /\ \A c, d \in calls : Entering(c) /\ Entering(d) => c = d

\* A log that is loaded, for the last time, is that of the match on the board.
LogsTrue ==
  \A c \in calls : c.step = "hydrate" /\ c.gen = generation => live = c.room /\ seat # Nothing /\ seat.room = c.room

\* No call outlives its page.
ClosedTrue == screen = Nothing => calls = {} /\ generation = 0 /\ events = Nothing /\ live = Nothing

ShellInv == ShellTyped /\ ShellCoherent /\ EntriesTrue /\ LogsTrue /\ ClosedTrue

-----------------------------------------------------------------------------
LEMMA SeatsTrue ==
  /\ Nothing \notin Seats /\ Nothing \notin Screens /\ Nothing \notin Rooms
  /\ Nothing \notin [seat : Seats, gen : Nat]
  /\ \A s \in Seats : Seat(s.session, s.room) = s /\ [s EXCEPT !.room = s.room] = s
BY ShellAssumption DEF Seats, Seat

LEMMA CallsTrue ==
  ASSUME ShellInv
  PROVE  /\ generation \in Nat
         /\ \A c \in calls : /\ c.gen \in Nat /\ c.gen <= generation
                             /\ c.gen <= generation + 1 /\ c.gen # generation + 1
<1>1. generation \in Nat /\ \A c \in calls : c.gen \in Nat /\ c.gen <= generation
  BY DEF ShellInv, ShellTyped, CallShape, EntriesTrue
<1> QED
  BY <1>1

LEMMA InitShell == ShellInit => ShellInv
BY SeatsTrue DEF CallShape, ShellInit, ShellInv, ShellTyped, ShellCoherent, SeatAgrees, WishAgrees, EventsAgree, EntriesTrue,
   Entering, LogsTrue, ClosedTrue, Screens

\* After a reset nothing that was asked before brings the page anywhere.
LEMMA ResetStep ==
  ASSUME ShellInv, ResetNetworkSession, calls' \subseteq calls, UNCHANGED issued,
         \/ screen' = "setup"
         \/ screen' = "localGame" /\ asked' = "local",
         events' = Nothing \/ UNCHANGED <<events, live>>
  PROVE  ShellInv'
<1>1. generation' = generation + 1 /\ generation \in Nat /\ controller' = Nothing /\ seat' = Nothing /\ resume' = Nothing
  BY DEF ResetNetworkSession, ShellInv, ShellTyped
<1>2. \A c \in calls' : c.gen < generation'
  BY <1>1, CallsTrue
<1>3. ShellTyped'
  BY <1>1 DEF ShellInv, ShellTyped, Screens
<1>4. ShellCoherent'
  BY <1>1 DEF ShellInv, ShellCoherent, SeatAgrees, WishAgrees, EventsAgree
<1>5. \A c \in calls' : c.gen <= generation' /\ c.gen # generation'
  BY <1>1, <1>2, CallsTrue
<1>6. EntriesTrue' /\ LogsTrue'
  BY <1>5 DEF EntriesTrue, Entering, LogsTrue
<1>7. ClosedTrue'
  BY SeatsTrue DEF ClosedTrue, Screens
<1> QED
  BY <1>3, <1>4, <1>6, <1>7 DEF ShellInv

\* A reset with a first call to the server.
LEMMA AskStep ==
  ASSUME ShellInv, ResetNetworkSession, NEW c, CallShape(c), c.gen \in {generation + 1}, calls' \subseteq calls \cup {c},
         AskedFor(c)', c.step \in {"createSession", "getRoom"}, screen' = "setup", UNCHANGED issued, events' = Nothing
  PROVE  ShellInv'
<1>1. generation' = generation + 1 /\ generation \in Nat /\ controller' = Nothing /\ seat' = Nothing /\ resume' = Nothing
  BY DEF ResetNetworkSession, ShellInv, ShellTyped
<1>2. \A d \in calls : d.gen <= generation' /\ d.gen # generation'
  BY <1>1, CallsTrue
<1>3. c.gen = generation' /\ c.step \in {"createSession", "getRoom"}
  BY <1>1
<1>4. ShellTyped'
  <2>1. \A d \in calls' : CallShape(d)
    BY DEF ShellInv, ShellTyped
  <2>2. generation' \in Nat
    BY <1>1
  <2> QED
    BY <1>1, <2>1, <2>2, Zenon DEF ShellInv, ShellTyped, Screens, CallShape
<1>5. ShellCoherent'
  BY <1>1 DEF ShellInv, ShellCoherent, SeatAgrees, WishAgrees, EventsAgree
<1>6. \A d \in calls' : d.gen = generation' => d = c
  BY <1>2
<1>7. EntriesTrue'
  <2>1. \A d \in calls' : d.gen <= generation'
    BY <1>1, <1>2, <1>3
  <2> QED
    BY <1>3, <1>6, <2>1 DEF EntriesTrue, Entering
<1>8. LogsTrue'
  BY <1>3, <1>6 DEF LogsTrue
<1>9. ClosedTrue'
  BY SeatsTrue DEF ClosedTrue, Screens
<1> QED
  BY <1>4, <1>5, <1>7, <1>8, <1>9 DEF ShellInv

\* The page comes to a room.
LEMMA EnterStep ==
  ASSUME ShellInv, NEW c \in calls, NEW session \in Nat, NEW room \in Rooms, Entering(c),
         asked \in {room, "new room"}, Enter(c, session, room), issued' \in Nat, UNCHANGED asked
  PROVE  ShellInv'
<1> DEFINE s == Seat(session, room)
<1>1. /\ seat' = s /\ resume' = s /\ screen' \in OnlineScreens /\ controller' = [seat |-> s, gen |-> c.gen]
      /\ calls' = calls \ {c} /\ UNCHANGED <<generation, live, events>>
  BY DEF Enter, Serve, Done, OnlineScreens, matchVars
<1>2. s \in Seats /\ s.room = room /\ c.gen = generation /\ generation \in Nat
  BY DEF Seat, Seats, Entering, ShellInv, ShellTyped
<1>3. ShellTyped'
  BY <1>1, <1>2 DEF ShellInv, ShellTyped, Screens, OnlineScreens
<1>4. ShellCoherent'
  BY <1>1, <1>2, SeatsTrue DEF ShellInv, ShellCoherent, SeatAgrees, WishAgrees, EventsAgree, OnlineScreens
<1>5. EntriesTrue'
  <2>1. \A d \in calls' : ~Entering(d)'
    BY <1>1 DEF ShellInv, EntriesTrue, Entering
  <2> QED
    BY <1>1, <2>1 DEF ShellInv, EntriesTrue
<1>6. LogsTrue'
  <2>1. seat = Nothing
    BY DEF ShellInv, EntriesTrue, ShellCoherent, SeatAgrees
  <2> QED
    BY <1>1, <2>1 DEF ShellInv, LogsTrue
<1>7. ClosedTrue'
  BY <1>1, SeatsTrue DEF ClosedTrue, OnlineScreens, Screens
<1> QED
  BY <1>3, <1>4, <1>5, <1>6, <1>7 DEF ShellInv

\* A call to load a log.
LoadCall(d) == CallShape(d) /\ d.step \notin EntrySteps /\ d.gen \in 0 .. generation

\* The seat stays; calls end, and others than of the entry begin.
LEMMA SameSeat ==
  ASSUME ShellInv, UNCHANGED <<screen, generation, seat, controller, resume, live, asked>>, issued' \in Nat,
         \A d \in calls' \ calls : LoadCall(d) /\ d.step # "hydrate",
         screen = Nothing => calls' \subseteq calls,
         events' \in {events, live, Nothing}
  PROVE  ShellInv'
<1>1. ShellTyped'
  BY DEF ShellInv, ShellTyped, LoadCall
<1>2. ShellCoherent'
  BY DEF ShellInv, ShellCoherent, SeatAgrees, WishAgrees, EventsAgree
<1>3. EntriesTrue'
  <2>1. \A d \in calls' : d \notin calls => ~Entering(d)'
    BY DEF LoadCall, Entering
  <2>2. \A d \in calls' : d.gen <= generation
    BY CallsTrue DEF LoadCall
  <2> QED
    BY <2>1, <2>2 DEF ShellInv, EntriesTrue, Entering, AskedFor
<1>4. LogsTrue'
  BY DEF ShellInv, LogsTrue
<1>5. ClosedTrue'
  BY DEF ShellInv, ClosedTrue
<1> QED
  BY <1>1, <1>2, <1>3, <1>4, <1>5 DEF ShellInv

\* A call of the entry goes on to the next one.
LEMMA GoesOnStep ==
  ASSUME ShellInv, NEW c \in calls, Entering(c), NEW d, CallShape(d), Entering(d), AskedFor(d),
         d.step = "createRoom" => d.session \in Nat, GoesOn(c, d), issued' \in Nat,
         UNCHANGED <<screen, netVars, matchVars, asked>>
  PROVE  ShellInv'
<1>1. /\ UNCHANGED <<screen, generation, seat, controller, resume, live, events, asked>>
      /\ calls' = (calls \ {c}) \cup {d} /\ d.gen = generation /\ d.step \in EntrySteps /\ c.step \in EntrySteps
  BY DEF netVars, matchVars, GoesOn, Entering
<1>2. ShellTyped'
  BY <1>1 DEF ShellInv, ShellTyped
<1>3. ShellCoherent'
  BY <1>1 DEF ShellInv, ShellCoherent, SeatAgrees, WishAgrees, EventsAgree
<1>4. EntriesTrue'
  <2>1. \A e \in calls' : Entering(e)' => e = d
    BY <1>1 DEF ShellInv, EntriesTrue, Entering
  <2>2. \A e \in calls' : e.gen <= generation'
    <3>1. d.gen <= generation
      BY <1>1, CallsTrue
    <3> QED
      BY <1>1, <3>1 DEF ShellInv, EntriesTrue
  <2>3. screen' = "setup" /\ AskedFor(d)' /\ (d.step = "createRoom" => d.session \in Nat)
    BY <1>1 DEF ShellInv, EntriesTrue, AskedFor
  <2> QED
    BY <2>1, <2>2, <2>3 DEF EntriesTrue
<1>5. LogsTrue'
  BY <1>1 DEF ShellInv, LogsTrue, EntrySteps
<1>6. ClosedTrue'
  BY <1>1 DEF ShellInv, ClosedTrue
<1> QED
  BY <1>2, <1>3, <1>4, <1>5, <1>6 DEF ShellInv

-----------------------------------------------------------------------------
(* What the player does.                                                   *)
LEMMA PlayerStep ==
  ASSUME ShellInv, ReturnToSetup \/ StartBotMatch \/ BotMatchEnds \/ StartReplay \/ ExitReplay
  PROVE  ShellInv'
<1>1. CASE ReturnToSetup
  BY <1>1, ResetStep DEF ReturnToSetup, ResetPlayUi
<1>2. CASE StartBotMatch
  BY <1>2, ResetStep DEF StartBotMatch, ResetPlayUi
<1>3. CASE BotMatchEnds \/ ExitReplay \/ (StartReplay /\ UNCHANGED calls)
  <2>1. /\ UNCHANGED <<generation, seat, controller, resume, screen, live, events, calls, asked, issued>>
        /\ screen # Nothing
    BY <1>3, SeatsTrue DEF BotMatchEnds, ExitReplay, StartReplay, netVars, Screens
  <2>2. issued' \in Nat
    BY <2>1 DEF ShellInv, ShellTyped
  <2> QED
    BY <2>1, <2>2, SameSeat
<1>4. CASE StartReplay /\ seat # Nothing
  <2> DEFINE d == Call("startReplay", generation, seat.session, seat.room)
  <2>1. /\ UNCHANGED <<generation, seat, controller, resume, screen, live, events, asked, issued>>
        /\ calls' = calls \cup {d} /\ screen # Nothing
    BY <1>4, SeatsTrue DEF StartReplay, netVars, Screens
  <2>2. issued' \in Nat /\ generation \in Nat
    BY <2>1 DEF ShellInv, ShellTyped
  <2>3. LoadCall(d) /\ d.step # "hydrate"
    BY <2>2 DEF Call, CallShape, LoadCall, EntrySteps
  <2> QED
    BY <2>1, <2>2, <2>3, SameSeat
<1> QED
  BY <1>1, <1>2, <1>3, <1>4 DEF StartReplay

LEMMA OnlineStep == ASSUME ShellInv, StartOnlineRoom \/ JoinOnlineRoom PROVE ShellInv'
<1>1. ASSUME NEW step \in {"createSession", "getRoom"}, NEW room, NEW wish, Online(step, room, wish),
             step = "createSession" => wish = "new room",
             step = "getRoom" => room \in Rooms /\ wish = room
      PROVE  ShellInv'
  <2>0. PICK c : c = Call(step, generation + 1, Nothing, room)
    OBVIOUS
  <2>1. /\ ResetNetworkSession /\ screen' = "setup" /\ UNCHANGED issued /\ events' = Nothing /\ asked' = wish
        /\ calls' = calls \cup {c}
    BY <1>1, <2>0 DEF Online, ResetPlayUi, ResetNetworkSession
  <2>2. CallShape(c) /\ c.gen \in {generation + 1} /\ c.step = step /\ c.room = room
    BY <2>0, CallsTrue DEF Call, CallShape
  <2>3. AskedFor(c)'
    <3>1. CASE step = "createSession"
      BY <1>1, <2>1, <2>2, <3>1 DEF AskedFor
    <3>2. CASE step = "getRoom"
      BY <1>1, <2>1, <2>2, <3>2 DEF AskedFor
    <3> QED
      BY <1>1, <3>1, <3>2
  <2> QED
    BY <1>1, <2>1, <2>2, <2>3, AskStep
<1>2. CASE StartOnlineRoom
  BY <1>1, <1>2 DEF StartOnlineRoom
<1>3. CASE JoinOnlineRoom
  BY <1>1, <1>3 DEF JoinOnlineRoom
<1> QED
  BY <1>2, <1>3

-----------------------------------------------------------------------------
(* What the server answers.                                                *)
LEMMA AnswerStep ==
  ASSUME ShellInv, ServerAnswers
  PROVE  ShellInv'
<1>1. PICK c \in calls : \/ TooLate(c) \/ GetRoomAnswers(c) \/ SessionAnswers(c) \/ CreateRoomAnswers(c)
                         \/ ReplayAnswers(c) \/ HydrateAnswers(c) \/ Fails(c)
  BY DEF ServerAnswers
<1>2. UNCHANGED asked /\ CallShape(c) /\ issued \in Nat /\ issued + 1 \in Nat
  BY DEF ServerAnswers, ShellInv, ShellTyped
<1>3. Entering(c) => screen = "setup" /\ AskedFor(c) /\ (c.step = "createRoom" => c.session \in Nat)
  BY DEF ShellInv, EntriesTrue
<1>4. CASE TooLate(c) \/ ReplayAnswers(c) \/ Fails(c)
  <2>1. /\ UNCHANGED <<generation, seat, controller, resume, screen, live, events>>
        /\ calls' \subseteq calls /\ issued' \in Nat
    BY <1>2, <1>4 DEF TooLate, ReplayAnswers, Fails, Done, netVars, matchVars
  <2>2. screen # Nothing
    BY DEF ShellInv, ClosedTrue
  <2> QED
    BY <1>2, <2>1, <2>2, SameSeat
<1>5. CASE HydrateAnswers(c)
  <2>1. /\ UNCHANGED <<generation, seat, controller, resume, screen, live>>
        /\ calls' \subseteq calls /\ issued' \in Nat /\ events' = live
    BY <1>2, <1>5 DEF HydrateAnswers, Done, netVars, IsNetworkGeneration, ShellInv, LogsTrue
  <2>2. screen # Nothing
    BY DEF ShellInv, ClosedTrue
  <2> QED
    BY <1>2, <2>1, <2>2, SameSeat
<1>6. CASE GetRoomAnswers(c)
  <2>1. Entering(c) /\ c.step = "getRoom"
    BY <1>6 DEF GetRoomAnswers, IsNetworkGeneration, Entering, EntrySteps, ShellInv, ShellTyped
  <2>2. CASE GoesOn(c, [c EXCEPT !.step = "joinSession"]) /\ UNCHANGED <<screen, netVars>>
    <3> DEFINE d == [c EXCEPT !.step = "joinSession"]
    <3>1. CallShape(d) /\ d.step = "joinSession" /\ d.gen = c.gen /\ d.room = c.room
      BY <1>2 DEF CallShape
    <3>2. Entering(d) /\ AskedFor(d) /\ d.step # "createRoom"
      BY <1>3, <2>1, <3>1 DEF Entering, AskedFor, EntrySteps
    <3>3. UNCHANGED <<screen, netVars, matchVars, asked>> /\ issued' \in Nat
      BY <1>2, <1>6, <2>2 DEF GetRoomAnswers
    <3> QED
      BY <2>1, <2>2, <3>1, <3>2, <3>3, GoesOnStep
  <2>3. CASE ResetNetworkSession /\ screen' = "setup" /\ Done(c)
    BY <1>6, <2>3, ResetStep DEF GetRoomAnswers, Done, matchVars
  <2> QED
    BY <1>6, <2>2, <2>3 DEF GetRoomAnswers
<1>7. CASE SessionAnswers(c) /\ c.step = "joinSession"
  <2>1. Entering(c) /\ Enter(c, issued + 1, c.room) /\ issued' \in Nat
    BY <1>2, <1>7 DEF SessionAnswers, IsNetworkGeneration, Entering, EntrySteps
  <2> QED
    BY <1>2, <1>3, <1>7, <2>1, EnterStep DEF AskedFor
<1>8. CASE SessionAnswers(c) /\ c.step = "createSession"
  <2> DEFINE d == [c EXCEPT !.step = "createRoom", !.session = issued + 1]
  <2>1. Entering(c) /\ GoesOn(c, d) /\ issued' \in Nat /\ UNCHANGED <<screen, netVars, matchVars, asked>>
    BY <1>2, <1>8 DEF SessionAnswers, IsNetworkGeneration, Entering, EntrySteps
  <2>2. CallShape(d) /\ d.step = "createRoom" /\ d.gen = c.gen /\ d.session = issued + 1
    BY <1>2 DEF CallShape
  <2>3. Entering(d) /\ AskedFor(d) /\ d.session \in Nat
    BY <1>2, <1>3, <1>8, <2>1, <2>2 DEF Entering, AskedFor, EntrySteps
  <2> QED
    BY <2>1, <2>2, <2>3, GoesOnStep
<1>9. CASE CreateRoomAnswers(c)
  <2>1. Entering(c) /\ c.step = "createRoom" /\ UNCHANGED issued
    BY <1>9 DEF CreateRoomAnswers, IsNetworkGeneration, Entering, EntrySteps
  <2>2. PICK r \in Rooms : Enter(c, c.session, r)
    BY <1>9 DEF CreateRoomAnswers
  <2> QED
    BY <1>2, <1>3, <2>1, <2>2, EnterStep DEF AskedFor
<1> QED
  BY <1>1, <1>4, <1>5, <1>6, <1>7, <1>8, <1>9 DEF SessionAnswers

-----------------------------------------------------------------------------
(* What the controller reports.                                            *)

\* A controller that is heard serves the seat on the screen.
LEMMA CalledShows ==
  ASSUME ShellInv, Called
  PROVE  /\ screen \in OnlineScreens /\ screen # Nothing /\ seat \in Seats /\ resume = seat
         /\ controller.seat = seat /\ controller.gen = generation
<1>1. controller # Nothing /\ controller.gen = generation
  BY DEF Called, IsNetworkGeneration
<1>2. screen \in OnlineScreens /\ seat # Nothing /\ resume = seat /\ controller = [seat |-> seat, gen |-> generation]
  BY <1>1 DEF ShellInv, ShellCoherent, SeatAgrees, OnlineScreens
<1>3. screen # Nothing /\ seat \in Seats
  BY <1>2, SeatsTrue DEF ShellInv, ShellTyped, OnlineScreens, Screens
<1> QED
  BY <1>1, <1>2, <1>3

\* A game is shown, and its log is loaded when it is over.
LEMMA GameShown ==
  ASSUME ShellInv, Called, NEW over, OnGame(seat.room, over), UNCHANGED <<generation, seat, controller, resume, asked, issued>>
  PROVE  ShellInv'
<1>1. live' = seat.room /\ events' = seat.room /\ screen' = "onlineGame" /\ screen # Nothing /\ screen \in OnlineScreens
  BY CalledShows DEF OnGame
<1>2. \A d \in calls' \ calls : LoadCall(d) /\ (d.step = "hydrate" => d.room = seat.room)
  <2>1. ASSUME NEW d, d = Call("hydrate", controller.gen, controller.seat.session, seat.room)
        PROVE  LoadCall(d) /\ d.room = seat.room
    BY <2>1, CalledShows, CallsTrue DEF Call, LoadCall, CallShape, EntrySteps
  <2> QED
    BY <2>1 DEF OnGame, HydrateFinishedReplayEvents
<1>3. \A d \in calls : ~Entering(d)
  BY <1>1 DEF ShellInv, EntriesTrue, OnlineScreens
<1>4. ShellTyped'
  BY <1>1, <1>2 DEF ShellInv, ShellTyped, LoadCall, Screens
<1>5. ShellCoherent'
  BY <1>1, CalledShows DEF ShellInv, ShellCoherent, SeatAgrees, WishAgrees, EventsAgree, OnlineScreens
<1>6. EntriesTrue'
  <2>1. \A d \in calls' : ~Entering(d)'
    BY <1>2, <1>3 DEF LoadCall, Entering
  <2>2. \A d \in calls' : d.gen <= generation
    BY <1>2, CallsTrue DEF LoadCall
  <2> QED
    BY <2>1, <2>2 DEF EntriesTrue
<1>7. LogsTrue'
  <2>1. \A d \in calls : d.step = "hydrate" /\ d.gen = generation => d.room = seat.room
    BY DEF ShellInv, LogsTrue
  <2>2. seat # Nothing
    BY CalledShows, SeatsTrue
  <2> QED
    BY <1>1, <1>2, <2>1, <2>2 DEF LogsTrue
<1>8. ClosedTrue'
  BY <1>1, SeatsTrue DEF ClosedTrue, Screens
<1> QED
  BY <1>4, <1>5, <1>6, <1>7, <1>8 DEF ShellInv

LEMMA ControllerStep == ASSUME ShellInv, OnRoom \/ OnEvents \/ OnTerminalError PROVE ShellInv'
<1>1. CASE OnRoom
  <2>1. /\ Called /\ UNCHANGED <<generation, controller, asked, issued>> /\ seat' = seat /\ resume' = resume
    BY <1>1, CalledShows, SeatsTrue DEF OnRoom
  <2>2. CASE \E over \in BOOLEAN : OnGame(seat.room, over)
    BY <2>1, <2>2, GameShown
  <2>3. CASE events' = Nothing /\ UNCHANGED <<screen, live, calls>>
    <3>1. issued' \in Nat
      BY <2>1 DEF ShellInv, ShellTyped
    <3> QED
      BY <2>1, <2>3, <3>1, SameSeat
  <2> QED
    BY <1>1, <2>1, <2>2, <2>3, CalledShows DEF OnRoom
<1>2. CASE OnEvents
  <2>1. /\ Called /\ UNCHANGED <<generation, seat, controller, resume, asked, issued>>
        /\ \E over \in BOOLEAN : OnGame(seat.room, over)
    BY <1>2, CalledShows DEF OnEvents, netVars
  <2> QED
    BY <2>1, GameShown
<1>3. CASE OnTerminalError
  BY <1>3, ResetStep DEF OnTerminalError, matchVars
<1> QED
  BY <1>1, <1>2, <1>3

-----------------------------------------------------------------------------
(* The page is closed and opened.                                          *)
LEMMA ClosePageStep == ASSUME ShellInv, ClosePage PROVE ShellInv'
<1>1. /\ screen # Nothing /\ screen' = Nothing /\ generation' = 0 /\ seat' = Nothing /\ controller' = Nothing
      /\ live' = Nothing /\ events' = Nothing /\ calls' = {} /\ asked' = "setup" /\ issued' = issued
      /\ resume' = IF controller = Nothing THEN resume ELSE controller.seat
  BY DEF ClosePage, ResetPlayUi
<1>2. resume' \in Seats \cup {Nothing}
  BY <1>1 DEF ShellInv, ShellTyped
<1>3. ShellTyped'
  BY <1>1, <1>2 DEF ShellInv, ShellTyped
<1>4. ShellCoherent'
  BY <1>1, SeatsTrue DEF ShellCoherent, SeatAgrees, WishAgrees, EventsAgree, Screens
<1>5. EntriesTrue' /\ LogsTrue' /\ ClosedTrue'
  BY <1>1 DEF EntriesTrue, LogsTrue, ClosedTrue
<1> QED
  BY <1>3, <1>4, <1>5 DEF ShellInv

LEMMA OpenPageStep == ASSUME ShellInv, OpenPage PROVE ShellInv'
<1>1. /\ screen = Nothing /\ UNCHANGED issued /\ seat = Nothing /\ controller = Nothing
      /\ calls = {} /\ generation = 0 /\ events = Nothing /\ live = Nothing
  BY SeatsTrue DEF OpenPage, ShellInv, ClosedTrue, ShellCoherent, SeatAgrees, Screens
<1>2. PICK link \in Rooms \cup {Nothing} : ResumeSeat(link) \/ FollowLink(link) \/ OpenSetup(link)
  BY DEF OpenPage
<1>3. CASE ResumeSeat(link)
  <2>1. /\ resume \in Seats /\ screen' = "onlineLobby" /\ seat' = resume /\ asked' = resume.room
        /\ controller' = [seat |-> resume, gen |-> generation]
        /\ UNCHANGED <<generation, resume, live, events, calls>>
    BY <1>3, SeatsTrue DEF ResumeSeat, Serve, matchVars, ShellInv, ShellTyped
  <2>2. ShellTyped'
    BY <1>1, <2>1 DEF ShellInv, ShellTyped, Screens
  <2>3. ShellCoherent'
    BY <1>1, <2>1, SeatsTrue DEF ShellCoherent, SeatAgrees, WishAgrees, EventsAgree
  <2>4. EntriesTrue' /\ LogsTrue' /\ ClosedTrue'
    BY <1>1, <2>1, SeatsTrue DEF EntriesTrue, LogsTrue, ClosedTrue, Screens
  <2> QED
    BY <2>2, <2>3, <2>4 DEF ShellInv
<1>4. CASE FollowLink(link)
  <2>0. PICK c : c = Call("getRoom", generation + 1, Nothing, link)
    OBVIOUS
  <2>1. /\ ResetNetworkSession /\ screen' = "setup" /\ events' = Nothing /\ asked' = link /\ link \in Rooms
        /\ calls' = {c}
    BY <1>2, <1>4, <2>0 DEF FollowLink, ResetPlayUi, ResetNetworkSession
  <2>2. CallShape(c) /\ c.gen \in {generation + 1} /\ c.step = "getRoom" /\ c.room = link
    BY <2>0, CallsTrue DEF Call, CallShape
  <2>3. AskedFor(c)'
    BY <2>1, <2>2 DEF AskedFor
  <2> QED
    BY <1>1, <2>1, <2>2, <2>3, AskStep
<1>5. CASE OpenSetup(link)
  <2>1. /\ resume = Nothing /\ screen' = "setup"
        /\ UNCHANGED <<generation, seat, controller, resume, live, events, calls, asked>>
    BY <1>5 DEF OpenSetup, netVars, matchVars
  <2>2. ShellTyped'
    BY <1>1, <2>1 DEF ShellInv, ShellTyped, Screens
  <2>3. ShellCoherent'
    BY <1>1, <2>1, SeatsTrue DEF ShellCoherent, SeatAgrees, WishAgrees, EventsAgree
  <2>4. EntriesTrue' /\ LogsTrue' /\ ClosedTrue'
    BY <1>1, <2>1, SeatsTrue DEF EntriesTrue, LogsTrue, ClosedTrue, Screens
  <2> QED
    BY <2>2, <2>3, <2>4 DEF ShellInv
<1> QED
  BY <1>2, <1>3, <1>4, <1>5

LEMMA ShellStutters == ASSUME ShellInv, UNCHANGED shellVars PROVE ShellInv'
BY DEF shellVars, netVars, matchVars, ShellInv, ShellTyped, ShellCoherent, SeatAgrees, WishAgrees, EventsAgree,
   EntriesTrue, Entering, AskedFor, LogsTrue, ClosedTrue

-----------------------------------------------------------------------------
\* Whenever the answers come, and however often the page is reset, closed and
\* opened: screen, seat, controller and what a reload would resume agree, and the
\* page shows what the player asked for last (App.tsx).
THEOREM PageIsOfOneMind == ShellSpec => []ShellCoherent
<1>1. ShellInit => ShellInv
  BY InitShell
<1>2. ShellInv /\ [ShellNext]_shellVars => ShellInv'
  BY PlayerStep, OnlineStep, AnswerStep, ControllerStep, ClosePageStep, OpenPageStep, ShellStutters DEF ShellNext
<1>3. ShellInv => ShellCoherent
  BY DEF ShellInv
<1> QED
  BY <1>1, <1>2, <1>3, PTL DEF ShellSpec

-----------------------------------------------------------------------------
(* A local match.                                                          *)
VersionShape(v) == GameShape(v.game) /\ v.seq \in 0 .. Wrap - 1

LocalInv ==
  /\ VersionShape(current) /\ VersionShape(queued) /\ VersionShape(drawn)
  /\ LocalTimersArmed

\* The timers a match needs to go on.
Needed(v) ==
  (IF v.game.active \in Bots /\ ~Staged(v.game) THEN {AutomationKey(v)} ELSE {}) \cup AnswerTimers(v) \cup EndTimers(v)

LEMMA NeededArmed == LocalTimersArmed <=> (Quiet /\ ~Over(current.game) => Needed(current) \subseteq timers)
BY DEF LocalTimersArmed, Needed

\* A rendering's effects arm them.
LEMMA EffectsArm ==
  ASSUME NEW v, ~Over(v.game), NEW running, NEW key, NEW others
  PROVE  Needed(v) \subseteq Armed(v, running, key, others)
BY DEF Armed, Needed, BotTimer, TradeTimers

\* The number of a command's event is not that of what was drawn, as long as the
\* commands since are fewer than the numbers.
LEMMA NumbersDiffer ==
  ASSUME NEW a \in 0 .. Wrap - 1, NEW b \in 0 .. Wrap - 1, (a + Wrap - b) % Wrap < MaxBehind
  PROVE  (a + 1) % Wrap \in 0 .. Wrap - 1 /\ (a + 1) % Wrap # b
<1>1. Wrap \in Nat /\ MaxBehind \in Nat /\ MaxBehind + 1 < Wrap
  BY LocalAssumption
<1>2. CASE a + 1 = Wrap
  <2>1. (a + 1) % Wrap = 0
    BY <1>1, <1>2
  <2>2. b = 0 => (a + Wrap - b) % Wrap = Wrap - 1
    BY <1>1, <1>2
  <2> QED
    BY <1>1, <2>1, <2>2
<1>3. CASE a + 1 < Wrap
  <2>1. (a + 1) % Wrap = a + 1
    BY <1>1, <1>3
  <2>2. b = a + 1 => (a + Wrap - b) % Wrap = Wrap - 1
    BY <1>1, <1>3
  <2> QED
    BY <1>1, <1>3, <2>1, <2>2
<1> QED
  BY <1>1, <1>2, <1>3

LEMMA NextVersion ==
  ASSUME LocalInv, NEW g, GameShape(g)
  PROVE  VersionShape(After(g)) /\ After(g).game = g /\ After(g).seq = (current.seq + 1) % Wrap
BY LocalAssumption DEF LocalInv, VersionShape, After, Version

LEMMA StartShape ==
  ASSUME NEW p \in Players, NEW n \in 0 .. Wrap - 1
  PROVE  VersionShape(Version(Turn(p), n, 0))
BY TurnShape DEF VersionShape, Version

LEMMA InitLocal == LocalInit => LocalInv
<1> SUFFICES ASSUME LocalInit PROVE LocalInv
  OBVIOUS
<1>1. PICK p \in Players : current = Version(Turn(p), 0, 0)
  BY DEF LocalInit
<1>2. VersionShape(current) /\ queued = current /\ drawn = current /\ ~Staged(current.game)
  BY <1>1, StartShape, TurnShape, LocalAssumption DEF LocalInit, Version
<1>3. LocalTimersArmed
  BY <1>2 DEF LocalInit, LocalTimersArmed, BotTimer, AnswerTimers, BotsToAnswer, EndTimers, ReadyBotOffer, FullyAnswered
<1> QED
  BY <1>2, <1>3 DEF LocalInv

\* What a click leads to is drawn with its timers.
LEMMA ClickStep == ASSUME LocalInv, NEW g, GameShape(g), Click(g) PROVE LocalInv'
<1>1. PICK v : v = After(g)
  OBVIOUS
<1>2. VersionShape(v)
  BY <1>1, NextVersion
<1>3. current' = v /\ queued' = v /\ drawn' = v
  BY <1>1 DEF Click
<1>4. PICK running, key : timers' = Armed(v, running, key, {})
  BY <1>1 DEF Click
<1>5. ~Over(v.game) => Needed(v) \subseteq timers'
  BY <1>4, EffectsArm
<1>6. LocalTimersArmed'
  BY <1>3, <1>5 DEF LocalTimersArmed, Needed, AutomationKey, AnswerTimers, EndTimers
<1> QED
  BY <1>2, <1>3, <1>6 DEF LocalInv, VersionShape, GameShape, OfferShape

LEMMA PlayerActs == ASSUME LocalInv, Plays \/ Answers \/ Resolves PROVE LocalInv'
<1>1. CASE Plays
  BY <1>1, MovesShape, ClickStep DEF Plays, LocalInv, VersionShape, Players
<1>2. CASE Answers
  BY <1>2, AnsweredShape, ClickStep DEF Answers, LocalInv, VersionShape
<1>3. CASE Resolves
  BY <1>3, ClosedShape, ClickStep DEF Resolves, Resolved, LocalInv, VersionShape
<1> QED
  BY <1>1, <1>2, <1>3

LEMMA NewMatchStep == ASSUME LocalInv, NewMatch PROVE LocalInv'
<1>1. PICK p \in Players : Started(Version(Turn(p), (current.seq + 1) % Wrap, 0))
  BY DEF NewMatch
<1>2. PICK v : v = Version(Turn(p), (current.seq + 1) % Wrap, 0)
  OBVIOUS
<1>3. (current.seq + 1) % Wrap \in 0 .. Wrap - 1
  BY LocalAssumption DEF LocalInv, VersionShape
<1>4. VersionShape(v)
  BY <1>2, <1>3, StartShape
<1>5. current' = v /\ queued' = v /\ drawn' = v /\ timers' = Armed(v, {}, None, {})
  BY <1>1, <1>2 DEF Started
<1>6. ~Over(v.game) => Needed(v) \subseteq timers'
  BY <1>5, EffectsArm
<1>7. LocalTimersArmed'
  BY <1>5, <1>6 DEF LocalTimersArmed, Needed, AutomationKey, AnswerTimers, EndTimers
<1> QED
  BY <1>4, <1>5, <1>7 DEF LocalInv, VersionShape, GameShape, OfferShape

LEMMA RenderStep == ASSUME LocalInv, Render PROVE LocalInv'
<1>1. drawn' = queued /\ pending' = TRUE /\ UNCHANGED <<current, queued, timers>>
  BY DEF Render
<1> QED
  BY <1>1 DEF LocalInv, VersionShape, GameShape, OfferShape, LocalTimersArmed, Quiet

LEMMA EffectsStep == ASSUME LocalInv, Effects PROVE LocalInv'
<1>1. current' = drawn /\ UNCHANGED <<queued, drawn>> /\ timers' = Armed(drawn, timers, turnKey, {queued})
  BY DEF Effects
<1>2. ~Over(drawn.game) => Needed(drawn) \subseteq timers'
  BY <1>1, EffectsArm
<1>3. LocalTimersArmed'
  BY <1>1, <1>2 DEF LocalTimersArmed, Needed, AutomationKey, AnswerTimers, EndTimers
<1> QED
  BY <1>1, <1>3 DEF LocalInv, VersionShape, GameShape, OfferShape

\* A timer that goes off leaves a table that is still to be drawn, or was not
\* needed.
LEMMA TimerCommands ==
  ASSUME LocalInv, NEW t, GoesOff(t), NEW g, GameShape(g), Command(g)
  PROVE  LocalInv'
<1>1. PICK v : v = After(g)
  OBVIOUS
<1>2. VersionShape(v) /\ v.seq = (current.seq + 1) % Wrap
  BY <1>1, NextVersion
<1>3. current' = v /\ queued' = v /\ UNCHANGED drawn
  BY <1>1 DEF Command, GoesOff
<1>4. v.seq # drawn.seq
  BY <1>2, NumbersDiffer DEF GoesOff, LocalInv, VersionShape
<1>5. LocalTimersArmed'
  BY <1>3, <1>4 DEF LocalTimersArmed, Quiet
<1> QED
  BY <1>2, <1>3, <1>5 DEF LocalInv, VersionShape, GameShape, OfferShape

LEMMA TimerIdles ==
  ASSUME LocalInv, NEW t, GoesOff(t), Idles, t \notin Needed(current)
  PROVE  LocalInv'
<1>1. UNCHANGED <<current, queued, drawn, pending>> /\ timers' = timers \ {t}
  BY DEF GoesOff, Idles
<1>2. LocalTimersArmed'
  BY <1>1, NeededArmed DEF LocalInv, LocalTimersArmed, Quiet, Needed, AutomationKey, AnswerTimers, EndTimers
<1> QED
  BY <1>1, <1>2 DEF LocalInv, VersionShape, GameShape, OfferShape

\* What the timers look for before they do nothing.
LEMMA NeededKinds ==
  ASSUME NEW t \in Needed(current)
  PROVE  \/ t[1] = "bot" /\ t = AutomationKey(current) /\ ~Staged(current.game)
         \/ t[1] = "answer" /\ t[2] = current.offer /\ Staged(current.game) /\ t[3] \in current.game.trade.pending
         \/ t[1] = "resolve" /\ t[2] = current.offer /\ FullyAnswered(current.game)
         \/ t[1] = "deadline" /\ t[2] = current.offer /\ Staged(current.game)
BY DEF Needed, AutomationKey, AnswerTimers, EndTimers, BotsToAnswer, ReadyBotOffer, FullyAnswered

LEMMA BotPlaysStep == ASSUME LocalInv, BotPlays PROVE LocalInv'
<1>1. PICK t \in timers : t[1] = "bot" /\ GoesOff(t) /\
        IF t = AutomationKey(current) /\ ~Staged(current.game)
        THEN \E g \in MovesOf(current.game, current.game.active) : Command(g)
        ELSE Idles
  BY DEF BotPlays
<1>2. CASE t = AutomationKey(current) /\ ~Staged(current.game)
  <2>1. PICK g \in MovesOf(current.game, current.game.active) : Command(g)
    BY <1>1, <1>2
  <2>2. GameShape(g)
    BY <1>2, <2>1, MovesShape DEF LocalInv, VersionShape, GameShape
  <2> QED
    BY <1>1, <2>1, <2>2, TimerCommands
<1>3. CASE ~(t = AutomationKey(current) /\ ~Staged(current.game))
  BY <1>1, <1>3, NeededKinds, TimerIdles
<1> QED
  BY <1>2, <1>3

LEMMA BotAnswersStep == ASSUME LocalInv, BotAnswers PROVE LocalInv'
<1>1. PICK t \in timers : t[1] = "answer" /\ GoesOff(t) /\
        IF Offers(t) /\ t[3] \in current.game.trade.to
        THEN \E yes \in BOOLEAN : Command(Answered(current.game, t[3], yes))
        ELSE Idles
  BY DEF BotAnswers
<1>2. CASE Offers(t) /\ t[3] \in current.game.trade.to
  <2>1. PICK yes \in BOOLEAN : Command(Answered(current.game, t[3], yes))
    BY <1>1, <1>2
  <2>2. PICK g : g = Answered(current.game, t[3], yes)
    OBVIOUS
  <2>3. GameShape(g)
    BY <1>2, <2>1, <2>2, AnsweredShape DEF LocalInv, VersionShape, Offers
  <2> QED
    BY <1>1, <2>1, <2>2, <2>3, TimerCommands
<1>3. CASE ~(Offers(t) /\ t[3] \in current.game.trade.to)
  <2>1. Staged(current.game) => current.game.trade.pending \subseteq current.game.trade.to
    BY DEF LocalInv, VersionShape, GameShape, OfferShape
  <2> QED
    BY <1>1, <1>3, <2>1, NeededKinds, TimerIdles DEF Offers
<1> QED
  BY <1>2, <1>3

LEMMA OfferEndsStep == ASSUME LocalInv, BotResolves \/ OfferEnds PROVE LocalInv'
<1>1. PICK t \in timers :
        /\ GoesOff(t)
        /\ \/ t[1] = "resolve" /\ Offers(t) /\ FullyAnswered(current.game) /\ Command(Resolved(current.game))
           \/ t[1] = "resolve" /\ ~(Offers(t) /\ FullyAnswered(current.game)) /\ Idles
           \/ t[1] = "deadline" /\ Offers(t) /\ Command(Resolved(current.game))
           \/ t[1] = "deadline" /\ ~Offers(t) /\ Idles
  BY DEF BotResolves, OfferEnds, AtDeadline
<1>2. CASE Offers(t) /\ Command(Resolved(current.game))
  <2>1. PICK g : g = Resolved(current.game)
    OBVIOUS
  <2>2. GameShape(g)
    BY <1>2, <2>1, ClosedShape DEF Resolved, LocalInv, VersionShape, Offers
  <2> QED
    BY <1>1, <1>2, <2>1, <2>2, TimerCommands
<1>3. CASE /\ Idles
           /\ \/ t[1] = "resolve" /\ ~(Offers(t) /\ FullyAnswered(current.game))
              \/ t[1] = "deadline" /\ ~Offers(t)
  BY <1>1, <1>3, NeededKinds, TimerIdles DEF Offers, FullyAnswered
<1> QED
  BY <1>1, <1>2, <1>3

LEMMA TurnEndsStep == ASSUME LocalInv, TurnEnds PROVE LocalInv'
<1>1. PICK t \in timers : t[1] = "turn" /\ GoesOff(t) /\
        IF t[2] = TurnDeadlineKey(current.game) /\ TimeoutMoves(current.game) # {}
        THEN \E g \in TimeoutMoves(current.game) : Command(g)
        ELSE Idles
  BY DEF TurnEnds
<1>2. CASE \E g \in TimeoutMoves(current.game) : Command(g)
  <2>1. PICK g \in TimeoutMoves(current.game) : Command(g)
    BY <1>2
  <2>2. GameShape(g)
    <3>1. CASE current.game.type = "ACTION_PHASE"
      BY <2>1, <3>1, EndedTurnShape DEF TimeoutMoves
    <3>2. CASE current.game.type # "ACTION_PHASE"
      BY <2>1, <3>2, MovesShape DEF TimeoutMoves, LocalInv, VersionShape, GameShape, OfferShape
    <3> QED
      BY <3>1, <3>2
  <2> QED
    BY <1>1, <2>1, <2>2, TimerCommands
<1>3. CASE Idles
  BY <1>1, <1>3, NeededKinds, TimerIdles
<1> QED
  BY <1>1, <1>2, <1>3

LEMMA LocalStutters == ASSUME LocalInv, UNCHANGED localVars PROVE LocalInv'
BY DEF localVars, LocalInv, VersionShape, GameShape, OfferShape, LocalTimersArmed, Quiet, AutomationKey, AnswerTimers,
   EndTimers

\* However far the rendering falls behind the timers, once all is drawn those run
\* that the match needs to go on (useLocalAutomation).
THEOREM BotsAreNeverForgotten == LocalSpec => []LocalTimersArmed
<1>1. LocalInit => LocalInv
  BY InitLocal
<1>2. LocalInv /\ [LocalNext]_localVars => LocalInv'
  BY PlayerActs, NewMatchStep, RenderStep, EffectsStep, BotPlaysStep, BotAnswersStep, OfferEndsStep, TurnEndsStep,
     LocalStutters DEF LocalNext, Timers
<1>3. LocalInv => LocalTimersArmed
  BY DEF LocalInv
<1> QED
  BY <1>1, <1>2, <1>3, PTL DEF LocalSpec

-----------------------------------------------------------------------------
\* The leases of a room.
Histories == Seq(Seated)
Begins(s) == s \in Histories /\ IsPrefix(s, log)

\* What the tables hold.
TablesTrue ==
  /\ log \in Histories
  /\ Begins(saved)

\* A memory, loaded or not, is a beginning of the log, whole, with its clock.
MemoryTrue ==
  \A s \in Servers :
    /\ memory[s].game = memory[s].events /\ Begins(memory[s].events)
    /\ memory[s] = Unloaded \/ memory[s].timer = Active(memory[s].events)
    /\ DOMAIN memory[s] = {"game", "events", "timer"}

\* So is what has been shown, and whatever a load has read so far.
ReadsTrue ==
  \A s \in Servers :
    /\ Begins(shown[s])
    /\ Doing(s, "load") => /\ DOMAIN task[s] = {"kind", "timer", "events", "snapshot"}
                           /\ \A h \in task[s].events \cup task[s].snapshot : Begins(h)

Functions3 ==
  /\ DOMAIN memory = Servers /\ DOMAIN task = Servers /\ DOMAIN shown = Servers

IInv == Functions3 /\ TablesTrue /\ MemoryTrue /\ ReadsTrue

-----------------------------------------------------------------------------
(* Beginnings of histories.                                                *)

\* A beginning, position by position.
LEMMA PrefixIsPointwise ==
  ASSUME NEW S, NEW s \in Seq(S), NEW t \in Seq(S)
  PROVE  IsPrefix(s, t) <=> Len(s) <= Len(t) /\ \A i \in 1 .. Len(s) : s[i] = t[i]
<1>1. Len(s) \in Nat /\ Len(t) \in Nat
  BY LenProperties
<1>2. SubSeq(s, 1, Len(s)) = s
  BY SubSeqFull
<1>3. ASSUME Len(s) <= Len(t)
      PROVE  /\ SubSeq(t, 1, Len(s)) \in Seq(S) /\ Len(SubSeq(t, 1, Len(s))) = Len(s)
             /\ \A i \in 1 .. Len(s) : SubSeq(t, 1, Len(s))[i] = t[i]
  <2>1. \A i \in 1 .. Len(s) : t[i] \in S
    BY <1>1, <1>3, ElementOfSeq
  <2> QED
    BY <1>1, <2>1, SubSeqProperties
<1>4. Len(s) <= Len(t) => (s = SubSeq(t, 1, Len(s)) <=> \A i \in 1 .. Len(s) : s[i] = t[i])
  BY <1>3, SeqEqual
<1> QED
  BY <1>2, <1>4 DEF IsPrefix

LEMMA EmptyBegins == ASSUME NEW S, NEW t \in Seq(S) PROVE IsPrefix(<<>>, t)
<1>1. <<>> \in Seq(S) /\ Len(<<>>) = 0 /\ Len(t) \in Nat
  BY EmptySeq, LenProperties
<1> QED
  BY <1>1, SubSeqEmpty DEF IsPrefix

LEMMA SelfBegins == ASSUME NEW S, NEW t \in Seq(S) PROVE IsPrefix(t, t)
BY PrefixIsPointwise, LenProperties

\* Two beginnings of one history: the shorter begins the longer.
LEMMA BeginningsComparable ==
  ASSUME NEW S, NEW s \in Seq(S), NEW t \in Seq(S), NEW u \in Seq(S), IsPrefix(s, u), IsPrefix(t, u)
  PROVE  IsPrefix(s, t) \/ IsPrefix(t, s)
BY PrefixIsPointwise, LenProperties

\* As long as the history, a beginning is all of it.
LEMMA WholeBeginning ==
  ASSUME NEW S, NEW s \in Seq(S), NEW t \in Seq(S), IsPrefix(s, t), Len(s) = Len(t)
  PROVE  s = t
BY PrefixIsPointwise, LenProperties, SeqEqual

\* What begins a history begins the longer one.
LEMMA BeginsLonger ==
  ASSUME NEW S, NEW s \in Seq(S), NEW t \in Seq(S), NEW e \in S, IsPrefix(s, t)
  PROVE  IsPrefix(s, Append(t, e))
<1>1. Append(t, e) \in Seq(S) /\ Len(Append(t, e)) = Len(t) + 1
      /\ \A i \in 1 .. Len(t) : Append(t, e)[i] = t[i]
  BY AppendProperties
<1>2. Len(s) \in Nat /\ Len(t) \in Nat
  BY LenProperties
<1>3. Len(s) <= Len(t) /\ \A i \in 1 .. Len(s) : s[i] = t[i]
  BY PrefixIsPointwise
<1>4. Len(s) <= Len(Append(t, e)) /\ \A i \in 1 .. Len(s) : s[i] = Append(t, e)[i]
  BY <1>1, <1>2, <1>3
<1> QED
  BY <1>1, <1>4, PrefixIsPointwise

\* A load makes the history of the events of whatever it read.
LEMMA HydratedIsEvents ==
  ASSUME NEW S, NEW u \in Seq(S), NEW s \in Seq(S), NEW t \in Seq(S), IsPrefix(s, u), IsPrefix(t, u)
  PROVE  Hydrated(s, t) = t
<1>1. Len(s) \in Nat /\ Len(t) \in Nat
  BY LenProperties
<1>2. CASE BoundaryHolds(s, t)
  <2>1. Len(s) <= Len(t)
    BY <1>2 DEF BoundaryHolds
  <2>2. IsPrefix(s, t)
    <3>1. /\ \A i \in 1 .. Len(s) : s[i] = u[i]
          /\ \A i \in 1 .. Len(t) : t[i] = u[i]
      BY PrefixIsPointwise
    <3> QED
      BY <1>1, <2>1, <3>1, PrefixIsPointwise
  <2>3. s = SubSeq(t, 1, Len(s))
    <3>1. SubSeq(s, 1, Len(s)) = s
      BY SubSeqFull
    <3>2. SubSeq(s, 1, Len(s)) = SubSeq(t, 1, Len(s))
      BY <2>2, Zenon DEF IsPrefix
    <3> QED
      BY <3>1, <3>2
  <2>4. SubSeq(t, 1, Len(s)) \o SubSeq(t, Len(s) + 1, Len(t)) = SubSeq(t, 1, Len(t))
    <3>1. 1 \in 1 .. Len(t) + 1 /\ Len(s) \in 1 - 1 .. Len(t) /\ Len(t) \in Len(s) .. Len(t)
      BY <1>1, <2>1
    <3> QED
      BY <3>1, ConcatAdjacentSubSeq, Zenon
  <2> QED
    BY <1>2, <2>3, <2>4, SubSeqFull DEF Hydrated, EventTail
<1>3. CASE ~BoundaryHolds(s, t)
  BY <1>3 DEF Hydrated
<1> QED
  BY <1>2, <1>3

-----------------------------------------------------------------------------
(* The invariant.                                                          *)

LEMMA InitIInv == LeaseInit => IInv
<1> SUFFICES ASSUME LeaseInit PROVE IInv
  OBVIOUS
<1>1. <<>> \in Histories /\ Begins(<<>>)
  BY EmptySeq, EmptyBegins DEF LeaseInit, Histories, Begins
<1>2. \A s \in Servers : memory[s] = Unloaded /\ task[s] = NoTask /\ shown[s] = <<>>
  BY DEF LeaseInit
<1>3. Unloaded.game = <<>> /\ Unloaded.events = <<>> /\ DOMAIN Unloaded = {"game", "events", "timer"}
  BY DEF Unloaded, Room
<1>4. Functions3
  BY DEF LeaseInit, Functions3
<1>5. TablesTrue
  BY <1>1 DEF LeaseInit, TablesTrue
<1>6. MemoryTrue
  BY <1>1, <1>2, <1>3 DEF MemoryTrue
<1>7. ReadsTrue
  BY <1>1, <1>2 DEF ReadsTrue, Doing, NoTask
<1> QED
  BY <1>4, <1>5, <1>6, <1>7 DEF IInv

\* As long as the log stays, only what a step changes has to be looked at.
LEMMA SameLog ==
  ASSUME UNCHANGED <<log, saved>>
  PROVE  /\ TablesTrue => TablesTrue'
         /\ \A h : Begins(h) => Begins(h)'
         /\ MemoryTrue /\ UNCHANGED memory => MemoryTrue'
         /\ ReadsTrue /\ UNCHANGED <<task, shown>> => ReadsTrue'
BY DEF TablesTrue, Begins, MemoryTrue, ReadsTrue, Doing

\* A read of a load: it is a beginning when it is made.
LEMMA ReadStep ==
  ASSUME IInv, NEW s \in Servers, ReadRow(s) \/ ReadEvents(s) \/ ReadSnapshot(s)
  PROVE  IInv'
<1> USE DEF Functions3
<1>1. UNCHANGED <<log, saved, memory, shown>> /\ DOMAIN task' = Servers
  BY DEF ReadRow, ReadEvents, ReadSnapshot, tables, IInv
<1>2. \A t \in Servers \ {s} : task'[t] = task[t]
  BY DEF ReadRow, ReadEvents, ReadSnapshot, IInv
<1>3. Begins(log) /\ Begins(saved)
  BY SelfBegins DEF IInv, TablesTrue, Begins, Histories
<1>4. /\ DOMAIN task'[s] = {"kind", "timer", "events", "snapshot"}
      /\ \A h \in task'[s].events \cup task'[s].snapshot : Begins(h)
  <2>1. CASE ReadRow(s)
    BY <2>1 DEF ReadRow, IInv
  <2>2. CASE ReadEvents(s)
    <3>1. /\ DOMAIN task[s] = {"kind", "timer", "events", "snapshot"}
          /\ \A h \in task[s].events \cup task[s].snapshot : Begins(h)
      BY <2>2 DEF ReadEvents, IInv, ReadsTrue
    <3>2. task'[s] = [task[s] EXCEPT !.events = {log}]
      BY <2>2 DEF ReadEvents, IInv
    <3> QED
      BY <3>1, <3>2, <1>3
  <2>3. CASE ReadSnapshot(s)
    <3>1. /\ DOMAIN task[s] = {"kind", "timer", "events", "snapshot"}
          /\ \A h \in task[s].events \cup task[s].snapshot : Begins(h)
      BY <2>3 DEF ReadSnapshot, IInv, ReadsTrue
    <3>2. task'[s] = [task[s] EXCEPT !.snapshot = {saved}]
      BY <2>3 DEF ReadSnapshot, IInv
    <3> QED
      BY <3>1, <3>2, <1>3
  <2> QED
    BY <2>1, <2>2, <2>3
<1>5. ReadsTrue'
  BY <1>1, <1>2, <1>4, SameLog DEF IInv, ReadsTrue, Doing
<1> QED
  BY <1>1, <1>5, SameLog DEF IInv

\* A task ends without a word to the players.
LEMMA TaskEnds ==
  ASSUME IInv, NEW s \in Servers, Ends(s), UNCHANGED <<log, saved, shown>>
  PROVE  ReadsTrue' /\ DOMAIN task' = Servers
<1>1. DOMAIN task' = Servers /\ \A t \in Servers : task'[t] = IF t = s THEN NoTask ELSE task[t]
  BY DEF Ends, IInv, Functions3
<1> QED
  BY <1>1, SameLog DEF IInv, ReadsTrue, Doing, NoTask

\* What a load keeps is whole, whatever moments its queries saw.
LEMMA KeepStep ==
  ASSUME IInv, NEW s \in Servers, Keep(s)
  PROVE  IInv'
<1>1. PICK record \in Records(s) : memory' = [memory EXCEPT ![s] = RoomFromRecord(record)]
  BY DEF Keep
<1>2. UNCHANGED <<log, saved>> /\ Doing(s, "load")
  BY DEF Keep, Read
<1>3. record.events \in task[s].events /\ record.snapshot \in task[s].snapshot
  BY <1>1 DEF Records
<1>4. Begins(record.events) /\ Begins(record.snapshot)
  BY <1>2, <1>3 DEF IInv, ReadsTrue
<1>5. Hydrated(record.snapshot, record.events) = record.events
  BY <1>4, HydratedIsEvents DEF Begins, Histories, IInv, TablesTrue
<1>6. memory'[s] = Room(record.events, record.events, Active(record.events))
  BY <1>1, <1>5 DEF IInv, Functions3, RoomFromRecord, RestoredTimer
<1>7. shown' = [shown EXCEPT ![s] = record.events]
  <2>1. memory'[s].game = record.events
    BY <1>6 DEF Room
  <2> QED
    BY <2>1 DEF Keep
<1>8. MemoryTrue' /\ DOMAIN memory' = Servers
  BY <1>1, <1>2, <1>4, <1>6, SameLog DEF IInv, Functions3, MemoryTrue, Room
<1>9. DOMAIN task' = Servers /\ \A t \in Servers : task'[t] = IF t = s THEN NoTask ELSE task[t]
  BY DEF Keep, Ends, IInv, Functions3
<1>10. ReadsTrue' /\ DOMAIN shown' = Servers
  BY <1>2, <1>4, <1>7, <1>9, SameLog DEF IInv, Functions3, ReadsTrue, Doing, NoTask
<1> QED
  BY <1>2, <1>8, <1>9, <1>10, SameLog DEF IInv, Functions3

\* The event goes to the free slot after the memory's last: memory was the log.
LEMMA CommitStep ==
  ASSUME IInv, NEW s \in Servers, Commit(s)
  PROVE  IInv'
<1> DEFINE e == memory[s].events
<1>1. e \in Histories /\ log \in Histories /\ IsPrefix(e, log) /\ memory[s].game = e
  BY DEF IInv, TablesTrue, MemoryTrue, Begins
<1>2. e = log
  BY <1>1, WholeBeginning DEF Commit, FreeSlot, Histories
<1>3. PICK p \in Seated :
        /\ log' = Append(log, p)
        /\ saved' = (IF SnapshotDue(Append(log, p)) THEN Append(log, p) ELSE saved)
        /\ memory' = [memory EXCEPT ![s] = Room(Append(log, p), Append(log, p), p)]
        /\ shown' = [shown EXCEPT ![s] = Append(log, p)]
  BY <1>1, <1>2 DEF Commit, Room
<1>4. log' \in Histories /\ Last(log') = p /\ log' # <<>>
  BY <1>1, <1>3, AppendProperties DEF Histories, Last
<1>5. Active(log') = p
  BY <1>4 DEF Active
<1>6. \A h : Begins(h) => Begins(h)'
  BY <1>1, <1>3, BeginsLonger DEF Begins, Histories
<1>7. Begins(log)' 
  BY <1>4, SelfBegins DEF Begins, Histories
<1>8. TablesTrue'
  BY <1>3, <1>4, <1>6, <1>7 DEF IInv, TablesTrue
<1>9. MemoryTrue' /\ DOMAIN memory' = Servers
  BY <1>3, <1>5, <1>6, <1>7 DEF IInv, Functions3, MemoryTrue, Room
<1>10. DOMAIN task' = Servers /\ \A t \in Servers : task'[t] = IF t = s THEN NoTask ELSE task[t]
  BY DEF Commit, Ends, IInv, Functions3
<1>11. ReadsTrue' /\ DOMAIN shown' = Servers
  BY <1>3, <1>6, <1>7, <1>10 DEF IInv, Functions3, ReadsTrue, Doing, NoTask
<1> QED
  BY <1>8, <1>9, <1>10, <1>11 DEF IInv, Functions3

LEMMA OtherSteps ==
  ASSUME IInv, NEW s \in Servers, NotOwned(s) \/ Begin(s) \/ CommitFails(s) \/ Save(s) \/ Crash(s)
  PROVE  IInv'
<1>1. UNCHANGED <<log, saved, shown>>
  BY DEF NotOwned, Begin, CommitFails, Save, Crash, tables
<1>2. CASE NotOwned(s) \/ CommitFails(s) \/ Save(s)
  BY <1>1, <1>2, TaskEnds, SameLog DEF NotOwned, CommitFails, Save, IInv, Functions3
<1>3. CASE Begin(s)
  <2>1. PICK kind \in {"commit", "save"} : task' = [task EXCEPT ![s] = [kind |-> kind]]
    BY <1>3 DEF Begin
  <2>2. UNCHANGED memory
    BY <1>3 DEF Begin
  <2>3. ReadsTrue' /\ DOMAIN task' = Servers
    BY <1>1, <2>1, SameLog DEF IInv, Functions3, ReadsTrue, Doing
  <2> QED
    BY <1>1, <2>2, <2>3, SameLog DEF IInv, Functions3
<1>4. CASE Crash(s)
  <2>1. memory' = [memory EXCEPT ![s] = Unloaded] /\ Ends(s)
    BY <1>4 DEF Crash
  <2>2. Begins(<<>>)
    BY EmptySeq, EmptyBegins DEF Begins, Histories, IInv, TablesTrue
  <2>3. MemoryTrue' /\ DOMAIN memory' = Servers
    BY <1>1, <2>1, <2>2, SameLog DEF IInv, Functions3, MemoryTrue, Unloaded, Room
  <2> QED
    BY <1>1, <2>1, <2>3, TaskEnds, SameLog DEF IInv, Functions3
<1> QED
  BY <1>2, <1>3, <1>4

LEMMA NextIInv == IInv /\ [LeaseNext]_leaseVars => IInv'
<1> SUFFICES ASSUME IInv, [LeaseNext]_leaseVars PROVE IInv'
  OBVIOUS
<1>1. CASE \E s \in Servers : Loads(s) \/ Begin(s) \/ Commit(s) \/ CommitFails(s) \/ Save(s) \/ Crash(s)
  BY <1>1, ReadStep, KeepStep, CommitStep, OtherSteps DEF Loads
<1>2. CASE LeaseRunsOut \/ UNCHANGED leaseVars
  <2>1. UNCHANGED <<log, saved, memory, task, shown>>
    BY <1>2 DEF LeaseRunsOut, leaseVars, tables
  <2> QED
    BY <2>1, SameLog DEF IInv, Functions3
<1> QED
  BY <1>1, <1>2 DEF LeaseNext

LEMMA AlwaysIInv == LeaseSpec => []IInv
BY InitIInv, NextIInv, PTL DEF LeaseSpec

-----------------------------------------------------------------------------
\* However leases run out under tasks, and whatever a load saw of the tables: the
\* servers show and hold beginnings of one history, whole and on the right clock.
THEOREM ServersShareOneHistory == LeaseSpec => []LeasedRoomsTrue
<1>1. IInv => LeasedRoomsTrue
  <2> SUFFICES ASSUME IInv PROVE LeasedRoomsTrue
    OBVIOUS
  <2>1. \A s \in Servers : IsPrefix(shown[s], log) /\ (Loaded(s) => IsPrefix(memory[s].game, log))
    BY DEF IInv, MemoryTrue, ReadsTrue, Begins
  <2>2. \A s, t \in Servers : IsPrefix(shown[s], shown[t]) \/ IsPrefix(shown[t], shown[s])
    BY BeginningsComparable DEF IInv, ReadsTrue, TablesTrue, Begins, Histories
  <2>3. LoadedWhole
    BY DEF LoadedWhole, Loaded, IInv, MemoryTrue
  <2> QED
    BY <2>1, <2>2, <2>3 DEF LeasedRoomsTrue, ServersAgree
<1> QED
  BY <1>1, AlwaysIInv, PTL
=============================================================================
