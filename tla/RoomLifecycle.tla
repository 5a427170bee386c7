---------------------------- MODULE RoomLifecycle ----------------------------
(***************************************************************************)
(* Who sits where: the lobby, the start of a game, joining, leaving and    *)
(* switching rooms, lost connections, pausing, closing and lazy loading    *)
(* (packages/server/src/room-manager.ts with lobby.ts, room-lifecycle.ts,  *)
(* and the JOIN_ROOM .. UPDATE_ROOM_SETTINGS handlers).                    *)
(*                                                                         *)
(* Every handler works on JavaScript OBJECTS.  It finds one before it      *)
(* queues for the room (the target), looks the room up again when its turn *)
(* comes and falls back on the target if the map has lost it, clones it,   *)
(* persists the clone and only then copies the clone into the object.  So  *)
(* `objs` is the heap, `rooms` the manager's map and a job remembers       *)
(* indices: two objects of one room may exist at a time.                   *)
(*                                                                         *)
(* Kept abstract: time (a deadline that has been set may pass at any       *)
(* moment), names, chat, rules and the game itself.  There is one server,  *)
(* so claimRoom succeeds.  The room queue is the first-come lock of        *)
(* RoomQueue, taken in sorted order by switchRoom.                         *)
(***************************************************************************)
EXTENDS Integers, Sequences, FiniteSets, FiniteSetsExt, SequencesExt

CONSTANTS
  Rooms,       \* room ids, numbered in the order localeCompare sorts them
  Conns,       \* WebSocket connections; one serves again after it was closed
  Users,
  User,        \* User[conn]
  Bot,         \* occupant of a bot's seat
  None,
  MaxSeats,    \* seats of a room (4 in the code)
  MinPlayers,  \* settings.minPlayers (2 by default)
  Scenarios    \* what may happen, by the name of the scenario

NoRoom == 0
NoObj == 0
Joins == {"join", "watch"}
HostKinds == {"start", "addBot", "removeBot", "resize", "setFill"}
AllKinds == Joins \cup {"leave", "ready", "unready"} \cup HostKinds

ASSUME RoomsAssumption == Rooms \subseteq Nat \ {NoRoom} /\ IsFiniteSet(Rooms)
ASSUME WorkersAssumption == Conns \cap {"sweeper", "cleaner", "creator"} = {}
ASSUME UserAssumption == User \in [Conns -> Users] /\ Bot \notin Users /\ None \notin Users \cup {Bot}
ASSUME SeatsAssumption == MinPlayers \in 2 .. MaxSeats /\ MaxSeats \in Nat

\* A scenario names the requests clients make, the largest room created, and
\* bounds the rooms created, the requests, the connections lost, the entries
\* swept away as stale, store errors, presence-store errors, deadlines of empty
\* rooms, ends of games, automation pauses, server restarts, and the open rooms
\* a restarted server does not load.
Scenario ==
  [kinds : SUBSET AllKinds, size : 2 .. MaxSeats, create : Nat, ask : Nat, close : Nat,
   silence : Nat, failure : Nat, outage : Nat, expiry : Nat, finish : Nat, stall : Nat,
   restart : Nat, unloaded : Nat]
ASSUME ScenariosAssumption == \A s \in DOMAIN Scenarios : Scenarios[s] \in Scenario

Sweeper == "sweeper"  \* sweepStalePresence
Cleaner == "cleaner"  \* the scheduler's cleanup
Creator == "creator"  \* POST /rooms
Workers == Conns \cup {Sweeper, Cleaner, Creator}

VARIABLES
  store,  \* the rooms and room_seats tables
  objs,   \* room objects, oldest first
  rooms,  \* RoomManager.rooms: the object registered for a room
  line,   \* the calls in the room's queue, the head running
  job,    \* where each worker stands
  at,     \* client.roomId of each connection
  pres,   \* the presence store: the room of each connection
  scenario,
  left    \* what the scenario still allows

vars == <<store, objs, rooms, line, job, at, pres, scenario, left>>

Statuses == {"LOBBY", "IN_GAME", "FINISHED", "EXPIRED", "ABANDONED"}
Pauses == {"no", "EMPTY_ROOM", "STALLED_AUTOMATION"}
Seat == [who : Users \cup {Bot, None}, ready : BOOLEAN, on : BOOLEAN]
Seats == UNION {[1 .. n -> Seat] : n \in 2 .. MaxSeats}
Room == [status : Statuses, host : Users, seats : Seats, watchers : SUBSET Users,
         paused : Pauses,      \* pausedAt and pauseReason
         empty : BOOLEAN,      \* emptySince is set
         archived : BOOLEAN,   \* archivedAt is set
         fill : BOOLEAN]       \* settings.botFill
ASSUME NoneAssumption == None \notin Room

Phases == {"idle", "loading", "queued", "saving", "saved",
           "present", "parting", "syncing", "sweeping"}
Job == [kind : AllKinds \cup {"none", "sync", "cleanup"},
        room : Rooms \cup {NoRoom}, from : Rooms \cup {NoRoom}, arg : 0 .. MaxSeats,
        phase : Phases,
        read : SUBSET Rooms,                    \* rooms it reads from the store
        target : [Rooms -> Nat],                \* the objects it works on
        new : [Rooms -> Room \cup {None}],      \* the clones it persists
        ids : SUBSET Users,                     \* connected users, as read
        todo : Seq(Rooms)]                      \* rooms to sync or clean after

Idle == [kind |-> "none", room |-> NoRoom, from |-> NoRoom, arg |-> 0, phase |-> "idle",
         read |-> {}, target |-> [r \in Rooms |-> NoObj], new |-> [r \in Rooms |-> None],
         ids |-> {}, todo |-> <<>>]

TypeOK ==
  /\ store \in [Rooms -> Room \cup {None}]
  /\ objs \in Seq(Room)
  /\ rooms \in [Rooms -> 0 .. Len(objs)]
  /\ line \in [Rooms -> Seq(Workers)]
  /\ job \in [Workers -> Job]
  /\ at \in [Conns -> Rooms \cup {NoRoom}]
  /\ pres \in [Conns -> Rooms \cup {NoRoom}]
  /\ scenario \in DOMAIN Scenarios
  /\ left \in Scenario

Init ==
  /\ store = [r \in Rooms |-> None]
  /\ objs = <<>>
  /\ rooms = [r \in Rooms |-> NoObj]
  /\ line = [r \in Rooms |-> <<>>]
  /\ job = [w \in Workers |-> Idle]
  /\ at = [c \in Conns |-> NoRoom]
  /\ pres = [c \in Conns |-> NoRoom]
  /\ scenario \in DOMAIN Scenarios
  /\ left = Scenarios[scenario]

-----------------------------------------------------------------------------
(* A room and its seats.                                                   *)

Vacant == [who |-> None, ready |-> FALSE, on |-> FALSE]
SeatedBot == [who |-> Bot, ready |-> TRUE, on |-> TRUE]

Taken(m) == {i \in DOMAIN m.seats : m.seats[i].who # None}
Humans(m) == {i \in DOMAIN m.seats : m.seats[i].who \in Users}
SeatsOf(m, u) == {i \in DOMAIN m.seats : m.seats[i].who = u}
Open(m) == DOMAIN m.seats \ Taken(m)
\* connectedSeatedHumanCount is positive for these seats
Here(m) == {i \in Humans(m) : m.seats[i].on}
\* isLobbySeatConnected
Connected(m) == {i \in Taken(m) : m.seats[i].who = Bot \/ m.seats[i].on}
\* startableSeatsForRoom
Startable(m) == {i \in Connected(m) : m.seats[i].ready}
Closed(m) == m.archived \/ m.status \in {"EXPIRED", "ABANDONED"}

\* One more bot in every open seat.
FillBots(m) == [m EXCEPT !.seats = [i \in DOMAIN @ |-> IF i \in Open(m) THEN SeatedBot ELSE @[i]]]

\* canStartLobby, for a room known to be in its lobby.
CanStart(m) ==
  IF m.fill THEN Startable(m) = DOMAIN m.seats
  ELSE Cardinality(Startable(m)) >= MinPlayers /\ Connected(m) = Startable(m)

\* startRoom: whoever is not ready and connected loses the seat.
Start(m) ==
  [m EXCEPT !.status = "IN_GAME",
            !.seats = [i \in DOMAIN @ |-> IF i \in Startable(m) THEN @[i] ELSE Vacant]]

HostOf(m) == m.seats[Min(Humans(m))].who
LostHost(m) == m                        \* a slip: the host is not replaced
RepairHost(m) ==
  IF m.status # "LOBBY" \/ SeatsOf(m, m.host) # {} \/ Humans(m) = {} THEN m
  ELSE [m EXCEPT !.host = HostOf(m)]

\* resumeRoomIfNeeded
Resume(m) ==
  IF m.paused = "STALLED_AUTOMATION" \/ Here(m) = {} THEN m
  ELSE [m EXCEPT !.paused = "no", !.empty = FALSE]

\* The tail that applyDeparture and syncConnectionsNow share.
Settle(m) ==
  IF Here(m) # {} THEN [Resume(m) EXCEPT !.empty = @ /\ m.status = "IN_GAME"]
  ELSE IF m.status = "IN_GAME"
       THEN IF m.paused = "no" THEN [m EXCEPT !.paused = "EMPTY_ROOM", !.empty = TRUE] ELSE m
       ELSE IF m.status \in {"LOBBY", "FINISHED"} THEN [m EXCEPT !.empty = TRUE] ELSE m

\* A slip: whoever has a seat already gets another.
JoinTwice(m, u, watch) ==
  IF watch \/ m.status # "LOBBY" THEN {[m EXCEPT !.watchers = @ \cup {u}]}
  ELSE {[m EXCEPT !.seats[i] = [@ EXCEPT !.who = u, !.on = TRUE]] : i \in Open(m)}
\* joinCandidate: the room with u in it, or nothing when it is full.
JoinCandidate(m, u, watch) ==
  IF SeatsOf(m, u) # {}
  THEN {Resume(RepairHost([m EXCEPT !.seats[Min(SeatsOf(m, u))].on = TRUE]))}
  ELSE IF watch \/ m.status # "LOBBY"
       THEN {[m EXCEPT !.watchers = @ \cup {u}]}
       ELSE {RepairHost([m EXCEPT !.seats[i] = [@ EXCEPT !.who = u, !.on = TRUE]]) :
               i \in {j \in Open(m) : \A k \in Open(m) : j <= k}}

\* applyDeparture
Depart(m, u) ==
  LET lobby == m.status = "LOBBY"
      gone == [m EXCEPT
        !.watchers = @ \ {u},
        !.seats = [i \in DOMAIN @ |->
          IF i \notin SeatsOf(m, u) THEN @[i]
          ELSE IF lobby THEN Vacant ELSE [@[i] EXCEPT !.ready = FALSE, !.on = FALSE]]]
  IN Settle(IF lobby /\ m.host = u /\ Humans(gone) # {}
            THEN [gone EXCEPT !.host = HostOf(gone)] ELSE gone)

\* syncConnectionsNow, seat by seat.
Resynced(seat, here, lobby) == [seat EXCEPT !.on = here, !.ready = @ /\ (here \/ ~lobby)]
Sync(m, ids) ==
  Settle([m EXCEPT
    !.watchers = @ \cap ids,
    !.seats = [i \in DOMAIN @ |->
      IF i \in Humans(m) THEN Resynced(@[i], m.seats[i].who \in ids, m.status = "LOBBY") ELSE @[i]]])

Unwatched(m) == m.watchers = {}         \* a slip: only spectators count
\* A finished game is kept for its spectators too (cleanupDueAt).
Unattended(m) == Here(m) = {} /\ (m.status = "FINISHED" => m.watchers = {})

\* applyRoomCleanupPolicy; `due`: the time-to-live has passed since emptySince.
Cleanup(m, due) ==
  LET empty == Unattended(m)
      over == empty /\ due /\ m.empty
  IN CASE m.status = "LOBBY" ->
            [m EXCEPT !.empty = empty, !.archived = over,
                      !.status = IF over THEN "EXPIRED" ELSE @]
       [] m.status = "IN_GAME" /\ empty ->
            [m EXCEPT !.empty = TRUE, !.archived = over,
                      !.paused = IF @ = "no" THEN "EMPTY_ROOM" ELSE @,
                      !.status = IF over THEN "ABANDONED" ELSE @]
       [] m.status = "IN_GAME" /\ ~empty -> Resume(m)
       [] m.status = "FINISHED" -> [m EXCEPT !.empty = empty, !.archived = over]
       [] OTHER -> m

\* setReadyNow: the last ready of a bot-filled lobby starts the game.
SetReady(m, u, ready) ==
  LET seated == [m EXCEPT !.seats = [i \in DOMAIN @ |->
                   IF i \in SeatsOf(m, u) THEN [@[i] EXCEPT !.ready = ready, !.on = TRUE] ELSE @[i]]]
      filled == IF m.fill THEN FillBots(seated) ELSE seated
  IN IF SeatsOf(m, u) = {} THEN {}
     ELSE {IF m.fill /\ CanStart(filled) THEN Start(filled) ELSE filled}

\* startRoomByHostNow
StartByHost(m) ==
  LET filled == IF m.fill THEN FillBots(m) ELSE m
  IN IF CanStart(filled) THEN {Start(filled)} ELSE {}

\* addLobbyBotNow and removeLobbyBotNow
AddBot(m) == {[m EXCEPT !.seats[i] = SeatedBot, !.fill = FALSE] :
                i \in {j \in Open(m) : \A k \in Open(m) : j <= k}}
RemoveBot(m, i) ==
  IF i \in SeatsOf(m, Bot) THEN {[m EXCEPT !.seats[i] = Vacant, !.fill = FALSE]} ELSE {}

\* applyLobbySettings: every effective change takes the humans' readiness back.
Rearranged(seat, changed) ==
  IF seat.who = Bot THEN SeatedBot ELSE [seat EXCEPT !.ready = @ /\ ~changed]
Settings(m, size, fill) ==
  LET changed == size # Len(m.seats) \/ fill # m.fill
      seat(i) == IF i \in DOMAIN m.seats THEN m.seats[i] ELSE Vacant
  IN IF size >= MinPlayers /\ \A i \in Taken(m) : i <= size
     THEN {[m EXCEPT !.fill = fill, !.seats = [i \in 1 .. size |-> Rearranged(seat(i), changed)]]}
     ELSE {}

\* What a request of user u makes of the room; nothing when it is refused.
Outcome(kind, arg, u, m) ==
  IF kind \in Joins THEN IF Closed(m) THEN {} ELSE JoinCandidate(m, u, kind = "watch")
  ELSE IF kind = "leave" THEN {Depart(m, u)}
  ELSE IF m.status # "LOBBY" \/ (kind \in HostKinds /\ m.host # u) THEN {}
  ELSE CASE kind \in {"ready", "unready"} -> SetReady(m, u, kind = "ready")
         [] kind = "start" -> StartByHost(m)
         [] kind = "addBot" -> AddBot(m)
         [] kind = "removeBot" -> RemoveBot(m, arg)
         [] kind = "resize" -> Settings(m, arg, m.fill)
         [] kind = "setFill" -> Settings(m, Len(m.seats), ~m.fill)

\* createRoom: the host gets the first seat, not yet connected.
NewRoom(u, size, fill) ==
  [status |-> "LOBBY", host |-> u, watchers |-> {}, paused |-> "no", empty |-> FALSE,
   archived |-> FALSE, fill |-> fill,
   seats |-> [i \in 1 .. size |-> IF i = 1 THEN [Vacant EXCEPT !.who = u] ELSE Vacant]]

\* The columns of a room; and the room rebuilt from them (roomFromStoredRecord).
Durable(m) == [m EXCEPT !.watchers = {}]
Restored(rec) == [rec EXCEPT !.seats = [i \in DOMAIN @ |-> [@[i] EXCEPT !.on = FALSE]]]

-----------------------------------------------------------------------------
(* The steps of a request.                                                 *)

Spend(b) == left[b] > 0 /\ left' = [left EXCEPT ![b] = @ - 1]
Happened(b) == left[b] < Scenarios[scenario][b]

Held(j) == {j.room, j.from} \ {NoRoom}
Unqueued(w) == job[w].phase = "queued"  \* a slip: nobody waits for a turn
\* The worker's task runs: it heads the queue of every room it names.
Running(w) ==
  /\ job[w].phase = "queued"
  /\ \A r \in Held(job[w]) : line[r] # <<>> /\ Head(line[r]) = w
Dequeued(w) == [r \in Rooms |-> IF line[r] # <<>> /\ Head(line[r]) = w THEN Tail(line[r]) ELSE line[r]]
Queue(w, r) == line' = [line EXCEPT ![r] = Append(@, w)]

\* roomForRef(id) ?? targetRoom
Obj(w, r) == IF rooms[r] # NoObj THEN rooms[r] ELSE job[w].target[r]

\* A message arrives at an idle connection.  ensureRoomLoadedByRef takes the
\* registered object, or starts reading the stored room.
Ask(c) ==
  \E kind \in left.kinds, r \in Rooms, arg \in 0 .. MaxSeats :
    LET from == IF kind \in Joins /\ at[c] # r THEN at[c] ELSE NoRoom
        named == {r, from} \ {NoRoom}
        read == SetToSeq({q \in named : rooms[q] = NoObj})
    IN /\ job[c].phase = "idle"
       /\ Spend("ask")
       /\ store[r] # None
       /\ kind \notin Joins => at[c] = r
       /\ CASE kind = "removeBot" -> arg > 0 [] kind = "resize" -> arg > 1 [] OTHER -> arg = 0
       /\ objs' = objs \o [i \in DOMAIN read |-> Restored(store[read[i]])]
       /\ job' = [job EXCEPT ![c] = [Idle EXCEPT
            !.kind = kind, !.room = r, !.from = from, !.arg = arg, !.phase = "loading",
            !.read = ToSet(read),
            !.target = [q \in Rooms |->
               IF q \notin named THEN NoObj
               ELSE IF rooms[q] # NoObj THEN rooms[q]
               ELSE Len(objs) + (CHOOSE i \in DOMAIN read : read[i] = q)]]]
       /\ UNCHANGED <<store, rooms, line, at, pres>>

\* The room is there: register it unless it is closed, whatever has been
\* registered meanwhile; then the checks before the queue.
Loaded(c) ==
  LET j == job[c]
      registered == [q \in Rooms |->
        IF q \in j.read /\ ~Closed(objs[j.target[q]]) THEN j.target[q] ELSE rooms[q]]
      elsewhere == \E q \in Rooms \ {j.room} :
        /\ registered[q] # NoObj /\ objs[registered[q]].status = "IN_GAME"
        /\ SeatsOf(objs[registered[q]], User[c]) # {}
      refused == \/ j.kind \in Joins /\ j.from = NoRoom /\ elsewhere
                 \/ j.kind \in {"leave", "ready", "unready"} /\ Closed(objs[j.target[j.room]])
  IN /\ j.phase = "loading"
     /\ rooms' = registered
     /\ IF refused
        THEN job' = [job EXCEPT ![c] = Idle] /\ UNCHANGED line
        ELSE job' = [job EXCEPT ![c].phase = "queued", ![c].read = {}] /\ Queue(c, Min(Held(j)))
     /\ UNCHANGED <<store, objs, at, pres, left>>

\* enqueueRooms: having the first room, queue for the second.
QueueSecond(c) ==
  /\ job[c].phase = "queued" /\ Cardinality(Held(job[c])) = 2
  /\ line[Min(Held(job[c]))] # <<>> /\ Head(line[Min(Held(job[c]))]) = c
  /\ c \notin ToSet(line[Max(Held(job[c]))])
  /\ Queue(c, Max(Held(job[c])))
  /\ UNCHANGED <<store, objs, rooms, job, at, pres, left>>

\* What the worker does after its task: a join announces the connection to the
\* presence store, a leave takes it back.
KeptOpen(j) == FALSE                    \* a slip: a closed room stays in the map
Closes(j) == j.kind = "cleanup" /\ j.new[j.room] # None /\ Closed(j.new[j.room])
Then(w) ==
  LET j == job[w]
      synced == IF j.todo = <<>> THEN Idle ELSE [Idle EXCEPT !.phase = "syncing", !.todo = j.todo]
  IN CASE j.kind \in Joins ->
            [Idle EXCEPT !.phase = "present",
               !.todo = (IF j.from = NoRoom THEN <<>> ELSE <<j.from>>) \o <<j.room>>]
       [] j.kind = "leave" -> [Idle EXCEPT !.phase = "parting"]
       [] j.kind = "sync" -> synced
       [] j.kind = "cleanup" /\ w = Creator -> [Idle EXCEPT !.phase = "sweeping", !.todo = j.todo]
       [] OTHER -> Idle

\* closeRoomClients: the scheduler detaches the clients of a room it has closed,
\* createRoom ignores what its cleanup closed.
Evicted(w) == {c \in Conns : w = Cleaner /\ Closes(job[w]) /\ at[c] = job[w].room}

\* The task ends well: the room queue moves on.  A join attaches the
\* connection, a leave detaches it, cleanup drops a closed room from the map.
Conclude(w) ==
  LET j == job[w] IN
  /\ job' = [job EXCEPT ![w] = Then(w)]
  /\ line' = Dequeued(w)
  /\ at' = CASE j.kind \in Joins -> [at EXCEPT ![w] = j.room]
             [] j.kind = "leave" -> [at EXCEPT ![w] = IF @ = j.room THEN NoRoom ELSE @]
             [] OTHER -> [c \in Conns |-> IF c \in Evicted(w) THEN NoRoom ELSE at[c]]
  /\ rooms' = IF Closes(j) THEN [rooms EXCEPT ![j.room] = NoObj] ELSE rooms

\* The task ends in an error or a refusal; of a sequence of syncs the rest is skipped.
GiveUp(w) ==
  /\ job' = [job EXCEPT ![w] = Idle]
  /\ line' = Dequeued(w)
  /\ UNCHANGED <<at, rooms>>

\* The task has cloned these objects and changed the clones.
StartSave(w, clones) ==
  /\ job' = [job EXCEPT ![w].phase = "saving", ![w].new = clones,
                        ![w].target = [r \in Rooms |-> IF clones[r] = None THEN NoObj ELSE Obj(w, r)]]
  /\ UNCHANGED <<line, at, rooms>>
Clone(r, m) == [q \in Rooms |-> IF q = r THEN m ELSE None]

\* A request about one room: joinRoomNow, leaveRoomNow, setReadyNow,
\* startRoomByHostNow, addLobbyBotNow, removeLobbyBotNow, updateRoomSettingsNow.
Serve(c) ==
  LET j == job[c]
      m == objs[Obj(c, j.room)]
      made == Outcome(j.kind, j.arg, User[c], m)
  IN /\ Running(c) /\ j.kind \in AllKinds /\ j.from = NoRoom
     /\ CASE made = {} -> GiveUp(c)
          [] j.kind = "leave" /\ made = {m} -> Conclude(c)
          [] OTHER -> StartSave(c, Clone(j.room, CHOOSE x \in made : TRUE))
     /\ UNCHANGED <<store, objs, pres, left>>

\* switchRoom's task.
ClosedOnly(m, u) == Closed(m)           \* a slip: a seat in a game binds nobody
Barred(m, u) == Closed(m) \/ (m.status # "LOBBY" /\ SeatsOf(m, u) # {})
Switch(c) ==
  LET j == job[c]
      prev == objs[Obj(c, j.from)]
      dest == objs[Obj(c, j.room)]
      made == IF Barred(prev, User[c]) THEN {} ELSE Outcome(j.kind, j.arg, User[c], dest)
  IN /\ Running(c) /\ j.from # NoRoom
     /\ IF made = {} THEN GiveUp(c)
        ELSE StartSave(c, [Clone(j.room, CHOOSE x \in made : TRUE)
                             EXCEPT ![j.from] = Depart(prev, User[c])])
     /\ UNCHANGED <<store, objs, pres, left>>

\* syncConnectionsNow with the users read before queueing.
ServeSync(w) ==
  LET j == job[w]
      m == objs[Obj(w, j.room)]
  IN /\ Running(w) /\ j.kind = "sync"
     /\ IF Sync(m, j.ids) = m THEN Conclude(w) ELSE StartSave(w, Clone(j.room, Sync(m, j.ids)))
     /\ UNCHANGED <<store, objs, pres, left>>

\* The task of cleanupRooms, before and after the deadline.
ServeCleanup(w, due) ==
  LET j == job[w]
      m == objs[rooms[j.room]]
  IN /\ Running(w) /\ j.kind = "cleanup"
     /\ IF rooms[j.room] = NoObj \/ m.archived \/ Cleanup(m, due) = m
        THEN ~due /\ Conclude(w) /\ UNCHANGED left
        ELSE /\ StartSave(w, Clone(j.room, Cleanup(m, due)))
             /\ IF due THEN Closed(Cleanup(m, due)) /\ Spend("expiry") ELSE UNCHANGED left
     /\ UNCHANGED <<store, objs, pres>>

\* persistRoom, persistRooms or persistMatchStart: one transaction.
Saved(w) == [r \in Rooms |-> IF job[w].new[r] = None THEN store[r] ELSE Durable(job[w].new[r])]
Persist(w) ==
  /\ job[w].phase = "saving"
  /\ store' = Saved(w)
  /\ job' = [job EXCEPT ![w].phase = "saved"]
  /\ UNCHANGED <<objs, rooms, line, at, pres, left>>

PersistFails(w) ==
  /\ job[w].phase = "saving"
  /\ Spend("failure")
  /\ GiveUp(w)
  /\ UNCHANGED <<store, objs, pres>>

\* replaceRoomState, then the end of the task; a closed room is dropped instead.
Unreplaced(w) == objs                   \* a slip: the object keeps its old state
Replaced(w) ==
  [i \in DOMAIN objs |->
     IF \E r \in Rooms : job[w].new[r] # None /\ job[w].target[r] = i /\ ~Closes(job[w])
     THEN job[w].new[CHOOSE r \in Rooms : job[w].target[r] = i] ELSE objs[i]]
Apply(w) ==
  /\ job[w].phase = "saved"
  /\ objs' = Replaced(w)
  /\ Conclude(w)
  /\ UNCHANGED <<store, pres, left>>

-----------------------------------------------------------------------------
(* Connections and the presence store.                                     *)

PresentIn(r) == {User[c] : c \in {d \in Conns : pres[d] = r}}
AttachedTo(r) == {User[c] : c \in {d \in Conns : at[d] = r}}

\* presence.joinRoom, then the rooms are synced.
Announce(c) ==
  /\ job[c].phase = "present"
  /\ pres' = [pres EXCEPT ![c] = job[c].todo[Len(job[c].todo)]]
  /\ job' = [job EXCEPT ![c].phase = "syncing"]
  /\ UNCHANGED <<store, objs, rooms, line, at, left>>

\* It fails: the error is logged and nothing is synced.
AnnounceFails(c) ==
  /\ job[c].phase = "present"
  /\ Spend("outage")
  /\ job' = [job EXCEPT ![c] = Idle]
  /\ UNCHANGED <<store, objs, rooms, line, at, pres>>

\* The connection is lost: untrack it, leave the presence store.
Close(c) ==
  /\ job[c].phase = "idle" /\ at[c] # NoRoom
  /\ Spend("close")
  /\ at' = [at EXCEPT ![c] = NoRoom]
  /\ job' = [job EXCEPT ![c] = [Idle EXCEPT !.phase = "parting", !.todo = <<at[c]>>]]
  /\ UNCHANGED <<store, objs, rooms, line, pres>>

\* presence.disconnect, after a leave or a close; a close syncs the room.
AfterParting(c) == IF job[c].todo = <<>> THEN Idle ELSE [job[c] EXCEPT !.phase = "syncing"]
StillPresent(c) ==                      \* a slip: the presence entry stays
  /\ job[c].phase = "parting"
  /\ job' = [job EXCEPT ![c] = AfterParting(c)]
  /\ UNCHANGED <<store, objs, rooms, line, at, pres, left>>
Part(c) ==
  /\ job[c].phase = "parting"
  /\ pres' = [pres EXCEPT ![c] = NoRoom]
  /\ job' = [job EXCEPT ![c] = AfterParting(c)]
  /\ UNCHANGED <<store, objs, rooms, line, at, left>>

\* Queue for syncConnections(r, ids), unless the room is gone.
QueueSync(w, r, ids) ==
  IF rooms[r] = NoObj
  THEN /\ job' = [job EXCEPT ![w] = IF Tail(@.todo) = <<>> THEN Idle ELSE [@ EXCEPT !.todo = Tail(job[w].todo)]]
       /\ UNCHANGED line
  ELSE /\ job' = [job EXCEPT ![w] = [Idle EXCEPT
             !.kind = "sync", !.phase = "queued", !.room = r, !.ids = ids,
             !.target[r] = rooms[r], !.todo = Tail(job[w].todo)]]
       /\ Queue(w, r)

\* presence.disconnect fails: a close goes by the local sockets.
PartFails(c) ==
  /\ job[c].phase = "parting"
  /\ Spend("outage")
  /\ IF job[c].todo = <<>> THEN job' = [job EXCEPT ![c] = Idle] /\ UNCHANGED line
     ELSE QueueSync(c, Head(job[c].todo), AttachedTo(Head(job[c].todo)))
  /\ UNCHANGED <<store, objs, rooms, at, pres>>

\* Read the room's users from the presence store and ask for a sync.
ReadPresence(w) ==
  /\ job[w].phase = "syncing"
  /\ QueueSync(w, Head(job[w].todo), PresentIn(Head(job[w].todo)))
  /\ UNCHANGED <<store, objs, rooms, at, pres, left>>

\* PING refreshes the presence entry, and restores it if it was lost.
Ping(c) ==
  /\ job[c].phase = "idle" /\ at[c] # NoRoom
  /\ pres' = [pres EXCEPT ![c] = at[c]]
  /\ UNCHANGED <<store, objs, rooms, line, job, at, left>>

\* sweepStalePresence finds an entry stale: that of a connection which has been
\* silent, whatever it is doing, or the one a detached connection left behind.
Orphan(c) == job[c].phase = "idle" /\ at[c] = NoRoom
SweepPresence(c) ==
  /\ job[Sweeper].phase = "idle" /\ pres[c] # NoRoom
  /\ IF Orphan(c) THEN UNCHANGED left ELSE Spend("silence")
  /\ pres' = [pres EXCEPT ![c] = NoRoom]
  /\ at' = [at EXCEPT ![c] = NoRoom]
  /\ job' = [job EXCEPT ![Sweeper] = [Idle EXCEPT !.phase = "syncing", !.todo = <<pres[c]>>]]
  /\ UNCHANGED <<store, objs, rooms, line>>

-----------------------------------------------------------------------------
(* The scheduler, the creation of rooms, the game, restarts.               *)

QueueCleanup(w, r, todo) ==
  /\ job' = [job EXCEPT ![w] = [Idle EXCEPT !.kind = "cleanup", !.phase = "queued",
                                            !.room = r, !.todo = todo]]
  /\ Queue(w, r)

\* tickCleanup takes the rooms with a deadline to watch, one at a time.
CleanUp(r) ==
  /\ job[Cleaner].phase = "idle" /\ rooms[r] # NoObj /\ Unattended(objs[rooms[r]])
  /\ QueueCleanup(Cleaner, r, <<>>)
  /\ UNCHANGED <<store, objs, rooms, at, pres, left>>

\* createRoom first cleans up every room of the map.
BeginCreate ==
  /\ job[Creator].phase = "idle" /\ left.create > 0
  /\ \E r \in Rooms : store[r] = None
  /\ job' = [job EXCEPT ![Creator] = [Idle EXCEPT !.phase = "sweeping",
               !.todo = SetToSeq({r \in Rooms : rooms[r] # NoObj})]]
  /\ UNCHANGED <<store, objs, rooms, line, at, pres, left>>

CleanBefore ==
  /\ job[Creator].phase = "sweeping" /\ job[Creator].todo # <<>>
  /\ QueueCleanup(Creator, Head(job[Creator].todo), Tail(job[Creator].todo))
  /\ UNCHANGED <<store, objs, rooms, at, pres, left>>

\* Then it persists and registers the room, whose id nobody knows yet.
Create(u, size, fill) ==
  LET r == Min({q \in Rooms : store[q] = None}) IN
  /\ job[Creator].phase = "sweeping" /\ job[Creator].todo = <<>>
  /\ store' = [store EXCEPT ![r] = NewRoom(u, size, fill)]
  /\ objs' = Append(objs, NewRoom(u, size, fill))
  /\ rooms' = [rooms EXCEPT ![r] = Len(objs) + 1]
  /\ job' = [job EXCEPT ![Creator] = Idle]
  /\ Spend("create")
  /\ UNCHANGED <<line, at, pres>>

CreateFails ==
  /\ job[Creator].phase = "sweeping" /\ job[Creator].todo = <<>>
  /\ Spend("failure")
  /\ job' = [job EXCEPT ![Creator] = Idle]
  /\ UNCHANGED <<store, objs, rooms, line, at, pres>>

\* A task of the game itself, between the requests: m becomes `made`.
InGame(r, made) ==
  /\ line[r] = <<>>
  /\ objs' = [objs EXCEPT ![rooms[r]] = made]
  /\ store' = [store EXCEPT ![r] = Durable(made)]
  /\ UNCHANGED <<rooms, line, job, at, pres>>
Playing(r) == rooms[r] # NoObj /\ objs[rooms[r]].status = "IN_GAME" /\ objs[rooms[r]].paused = "no"

\* A player wins (see CommandPipeline for the commit).
Finish(r) == Playing(r) /\ Spend("finish") /\ InGame(r, [objs[rooms[r]] EXCEPT !.status = "FINISHED"])
\* guardAutomationProgress gives the room up.
Stall(r) == Playing(r) /\ Spend("stall") /\ InGame(r, [objs[rooms[r]] EXCEPT !.paused = "STALLED_AUTOMATION"])

\* The server restarts and hydrates the open rooms, all but a few: those
\* beyond the limit, or leased to the process it replaces.
Hydratable == {r \in Rooms : store[r] # None /\ ~Closed(store[r])}
Restart ==
  \E kept \in SUBSET Hydratable :
    LET order == SetToSeq(kept) IN
    /\ Cardinality(Hydratable \ kept) <= left.unloaded
    /\ Spend("restart")
    /\ objs' = [i \in DOMAIN order |-> Restored(store[order[i]])]
    /\ rooms' = [r \in Rooms |-> IF r \in kept THEN CHOOSE i \in DOMAIN order : order[i] = r ELSE NoObj]
    /\ line' = [r \in Rooms |-> <<>>]
    /\ job' = [w \in Workers |-> Idle]
    /\ at' = [c \in Conns |-> NoRoom]
    /\ pres' = [c \in Conns |-> NoRoom]
    /\ UNCHANGED store

-----------------------------------------------------------------------------
\* What the event loop, the store and the presence store get round to.
Progress(w) ==
  \/ w \in Conns /\ (Loaded(w) \/ QueueSecond(w) \/ Serve(w) \/ Switch(w) \/ Announce(w) \/ Part(w))
  \/ ServeSync(w) \/ ServeCleanup(w, FALSE) \/ Persist(w) \/ Apply(w) \/ ReadPresence(w)
  \/ w = Creator /\ (CleanBefore \/ \E u \in Users, n \in 2 .. left.size, fill \in BOOLEAN : Create(u, n, fill))

Request(c) == Ask(c) \/ Close(c) \/ Ping(c)
Failure(w) ==
  \/ PersistFails(w)
  \/ w \in Conns /\ (AnnounceFails(w) \/ PartFails(w) \/ SweepPresence(w))
  \/ w = Creator /\ CreateFails

Next ==
  /\ \/ \E w \in Workers : Progress(w) \/ Failure(w) \/ ServeCleanup(w, TRUE)
     \/ \E c \in Conns : Request(c)
     \/ \E r \in Rooms : CleanUp(r) \/ Finish(r) \/ Stall(r)
     \/ BeginCreate \/ Restart
  /\ UNCHANGED scenario

\* Continuations run, store and presence calls settle, the scheduler calls
\* cleanup again and again, the deadline of a room that stays empty passes, and
\* so does that of a presence entry nobody refreshes.
Fairness ==
  /\ \A w \in Workers : WF_vars(UNCHANGED scenario /\ Progress(w))
  /\ \A r \in Rooms : SF_vars(UNCHANGED scenario /\ CleanUp(r))
  /\ SF_vars(UNCHANGED scenario /\ ServeCleanup(Cleaner, TRUE))
  /\ \A c \in Conns : SF_vars(UNCHANGED scenario /\ Orphan(c) /\ SweepPresence(c))

Spec == Init /\ [][Next]_vars /\ Fairness

-----------------------------------------------------------------------------
Quiet == \A w \in Workers : job[w].phase = "idle"
InMemory == {r \in Rooms : rooms[r] # NoObj}
In(r) == objs[rooms[r]]
Seated(m, u) == m # None /\ SeatsOf(m, u) # {}

\* A lobby with people in it is led by one of them, whoever has left, switched
\* away or come in meanwhile: somebody can always start the game.
HostPresent ==
  \A r \in InMemory : (In(r).status = "LOBBY" /\ Humans(In(r)) # {}) => Seated(In(r), In(r).host)

\* Nobody sits twice in a room.
OneSeatEach == \A r \in InMemory, u \in Users : Cardinality(SeatsOf(In(r), u)) <= 1

\* A user plays in one game at a time.
OneGameEach ==
  \A u \in Users : Cardinality({r \in Rooms : /\ store[r] # None /\ store[r].status = "IN_GAME"
                                              /\ Seated(store[r], u)}) <= 1

\* Joining or switching gives nobody a seat beside the one in a running game,
\* though the check reads other rooms than those whose queues the join holds.
NoSeatBesideGame ==
  [][\A c \in Conns, r \in Rooms :
       (/\ job[c].kind \in Joins /\ job[c].phase = "saving" /\ job'[c].phase = "saved"
        /\ ~Seated(store[r], User[c]) /\ Seated(store'[r], User[c]))
         => \A q \in Rooms \ {r} :
              Seated(store[q], User[c]) => store[q].status # "IN_GAME"]_vars

\* Between a commit and its application nothing else happens to a room:
\* otherwise memory and the store agree on everything that survives a restart.
\* Not so once cleanup has closed a room: a join queued behind it revives the
\* object that cleanup dropped (ClosedForGood).
Columns(m) == Restored(Durable(m))
MemoryIsStore ==
  ~Happened("expiry") => \A r \in InMemory : (\A w \in Workers : ~(job[w].phase = "saved" /\ job[w].new[r] # None))
                        => Columns(In(r)) = Restored(store[r])

\* Once everything has settled, the people a room lists as connected are those
\* with a connection in it: players exactly, spectators at most.  Not so after a
\* sync was lost to an error, a connection swept away during a request, or a
\* leave crossed by a sync.
Undisturbed ==
  /\ ~Happened("failure") /\ ~Happened("outage") /\ ~Happened("silence")
  /\ "leave" \notin left.kinds
ConnectionsExact ==
  (Quiet /\ Undisturbed) => \A r \in InMemory :
    /\ {In(r).seats[i].who : i \in Here(In(r))} = AttachedTo(r) \cap {In(r).seats[i].who : i \in Humans(In(r))}
    /\ In(r).watchers \subseteq AttachedTo(r)

\* Once everything has settled nobody is attached to a closed room.
NobodyInClosedRoom == Quiet => \A c \in Conns : at[c] # NoRoom => ~Closed(store[at[c]])

\* Once everything has settled, connections and rooms agree, and the rooms are open.
ConnectionsSettled == ConnectionsExact /\ NobodyInClosedRoom

\* In every order of requests, whatever fails and however many objects a room
\* has meanwhile: rooms are led by one of their own and nobody sits there twice.
SeatsInOrder == HostPresent /\ OneSeatEach

\* A player's seat is taken away only at the player's own request, or when the
\* game starts without being ready there.  (Nor so of the rooms cleanup closed.)
SeatsKept ==
  [][~Happened("expiry") => \A r \in Rooms, u \in Users :
       (Seated(store[r], u) /\ ~Seated(store'[r], u)) =>
         \E c \in Conns : /\ job[c].phase = "saving" /\ job'[c].phase = "saved"
                          /\ \/ User[c] = u /\ r \in {job[c].room, job[c].from}
                             \/ store[r].status = "LOBBY" /\ store'[r].status = "IN_GAME"]_vars

\* No room is closed under a seated player whose connection has settled there.
NeverClosedUnderPlayer ==
  [][\A c \in Conns :
       (at[c] # NoRoom /\ job[c].phase = "idle" /\ Seated(store[at[c]], User[c])
          /\ ~Closed(store[at[c]]))
         => ~Closed(store'[at[c]])]_vars

\* A game keeps its players, and its players keep to it.
SeatsHonoured == NoSeatBesideGame /\ NeverClosedUnderPlayer

\* A closed room stays closed.
ClosedForGood ==
  [][\A r \in Rooms : (store[r] # None /\ Closed(store[r])) => Closed(store'[r])]_vars

\* A game that everybody has left or lost the connection to is paused.
Deserted(r) == rooms[r] # NoObj /\ In(r).status = "IN_GAME" /\ In(r).paused = "no" /\ AttachedTo(r) = {}
DesertedGamesPause == \A r \in Rooms : Deserted(r) ~> ~Deserted(r)

\* No room stays in memory for ever with nobody attached to it, as long as
\* deadlines may pass.
DesertedRoomsUnload ==
  \A r \in Rooms : []<>(rooms[r] = NoObj \/ AttachedTo(r) # {} \/ left.expiry = 0)

\* Whatever leaves, is cut off or swept away, and in whatever order: a room
\* without people comes to rest, first paused and then unloaded.
DesertedRoomsSettle == DesertedGamesPause /\ DesertedRoomsUnload
=============================================================================
