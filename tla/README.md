# Colonizt in TLA+

Formal models of the colonizt game server and its web client: what happens to a
room and to a player's command between the browser tab and the durable log, under
concurrency, lost connections, retries, crashes and store errors. TLC checks the
models on small instances; TLAPS proves the central safety properties for every
value of the constants. Beside the rooms and commands there are models of the rules of
the game, of what players are shown, of the bots, the clock and the scheduler, of two
servers and their leases, and of the browser's page.

    tlc -workers 2 -config MCPipelineCrash.cfg MCCommandPipeline
    tlapm CommandTabProofs.tla

All paths below are relative to `src/packages/`.

## 1. The system

| Component | State | Operations | Talks to |
|---|---|---|---|
| Room manager (`server/src/room-manager.ts`) | `rooms`, each with seats, game state, events, processed commands, timer, trade deadlines; `roomQueues` | create, join, leave, switch, ready, settings, bots, start, submitCommand, expireTurn, runDueBotAutomation, syncConnections, cleanupRooms, hydrateFromStore | store, lease store, due-work indexes |
| Room queue (`enqueueRoom`, `enqueueRooms`) | one promise chain per room | acquire, run, release | every mutation of a room |
| WebSocket handler (`server/src/index.ts`, `websocket-transport.ts`) | per connection: joined room, `transitionTail` | JOIN_ROOM, COMMAND, RESYNC, READY, LEAVE_ROOM, CHAT, PING, close | room manager, presence, socket registry, rate limiter |
| Socket registry, presence, tickets (`socket-registry.ts`, `presence.ts`, `websocket-tickets.ts`) | sockets per room, presence per user, one-time tickets | attach, detach, broadcast; connect, join, sweep; issue, consume | WebSocket handler |
| Idempotency (`command-idempotency.ts`) | verdict per (room, user, clientSeq) with a payload hash | look up, replay | room manager, store |
| Event store (`event-store.ts`, `db/src/index.ts`) | `match_events`, `command_results`, `match_snapshots`, `rooms`, `sessions`, `room_leases` | commitMatchEvents (one transaction), upsertCommandResult, persistRoom, loadRooms | PostgreSQL |
| Hydration (`replay-hydration.ts`, `game-core/src/replay.ts`) | – | rebuild a game from snapshot and events | store, reducer |
| Scheduler and automation (`scheduler.ts`, `due-work.ts`, `bot-automation.ts`) | two heaps of due rooms, failure streaks, progress keys, command budgets | tickAutomation, tickCleanup | room manager |
| Room lifecycle (`room-lifecycle.ts`, `lobby.ts`) | room status, `pausedAt`, `emptySince` | pause, resume, expire, abandon, archive | room manager |
| Ownership (`ownership.ts`) | lease per room | acquire, release | every mutation of a room |
| Rules engine (`game-core/src/engine.ts`, `event-reducer.ts`) | `GameState` | applyCommand, reduceEvent | room manager, bots |
| Session controller (`web/src/session-controller.ts`, `resume.ts`, `network.ts`) | pending command, next clientSeq, last server seq, ack, epoch; resume state in localStorage | send, retransmit, ack, resync, reconnect, reload | WebSocket |

What is hard about it, and what makes it correct:

- **Room queue.** Every handler runs through `await`s; two tasks of one room must
  never interleave, a call over two rooms must not deadlock with its mirror image,
  and the map of tails must neither leak nor lose a waiter.
- **Commands.** A command crosses a socket that may die at any point; the client
  persists it and retransmits it on every new connection, possibly to a server that
  has restarted meanwhile. It must take effect at most once, only on the table the
  player was looking at, and what the player is told must be true and stay true.
- **Commits.** Events and verdict must become durable together, before anybody
  hears of them; the transaction may fail, and may fail after having committed.
- **What a tab shows** must never be taken back, and never go backwards.
- **Lifecycle and automation.** Rooms pause, resume, expire and are reloaded while
  joins, leaves, sweeps and timers are queued for them; work that is due must be
  noticed; a legitimately waiting room must not be mistaken for a stuck one.

`PROJECT.json` lists the hazards one by one, at their lines.

## 2. The modules

| Module | Models | Checked by run | Section |
|---|---|---|---|
| `RoomQueue` ⇒ `RoomLocks` | the per-room promise chain | `room_queue`; proved | 3 |
| `CommandPipeline` ⇒ `CommandLedger` | tab, sockets, handler, idempotency, store, crash | `pipeline_*`; safety and refinement proved | 4 |
| `RoomLifecycle` | membership, pause, resume, cleanup, start, presence, stale room objects | `room_members`, `room_deserted`, `room_lazy_load`; seats and memory proved | 5 |
| `GameState`, `GameEvents`, `Game` | the rules: state and questions, event reducers, commands and the clock's moves | `game`, `game_tie`; bank, scores and offers proved | 6 |
| `GameViews`, `GameBots` | what each player and bot is shown, menus, what bots may choose | `game`; proved | 6 |
| `TurnGame`, `RoomAutomation` | phases as the automation sees them; turn clock, offers' deadlines, bots, stall guard, scheduler | `room_automation`, `bot_offer_stalls`; safety proved | 7 |
| `DueWorkIndex` ⇒ `DueMap` | the scheduler's heap with lazy deletion | `parts` | 8 |
| `RoomLeases` | two servers, lease expiry, torn loads, the primary key as a fence | `parts`; proved | 8 |
| `ReplayLog` | what `replay.ts` accepts as a log | `parts`; proved | 8 |
| `LocalPlay` | a local match in the browser: three versions of the match, timers, React's effects | `parts`; safety proved | 9 |
| `AppShell` | the screens around a match: seats, sessions, late answers, reloads | `parts`; proved | 9 |
| `Board` | the land of the map presets, its graph and its ports | `parts` | 9 |
| `MC…` | the instances, each with the cfg of the same name | | |
| `RoomQueueProofs`, `CommandPipelineProofs`, `CommandTabProofs`, `RoomLifecycleProofs`, `TurnGameProofs`, `RoomAutomationProofs`, `PartsProofs`, `GameProofs` | theorems, by `tlapm` | | 3 to 9 |

`RoomAutomation` and `LocalPlay` play the same small `TurnGame`; `CommandPipeline` and
`RoomLifecycle` take the queue to be the lock `RoomLocks`; `GameBots` plays `Game` through
`GameViews`. What `TurnGame` takes for granted (the clock's move is always valid, a bot
always has one, a staged offer stays funded) is what `AutomationCanAct` and
`PlayersCanAct` show of the whole `Game`.

Bounds are meant to stay small enough for a run of a minute or two, large enough that each
hazard happens at least once together with one fault of every kind that can touch it.
Modules that carry proofs use no RECURSIVE operator, take every parameter as a CONSTANT
with a named assumption and have one action per operation.

What is left to do: a proof that no room closes under a settled player (section 5); a model
of the Redis presence store.

Definitions marked "a slip" or "mutant" are deliberately wrong variants of the definition
that follows. No action uses them; they show that each property fails when the code is
wrong in a plausible way. A property named in a run's cfg is often a conjunction of named
parts (`TabsTrue`, `SeatsInOrder`, `SeatsHonoured`, `ConnectionsSettled`, `ScoresTrue`, `PlayersCanAct`,
`AutomationCanAct`, `LeasedRoomsTrue`); the parts are stated and commented one by one.

## 3. RoomQueue

`RoomQueue.tla` models `enqueueRoom` and `enqueueRooms`
(`server/src/room-manager.ts:1478-1501`) promise by promise.

| Model | Code |
|---|---|
| `chain[n]` | the n-th `current` promise, with the `previous` promise it awaits |
| `tail[r]` | `roomQueues.get(r)` (0: no entry) |
| `released` | promises whose `release()` has run |
| `Call` | `enqueueRooms` up to the first `await previous` |
| `AcquireNext` | the await returns and `acquire(index + 1)` enqueues for the next room |
| `Run` | the await returns and the task runs |
| `Unwind` | one `finally`: release, delete the entry if it is still this call's |

`RoomLocks.tla` is what that promises: a line of callers per room, only its head
inside. `ImplementsRoomLocks` is the refinement, with the line read off the unreleased
promises.

| Run | Instance | Question |
|---|---|---|
| `room_queue` | 4 calls, 2 rooms, ≤ 2 rooms per call | mutual exclusion, order of service, no leaked entry, no deadlock, refinement |

Each task is called once; a room's queue has no memory beyond its pending calls, so
four calls over two rooms show every arrangement of holder, waiter, late arrival and two-room call,
mirror images included.
Fairness: weak, per call, for its own continuations. It stands for the event loop running
every settled continuation and for the tasks' store calls settling; nothing forces a call
to be made.

`RoomQueueProofs.tla` proves types, mutual exclusion, order of service and exactness of
the entries for any tasks, rooms and number of rooms per call. The inductive invariant says that the
unreleased promises of a room form a chain by `prev` that ends in `tail`; without it
mutual exclusion alone is not preserved by `Run`, since a promise whose predecessor is
released might have an older one still pending.

`QueueImplementsLocks` proves the refinement for the same constants. The line of a room is
its unreleased promises in the order of their numbers, and the n-th of them has n - 1
smaller ones: with that rank as the place in line, a new promise extends the line by one, a
release at the head moves everyone up by one, and everything else leaves it alone.

## 4. CommandPipeline

`CommandPipeline.tla` follows a command from the tab to the log and back. One room,
in game, all tabs belong to seated players.

| Model | Code |
|---|---|
| `tab[t]` | `SessionController`: connection state, epoch, pending command, clientSeq, last server seq, ack, transmitted, resyncPending |
| `resume[u]` | the browser's resume state, shared by the tabs of one player |
| `up`, `down`, `alive` | each connection's socket; `up` ends in CLOSE when the server sees it close |
| `job[c]` | where the connection's serialized handler stands (`enqueueConnectionTransition`) |
| `job[Automation]` | the scheduler's `expireTurn` or `runDueBotAutomation` |
| `busy` | who is inside the room's queue across an `await` |
| `log`, `results` | `match_events`, `command_results` |
| `memLog`, `processed`, `paused` | `room.events`, `room.processedClientCommands`, `room.pausedAt`/`pauseReason` |
| `SendCommand`, `OnRoom`, `OnEvents`, `OnAck`, `OnRejected`, `Connect`, `DetectClose`, `Drop`, `Reload` | the controller's methods and callbacks, and page reload |
| `Join`, `SyncJoined`, `Resync`, `Close` | JOIN_ROOM in its two halves, RESYNC, the close handler |
| `RefuseLimited`, `RefusePaused`, `Replay`, `Decline`, `Accept` | the branches of COMMAND and `submitCommandNow`, in the code's order |
| `PersistVerdict(Fails)`, `Commit(Fails)`, `Apply`, `Reply` | the store's answers and what follows each |
| `Crash` | the process dies, `hydrateFromStore` rebuilds the room |

Abstractions. The batch of events of one command is one log entry: it is committed,
applied, broadcast and acknowledged as a whole. Every state-carrying message brings a
snapshot, so a message is the sequence number it brings the tab to. Whether the rules
allow a command is a free choice. The queue is the lock `RoomLocks` promises, taken in
any order. The store is the PostgreSQL one: its writes happen at once and survive a
crash, its calls may fail before or after taking effect.

Some branches of the code are not actions, because an invariant shows that they
cannot run: a room state older than the tab (`RoomNeverOld`), an answer about another
command (`AnswersAwaited`), a COMMAND_RESULT_CONFLICT with a single owner
(`StoreNeverConflicts`).

`CommandLedger.tla` is the promise in a page: one verdict per command, recorded with
its effect; players told of verdicts only once they are recorded. Momentary refusals
say nothing of the verdict.

| Run | Instance | Question |
|---|---|---|
| `pipeline_crash` | 1 tab, 2 commands, 1 timer commit, 1 drop, 1 crash, 1 failed and 1 ambiguous store call | is every pair of log, verdicts, memory, cache, messages and tab consistent at every step? |
| `pipeline_two_tabs` | 2 tabs of one browser, 2 payloads, 1 drop | at most once even if one client sequence number is given to two commands; refinement of the ledger |
| `pipeline_live` | 1 tab, 1 command, one of every fault but the ambiguous commit | is every command eventually settled? |

`MCPipelineStalled.cfg` and `MCPipelineUnknown.cfg` show two more disagreements (section 10).

Bounds: `MaxSends` (commands per player), `MaxAuto`, `MaxDrops` (connections lost or
pages reloaded), `MaxCrashes`, `MaxFailures` (errors that left the store as it was),
`MaxUnknown` (errors after the commit), `MaxStalls`, `MaxLimited`. Two commands let a
verdict of the first meet the second; one fault of each kind, at any point, between any two steps, is
where retries and duplicates come from. `Epochs` bounds nothing further: connections
are only given up by drops and crashes, which are bounded. Runs that hold at their
bound have CHECK_DEADLOCK FALSE because a system without players and faults left to act does
stop.

`TableNeverGoesBack` is checked for a player with one tab: tabs that share the
browser's storage may reload to an older position, which they then catch up from.

Fairness (`LiveSpec`): weak, for each tab's reactions to its socket, each connection's
handler and each commit in progress. They stand for the event loop and for store calls
that settle, whether well or badly. Players, timers, bots and faults owe nothing. The controller gives up
automatic reconnection after eight attempts in a row; a successful connection resets
the count, and with drops bounded the limit is not reached.

### What is proved

For any tabs, players, payloads and bounds, in two modules, the second on top of the first.

`CommandPipelineProofs.tla`: `Spec => []TypeOK`; then `ResultsMatchLog`, `AtMostOnce`, `MemoryFollowsLog`,
`ExecutedAtSeen`, `StoreNeverConflicts` and `CacheAgrees`, and from them `VerdictsAgree` (log,
verdicts, cache and answers never contradict one another). None of them is inductive
alone. `LogInv` adds what ties them together: only the holder of the room has a commit or
a rejection in progress (`Holder`); what it is about to commit was judged against the
table in memory and no verdict exists for its command (`CommitReady`); what it is about
to apply is the last entry of the log (`ApplyReady`); what it is about to reject is cached
(`RejectReady`); memory is a prefix of the log, and the rest of the log is what ambiguous
commits left (`Behind`). With memory possibly behind the log, `ExecutedAtSeen` and
`AtMostOnce` survive because such a commit finds its sequence number taken.

`CommandTabProofs.tla` follows the answers to the tabs:

| Theorem | Says | Hypothesis |
|---|---|---|
| `PlayersToldTheTruth` | `[]VerdictsKept` | |
| `PipelineImplementsLedger` | every step is one of `CommandLedger`'s or a stutter | |
| `TabsAreTrue` | `[]TabsTrue` | one tab to a player |
| `TablesOnlyAdvance` | `TableNeverGoesBack` | one tab to a player |
| `RetriesNeverRefused` | `[]RetryNeverRefused` | one tab to a player, `MaxStalls = 0`, `MaxLimited = 0` |

Its inductive invariant `TabInv` says that between a tab and its connection's handler there is
one request, one job or one answer (`Sole`), that it is about the command the tab waits
for, and an answer already says what is stored (`About`); that tabs and notices are behind
the room in memory, and no room state is overtaken by another notice (`Seen`); that what was
acknowledged or told is stored (`Acked`, `ToldStored`); and that an epoch not yet used has
left no traces at the server (`FreshConns`). `Sole` and `About` need each other: a
command is sent again only on a new connection, whose queue is empty, and what an old
connection's handler still does is never heard. Server steps change a tab's share
of this in one of three ways, which `ServerEffects` shows of each: nothing but notices
(`Quietly`), the request becomes a job (`Started`), the job or request becomes an answer (`Answered`).

`RetriesNeverRefused` needs three facts more. `Unhurried`: without stalls a room pauses only
when its last player leaves, and resumes with the first who joins. `HeardInv`: a
connection that is heard is in the room, or its JOIN comes before anything else it asked.
`SaidInv`: whatever is asked, in work or stored under a number is the one command
that number stands for, so that a stored verdict found for a retry is about the same
payload. Without the hypotheses the theorem is false, and the code means it so: a
stalled room answers before it looks for the verdict (`MCPipelineStalled.cfg` shows
it), and so does the rate limiter.

With two tabs to a player, one writes the storage the other reloads from: a tab may come back
behind what it had shown, and another tab's confirmed commands need not be on its board.
Hence the hypothesis, and in `pipeline_two_tabs` the properties without it.

Assumed of the constants: their typing, and that `None` and the automation's names are not payloads,
workers, keys, commands or verdicts.

### What is only model-checked

`CommandsSettle` (liveness).


## 5. RoomLifecycle

Who sits where. The module models `room-manager.ts` from `createRoom` to `cleanupRooms`
with `lobby.ts`, `room-lifecycle.ts`, the memory presence store, the socket registry's
attach and detach, and the handlers for JOIN_ROOM, LEAVE_ROOM, READY, START_ROOM, ADD_BOT,
REMOVE_BOT, UPDATE_ROOM_SETTINGS, PING and close.

**A heap of room objects.** The handlers of the manager work on JavaScript objects. They
find one before they queue (`Ask`, `Loaded`), look again when their turn comes and fall
back on the first (`Obj`), clone it and change the clone (`Serve`, `Switch`, `ServeSync`,
`ServeCleanup`), persist the clone (`Persist`) and copy it into the object (`Apply`). Two
objects of one room can exist at a time, and two of the findings need that. So `objs` is
the heap, `rooms` the manager's map, `job` what each handler holds, and `line` the queue of
each room, which `RoomQueue` establishes as a first-come lock.

| State | Code |
|---|---|
| `store` | `rooms` and `room_seats` tables |
| `objs`, `rooms` | room objects, `RoomManager.rooms` |
| `line` | `roomQueues` |
| `job` | locals of the running handlers: a connection's (serialized by `transitionTail`), the sweep's, the cleanup's, POST /rooms' |
| `at` | `client.roomId` |
| `pres` | presence entry of each socket |
| `scenario`, `left` | the bounds of this behaviour, and what the environment may still do of them |

Every await that matters is a boundary between steps: the lazy load, each queue, each
store call, the presence calls, and the gap between reading the connected users and
applying them. Steps between two awaits are one action, tails included: `Settle` is the
pause, resume and `emptySince` tail that departures and syncs share, `RepairHost` ends
every join.

**Abstractions.** Time: a deadline that is set may pass at any moment (`ServeCleanup` with
`due`), bounded by the scenario's `expiry`. The game is a status, which `Finish` and `Stall` move on.
Names, chat, reports, rules and the capacity limit are left out; there is one server, so
`claimRoom` succeeds, and a restart may leave `unloaded` open rooms unloaded, as the
limit of `hydrateFromStore` and a lease still held by the replaced process do. `createRoom`'s
persist and registration are one step, because nobody knows the room's id in between. A
closed room's clients are detached in the step that ends the cleanup, as no I/O lies
between. A connection serves again after it was lost, under the same presence entry. A
store call fails without taking effect here; the calls that fail after taking effect are in
`CommandPipeline`.

**Scenarios.** Each behaviour keeps to one `scenario`: which requests clients make, how
many, how many rooms are created and how often each fault happens (`Scenario` names every
bound). A run has several, because a fault multiplies the states and most faults meet only
in pairs; `MCRoomLifecycle` lists them. `Happened("failure")` says that this behaviour has
met the fault.

### Runs

| Run | Scenarios | Shows |
|---|---|---|
| `room_members` | *lobby*: 3 seats, every lobby request, 3 of them, a lost connection, a store error, a presence error; *connections*: 4 requests among join, watch, ready, unready, start, two lost connections, a restart, an end, a stall; *moving*: 2 rooms, 4 joins and readies; *closing*: 3 joins and leaves, a lost connection, a deadline; *swept*: 2 of them and a sweep besides | `SeatsInOrder`: a lobby with people is led by one of them, nobody sits twice; `OneGameEach`: nobody plays two games; `SeatsHonoured`: no join adds a seat beside a running game (`NoSeatBesideGame`), no room closes under a settled player (`NeverClosedUnderPlayer`); `MemoryIsStore` except between a commit and its application; `SeatsKept`: a seat is lost only at its owner's request or when a game starts without an unready player; `ConnectionsSettled`: once all is quiet the connected flags are exact (`ConnectionsExact`) and nobody is attached to a closed room (`NobodyInClosedRoom`) |
| `room_deserted` | *pausing*: 3 joins and readies, two lost connections, a restart, an end, a stall; *unloading*: 3 of them, a lost connection, three deadlines | `DesertedRoomsSettle`: a game without connections is paused in the end, and no room stays in memory for ever with nobody attached |
| `room_lazy_load` | 2 requests, an unloaded room | finding 1; `MCRoomReopened.cfg` shows another (section 10) |

Two players and two connections suffice for every race between two handlers, which is what
the properties are about; a third waits in the same queue. Four requests are enough to
enter, start and disturb a game.

### Where the properties stop

Experiments with larger scenarios found where each promise ends; the scenarios and
conditions above stay on this side of it.

- `ConnectionsExact` is not claimed after a store or presence error (the code logs a failed sync
  and does not retry it), and fails in two more ways. *Swept*: `sweepStalePresence` detaches a connection whose
  READY is still being handled; `setReadyNow` then marks the seat connected, and the close
  handler finds no room and corrects nothing (`index.ts:391`). *Left*: the users read for a
  sync before a LEAVE_ROOM took its presence entry back are applied after it, and nothing
  syncs after a leave (`websocket-transport.ts:147`).
- For the same reason `DesertedGamesPause` (a part of `DesertedRoomsSettle`) is checked without leaves: the player who left
  counts as connected, and the game runs on with nobody attached.
- A spectator who joined but was not yet announced to the presence store is dropped by
  another connection's sync, and its own sync restores seats only: it stays attached without being
  a member, so no property says that who is attached belongs to the room.
- `OneGameEach` and `NoSeatBesideGame` are checked for a connection per player and with every open room in
  memory. `joinRoom` looks for a running game before it queues, and only among the rooms in
  memory (`room-manager.ts:536`): with two connections, or after a restart that did not
  load the game, the player gets a second seat. Two rooms and a fault break them, too: a
  sync that fails with the store leaves a lost player ready and shown as connected
  in the lobby, and a swept connection joins elsewhere before its room has heard of it; the
  lobby then starts with a player who plays in another game. The proofs say so (`Steady`).
- `NeverClosedUnderPlayer` is checked with one deadline: a join that reopens a room
  (section 10) leaves a second object, which cleanup may close. `NobodyInClosedRoom` is
  checked where one room is created: `createRoom` throws away the list of rooms its own cleanup closed.
- `DesertedRoomsUnload` promises nothing once the scenario's deadlines are used up.

`Fairness`: the continuations of a handler run and the store answers (`Progress`); the
scheduler calls cleanup on a timer for ever, so a room that again and again needs it gets
it, and its deadline, once set, passes (`CleanUp`, `ServeCleanup(Cleaner, TRUE)`, strong
because a queue or another cleanup may intervene); the presence entry of a detached
connection becomes stale (`SweepPresence`), as nobody refreshes it. Clients owe nothing.

### Proofs

`RoomLifecycleProofs` rests on four invariants, each relative to the ones before.

1. **`LifeInv`: everything is in order.** `InOrder(m)` says that `m` is a room, nobody sits
   twice in it, and a lobby with people in it has one of them as its host. It holds of every
   object of the heap, registered or stale, of every clone and of every stored row: every
   operation maps a room in order to a room in order, whatever object it was given, so it
   does not matter which one a handler found. The rest of `LifeInv` says that what a job
   refers to exists (`Fits`): a stored room, an object of the heap, clones of the rooms
   whose queues it is in only. It gives `LifecycleTypeCorrect` and `SeatsAlwaysInOrder`
   without any condition on scenarios.
2. **`LockInv`: the queues are locks.** Who stands in a queue is at work on that room and
   stands there once; who saves heads all its queues. Each step of a worker stays where it
   is, leaves its queues or enters one (`Moves`), and those three keep the invariant
   (`MovesKeepLock`). It gives `SaversAlwaysApart`.
3. **`MemInv`: memory is what the store says.** As long as no deadline has passed
   (`Alive`), each stored room is in memory and open, has an object of its own, and every job
   refers to that object (`StoredOpen`, `OneObject`, `JobsFresh`); a clone being committed
   takes seats from nobody but who asked for it, compared with the object, and a clone just
   committed is what the store holds (`ClonesTrue`); other rooms agree with the store
   (`Agreed`). `LockInv` is needed because a second saver of the room would commit a clone of
   the state before. It gives `MemoryAlwaysStore`, and `SeatsAlwaysKept`, since who sits in
   the stored room sits in the object the clone was made of.

4. **`GameInv`: who plays is bound to one room.** As long as neither a deadline has passed nor
   the store failed nor a silent connection been swept away (`Steady`): a user who plays in a
   room plays in no other, and its connection is attached to, about to leave or about to
   enter no other (`PlaysInv`, `Only`). That is not inductive alone, because a game begins
   with others than who asked for it. So the invariant also says where those come from: who
   is ready in a lobby has a connection there, or one whose loss the room has yet to hear
   of, or has not come back after a restart and is not shown as connected (`PoisedInv`); a
   clone being saved gives seats and readiness to nobody but who asked for it (`ClonesWrought`);
   and a handler's connection is where its job left it (`AttachInv`). The check of `joinRoom`
   is read before its queue and stale when used; what saves it is that the join is
   `Waiting`, or attached elsewhere and checked again by `Switch`, and no other task makes
   the user play meanwhile. Each action is shown to be a `Nudges` step: one worker goes on,
   rooms get no new players, the connection stays bound where it was or becomes bound where
   nothing forbids it; `NudgesKeep` proves once that such a step keeps the invariant. The end
   of a save (`ApplyGame`) and a restart (`RestartGame`) are proved apart. It gives
   `OneGameAlways` and `NoSeatEverBesideGame`.

`GameInv` was checked by TLC first, on two rooms with starts, restarts and lost connections to depth
30. Its two theorems assume `OneConnection` (a connection to a user) and hold while `Steady`;
both conditions are needed (see above), and the scenario *moving* of `room_members` meets them.

`MemInv`, and with it the theorems from `MemoryAlwaysStore` on, assume `AllLoaded`: the scenarios leave no open
room unloaded at a restart, as those of `room_members` do. Finding 1 is what happens
otherwise: two objects of one room. The restriction to `Alive` is the properties' own; after
a deadline has passed, a join may bring back a room that cleanup dropped (`MCRoomReopened.cfg`).
The constants are restricted by the named assumptions of the module only: connections are
not named like the three background workers, and `None` is not a room.

Model-checked only: `NobodyInClosedRoom`, `NeverClosedUnderPlayer` and `ConnectionsExact`, which
need an account of presence entries, of what a deadline does to memory and of what is
quiet; and liveness.

## 6. The game

`GameState` holds the record of a match and the questions the rules ask of it, `GameEvents`
one operator per event of `event-reducer.ts`, `Game` one action per command of `engine.ts`
(validation as the guard, the reducers in the order of the events) and the moves the server
plays for whoever lets the clock run out (`timeoutCommand`). `GameViews` adds what
`serialize.ts` shows a viewer, the games the web client and a bot rebuild from it, and the
menu of `getLegalActions`. `GameBots` adds the candidates among which `bots/src/index.ts`
chooses, and when `bot-automation.ts` asks for them.

| Model | Code |
|---|---|
| `game` | `GameState`; `settlements` and `buildings` are one map, the deck is what is left in it, `longestRoadLength` the operator that computes it |
| `ValidX`, `X` | the case of `validateCommand` and of `applyCommand` for command X |
| `AfterCommand` | what follows every command: plight, winner, turn limit |
| `AssertInvariants` | all of `invariants.ts` but what holds by representation: a valid board, known edges and vertices, one owner to a card, `settlements` agreeing with `buildings` |
| `Clock…`, `TurnClock` | `timeoutCommand` for each phase, `expireTurnNow` |
| `TradeFor`, `PhaseFor` | what `serialize.ts` keeps of an offer (its recipients, not always its answers) and of the discards |
| `View`, `ClientState`, `BotState`, `LegalActions` | `serializeForViewer`, `projectViewerToGameState`, `viewerToBotState`, `getLegalActions` |
| `BotCandidates`, `BotResponses`, `BotFinalizes` | `chooseBotCommand` and its helpers, without the weights; `TriesOut` says where a bot applies them to its guess |

Abstractions. Dice, draws, thefts and the plight may come out as any seed could make them.
A bot may prefer any of its candidates; adjudication may weigh production and hands in any
way after points and public points. Offers of the current schema are never OPEN, so the
legacy commands on OPEN offers are left out. The recipients of an offer are a set, "ANY" being
everybody else; so an offer naming all the others and one to "ANY" are the same offer. Names, colours,
`eventSeq` are left out.

The run `game` plays three players on a board of three hexes with two resources, cheap pieces and low
thresholds, in five scenarios: building against each other for the longest road, the plight,
sevens and doubled production from several openings, every kind of development card, and two
offers, to one or to all the others, with every answer. The hand limit is two, so that two
players discard after one seven. `left` bounds the commands players send, the clock is not bounded.
The interesting rules are local (an interrupted road, a bank that runs short, two adjacent
settlements), so a small board has every one of them within a few moves.

- `ValidCommandsApply`: no accepted command leads to a state that `assertInvariants` rejects;
  the bank and the hands add up over production limits, thefts, trades and cards.
- `ScoresTrue`: the incrementally kept scores and titles are what the board is worth, and
  play stops exactly when somebody has the points, on whoever's move.
- `PlayersCanAct`: the menu is what the engine accepts, also when computed from an
  incomplete view; a staged offer can always be carried out.
- `AutomationCanAct`: the clock's move is valid in every phase; a bot always has one, and all
  its candidates, chosen on estimated hands, are valid in the true game. Where it tries them
  out, in the action phase of its own turn, its guess passes `assertInvariants`. Elsewhere a
  guess need not: the view of a third player names whom an offer was made to and lacks their
  answers, and lacks what others have discarded; `chooseBotCommand` applies nothing there.
- `ViewsDoNotTell`: games that differ only in what a viewer must not know look the same: the
  hands and unplayed cards of others, what others offer, ask and answer among themselves, and
  what others have discarded so far.
- `GamesEnd`: with a limit of turns and the scheduler alone (`WF_vars(TurnClock)`), every
  match ends.

`game_tie` is finding 2.

`GameProofs.tla` proves `ValidCommandsApply`, `ScoresTrue`, `ViewsDoNotTell`, `PlayersCanAct`
and `AutomationCanAct` for any players, board, prices, rules, deck, number of commands and
dice. The inductive invariant is `InGoodOrder`: the scenario is one of
`Scenarios`, its rules are in force, and the match is `Settled`:

- `Purse`: hands are bundles, and with the bank they make `BankSize` of every resource.
- `Layout`: pieces are owned by players, within their limits, settlements apart.
- `Scored`, `RoadTitle`, `ArmyTitle`: a score is what the pieces, titles and dealt points are
  worth; whoever has a title has earned it.
- `Settling`: in the setup nobody has placed more often than it was his turn.
- `Timely`: the phase belongs to a player and what it waits for can happen: the bank pays the
  placements still to come, who must discard can, who has discarded gave what he owed, who
  staged an offer holds what it offers.
- `Deals`, `Stocked`: offers are of bundles, by a player to others, and have the answers of
  exactly those they were made to; every card in play is of a kind of the deck.
- `WonInTime`, `Won`: nobody has the points while play goes on, whoever has won has them.
- `Spared`, `Sited`: the plight is over or not yet due; in the setup only spots of the scenario
  are taken. Both are for `AutomationCanAct`: closing an offer must not bring the plight down
  between the clock's two steps, and a placement must find a vertex.

Why so much is needed: `assertInvariants` looks at hands, bank, titles and scores together, and
each event changes one of them by a difference. Only what is known of all of them before says
that the difference is right. Each event of `GameEvents` gets a lemma for the parts it can
disturb; a command is a few events, then the plight and the judgement, which have theirs. Two
recursions are in the way, the sum over the buildings and the longest trail. The lemmas at the
head of the module solve a recursion on a finite rank from the least counterexample, without
the theorems of the library that take an operator. `ViewsDoNotTell` needs in addition that what
a view is computed from is the same in two games that differ in secrets.

`PlayersCanAct` follows in two steps. `MenuIsAccepted`: item by item, the menu of a match in
good order is what `validateCommand` accepts; a discard asks for cards that are there, a
placement listed without its edge has one, Road Building has the pieces. `SameMenu`: two games
that agree on the table, on the player's own hand and cards and on whether the deck is empty
(`SameTable`; the phase may differ in what others have discarded, `Alike`) have the same menu,
and what the client and the bots rebuild from a view agrees so. For the bots that takes
`GuessDealt`: dealing the cards a bot does not see, one by one to the others in seat order,
gives every player as many as he holds and leaves none, so the guess adds up with the bank. The
fold that deals becomes a table of what has been dealt after each card. `AutomationCanAct` then
goes by phase: where a bot tries its moves out its guess is a game the engine accepts (no offer
is open then, and nobody is discarding), what it chooses on it depends only on what it shares
with the true one, and closing a staged offer neither ends the match nor lets the plight strike.

Assumed, as named assumptions of the modules: somebody plays (`PlayersSeated`); the board is
finite, an edge has two ends, a vertex touches at most three hexes (`BoardFits`); prices and
limits are natural numbers and the bank can pay everybody's second placement (`SizesFit`);
offers are made of bundles (`OffersFit`); a scenario asks for at least a point and opens on
the board (`ScenariosFit`). `PlayersCanAct` and `AutomationCanAct` need two more. `SeatsFit`: two
play at least (`onlinePlayerCountSchema`, `lobby.ts:24`), each in one seat, there are pieces for
two placements and every vertex has an edge. `SetupsFit`: with fewer vertices taken than there
are placements, one is left that is free and has no neighbour taken; on the boards of the map
presets that is `RoomToSettle`, part of `BoardsPlayable` (section 9), since a settlement takes
its own vertex and at most three around it.

Model-checked only: `GamesEnd`, which is liveness, and `TieKeepsHolder`, which does not hold.

## 7. RoomAutomation

The room that plays by itself. Every moment is kept as the time left until it, so that time
goes on for ever in a finite model; `Pass` lets a unit of it pass. A task of the room's queue is
one action, because nothing else of the room runs meanwhile; the scheduler's steps between
tasks interleave with people, pauses and time.

| Model | Code |
|---|---|
| `timer`, `deadline`, `due` | `room.timer.expiresAt`, `tradeResponseDeadlines` (of the one staged offer), the room's entry in the due index |
| `repeats`, `sent` | `automationProgress`, `automationCommandTimes` |
| `paused`, `away`, `here` | `pausedAt`/`pauseReason`, how long ago, somebody connected |
| `sched` | `tickAutomation`: claimed, expire, bots, refresh, asleep; `lag` is how old its `now` is |
| `Commit`, `CommitFails` | `commitAcceptedEvents` with `refreshTimer` and the deadlines |
| `ExpireTurn`, `BotsAct`, `BotsStall`, `BudgetSpent`, `BotsWait` | `expireTurnNow`, `runDueBotAutomationNow`, the stall guard, the budget |
| `Leave`, `Return`, `CleanupPauses`, `Restart` | `syncConnections`, `resumeRoomIfNeeded`, cleanup, hydration |

A human and two bots, turns of two and three units, one absence, failed write or restart at
any moment. `NoLostWakeup`: while the scheduler sleeps, the room has an entry in time for
whatever is next. `FullTurn`: a player the clock plays for has had the whole turn, not
counting pauses, less the lag of a tick. `StallsOnlyOnOffers`: the stall guard takes
nothing else for a stall than a bot's open offer to a human. `TurnsPass`: turn follows turn
unless the room is paused or the game over.

Fairness: the scheduler's steps are weakly fair, timers of Node go off. `Pass` is strongly
fair: time goes on although the scheduler, whose ticks may follow each other without delay,
has always something else to do. Bounds: `MaxLag` (a tick lasts one unit), `MaxAway` (time
passed in a pause), `MaxTroubles` (absences, failures and restarts together). The limit of twenty
ticks without progress is three here (`StallTickLimit`), which is the number of repetitions
and not of players. The setup is left out: its phase behaves like WAITING_FOR_ROLL. What the
cleanup does to a room is `RoomLifecycle`'s.

`RoomAutomationProofs.tla` proves, for any durations, delays and limits, and any number of
bots, humans and troubles, `NoLostWakeup`, `FullTurn` and, if `MaxTroubles + 1 <
StallTickLimit`, `StallsOnlyOnOffers`. With more troubles in a row than the guard lets ticks
go by, an absence or failed write each time would be enough for it to stop the room. The invariant:
`ClocksTrue` (a timer runs while the game does, a deadline while an offer is open); `EntryTrue`,
the due entry of a sleeping scheduler is early enough and *not for nothing*, since a tick
that finds nothing due counts as a stall; `TurnClock`, the time used, the time left and the
pause so far make the whole duration; and `TicksExplained`, each tick without progress is paid
for by a trouble, or the tick has something useful to do. `TurnGameProofs.tla` has the lemmas about
the small game that these and `PartsProofs` need. Assumed: durations and delays are positive,
limits are natural numbers, and `None` is no number.

`bot_offer_stalls` is finding 3. `MCOfferOverdue.cfg` shows the same from the other side: the
offer of the paused room stays open after its deadline.

## 8. What the server keeps: index, leases, replay logs

`MCParts` puts the small modules that share nothing into one run; `part` says which of them
a behaviour exercises.

**`DueWorkIndex`** is `due-work.ts` literally: a binary heap whose entries are never
removed, only outdated by a newer version, over three keys and `MaxVersion` changes. It implements `DueMap`, a
map of deadlines: what is claimed is what is due, earliest first, and the next deadline is
the least. Its bubbling is recursive, hence checked and not proved.

**`RoomLeases`** has two servers, each of which loads a room (row, then events and snapshot
in parallel, without a transaction), claims the lease only after reading, and holds it while
a task runs, which outlives it if the task is slow. `ServersAgree`: histories shown by two
servers never contradict each other and stay in the log, because `match_events`' primary key
refuses the second writer, and the owner that lost the lease fails its commit. `LoadedWhole`:
a torn load still makes one game, since a snapshot ahead of the events is not used and a
clock of somebody else is restarted. The row itself is not fenced: whoever saves last wins
its status column and seats, and `persistMatchStart` does nothing on a conflict. ADR 0001
supports a single instance only, so nothing is claimed about these. Bounds: `Ttl`, `MaxLog`,
`SnapshotEvery`, `MaxCrashes`. A closed room's release of its lease is left out.
`PartsProofs.tla` proves `LeasedRoomsTrue` (`ServersAgree` and `LoadedWhole`) for any
servers, players and bounds: every memory, every history shown and whatever a load has read
so far is a beginning of the log, and the log only grows.

**`ReplayLog`**: all logs of up to three events with numbers up to five, after a snapshot or
not. `ReplaysAreWhole`: `validateReplayLog` accepts exactly the logs that are gapless after
their snapshot, whatever the order of their events, and reports exactly the missing numbers.
`isGameEvent`'s look at the fields of an event is one flag here; events of one number may come
in either order, where the code keeps that of the log. `GameProofs.tla` proves `ReplaysAreWhole`
for logs of any length and any numbers: sorting always succeeds (by induction on the length),
a fold is a run of states `seen[0], ..., seen[n]`, and after each event the numbers seen, the next
one expected, the numbers the gaps cover and whether anything was told are what the events so
far make of them (`SeenSoFar`, `GapsSoFar`, `ToldSoFar`).

## 9. What the browser keeps: local matches, screens, boards

**`LocalPlay`.** In a local match commands work on `stateRef.current`; React queues an update
(`queued`), renders it (`drawn`) and runs effects later, and one of them sets `stateRef`
back to what was drawn (`useSyncedRef`). A timer may go off between any two of these steps.
`LocalTimersArmed`: once all is drawn, the timers of bots and offers run that the match
needs. `LocalBotsMoveOn`: with fairness of rendering, effects and timers (React and the
browser run them), no bot is stuck. Delays are left out: an armed timer may go off at any
moment. Bounds: `MaxBehind` commands of timers since the last rendering, numbers of events
modulo `Wrap`, which is larger than their distance can be.

**`AppShell`.** One page, one tab. Calls answer when they like or fail; the player goes on
meanwhile; `networkGenerationRef` tells late answers. `ShellCoherent`: screen, seat,
controller and resume state always belong to one seat, the one asked for last; events are
those of the match on the board. Bounds: `MaxAsked` resets of the session, `MaxReloads`.

`PartsProofs.tla` proves `LocalTimersArmed` of `LocalSpec`, for any players and times, and
`ShellCoherent` of `ShellSpec`, for any rooms, resets and reloads. The latter is inductive only
with what is said of the calls still out: one at most may bring the page to a room, it
is of the last reset and for what the player asked last, and the page waits for it at the
setup (`EntriesTrue`); a log that still loads is that of the match on the board (`LogsTrue`).


**`Board`.** The land of the presets in its real sizes: the standard board, the two islands,
and every continent the seeded growth can come to (the shuffle may favour any candidate,
1315 states). Vertices are exact integers where the code rounds. `BoardsPlayable`: one
component, or two for the islands, no lakes, nine ports on the coast that share no vertex,
a port on every island, and a free vertex for every settlement of the setup, so that
`validateBoard` never refuses the graph and no setup gets stuck. Where two coast edges lie on one ray the angle
is decided by rounding: both orders are checked. The decks of terrain and tokens and their
balancing by trial are left out.

## 10. Findings

1. **Two lazy loads lose a seat** (`room_lazy_load`). `ensureRoomLoadedByRef` registers the
   object it built without looking whether another request has registered one meanwhile.
   The first join is persisted, the second persists a room without it.
2. **A tie takes the longest road away** (`game_tie`). `refreshLongestRoad` clears every
   player's flag before `longestRoadSummary` looks for the holder among the flags.
   `docs/mvp-rules.md` says that no tie displaces the holder.
3. **A bot's offer stalls the room** (`bot_offer_stalls`). While a bot's offer waits for a
   human the room is due at once again and again; after twenty fruitless ticks the stall
   guard pauses it, for good, well within the response window that
   `docs/bot-trade-and-rules.md` says bots wait for.

More, each with a cfg of its own beside the runs (TLC finds the named property violated):

- `MCPipelineStalled.cfg`, `RetryNeverRefused`: `submitCommandNow` checks `pausedAt` before the
  stored result, so the retry of an accepted command is refused when the room has paused
  meanwhile, and the client drops it as rejected. The rate limiter, checked even earlier,
  has the same effect.
- `MCPipelineUnknown.cfg`, `CommandsSettle`: the transaction committed but the connection failed
  on COMMIT. Memory stays behind the log; the retry is acknowledged with a sequence number
  the room will not reach until the process restarts. Safety holds throughout, as proved.
- `MCRoomReopened.cfg`, `ClosedForGood`: a join queued behind the cleanup that closes and drops the
  room falls back on its own object and writes it back open, in no map.
- `MCOfferOverdue.cfg`, `OffersCloseInTime`: after finding 3 the offer outlives its deadline.
- `MCLocalClockLost.cfg`, `ClockArmed`: the turn timer goes off between a rendering and its effects;
  `useSyncedRef` takes the ended turn back, and the timer's effect, whose dependencies have
  not changed, does not arm it again. The player's turn then has no end but a click.
- `MCLateReplay.cfg`, `ReplayOfMatch`: `startReplay` (`App.tsx:740`) awaits the log and does not
  look at the generation: the replay of the last match is shown over the next one.

Hazards no property covers, besides the limits listed in section 5: a COMMAND still queued
on an old connection may execute after its retry was refused for the moment; after a failed
`presence.disconnect` a leave's entry is refreshed by every PING; one user can hold seats in
two lobbies over two connections and both may start.

## 11. Not modelled

- The Redis presence store. Its operations are several separate writes: a sweep that finds a
  set empty removes the room from the index while a join adds to it; a reader removes a socket
  whose hash has expired while its PING restores it; the hash lives 180 s, the stale
  limit is 300 s. Its races are real but bounded by the next PING or sweep, and the single
  instance of ADR 0001 runs without it; `RoomLifecycle` uses the memory store.
- Tickets, sessions and their expiry, rate limiters' windows, chat, reports, analytics.
- HTTP routes and schemas, beyond the operations they call.
- Rendering, drafts of trades, the board's camera, sounds, accessibility.
- Terrain and token balancing, the pseudo-random generator, the weights bots give options.
- `isGameEvent`'s field checks, the import of schemas 1 and 2.
- Observability, load and smoke scripts, demo data.

In the pipeline, `syncConnections` is given the connections attached at the moment it runs,
not an older answer of the presence store; leaving, switching, chat and spectators do not
occur; the in-memory store, which loses everything in a crash, is not the one modelled.

Not proved, and model-checked only. Out of the prover's reach: liveness under fairness
(`CallsSettle`, `CommandsSettle`, `TurnsPass`, `LocalBotsMoveOn`, `DesertedRoomsSettle`,
`GamesEnd`), and `ImplementsDueMap`, since the heap's bubbling is RECURSIVE. Not attempted:
`BoardsPlayable`, a fact about concrete boards that TLC settles for all of them; the
properties of `RoomLifecycle` named in section 5.
