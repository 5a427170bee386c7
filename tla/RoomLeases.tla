----------------------------- MODULE RoomLeases -----------------------------
(***************************************************************************)
(* One room between two server processes, as when a new one starts before  *)
(* the old one has stopped: the tables of the store, the leases in it, and *)
(* a memory of the match in each process (packages/db, event-store.ts,     *)
(* ownership.ts, replay-hydration.ts, and claimRoom with its callers in    *)
(* room-manager.ts).                                                       *)
(*                                                                         *)
(* A commit is one transaction; a load is a query after the other, with no *)
(* transaction around them.  An event is cut down to the player who acts   *)
(* next, and a state of the game is the history that led to it.            *)
(***************************************************************************)
EXTENDS Naturals, Sequences, SequencesExt

CONSTANTS
  Servers,
  Seated,         \* the players
  Nobody,
  Ttl,            \* ownershipLeaseTtlMs
  SnapshotEvery,  \* snapshotIntervalEvents
  MaxLog,         \* bound on commits
  MaxCrashes      \* bound on crashes

ASSUME LeaseAssumption == {Ttl, SnapshotEvery} \subseteq Nat \ {0} /\ Nobody \notin Servers \cup Seated

VARIABLES
  lease,     \* room_leases: owner and time left
  log,       \* match_events
  saved,     \* match_snapshots: the latest
  row,       \* rooms.timer_json: whose clock it is
  memory,    \* the room in each server's memory
  task,      \* what each server's queue of the room is doing
  shown,     \* the longest history a server has shown its players
  crashes

tables == <<lease, log, saved, row>>
leaseVars == <<tables, memory, task, shown, crashes>>

Active(history) == IF history = <<>> THEN Nobody ELSE Last(history)
Room(game, events, timer) == [game |-> game, events |-> events, timer |-> timer]
Unloaded == Room(<<>>, <<>>, "unloaded")
NoTask == [kind |-> "none"]
Idle(s) == task[s] = NoTask
Doing(s, kind) == task[s].kind = kind
Ends(s) == task' = [task EXCEPT ![s] = NoTask]

LeaseInit ==
  /\ lease = [owner |-> Nobody, left |-> 0]
  /\ log = <<>> /\ saved = <<>> /\ row = Nobody
  /\ memory = [s \in Servers |-> Unloaded] /\ task = [s \in Servers |-> NoTask]
  /\ shown = [s \in Servers |-> <<>>] /\ crashes = 0

\* acquireRoomLease
Free(s) == lease.owner \in {Nobody, s} \/ lease.left = 0
Acquire(s) == Free(s) /\ lease' = [owner |-> s, left |-> Ttl]

-----------------------------------------------------------------------------
(* A load: the room's row, then in parallel the events and the snapshot.   *)
(* The row's other columns (its status, its seats) are kept as they are.   *)
ReadRow(s) ==
  /\ memory[s] = Unloaded /\ Idle(s)
  /\ task' = [task EXCEPT ![s] = [kind |-> "load", timer |-> row, events |-> {}, snapshot |-> {}]]
  /\ UNCHANGED <<tables, memory, shown, crashes>>

ReadEvents(s) ==
  /\ Doing(s, "load") /\ task[s].events = {}
  /\ task' = [task EXCEPT ![s].events = {log}]
  /\ UNCHANGED <<tables, memory, shown, crashes>>

ReadSnapshot(s) ==
  /\ Doing(s, "load") /\ task[s].snapshot = {}
  /\ task' = [task EXCEPT ![s].snapshot = {saved}]
  /\ UNCHANGED <<tables, memory, shown, crashes>>

\* assertSnapshotBoundary: a snapshot read later than the events is not used.
BoundaryHolds(snapshot, events) == Len(snapshot) <= Len(events)
EventTail(snapshot, events) == SubSeq(events, Len(snapshot) + 1, Len(events))
\* Mutant: the snapshot is used whatever the events are.
SnapshotFirst(snapshot, events) == snapshot \o EventTail(snapshot, events)
Hydrated(snapshot, events) ==
  IF BoundaryHolds(snapshot, events) THEN snapshot \o EventTail(snapshot, events) ELSE events

\* Mutant: the clock of the row is kept.
TimerOfRow(timer, game) == timer
RestoredTimer(timer, game) == IF timer = Active(game) THEN timer ELSE Active(game)

\* The records hydratePersistedRoomRecords can make of the answers so far.
Records(s) == [timer : {task[s].timer}, events : task[s].events, snapshot : task[s].snapshot]

RoomFromRecord(record) ==
  LET game == Hydrated(record.snapshot, record.events)
  IN Room(game, record.events, RestoredTimer(record.timer, game))

\* loadRoomByRef has returned.
Read(s) == Doing(s, "load") /\ Records(s) # {}

\* Only now is the room claimed.
Keep(s) ==
  /\ Read(s) /\ Acquire(s)
  /\ \E record \in Records(s) : memory' = [memory EXCEPT ![s] = RoomFromRecord(record)]
  /\ shown' = [shown EXCEPT ![s] = memory'[s].game]
  /\ Ends(s)
  /\ UNCHANGED <<log, saved, row, crashes>>

\* ROOM_NOT_OWNED, and the room was loaded in vain.
NotOwned(s) ==
  /\ Read(s) /\ ~Free(s) /\ Ends(s)
  /\ UNCHANGED <<tables, memory, shown, crashes>>

-----------------------------------------------------------------------------
\* A command, a timer or a bot (commit), a pause or a change of connections
\* (save): claim the room first.
Begin(s) ==
  /\ memory[s] # Unloaded /\ Idle(s) /\ Acquire(s)
  /\ \E kind \in {"commit", "save"} : task' = [task EXCEPT ![s] = [kind |-> kind]]
  /\ UNCHANGED <<log, saved, row, memory, shown, crashes>>

\* Mutant: events go to the end of the log, whatever their numbers are.
AnySlot(s) == TRUE
\* The primary key (match_id, seq) of match_events.
FreeSlot(s) == Len(memory[s].events) = Len(log)

SnapshotDue(events) == Len(events) % SnapshotEvery = 0

\* commitMatchEvents: row, events and snapshot in one transaction; only then
\* does memory follow, and the players are told.
Commit(s) ==
  /\ Doing(s, "commit") /\ FreeSlot(s) /\ Len(log) < MaxLog
  /\ \E p \in Seated :
        LET room == Room(Append(memory[s].game, p), Append(memory[s].events, p), p) IN
        /\ log' = Append(log, p) /\ row' = p
        /\ saved' = IF SnapshotDue(room.events) THEN room.game ELSE saved
        /\ memory' = [memory EXCEPT ![s] = room]
        /\ shown' = [shown EXCEPT ![s] = room.game]
  /\ Ends(s)
  /\ UNCHANGED <<lease, crashes>>

\* EVENT_COMMIT_FAILED: the room stays as it was.
CommitFails(s) ==
  /\ Doing(s, "commit") /\ ~FreeSlot(s) /\ Ends(s)
  /\ UNCHANGED <<tables, memory, shown, crashes>>

\* persistRoom: nothing protects the row from a server that lost its lease.
Save(s) ==
  /\ Doing(s, "save") /\ row' = memory[s].timer /\ Ends(s)
  /\ UNCHANGED <<lease, log, saved, memory, shown, crashes>>

Crash(s) ==
  /\ crashes < MaxCrashes /\ crashes' = crashes + 1
  /\ memory' = [memory EXCEPT ![s] = Unloaded] /\ Ends(s)
  /\ UNCHANGED <<tables, shown>>

LeaseRunsOut ==
  /\ lease.left > 0 /\ lease' = [lease EXCEPT !.left = @ - 1]
  /\ UNCHANGED <<log, saved, row, memory, task, shown, crashes>>

Loads(s) == ReadRow(s) \/ ReadEvents(s) \/ ReadSnapshot(s) \/ Keep(s) \/ NotOwned(s)
LeaseNext ==
  \/ \E s \in Servers : Loads(s) \/ Begin(s) \/ Commit(s) \/ CommitFails(s) \/ Save(s) \/ Crash(s)
  \/ LeaseRunsOut

LeaseSpec == LeaseInit /\ [][LeaseNext]_leaseVars

-----------------------------------------------------------------------------
Loaded(s) == memory[s] # Unloaded

\* Leases run out under tasks, and rooms are read before they are claimed; even
\* so no two servers ever show their players histories of which neither is a
\* beginning of the other, and what was shown stays in the log.
ServersAgree ==
  /\ \A s \in Servers : IsPrefix(shown[s], log) /\ (Loaded(s) => IsPrefix(memory[s].game, log))
  /\ \A s, t \in Servers : IsPrefix(shown[s], shown[t]) \/ IsPrefix(shown[t], shown[s])

\* The queries of a load see the room, its events and its snapshot at different
\* moments, and a row may be older than both; what is made of them is whole: the
\* game is the one of the events, and the clock is that of the player to act.
LoadedWhole ==
  \A s \in Servers : Loaded(s) => /\ memory[s].game = memory[s].events
                                  /\ memory[s].timer = Active(memory[s].events)

\* Two servers on one room, leases running out under them: whatever either holds
\* or has shown is the log's (room-manager.ts, event-store.ts).
LeasedRoomsTrue == ServersAgree /\ LoadedWhole
=============================================================================
