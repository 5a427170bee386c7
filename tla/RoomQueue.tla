------------------------------ MODULE RoomQueue ------------------------------
(***************************************************************************)
(* The per-room promise chain of packages/server/src/room-manager.ts       *)
(* (enqueueRoom, enqueueRooms).  Every mutation of a room runs inside this *)
(* queue.  A call appends a `current` promise behind the promise that      *)
(* roomQueues holds for the room, awaits the latter, runs its task, and    *)
(* releases `current` in a `finally`.  A call over two rooms (switchRoom)  *)
(* nests the acquisitions in sorted order.                                 *)
(*                                                                         *)
(* A promise is its index in `chain`; 0 stands for the settled promise an  *)
(* absent map entry is replaced by.  A tail settles when its own `current` *)
(* does, because `current` is released only after the previous tail has    *)
(* been awaited.  A task that throws takes the same `finally` path as one  *)
(* that returns, so the two are one action.                                *)
(***************************************************************************)
EXTENDS Integers, Sequences, FiniteSets

CONSTANTS
  Tasks,     \* the calls made during the run, each made once
  Rooms,     \* room ids, numbered in the order localeCompare sorts them
  MaxRooms   \* largest number of rooms one call names (2 in the code)

ASSUME RoomsAssumption == Rooms \subseteq Nat
ASSUME MaxRoomsAssumption == MaxRooms \in Nat

VARIABLES
  plan,      \* plan[t]: the room ids of call t
  chain,     \* every `current` promise made so far, oldest first
  released,  \* the promises whose release() has run
  tail,      \* roomQueues: the last promise of a room, 0 when the key is absent
  waiting,   \* waiting[t]: the promise whose predecessor t awaits, 0 if none
  phase      \* where the call is

vars == <<plan, chain, released, tail, waiting, phase>>

Phases == {"idle", "acquiring", "running", "unwinding", "done"}
Promise == [task : Tasks, room : Rooms, prev : Nat]

TypeOK ==
  /\ plan \in [Tasks -> SUBSET Rooms]
  /\ chain \in Seq(Promise)
  /\ released \subseteq DOMAIN chain
  /\ tail \in [Rooms -> Nat]
  /\ waiting \in [Tasks -> Nat]
  /\ phase \in [Tasks -> Phases]

Init ==
  /\ plan = [t \in Tasks |-> {}]
  /\ chain = <<>>
  /\ released = {}
  /\ tail = [r \in Rooms |-> 0]
  /\ waiting = [t \in Tasks |-> 0]
  /\ phase = [t \in Tasks |-> "idle"]

-----------------------------------------------------------------------------
\* The promises that have not been released yet.
Pending == DOMAIN chain \ released

SettledAtOnce(n) == TRUE          \* a slip: the await is missing
\* The predecessor of promise n has settled.
Settled(n) == chain[n].prev = 0 \/ chain[n].prev \in released

\* Call t has come past its await of promise n and has not released it.
Entered(n) == n \in Pending /\ waiting[chain[n].task] # n

\* The first of a set of room ids in sorted order.
IsFirst(r, S) == r \in S /\ \A q \in S : r <= q

\* The synchronous head of enqueueRoom: read the map, store the new tail,
\* start awaiting.
Enqueue(t, r) ==
  /\ chain' = Append(chain, [task |-> t, room |-> r, prev |-> tail[r]])
  /\ tail' = [tail EXCEPT ![r] = Len(chain) + 1]
  /\ waiting' = [waiting EXCEPT ![t] = Len(chain) + 1]

\* enqueueRooms (or enqueueRoom, for a single id) is called.
Call(t) ==
  \E S \in SUBSET Rooms, r \in Rooms :
    /\ phase[t] = "idle"
    /\ Cardinality(S) <= MaxRooms
    /\ IsFirst(r, S)
    /\ plan' = [plan EXCEPT ![t] = S]
    /\ phase' = [phase EXCEPT ![t] = "acquiring"]
    /\ Enqueue(t, r)
    /\ UNCHANGED released

\* The room ids of call t after the one it has just acquired.
Rest(t) == {q \in plan[t] : q > chain[waiting[t]].room}

\* The awaited tail settles and another room is left: acquire(index + 1).
AcquireNext(t) ==
  \E r \in Rooms :
    /\ waiting[t] # 0 /\ Settled(waiting[t])
    /\ IsFirst(r, Rest(t))
    /\ Enqueue(t, r)
    /\ UNCHANGED <<plan, released, phase>>

\* The awaited tail settles and every room is held: the task runs.
Run(t) ==
  /\ waiting[t] # 0 /\ Settled(waiting[t])
  /\ Rest(t) = {}
  /\ waiting' = [waiting EXCEPT ![t] = 0]
  /\ phase' = [phase EXCEPT ![t] = "running"]
  /\ UNCHANGED <<plan, chain, released, tail>>

ReleaseLater(n) == released             \* a slip: release() is skipped
Release(n) == released \cup {n}

TailAlwaysCleared(n) == [tail EXCEPT ![chain[n].room] = 0] \* a slip
TailNeverCleared(n) == tail                                \* a slip
\* Delete the map entry only if it is still this call's.
TailAfter(n) == [tail EXCEPT ![chain[n].room] = IF @ = n THEN 0 ELSE @]

\* The innermost `finally` that has not run: release the promise, and delete
\* the map entry if nobody has queued behind it.
Unwind(t) ==
  \E n \in Pending :
    LET held == {m \in Pending : chain[m].task = t} IN
    /\ phase[t] \in {"running", "unwinding"}
    /\ n \in held /\ \A m \in held : m <= n
    /\ released' = Release(n)
    /\ tail' = TailAfter(n)
    /\ phase' = [phase EXCEPT ![t] = IF held = {n} THEN "done" ELSE "unwinding"]
    /\ UNCHANGED <<plan, chain, waiting>>

\* No call is left to make: the manager waits for requests.
Quiet == (\A t \in Tasks : phase[t] = "done") /\ UNCHANGED vars

Next ==
  \/ \E t \in Tasks : Call(t) \/ AcquireNext(t) \/ Run(t) \/ Unwind(t)
  \/ Quiet

\* The event loop runs every continuation that is ready, and the store calls
\* of a task settle.  Nothing forces a call to be made.
Fairness == \A t \in Tasks : WF_vars(AcquireNext(t) \/ Run(t) \/ Unwind(t))

Spec == Init /\ [][Next]_vars /\ Fairness

-----------------------------------------------------------------------------
\* At most one call is past the await of any room: the tasks of a room never
\* interleave, whatever mix of one-room and two-room calls is made.
MutualExclusion ==
  \A n, m \in DOMAIN chain :
    (Entered(n) /\ Entered(m) /\ chain[n].room = chain[m].room) => n = m

\* First come, first served: a call that has entered a room has none of the
\* calls queued before it still pending there.
ServedInOrder ==
  \A n, m \in DOMAIN chain :
    (n < m /\ chain[n].room = chain[m].room /\ Entered(m)) => n \in released

\* roomQueues has a key exactly while a call is pending on the room, and the
\* key names the last of them: nothing leaks and nothing is cut off.
QueueEntriesExact ==
  \A r \in Rooms :
    LET mine == {n \in Pending : chain[n].room = r} IN
    IF mine = {} THEN tail[r] = 0
    ELSE tail[r] \in mine /\ \A n \in mine : n <= tail[r]

\* Every call that is made runs its task and lets go of all its rooms.
CallsSettle == \A t \in Tasks : (phase[t] # "idle") ~> (phase[t] = "done")

-----------------------------------------------------------------------------
\* The queue seen as locks: who has lined up for a room, in the order of the
\* promises that are pending there, and who is past its await.
PendingIn(r) == {n \in Pending : chain[n].room = r}
Rank(S, n) == Cardinality({m \in S : m <= n})
Ranked(S, i) == {n \in S : Rank(S, n) = i}
Nth(S, i) == CHOOSE n \in Ranked(S, i) : TRUE

Line == [r \in Rooms |->
           [i \in 1 .. Cardinality(PendingIn(r)) |-> chain[Nth(PendingIn(r), i)].task]]
Inside == [r \in Rooms |-> {chain[n].task : n \in {m \in PendingIn(r) : Entered(m)}}]

Locks == INSTANCE RoomLocks WITH line <- Line, inside <- Inside

\* The promise chain is a first-come first-served lock per room: every step of
\* enqueueRoom and enqueueRooms is a step of RoomLocks or changes nothing there.
ImplementsRoomLocks == Locks!Spec
=============================================================================
