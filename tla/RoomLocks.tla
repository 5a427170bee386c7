------------------------------ MODULE RoomLocks ------------------------------
(***************************************************************************)
(* What the room queue promises: every room has a line of callers, only    *)
(* the head of the line may be inside, and a caller leaves the line when   *)
(* it leaves the room.  No promises, no map: RoomQueue implements this.    *)
(***************************************************************************)
EXTENDS Sequences

CONSTANTS Tasks, Rooms

VARIABLES
  line,    \* line[r]: the callers of room r in order of arrival
  inside   \* inside[r]: the callers that are in room r

lockVars == <<line, inside>>

Init ==
  /\ line = [r \in Rooms |-> <<>>]
  /\ inside = [r \in Rooms |-> {}]

LineUp(t, r) == line' = [line EXCEPT ![r] = Append(@, t)]

GoIn(t, r) ==
  /\ line[r] # <<>> /\ Head(line[r]) = t /\ inside[r] = {}
  /\ inside' = [inside EXCEPT ![r] = {t}]

\* A caller arrives at its first room.
Arrive(t, r) == LineUp(t, r) /\ UNCHANGED inside

\* A caller enters a room, and goes on to the line of its next room if any.
Enter(t, r) ==
  /\ GoIn(t, r)
  /\ UNCHANGED line \/ \E q \in Rooms \ {r} : LineUp(t, q)

Leave(t, r) ==
  /\ inside[r] = {t}
  /\ line' = [line EXCEPT ![r] = Tail(@)]
  /\ inside' = [inside EXCEPT ![r] = {}]

Next == \E t \in Tasks, r \in Rooms : Arrive(t, r) \/ Enter(t, r) \/ Leave(t, r)

Spec == Init /\ [][Next]_lockVars
=============================================================================
