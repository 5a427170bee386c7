\* Four calls over two rooms, each naming one or two of them: holders, waiters
\* and late arrivals in any arrangement, and two calls that name both rooms.
CONSTANTS
  Tasks = {t1, t2, t3, t4}
  Rooms <- MCRooms
  MaxRooms = 2
SPECIFICATION Spec
INVARIANTS MutualExclusion ServedInOrder QueueEntriesExact
PROPERTIES ImplementsRoomLocks CallsSettle
