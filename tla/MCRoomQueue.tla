----------------------------- MODULE MCRoomQueue -----------------------------
(***************************************************************************)
(* Model checking of RoomQueue.                                            *)
(***************************************************************************)
EXTENDS RoomQueue

\* Room ids are taken from the start of the sort order.
MCRooms == 1 .. 2
=============================================================================
