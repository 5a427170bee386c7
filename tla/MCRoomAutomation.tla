-------------------------- MODULE MCRoomAutomation --------------------------
(* One human and two bots (or one) on a clock of a few moments.            *)
EXTENDS RoomAutomation

CONSTANTS h, b, c
MCHumans == {h}
MCBots == {b, c}
MCOrder == <<h, b, c>>
MCOneBot == {b}
MCTwoSeats == <<h, b>>
=============================================================================
