---------------------------- MODULE MCRoomLifecycle ----------------------------
(***************************************************************************)
(* Instances of RoomLifecycle for TLC.  A run takes all its scenarios: a   *)
(* behaviour keeps to the one it starts with.                              *)
(***************************************************************************)
EXTENDS RoomLifecycle, TLC

CONSTANTS c1, c2, u1, u2

MCUser == (c1 :> u1) @@ (c2 :> u2)

\* The two players, each with a connection, are alike.
MCAlike == {p \in Permutations(Conns \cup Users) :
              \A c \in Conns : p[c] \in Conns /\ p[User[c]] = User[p[c]]}

\* One room of two seats, and nothing goes wrong.
Calm == [kinds |-> {"join"}, size |-> 2, create |-> 1, ask |-> 3, close |-> 0, silence |-> 0,
         failure |-> 0, outage |-> 0, expiry |-> 0, finish |-> 0, stall |-> 0, restart |-> 0,
         unloaded |-> 0]

\* Two players rearrange a lobby of up to three seats, with one error of each kind.
Lobby == [Calm EXCEPT !.kinds = AllKinds \ {"watch"}, !.size = 3, !.close = 1, !.failure = 1,
                      !.outage = 1]
\* Players and spectators come, go and come back, through a whole game.
Connections == [Calm EXCEPT !.kinds = {"join", "watch", "ready", "unready", "start"}, !.ask = 4,
                            !.close = 2, !.finish = 1, !.stall = 1, !.restart = 1]
\* Two players move between two rooms that start meanwhile.
Moving == [Calm EXCEPT !.kinds = {"join", "ready"}, !.create = 2, !.ask = 4]
\* Cleanup races joins, leaves and a lost connection.
Closing == [Calm EXCEPT !.kinds = {"join", "leave"}, !.close = 1, !.expiry = 1]
\* A game is deserted, and a server restarted.
Pausing == [Calm EXCEPT !.kinds = {"join", "ready"}, !.close = 2, !.finish = 1, !.stall = 1,
                        !.restart = 1]
\* A room is deserted, closed and reopened.
Unloading == [Calm EXCEPT !.kinds = {"join", "ready"}, !.close = 1, !.expiry = 3]

\* A silent connection is swept away meanwhile.
Swept == [Closing EXCEPT !.ask = 2, !.silence = 1]

MCMembers == ("lobby" :> Lobby) @@ ("connections" :> Connections) @@ ("moving" :> Moving)
             @@ ("swept" :> Swept) @@ ("closing" :> Closing)
MCDeserted == ("pausing" :> Pausing) @@ ("unloading" :> Unloading)
MCLazyLoad == "lazy load" :> [Calm EXCEPT !.ask = 2, !.restart = 1, !.unloaded = 1]
MCReopened == "reopened" :> [Calm EXCEPT !.ask = 1, !.expiry = 1]
=============================================================================
