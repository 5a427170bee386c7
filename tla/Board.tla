------------------------------- MODULE Board -------------------------------
(***************************************************************************)
(* How board.ts makes the board of a match: the land of each map preset,   *)
(* its vertices, edges and ports.  A hex is a pair of axial coordinates; a *)
(* vertex a pair of integers, x in units of sqrt(3)/2 and y of 1/2, exact  *)
(* where the code rounds.  The seeded shuffle may favour any candidate.    *)
(* Which hex bears which terrain and token is left out.                    *)
(***************************************************************************)
EXTENDS Integers, Sequences, FiniteSets, FiniteSetsExt, SequencesExt

CONSTANTS
  StandardRadius,   \* 2 for every match
  IslandOffset,     \* 5
  ContinentHexes,   \* 31, of those within
  ContinentRadius,  \* 4
  PortCount,        \* the length of portSpecs, 9
  MaxPlayers        \* seats of an online room or a local match

VARIABLES land, mapPreset
boardVars == <<land, mapPreset>>

-----------------------------------------------------------------------------
(* Hexes.                                                                  *)
Abs(n) == IF n < 0 THEN 0 - n ELSE n
AxialDistance(h, k) ==
  (Abs(h[1] - k[1]) + Abs(h[2] - k[2]) + Abs(h[1] + h[2] - k[1] - k[2])) \div 2
AxialNeighbors(h) ==
  {<<h[1] + d[1], h[2] + d[2]>> : d \in {<<1, 0>>, <<-1, 0>>, <<0, 1>>, <<0, -1>>, <<1, -1>>, <<-1, 1>>}}
HexCoordsWithinRadius(n) == {h \in (-n..n) \X (-n..n) : Abs(h[1] + h[2]) <= n}
TranslateCoords(coords, q) == {<<h[1] + q, h[2]>> : h \in coords}

\* The corners of a hex, in turn, and its sides.
HexCorners(h) ==
  LET x == 2 * h[1] + h[2]
      y == 3 * h[2]
  IN  <<<<x + 1, y + 1>>, <<x, y + 2>>, <<x - 1, y + 1>>, <<x - 1, y - 1>>, <<x, y - 2>>, <<x + 1, y - 1>>>>
Sides(h) == {{HexCorners(h)[i], HexCorners(h)[(i % 6) + 1]} : i \in 1..6}

-----------------------------------------------------------------------------
(* The graph of a land.                                                    *)
Vertices(coords) == UNION {ToSet(HexCorners(h)) : h \in coords}
Edges(coords) == UNION {Sides(h) : h \in coords}
AdjacentHexes(coords, e) == {h \in coords : e \in Sides(h)}

\* An edge's place on the coast is the angle of its middle, from -pi (left out)
\* to pi; of two on one ray, rounding decides: the nearer first, or the farther.
Middle(e) == LET a == CHOOSE v \in e : TRUE
                 b == CHOOSE v \in e : v # a
             IN  <<a[1] + b[1], a[2] + b[2]>>
Quarter(m) == IF m[2] < 0 THEN 1 ELSE IF m[2] > 0 THEN 3 ELSE IF m[1] > 0 THEN 2 ELSE 4
Cross(m, n) == m[1] * n[2] - n[1] * m[2]
InTurn(m, n, nearFirst) ==
  IF Quarter(m) # Quarter(n) THEN Quarter(m) < Quarter(n)
  ELSE IF Cross(m, n) # 0 THEN Cross(m, n) > 0
  ELSE nearFirst <=> Abs(m[1]) + Abs(m[2]) < Abs(n[1]) + Abs(n[2])
CoastEdges(coords, nearFirst) ==
  LET coast == {e \in Edges(coords) : Cardinality(AdjacentHexes(coords, e)) = 1}
      Earlier(e) == {f \in coast : f # e /\ InTurn(Middle(f), Middle(e), nearFirst)}
  IN  [i \in 1..Cardinality(coast) |-> CHOOSE e \in coast : Cardinality(Earlier(e)) = i - 1]

\* Mutant: the first edges of the coast.
SideBySide(coast, index) == coast[index + 1]
Spread(coast, index) == coast[((index * Len(coast)) \div Min({PortCount, Len(coast)})) + 1]
\* The edges of the ports, by their index in portSpecs.
Ports(coast) == [index \in 0..(Min({PortCount, Len(coast)}) - 1) |-> Spread(coast, index)]

\* The part of the land connected with h, and how many parts there are.
Reachable(coords, h) ==
  FoldSet(LAMBDA i, found : found \cup (UNION {AxialNeighbors(k) : k \in found} \cap coords), {h}, 1..Cardinality(coords))
BoardHexComponentCount(coords) ==
  FoldSet(LAMBDA h, seen : IF h \in seen.visited THEN seen
                           ELSE [visited |-> seen.visited \cup Reachable(coords, h), components |-> seen.components + 1],
          [visited |-> {}, components |-> 0], coords).components

-----------------------------------------------------------------------------
(* The land of each preset.                                                *)
BoardInit == land = {} /\ mapPreset = "none"

CreateSeededBoard ==
  /\ mapPreset = "none" /\ mapPreset' = "standard"
  /\ land' = HexCoordsWithinRadius(StandardRadius)
CreateIslandBoard ==
  /\ mapPreset = "none" /\ mapPreset' = "islands"
  /\ LET island == HexCoordsWithinRadius(StandardRadius)
     IN  land' = TranslateCoords(island, -IslandOffset) \cup TranslateCoords(island, IslandOffset)

\* A continent starts in the middle and grows one hex at a time, where it has
\* the most neighbors, and of those closest to the middle.
CreateContinentBoard ==
  /\ mapPreset = "none" /\ mapPreset' = "continent"
  /\ land' = {<<0, 0>>}

Frontier == (UNION {AxialNeighbors(h) : h \in land} \cap HexCoordsWithinRadius(ContinentRadius)) \ land
NeighborCount(h) == Cardinality(AxialNeighbors(h) \cap land)
\* Mutant: the order the other way round.
RankedLast(h, k) == NeighborCount(h) < NeighborCount(k)
Ranked(h, k) ==
  \/ NeighborCount(h) > NeighborCount(k)
  \/ NeighborCount(h) = NeighborCount(k) /\ AxialDistance(h, <<0, 0>>) < AxialDistance(k, <<0, 0>>)
GrowContinent ==
  /\ mapPreset = "continent" /\ Cardinality(land) < ContinentHexes
  /\ \E h \in Frontier : (\A k \in Frontier : ~Ranked(k, h)) /\ land' = land \cup {h}
  /\ UNCHANGED mapPreset

BoardNext == CreateSeededBoard \/ CreateIslandBoard \/ CreateContinentBoard \/ GrowContinent
BoardDone == mapPreset \in {"standard", "islands"} \/ (mapPreset = "continent" /\ (Frontier = {} \/ Cardinality(land) >= ContinentHexes))

-----------------------------------------------------------------------------
\* What validateBoard says of the graph: createGame refuses a board otherwise.
BoardValid(coords, ports) ==
  /\ \A h \in coords : Cardinality(ToSet(HexCorners(h))) = 6
  /\ Cardinality(Vertices(coords)) >= 8 /\ Cardinality(Edges(coords)) >= 8
  /\ \A index \in DOMAIN ports : Cardinality(AdjacentHexes(coords, ports[index])) = 1

\* No lake: with as many vertices, edges and hexes as a plane figure has that
\* consists of so many parts without holes.
Whole(coords, parts) ==
  Cardinality(Vertices(coords)) - Cardinality(Edges(coords)) + Cardinality(coords) = parts

\* No vertex has two ports, and every part of the land has a port.
PortsSpread(coords, ports) ==
  /\ \A i, j \in DOMAIN ports : i # j => ports[i] \cap ports[j] = {}
  /\ \A h \in coords : \E index \in DOMAIN ports : AdjacentHexes(coords, ports[index]) \subseteq Reachable(coords, h)

\* However settlements are placed, a player finds a vertex for the next: each
\* takes its own and at most three around it.
RoomToSettle(coords) == Cardinality(Vertices(coords)) > 4 * (2 * MaxPlayers - 1)

\* Every board a match can be played on is whole, as many islands as its preset
\* promises, with ports all around and room for every player, whatever the seed.
BoardsPlayable ==
  BoardDone =>
    LET parts == IF mapPreset = "islands" THEN 2 ELSE 1
    IN  /\ mapPreset = "continent" => Cardinality(land) = ContinentHexes
        /\ BoardHexComponentCount(land) = parts /\ Whole(land, parts) /\ RoomToSettle(land)
        /\ \A nearFirst \in BOOLEAN :
             LET ports == Ports(CoastEdges(land, nearFirst))
             IN  BoardValid(land, ports) /\ PortsSpread(land, ports)
=============================================================================
