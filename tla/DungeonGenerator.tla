-------------------------- MODULE DungeonGenerator --------------------------
(***************************************************************************)
(* The map of a dungeon room: a random fill is smoothed by a cellular      *)
(* automaton, small regions are removed, the caves that remain are joined  *)
(* by passages, first each to its nearest, then until all are accessible   *)
(* from the largest; then the spawn position and the portals are chosen.   *)
(* A choice the code leaves to the order of tiles or to an unstable sort   *)
(* is any of the equal ones.  Props and lights only decorate the result.   *)
(***************************************************************************)
EXTENDS Integers, FiniteSets, Sequences, FiniteSetsExt

CONSTANTS GRID_WIDTH, GRID_HEIGHT, SMOOTH_ITERATIONS, WALL_THRESHOLD_SIZE,
          ROOM_THRESHOLD_SIZE, PASSAGE_RADIUS,
          NumPortals, MinOpen,   \* of PlacePortals: how many, and floor tiles around one
          SpawnDistance,         \* its square
          Fills                  \* the random fills tried, as sets of floor tiles

VARIABLE g

(* g.floor: the tiles with grid_ = 0.  g.smooth: iterations to go.         *)
(* g.rooms: survivingRooms_, the set of tiles of each; g.edges: edgeTiles. *)
(* g.links: connectedRoomIndices; g.acc: isAccessibleFromMainRoom.         *)
(* g.at: the roomA of the first pass of ConnectClosestRooms.               *)
InitWith(fill) ==
    g = [phase |-> "smooth", floor |-> fill, smooth |-> SMOOTH_ITERATIONS, rooms |-> <<>>,
         edges |-> <<>>, links |-> {}, acc |-> {}, at |-> 1, spawn |-> {}, portals |-> {}]

-----------------------------------------------------------------------------
Cells == (0..GRID_WIDTH-1) \X (0..GRID_HEIGHT-1)

Square(a, b) == (a[1] - b[1]) * (a[1] - b[1]) + (a[2] - b[2]) * (a[2] - b[2])

(* The tiles in map range of the square of side 2n + 1 around c. *)
Ring(c, n) == ((c[1]-n .. c[1]+n) \X (c[2]-n .. c[2]+n)) \cap Cells
Beside(c) == {d \in Ring(c, 1) : Square(c, d) = 1}

(* RandomFillMap: the border is wall, any other tile may be either. *)
RandomFillMap == \E fill \in Fills :
    /\ \A c \in fill : Cardinality(Ring(c, 1)) = 9
    /\ InitWith(fill)

Init == RandomFillMap

(* A tile out of range counts as wall. *)
GetSurroundingWallCount(floor, c) == 8 - Cardinality((Ring(c, 1) \ {c}) \cap floor)

Smoothed(floor) ==
    {c \in Cells : LET n == GetSurroundingWallCount(floor, c)
                   IN  n < 4 \/ (n = 4 /\ c \in floor)}

SmoothMap ==
    /\ g.phase = "smooth" /\ g.smooth > 0
    /\ g' = [g EXCEPT !.floor = Smoothed(@), !.smooth = @ - 1]

(* GetRegionTiles, the flood fill: front is its queue.  A variable bound   *)
(* to a single value is, here and below, a LET that TLC evaluates once.    *)
RECURSIVE Flood(_, _, _)
Flood(of, seen, front) ==
    IF front = {} THEN seen
    ELSE UNION {Flood(of, seen \cup new, new) :
                   new \in {{d \in UNION {Beside(c) : c \in front} :
                               d \in of /\ d \notin seen}}}

RECURSIVE GetRegions(_)
GetRegions(of) ==
    IF of = {} THEN {}
    ELSE LET c == CHOOSE c \in of : TRUE
         IN  UNION {{region} \cup GetRegions({d \in of : d \notin region}) : region \in {Flood(of, {c}, {c})}}

EdgeTiles(room, floor) == {c \in room : ~(Beside(c) \subseteq floor)}

(* The surviving rooms by size, the largest first. *)
Orders(rooms) ==
    {s \in [1..Cardinality(rooms) -> rooms] :
        \A i, j \in DOMAIN s : i < j =>
            s[i] # s[j] /\ Cardinality(s[i]) >= Cardinality(s[j])}

ProcessMap ==
    /\ g.phase = "smooth" /\ g.smooth = 0
    /\ \E filled \in {{r \in GetRegions(Cells \ g.floor) : Cardinality(r) < WALL_THRESHOLD_SIZE}} :
       \E rooms \in {{r \in GetRegions(g.floor \cup UNION filled) :
                        Cardinality(r) >= ROOM_THRESHOLD_SIZE}} :
       \E floor \in {UNION rooms}, s \in Orders(rooms) :
             g' = [g EXCEPT !.floor = floor, !.rooms = s,
                            !.edges = [i \in DOMAIN s |-> EdgeTiles(s[i], floor)],
                            !.acc = IF s = <<>> THEN {} ELSE {1},
                            !.phase = IF s = <<>> THEN "spawn" ELSE "connect"]

-----------------------------------------------------------------------------
Sign(n) == IF n > 0 THEN 1 ELSE IF n < 0 THEN -1 ELSE 0

(* From a up to, and without, b: i steps along the longer side, and one    *)
(* along the other each time the gradient, which starts at half of longest *)
(* and grows by shortest with every step, has passed longest.              *)
GetLine(a, b) ==
    LET dx == b[1] - a[1]
        dy == b[2] - a[2]
        adx == Sign(dx) * dx
        ady == Sign(dy) * dy
        turns(i, longest, shortest) == (longest \div 2 + i * shortest) \div longest
    IN  IF adx < ady
        THEN {<<a[1] + turns(i, ady, adx) * Sign(dx), a[2] + i * Sign(dy)>> : i \in 0..ady - 1}
        ELSE {<<a[1] + i * Sign(dx), a[2] + turns(i, adx, ady) * Sign(dy)>> : i \in 0..adx - 1}

(* Mutant: a passage as narrow as the line. *)
DrawPoint(c, r) == {c}

DrawCircle(c, r) == {d \in Ring(c, r) : Square(c, d) <= r * r}

(* setAccessible, the rooms it reaches from idx. *)
RECURSIVE SetAccessible(_, _, _)
SetAccessible(links, acc, front) ==
    IF front \subseteq acc THEN acc
    ELSE SetAccessible(links, acc \cup front,
                       {j \in DOMAIN g.rooms : \E i \in front \ acc : <<i, j>> \in links})

(* Mutant: only the room at the end becomes accessible, not those behind. *)
CreatePassageMarksEnd(a, b, tileA, tileB) ==
    [g EXCEPT !.links = @ \cup {<<a, b>>, <<b, a>>},
              !.acc = IF {a, b} \cap @ = {} THEN @ ELSE @ \cup {a, b},
              !.floor = @ \cup UNION {DrawCircle(c, PASSAGE_RADIUS) : c \in GetLine(tileA, tileB)}]

CreatePassage(a, b, tileA, tileB) ==
    LET links == g.links \cup {<<a, b>>, <<b, a>>} IN
    [g EXCEPT !.links = links,
              !.acc = IF a \in @ THEN SetAccessible(links, @, {b})
                      ELSE IF b \in @ THEN SetAccessible(links, @, {a})
                      ELSE @,
              !.floor = @ \cup UNION {DrawCircle(c, PASSAGE_RADIUS) : c \in GetLine(tileA, tileB)}]

(* The possible connections of rooms in as to rooms in bs, and the closest. *)
Connections(as, bs) ==
    UNION {{a} \X {b} \X g.edges[a] \X g.edges[b] :
              <<a, b>> \in {q \in as \X bs : q[1] # q[2] /\ q \notin g.links}}
Closest(cs) ==
    UNION {{c \in cs : Square(c[3], c[4]) = least} :
              least \in {Min({Square(c[3], c[4]) : c \in cs})}}

(* ConnectClosestRooms(false): each room in turn that has no connection. *)
ConnectEach ==
    /\ g.phase = "connect"
    /\ IF g.at > Len(g.rooms) THEN g' = [g EXCEPT !.phase = "force"]
       ELSE \E cs \in {IF \E q \in g.links : q[1] = g.at THEN {}
                       ELSE Connections({g.at}, DOMAIN g.rooms)} :
                IF cs = {} THEN g' = [g EXCEPT !.at = @ + 1]
                ELSE \E c \in Closest(cs) :
                        g' = [CreatePassage(c[1], c[2], c[3], c[4]) EXCEPT !.at = @ + 1]

(* ConnectClosestRooms(true), and each of its recursive calls. *)
ConnectMain ==
    /\ g.phase = "force"
    /\ \E cs \in {Connections(DOMAIN g.rooms \ g.acc, g.acc)} :
           IF cs = {} THEN g' = [g EXCEPT !.phase = "spawn"]
           ELSE \E c \in Closest(cs) : g' = CreatePassage(c[1], c[2], c[3], c[4])

-----------------------------------------------------------------------------
Openness(c, n) == Cardinality(Ring(c, n) \cap g.floor)

(* With no room left the spawn is the middle of the map, whatever is there. *)
FindSpawnPosition ==
    /\ g.phase = "spawn"
    /\ \E c \in IF g.rooms = <<>> THEN {<<GRID_WIDTH \div 2, GRID_HEIGHT \div 2>>}
                ELSE UNION {{t \in g.rooms[1] : Openness(t, 2) = best} :
                               best \in {Max({Openness(t, 2) : t \in g.rooms[1]})}} :
          g' = [g EXCEPT !.phase = "portals", !.spawn = {c}]

(* PlacePortals, the next of its loop: the farthest candidate that is not  *)
(* too close to a portal already placed, 8 percent of the diagonal.        *)
Candidates ==
    {c \in g.floor : /\ c[1] \in 2..GRID_WIDTH-3 /\ c[2] \in 2..GRID_HEIGHT-3
                     /\ Openness(c, 2) >= MinOpen
                     /\ \A s \in g.spawn : Square(c, s) >= SpawnDistance
                     /\ \A p \in g.portals : 100 * Square(c, p) >=
                            8 * (GRID_WIDTH * GRID_WIDTH + GRID_HEIGHT * GRID_HEIGHT)}

PlacePortals ==
    /\ g.phase = "portals"
    /\ \E s \in g.spawn, cs \in {Candidates} :
         IF cs = {} \/ Cardinality(g.portals) >= NumPortals
         THEN g' = [g EXCEPT !.phase = "done"]
         ELSE \E farthest \in {Max({Square(c, s) : c \in cs})}, c \in cs :
                /\ Square(c, s) = farthest
                /\ g' = [g EXCEPT !.portals = @ \cup {c}]

(* GetRandomFloorPosition: where a player starts, give or take a jitter    *)
(* that is checked, and where players and bots come back.  SpawnBots uses  *)
(* it not: bots start around the spawn, on whatever is there.              *)
FloorPositions ==
    LET tiles == UNION {g.rooms[i] : i \in DOMAIN g.rooms}
        open == {c \in tiles : Openness(c, 1) - 1 >= 5}
    IN  IF open = {} THEN tiles ELSE open

Next == SmoothMap \/ ProcessMap \/ ConnectEach \/ ConnectMain \/ FindSpawnPosition \/ PlacePortals

Spec == Init /\ [][Next]_g

-----------------------------------------------------------------------------
(* Generate: however the caves lie, when the map is done its floor is in   *)
(* one piece, walking along the sides of tiles, with the spawn, every      *)
(* portal and every tile GetRandomFloorPosition may choose in it.  On the  *)
(* way, a room is marked accessible exactly if passages lead to it from    *)
(* the main room.  Nothing is said of the first places of bots.            *)
MapInOnePiece ==
    /\ g.phase \in {"connect", "force"} =>
         g.acc = SetAccessible(g.links, {}, {1})
    /\ g.phase = "done" /\ g.rooms # <<>> =>
         \A s \in g.spawn :
           /\ Flood(g.floor, {s}, {s}) = g.floor
           /\ g.spawn \cup g.portals \cup FloorPositions \subseteq g.floor
=============================================================================
