------------------------------ MODULE MCApps ------------------------------
(***************************************************************************)
(* The applications, for TLC: the dungeon server, what happens in one of   *)
(* its rooms, its parties and the map of a room, the hub and the           *)
(* connections of the activity server, the packet framing and the          *)
(* registries of the game module.  A behaviour is one of one of them; the  *)
(* variables of the others keep an initial value.                          *)
(***************************************************************************)
EXTENDS GameRegistry, Sequences, TLC

CONSTANTS Scenarios, MaxRooms,                                   \* DungeonServer
          Humans, Bots, MaxHp, Damage, LowHp, RespawnDelay, Budgets,  \* DungeonRoom
          PartyRooms, Members, MaxPackets,                       \* PartySystem
          GRID_WIDTH, GRID_HEIGHT, SMOOTH_ITERATIONS, WALL_THRESHOLD_SIZE,
          ROOM_THRESHOLD_SIZE, PASSAGE_RADIUS, NumPortals, MinOpen,
          SpawnDistance, Fills,                                  \* DungeonGenerator
          HubScenarios,                                          \* ActivityHub
          Scripts, MaxPending, ChunksPerWrite, FileChunks,       \* ActivitySession
          Sizes, HeaderSize, MaxPacketSize, Capacity             \* PacketSession

VARIABLES which, g, m, party, map, a, c, k

D == INSTANCE DungeonServer
M == INSTANCE DungeonRoom
Y == INSTANCE PartySystem
G == INSTANCE DungeonGenerator WITH g <- map
A == INSTANCE ActivityHub WITH Scenarios <- HubScenarios
C == INSTANCE ActivitySession
K == INSTANCE PacketSession

-----------------------------------------------------------------------------
(* What the clients of the dungeon server send, from login to portals.     *)
Packet(id) == [id |-> id]
LogIn(p, ok) == [id |-> "LOGIN", pid |-> p, ok |-> ok]
Select(ok) == [id |-> "SELECT_CHAR", ok |-> ok]
LoginAs(p) == <<LogIn(p, TRUE), Select(TRUE)>>
Join(room) == [id |-> "JOIN_ROOM", room |-> room]
Ready == Packet("SCENE_READY")
Portal == Packet("PORTAL")
Create == Packet("CREATE_ROOM")

Clients(script) ==
    [script |-> script, worker |-> <<0, 1>>, patient |-> TRUE, drops |-> {2},
     capacity |-> 3, memory |-> TRUE, lobby |-> {}, rooms |-> 0]

MCScenarios ==
  { Clients(<<LoginAs(1) \o <<Create, Ready>>, LoginAs(2) \o <<Join(1), Ready>>>>),
    \* portals, one of which leads back
    Clients(<<LoginAs(1) \o <<Create, Portal, Ready>>, LoginAs(2) \o <<Join(1), Portal, Ready>>>>),
    [Clients(<<LoginAs(1) \o <<Create, Portal>>, LoginAs(2) \o <<Join(1), Ready, Portal>>>>)
       EXCEPT !.drops = {}, !.worker = <<0, 0>>],
    \* a client that does not wait for answers
    [Clients(<<LoginAs(1) \o <<Create>>, LoginAs(2) \o <<Join(1), Join(1), Ready, Portal, Portal>>>>)
       EXCEPT !.patient = FALSE, !.worker = <<0, 0>>],
    \* a new account without a character, a full room, one account twice
    [Clients(<<<<[id |-> "REGISTER", pid |-> 1], LogIn(1, FALSE), LogIn(1, TRUE), Packet("CHAR_LIST"),
                 Select(TRUE), [id |-> "CREATE_CHAR", ok |-> TRUE], Select(TRUE), Create, Ready>>,
               LoginAs(1) \o <<Join(1), Ready>>>>)
       EXCEPT !.capacity = 2, !.memory = FALSE],
    [Clients(<<LoginAs(1) \o <<Create, Ready>>, LoginAs(1) \o <<Create, Ready>>>>)
       EXCEPT !.drops = {1, 2}],
    \* a room whose creator never entered it, which becomes empty, and which
    \* another client joins while it is being removed
    [Clients(<<<<Join(2)>>, <<Create>>, <<Join(2)>>>>)
       EXCEPT !.lobby = {1, 2, 3}, !.rooms = 1, !.drops = {2, 3}, !.worker = <<0, 1, 0>>, !.patient = FALSE] }

(* Fights with each kind of skill at each distance.                        *)
Budget(packets, skills, ticks, dists) ==
    [packets |-> packets, skills |-> skills, ticks |-> ticks, dists |-> dists]
MCDamage == (0 :> 1) @@ (1 :> 2) @@ (2 :> 2) @@ (3 :> -1)
MCBudgets ==
  { Budget(3, {1}, 3, {"far"}), Budget(2, {0}, 3, {"far"}),
    Budget(1, {0, 3}, 2, {"melee", "ranged"}) }

(* Caves beside, below and behind each other, too small ones, and one with *)
(* a pillar; all fills are within what RandomFillMap may produce.          *)
Cave(x, y, w, h) == (x .. x+w-1) \X (y .. y+h-1)
MCFills ==
  {UNION s : s \in SUBSET {Cave(1, 1, 3, 3), Cave(6, 3, 3, 3), Cave(12, 5, 3, 3),
                           Cave(17, 4, 3, 4), Cave(9, 2, 3, 2), Cave(2, 8, 3, 3)}}
  \cup {(Cave(1, 1, 7, 7) \ Cave(3, 3, 3, 3)) \cup UNION s :
           s \in SUBSET {Cave(12, 5, 3, 3), Cave(17, 1, 3, 3)}}

(* Downloads that end around a skip, a removal, a second client; and        *)
(* clients that chat, leave and move.                                       *)
Event(ev, s) == [ev |-> ev, s |-> s, inst |-> 1, id |-> 0]
Events(es) == [sessions |-> {1, 2}, instances |-> {1, 2}, events |-> es]
MCHubScenarios ==
  { Events(<<Event("HELLO", 1), Event("DOWNLOAD", 0), Event("DOWNLOAD", 0), Event("NEXT", 0)>>),
    Events(<<Event("DOWNLOAD", 0), Event("PLAY", 0), [Event("REMOVE", 0) EXCEPT !.id = 1], Event("NEXT", 0)>>),
    Events(<<Event("HELLO", 1), Event("COOKIE_PLAY", 0), Event("PLAY", 0), [Event("REMOVE", 0) EXCEPT !.id = 3]>>),
    Events(<<Event("HELLO", 1), Event("COOKIE_PLAY", 0), Event("DOWNLOAD", 0),
             [Event("REMOVE", 0) EXCEPT !.id = 3, !.inst = 0], Event("REMOVE", 0), Event("SYNC", 1)>>),
    Events(<<Event("HELLO", 1), Event("DOWNLOAD", 0), Event("HELLO", 2), Event("COOKIE_PLAY", 0),
             Event("NEXT", 0)>>),
    Events(<<Event("HELLO", 1), Event("HELLO", 2), Event("CHAT", 1), Event("PING", 1),
             Event("SYNC", 1), Event("HELLO", 1), Event("CLOSE", 1),
             [Event("HELLO", 2) EXCEPT !.inst = 2]>>) }

MCScripts ==
  { <<"api", "file">>, <<"file", "api">>, <<"file", "file">>, <<"gone", "cut">>, <<"bad">>, <<"api", "huge">>,
    <<"ws", "text", "ping", "mute", "close", "text">>, <<"ws", "text", "big", "text">>,
    <<"ws", "ping", "ping", "text", "text">> }

(* Below the header, the header alone, one byte more, and the largest.     *)
MCSizes == [1..4 -> {1, 3, 4, 6}]

-----------------------------------------------------------------------------
Is(name) == which = name

AppInit ==
    /\ which \in {"dungeon", "room", "parties", "map", "hub", "web session", "packets", "registry"}
    /\ Init
    /\ IF Is("dungeon") THEN D!Init ELSE D!InitWith(CHOOSE x \in Scenarios : TRUE)
    /\ IF Is("room") THEN M!Init ELSE M!InitWith(CHOOSE x \in Budgets : TRUE)
    /\ Y!Init
    /\ IF Is("map") THEN G!Init ELSE G!InitWith({})
    /\ IF Is("hub") THEN A!Init ELSE A!InitWith(CHOOSE x \in HubScenarios : TRUE)
    /\ IF Is("web session") THEN C!Init ELSE C!InitWith(CHOOSE x \in Scripts : TRUE)
    /\ IF Is("packets") THEN K!Init ELSE K!InitWith(CHOOSE x \in Sizes : TRUE)

AppNext ==
    /\ UNCHANGED which
    /\ \/ Is("dungeon")     /\ D!Next /\ UNCHANGED <<m, party, map, a, c, k, vars>>
       \/ Is("room")        /\ M!Next /\ UNCHANGED <<g, party, map, a, c, k, vars>>
       \/ Is("parties")     /\ Y!Next /\ UNCHANGED <<g, m, map, a, c, k, vars>>
       \/ Is("map")         /\ G!Next /\ UNCHANGED <<g, m, party, a, c, k, vars>>
       \/ Is("hub")         /\ A!Next /\ UNCHANGED <<g, m, party, map, c, k, vars>>
       \/ Is("web session") /\ C!Next /\ UNCHANGED <<g, m, party, map, a, k, vars>>
       \/ Is("packets")     /\ K!Next /\ UNCHANGED <<g, m, party, map, a, c, vars>>
       \/ Is("registry")    /\ Next /\ UNCHANGED <<g, m, party, map, a, c, k>>

AppSpec ==
    /\ AppInit /\ [][AppNext]_<<which, g, m, party, map, a, c, k, vars>>
    /\ D!Fairness /\ A!Fairness /\ C!Fairness

-----------------------------------------------------------------------------
\* DungeonServer: what a room says to a session arrives in the order it said it.
OutboxInRoomOrder == Is("dungeon") => D!OutboxInRoomOrder

\* DungeonServer: a client shows the players of its room, a client that was
\* told it is in a room is routed there, a room in use stays, and no player's
\* context is gone while by_player_ points at it.
ClientsSeeTheRoom ==
    Is("dungeon") => D!ClientsSeeTheRoom /\ D!RepliedIsRouted /\ D!RoomsStay
                     /\ D!ContextsAlive

\* DungeonServer, ActivityHub, ActivitySession: who leaves is taken out of the
\* rooms, a download ends for the clients too, and a connection whose answer is
\* complete closes.
BegunIsEnded == D!LeaversLeave /\ A!DownloadsEnd /\ C!ClosesAfterAnswer

\* DungeonRoom, PartySystem: the death of a bot, the items on the ground and the
\* membership of a party are each kept in two places, which agree.
RoomAgrees ==
    /\ Is("room") => M!DeadAgree /\ M!ItemsSeen
    /\ Is("parties") => Y!PartyAgrees

\* DungeonGenerator: the floor of a map is in one piece, with all that is put on it.
MapInOnePiece == Is("map") => G!MapInOnePiece

\* ActivityHub: the entry of a download is in one place.
EntriesAccounted == Is("hub") => A!EntriesAccounted

\* ActivityHub: clients show the state and the presence of their instance.
StateShown == Is("hub") => A!StateShown /\ A!PresenceShown

\* ActivitySession: what arrives is handled as it comes, and answered whole.
AnswersWhole == Is("web session") => C!TakenAsTheyCome /\ C!AnswersWhole

\* PacketSession: packets are whole however the stream is cut.
PacketsWhole == Is("packets") => K!PacketsWhole
===========================================================================
