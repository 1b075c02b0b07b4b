---------------------------- MODULE GameRegistry ----------------------------
(***************************************************************************)
(* PlayerRegistry and RoomManager of the game module: two maps that must   *)
(* stay inverse to each other, and the rooms with the counter that names   *)
(* them.  Each operation holds the object's lock from beginning to end.    *)
(***************************************************************************)
EXTENDS Integers

CONSTANTS SessionIds,  \* session ids other than 0
          PlayerIds,   \* player ids other than 0
          IdCount      \* number of room ids, 2^32 in the code

ASSUME IdsAssumption == IdCount \in Nat /\ IdCount > 1 /\ 0 \notin SessionIds /\ 0 \notin PlayerIds

VARIABLES
    bySession,    \* by_session_: the player and the room id of a record, player 0 for no record
    byPlayer,     \* by_player_: the session of a player, 0 for none
    rooms,        \* the keys of rooms_
    nextRoomId,
    given         \* history: the ids CreateRoom gave since the counter wrapped

vars == <<bySession, byPlayer, rooms, nextRoomId, given>>

RoomIds == 0..IdCount-1
NoRecord == [player |-> 0, room |-> 0]

Init ==
    /\ bySession = [s \in SessionIds |-> NoRecord]
    /\ byPlayer = [p \in PlayerIds |-> 0]
    /\ rooms = {}
    /\ nextRoomId = 1
    /\ given = {}

(* Mutant: does not look at the sessions. *)
RegisterTwice(s, p) ==
    /\ byPlayer[p] = 0
    /\ bySession' = [bySession EXCEPT ![s] = [player |-> p, room |-> 0]]
    /\ byPlayer' = [byPlayer EXCEPT ![p] = s]
    /\ UNCHANGED <<rooms, nextRoomId, given>>

Register(s, p) ==
    /\ bySession[s].player = 0 /\ byPlayer[p] = 0
    /\ bySession' = [bySession EXCEPT ![s] = [player |-> p, room |-> 0]]
    /\ byPlayer' = [byPlayer EXCEPT ![p] = s]
    /\ UNCHANGED <<rooms, nextRoomId, given>>

UnregisterBySession(s) ==
    /\ bySession[s].player # 0
    /\ byPlayer' = [byPlayer EXCEPT ![bySession[s].player] = 0]
    /\ bySession' = [bySession EXCEPT ![s] = NoRecord]
    /\ UNCHANGED <<rooms, nextRoomId, given>>

(* The entry of the session is removed if it is there. *)
UnregisterByPlayer(p) ==
    /\ byPlayer[p] # 0
    /\ bySession' = [bySession EXCEPT ![byPlayer[p]] = NoRecord]
    /\ byPlayer' = [byPlayer EXCEPT ![p] = 0]
    /\ UNCHANGED <<rooms, nextRoomId, given>>

(* BindRoomLocked and ClearRoomLocked, for the record of a session; id 0   *)
(* is refused by the one and stored by the other.                          *)
SetRoom(s, id) ==
    /\ bySession[s].player # 0
    /\ bySession' = [bySession EXCEPT ![s].room = id]
    /\ UNCHANGED <<byPlayer, rooms, nextRoomId, given>>

BindRoomBySession(s, id) == id # 0 /\ SetRoom(s, id)
BindRoomByPlayer(p, id) == byPlayer[p] # 0 /\ id # 0 /\ SetRoom(byPlayer[p], id)
ClearRoomBySession(s) == SetRoom(s, 0)
ClearRoomByPlayer(p) == byPlayer[p] # 0 /\ SetRoom(byPlayer[p], 0)

(* CreateRoomAs and NextRoomIdLocked: the first id, from the counter on    *)
(* and past the wrap, that is not 0 and has no room.  With every id in use *)
(* the loop would not end.                                                 *)
CreateRoom ==
    /\ \E d \in 0..IdCount-1 :
        LET id == (nextRoomId + d) % IdCount IN
        /\ id # 0 /\ id \notin rooms
        /\ \A e \in 0..d-1 : (nextRoomId + e) % IdCount \in rooms \cup {0}
        /\ rooms' = rooms \cup {id}
        /\ nextRoomId' = (id + 1) % IdCount
        /\ given' = IF nextRoomId = 0 \/ id < nextRoomId THEN {id} ELSE given \cup {id}
    /\ UNCHANGED <<bySession, byPlayer>>

(* AddRoom of a room made elsewhere, with any id; one whose id is taken is *)
(* refused.                                                                *)
AddRoom(id) ==
    /\ id \notin rooms
    /\ rooms' = rooms \cup {id}
    /\ UNCHANGED <<bySession, byPlayer, nextRoomId, given>>

RemoveRoom(id) ==
    /\ id \in rooms
    /\ rooms' = rooms \ {id}
    /\ UNCHANGED <<bySession, byPlayer, nextRoomId, given>>

Next ==
    \/ \E s \in SessionIds, p \in PlayerIds : Register(s, p)
    \/ \E s \in SessionIds : UnregisterBySession(s) \/ ClearRoomBySession(s)
    \/ \E p \in PlayerIds : UnregisterByPlayer(p) \/ ClearRoomByPlayer(p)
    \/ \E s \in SessionIds, id \in RoomIds : BindRoomBySession(s, id)
    \/ \E p \in PlayerIds, id \in RoomIds : BindRoomByPlayer(p, id)
    \/ CreateRoom
    \/ \E id \in RoomIds : AddRoom(id) \/ RemoveRoom(id)

Spec == Init /\ [][Next]_vars

-----------------------------------------------------------------------------
(* The shape of the maps, as the proofs use it. *)
TypeOK ==
    /\ bySession \in [SessionIds -> [player : PlayerIds \cup {0}, room : RoomIds]]
    /\ byPlayer \in [PlayerIds -> SessionIds \cup {0}]
    /\ rooms \in SUBSET RoomIds
    /\ nextRoomId \in RoomIds
    /\ given \in SUBSET RoomIds

(* by_session_ and by_player_ are inverse to each other after any sequence *)
(* of operations by session and by player, so that what FindByPlayer and   *)
(* FindBySession return is one record, and a record with no player has no  *)
(* room.                                                                   *)
MapsInverse ==
    /\ \A s \in SessionIds : bySession[s].player # 0 => byPlayer[bySession[s].player] = s
    /\ \A p \in PlayerIds : byPlayer[p] # 0 => bySession[byPlayer[p]].player = p
    /\ \A s \in SessionIds : bySession[s].player = 0 => bySession[s].room = 0

(* next_room_id_ runs ahead of every id given out since it wrapped, past   *)
(* the ids that AddRoom took.                                              *)
CounterAhead == nextRoomId = 0 \/ \A id \in given : id < nextRoomId

(* CreateRoom gives an id again, whether or not its room was removed, only *)
(* in a step in which the counter wraps: until then a RoomId kept anywhere *)
(* (PlayerRecord::room_id) cannot come to mean another room of CreateRoom. *)
IdsNotReused ==
    [][\A id \in given : CreateRoom /\ id \notin rooms /\ id \in rooms' => given' = {id}]_vars
=============================================================================
