------------------------- MODULE GameRegistryProofs -------------------------
(***************************************************************************)
(* The maps of PlayerRegistry are inverse to each other, for any sets of   *)
(* sessions and players and any number of room ids: TypeOK and MapsInverse *)
(* together are inductive.  RoomManager gives no id twice before its       *)
(* counter wraps: CounterAhead is the invariant it rests on.               *)
(***************************************************************************)
EXTENDS GameRegistry, TLAPS

(* Every operation keeps the shape of the maps (PlayerRegistry,            *)
(* RoomManager).                                                           *)
THEOREM TypeCorrect == Spec => []TypeOK
<1>1. Init => TypeOK
  BY IdsAssumption DEF Init, TypeOK, NoRecord, RoomIds
<1>2. ASSUME TypeOK, [Next]_vars PROVE TypeOK'
  <2> USE <1>2
  <2>1. ASSUME NEW s \in SessionIds, NEW p \in PlayerIds, Register(s, p) PROVE TypeOK'
    <3>1. [player |-> p, room |-> 0] \in [player : PlayerIds \cup {0}, room : RoomIds]
      BY IdsAssumption DEF RoomIds
    <3> QED BY <2>1, <3>1 DEF TypeOK, Register
  <2>2. ASSUME NEW s \in SessionIds, UnregisterBySession(s) PROVE TypeOK'
    <3>1. NoRecord \in [player : PlayerIds \cup {0}, room : RoomIds]
      BY IdsAssumption DEF RoomIds, NoRecord
    <3> QED BY <2>2, <3>1 DEF TypeOK, UnregisterBySession
  <2>3. ASSUME NEW p \in PlayerIds, UnregisterByPlayer(p) PROVE TypeOK'
    <3>1. NoRecord \in [player : PlayerIds \cup {0}, room : RoomIds]
      BY IdsAssumption DEF RoomIds, NoRecord
    <3> QED BY <2>3, <3>1 DEF TypeOK, UnregisterByPlayer
  <2>4. ASSUME NEW s, NEW id \in RoomIds, SetRoom(s, id) PROVE TypeOK'
    BY <2>4, Zenon DEF TypeOK, SetRoom
  <2>5. 0 \in RoomIds
    BY IdsAssumption DEF RoomIds
  <2>6. CASE CreateRoom
    <3>1. \A n \in Int : n % IdCount \in RoomIds
      BY IdsAssumption DEF RoomIds
    <3>2. PICK d \in 0..IdCount-1 :
             /\ rooms' = rooms \cup {(nextRoomId + d) % IdCount}
             /\ given' \in {{(nextRoomId + d) % IdCount}, given \cup {(nextRoomId + d) % IdCount}}
             /\ nextRoomId' = (((nextRoomId + d) % IdCount) + 1) % IdCount
      BY <2>6 DEF CreateRoom
    <3>3. (nextRoomId + d) % IdCount \in RoomIds /\ (nextRoomId + d) % IdCount \in Int
      BY <3>1, IdsAssumption DEF TypeOK, RoomIds
    <3>4. nextRoomId' \in RoomIds
      BY <3>1, <3>2, <3>3
    <3>5. rooms' \in SUBSET RoomIds /\ given' \in SUBSET RoomIds
      BY <3>2, <3>3 DEF TypeOK
    <3> QED BY <2>6, <3>4, <3>5 DEF TypeOK, CreateRoom
  <2>7. ASSUME NEW id \in RoomIds, AddRoom(id) \/ RemoveRoom(id) PROVE TypeOK'
    BY <2>7 DEF TypeOK, AddRoom, RemoveRoom
  <2>8. CASE UNCHANGED vars
    BY <2>8 DEF TypeOK, vars
  <2> QED BY <2>1, <2>2, <2>3, <2>4, <2>5, <2>6, <2>7, <2>8
         DEF Next, BindRoomBySession, BindRoomByPlayer, ClearRoomBySession, ClearRoomByPlayer
<1> QED BY <1>1, <1>2, PTL DEF Spec

(* A step of the registry or of the rooms keeps the two maps inverse.      *)
LEMMA InverseStep == ASSUME TypeOK, MapsInverse, [Next]_vars PROVE MapsInverse'
<1>1. ASSUME NEW s \in SessionIds, NEW p \in PlayerIds, Register(s, p) PROVE MapsInverse'
  <2>1. /\ bySession' = [bySession EXCEPT ![s] = [player |-> p, room |-> 0]]
        /\ byPlayer' = [byPlayer EXCEPT ![p] = s]
        /\ bySession[s].player = 0 /\ byPlayer[p] = 0
    BY <1>1 DEF Register
  <2>2. \A t \in SessionIds : bySession'[t].player # 0 => byPlayer'[bySession'[t].player] = t
    BY <2>1, IdsAssumption DEF TypeOK, MapsInverse
  <2>3. \A q \in PlayerIds : byPlayer'[q] # 0 => bySession'[byPlayer'[q]].player = q
    BY <2>1, IdsAssumption DEF TypeOK, MapsInverse
  <2>4. \A t \in SessionIds : bySession'[t].player = 0 => bySession'[t].room = 0
    BY <2>1, IdsAssumption DEF TypeOK, MapsInverse
  <2> QED BY <2>2, <2>3, <2>4 DEF MapsInverse
<1>2. ASSUME NEW s \in SessionIds, UnregisterBySession(s) PROVE MapsInverse'
  <2>1. /\ bySession' = [bySession EXCEPT ![s] = NoRecord]
        /\ byPlayer' = [byPlayer EXCEPT ![bySession[s].player] = 0]
        /\ bySession[s].player \in PlayerIds
    BY <1>2 DEF UnregisterBySession, TypeOK
  <2>2. \A t \in SessionIds : bySession'[t].player # 0 => byPlayer'[bySession'[t].player] = t
    BY <2>1, IdsAssumption DEF TypeOK, MapsInverse, NoRecord
  <2>3. \A q \in PlayerIds : byPlayer'[q] # 0 => bySession'[byPlayer'[q]].player = q
    BY <2>1, IdsAssumption DEF TypeOK, MapsInverse, NoRecord
  <2>4. \A t \in SessionIds : bySession'[t].player = 0 => bySession'[t].room = 0
    BY <2>1, IdsAssumption DEF TypeOK, MapsInverse, NoRecord
  <2> QED BY <2>2, <2>3, <2>4 DEF MapsInverse
<1>3. ASSUME NEW p \in PlayerIds, UnregisterByPlayer(p) PROVE MapsInverse'
  <2>1. /\ bySession' = [bySession EXCEPT ![byPlayer[p]] = NoRecord]
        /\ byPlayer' = [byPlayer EXCEPT ![p] = 0]
        /\ byPlayer[p] \in SessionIds
    BY <1>3 DEF UnregisterByPlayer, TypeOK
  <2>2. \A t \in SessionIds : bySession'[t].player # 0 => byPlayer'[bySession'[t].player] = t
    BY <2>1, IdsAssumption DEF TypeOK, MapsInverse, NoRecord
  <2>3. \A q \in PlayerIds : byPlayer'[q] # 0 => bySession'[byPlayer'[q]].player = q
    BY <2>1, IdsAssumption DEF TypeOK, MapsInverse, NoRecord
  <2>4. \A t \in SessionIds : bySession'[t].player = 0 => bySession'[t].room = 0
    BY <2>1, IdsAssumption DEF TypeOK, MapsInverse, NoRecord
  <2> QED BY <2>2, <2>3, <2>4 DEF MapsInverse
<1>4. ASSUME NEW s, NEW id, SetRoom(s, id) PROVE MapsInverse'
  BY <1>4 DEF TypeOK, MapsInverse, SetRoom
<1>5. CASE UNCHANGED <<bySession, byPlayer>>
  BY <1>5 DEF MapsInverse
<1> QED BY <1>1, <1>2, <1>3, <1>4, <1>5
       DEF Next, vars, BindRoomBySession, BindRoomByPlayer, ClearRoomBySession,
           ClearRoomByPlayer, CreateRoom, AddRoom, RemoveRoom

(* PlayerRegistry's two maps are inverse to each other in every state, and *)
(* a record without a player has no room.                                  *)
THEOREM InverseMaps == Spec => []MapsInverse
<1>1. Init => MapsInverse
  BY IdsAssumption DEF Init, MapsInverse, NoRecord
<1>2. TypeOK /\ MapsInverse /\ [Next]_vars => MapsInverse'
  BY InverseStep
<1> QED BY <1>1, <1>2, TypeCorrect, PTL DEF Spec

(* What a call of CreateRoom does, with the id it chooses.                 *)
LEMMA CreateRoomTakes ==
    ASSUME TypeOK, CreateRoom
    PROVE  \E id \in RoomIds :
              /\ rooms' = rooms \cup {id}
              /\ nextRoomId' = (id + 1) % IdCount
              /\ given' = IF nextRoomId = 0 \/ id < nextRoomId THEN {id} ELSE given \cup {id}
<1>1. PICK d \in 0..IdCount-1 :
         LET id == (nextRoomId + d) % IdCount IN
         /\ rooms' = rooms \cup {id}
         /\ nextRoomId' = (id + 1) % IdCount
         /\ given' = IF nextRoomId = 0 \/ id < nextRoomId THEN {id} ELSE given \cup {id}
  BY DEF CreateRoom
<1>2. (nextRoomId + d) % IdCount \in RoomIds
  BY IdsAssumption DEF TypeOK, RoomIds
<1> QED BY <1>1, <1>2

(* The counter of RoomManager stays ahead of the ids it gave.              *)
THEOREM CounterStaysAhead == Spec => []CounterAhead
<1>1. Init => CounterAhead
  BY DEF Init, CounterAhead
<1>2. ASSUME TypeOK, CounterAhead, [Next]_vars PROVE CounterAhead'
  <2>1. CASE CreateRoom
    <3>1. PICK id \in RoomIds :
             /\ nextRoomId' = (id + 1) % IdCount
             /\ given' = IF nextRoomId = 0 \/ id < nextRoomId THEN {id} ELSE given \cup {id}
      BY <1>2, <2>1, CreateRoomTakes
    <3>2. nextRoomId' = 0 \/ nextRoomId' = id + 1
      BY <3>1, IdsAssumption DEF RoomIds
    <3>3. \A k \in given' : k \in Int /\ (k = id \/ k < id)
      BY <1>2, <3>1 DEF CounterAhead, TypeOK, RoomIds
    <3> QED BY <3>2, <3>3 DEF CounterAhead, RoomIds
  <2>2. CASE UNCHANGED <<nextRoomId, given>>
    BY <1>2, <2>2 DEF CounterAhead
  <2> QED BY <1>2, <2>1, <2>2
         DEF Next, vars, Register, UnregisterBySession, UnregisterByPlayer, SetRoom,
             BindRoomBySession, BindRoomByPlayer, ClearRoomBySession, ClearRoomByPlayer,
             AddRoom, RemoveRoom
<1> QED BY <1>1, <1>2, TypeCorrect, PTL DEF Spec

(* CreateRoom gives an id a second time only when its counter wraps.       *)
THEOREM FreshRoomIds == Spec => IdsNotReused
<1>1. ASSUME TypeOK, CounterAhead, CreateRoom, NEW id \in given, id \notin rooms, id \in rooms'
      PROVE  given' = {id}
  <2>1. PICK k \in RoomIds :
           /\ rooms' = rooms \cup {k}
           /\ given' = IF nextRoomId = 0 \/ k < nextRoomId THEN {k} ELSE given \cup {k}
    BY <1>1, CreateRoomTakes
  <2>2. k = id
    BY <1>1, <2>1
  <2>3. nextRoomId = 0 \/ id < nextRoomId
    BY <1>1 DEF CounterAhead
  <2> QED BY <2>1, <2>2, <2>3
<1>2. TypeOK /\ CounterAhead /\ [Next]_vars =>
        [\A id \in given : CreateRoom /\ id \notin rooms /\ id \in rooms' => given' = {id}]_vars
  BY <1>1
<1> QED BY <1>2, TypeCorrect, CounterStaysAhead, PTL DEF Spec, IdsNotReused
=============================================================================
