---------------------------- MODULE PartySystem ----------------------------
(***************************************************************************)
(* The parties of the dungeon server.  g_party_system is one static object *)
(* without a lock, used by the jobs of all rooms.  A room runs one job at  *)
(* a time (JobQueue.tla), but two rooms run theirs on two workers: what a  *)
(* handler does is split into its call and its effect, and when the calls  *)
(* of two rooms overlap they race on parties_ and next_id_, and the        *)
(* behaviour from there on is undefined.                                   *)
(*                                                                         *)
(* party.rooms gives the party_id of PlayerState for each player of a      *)
(* room.  One account may be in two rooms at once, with two sessions or    *)
(* between the two halves of a portal.                                     *)
(***************************************************************************)
EXTENDS Integers, Sequences, SequencesExt, Functions, TLC

CONSTANTS
    PartyRooms,    \* rooms
    Members,       \* player ids
    MaxPackets     \* bound: packets, joins and leaves

VARIABLE party

Idle == [op |-> "idle"]

Init ==
    party = [rooms |-> [r \in PartyRooms |-> <<>>], parties |-> <<>>, nextId |-> 1,
             running |-> [r \in PartyRooms |-> Idle],
             raced |-> FALSE, twice |-> {},      \* history: see PartyAgrees
             left |-> MaxPackets]

Here(r, p) == p \in DOMAIN party.rooms[r]
Free(r) == ~party.raced /\ party.running[r] = Idle /\ party.left > 0

(* Room::AddPlayer and RemovePlayer; the party is not told.  A second      *)
(* session of the account replaces the PlayerState of the first.           *)
AddPlayer(r, p) ==
    /\ Free(r)
    /\ party' = [party EXCEPT !.rooms[r] = (p :> 0) @@ @, !.left = @ - 1,
                              !.twice = IF \E k \in PartyRooms \ {r} : Here(k, p)
                                        THEN @ \cup {p} ELSE @]

RemovePlayer(r, p) ==
    /\ Free(r) /\ Here(r, p)
    /\ party' = [party EXCEPT !.rooms[r] = Restrict(@, DOMAIN @ \ {p}), !.left = @ - 1]

(* The handlers, up to their first access to g_party_system. *)
Call(r, job) ==
    /\ Free(r) /\ Here(r, job.p)
    /\ (party.rooms[r][job.p] = 0) <=> (job.op # "leave")
    /\ party' = [party EXCEPT !.running[r] = job, !.left = @ - 1,
                              !.raced = \E k \in PartyRooms \ {r} : party.running[k] # Idle]

HandleCreateParty(r, p) == Call(r, [op |-> "create", p |-> p])
HandleJoinParty(r, p) ==
    \E k \in 1..party.nextId : Call(r, [op |-> "join", p |-> p, id |-> k])
HandleLeaveParty(r, p) == Call(r, [op |-> "leave", p |-> p])

CreateParty(x, r, p) ==
    [x EXCEPT !.parties = (x.nextId :> [leader |-> p, members |-> <<p>>]) @@ @,
              !.rooms[r][p] = x.nextId, !.nextId = @ + 1]

JoinParty(x, r, p, k) ==
    IF k \notin DOMAIN x.parties THEN x
    ELSE [x EXCEPT !.parties[k].members = Append(@, p), !.rooms[r][p] = k]

Without(members, p) == SelectSeq(members, LAMBDA q : q # p)

(* Mutant: a leader who leaves stays the leader. *)
LeaderStays(x, r, p) ==
    LET k == x.rooms[r][p]
        rest == Without(x.parties[k].members, p)
        z == [x EXCEPT !.rooms[r][p] = 0]
    IN  IF k \notin DOMAIN x.parties THEN z
        ELSE IF rest = <<>> THEN [z EXCEPT !.parties = Restrict(@, DOMAIN @ \ {k})]
        ELSE [z EXCEPT !.parties[k].members = rest]

LeaveParty(x, r, p) ==
    LET k == x.rooms[r][p]
        rest == Without(x.parties[k].members, p)
        z == [x EXCEPT !.rooms[r][p] = 0]
    IN  IF k \notin DOMAIN x.parties THEN z
        ELSE IF rest = <<>> THEN [z EXCEPT !.parties = Restrict(@, DOMAIN @ \ {k})]
        ELSE [z EXCEPT !.parties[k].members = rest,
                       !.parties[k].leader = IF @ = p THEN rest[1] ELSE @]

(* The effect of the call, if nobody raced with it. *)
Return(r) ==
    /\ ~party.raced /\ party.running[r] # Idle
    /\ LET job == party.running[r]
           x == [party EXCEPT !.running[r] = Idle]
       IN  party' = CASE job.op = "create" -> CreateParty(x, r, job.p)
                      [] job.op = "join"   -> JoinParty(x, r, job.p, job.id)
                      [] job.op = "leave"  -> LeaveParty(x, r, job.p)

Next ==
    \E r \in PartyRooms :
        \/ Return(r)
        \/ \E p \in Members :
              \/ AddPlayer(r, p) \/ RemovePlayer(r, p)
              \/ HandleCreateParty(r, p) \/ HandleJoinParty(r, p) \/ HandleLeaveParty(r, p)

Spec == Init /\ [][Next]_party

-----------------------------------------------------------------------------
(* PartySystem keeps membership in the party and in the player.  While no  *)
(* two rooms have raced in it, the leader of a party is a member, also     *)
(* after members left their room without leaving the party and came back   *)
(* elsewhere; and a player whose party_id is set is listed there, unless   *)
(* the account was in two rooms at once: leaving the party in one room     *)
(* (erase of all its entries) leaves the party_id of the other behind.     *)
PartyAgrees ==
    ~party.raced =>
        /\ \A k \in DOMAIN party.parties : party.parties[k].leader \in Range(party.parties[k].members)
        /\ \A r \in PartyRooms : \A p \in DOMAIN party.rooms[r] :
              LET k == party.rooms[r][p] IN
              k # 0 /\ p \notin party.twice =>
                  k \in DOMAIN party.parties /\ p \in Range(party.parties[k].members)
=============================================================================
