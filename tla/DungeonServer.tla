--------------------------- MODULE DungeonServer ---------------------------
(***************************************************************************)
(* The dungeon game server (app/examples/game/dungeon_full_server): game   *)
(* sessions on their rings, rooms as job queues that any worker thread may *)
(* run, and the outbox that carries what a room says back to the thread    *)
(* that owns the session.                                                  *)
(*                                                                         *)
(* The whole server is one record g; a handler is an operator from g to g. *)
(* A room runs one job at a time (JobQueue.tla).  What the running job     *)
(* still has to do that others can see is listed in todo and done one step *)
(* at a time: sending a message, pushing a job to another room, adding and *)
(* removing a player.  So two rooms interleave as they do when two workers *)
(* run them.  The database is synchronous on the ring thread, so a login   *)
(* or character request completes within its handler.  Positions,          *)
(* map contents and packets without effect on membership are left out;     *)
(* combat, bots and items are in DungeonRoom.tla.  All the bots of a room  *)
(* are the one entity Bot.                                                 *)
(***************************************************************************)
EXTENDS Naturals, FiniteSets, Sequences, SequencesExt, Functions, TLC

CONSTANTS
    Scenarios,    \* sessions' packets, workers, accounts: see InitWith
    MaxRooms      \* bound: no scenario creates more rooms than this

VARIABLE g

Bot == 0
Rooms == 1..MaxRooms
Sessions == DOMAIN g.scn.script

(* What a client is told about a room, seen from the room. *)
Enter(r, pid)     == [kind |-> "enter", room |-> r, who |-> {pid}]
Reply(r)          == [kind |-> "reply", room |-> r, who |-> {}]
Full(r)           == [kind |-> "full", room |-> r, who |-> {}]
PlayerList(r, ps) == [kind |-> "list", room |-> r, who |-> ps]
Spawn(r, pid)     == [kind |-> "spawn", room |-> r, who |-> {pid}]
Despawn(r, pid)   == [kind |-> "despawn", room |-> r, who |-> {pid}]

NewRoom == [players |-> <<>>, map |-> FALSE, conn |-> 0, emptySince |-> FALSE,
            seq |-> 1, jobs |-> <<>>, todo |-> <<>>]

(* `call' is the push to a room that the session's handler is about to     *)
(* make, with the plain pointer it got from the RoomManager.               *)
NoCall == [room |-> 0, op |-> "none"]

NewSession == [st |-> "Connected", up |-> "up", next |-> 1, call |-> NoCall,
               asked |-> 0, answered |-> 0, late |-> FALSE,
               view |-> [r \in Rooms |-> {}], last |-> [r \in Rooms |-> 0]]

(* A scenario: the packets each session sends, the worker it lives on,     *)
(* whether its clients wait for an answer before the next room request,    *)
(* which sessions may drop, the room capacity, and whether the database    *)
(* gives a new account a character (memory) or not (SQLite); the sessions  *)
(* in lobby have logged in and chosen a character before, and the creators *)
(* of the scn.rooms rooms there are left before they entered.  g.doomed    *)
(* holds the rooms CleanupEmptyRooms has found empty and not yet removed,  *)
(* g.dangling those removed while something pointed at them (history).     *)
InitWith(scn) ==
    g = [scn |-> scn,
         sess |-> [s \in DOMAIN scn.script |->
                     IF s \in scn.lobby THEN [NewSession EXCEPT !.st = "InLobby"] ELSE NewSession],
         bySession |-> [s \in scn.lobby |-> [pid |-> s, room |-> 0]],
         byPlayer |-> [s \in scn.lobby |-> s],
         accounts |-> scn.lobby, chars |-> scn.lobby,
         rooms |-> [r \in 1..scn.rooms |-> NewRoom], registered |-> 1..scn.rooms, doomed |-> {}, dangling |-> {},
         queues |-> [s \in DOMAIN scn.script |-> <<>>],
         ready |-> [w \in Range(scn.worker) |-> <<>>]]

Init == \E scn \in Scenarios : InitWith(scn)

Expired(x, s) == x.sess[s].up = "gone"
HasCtx(x, s) == s \in DOMAIN x.bySession
Request(x, s) == [s |-> s, pid |-> x.bySession[s].pid]
SetState(x, s, st) == [x EXCEPT !.sess[s].st = st]

-----------------------------------------------------------------------------
(* WorkerOutbox: one queue per session and a round-robin list of the       *)
(* sessions that have something queued.                                    *)

(* Mutant: a packet is put in front of the others. *)
EnqueueFront(x, s, m) ==
    LET w == x.scn.worker[s] IN
    [x EXCEPT !.queues[s] = <<m>> \o @,
              !.ready[w] = IF s \in Range(@) THEN @ ELSE Append(@, s)]

Enqueue(x, s, m) ==
    LET w == x.scn.worker[s] IN
    [x EXCEPT !.queues[s] = Append(@, m),
              !.ready[w] = IF s \in Range(@) THEN @ ELSE Append(@, s)]

(* The task queued by EnqueueSessionEnterState, run by the owner thread. *)
EnterState(x, s, m) ==
    IF Expired(x, s) \/ ~HasCtx(x, s) THEN [x EXCEPT !.sess[s].late = TRUE]
    ELSE IF {x.bySession[s].pid} # m.who THEN x
    ELSE SetState([x EXCEPT !.bySession[s].room = m.room], s, "InRoom")

(* What the client makes of a packet, room by room. *)
Receive(x, s, m) ==
    CASE m.kind \in {"reply", "full"} ->
            [x EXCEPT !.sess[s].view[m.room] = {}, !.sess[s].answered = @ + 1]
      [] m.kind \in {"list", "spawn"} ->
            [x EXCEPT !.sess[s].view[m.room] = @ \cup m.who]
      [] m.kind = "despawn" ->
            [x EXCEPT !.sess[s].view[m.room] = @ \ m.who]

(* The sink of DrainOutbox: a task runs even for a closing session, a      *)
(* packet is sent only if the session is found and not disconnecting.      *)
Sink(x, s, m) ==
    IF m.kind = "enter" THEN EnterState(x, s, m)
    ELSE IF x.sess[s].up # "up" THEN x
    ELSE Receive(x, s, m)

(* One message of DrainBudgeted. *)
Drained(x, w) ==
    LET s == Head(x.ready[w])
        m == Head(x.queues[s])
        more == Len(x.queues[s]) > 1
        y == [x EXCEPT !.queues[s] = Tail(@),
                       !.ready[w] = IF more THEN Append(Tail(@), s)
                                            ELSE Tail(@),
                       !.sess[s].last[m.room] = m.seq]
    IN  Sink(y, s, m)

(* The worker's thread is between FindRoom or CreateRoom and Push. *)
Calling(w) == \E s \in Sessions : g.scn.worker[s] = w /\ g.sess[s].call # NoCall

DrainOutbox(w) == g.ready[w] # <<>> /\ ~Calling(w) /\ g' = Drained(g, w)

-----------------------------------------------------------------------------
(* Rooms: the operators of a running job. *)

Push(x, r, job) == [x EXCEPT !.rooms[r].jobs = Append(@, job)]

(* What the running job does next, after what it has to do already. *)
Then(x, r, step) == [x EXCEPT !.rooms[r].todo = Append(@, step)]

SendTo(x, r, s, m) == Then(x, r, [do |-> "send", to |-> s, m |-> m])
ThenAdd(x, r, q) == Then(x, r, [do |-> "add", q |-> q])
ThenRemove(x, r, pid) == Then(x, r, [do |-> "remove", pid |-> pid])
ThenPush(x, r, to, job) == Then(x, r, [do |-> "push", to |-> to, job |-> job])

(* The sessions a broadcast reaches: no bots, nobody not scene_ready. *)
Audience(room, exclude) ==
    {p \in DOMAIN room.players \ {Bot, exclude} : room.players[p].ready}

BroadcastExcept(x, r, exclude, m) ==
    LET room == x.rooms[r]
        ps == SetToSeq(Audience(room, exclude))
    IN  FoldLeft(LAMBDA y, p : SendTo(y, r, room.players[p].s, m), x, ps)

BroadcastAll(x, r, m) == BroadcastExcept(x, r, Bot, m)

CreateRoom(x) ==
    LET r == Cardinality(DOMAIN x.rooms) + 1
    IN  [x EXCEPT !.rooms = @ @@ (r :> NewRoom), !.registered = @ \cup {r}]

(* GenerateMapForRoom, then SpawnBots: sessions already there get one list. *)
Populate(x, r) ==
    LET before == DOMAIN x.rooms[r].players \ {Bot}
        y == [x EXCEPT !.rooms[r].map = TRUE,
                       !.rooms[r].players = (Bot :> [s |-> 0, ready |-> FALSE]) @@ @]
    IN  IF before = {} THEN y ELSE BroadcastAll(y, r, PlayerList(r, {Bot}))

AddPlayer(x, r, q) ==
    [x EXCEPT !.rooms[r].players = (q.pid :> [s |-> q.s, ready |-> FALSE]) @@ @,
              !.rooms[r].emptySince = FALSE]

(* Mutant: the reply overtakes the packet that lets the client enter. *)
ReplyThenEnter(x, r, q) ==
    SendTo(SendTo(x, r, q.s, Reply(r)), r, q.s, Enter(r, q.pid))

Welcome(x, r, q) == SendTo(SendTo(x, r, q.s, Enter(r, q.pid)), r, q.s, Reply(r))

TryCreateEnter(x, r, q) ==
    IF Expired(x, q.s) THEN x ELSE Welcome(ThenAdd(Populate(x, r), r, q), r, q)

TryJoin(x, r, q) ==
    IF Expired(x, q.s) THEN x
    ELSE IF Cardinality(DOMAIN x.rooms[r].players) >= x.scn.capacity
         THEN SendTo(x, r, q.s, Full(r))
    ELSE Welcome(ThenAdd(x, r, q), r, q)

(* Mutant: a room with bots counts as empty. *)
EmptyButForBots(room) == DOMAIN room.players \subseteq {Bot}

IsEmpty(room) == room.players = <<>>

RemovePlayer(x, r, pid) ==
    IF pid \notin DOMAIN x.rooms[r].players THEN x
    ELSE LET y == [x EXCEPT !.rooms[r].players = Restrict(@, DOMAIN @ \ {pid})]
             z == BroadcastAll(y, r, Despawn(r, pid))
         IN  IF IsEmpty(z.rooms[r])
             THEN [z EXCEPT !.rooms[r].emptySince = TRUE] ELSE z

(* Mutant: the player is not removed from the room they leave. *)
PortalKeepsPlayer(x, r, q) ==
    IF Expired(x, q.s) \/ ~x.rooms[r].map THEN x
    ELSE LET to == x.rooms[r].conn
             new == Cardinality(DOMAIN x.rooms) + 1
         IN  IF to \in x.registered
             THEN ThenPush(x, r, to, [op |-> "EnterFromPortal", q |-> q, old |-> r])
             ELSE ThenPush([CreateRoom(x) EXCEPT !.rooms[r].conn = new],
                           r, new, [op |-> "InitZone", q |-> q, old |-> r])

(* The new room gets its job before the player leaves this one, whether or *)
(* not they were still in it.                                              *)
TryPortal(x, r, q) ==
    IF Expired(x, q.s) \/ ~x.rooms[r].map THEN x
    ELSE LET to == x.rooms[r].conn
             new == Cardinality(DOMAIN x.rooms) + 1
             y == IF to \in x.registered
                  THEN ThenPush(x, r, to, [op |-> "EnterFromPortal", q |-> q, old |-> r])
                  ELSE ThenPush([CreateRoom(x) EXCEPT !.rooms[r].conn = new],
                                r, new, [op |-> "InitZone", q |-> q, old |-> r])
         IN  ThenRemove(y, r, q.pid)

(* The client is told before the player is in the room. *)
EnterFromPortal(x, r, q) ==
    IF Expired(x, q.s) THEN x ELSE ThenAdd(Welcome(x, r, q), r, q)

InitZone(x, r, q, old) ==
    EnterFromPortal([Populate(x, r) EXCEPT
                        !.rooms[r].conn = IF @ = 0 THEN old ELSE @], r, q)

(* Mutant: the others are not told of the player. *)
ReadyWithoutSpawn(x, r, pid) ==
    IF pid \notin DOMAIN x.rooms[r].players THEN x
    ELSE IF x.rooms[r].players[pid].ready THEN x
    ELSE LET y == [x EXCEPT !.rooms[r].players[pid].ready = TRUE]
             others == DOMAIN x.rooms[r].players \ {pid}
         IN  SendTo(y, r, x.rooms[r].players[pid].s, PlayerList(r, others))

HandleSceneReady(x, r, pid) ==
    IF pid \notin DOMAIN x.rooms[r].players THEN x
    ELSE IF x.rooms[r].players[pid].ready THEN x
    ELSE LET y == [x EXCEPT !.rooms[r].players[pid].ready = TRUE]
             others == DOMAIN x.rooms[r].players \ {pid}
             z == SendTo(y, r, x.rooms[r].players[pid].s, PlayerList(r, others))
         IN  BroadcastExcept(z, r, pid, Spawn(r, pid))

Execute(x, r, job) ==
    CASE job.op = "TryCreateEnter"  -> TryCreateEnter(x, r, job.q)
      [] job.op = "TryJoin"         -> TryJoin(x, r, job.q)
      [] job.op = "TryPortal"       -> TryPortal(x, r, job.q)
      [] job.op = "EnterFromPortal" -> EnterFromPortal(x, r, job.q)
      [] job.op = "InitZone"        -> InitZone(x, r, job.q, job.old)
      [] job.op = "SceneReady"      -> HandleSceneReady(x, r, job.q.pid)
      [] job.op = "RemovePlayer"    -> RemovePlayer(x, r, job.q.pid)

(* A worker takes the room's next job once the last one has returned.  The *)
(* jobs of a room that was removed never run: GlobalQueue and the sessions *)
(* hold plain pointers to it.                                              *)
RunJob(r) ==
    /\ r \in g.registered
    /\ g.rooms[r].todo = <<>> /\ g.rooms[r].jobs # <<>>
    /\ LET job == Head(g.rooms[r].jobs)
       IN  g' = Execute([g EXCEPT !.rooms[r].jobs = Tail(@)], r, job)

(* The room's next sequence number is taken and the message appended under *)
(* the outbox's lock.                                                      *)
EnqueueOutbound(x, r, to, m) ==
    LET n == x.rooms[r].seq
    IN  Enqueue([x EXCEPT !.rooms[r].seq = n + 1], to,
                [kind |-> m.kind, room |-> m.room, who |-> m.who, seq |-> n])

(* The running job goes on. *)
Step(r) ==
    /\ g.rooms[r].todo # <<>>
    /\ LET e == Head(g.rooms[r].todo)
           x == [g EXCEPT !.rooms[r].todo = Tail(@)]
       IN  g' = CASE e.do = "send"   -> EnqueueOutbound(x, r, e.to, e.m)
                  [] e.do = "add"    -> AddPlayer(x, r, e.q)
                  [] e.do = "remove" -> RemovePlayer(x, r, e.pid)
                  [] e.do = "push"   -> Push(x, e.to, e.job)

-----------------------------------------------------------------------------
(* Packets before a room, on the ring thread. *)

Register(x, s, pid) ==
    CASE x.sess[s].st # "Connected" -> x
      [] pid \in x.accounts -> x
      [] OTHER -> [x EXCEPT !.accounts = @ \cup {pid}]

(* DbService::Login creates an unknown account. *)
Login(x, s, pid, password) ==
    CASE x.sess[s].st # "Connected" -> x
      [] pid \in x.accounts /\ ~password -> x
      [] OTHER ->
            SetState([x EXCEPT
                !.chars = IF pid \notin x.accounts /\ x.scn.memory
                          THEN @ \cup {pid} ELSE @,
                !.accounts = @ \cup {pid},
                !.bySession = (s :> [pid |-> pid, room |-> 0]) @@ @,
                !.byPlayer = (pid :> s) @@ @], s, "Authenticated")

LoggedIn(x, s) == x.sess[s].st \in {"Authenticated", "CharSelect", "InLobby"}

CharList(x, s) == IF LoggedIn(x, s) THEN SetState(x, s, "CharSelect") ELSE x

CreateChar(x, s, taken) ==
    IF ~LoggedIn(x, s) \/ taken THEN x
    ELSE [x EXCEPT !.chars = @ \cup {x.bySession[s].pid}]

(* Inventory, then currency, then InLobby, all within the request. *)
SelectChar(x, s, own) ==
    IF ~LoggedIn(x, s) \/ ~own \/ x.bySession[s].pid \notin x.chars THEN x
    ELSE SetState(x, s, "InLobby")

Asks(x, s) == [x EXCEPT !.sess[s].asked = @ + 1]

(* Up to the call of Push: another session may find the room before. *)
Calls(x, s, r, op) == Asks([x EXCEPT !.sess[s].call = [room |-> r, op |-> op]], s)

HandleCreateRoom(x, s) ==
    IF x.sess[s].st # "InLobby" THEN x
    ELSE Calls(CreateRoom(x), s, Cardinality(DOMAIN x.rooms) + 1, "TryCreateEnter")

HandleJoinRoom(x, s, r) ==
    IF x.sess[s].st # "InLobby" \/ r \notin x.registered THEN x
    ELSE Calls(x, s, r, "TryJoin")

HandlePortal(x, s) ==
    IF x.sess[s].st # "InRoom" THEN x
    ELSE Asks(Push(x, x.bySession[s].room,
                   [op |-> "TryPortal", q |-> Request(x, s)]), s)

HandleInRoomPacket(x, s) ==
    IF x.sess[s].st # "InRoom" THEN x   \* HandlePreRoomPacket: unhandled
    ELSE Push(x, x.bySession[s].room, [op |-> "SceneReady", q |-> Request(x, s)])

(* GameSession::OnPacket for the next packet of the client. *)
OnPacket(x, s, pkt) ==
    CASE pkt.id = "REGISTER"    -> Register(x, s, pkt.pid)
      [] pkt.id = "LOGIN"       -> Login(x, s, pkt.pid, pkt.ok)
      [] pkt.id = "CHAR_LIST"   -> CharList(x, s)
      [] pkt.id = "CREATE_CHAR" -> CreateChar(x, s, ~pkt.ok)
      [] pkt.id = "SELECT_CHAR" -> SelectChar(x, s, pkt.ok)
      [] pkt.id = "CREATE_ROOM" -> HandleCreateRoom(x, s)
      [] pkt.id = "JOIN_ROOM"   -> HandleJoinRoom(x, s, pkt.room)
      [] pkt.id = "PORTAL"      -> HandlePortal(x, s)
      [] pkt.id = "SCENE_READY" -> HandleInRoomPacket(x, s)

Packet(s) ==
    LET x == g.sess[s] IN
    /\ x.up = "up" /\ x.next <= Len(g.scn.script[s]) /\ ~Calling(g.scn.worker[s])
    /\ g.scn.patient => x.asked = x.answered
    /\ g' = OnPacket([g EXCEPT !.sess[s].next = @ + 1], s, g.scn.script[s][x.next])

PushRequest(s) ==
    LET call == g.sess[s].call IN
    /\ call # NoCall
    /\ g' = Push([g EXCEPT !.sess[s].call = NoCall], call.room,
                 [op |-> call.op, q |-> Request(g, s)])

Disconnect(s) ==
    /\ s \in g.scn.drops /\ g.sess[s].up = "up" /\ ~Calling(g.scn.worker[s])
    /\ g' = [g EXCEPT !.sess[s].up = "closing"]

(* PlayerManager::Unregister *)
Unregister(x, s) ==
    LET pid == x.bySession[s].pid IN
    [x EXCEPT !.byPlayer = Restrict(@, DOMAIN @ \ {pid}),
              !.bySession = Restrict(@, DOMAIN @ \ {s})]

OnDisconnected(s) ==
    /\ g.sess[s].up = "closing" /\ ~Calling(g.scn.worker[s])
    /\ LET x == [g EXCEPT !.sess[s].up = "gone"]
           r == g.bySession[s].room
           y == IF r = 0 THEN x
                ELSE Push(x, r, [op |-> "RemovePlayer", q |-> Request(x, s)])
       IN  g' = IF HasCtx(g, s) THEN Unregister(y, s) ELSE x

(* Who points at rooms: contexts, handlers on their way to Push, jobs that *)
(* are queued or running, and messages with their enter tasks.             *)
Pushes == UNION {{e.to : e \in {x \in Range(g.rooms[r].todo) : x.do = "push"}} : r \in DOMAIN g.rooms}
Messages == UNION {Range(g.queues[s]) : s \in Sessions}
InFlight ==
    {g.sess[s].call.room : s \in Sessions} \cup Pushes \cup {m.room : m \in Messages} \cup
    {r \in DOMAIN g.rooms : g.rooms[r].jobs # <<>> \/ g.rooms[r].todo # <<>>}
Referenced == ({g.bySession[s].room : s \in DOMAIN g.bySession} \cup InFlight) \ {0}

(* The room has been empty for kGracePeriod, assumed enough for what was   *)
(* in flight then to be done: only joins can have come since.              *)
GraceOver(r) ==
    /\ \A s \in Sessions : g.sess[s].call.room = r => g.sess[s].call.op = "TryJoin"
    /\ \A job \in Range(g.rooms[r].jobs) : job.op = "TryJoin"
    /\ r \notin Pushes \cup {m.room : m \in Messages}

(* CleanupEmptyRooms on the main thread looks at every room, and then      *)
(* removes those it found.                                                 *)
FindEmptyRoom(r) ==
    /\ r \in g.registered \ g.doomed /\ r > 1
    /\ IsEmpty(g.rooms[r]) /\ g.rooms[r].emptySince
    /\ GraceOver(r)
    /\ g' = [g EXCEPT !.doomed = @ \cup {r}]

RemoveRoom(r) ==
    /\ r \in g.doomed
    /\ g' = [g EXCEPT !.doomed = @ \ {r}, !.registered = @ \ {r},
                      !.dangling = IF r \in Referenced THEN @ \cup {r} ELSE @,
                      !.rooms = [k \in DOMAIN @ |->
                          IF @[k].conn = r THEN [@[k] EXCEPT !.conn = 0] ELSE @[k]]]

-----------------------------------------------------------------------------
Next ==
    \/ \E s \in Sessions : Packet(s) \/ PushRequest(s) \/ Disconnect(s) \/ OnDisconnected(s)
    \/ \E r \in DOMAIN g.rooms : RunJob(r) \/ Step(r) \/ FindEmptyRoom(r) \/ RemoveRoom(r)
    \/ \E w \in DOMAIN g.ready : DrainOutbox(w)

(* Workers keep running their loop and the ring delivers completions; no   *)
(* client has to send anything or to leave, and no clean-up has to run.    *)
Fairness ==
    /\ WF_g(\E s \in Sessions : OnDisconnected(s) \/ PushRequest(s))
    /\ \A r \in Rooms : WF_g(r \in DOMAIN g.rooms /\ (RunJob(r) \/ Step(r)))
    /\ \A w \in 0..1 : WF_g(w \in DOMAIN g.ready /\ DrainOutbox(w))

Spec == Init /\ [][Next]_g /\ Fairness

-----------------------------------------------------------------------------
(* The assertion in WorkerOutbox::DrainBudgeted: what one room sends to    *)
(* one session is drained in the room's order, whichever worker ran the    *)
(* room's jobs; and a session is in the round-robin list exactly once      *)
(* while it has something queued.                                          *)
OutboxInRoomOrder ==
    /\ \A s \in Sessions : LET q == g.queues[s] IN
           \A j \in 1..Len(q) :
              /\ q[j].seq > g.sess[s].last[q[j].room]
              /\ \A i \in 1..j - 1 : q[i].room = q[j].room => q[i].seq < q[j].seq
    /\ \A s \in Sessions :
           Cardinality({i \in DOMAIN g.ready[g.scn.worker[s]] :
                           g.ready[g.scn.worker[s]][i] = s})
             = IF g.queues[s] = <<>> THEN 0 ELSE 1

(* What the job running in room r has still to do. *)
Todo(r, do) == {e \in Range(g.rooms[r].todo) : e.do = do}
Entering(r, pid) == \E e \in Todo(r, "add") : e.q.pid = pid
Leaving(r, pid) == \E e \in Todo(r, "remove") : e.pid = pid

(* What session s will have seen of room r once its queue is drained. *)
ViewAfterDrain(s, r) ==
    LET said == SelectSeq(g.rooms[r].todo, LAMBDA e : e.do = "send" /\ e.to = s) IN
    FoldLeft(LAMBDA v, m :
                CASE m.room # r \/ m.kind = "enter" -> v
                  [] m.kind \in {"reply", "full"} -> {}
                  [] m.kind \in {"list", "spawn"} -> v \cup m.who
                  [] m.kind = "despawn" -> v \ m.who,
             g.sess[s].view[r],
             g.queues[s] \o [i \in 1..Len(said) |-> said[i].m])

(* Room::HandleSceneReady, RemovePlayer and the broadcasts together: once  *)
(* everything queued has arrived, a client that is scene_ready (and is not *)
(* just being let in again) knows every other ready player and the bots of *)
(* its room, and nobody who has left.                                      *)
ClientsSeeTheRoom ==
    \A r \in DOMAIN g.rooms : LET room == g.rooms[r] IN
        \A p \in Audience(room, Bot) :
            LET s == room.players[p].s
                v == ViewAfterDrain(s, r)
            IN  g.sess[s].up = "up" /\ ~Entering(r, p) =>
                  /\ Audience(room, p) \cup (DOMAIN room.players \cap {Bot}) \subseteq v
                  /\ v \subseteq DOMAIN room.players

SoleAccount(s) ==
    \A t \in Sessions \ {s} : \A pkt \in Range(g.scn.script[t]) :
        pkt.id = "LOGIN" => pkt.pid # g.bySession[s].pid

(* EnqueueSessionEnterState is queued ahead of the reply: when a client    *)
(* that waits for its answers has been told it is in a room, the server    *)
(* routes its packets there; and that room, and no other, has the session  *)
(* as the player before it looks at the next of them.  EnterFromPortal     *)
(* sends the reply before it adds the player, and TryPortal lets the new   *)
(* room answer before the old one has removed them: the job that will do   *)
(* so is then still running.                                               *)
RepliedIsRouted ==
    \A s \in DOMAIN g.bySession :
        LET x == g.sess[s]
            r == g.bySession[s].room
            pid == g.bySession[s].pid
        IN  (/\ g.scn.patient /\ SoleAccount(s)
             /\ x.up = "up" /\ x.asked > 0 /\ x.asked = x.answered
             /\ x.st # "InLobby")
              => /\ x.st = "InRoom" /\ r # 0
                 /\ \/ Entering(r, pid)
                    \/ pid \in DOMAIN g.rooms[r].players /\ g.rooms[r].players[pid].s = s
                 /\ \A k \in DOMAIN g.rooms \ {r} :
                      pid \in DOMAIN g.rooms[k].players => Leaving(k, pid)

(* PlayerContext::room, the jobs and the enter tasks hold plain pointers   *)
(* to rooms while CleanupEmptyRooms destroys rooms from the main thread.   *)
(* A room that was ever populated is never destroyed under them, because   *)
(* its bots keep it non-empty.  One that was not, because its creator left *)
(* first, is: when a join comes just before the look, or between it and    *)
(* the removal.  Once a room is removed no new pointer to it is made.      *)
RoomsStay ==
    \A r \in Referenced \ g.registered : r \in g.dangling /\ ~g.rooms[r].map

(* GameSession::OnDisconnected removes the player from the room its        *)
(* context names.  A client that waits for its answers leaves every room   *)
(* when it disconnects, unless the enter task came after its context or    *)
(* the room is gone.                                                       *)
LeaversLeave ==
    (\E s \in Sessions : g.sess[s].up = "gone") ~>
        \A s \in Sessions : g.sess[s].up = "gone" =>
            \/ ~g.scn.patient \/ g.sess[s].late
            \/ \A r \in g.registered : \A p \in DOMAIN g.rooms[r].players :
                   g.rooms[r].players[p].s # s

(* PlayerManager keeps by_player_ as plain pointers into by_session_: even *)
(* when one account is on two sessions no entry outlives its context.      *)
ContextsAlive ==
    \A p \in DOMAIN g.byPlayer :
        /\ g.byPlayer[p] \in DOMAIN g.bySession
        /\ g.bySession[g.byPlayer[p]].pid = p
=============================================================================
