---------------------------- MODULE DungeonRoom ----------------------------
(***************************************************************************)
(* Inside one room of the dungeon server: combat, projectiles, bots and    *)
(* loot.  A room's jobs are serialized (JobQueue.tla), so every packet     *)
(* handler and every 50 ms tick is one step on the record m.  Parties are  *)
(* shared by the rooms: see PartySystem.tla.                               *)
(*                                                                         *)
(* Positions are left out: whether a target is in range, what a projectile *)
(* meets and whom a bot is near are inputs of the step.  Hit points count  *)
(* in units of a basic attack; time counts ticks, and a dead entity keeps  *)
(* the ticks since its death up to RespawnDelay.  Cooldowns are the set of *)
(* skills not yet usable again.                                            *)
(***************************************************************************)
EXTENDS Integers, FiniteSets, Sequences, SequencesExt, FiniteSetsExt, Functions, TLC

CONSTANTS
    Humans, Bots,          \* player ids, disjoint
    MaxHp, Damage,         \* kSkills: damage by skill id, negative heals
    LowHp,                 \* below this a bot heals and retreats
    RespawnDelay,          \* ticks: kRespawnDelay and kRespawnSeconds
    Budgets                \* bounds: packets, skills, ticks and bot ranges

VARIABLE m

Heal == 3
Fireball == 2

NewEntry == [hp |-> MaxHp, dead |-> FALSE, age |-> 0, cd |-> {}, ready |-> FALSE,
             sees |-> {}, since |-> 1]
NewBot == [hp |-> MaxHp, dead |-> FALSE, age |-> 0, cd |-> {}]

InitWith(b) ==
    m = [ps |-> [p \in Humans \cup Bots |-> [NewEntry EXCEPT !.ready = p \in Humans]],
         bots |-> [p \in Bots |-> NewBot],
         shots |-> <<>>, items |-> {}, nextItem |-> 1,
         left |-> b]

Init == \E b \in Budgets : InitWith(b)

Here(x, p) == p \in DOMAIN x.ps
ReadyHumans(x) == {p \in Humans \cap DOMAIN x.ps : x.ps[p].ready}

(* BroadcastAll of an item's spawn or despawn. *)
TellItems(x, new, gone) ==
    [x EXCEPT !.ps = [p \in DOMAIN @ |->
        IF p \in ReadyHumans(x) THEN [@[p] EXCEPT !.sees = (@ \cup new) \ gone] ELSE @[p]]]

SpawnGroundItem(x) ==
    TellItems([x EXCEPT !.items = @ \cup {x.nextItem}, !.nextItem = @ + 1],
              {x.nextItem}, {})

(* Mutant: the end of an item is not broadcast. *)
DespawnSilently(x, gone) == [x EXCEPT !.items = @ \ gone]

DespawnItems(x, gone) ==
    TellItems([x EXCEPT !.items = @ \ gone], {}, gone)

-----------------------------------------------------------------------------
(* CombatSystem *)

(* The common end of ProcessAttack and ProcessProjectileHit. *)
Hit(x, a, t, skill) ==
    LET hp == Max({0, Min({x.ps[t].hp - Damage[skill], MaxHp})})
        y == [x EXCEPT !.ps[t].hp = hp]
        z == [y EXCEPT !.ps[t].dead = TRUE, !.ps[t].age = 0]
    IN  CASE hp > 0 -> y
          [] hp = 0 /\ a \in Humans -> SpawnGroundItem(z)
          [] OTHER -> z

(* The cooldown starts whether or not the attack finds its target. *)
ProcessAttack(x, a, target, skill, inRange) ==
    LET y == [x EXCEPT !.ps[a].cd = @ \cup {skill}] IN
    CASE ~Here(x, a) -> x
      [] Here(x, a) /\ (x.ps[a].dead \/ skill \in x.ps[a].cd) -> x
      [] OTHER ->
            IF skill = Heal THEN Hit(y, a, a, skill)
            ELSE IF ~Here(x, target) THEN y
            ELSE IF x.ps[target].dead \/ ~inRange THEN y
            ELSE Hit(y, a, target, skill)

ProcessProjectileHit(x, a, t, skill) ==
    CASE ~Here(x, a) \/ ~Here(x, t) -> x
      [] Here(x, a) /\ Here(x, t) ->
            IF x.ps[a].dead \/ x.ps[t].dead THEN x ELSE Hit(x, a, t, skill)

Revived(e) == [e EXCEPT !.dead = FALSE, !.hp = MaxHp]

(* Every dead player, bots included. *)
CheckRespawns(x) ==
    [x EXCEPT !.ps = [p \in DOMAIN @ |->
        IF @[p].dead /\ @[p].age >= RespawnDelay THEN Revived(@[p]) ELSE @[p]]]

-----------------------------------------------------------------------------
(* ProjectileManager *)

SpawnProjectile(x, owner, skill) ==
    [x EXCEPT !.shots = Append(@, [owner |-> owner, skill |-> skill])]

(* What one projectile can meet: nothing yet, a wall or its range, or a    *)
(* living player other than its owner.                                     *)
Flies == -1
Stopped == 0
Fates(x, shot) ==
    {Flies, Stopped} \cup {p \in DOMAIN x.ps \ {shot.owner} : ~x.ps[p].dead}

RECURSIVE UpdateProjectiles(_, _, _)
UpdateProjectiles(x, i, meets) ==
    IF i = 0 THEN x
    ELSE LET shot == x.shots[i]
             fate == IF meets[i] \in Fates(x, shot) THEN meets[i] ELSE Flies
             y == IF fate \in {Flies, Stopped} THEN x
                  ELSE ProcessProjectileHit(x, shot.owner, fate, shot.skill)
         IN  UpdateProjectiles(IF fate = Flies THEN y
                               ELSE [y EXCEPT !.shots = RemoveAt(@, i)],
                               i - 1, meets)

-----------------------------------------------------------------------------
(* BotManager *)

(* Deaths the room has seen since the last tick. *)
SyncDeaths(x) ==
    [x EXCEPT !.bots = [b \in Bots |->
        IF Here(x, b) /\ x.ps[b].dead /\ ~@[b].dead
        THEN [@[b] EXCEPT !.dead = TRUE, !.hp = 0, !.age = x.ps[b].age] ELSE @[b]]]

TryFireball(x, b) ==
    IF Fireball \in x.bots[b].cd THEN x
    ELSE [SpawnProjectile(x, b, Fireball) EXCEPT !.bots[b].cd = @ \cup {Fireball}]

TryHeal(x, b) ==
    IF x.bots[b].hp >= LowHp \/ Heal \in x.bots[b].cd THEN x
    ELSE LET y == ProcessAttack(x, b, b, Heal, TRUE)
         IN  [y EXCEPT !.bots[b].cd = @ \cup {Heal}, !.bots[b].hp = y.ps[b].hp]

TryMelee(x, b, target) ==
    LET skill == IF 1 \in x.bots[b].cd THEN 0 ELSE 1
    IN  IF skill \in x.bots[b].cd THEN x
        ELSE [ProcessAttack(x, b, target, skill, TRUE)
                 EXCEPT !.bots[b].cd = @ \cup {skill}]

(* near: the nearest living player, or 0 for none or for a chase given up. *)
UpdateCombat(x, b, near, dist) ==
    LET y == TryHeal(x, b) IN
    CASE ~Here(x, near) -> y
      [] Here(x, near) /\ dist = "melee" /\ y.bots[b].hp < LowHp -> TryFireball(y, b)
      [] Here(x, near) /\ dist = "melee" /\ y.bots[b].hp >= LowHp -> TryMelee(y, b, near)
      [] Here(x, near) /\ dist = "ranged" -> TryFireball(y, b)
      [] Here(x, near) /\ dist = "far" -> y

(* Mutant: only the player that stands for the bot is revived. *)
BotStaysDead(x, late) ==
    LET back == {b \in Bots : x.bots[b].dead /\ x.bots[b].age + late >= RespawnDelay}
    IN  [x EXCEPT !.ps = [p \in DOMAIN @ |->
            IF p \in back THEN Revived(@[p]) ELSE @[p]]]

(* late: a second may end between the room's check and this one. *)
BotRespawns(x, late) ==
    LET back == {b \in Bots : x.bots[b].dead /\ x.bots[b].age + late >= RespawnDelay}
    IN  [x EXCEPT
            !.bots = [b \in Bots |-> IF b \in back THEN Revived(@[b]) ELSE @[b]],
            !.ps = [p \in DOMAIN @ |-> IF p \in back THEN Revived(@[p]) ELSE @[p]]]

RECURSIVE UpdateBots(_, _, _)
UpdateBots(x, todo, c) ==
    IF todo = <<>> THEN x
    ELSE LET b == Head(todo)
             seen == {p \in DOMAIN x.ps \ {b} : ~x.ps[p].dead}
             near == IF c.near \in seen THEN c.near ELSE 0
             y == IF x.bots[b].dead THEN x ELSE UpdateCombat(x, b, near, c.dist)
         IN  UpdateBots(y, Tail(todo), c)

Update(x, c) == BotRespawns(UpdateBots(SyncDeaths(x), SetToSeq(Bots), c), c.late)

-----------------------------------------------------------------------------
(* Room::OnTick: time passes, then the four systems in the code's order. *)
Older(e) == [e EXCEPT !.age = IF e.dead THEN Min({RespawnDelay, @ + 1}) ELSE 0]

Time(x, cool) ==
    [x EXCEPT !.ps = [p \in DOMAIN @ |->
                 [Older(@[p]) EXCEPT !.cd = IF cool THEN {} ELSE @]],
              !.bots = [b \in Bots |->
                 [Older(@[b]) EXCEPT !.cd = IF cool THEN {} ELSE @]],
              !.left.ticks = @ - 1]

OnTick ==
    /\ m.left.ticks > 0
    /\ \E meets \in [DOMAIN m.shots -> {Flies, Stopped} \cup DOMAIN m.ps],
          near \in {0} \cup DOMAIN m.ps, dist \in m.left.dists,
          late \in 0..1, cool \in BOOLEAN, stale \in {{}, m.items} :
          LET c == [near |-> near, dist |-> dist, late |-> late]
              x == CheckRespawns(Time(m, cool))
              y == Update(UpdateProjectiles(x, Len(x.shots), meets), c)
          IN  m' = DespawnItems(y, stale)

-----------------------------------------------------------------------------
(* Packets of a player in the room. *)
May == m.left.packets > 0
Used(x) == [x EXCEPT !.left.packets = @ - 1]

HandleAttack(p) ==
    /\ May /\ Here(m, p)
    /\ \E skill \in m.left.skills, t \in {0} \cup DOMAIN m.ps, inRange \in BOOLEAN :
          m' = Used(ProcessAttack(m, p, t, skill, inRange))

HandleFire(p) ==
    /\ May /\ Here(m, p) /\ 0 \in m.left.skills \ m.ps[p].cd
    /\ m' = Used(SpawnProjectile([m EXCEPT !.ps[p].cd = @ \cup {0}], p, 0))

TryPickup(p) ==
    /\ May /\ Here(m, p)
    /\ \E i \in m.items : m' = Used(DespawnItems(m, {i}))

HandleSceneReady(p) ==
    /\ Here(m, p) /\ ~m.ps[p].ready
    /\ m' = [m EXCEPT !.ps[p].ready = TRUE, !.ps[p].since = m.nextItem]

(* Room::AddPlayer and RemovePlayer.  A second session of the account      *)
(* replaces the PlayerState of the first.                                  *)
AddPlayer(p) ==
    /\ May
    /\ m' = Used([m EXCEPT !.ps = (p :> NewEntry) @@ @])

RemovePlayer(p) ==
    /\ May /\ Here(m, p)
    /\ m' = Used([m EXCEPT !.ps = Restrict(@, DOMAIN @ \ {p})])

Next ==
    \/ OnTick
    \/ \E p \in Humans :
          \/ HandleAttack(p) \/ HandleFire(p) \/ TryPickup(p) \/ HandleSceneReady(p)
          \/ AddPlayer(p) \/ RemovePlayer(p)

Spec == Init /\ [][Next]_m

-----------------------------------------------------------------------------
(* is_dead and hp are set in four places: an entity is dead exactly when   *)
(* it has no hit points.  A bot the BotManager holds dead is dead in the   *)
(* room too, although the two respawn it separately: no bot stands in the  *)
(* room that does not act.                                                 *)
DeadAgree ==
    /\ \A p \in DOMAIN m.ps : m.ps[p].hp \in 0..MaxHp /\ (m.ps[p].dead <=> m.ps[p].hp = 0)
    /\ \A b \in Bots : m.bots[b].dead => m.ps[b].dead

(* TryPickup, the lifetime decay in OnTick and SpawnGroundItem broadcast:  *)
(* a client shows exactly the items still there of those dropped since it  *)
(* was scene_ready (HandleSceneReady sends no snapshot of items).          *)
ItemsSeen ==
    \A p \in ReadyHumans(m) : m.ps[p].sees = {i \in m.items : i >= m.ps[p].since}
=============================================================================
