----------------------------- MODULE ArenaWorld -----------------------------
(* One map: its players, NPCs and treasures, of                            *)
(*   src/Lab/Lab3/student/world/world.go                                   *)
(* and, where AddOrRestorePlayer differs, of src/Lab/Lab4/world/world.go.  *)
(* Every method holds the world's mutex from its first to its last line;   *)
(* BackgroundStep, the long one, is a sequence of steps here during which  *)
(* the mutex is held. The map is a line of cells. The methods that refresh *)
(* a player before they act are enabled when there is nothing to refresh:  *)
(* Refresh is also a method of its own, ProfileOf.                         *)
EXTENDS Integers, FiniteSets, Functions

CONSTANTS Users,         \* account names: 1..n, their order breaks ties
          Cells,         \* the walkable part of the terrain is 1..Cells
          InitHP, NpcHP,
          MaxPotions, PotionCap, PotionPrice, WeaponPrice,
          AttackRange,   \* of players; NPCs reach one cell
          MinNPCs, MaxTreasures,
          RespawnOnLogin,\* AddOrRestorePlayer of Lab3 sets RespawnAt, Lab4's not
          MaxMint,       \* bound: loot brought into the world
          MaxRestores    \* bound: failovers

ArenaAssumption ==
  /\ Users \subseteq Nat /\ IsFiniteSet(Users) /\ RespawnOnLogin \in BOOLEAN
  /\ Cells \in Nat \ {0} /\ {InitHP, NpcHP} \subseteq Nat \ {0}
  /\ {MaxPotions, PotionCap, AttackRange, MinNPCs, MaxTreasures, MaxMint, MaxRestores} \subseteq Nat
  /\ {PotionPrice, WeaponPrice} \subseteq Nat \ {0}

Cell == 1..Cells
Spawn == 1                       \* cfg.SpawnX, cfg.SpawnY
NpcId == 0..(MinNPCs + MaxMint)
ChestId == 0..(MaxTreasures + MaxMint)

VARIABLES players,   \* World.players: user -> player; RespawnAt is zero, ahead or past
          npcs,      \* World.npcs: id -> cell and hp
          treasures, \* World.treasures: id -> cell and value
          nextNPC, nextTreasure,
          busy,      \* BackgroundStep: what it does next, holding the mutex
          online,    \* the users with a session
          profile,   \* what the store has of the users that are not in the world
          saved,     \* the last checkpoint; <<>> when there is none
          restores, minted, spent

vars == <<players, npcs, treasures, nextNPC, nextTreasure, busy, online, profile,
          saved, restores, minted, spent>>
things == <<npcs, treasures, nextNPC, nextTreasure>>
books == <<restores, minted, spent>>

Player == [cell : Cell, hp : 0..InitHP, potions : 0..PotionCap, loot : Nat,
           alive : BOOLEAN, respawn : {"zero", "ahead", "past"}]
Npc == [cell : Cell, hp : 1..NpcHP]
Chest == [cell : Cell, value : Nat \ {0}]

Present == DOMAIN players
Alive == {u \in Present : players[u].alive}

TypeOK == /\ Present \subseteq Users /\ \A u \in Present : players[u] \in Player
          /\ DOMAIN npcs \subseteq NpcId /\ \A i \in DOMAIN npcs : npcs[i] \in Npc
          /\ DOMAIN treasures \subseteq ChestId
          /\ \A i \in DOMAIN treasures : treasures[i] \in Chest
          /\ Cardinality(DOMAIN npcs) <= MinNPCs
          /\ nextNPC \in Nat /\ nextTreasure \in Nat
          /\ busy \in [step : {"no", "spawn", "npc"}, left : SUBSET NpcId]
          /\ online \subseteq Users

(* ------------------------------ placement ------------------------------ *)

\* A map with one more, or another, entry.
With(f, x, v) == [y \in DOMAIN f \cup {x} |-> IF y = x THEN v ELSE f[y]]

Distance(a, b) == IF a > b THEN a - b ELSE b - a

\* walkableForLocked
Walkable(c, ignore) ==
  /\ c \in Cell
  /\ \A u \in Alive \ ignore : players[u].cell # c
  /\ \A i \in DOMAIN npcs : npcs[i].cell # c

\* bestSpawnCellLocked picks at random among the twelve best open cells.
Open(ignore) == {c \in Cell : Walkable(c, ignore)}

\* findSafePositionLocked
SafePositions_Preferred(c, ignore) == {c}
SafePositions(c, ignore) ==
  IF Walkable(c, ignore) THEN {c}
  ELSE IF Open(ignore) # {} THEN Open(ignore) ELSE {Spawn}

\* dropTreasureLocked: value is added to a treasure that lies there.
TreasureAt(c) == {i \in DOMAIN treasures : treasures[i].cell = c}
DropTreasure_Overwrite(c, value) ==
  /\ treasures' = With(Restrict(treasures, DOMAIN treasures \ TreasureAt(c)),
                         nextTreasure, [cell |-> c, value |-> value])
  /\ nextTreasure' = nextTreasure + 1
DropTreasure(c, value) ==
  IF TreasureAt(c) # {}
  THEN /\ \E i \in TreasureAt(c) : treasures' = [treasures EXCEPT ![i].value = @ + value]
       /\ UNCHANGED nextTreasure
  ELSE /\ treasures' = With(treasures, nextTreasure, [cell |-> c, value |-> value])
       /\ nextTreasure' = nextTreasure + 1

ValueOr(v, fallback) == IF v = 0 THEN fallback ELSE v

(* -------------------------------- players ------------------------------ *)

Doing(step) == [step |-> step, left |-> {}]
Idle == Doing("no")

FreshProfile == [cell |-> Spawn, hp |-> InitHP, potions |-> MaxPotions, loot |-> 0,
                 alive |-> TRUE]

\* NewWorld and bootstrap, with MaxTreasures \div 2 treasures of value 1.
Fresh(n, t) ==
  /\ DOMAIN n = 0..(MinNPCs - 1) /\ \A i \in DOMAIN n : n[i] \in [cell : Cell, hp : {NpcHP}]
  /\ \A i, j \in DOMAIN n : n[i].cell = n[j].cell => i = j
  /\ DOMAIN t = 0..(MaxTreasures \div 2 - 1)
  /\ \A i \in DOMAIN t : /\ t[i] \in [cell : Cell, value : {1}]
                         /\ \A j \in DOMAIN n : n[j].cell # t[i].cell
  /\ \A i, j \in DOMAIN t : t[i].cell = t[j].cell => i = j
FreshNpcs == [0..(MinNPCs - 1) -> [cell : Cell, hp : {NpcHP}]]
FreshChests == [0..(MaxTreasures \div 2 - 1) -> [cell : Cell, value : {1}]]

Init == /\ players = <<>> /\ online = {}
        /\ npcs \in FreshNpcs /\ treasures \in FreshChests /\ Fresh(npcs, treasures)
        /\ nextNPC = MinNPCs /\ nextTreasure = MaxTreasures \div 2
        /\ busy = Idle /\ profile = [u \in Users |-> FreshProfile]
        /\ saved = <<>> /\ restores = 0
        /\ minted = MaxTreasures \div 2 /\ spent = 0

Free == busy = Idle              \* the mutex can be taken

Due(u) == /\ u \in Present /\ ~players[u].alive /\ players[u].respawn = "past"

\* AddOrRestorePlayer, called by Login (same map) or SwitchMap (another).
Enter_NoRespawn(u, here) ==
  /\ Free /\ u \notin online
  /\ here \/ profile[u].alive          \* SwitchMap refuses the knocked down
  /\ online' = online \cup {u}
  /\ LET p == profile[u]
     IN  \E c \in SafePositions(IF here THEN p.cell ELSE Spawn, {}) :
           players' = With(players, u,
             [cell |-> c, hp |-> ValueOr(p.hp, InitHP),
              potions |-> ValueOr(p.potions, MaxPotions), loot |-> p.loot,
              alive |-> p.alive,
              respawn |-> "zero"])
  /\ profile' = Restrict(profile, DOMAIN profile \ {u})
  /\ UNCHANGED <<things, busy, saved, books>>
Enter(u, here) ==
  /\ Free /\ u \notin online
  /\ here \/ profile[u].alive          \* SwitchMap refuses the knocked down
  /\ online' = online \cup {u}
  /\ LET p == profile[u]
     IN  \E c \in SafePositions(IF here THEN p.cell ELSE Spawn, {}) :
           players' = With(players, u,
             [cell |-> c, hp |-> ValueOr(p.hp, InitHP),
              potions |-> ValueOr(p.potions, MaxPotions), loot |-> p.loot,
              alive |-> p.alive,
              respawn |-> IF RespawnOnLogin /\ ~p.alive THEN "ahead" ELSE "zero"])
  /\ profile' = Restrict(profile, DOMAIN profile \ {u})
  /\ UNCHANGED <<things, busy, saved, books>>

\* RemovePlayer and the SaveProfile of Logout or SwitchMap.
ProfileOf(u) == [f \in DOMAIN FreshProfile |-> players[u][f]]
Leave(u) ==
  /\ Free /\ u \in online
  /\ online' = online \ {u}
  /\ IF u \in Present
     THEN /\ profile' = With(profile, u, ProfileOf(u))
          /\ players' = Restrict(players, Present \ {u})
     ELSE UNCHANGED <<players, profile>>
  /\ UNCHANGED <<things, busy, saved, books>>

\* refreshPlayerStateLocked
Revived(u, c) ==
  [players[u] EXCEPT !.cell = c, !.hp = InitHP, !.alive = TRUE, !.respawn = "zero",
                     !.potions = IF @ > MaxPotions THEN @ ELSE MaxPotions]
Refresh(u) ==
  /\ Free /\ Due(u)
  /\ \E c \in SafePositions(Spawn, {u}) : players' = [players EXCEPT ![u] = Revived(u, c)]
  /\ UNCHANGED <<things, busy, online, profile, saved, books>>

\* RespawnAt passes.
Pass(u) == /\ u \in Present /\ players[u].respawn = "ahead"
           /\ players' = [players EXCEPT ![u].respawn = "past"]
           /\ UNCHANGED <<things, busy, online, profile, saved, books>>

\* A command of a session: the player stands in the world.
Acts(u) == Free /\ u \in online /\ u \in Alive

Move(u, c) ==
  /\ Acts(u) /\ Distance(players[u].cell, c) = 1 /\ Walkable(c, {u})
  /\ LET found == TreasureAt(c)
     IN  /\ players' = [players EXCEPT ![u].cell = c,
               ![u].loot = @ + SumFunction([i \in found |-> treasures[i].value])]
         /\ treasures' = Restrict(treasures, DOMAIN treasures \ found)
  /\ UNCHANGED <<npcs, nextNPC, nextTreasure, busy, online, profile, saved, books>>

HealPlayer(u) ==
  /\ Acts(u) /\ players[u].potions > 0
  /\ players' = [players EXCEPT ![u].potions = @ - 1,
                                ![u].hp = IF @ < InitHP THEN @ + 1 ELSE @]
  /\ UNCHANGED <<things, busy, online, profile, saved, books>>

BuyItem_NoCap(u, price, potion) ==
  /\ Acts(u) /\ players[u].loot >= price
  /\ players' = [players EXCEPT ![u].loot = @ - price,
                                ![u].potions = IF potion THEN @ + 1 ELSE @]
  /\ spent' = spent + price
  /\ UNCHANGED <<things, busy, online, profile, saved, restores, minted>>
BuyItem(u, price, potion) ==
  /\ Acts(u) /\ players[u].loot >= price
  /\ potion => players[u].potions < PotionCap
  /\ players' = [players EXCEPT ![u].loot = @ - price,
                                ![u].potions = IF potion THEN @ + 1 ELSE @]
  /\ spent' = spent + price
  /\ UNCHANGED <<things, busy, online, profile, saved, restores, minted>>

RewardPlayer(u) ==
  /\ Free /\ u \in Present /\ minted < MaxMint
  /\ players' = [players EXCEPT ![u].loot = @ + 1] /\ minted' = minted + 1
  /\ UNCHANGED <<things, busy, online, profile, saved, restores, spent>>

\* knockDownPlayerLocked after a hit of one.
Hit(p) == IF p.hp > 1 THEN [p EXCEPT !.hp = @ - 1]
          ELSE [p EXCEPT !.hp = 0, !.alive = FALSE, !.respawn = "ahead"]

\* The weakest target in reach; names break ties.
Weakest(targets, hp) ==
  {t \in targets : \A o \in targets : hp[t] < hp[o] \/ (hp[t] = hp[o] /\ t <= o)}

NpcsInReach(u) == {i \in DOMAIN npcs :
                     Distance(players[u].cell, npcs[i].cell) <= AttackRange}
Attack(u) ==
  /\ Acts(u)
  /\ IF NpcsInReach(u) # {}
     THEN \E i \in Weakest(NpcsInReach(u), [j \in NpcsInReach(u) |-> npcs[j].hp]) :
            IF npcs[i].hp > 1
            THEN /\ npcs' = [npcs EXCEPT ![i].hp = @ - 1]
                 /\ UNCHANGED <<players, treasures, nextTreasure, minted>>
            ELSE /\ minted < MaxMint /\ minted' = minted + 1
                 /\ npcs' = Restrict(npcs, DOMAIN npcs \ {i})
                 /\ DropTreasure(npcs[i].cell, 1)
                 /\ UNCHANGED players
     ELSE LET near == {v \in Alive \ {u} :
                         Distance(players[u].cell, players[v].cell) <= AttackRange}
          IN  /\ \E v \in Weakest(near, [w \in near |-> players[w].hp]) :
                   players' = [players EXCEPT ![v] = Hit(@)]
              /\ UNCHANGED <<npcs, treasures, nextTreasure, minted>>
  /\ UNCHANGED <<nextNPC, busy, online, profile, saved, restores, spent>>

(* ---------------------------- BackgroundStep --------------------------- *)

\* spawnNPCLocked
SpawnNPC(c) ==
  /\ c \in Open({})
  /\ npcs' = With(npcs, nextNPC, [cell |-> c, hp |-> NpcHP]) /\ nextNPC' = nextNPC + 1

\* A round of the loop over missing NPCs, which ends when the map is full; then
\* perhaps a treasure.
SpawnOrChest ==
  /\ IF Cardinality(DOMAIN npcs) < MinNPCs /\ Open({}) # {}
     THEN /\ \E c \in Cell : SpawnNPC(c)
          /\ busy' = Doing("spawn")
          /\ UNCHANGED <<treasures, nextTreasure, minted>>
     ELSE /\ busy' = IF npcs = <<>> THEN Idle ELSE [step |-> "npc", left |-> DOMAIN npcs]
          /\ UNCHANGED <<npcs, nextNPC>>
          /\ \/ UNCHANGED <<treasures, nextTreasure, minted>>
             \/ /\ Cardinality(DOMAIN treasures) < MaxTreasures /\ minted < MaxMint
                /\ \E c \in Open({}) : DropTreasure(c, 1)
                /\ minted' = minted + 1
  /\ UNCHANGED <<players, online, profile, saved, restores, spent>>

Background == Free /\ (\A u \in Users : ~Due(u)) /\ SpawnOrChest
SpawnStep == busy = Doing("spawn") /\ SpawnOrChest

\* One NPC, in the order of the ids: it hits the weakest neighbour or walks.
NpcStep ==
  /\ busy.step = "npc"
  /\ LET i    == CHOOSE j \in busy.left : \A k \in busy.left : j <= k
         near == {u \in Alive : Distance(npcs[i].cell, players[u].cell) <= 1}
         ways == {c \in Open({}) : Distance(npcs[i].cell, c) = 1}
     IN  /\ busy' = IF busy.left = {i} THEN Idle ELSE [busy EXCEPT !.left = @ \ {i}]
         /\ IF near # {}
            THEN /\ \E u \in Weakest(near, [v \in near |-> players[v].hp]) :
                      players' = [players EXCEPT ![u] = Hit(@)]
                 /\ UNCHANGED npcs
            ELSE /\ UNCHANGED players
                 /\ IF ways = {} THEN UNCHANGED npcs
                    ELSE \E c \in ways : npcs' = [npcs EXCEPT ![i].cell = c]
  /\ UNCHANGED <<treasures, nextNPC, nextTreasure, online, profile, saved, books>>

(* ------------------------------ checkpoints ---------------------------- *)

\* CaptureCheckpoint: the snapshot has no respawn time and no next numbers.
CaptureCheckpoint ==
  /\ Free /\ restores < MaxRestores /\ \A u \in Users : ~Due(u)
  /\ saved' = [players |-> [u \in Present |-> [players[u] EXCEPT !.respawn = "zero"]],
               npcs |-> npcs, treasures |-> treasures]
  /\ UNCHANGED <<players, things, busy, online, profile, books>>

\* A failover: NewWorld on another node and RestoreCheckpoint there.
\* The commands have stored the profile of whoever is missing there.
Stored == LET gone == (Present \cap online) \ DOMAIN saved.players
          IN  profile' = [u \in gone \cup DOMAIN profile |->
                           IF u \in gone THEN ProfileOf(u) ELSE profile[u]]
RestoreCheckpoint_KeepNpcs ==
  /\ Free /\ restores < MaxRestores /\ restores' = restores + 1
  /\ saved # <<>>
  /\ players' = [u \in DOMAIN saved.players |->
                  [saved.players[u] EXCEPT !.potions = ValueOr(@, MaxPotions)]]
  /\ npcs' = [i \in DOMAIN saved.npcs \cup DOMAIN npcs |->
              IF i \in DOMAIN saved.npcs THEN saved.npcs[i] ELSE npcs[i]]
  /\ treasures' = saved.treasures
  /\ nextNPC' = Cardinality(DOMAIN npcs') + 1
  /\ nextTreasure' = Cardinality(DOMAIN treasures') + 1
  /\ Stored
  /\ saved' = IF restores' < MaxRestores THEN saved ELSE <<>>
  /\ UNCHANGED <<busy, online, minted, spent>>
RestoreCheckpoint ==
  /\ Free /\ restores < MaxRestores /\ restores' = restores + 1
  /\ saved # <<>>
  /\ players' = [u \in DOMAIN saved.players |->
                  [saved.players[u] EXCEPT !.potions = ValueOr(@, MaxPotions)]]
  /\ npcs' = saved.npcs /\ treasures' = saved.treasures
  /\ nextNPC' = Cardinality(DOMAIN npcs') + 1
  /\ nextTreasure' = Cardinality(DOMAIN treasures') + 1
  /\ Stored
  /\ saved' = IF restores' < MaxRestores THEN saved ELSE <<>>
  /\ UNCHANGED <<busy, online, minted, spent>>

Commands(u) == \/ \E c \in Cell : Move(u, c)
               \/ HealPlayer(u) \/ Attack(u)
               \/ BuyItem(u, PotionPrice, TRUE) \/ BuyItem(u, WeaponPrice, FALSE)
BackgroundStep == Background \/ SpawnStep \/ NpcStep

Next == \/ \E u \in Users : \/ \E here \in BOOLEAN : Enter(u, here)
                            \/ Leave(u) \/ Refresh(u) \/ Pass(u)
                            \/ Commands(u) \/ RewardPlayer(u)
        \/ BackgroundStep \/ CaptureCheckpoint \/ RestoreCheckpoint

Spec == Init /\ [][Next]_vars

\* backgroundLoop and the snapshots every 0.4 s refresh the players.
FairSpec == /\ Spec /\ WF_vars(SpawnStep \/ NpcStep)
            /\ \A u \in Users : SF_vars(Refresh(u)) /\ WF_vars(Pass(u))

(* ----------------------------- properties ------------------------------ *)

Units == {[npc |-> FALSE, id |-> u, cell |-> players[u].cell] : u \in Alive}
         \cup {[npc |-> TRUE, id |-> i, cell |-> npcs[i].cell] : i \in DOMAIN npcs}

\* Players that revive, log in or come from another map, NPCs that appear and
\* walk, restored checkpoints: as long as the map has room, no two of the
\* living stand in one cell.
NoOverlap == \A x, y \in Units : x.cell = y.cell => x = y

\* What lies on the map, is in a pocket, or waits in a profile, and what was
\* spent in the shop, is what was dropped and awarded: until a failover, no
\* order of deaths, logouts and drops loses or doubles loot.
Loot(u) == IF u \in DOMAIN profile THEN profile[u].loot ELSE players[u].loot
LootKept ==
  restores = 0 =>
    minted = spent + SumFunction([i \in DOMAIN treasures |-> treasures[i].value])
                   + SumFunction([u \in Users |-> Loot(u)])

\* Whoever is knocked down gets up again, or leaves.
Down(u) == u \in Present \cap online /\ ~players[u].alive
Revives == \A u \in Users : Down(u) ~> ~Down(u)

\* An NPC leaves the map in a fight. One that is replaced under its number
\* gets stronger or jumps.
NpcStays == [][\A i \in DOMAIN npcs \cap DOMAIN npcs' :
                 restores' = restores => /\ npcs'[i].hp <= npcs[i].hp
                                         /\ Distance(npcs'[i].cell, npcs[i].cell) <= 1]_vars

\* Login gives back what Logout stored.
LoginRestores ==
  [][\A u \in Users : u \in online' \ online =>
       players'[u].potions = profile[u].potions /\ players'[u].loot = profile[u].loot]_vars
=============================================================================
