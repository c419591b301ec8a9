------------------------------- MODULE MCWorlds -------------------------------
(* The worlds that players share, of Lab1, Lab2 and Lab3, each on its own:   *)
(* `system` names the one that runs, and the others stay as they start.      *)
EXTENDS Integers

VARIABLES system,
          \* ArenaWorld
          players, npcs, treasures, nextNPC, nextTreasure, busy, online, profile, saved,
          restores, minted, spent,
          \* OpenWorld
          roamers, roamBody, sleeping, at, more, hand, snap, closed, shown, given, panicked,
          \* Duel
          phase, duellists, joining, turn, winner, backlog, asked, acts, told, open, doing, myTurn,
          \* WorldBoss
          boss, sleepers, bossMu, readers, place, body, cmd, toMap, plan, seen, kills, struck,
          due, paid, moved

arenaVars == <<players, npcs, treasures, nextNPC, nextTreasure, busy, online, profile, saved,
               restores, minted, spent>>
openVars  == <<roamers, roamBody, sleeping, at, more, hand, snap, closed, shown, given, panicked>>
duelVars  == <<phase, duellists, joining, turn, winner, backlog, asked, acts, told, open, doing,
               myTurn>>
bossVars  == <<boss, sleepers, bossMu, readers, place, body, cmd, toMap, plan, seen, kills, struck,
               due, paid, moved>>
all == <<system, arenaVars, openVars, duelVars, bossVars>>

CONSTANTS p1, p2, p3, None

\* A hero between shop, fights and treasures; as many of the living as cells;
\* a failover.
Arenas == {"loot", "crowd", "failover"}
Arena(s) == INSTANCE ArenaWorld WITH
              Users <- IF s = "crowd" THEN {1, 2} ELSE {1},
              Cells <- 3,
              InitHP <- IF s = "failover" THEN 1 ELSE 2, NpcHP <- 1,
              MaxPotions <- IF s = "loot" THEN 1 ELSE 0,
              PotionCap <- IF s = "loot" THEN 2 ELSE 0, PotionPrice <- 1, WeaponPrice <- 2,
              AttackRange <- 1, MinNPCs <- 1, MaxTreasures <- IF s = "loot" THEN 2 ELSE 0,
              RespawnOnLogin <- TRUE, MaxMint <- IF s = "loot" THEN 2 ELSE IF s = "crowd" THEN 1 ELSE 0,
              MaxRestores <- IF s = "failover" THEN 1 ELSE 0
Open == INSTANCE OpenWorld WITH
          Player <- {p1, p2}, MapSize <- 1, InitHP <- 1, AttackDmg <- 1, HealAmt <- 1,
          MaxPotions <- 1, AttackRange <- 1, MaxCommands <- 1, Early <- {}, Prompt <- TRUE,
          players <- roamers, body <- roamBody
\* Three clients that compete for two names and two cells; two that fight on.
ClientsOf == [lobby |-> {p1, p2, p3}, duel |-> {p1, p2}]
Duels == DOMAIN ClientsOf
Duel(s) == INSTANCE Duel WITH
             Client <- ClientsOf[s], Name <- {"n1", "n2"}, Width <- 2,
             Height <- 1, InitHP <- IF s = "lobby" THEN 1 ELSE 2, AttackDmg <- 1, HealAmt <- 1,
             MaxPotions <- IF s = "lobby" THEN 0 ELSE 1, AttackRange <- 1, Prompt <- TRUE,
             players <- duellists
Boss == INSTANCE WorldBoss WITH
          User <- {p1, p2}, Map <- {"green", "cave"}, Cloud <- FALSE, MaxHP <- 2, MaxKills <- 1

ASSUME /\ \A s \in Arenas : Arena(s)!ArenaAssumption
       /\ \A s \in Duels : Duel(s)!DuelAssumption
       /\ Open!WorldAssumption /\ Boss!BossAssumption

Init == /\ system \in Arenas \cup Duels \cup {"open", "boss"}
        /\ CASE system = "crowd" -> Arena("crowd")!Init
             [] system = "failover" -> Arena("failover")!Init
             [] system = "loot" -> Arena("loot")!Init
             [] OTHER -> /\ Arena("failover")!Init
                         /\ npcs = [i \in {0} |-> [cell |-> 2, hp |-> 1]]
        /\ IF system = "duel" THEN Duel("duel")!Init ELSE Duel("lobby")!Init
        /\ Open!Init /\ Boss!Init

Others == /\ UNCHANGED system
          /\ system \notin Arenas => UNCHANGED arenaVars
          /\ system \notin Duels => UNCHANGED duelVars
          /\ system # "open" => UNCHANGED openVars
          /\ system # "boss" => UNCHANGED bossVars

Next == \/ \E s \in Arenas : system = s /\ Arena(s)!Next /\ Others
        \/ \E s \in Duels : system = s /\ Duel(s)!Next /\ Others
        \/ system = "open" /\ Open!Next /\ Others
        \/ system = "boss" /\ Boss!Next /\ Others

\* The fairness of each module's own Spec, to the world that runs.
ArenaFair == /\ WF_arenaVars(system = "crowd" /\ (Arena("crowd")!SpawnStep \/ Arena("crowd")!NpcStep))
             /\ \A u \in {1, 2} : /\ SF_arenaVars(system = "crowd" /\ Arena("crowd")!Refresh(u))
                                  /\ WF_arenaVars(system = "crowd" /\ Arena("crowd")!Pass(u))
OpenFair == /\ WF_openVars(system = "open" /\ Open!Tick)
            /\ \A p \in {p1, p2} :
                 /\ WF_openVars(system = "open" /\ Open!Handler(p))
                 /\ WF_openVars(system = "open" /\ \E x \in Open!Cell : Open!respawn(p, x))
            /\ \A i \in Open!Sender :
                 WF_openVars(system = "open" /\ \E p \in {p1, p2} : Open!SendRaw(i, p))
DuelFair == /\ WF_duelVars(system = "duel" /\ Duel("duel")!Server)
            /\ \A p \in {p1, p2} : /\ WF_duelVars(system = "duel" /\ Duel("duel")!Listen(p))
                                   /\ WF_duelVars(system = "duel" /\ Duel("duel")!Clear(p))
                                   /\ WF_duelVars(system = "duel" /\ Duel("duel")!Decide(p))
BossFair == /\ SF_bossVars(system = "boss" /\ Boss!Respawn)
            /\ \A p \in {p1, p2} : SF_bossVars(system = "boss" /\ Boss!Continue(p))

Spec == Init /\ [][Next]_all /\ ArenaFair /\ OpenFair /\ DuelFair /\ BossFair

\* The type invariants of the modules.
TypeOK == /\ \A s \in Arenas : system = s => Arena(s)!TypeOK
          /\ \A s \in Duels : system = s => Duel(s)!TypeOK
          /\ system = "open" => Open!TypeOK
          /\ system = "boss" => Boss!TypeOK

\* ArenaWorld.NoOverlap and Duel.Apart: no two of the living in one cell.
NoOverlap == /\ \A s \in Arenas : system = s => Arena(s)!NoOverlap
             /\ \A s \in Duels : system = s => Duel(s)!Apart

\* ArenaWorld.LootKept: no loot is lost or doubled.
LootKept == \A s \in Arenas : system = s => Arena(s)!LootKept

\* Duel.OneAction, OpenWorld.WillRespawn, WorldBoss.OneCooldown and Rewarded:
\* an action, a knock-down, a kill counts, and counts once.
CountedOnce == /\ \A s \in Duels : system = s => Duel(s)!OneAction
               /\ system = "open" => Open!WillRespawn
               /\ system = "boss" => Boss!OneCooldown /\ Boss!Rewarded

\* ArenaWorld.Revives, Duel.TurnsPass, WorldBoss.Returns and CommandsEnd, of
\* the i-th player; OpenWorld.Shows. Nobody is out of the game for ever.
Again(i) == CASE system = "crowd" -> ~Arena("crowd")!Down(i)
              [] system = "duel" -> phase # "turn" \/ turn # i
              [] system = "boss" -> boss.alive /\ cmd[IF i = 1 THEN p1 ELSE p2] = "idle"
              [] OTHER -> TRUE
GoesOn == /\ \A i \in {1, 2} : []<>Again(i)
          /\ <>[](system = "open" => Open!Told)
=============================================================================
