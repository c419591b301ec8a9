------------------------------ MODULE WorldBoss ------------------------------
(* The world boss: one monster with an image on every map, its fall and the  *)
(* rewards of those who struck it.                                           *)
(*   src/Lab/Lab4/cloud/coordinator.go           AttackBoss (Cloud)          *)
(*   src/Lab/Lab3/student/cluster/cluster.go     AttackBoss (~Cloud)         *)
(* Lab4 keeps the boss under c.mu and pays the rewards over HTTP after it    *)
(* let go of c.mu; Lab3 has a mutex of the boss, boss.mu, takes c.mu inside  *)
(* it and pays under both. A player is paid in the map its session names,    *)
(* and SwitchMap and Logout change session and world one after the other.    *)
(* Damage is counted in strikes of one or two; what is stored of a player is *)
(* SessionRouting's and ClusterSessions' matter.                             *)
EXTENDS Naturals, FiniteSets

CONSTANTS User, Map, None,
          Cloud,      \* TRUE: Lab4, FALSE: Lab3
          MaxHP,      \* strikes that the boss bears
          MaxKills    \* bound: strikes begin while it fell less often

BossAssumption == /\ None \notin Map \cup User /\ Cloud \in BOOLEAN
                  /\ MaxHP \in Nat \ {0} /\ MaxKills \in Nat

VARIABLES boss,       \* [hp, alive, hitters]: HP, Alive, Contributors
          sleepers,   \* goroutines in respawnBossAfterCooldown
          bossMu,     \* Lab3: the player whose command holds boss.mu
          readers,    \* the players whose commands hold c.mu.RLock
          place,      \* the map of each player's session, None without one
          body,       \* the map whose world has the player
          cmd,        \* where each player's command is
          toMap,      \* the target of its SwitchMap
          plan,       \* Lab4: rewards still to be paid, by the map planned
          seen,       \* the boss in the snapshot that each player is sent
          kills,      \* history: the boss fell so often
          struck,     \* history: who struck the boss in its present life
          due, paid,  \* history: kills each player had a hand in; rewards
          moved       \* history: left its place after its last strike

life    == <<boss, sleepers, kills>>
whereis == <<place, body, toMap>>
scores  == <<struck, due, paid, moved>>
vars    == <<life, bossMu, readers, whereis, cmd, plan, seen, scores>>

Fresh == [hp |-> MaxHP, alive |-> TRUE, hitters |-> {}]
Seen  == [hp : 0..MaxHP, alive : BOOLEAN]
Unseen == [hp |-> MaxHP, alive |-> TRUE]

TypeOK == /\ boss \in [hp : 0..MaxHP, alive : BOOLEAN, hitters : SUBSET User]
          /\ sleepers \in 0..Cardinality(User)
          /\ bossMu \in User \cup {None} /\ readers \subseteq User
          /\ place \in [User -> Map \cup {None}] /\ body \in [User -> Map \cup {None}]
          /\ cmd \in [User -> {"idle", "strike", "tell", "settle", "pay", "away", "enter",
                               "leave", "join", "snapshot", "view", "reply"}]
          /\ toMap \in [User -> Map \cup {None}]
          /\ DOMAIN plan \subseteq User /\ \A u \in DOMAIN plan : plan[u] \in Map
          /\ seen \in [User -> Seen]
          /\ struck \subseteq User /\ kills \in 0..MaxKills + Cardinality(User)
          /\ due \in [User -> Nat] /\ paid \in [User -> Nat] /\ moved \in [User -> BOOLEAN]

Init == /\ boss = Fresh /\ sleepers = 0 /\ kills = 0 /\ struck = {}
        /\ bossMu = None /\ readers = {}
        /\ place = [u \in User |-> None] /\ body = place /\ toMap = place
        /\ cmd = [u \in User |-> "idle"] /\ plan = [u \in {} |-> None]
        /\ seen = [u \in User |-> Unseen]
        /\ due = [u \in User |-> 0] /\ paid = due /\ moved = [u \in User |-> FALSE]

Goto(u, step) == cmd' = [cmd EXCEPT ![u] = step]
Stands(u)     == place[u] # None /\ body[u] = place[u]
FreeC         == readers = {}        \* c.mu.Lock succeeds

(* ------------------------------ AttackBoss ----------------------------- *)

\* The session, the profile and the site are read; a strike comes of it when
\* the player is alive and near.
AttackBoss(u) ==
  /\ cmd[u] = "idle" /\ Stands(u) /\ kills < MaxKills /\ Goto(u, "strike")
  /\ UNCHANGED <<life, bossMu, readers, whereis, plan, seen, scores>>

Wounded(d) == IF boss.hp > d THEN boss.hp - d ELSE 0
Hitters(u) == boss.hitters \cup {u}
Strikes(u) == struck' = struck \cup {u} /\ moved' = [moved EXCEPT ![u] = FALSE]
\* A life of the boss ends.
Felled == /\ kills' = kills + 1
          /\ due' = [v \in User |-> IF v \in struck' THEN due[v] + 1 ELSE due[v]]

\* Lab4: all under c.mu. The fall clears the contributors and plans a reward
\* for each who has a session, in the map where the session is now.
Strike(u, d) ==
  /\ Cloud /\ cmd[u] = "strike" /\ FreeC
  /\ IF boss.alive
     THEN /\ boss' = [hp |-> Wounded(d), alive |-> Wounded(d) > 0,
                      hitters |-> IF Wounded(d) > 0 THEN Hitters(u) ELSE {}]
          /\ Strikes(u)
          /\ IF Wounded(d) > 0
             THEN Goto(u, "snapshot") /\ UNCHANGED <<plan, kills, due>>
             ELSE /\ Goto(u, "pay") /\ Felled
                  /\ plan' = [v \in {w \in Hitters(u) : place[w] # None} |-> place[v]]
     ELSE Goto(u, "snapshot") /\ UNCHANGED <<boss, plan, kills, struck, due, moved>>
  /\ UNCHANGED <<sleepers, bossMu, readers, whereis, seen, paid>>

\* RewardPlayer of one contributor: an error means no reward.
Pay(u, v) ==
  /\ cmd[u] = "pay" /\ v \in DOMAIN plan
  /\ plan' = [w \in DOMAIN plan \ {v} |-> plan[w]]
  /\ paid' = IF body[v] = plan[v] THEN [paid EXCEPT ![v] = @ + 1] ELSE paid
  /\ UNCHANGED <<life, bossMu, readers, whereis, cmd, seen, struck, due, moved>>
AllPaid(u) ==
  /\ cmd[u] = "pay" /\ plan = [v \in {} |-> None]
  /\ sleepers' = sleepers + 1 /\ Goto(u, "snapshot")
  /\ UNCHANGED <<boss, kills, bossMu, readers, whereis, plan, seen, scores>>

\* Lab3: boss.mu is taken; HP, LastHit and Contributors change, then c.mu is
\* taken for the broadcast and let go, and only then is the boss dead.
Hit_Unchecked(u, d) ==
  /\ ~Cloud /\ cmd[u] = "strike" /\ bossMu = None
  /\ bossMu' = u /\ Goto(u, "tell") /\ Strikes(u)
  /\ boss' = [boss EXCEPT !.hp = Wounded(d), !.hitters = Hitters(u)]
  /\ UNCHANGED <<sleepers, kills, readers, whereis, plan, seen, due, paid>>
Hit(u, d) ==
  /\ ~Cloud /\ cmd[u] = "strike" /\ bossMu = None
  /\ IF boss.alive
     THEN /\ bossMu' = u /\ Goto(u, "tell") /\ Strikes(u)
          /\ boss' = [boss EXCEPT !.hp = Wounded(d), !.hitters = Hitters(u)]
     ELSE Goto(u, "snapshot") /\ UNCHANGED <<boss, bossMu, struck, moved>>
  /\ UNCHANGED <<sleepers, kills, readers, whereis, plan, seen, due, paid>>
Tell(u) ==
  /\ cmd[u] = "tell" /\ FreeC /\ UNCHANGED struck
  /\ IF boss.hp = 0
     THEN /\ Goto(u, "settle") /\ boss' = [boss EXCEPT !.alive = FALSE]
          /\ Felled /\ UNCHANGED bossMu
     ELSE Goto(u, "snapshot") /\ bossMu' = None /\ UNCHANGED <<boss, kills, due>>
  /\ UNCHANGED <<sleepers, readers, whereis, plan, seen, paid, moved>>
\* Under c.mu: each contributor with a session is paid where it stands.
Settle_LastHitOnly(u) ==
  /\ cmd[u] = "settle" /\ FreeC /\ bossMu' = None
  /\ paid' = [paid EXCEPT ![u] = IF Stands(u) THEN @ + 1 ELSE @]
  /\ sleepers' = sleepers + 1 /\ Goto(u, "snapshot")
  /\ UNCHANGED <<boss, kills, readers, whereis, plan, seen, struck, due, moved>>
Settle_NoRespawn(u) ==
  /\ cmd[u] = "settle" /\ FreeC /\ bossMu' = None
  /\ paid' = [v \in User |-> IF v \in boss.hitters /\ Stands(v) THEN paid[v] + 1 ELSE paid[v]]
  /\ Goto(u, "snapshot")
  /\ UNCHANGED <<boss, kills, sleepers, readers, whereis, plan, seen, struck, due, moved>>
Settle(u) ==
  /\ cmd[u] = "settle" /\ FreeC /\ bossMu' = None
  /\ paid' = [v \in User |-> IF v \in boss.hitters /\ Stands(v) THEN paid[v] + 1 ELSE paid[v]]
  /\ sleepers' = sleepers + 1 /\ Goto(u, "snapshot")
  /\ UNCHANGED <<boss, kills, readers, whereis, plan, seen, struck, due, moved>>

\* The cooldown is over.
Respawn_KeepsContributors ==
  /\ sleepers > 0 /\ (IF Cloud THEN FreeC ELSE bossMu = None)
  /\ boss' = [Fresh EXCEPT !.hitters = boss.hitters]
  /\ sleepers' = sleepers - 1 /\ struck' = {}
  /\ UNCHANGED <<kills, bossMu, readers, whereis, cmd, plan, seen, due, paid, moved>>
Respawn_Unlocked ==
  /\ sleepers > 0 /\ boss' = Fresh /\ sleepers' = sleepers - 1 /\ struck' = {}
  /\ UNCHANGED <<kills, bossMu, readers, whereis, cmd, plan, seen, due, paid, moved>>
Respawn ==
  /\ sleepers > 0 /\ (IF Cloud THEN FreeC ELSE bossMu = None)
  /\ boss' = Fresh /\ sleepers' = sleepers - 1 /\ struck' = {}
  /\ UNCHANGED <<kills, bossMu, readers, whereis, cmd, plan, seen, due, paid, moved>>

(* ------------------------ snapshots of the boss ------------------------ *)

\* SnapshotFor ends every command: viewLocked is called under c.mu.RLock.
\* Lab3 reads HP and later Alive without boss.mu, while they may change.
Snapshot(u) ==
  /\ cmd[u] = "snapshot"
  /\ IF place[u] = None THEN Goto(u, "idle") /\ UNCHANGED <<readers, seen>>
     ELSE /\ Goto(u, "view") /\ readers' = readers \cup {u}
          /\ seen' = [seen EXCEPT ![u].hp = boss.hp]
  /\ UNCHANGED <<life, bossMu, whereis, plan, scores>>
View_TakesBossMu(u) ==
  /\ cmd[u] = "view" /\ bossMu = None
  /\ seen' = [seen EXCEPT ![u].alive = boss.alive]
  /\ readers' = readers \ {u} /\ Goto(u, "reply")
  /\ UNCHANGED <<life, bossMu, whereis, plan, scores>>
View(u) ==
  /\ cmd[u] = "view"
  /\ seen' = [seen EXCEPT ![u].alive = boss.alive]
  /\ readers' = readers \ {u} /\ Goto(u, "reply")
  /\ UNCHANGED <<life, bossMu, whereis, plan, scores>>

\* The answer is sent: the snapshot is the client's.
Reply(u) ==
  /\ cmd[u] = "reply" /\ Goto(u, "idle")
  /\ seen' = [seen EXCEPT ![u] = Unseen]
  /\ UNCHANGED <<life, bossMu, readers, whereis, plan, scores>>

(* ------------------------ where the players are ------------------------ *)

Rest(u) == UNCHANGED <<life, bossMu, readers, plan, seen, struck, due, paid>>
Leaves(u) == moved' = [moved EXCEPT ![u] = TRUE]

\* SwitchMap: RemovePlayer, AddPlayer, then the session.
SwitchMap(u, m) ==
  /\ cmd[u] = "idle" /\ Stands(u) /\ m # place[u] /\ Leaves(u)
  /\ toMap' = [toMap EXCEPT ![u] = m] /\ body' = [body EXCEPT ![u] = None]
  /\ Goto(u, "away") /\ Rest(u) /\ UNCHANGED place
Arrive(u) == /\ cmd[u] = "away" /\ body' = [body EXCEPT ![u] = toMap[u]]
             /\ Goto(u, "enter") /\ Rest(u) /\ UNCHANGED <<place, toMap, moved>>
Enter(u) == /\ cmd[u] = "enter" /\ FreeC /\ place' = [place EXCEPT ![u] = toMap[u]]
            /\ toMap' = [toMap EXCEPT ![u] = None]
            /\ Goto(u, "snapshot") /\ Rest(u) /\ UNCHANGED <<body, moved>>
\* Logout: the session, then RemovePlayer. Login: AddPlayer, then the session.
Logout(u) == /\ cmd[u] = "idle" /\ Stands(u) /\ FreeC /\ Leaves(u)
             /\ place' = [place EXCEPT ![u] = None]
             /\ Goto(u, "leave") /\ Rest(u) /\ UNCHANGED <<body, toMap>>
Gone(u) == /\ cmd[u] = "leave" /\ body' = [body EXCEPT ![u] = None]
           /\ Goto(u, "idle") /\ Rest(u) /\ UNCHANGED <<place, toMap, moved>>
Login(u, m) == /\ cmd[u] = "idle" /\ place[u] = None /\ body[u] = None
               /\ toMap' = [toMap EXCEPT ![u] = m] /\ body' = [body EXCEPT ![u] = m]
               /\ Goto(u, "join") /\ Rest(u) /\ UNCHANGED <<place, moved>>
Join(u) == /\ cmd[u] = "join" /\ FreeC /\ place' = [place EXCEPT ![u] = toMap[u]]
           /\ toMap' = [toMap EXCEPT ![u] = None]
           /\ Goto(u, "snapshot") /\ Rest(u) /\ UNCHANGED <<body, moved>>

\* A command that runs goes on; whether one is given is up to the player.
Continue(u) ==
  \/ \E d \in 1..2 : Strike(u, d) \/ Hit(u, d)
  \/ \E v \in User : Pay(u, v)
  \/ AllPaid(u) \/ Tell(u) \/ Settle(u) \/ Snapshot(u) \/ View(u) \/ Reply(u)
  \/ Arrive(u) \/ Enter(u) \/ Gone(u) \/ Join(u)
Begin(u) == \/ AttackBoss(u) \/ Logout(u)
            \/ \E m \in Map : SwitchMap(u, m) \/ Login(u, m)

Next == (\E u \in User : Begin(u) \/ Continue(u)) \/ Respawn

\* Requests are carried out; sync.RWMutex lets no one starve; the cooldown ends.
Fairness == SF_vars(Respawn) /\ \A u \in User : SF_vars(Continue(u))
Spec == Init /\ [][Next]_vars
FairSpec == Spec /\ Fairness

(* ------------------------------ properties ----------------------------- *)

\* A cooldown runs for a boss that fell, and for no other: it never sends the
\* boss back to full health in a fight.
OneCooldown == sleepers > 0 => ~boss.alive

\* Nobody is paid more than once for a kill, or for one it had no hand in; and
\* once the first kill is settled, whoever had a hand in it and stayed in its
\* place since its last strike has been paid.
Rewarded == \A u \in User :
              /\ paid[u] <= due[u]
              /\ (sleepers = 1 /\ kills = 1 /\ ~moved[u]) => paid[u] = due[u]

\* A snapshot shows no living boss without health.
SeenWhole == \A u \in User : cmd[u] = "reply" => (seen[u].alive => seen[u].hp > 0)

\* The boss comes back, and every command ends.
Returns == ~boss.alive ~> boss.alive
CommandsEnd == \A u \in User : cmd[u] # "idle" ~> cmd[u] = "idle"
=============================================================================
