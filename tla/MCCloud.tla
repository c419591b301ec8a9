-------------------------------- MODULE MCCloud -----------------------------
(* The parts of Lab4's services that replicas share, each on its own:        *)
(* `system` names the one that runs, and the others stay as they start. The  *)
(* constants of the configuration are those of RedisLease.                   *)
EXTENDS RedisLease

VARIABLES system,
          \* ConfigMapLease
          cmHolder, cmLeft, fresh, cmStage, cmPc, cmEligible, wants, tries, cmRun, cmAge,
          cmLeader, late, wrote, missed, cmTrouble,
          \* MapFailover
          store, world, mode, mapLeader, released, polled, mapLoop, final, order, acked, budget,
          \* WorldBoss
          boss, sleepers, bossMu, readers, place, body, cmd, toMap, plan, seen, kills, struck,
          due, paid, moved

config == <<cmHolder, cmLeft, fresh, cmStage, cmPc, cmEligible, wants, tries, cmRun, cmAge,
            cmLeader, late, wrote, missed, cmTrouble>>
maps   == <<store, world, mode, mapLeader, released, polled, mapLoop, final, order, acked, budget>>
fight  == <<boss, sleepers, bossMu, readers, place, body, cmd, toMap, plan, seen, kills, struck,
            due, paid, moved>>
all    == <<system, vars, config, maps, fight>>

Kube == INSTANCE ConfigMapLease WITH
          MaxTries <- 2, holder <- cmHolder, left <- cmLeft, stage <- cmStage, pc <- cmPc,
          eligible <- cmEligible, run <- cmRun, age <- cmAge, leader <- cmLeader,
          trouble <- cmTrouble
Crashes == INSTANCE MapFailover WITH
             Commands <- {1, 2}, MaxDrains <- 0, MaxCrashes <- 1, MaxFails <- 0,
             leader <- mapLeader, loop <- mapLoop, cmd <- order, left <- budget
Drains == INSTANCE MapFailover WITH
            Commands <- {1}, MaxDrains <- 1, MaxCrashes <- 1, MaxFails <- 0,
            leader <- mapLeader, loop <- mapLoop, cmd <- order, left <- budget
Boss == INSTANCE WorldBoss WITH
          User <- Pod, Map <- {"green", "cave"}, Cloud <- TRUE, MaxHP <- 2, MaxKills <- 1

ASSUME /\ LeaseAssumption /\ Kube!LeaseAssumption /\ Boss!BossAssumption
       /\ Crashes!FailoverAssumption /\ Drains!FailoverAssumption

EachInit == /\ system \in {"redis", "kube", "crashes", "drains", "boss"}
            /\ Init /\ Kube!Init /\ Boss!Init
            /\ IF system = "drains" THEN Drains!Init ELSE Crashes!Init

RedisOnly == system = "redis" /\ UNCHANGED <<system, config, maps, fight>>
KubeOnly  == system = "kube" /\ UNCHANGED <<system, vars, maps, fight>>
CrashOnly == system = "crashes" /\ UNCHANGED <<system, vars, config, fight>>
DrainOnly == system = "drains" /\ UNCHANGED <<system, vars, config, fight>>
BossOnly  == system = "boss" /\ UNCHANGED <<system, vars, config, maps>>

EachNext == \/ RedisOnly /\ Next
            \/ KubeOnly /\ Kube!Next
            \/ CrashOnly /\ Crashes!Next
            \/ DrainOnly /\ Drains!Next
            \/ BossOnly /\ Boss!Next

EachSpec == /\ EachInit /\ [][EachNext]_all
            /\ WF_all(RedisOnly /\ Tick)
            /\ \A p \in Pod :
                 /\ WF_all(RedisOnly /\ Refresh(p))
                 /\ WF_all(CrashOnly /\ Crashes!Loop(p)) /\ WF_all(CrashOnly /\ Crashes!Lead(p))
                 /\ WF_all(DrainOnly /\ Drains!Loop(p)) /\ WF_all(DrainOnly /\ Drains!Drain(p))
                 /\ WF_all(DrainOnly /\ Drains!Lead(p))
            /\ WF_all(DrainOnly /\ Drains!Serve(1))
            /\ \A c \in {1, 2} : WF_all(CrashOnly /\ Crashes!Serve(c))

EachTypeOK == CASE system = "redis" -> TypeOK
                [] system = "kube" -> Kube!TypeOK
                [] system = "crashes" -> Crashes!TypeOK
                [] system = "drains" -> Drains!TypeOK
                [] system = "boss" -> Boss!TypeOK

\* OneLeader of RedisLease is checked as it is: its variables stay as they
\* start while another system runs.

\* ConfigMapLease.OneKubeLeader.
OneKubeLeader == Kube!OneKubeLeader
\* WorldBoss.Rewarded, SeenWhole and OneCooldown, with rewards that are paid
\* after the lock.
Rewarded == Boss!Rewarded /\ Boss!SeenWhole /\ Boss!OneCooldown
\* MapFailover.KeepsSafe: what was acknowledged and saved survives.
Durable == [][/\ system = "crashes" => Crashes!KeepsSafe
              /\ system = "drains" => Drains!KeepsSafe]_all
\* RedisLease.Settles and MapFailover.CatchesUp.
EachSettling == CASE system = "redis" -> Settling
                  [] system \in {"crashes", "drains"} -> mapLeader # None
                  [] OTHER -> FALSE
EachSettled == CASE system = "redis" -> Settled
                 [] system = "crashes" -> Crashes!CaughtUp
                 [] system = "drains" -> Drains!CaughtUp
                 [] OTHER -> TRUE
EachSettles == <>[]EachSettling => <>[]EachSettled
=============================================================================
