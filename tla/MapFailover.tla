---------------------------- MODULE MapFailover -----------------------------
(* The replicas of one Lab4 map server and the checkpoint they share.        *)
(*   src/Lab/Lab4/cmd/cloud-map/main.go   main, redisCheckpointLoop          *)
(*   src/Lab/Lab4/cloud/mapservice.go     handleMap, afterMutationHook       *)
(* The leader carries out the commands and writes the checkpoint after each  *)
(* of them, every two seconds and before it drains; the others restore it    *)
(* every two seconds. A world is the set of the commands that it shows, and  *)
(* so is a checkpoint of it. A checkpoint is captured in one step and        *)
(* written in a later one. Who leads is RedisLease's matter: here one pod at *)
(* a time, until it crashes or gives the lease up.                           *)
EXTENDS Naturals, FiniteSets

CONSTANTS Pod, None,
          Commands,     \* the commands that players give, each once
          MaxDrains, MaxCrashes, MaxFails   \* bounds

FailoverAssumption == /\ None \notin Pod
                      /\ MaxDrains \in Nat /\ MaxCrashes \in Nat /\ MaxFails \in Nat

VARIABLES store,     \* the checkpoint in Redis
          world,     \* the world of each pod
          mode,      \* up, draining, drained (no longer eligible) or down
          leader,    \* who holds the lease
          released,  \* the lease was deleted, it did not expire
          polled,    \* pods that restored since the last leader crashed
          loop,      \* what redisCheckpointLoop does: [pc, copy]
          final,     \* what beginDrain does: [pc, copy]
          cmd,       \* where each command is: [pc, pod, copy]
          acked,     \* commands whose answer was sent
          left       \* bounds: what may still happen

vars == <<store, world, mode, leader, released, polled, loop, final, cmd, acked, left>>

Copies  == SUBSET Commands
Idle    == [pc |-> "idle", copy |-> {}]
NotSent == [pc |-> "new", pod |-> None, copy |-> {}]
Done    == [pc |-> "done", pod |-> None, copy |-> {}]

TypeOK == /\ store \in Copies /\ world \in [Pod -> Copies] /\ acked \in Copies
          /\ mode \in [Pod -> {"up", "draining", "drained", "down"}]
          /\ leader \in Pod \cup {None} /\ released \in BOOLEAN /\ polled \subseteq Pod
          /\ loop \in [Pod -> [pc : {"idle", "set", "restore"}, copy : Copies]]
          /\ final \in [Pod -> [pc : {"idle", "set"}, copy : Copies]]
          /\ cmd \in [Commands -> [pc : {"new", "save", "set", "answer", "done"},
                                   pod : Pod \cup {None}, copy : Copies]]
          /\ left \in [drains : 0..MaxDrains, crashes : 0..MaxCrashes, fails : 0..MaxFails]

Init == /\ store = {} /\ world = [p \in Pod |-> {}] /\ acked = {}
        /\ mode = [p \in Pod |-> "up"] /\ leader = None /\ released = TRUE /\ polled = {}
        /\ loop = [p \in Pod |-> Idle] /\ final = [p \in Pod |-> Idle]
        /\ cmd = [c \in Commands |-> NotSent]
        /\ left = [drains |-> MaxDrains, crashes |-> MaxCrashes, fails |-> MaxFails]

Runs(p) == mode[p] # "down"

(* ------------------------------ commands ------------------------------- *)

\* handleMap on the leader: the world changes under its lock.
Mutate(c) ==
  /\ cmd[c].pc = "new" /\ leader # None
  /\ world' = [world EXCEPT ![leader] = @ \cup {c}]
  /\ cmd' = [cmd EXCEPT ![c] = [pc |-> "save", pod |-> leader, copy |-> {}]]
  /\ UNCHANGED <<store, mode, leader, released, polled, loop, final, acked, left>>
\* afterMutationHook: when the pod still leads, the world is captured,
Capture(c) ==
  /\ cmd[c].pc = "save"
  /\ cmd' = [cmd EXCEPT ![c].pc = IF leader = cmd[c].pod THEN "set" ELSE "answer",
                        ![c].copy = IF leader = cmd[c].pod THEN world[leader] ELSE {}]
  /\ UNCHANGED <<store, world, mode, leader, released, polled, loop, final, acked, left>>
\* and written.
Save(c) ==
  /\ cmd[c].pc = "set" /\ store' = cmd[c].copy
  /\ cmd' = [cmd EXCEPT ![c].pc = "answer", ![c].copy = {}]
  /\ UNCHANGED <<world, mode, leader, released, polled, loop, final, acked, left>>
Answer(c) ==
  /\ cmd[c].pc = "answer" /\ acked' = acked \cup {c} /\ cmd' = [cmd EXCEPT ![c] = Done]
  /\ UNCHANGED <<store, world, mode, leader, released, polled, loop, final, left>>

(* ------------------------- redisCheckpointLoop ------------------------- *)

Quiet == UNCHANGED <<mode, leader, released, final, cmd, acked>>

\* The ticker fires: a leader captures its world, any other pod asks Redis.
LoopTick_SavesOnly(p) ==
  /\ Runs(p) /\ loop[p].pc = "idle" /\ leader # p
  /\ loop' = [loop EXCEPT ![p] = [pc |-> "restore", copy |-> store]]
  /\ Quiet /\ UNCHANGED <<store, world, polled, left>>
LoopTick(p) ==
  /\ Runs(p) /\ loop[p].pc = "idle"
  /\ loop' = [loop EXCEPT ![p] = IF leader = p THEN [pc |-> "set", copy |-> world[p]]
                                 ELSE [pc |-> "restore", copy |-> store]]
  /\ Quiet /\ UNCHANGED <<store, world, polled, left>>
LoopSet(p) ==
  /\ Runs(p) /\ loop[p].pc = "set" /\ store' = loop[p].copy
  /\ loop' = [loop EXCEPT ![p] = Idle]
  /\ Quiet /\ UNCHANGED <<world, polled, left>>
LoopRestore(p) ==
  /\ Runs(p) /\ loop[p].pc = "restore" /\ world' = [world EXCEPT ![p] = loop[p].copy]
  /\ loop' = [loop EXCEPT ![p] = Idle] /\ polled' = polled \cup {p}
  /\ Quiet /\ UNCHANGED <<store, left>>
\* Redis does not answer: the error is dropped until the next tick.
LoopFails(p) ==
  /\ Runs(p) /\ loop[p].pc # "idle" /\ left.fails > 0
  /\ loop' = [loop EXCEPT ![p] = Idle] /\ left' = [left EXCEPT !.fails = @ - 1]
  /\ Quiet /\ UNCHANGED <<store, world, polled>>

(* ---------------------- draining, crash and takeover ------------------- *)

\* beginDrain: the last checkpoint of a leader first, then draining.
BeginDrain(p) ==
  /\ mode[p] = "up" /\ left.drains > 0
  /\ left' = [left EXCEPT !.drains = @ - 1] /\ mode' = [mode EXCEPT ![p] = "draining"]
  /\ final' = [final EXCEPT ![p] = IF leader = p THEN [pc |-> "set", copy |-> world[p]]
                                   ELSE Idle]
  /\ UNCHANGED <<store, world, leader, released, polled, loop, cmd, acked>>
FinalSet(p) ==
  /\ final[p].pc = "set" /\ store' = final[p].copy /\ final' = [final EXCEPT ![p] = Idle]
  /\ UNCHANGED <<world, mode, leader, released, polled, loop, cmd, acked, left>>
\* The next refresh deletes the lease.
Release(p) ==
  /\ mode[p] = "draining" /\ final[p].pc = "idle" /\ mode' = [mode EXCEPT ![p] = "drained"]
  /\ leader' = (IF leader = p THEN None ELSE leader)
  /\ released' = (released \/ leader = p)
  /\ UNCHANGED <<store, world, polled, loop, final, cmd, acked, left>>

\* The process ends; commands on their way die with it. A leader's lease runs
\* on for its rest of TTL.
Crash(p) ==
  /\ Runs(p) /\ left.crashes > 0
  /\ left' = [left EXCEPT !.crashes = @ - 1] /\ mode' = [mode EXCEPT ![p] = "down"]
  /\ loop' = [loop EXCEPT ![p] = Idle] /\ final' = [final EXCEPT ![p] = Idle]
  /\ cmd' = [c \in Commands |-> IF cmd[c].pod = p THEN Done ELSE cmd[c]]
  /\ leader' = (IF leader = p THEN None ELSE leader)
  /\ released' = (released /\ leader # p)
  /\ polled' = IF leader = p THEN {} ELSE polled \ {p}
  /\ world' = [world EXCEPT ![p] = {}]
  /\ UNCHANGED <<store, acked>>
\* main restores the checkpoint before it serves; an error is dropped.
Restart_Empty(p) ==
  /\ mode[p] = "down" /\ mode' = [mode EXCEPT ![p] = "up"]
  /\ UNCHANGED <<world, polled, left>>
  /\ UNCHANGED <<store, leader, released, loop, final, cmd, acked>>
Restart(p) ==
  /\ mode[p] = "down" /\ mode' = [mode EXCEPT ![p] = "up"]
  /\ \/ world' = [world EXCEPT ![p] = store] /\ polled' = polled \cup {p} /\ UNCHANGED left
     \/ /\ left.fails > 0 /\ left' = [left EXCEPT !.fails = @ - 1] /\ UNCHANGED <<world, polled>>
  /\ UNCHANGED <<store, leader, released, loop, final, cmd, acked>>

\* A refresh takes the free lease. One that expired was held for TTL after
\* its last renewal, and the loop comes round every two seconds in that time.
Lead(p) ==
  /\ mode[p] = "up" /\ leader = None /\ (released \/ p \in polled)
  /\ leader' = p
  /\ UNCHANGED <<store, world, mode, released, polled, loop, final, cmd, acked, left>>

Serve(c) == Capture(c) \/ Save(c) \/ Answer(c)
Loop(p) == LoopTick(p) \/ LoopSet(p) \/ LoopRestore(p)
Drain(p) == FinalSet(p) \/ Release(p)
Next == \/ \E c \in Commands : Mutate(c) \/ Serve(c)
        \/ \E p \in Pod : \/ Loop(p) \/ LoopFails(p) \/ BeginDrain(p) \/ Drain(p)
                          \/ Crash(p) \/ Restart(p) \/ Lead(p)

\* The tickers and the HTTP server go on.
Fairness == /\ \A p \in Pod : WF_vars(Loop(p)) /\ WF_vars(Drain(p)) /\ WF_vars(Lead(p))
            /\ \A c \in Commands : WF_vars(Serve(c))
Spec == Init /\ [][Next]_vars
FairSpec == Spec /\ Fairness

(* ----------------------------- properties ------------------------------ *)

\* A command is safe when every copy of the world that may still be written
\* or restored shows it.
Safe(c) == /\ c \in store
           /\ \A p \in Pod : /\ Runs(p) => c \in world[p]
                             /\ loop[p].pc # "idle" => c \in loop[p].copy
                             /\ final[p].pc # "idle" => c \in final[p].copy
           /\ \A d \in Commands : cmd[d].pc = "set" => c \in cmd[d].copy
\* A safe command is never lost again: not by a crash, not by a pod that
\* takes over, not by a checkpoint that is written late.
KeepsSafe == \A c \in Commands : Safe(c) => Safe(c)'
Durable == [][KeepsSafe]_vars

\* A checkpoint that was overwritten by an older one is mended by the loop:
\* while one pod leads and no command is given, the checkpoint and the worlds
\* of the others come to show what the leader's world shows.
CaughtUp == /\ leader # None /\ store = world[leader]
            /\ \A q \in Pod : Runs(q) => world[q] = world[leader]
CatchesUp == <>[](leader # None) => <>[]CaughtUp
=============================================================================
