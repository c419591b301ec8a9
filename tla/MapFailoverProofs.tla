-------------------------- MODULE MapFailoverProofs --------------------------
(***************************************************************************)
(* Proofs about MapFailover, for any pods, commands and bounds: which      *)
(* commands can be lost again, and by what; and, in the second part, about *)
(* WorldBoss: who is paid for the boss, and when it comes back.            *)
(***************************************************************************)
EXTENDS MapFailover, TLAPS

\* The pod that leads runs, and a command that is being saved has a pod.
LeaderRuns == leader # None => Runs(leader)
Served == \A c \in Commands : cmd[c].pc \in {"save", "set"} => cmd[c].pod \in Pod

\* The inductive invariant.
IInv == TypeOK /\ LeaderRuns /\ Served

\* What the loops, the drains and the commands keep.
LoopState  == [pc : {"idle", "set", "restore"}, copy : Copies]
FinalState == [pc : {"idle", "set"}, copy : Copies]
CmdState   == [pc : {"new", "save", "set", "answer", "done"}, pod : Pod \cup {None}, copy : Copies]
Bounds     == [drains : 0..MaxDrains, crashes : 0..MaxCrashes, fails : 0..MaxFails]

\* A bound that is not used up can be used.
LEMMA Spent ==
    ASSUME FailoverAssumption, TypeOK
    PROVE  /\ left.drains > 0 => [left EXCEPT !.drains = @ - 1] \in Bounds
           /\ left.crashes > 0 => [left EXCEPT !.crashes = @ - 1] \in Bounds
           /\ left.fails > 0 => [left EXCEPT !.fails = @ - 1] \in Bounds
<1>1. left \in Bounds
    BY DEF TypeOK, Bounds
<1>2. /\ left.drains > 0 => left.drains - 1 \in 0..MaxDrains
      /\ left.crashes > 0 => left.crashes - 1 \in 0..MaxCrashes
      /\ left.fails > 0 => left.fails - 1 \in 0..MaxFails
    BY <1>1 DEF Bounds, FailoverAssumption
<1> QED BY <1>1, <1>2 DEF Bounds

-----------------------------------------------------------------------------
\* The start.
LEMMA InitIInv == ASSUME FailoverAssumption, Init PROVE IInv
<1>1. Idle \in LoopState /\ Idle \in FinalState /\ NotSent \in CmdState
    BY DEF Idle, NotSent, LoopState, FinalState, CmdState, Copies
<1>2. TypeOK
    BY <1>1 DEF Init, TypeOK, FailoverAssumption, Copies, LoopState, FinalState, CmdState
<1>3. Served
    BY DEF Init, Served, NotSent
<1> QED BY <1>2, <1>3 DEF IInv, LeaderRuns, Init

\* The commands.
LEMMA CommandInv ==
    ASSUME FailoverAssumption, IInv, NEW c \in Commands, Mutate(c) \/ Serve(c)
    PROVE  IInv'
<1> USE DEF IInv, TypeOK, Copies
<1>1. UNCHANGED <<mode, leader, released, polled, loop, final, left>>
    BY DEF Mutate, Serve, Capture, Save, Answer
<1>2. cmd \in [Commands -> CmdState] /\ cmd[c] \in CmdState
    BY DEF CmdState
<1>3. /\ world' \in [Pod -> SUBSET Commands]
      /\ store' \in SUBSET Commands /\ acked' \in SUBSET Commands
      /\ cmd' \in [Commands -> CmdState]
      /\ cmd'[c].pc \in {"save", "set"} => cmd'[c].pod \in Pod
      /\ \A d \in Commands \ {c} : cmd'[d] = cmd[d]
    <2>1. CASE Mutate(c)
        BY <1>2, <2>1 DEF Mutate, CmdState
    <2>2. CASE Capture(c)
        <3>1. cmd[c].pod \in Pod
            BY <2>2 DEF Capture, Served
        <3>2. PICK step \in {"set", "answer"}, copy \in Copies :
                 cmd' = [cmd EXCEPT ![c].pc = step, ![c].copy = copy]
            BY <2>2, <3>1 DEF Capture, FailoverAssumption
        <3>3. /\ cmd' \in [Commands -> CmdState] /\ cmd'[c].pod = cmd[c].pod
              /\ \A d \in Commands \ {c} : cmd'[d] = cmd[d]
            BY <1>2, <3>2 DEF CmdState
        <3> QED BY <2>2, <3>1, <3>3 DEF Capture
    <2>3. CASE Save(c)
        BY <1>2, <2>3 DEF Save, CmdState
    <2>4. CASE Answer(c)
        <3>1. Done \in CmdState /\ Done.pc = "done"
            BY DEF Done, CmdState
        <3> QED BY <1>2, <2>4, <3>1 DEF Answer
    <2> QED BY <2>1, <2>2, <2>3, <2>4 DEF Serve
<1>4. TypeOK'
    BY <1>1, <1>3 DEF CmdState
<1>5. LeaderRuns' /\ Served'
    BY <1>1, <1>3 DEF LeaderRuns, Served, Runs
<1> QED BY <1>4, <1>5

\* redisCheckpointLoop.
LEMMA LoopInv ==
    ASSUME FailoverAssumption, IInv, NEW p \in Pod, Loop(p) \/ LoopFails(p)
    PROVE  IInv'
<1> USE DEF IInv, TypeOK, Copies
<1>1. UNCHANGED <<mode, leader, released, final, cmd, acked>>
    BY DEF Loop, LoopTick, LoopSet, LoopRestore, LoopFails, Quiet
<1>2. /\ loop \in [Pod -> LoopState] /\ loop[p] \in LoopState /\ Idle \in LoopState
    BY DEF LoopState, Idle
<1>3. loop' \in [Pod -> LoopState]
    <2>1. CASE LoopTick(p)
        BY <1>2, <2>1 DEF LoopTick, LoopState
    <2>2. CASE LoopSet(p) \/ LoopRestore(p) \/ LoopFails(p)
        BY <1>2, <2>2 DEF LoopSet, LoopRestore, LoopFails
    <2> QED BY <2>1, <2>2 DEF Loop
<1>4. /\ store' \in SUBSET Commands /\ world' \in [Pod -> SUBSET Commands]
      /\ polled' \subseteq Pod
    BY <1>2 DEF Loop, LoopTick, LoopSet, LoopRestore, LoopFails, LoopState
<1>5. left' \in Bounds
    BY Spent DEF Loop, LoopTick, LoopSet, LoopRestore, LoopFails, Bounds
<1>6. TypeOK'
    BY <1>1, <1>3, <1>4, <1>5 DEF LoopState, Bounds
<1> QED BY <1>1, <1>6 DEF LeaderRuns, Served, Runs

\* Drains, crashes and the lease.
LEMMA LifeInv ==
    ASSUME FailoverAssumption, IInv, NEW p \in Pod,
           BeginDrain(p) \/ Drain(p) \/ Crash(p) \/ Restart(p) \/ Lead(p)
    PROVE  IInv'
<1> USE DEF IInv, TypeOK, Copies
<1>1. /\ Idle \in LoopState /\ Idle \in FinalState /\ Done \in CmdState
      /\ loop \in [Pod -> LoopState] /\ final \in [Pod -> FinalState]
      /\ cmd \in [Commands -> CmdState] /\ left \in Bounds
    BY DEF LoopState, FinalState, CmdState, Idle, Done, Bounds
<1>2. CASE BeginDrain(p)
    <2>1. UNCHANGED <<store, world, leader, released, polled, loop, cmd, acked>>
        BY <1>2 DEF BeginDrain
    <2>2. final' \in [Pod -> FinalState] /\ left' \in Bounds
        BY <1>1, <1>2, Spent DEF BeginDrain, FinalState
    <2>3. /\ mode' \in [Pod -> {"up", "draining", "drained", "down"}]
          /\ \A q \in Pod : Runs(q) => Runs(q)'
        BY <1>2 DEF BeginDrain, Runs
    <2>4. TypeOK'
        BY <2>1, <2>2, <2>3 DEF FinalState, Bounds
    <2> QED BY <2>1, <2>3, <2>4 DEF LeaderRuns, Served
<1>3. CASE FinalSet(p)
    <2>1. UNCHANGED <<world, mode, leader, released, polled, loop, cmd, acked, left>>
        BY <1>3 DEF FinalSet
    <2>2. store' \in SUBSET Commands /\ final' \in [Pod -> FinalState]
        BY <1>1, <1>3 DEF FinalSet, FinalState
    <2>3. TypeOK'
        BY <2>1, <2>2 DEF FinalState
    <2> QED BY <2>1, <2>3 DEF LeaderRuns, Served, Runs
<1>4. CASE Release(p)
    <2>1. TypeOK'
        BY <1>4 DEF Release
    <2>2. \A q \in Pod : Runs(q) => Runs(q)'
        BY <1>4 DEF Release, Runs
    <2> QED BY <1>4, <2>1, <2>2 DEF Release, LeaderRuns, Served
<1>5. CASE Crash(p)
    <2>1. UNCHANGED <<store, acked>> /\ leader' = (IF leader = p THEN None ELSE leader)
        BY <1>5 DEF Crash
    <2>2. /\ loop' \in [Pod -> LoopState] /\ final' \in [Pod -> FinalState]
          /\ cmd' \in [Commands -> CmdState] /\ left' \in Bounds
        BY <1>1, <1>5, Spent DEF Crash
    <2>3. /\ mode' \in [Pod -> {"up", "draining", "drained", "down"}]
          /\ world' \in [Pod -> SUBSET Commands] /\ polled' \subseteq Pod /\ released' \in BOOLEAN
        BY <1>5 DEF Crash
    <2>4. TypeOK'
        BY <2>1, <2>2, <2>3 DEF LoopState, FinalState, CmdState, Bounds
    <2>5. LeaderRuns'
        BY <1>5, <2>1 DEF LeaderRuns, Runs, Crash, FailoverAssumption
    <2>6. Served'
        <3>1. \A c \in Commands : cmd'[c] = Done \/ cmd'[c] = cmd[c]
            BY <1>5 DEF Crash
        <3>2. Done.pc = "done"
            BY DEF Done
        <3> QED BY <3>1, <3>2 DEF Served
    <2> QED BY <2>4, <2>5, <2>6
<1>6. CASE Restart(p)
    <2>1. UNCHANGED <<store, leader, released, loop, final, cmd, acked>>
        BY <1>6 DEF Restart
    <2>2. left' \in Bounds /\ world' \in [Pod -> SUBSET Commands] /\ polled' \subseteq Pod
        BY <1>1, <1>6, Spent DEF Restart
    <2>3. /\ mode' \in [Pod -> {"up", "draining", "drained", "down"}]
          /\ \A q \in Pod : Runs(q) => Runs(q)'
        BY <1>6 DEF Restart, Runs
    <2>4. TypeOK'
        BY <2>1, <2>2, <2>3 DEF Bounds
    <2> QED BY <2>1, <2>3, <2>4 DEF LeaderRuns, Served
<1>7. CASE Lead(p)
    BY <1>7 DEF Lead, LeaderRuns, Served, Runs
<1> QED BY <1>2, <1>3, <1>4, <1>5, <1>6, <1>7 DEF Drain

\* IInv is an inductive invariant of the failovers.
LEMMA Invariance == ASSUME FailoverAssumption PROVE Spec => []IInv
<1>1. IInv /\ [Next]_vars => IInv'
    <2> SUFFICES ASSUME IInv, [Next]_vars PROVE IInv'
        OBVIOUS
    <2>1. CASE UNCHANGED vars
        BY <2>1 DEF vars, IInv, TypeOK, LeaderRuns, Served, Runs
    <2>2. ASSUME NEW c \in Commands, Mutate(c) \/ Serve(c) PROVE IInv'
        BY <2>2, CommandInv
    <2>3. ASSUME NEW p \in Pod, Loop(p) \/ LoopFails(p) PROVE IInv'
        BY <2>3, LoopInv
    <2>4. ASSUME NEW p \in Pod, BeginDrain(p) \/ Drain(p) \/ Crash(p) \/ Restart(p) \/ Lead(p)
          PROVE IInv'
        BY <2>4, LifeInv
    <2> QED BY <2>1, <2>2, <2>3, <2>4 DEF Next
<1> QED BY InitIInv, <1>1, PTL DEF Spec

\* Type correctness of the failovers.
THEOREM TypeCorrect == ASSUME FailoverAssumption PROVE Spec => []TypeOK
<1>1. IInv => TypeOK
    BY DEF IInv
<1> QED BY Invariance, <1>1, PTL

-----------------------------------------------------------------------------
(* Which steps forget a command that is safe.                              *)

\* A pod starts and serves a world that is not the one of the checkpoint:
\* Redis did not answer main, which goes on with the world that it has.
StartsBlind == \E p \in Pod : mode[p] = "down" /\ Runs(p)' /\ world'[p] # store

\* A command that changes the world, captures it or writes it.
LEMMA CommandKeeps ==
    ASSUME FailoverAssumption, IInv, NEW c \in Commands, Safe(c), NEW d \in Commands, Mutate(d) \/ Serve(d)
    PROVE  Safe(c)'
<1>1. UNCHANGED <<mode, leader, loop, final>>
    BY DEF Mutate, Serve, Capture, Save, Answer
<1>2. cmd \in [Commands -> CmdState] /\ world \in [Pod -> Copies]
    BY DEF IInv, TypeOK, CmdState
<1>3. \A e \in Commands \ {d} : cmd'[e] = cmd[e]
    BY <1>2 DEF Mutate, Serve, Capture, Save, Answer
<1>4. c \in store' /\ \A p \in Pod : c \in world[p] => c \in world'[p]
    BY <1>2 DEF Mutate, Serve, Capture, Save, Answer, Safe
<1>5. cmd'[d].pc = "set" => c \in cmd'[d].copy
    <2>1. CASE Mutate(d)
        BY <1>2, <2>1 DEF Mutate
    <2>2. CASE Capture(d)
        <3>1. cmd[d].pod \in Pod /\ cmd[d].pod # None
            BY <2>2 DEF Capture, IInv, Served, FailoverAssumption
        <3>2. leader = cmd[d].pod => c \in world[leader]
            BY <3>1 DEF IInv, LeaderRuns, Safe
        <3> QED BY <1>2, <2>2, <3>2 DEF Capture, CmdState
    <2>3. CASE Save(d)
        BY <1>2, <2>3 DEF Save, CmdState
    <2>4. CASE Answer(d)
        BY <1>2, <2>4 DEF Answer, Done
    <2> QED BY <2>1, <2>2, <2>3, <2>4 DEF Serve
<1> QED BY <1>1, <1>3, <1>4, <1>5 DEF Safe, Runs

\* A turn of the checkpoint loop, which saves, restores or fails.
LEMMA LoopKeeps ==
    ASSUME IInv, NEW c \in Commands, Safe(c), NEW p \in Pod, Loop(p) \/ LoopFails(p)
    PROVE  Safe(c)'
<1>1. UNCHANGED <<mode, final, cmd>>
    BY DEF Loop, LoopTick, LoopSet, LoopRestore, LoopFails, Quiet
<1>2. loop \in [Pod -> LoopState] /\ world \in [Pod -> Copies]
    BY DEF IInv, TypeOK, LoopState
<1>3. \A q \in Pod \ {p} : loop'[q] = loop[q] /\ world'[q] = world[q]
    BY <1>2 DEF Loop, LoopTick, LoopSet, LoopRestore, LoopFails
<1>4. Runs(p)
    BY DEF Loop, LoopTick, LoopSet, LoopRestore, LoopFails
<1>5. c \in store' /\ c \in world'[p] /\ (loop'[p].pc # "idle" => c \in loop'[p].copy)
    <2>1. CASE LoopTick(p)
        BY <1>2, <1>4, <2>1 DEF LoopTick, Safe
    <2>2. CASE LoopSet(p) \/ LoopRestore(p) \/ LoopFails(p)
        <3>1. loop'[p].pc = "idle"
            BY <1>2, <2>2 DEF LoopSet, LoopRestore, LoopFails, Idle
        <3> QED BY <1>2, <1>4, <2>2, <3>1 DEF LoopSet, LoopRestore, LoopFails, Safe
    <2> QED BY <2>1, <2>2 DEF Loop
<1> QED BY <1>1, <1>3, <1>5 DEF Safe, Runs

\* A drain writes its checkpoint late, a crash forgets a world, a pod leads.
LEMMA LifeKeeps ==
    ASSUME IInv, NEW c \in Commands, Safe(c), NEW p \in Pod,
           BeginDrain(p) \/ Drain(p) \/ Crash(p) \/ Restart(p) \/ Lead(p), ~StartsBlind
    PROVE  Safe(c)'
<1>1. /\ mode \in [Pod -> {"up", "draining", "drained", "down"}]
      /\ world \in [Pod -> Copies] /\ loop \in [Pod -> LoopState]
      /\ final \in [Pod -> FinalState] /\ cmd \in [Commands -> CmdState]
    BY DEF IInv, TypeOK, LoopState, FinalState, CmdState
<1>2. CASE BeginDrain(p)
    <2>1. final'[p].pc # "idle" => c \in final'[p].copy
        BY <1>1, <1>2 DEF BeginDrain, Idle, Safe, Runs
    <2> QED BY <1>1, <1>2, <2>1 DEF BeginDrain, Safe, Runs
<1>3. CASE FinalSet(p)
    <2>1. c \in store' /\ final'[p].pc = "idle"
        BY <1>1, <1>3 DEF FinalSet, Idle, Safe
    <2> QED BY <1>1, <1>3, <2>1 DEF FinalSet, Safe, Runs
<1>4. CASE Release(p) \/ Lead(p)
    BY <1>1, <1>4 DEF Release, Lead, Safe, Runs
<1>5. CASE Crash(p)
    <2>1. ~ Runs(p)' /\ loop'[p].pc = "idle" /\ final'[p].pc = "idle"
        BY <1>1, <1>5 DEF Crash, Runs, Idle
    <2>2. \A d \in Commands : cmd'[d].pc = "set" => cmd'[d] = cmd[d]
        BY <1>1, <1>5 DEF Crash, Done
    <2>3. \A q \in Pod \ {p} : /\ mode'[q] = mode[q] /\ world'[q] = world[q]
                               /\ loop'[q] = loop[q] /\ final'[q] = final[q]
        BY <1>1, <1>5 DEF Crash
    <2> QED BY <1>5, <2>1, <2>2, <2>3 DEF Crash, Safe, Runs
<1>6. CASE Restart(p)
    <2>1. world'[p] = store
        BY <1>1, <1>6 DEF Restart, StartsBlind, Runs
    <2> QED BY <1>1, <1>6, <2>1 DEF Restart, Safe, Runs
<1> QED BY <1>2, <1>3, <1>4, <1>5, <1>6 DEF Drain

\* A step forgets a safe command only when a pod starts without the checkpoint.
LEMMA StepKeeps ==
    ASSUME FailoverAssumption, IInv, [Next]_vars, ~StartsBlind
    PROVE  KeepsSafe
<1> SUFFICES ASSUME NEW c \in Commands, Safe(c) PROVE Safe(c)'
    BY DEF KeepsSafe
<1>1. CASE UNCHANGED vars
    BY <1>1 DEF vars, Safe, Runs
<1>2. ASSUME NEW d \in Commands, Mutate(d) \/ Serve(d) PROVE Safe(c)'
    BY <1>2, CommandKeeps
<1>3. ASSUME NEW p \in Pod, Loop(p) \/ LoopFails(p) PROVE Safe(c)'
    BY <1>3, LoopKeeps
<1>4. ASSUME NEW p \in Pod, BeginDrain(p) \/ Drain(p) \/ Crash(p) \/ Restart(p) \/ Lead(p)
      PROVE Safe(c)'
    BY <1>4, LifeKeeps
<1> QED BY <1>1, <1>2, <1>3, <1>4 DEF Next

\* Whatever crashes, drains, takeovers, late checkpoints and calls that fail
\* come together: a command that is safe is lost by one kind of step only, a
\* start without the checkpoint.
THEOREM OnlyBlindStartsForget ==
    ASSUME FailoverAssumption PROVE Spec => [][KeepsSafe \/ StartsBlind]_vars
<1>1. IInv /\ [Next]_vars => KeepsSafe \/ StartsBlind
    BY StepKeeps
<1> QED BY Invariance, <1>1, PTL DEF Spec

\* While Redis answers, no safe command is ever lost.
THEOREM SafeForever ==
    ASSUME FailoverAssumption, MaxFails = 0 PROVE Spec => Durable
<1>1. IInv /\ [Next]_vars => KeepsSafe
    <2> SUFFICES ASSUME IInv, [Next]_vars PROVE ~StartsBlind
        BY StepKeeps
    <2>1. left.fails = 0
        BY DEF IInv, TypeOK
    <2>2. mode \in [Pod -> {"up", "draining", "drained", "down"}] /\ world \in [Pod -> Copies]
        BY DEF IInv, TypeOK
    <2> SUFFICES ASSUME NEW p \in Pod, mode[p] = "down", Runs(p)' PROVE world'[p] = store
        BY DEF StartsBlind
    <2>3. CASE UNCHANGED vars
        BY <2>3 DEF vars, Runs
    <2>4. ASSUME NEW c \in Commands, Mutate(c) \/ Serve(c) PROVE mode' = mode
        BY <2>4 DEF Mutate, Serve, Capture, Save, Answer
    <2>5. ASSUME NEW q \in Pod, Loop(q) \/ LoopFails(q) PROVE mode' = mode
        BY <2>5 DEF Loop, LoopTick, LoopSet, LoopRestore, LoopFails, Quiet
    <2>6. ASSUME NEW q \in Pod, BeginDrain(q) \/ Drain(q) \/ Crash(q) \/ Lead(q)
          PROVE mode'[p] = "down"
        BY <2>2, <2>6 DEF BeginDrain, Drain, FinalSet, Release, Crash, Lead
    <2>7. ASSUME NEW q \in Pod, Restart(q) PROVE world'[p] = store
        BY <2>1, <2>2, <2>7 DEF Restart, Runs
    <2> QED BY <2>3, <2>4, <2>5, <2>6, <2>7 DEF Next, Runs
<1> QED BY Invariance, <1>1, PTL DEF Spec, Durable

(***************************************************************************)
(* The world boss, for any players, maps, health and bounds, in Lab4 and   *)
(* in Lab3.                                                                *)
(***************************************************************************)

CONSTANTS User, Map, Cloud, MaxHP, MaxKills
VARIABLES boss, sleepers, bossMu, readers, place, body, doing, toMap, plan, seen, kills, struck,
          due, paid, moved
Boss == INSTANCE WorldBoss WITH cmd <- doing

\* Who is where, and what there is of the boss.
Steps == {"idle", "strike", "tell", "settle", "pay", "away", "enter", "leave", "join",
          "snapshot", "view", "reply"}
BossIs == /\ boss \in [hp : 0..MaxHP, alive : BOOLEAN, hitters : SUBSET User]
          /\ boss.hitters \subseteq struck /\ struck \subseteq User
          /\ sleepers \in {0, 1} /\ kills \in Nat
WhoIs == /\ place \in [User -> Map \cup {None}] /\ body \in [User -> Map \cup {None}]
         /\ toMap \in [User -> Map \cup {None}] /\ doing \in [User -> Steps]
         /\ DOMAIN plan \subseteq User
         /\ due \in [User -> Nat] /\ paid \in [User -> Nat] /\ moved \in [User -> BOOLEAN]
SeenIs == seen \in [User -> Boss!Seen]
Shape == BossIs /\ WhoIs /\ SeenIs
\* Whoever felled the boss and has not paid yet.
Pays(u) == doing[u] \in {"pay", "settle"}
\* One fall at a time: a cooldown or somebody who settles it, and a dead boss.
OneFall == /\ sleepers > 0 => ~boss.alive
           /\ \A u, v \in User : Pays(u) /\ Pays(v) => u = v
           /\ \A u \in User : Pays(u) => ~boss.alive /\ sleepers = 0
\* Who holds which lock.
Locks == /\ readers = {u \in User : doing[u] = "view"}
         /\ Cloud => \A u \in User : doing[u] \notin {"tell", "settle"}
         /\ ~Cloud => \A u \in User : /\ doing[u] # "pay"
                                        /\ doing[u] \in {"tell", "settle"} => bossMu = u
         /\ \A u \in User : doing[u] = "tell" => boss.alive
\* Lab4 plans rewards at a fall only, and whoever felled the boss pays them.
Planned == DOMAIN plan # {} => \E u \in User : doing[u] = "pay"
\* A reward that is still to be paid is covered by a kill.
Promised(v) == v \in DOMAIN plan \/ (v \in boss.hitters /\ \E u \in User : doing[u] = "settle")
Pending(v) == IF Promised(v) THEN 1 ELSE 0
Paid == \A v \in User : paid[v] + Pending(v) <= due[v]
\* Whoever has not moved since its last strike stands where the reward goes.
Stay == \A v \in User :
          /\ (doing[v] = "strike" \/ (v \in struck /\ ~moved[v])) => Boss!Stands(v)
          /\ doing[v] \in {"away", "enter", "leave"} => moved[v]
          /\ doing[v] = "join" => place[v] = None
          /\ v \in DOMAIN plan => plan[v] # None /\ (~moved[v] => plan[v] = place[v])
\* What the contributors and the rewards of the first kill are.
FirstKill == /\ kills = 0 => boss.alive /\ \A v \in User : due[v] = 0
             /\ (boss.alive \/ ~Cloud) => boss.hitters = struck
             /\ kills = 1 /\ ~boss.alive => \A v \in User :
                  /\ due[v] = (IF v \in struck THEN 1 ELSE 0)
                  /\ (~moved[v] => paid[v] + Pending(v) = due[v])
\* Lab4 reads the boss under c.mu.
Whole == Cloud => /\ boss.alive => boss.hp > 0
                  /\ \A u \in User : /\ doing[u] = "view" => seen[u].hp = boss.hp
                                     /\ doing[u] = "reply" /\ seen[u].alive => seen[u].hp > 0
\* The inductive invariant.
BInv == Shape /\ OneFall /\ Locks /\ Planned /\ Paid /\ Stay /\ FirstKill /\ Whole

\* It holds at first.
LEMMA BInit == ASSUME Boss!BossAssumption, Boss!Init PROVE BInv
<1> USE DEF Boss!Init, Boss!Fresh, Boss!BossAssumption
<1>1. Shape
    BY DEF Shape, BossIs, WhoIs, SeenIs, Steps, Boss!Seen, Boss!Unseen
<1>2. OneFall /\ Locks /\ Planned
    BY DEF OneFall, Locks, Planned, Pays
<1>3. Paid /\ FirstKill
    BY DEF Paid, FirstKill, Pending, Promised
<1>4. Stay /\ Whole
    BY DEF Stay, Whole
<1> QED BY <1>1, <1>2, <1>3, <1>4 DEF BInv

\* A strike leaves a health in range.
LEMMA WoundedIs == ASSUME Boss!BossAssumption, BossIs, NEW d \in 1..2
                   PROVE  Boss!Wounded(d) \in 0..MaxHP
    BY DEF Boss!BossAssumption, BossIs, Boss!Wounded

\* A step of a player that neither fells, settles nor pays, and leaves the boss
\* alone, changes nothing of the fall and its rewards.
LEMMA CalmKeeps ==
    ASSUME BInv, NEW u \in User, NEW s \in Steps \ {"tell", "settle", "pay"}, Boss!Goto(u, s),
           doing[u] \notin {"tell", "settle", "pay"},
           moved' = moved \/ moved' = [moved EXCEPT ![u] = TRUE],
           UNCHANGED <<boss, sleepers, kills, plan, struck, due, paid>>
    PROVE  OneFall' /\ Planned' /\ Paid' /\ FirstKill'
<1>1. \A v \in User, x \in {"tell", "settle", "pay"} : (doing'[v] = x) = (doing[v] = x)
    BY DEF BInv, Shape, WhoIs, Boss!Goto
<1>2. \A v \in User : (Pays(v))' = Pays(v) /\ (Promised(v))' = Promised(v)
    BY <1>1 DEF Pays, Promised
<1>3. OneFall' /\ Planned'
    BY <1>1, <1>2 DEF BInv, OneFall, Planned
<1>4. Paid' /\ FirstKill'
    BY <1>2 DEF BInv, Shape, WhoIs, Paid, FirstKill, Pending
<1> QED BY <1>3, <1>4

\* Every step keeps the invariant: AttackBoss and the rewards.
LEMMA AttackBossKeeps ==
    ASSUME Boss!BossAssumption, BInv, NEW u \in User, Boss!AttackBoss(u)
    PROVE  BInv'
<1> USE DEF Boss!AttackBoss, Boss!Goto, Boss!life, Boss!whereis, Boss!scores, Boss!Stands
<1>1. Shape'
    BY DEF BInv, Shape, BossIs, WhoIs, SeenIs, Steps, OneFall, Pays, Boss!Fresh, Boss!Seen,
        Boss!Unseen, Boss!BossAssumption
<1>2. OneFall' /\ Planned' /\ Paid' /\ FirstKill'
    BY CalmKeeps, "strike" \in Steps \ {"tell", "settle", "pay"} DEF Steps, Boss!Goto
<1>3. Locks'
    BY DEF BInv, Shape, WhoIs, Locks
<1>4. Stay'
    BY DEF BInv, Shape, BossIs, WhoIs, Stay, Planned, OneFall, Pays, Boss!Stands
<1>5. Whole'
    BY DEF BInv, Shape, BossIs, WhoIs, SeenIs, Whole, Locks, Boss!Fresh, Boss!Seen,
        Boss!BossAssumption
<1> QED BY <1>1, <1>2, <1>3, <1>4, <1>5 DEF BInv

LEMMA StrikeKeeps ==
    ASSUME Boss!BossAssumption, BInv, NEW u \in User, NEW d \in 1..2, Boss!Strike(u, d)
    PROVE  BInv'
<1> USE DEF Boss!Goto, Boss!life, Boss!whereis, Boss!scores, Boss!FreeC, Boss!Hitters
<1>0. \A n \in 1..2 : /\ Boss!Wounded(n) \in 0..MaxHP
                     /\ (Boss!Wounded(n) > 0) = (Boss!Wounded(n) # 0)
    BY WoundedIs DEF BInv, Shape
<1>1. CASE ~boss.alive
  <2>0. /\ Cloud /\ doing[u] = "strike" /\ readers = {} /\ Boss!Goto(u, "snapshot")
        /\ UNCHANGED <<boss, plan, kills, struck, due, moved, sleepers, bossMu, readers,
                       place, body, toMap, seen, paid>>
      BY <1>1, <1>0 DEF Boss!Strike, Boss!Strikes, Boss!Felled
  <2>1. Shape'
      BY <1>1, <1>0, <2>0 DEF BInv, Shape, BossIs, WhoIs, SeenIs, Steps, OneFall, Pays,
          Boss!Fresh, Boss!Seen, Boss!Unseen, Boss!BossAssumption
  <2>2. OneFall' /\ Locks' /\ Planned'
      BY <1>1, <1>0, <2>0 DEF BInv, Shape, BossIs, WhoIs, OneFall, Locks, Planned, Pays,
          Boss!Fresh, Boss!BossAssumption
  <2>3. Paid'
      BY <1>1, <1>0, <2>0 DEF BInv, Shape, BossIs, WhoIs, Paid, Pending, Promised, OneFall,
          Locks, Planned, Pays, FirstKill
  <2>4. Stay'
      BY <1>1, <1>0, <2>0 DEF BInv, Shape, BossIs, WhoIs, Stay, Planned, OneFall, Pays,
          Boss!Stands
  <2>5. FirstKill'
      BY <1>1, <1>0, <2>0 DEF BInv, Shape, BossIs, WhoIs, FirstKill, Paid, Stay, Pending,
          Promised, OneFall, Locks, Planned, Pays, Boss!Stands, Boss!Fresh
  <2>6. Whole'
      BY <1>1, <1>0, <2>0 DEF BInv, Shape, BossIs, WhoIs, SeenIs, Whole, Locks, Boss!Fresh,
          Boss!Seen, Boss!BossAssumption
  <2> QED BY <2>1, <2>2, <2>3, <2>4, <2>5, <2>6 DEF BInv
<1>2. CASE boss.alive /\ Boss!Wounded(d) # 0
  <2>0. /\ Cloud /\ doing[u] = "strike" /\ readers = {} /\ Boss!Goto(u, "snapshot")
        /\ boss' = [hp |-> Boss!Wounded(d), alive |-> TRUE, hitters |-> Boss!Hitters(u)]
        /\ struck' = struck \cup {u} /\ moved' = [moved EXCEPT ![u] = FALSE]
        /\ UNCHANGED <<plan, kills, due, sleepers, bossMu, readers,
                       place, body, toMap, seen, paid>>
      BY <1>2, <1>0 DEF Boss!Strike, Boss!Strikes, Boss!Felled
  <2>1. Shape'
      BY <1>2, <1>0, <2>0 DEF BInv, Shape, BossIs, WhoIs, SeenIs, Steps, OneFall, Pays,
          Boss!Fresh, Boss!Seen, Boss!Unseen, Boss!BossAssumption
  <2>2. OneFall' /\ Locks' /\ Planned'
      BY <1>2, <1>0, <2>0 DEF BInv, Shape, BossIs, WhoIs, OneFall, Locks, Planned, Pays,
          Boss!Fresh, Boss!BossAssumption
  <2>3. Paid'
      BY <1>2, <1>0, <2>0 DEF BInv, Shape, BossIs, WhoIs, Paid, Pending, Promised, OneFall,
          Locks, Planned, Pays, FirstKill
  <2>4. Stay'
      BY <1>2, <1>0, <2>0 DEF BInv, Shape, BossIs, WhoIs, Stay, Planned, OneFall, Pays,
          Boss!Stands
  <2>5. FirstKill'
      BY <1>2, <1>0, <2>0 DEF BInv, Shape, BossIs, WhoIs, FirstKill, Paid, Stay, Pending,
          Promised, OneFall, Locks, Planned, Pays, Boss!Stands, Boss!Fresh
  <2>6. Whole'
      BY <1>2, <1>0, <2>0 DEF BInv, Shape, BossIs, WhoIs, SeenIs, Whole, Locks, Boss!Fresh,
          Boss!Seen, Boss!BossAssumption
  <2> QED BY <2>1, <2>2, <2>3, <2>4, <2>5, <2>6 DEF BInv
<1>3. CASE boss.alive /\ Boss!Wounded(d) = 0
  <2>0. /\ Cloud /\ doing[u] = "strike" /\ readers = {} /\ Boss!Goto(u, "pay")
        /\ boss' = [hp |-> 0, alive |-> FALSE, hitters |-> {}]
        /\ struck' = struck \cup {u} /\ moved' = [moved EXCEPT ![u] = FALSE]
        /\ kills' = kills + 1
        /\ due' = [v \in User |-> IF v \in struck' THEN due[v] + 1 ELSE due[v]]
        /\ plan' = [v \in {w \in Boss!Hitters(u) : place[w] # None} |-> place[v]]
        /\ UNCHANGED <<sleepers, bossMu, readers, place, body, toMap, seen, paid>>
      BY <1>3, <1>0 DEF Boss!Strike, Boss!Strikes, Boss!Felled
  <2>1. Shape'
      BY <1>3, <1>0, <2>0 DEF BInv, Shape, BossIs, WhoIs, SeenIs, Steps, OneFall, Pays,
          Boss!Fresh, Boss!Seen, Boss!Unseen, Boss!BossAssumption
  <2>2. OneFall' /\ Locks' /\ Planned'
      BY <1>3, <1>0, <2>0 DEF BInv, Shape, BossIs, WhoIs, OneFall, Locks, Planned, Pays,
          Boss!Fresh, Boss!BossAssumption
  <2>3. Paid'
      BY <1>3, <1>0, <2>0 DEF BInv, Shape, BossIs, WhoIs, Paid, Pending, Promised, OneFall,
          Locks, Planned, Pays, FirstKill
  <2>4. Stay'
      BY <1>3, <1>0, <2>0 DEF BInv, Shape, BossIs, WhoIs, Stay, Planned, OneFall, Pays,
          Boss!Stands
  <2>5. FirstKill'
      BY <1>3, <1>0, <2>0 DEF BInv, Shape, BossIs, WhoIs, FirstKill, Paid, Stay, Pending,
          Promised, OneFall, Locks, Planned, Pays, Boss!Stands, Boss!Fresh
  <2>6. Whole'
      BY <1>3, <1>0, <2>0 DEF BInv, Shape, BossIs, WhoIs, SeenIs, Whole, Locks, Boss!Fresh,
          Boss!Seen, Boss!BossAssumption
  <2> QED BY <2>1, <2>2, <2>3, <2>4, <2>5, <2>6 DEF BInv
<1> QED BY <1>0, <1>1, <1>2, <1>3 DEF BInv, Shape, BossIs

LEMMA PayKeeps ==
    ASSUME Boss!BossAssumption, BInv, NEW u \in User, NEW v \in User, Boss!Pay(u, v)
    PROVE  BInv'
<1> USE DEF Boss!Pay, Boss!Goto, Boss!life, Boss!whereis, Boss!scores
<1>1. Shape'
    BY DEF BInv, Shape, BossIs, WhoIs, SeenIs, Steps, OneFall, Pays, Boss!Fresh, Boss!Seen,
        Boss!Unseen, Boss!BossAssumption
<1>2. OneFall' /\ Locks' /\ Planned'
    BY DEF BInv, Shape, BossIs, WhoIs, OneFall, Locks, Planned, Pays, Boss!Fresh,
        Boss!BossAssumption
<1>3. Paid'
    BY DEF BInv, Shape, BossIs, WhoIs, Paid, Pending, Promised, OneFall, Locks, Planned, Pays,
        FirstKill
<1>4. Stay'
    BY DEF BInv, Shape, BossIs, WhoIs, Stay, Planned, OneFall, Pays, Boss!Stands
<1>5. FirstKill'
    BY DEF BInv, Shape, BossIs, WhoIs, FirstKill, Paid, Stay, Pending, Promised, OneFall,
        Locks, Planned, Pays, Boss!Stands, Boss!Fresh
<1>6. Whole'
    BY DEF BInv, Shape, BossIs, WhoIs, SeenIs, Whole, Locks, Boss!Fresh, Boss!Seen,
        Boss!BossAssumption
<1> QED BY <1>1, <1>2, <1>3, <1>4, <1>5, <1>6 DEF BInv

LEMMA AllPaidKeeps ==
    ASSUME Boss!BossAssumption, BInv, NEW u \in User, Boss!AllPaid(u)
    PROVE  BInv'
<1> USE DEF Boss!AllPaid, Boss!Goto, Boss!life, Boss!whereis, Boss!scores
<1>1. Shape'
    BY DEF BInv, Shape, BossIs, WhoIs, SeenIs, Steps, OneFall, Pays, Boss!Fresh, Boss!Seen,
        Boss!Unseen, Boss!BossAssumption
<1>2. OneFall' /\ Locks' /\ Planned'
    BY DEF BInv, Shape, BossIs, WhoIs, OneFall, Locks, Planned, Pays, Boss!Fresh,
        Boss!BossAssumption
<1>3. Paid'
    BY DEF BInv, Shape, BossIs, WhoIs, Paid, Pending, Promised, OneFall, Locks, Planned, Pays,
        FirstKill
<1>4. Stay'
    BY DEF BInv, Shape, BossIs, WhoIs, Stay, Planned, OneFall, Pays, Boss!Stands
<1>5. FirstKill'
    BY DEF BInv, Shape, BossIs, WhoIs, FirstKill, Paid, Stay, Pending, Promised, OneFall,
        Locks, Planned, Pays, Boss!Stands, Boss!Fresh
<1>6. Whole'
    BY DEF BInv, Shape, BossIs, WhoIs, SeenIs, Whole, Locks, Boss!Fresh, Boss!Seen,
        Boss!BossAssumption
<1> QED BY <1>1, <1>2, <1>3, <1>4, <1>5, <1>6 DEF BInv

LEMMA HitKeeps ==
    ASSUME Boss!BossAssumption, BInv, NEW u \in User, NEW d \in 1..2, Boss!Hit(u, d)
    PROVE  BInv'
<1> USE DEF Boss!Goto, Boss!life, Boss!whereis, Boss!scores, Boss!Hitters
<1>0. \A n \in 1..2 : /\ Boss!Wounded(n) \in 0..MaxHP
                     /\ (Boss!Wounded(n) > 0) = (Boss!Wounded(n) # 0)
    BY WoundedIs DEF BInv, Shape
<1>1. CASE ~boss.alive
  <2>0. /\ ~Cloud /\ doing[u] = "strike" /\ bossMu = None /\ Boss!Goto(u, "snapshot")
        /\ UNCHANGED <<boss, plan, kills, struck, due, moved, sleepers, bossMu, readers,
                       place, body, toMap, seen, paid>>
      BY <1>1, <1>0 DEF Boss!Hit
  <2>1. Shape'
      BY <1>1, <1>0, <2>0 DEF BInv, Shape, BossIs, WhoIs, SeenIs, Steps, OneFall, Pays,
          Boss!Fresh, Boss!Seen, Boss!Unseen, Boss!BossAssumption
  <2>2. OneFall' /\ Locks' /\ Planned'
      BY <1>1, <1>0, <2>0 DEF BInv, Shape, BossIs, WhoIs, OneFall, Locks, Planned, Pays,
          Boss!Fresh, Boss!BossAssumption
  <2>3. Paid'
      BY <1>1, <1>0, <2>0 DEF BInv, Shape, BossIs, WhoIs, Paid, Pending, Promised, OneFall,
          Locks, Planned, Pays, FirstKill
  <2>4. Stay'
      BY <1>1, <1>0, <2>0 DEF BInv, Shape, BossIs, WhoIs, Stay, Planned, OneFall, Pays,
          Boss!Stands
  <2>5. FirstKill'
      BY <1>1, <1>0, <2>0 DEF BInv, Shape, BossIs, WhoIs, FirstKill, Paid, Stay, Pending,
          Promised, OneFall, Locks, Planned, Pays, Boss!Stands, Boss!Fresh
  <2>6. Whole'
      BY <1>1, <1>0, <2>0 DEF BInv, Shape, BossIs, WhoIs, SeenIs, Whole, Locks, Boss!Fresh,
          Boss!Seen, Boss!BossAssumption
  <2> QED BY <2>1, <2>2, <2>3, <2>4, <2>5, <2>6 DEF BInv
<1>2. CASE boss.alive
  <2>0. /\ ~Cloud /\ doing[u] = "strike" /\ bossMu = None /\ Boss!Goto(u, "tell") /\ bossMu' = u
        /\ boss' \in [hp : 0..MaxHP, alive : BOOLEAN, hitters : SUBSET User]
        /\ boss'.alive = boss.alive /\ boss'.hitters = Boss!Hitters(u)
        /\ struck' = struck \cup {u} /\ moved' = [moved EXCEPT ![u] = FALSE]
        /\ UNCHANGED <<plan, kills, due, sleepers, readers,
                       place, body, toMap, seen, paid>>
      BY <1>2, <1>0 DEF Boss!Hit, Boss!Strikes, BInv, Shape, BossIs
  <2>1. Shape'
      BY <1>2, <1>0, <2>0 DEF BInv, Shape, BossIs, WhoIs, SeenIs, Steps, OneFall, Pays,
          Boss!Fresh, Boss!Seen, Boss!Unseen, Boss!BossAssumption
  <2>2. OneFall' /\ Locks' /\ Planned'
      BY <1>2, <1>0, <2>0 DEF BInv, Shape, BossIs, WhoIs, OneFall, Locks, Planned, Pays,
          Boss!Fresh, Boss!BossAssumption
  <2>3. Paid'
      BY <1>2, <1>0, <2>0 DEF BInv, Shape, BossIs, WhoIs, Paid, Pending, Promised, OneFall,
          Locks, Planned, Pays, FirstKill
  <2>4. Stay'
      BY <1>2, <1>0, <2>0 DEF BInv, Shape, BossIs, WhoIs, Stay, Planned, OneFall, Pays,
          Boss!Stands
  <2>5. FirstKill'
      BY <1>2, <1>0, <2>0 DEF BInv, Shape, BossIs, WhoIs, FirstKill, Paid, Stay, Pending,
          Promised, OneFall, Locks, Planned, Pays, Boss!Stands, Boss!Fresh
  <2>6. Whole'
      BY <1>2, <1>0, <2>0 DEF BInv, Shape, BossIs, WhoIs, SeenIs, Whole, Locks, Boss!Fresh,
          Boss!Seen, Boss!BossAssumption
  <2> QED BY <2>1, <2>2, <2>3, <2>4, <2>5, <2>6 DEF BInv
<1> QED BY <1>0, <1>1, <1>2 DEF BInv, Shape, BossIs

LEMMA TellKeeps ==
    ASSUME Boss!BossAssumption, BInv, NEW u \in User, Boss!Tell(u)
    PROVE  BInv'
<1> USE DEF Boss!Goto, Boss!life, Boss!whereis, Boss!scores, Boss!FreeC
<1>0. \A n \in 1..2 : /\ Boss!Wounded(n) \in 0..MaxHP
                     /\ (Boss!Wounded(n) > 0) = (Boss!Wounded(n) # 0)
    BY WoundedIs DEF BInv, Shape
<1>1. CASE boss.hp # 0
  <2>0. /\ doing[u] = "tell" /\ readers = {} /\ Boss!Goto(u, "snapshot") /\ bossMu' = None
        /\ UNCHANGED <<boss, plan, kills, struck, due, moved, sleepers, readers,
                       place, body, toMap, seen, paid>>
      BY <1>1, <1>0 DEF Boss!Tell
  <2>1. Shape'
      BY <1>1, <1>0, <2>0 DEF BInv, Shape, BossIs, WhoIs, SeenIs, Steps, OneFall, Pays,
          Boss!Fresh, Boss!Seen, Boss!Unseen, Boss!BossAssumption
  <2>2. OneFall' /\ Locks' /\ Planned'
      BY <1>1, <1>0, <2>0 DEF BInv, Shape, BossIs, WhoIs, OneFall, Locks, Planned, Pays,
          Boss!Fresh, Boss!BossAssumption
  <2>3. Paid'
      BY <1>1, <1>0, <2>0 DEF BInv, Shape, BossIs, WhoIs, Paid, Pending, Promised, OneFall,
          Locks, Planned, Pays, FirstKill
  <2>4. Stay'
      BY <1>1, <1>0, <2>0 DEF BInv, Shape, BossIs, WhoIs, Stay, Planned, OneFall, Pays,
          Boss!Stands
  <2>5. FirstKill'
      BY <1>1, <1>0, <2>0 DEF BInv, Shape, BossIs, WhoIs, FirstKill, Paid, Stay, Pending,
          Promised, OneFall, Locks, Planned, Pays, Boss!Stands, Boss!Fresh
  <2>6. Whole'
      BY <1>1, <1>0, <2>0 DEF BInv, Shape, BossIs, WhoIs, SeenIs, Whole, Locks, Boss!Fresh,
          Boss!Seen, Boss!BossAssumption
  <2> QED BY <2>1, <2>2, <2>3, <2>4, <2>5, <2>6 DEF BInv
<1>2. CASE boss.hp = 0
  <2>0. /\ doing[u] = "tell" /\ readers = {} /\ Boss!Goto(u, "settle")
        /\ boss' \in [hp : 0..MaxHP, alive : BOOLEAN, hitters : SUBSET User]
        /\ boss'.alive = FALSE /\ boss'.hitters = boss.hitters
        /\ kills' = kills + 1
        /\ due' = [v \in User |-> IF v \in struck THEN due[v] + 1 ELSE due[v]]
        /\ UNCHANGED <<plan, struck, sleepers, bossMu, readers,
                       place, body, toMap, seen, paid, moved>>
      BY <1>2, <1>0 DEF Boss!Tell, Boss!Felled, BInv, Shape, BossIs
  <2>1. Shape'
      BY <1>2, <1>0, <2>0 DEF BInv, Shape, BossIs, WhoIs, SeenIs, Steps, OneFall, Pays,
          Boss!Fresh, Boss!Seen, Boss!Unseen, Boss!BossAssumption
  <2>2. OneFall' /\ Locks' /\ Planned'
      BY <1>2, <1>0, <2>0 DEF BInv, Shape, BossIs, WhoIs, OneFall, Locks, Planned, Pays,
          Boss!Fresh, Boss!BossAssumption
  <2>3. Paid'
      BY <1>2, <1>0, <2>0 DEF BInv, Shape, BossIs, WhoIs, Paid, Pending, Promised, OneFall,
          Locks, Planned, Pays, FirstKill
  <2>4. Stay'
      BY <1>2, <1>0, <2>0 DEF BInv, Shape, BossIs, WhoIs, Stay, Planned, OneFall, Pays,
          Boss!Stands
  <2>5. FirstKill'
      BY <1>2, <1>0, <2>0 DEF BInv, Shape, BossIs, WhoIs, FirstKill, Paid, Stay, Pending,
          Promised, OneFall, Locks, Planned, Pays, Boss!Stands, Boss!Fresh
  <2>6. Whole'
      BY <1>2, <1>0, <2>0 DEF BInv, Shape, BossIs, WhoIs, SeenIs, Whole, Locks, Boss!Fresh,
          Boss!Seen, Boss!BossAssumption
  <2> QED BY <2>1, <2>2, <2>3, <2>4, <2>5, <2>6 DEF BInv
<1> QED BY <1>0, <1>1, <1>2 DEF BInv, Shape, BossIs

LEMMA SettleKeeps ==
    ASSUME Boss!BossAssumption, BInv, NEW u \in User, Boss!Settle(u)
    PROVE  BInv'
<1> USE DEF Boss!Settle, Boss!Goto, Boss!life, Boss!whereis, Boss!scores, Boss!Stands,
      Boss!FreeC
<1>1. Shape'
    BY DEF BInv, Shape, BossIs, WhoIs, SeenIs, Steps, OneFall, Pays, Boss!Fresh, Boss!Seen,
        Boss!Unseen, Boss!BossAssumption
<1>2. OneFall' /\ Locks' /\ Planned'
    BY DEF BInv, Shape, BossIs, WhoIs, OneFall, Locks, Planned, Pays, Boss!Fresh,
        Boss!BossAssumption
<1>3. Paid'
    BY DEF BInv, Shape, BossIs, WhoIs, Paid, Pending, Promised, OneFall, Locks, Planned, Pays,
        FirstKill
<1>4. Stay'
    BY DEF BInv, Shape, BossIs, WhoIs, Stay, Planned, OneFall, Pays, Boss!Stands
<1>5. FirstKill'
    BY DEF BInv, Shape, BossIs, WhoIs, FirstKill, Paid, Stay, Pending, Promised, OneFall,
        Locks, Planned, Pays, Boss!Stands, Boss!Fresh
<1>6. Whole'
    BY DEF BInv, Shape, BossIs, WhoIs, SeenIs, Whole, Locks, Boss!Fresh, Boss!Seen,
        Boss!BossAssumption
<1> QED BY <1>1, <1>2, <1>3, <1>4, <1>5, <1>6 DEF BInv

\* The cooldown and the snapshots.
LEMMA RespawnKeeps ==
    ASSUME Boss!BossAssumption, BInv, Boss!Respawn
    PROVE  BInv'
<1> USE DEF Boss!Respawn, Boss!Goto, Boss!life, Boss!whereis, Boss!scores, Boss!FreeC
<1>1. Shape'
    BY DEF BInv, Shape, BossIs, WhoIs, SeenIs, Steps, OneFall, Pays, Boss!Fresh, Boss!Seen,
        Boss!Unseen, Boss!BossAssumption
<1>2. OneFall' /\ Locks' /\ Planned'
    BY DEF BInv, Shape, BossIs, WhoIs, OneFall, Locks, Planned, Pays, Boss!Fresh,
        Boss!BossAssumption
<1>3. Paid'
    BY DEF BInv, Shape, BossIs, WhoIs, Paid, Pending, Promised, OneFall, Locks, Planned, Pays,
        FirstKill
<1>4. Stay'
    BY DEF BInv, Shape, BossIs, WhoIs, Stay, Planned, OneFall, Pays, Boss!Stands
<1>5. FirstKill'
    BY DEF BInv, Shape, BossIs, WhoIs, FirstKill, Paid, Stay, Pending, Promised, OneFall,
        Locks, Planned, Pays, Boss!Stands, Boss!Fresh
<1>6. Whole'
    BY DEF BInv, Shape, BossIs, WhoIs, SeenIs, Whole, Locks, Boss!Fresh, Boss!Seen,
        Boss!BossAssumption
<1> QED BY <1>1, <1>2, <1>3, <1>4, <1>5, <1>6 DEF BInv

LEMMA SnapshotKeeps ==
    ASSUME Boss!BossAssumption, BInv, NEW u \in User, Boss!Snapshot(u)
    PROVE  BInv'
<1> USE DEF Boss!Snapshot, Boss!Goto, Boss!life, Boss!whereis, Boss!scores
<1>1. Shape'
  <2>1. BossIs' /\ WhoIs'
      BY DEF BInv, Shape, BossIs, WhoIs, Steps
  <2>2. SeenIs'
      BY DEF BInv, Shape, BossIs, SeenIs, Boss!Seen
  <2> QED BY <2>1, <2>2 DEF Shape
<1>2. OneFall' /\ Planned' /\ Paid' /\ FirstKill'
    BY CalmKeeps, "idle" \in Steps \ {"tell", "settle", "pay"},
       "view" \in Steps \ {"tell", "settle", "pay"} DEF Steps
<1>3. Locks'
    BY DEF BInv, Shape, WhoIs, Locks
<1>4. Stay'
    BY DEF BInv, Shape, BossIs, WhoIs, Stay, Boss!Stands
<1>5. Whole'
    BY DEF BInv, Shape, WhoIs, SeenIs, Whole, Locks, Boss!Seen
<1> QED BY <1>1, <1>2, <1>3, <1>4, <1>5 DEF BInv

LEMMA ViewKeeps ==
    ASSUME Boss!BossAssumption, BInv, NEW u \in User, Boss!View(u)
    PROVE  BInv'
<1> USE DEF Boss!View, Boss!Goto, Boss!life, Boss!whereis, Boss!scores
<1>1. Shape'
    BY DEF BInv, Shape, BossIs, WhoIs, SeenIs, Steps, Boss!Seen, Boss!Unseen, Boss!BossAssumption
<1>2. OneFall' /\ Planned' /\ Paid' /\ FirstKill'
    BY CalmKeeps, "reply" \in Steps \ {"tell", "settle", "pay"} DEF Steps, Boss!Goto
<1>3. Locks'
    BY DEF BInv, Shape, WhoIs, Locks
<1>4. Stay'
    BY DEF BInv, Shape, BossIs, WhoIs, Stay, Boss!Stands
<1>5. Whole'
    BY DEF BInv, Shape, WhoIs, SeenIs, Whole, Locks, Boss!Seen
<1> QED BY <1>1, <1>2, <1>3, <1>4, <1>5 DEF BInv

LEMMA ReplyKeeps ==
    ASSUME Boss!BossAssumption, BInv, NEW u \in User, Boss!Reply(u)
    PROVE  BInv'
<1> USE DEF Boss!Reply, Boss!Goto, Boss!life, Boss!whereis, Boss!scores
<1>1. Shape'
    BY DEF BInv, Shape, BossIs, WhoIs, SeenIs, Steps, Boss!Seen, Boss!Unseen, Boss!BossAssumption
<1>2. OneFall' /\ Planned' /\ Paid' /\ FirstKill'
    BY CalmKeeps, "idle" \in Steps \ {"tell", "settle", "pay"} DEF Steps, Boss!Goto
<1>3. Locks'
    BY DEF BInv, Shape, WhoIs, Locks
<1>4. Stay'
    BY DEF BInv, Shape, BossIs, WhoIs, Stay, Boss!Stands
<1>5. Whole'
    BY DEF BInv, Shape, WhoIs, SeenIs, Whole, Locks, Boss!Seen
<1> QED BY <1>1, <1>2, <1>3, <1>4, <1>5 DEF BInv

\* Where the players are: SwitchMap, Logout and Login with their later steps.
LEMMA SwitchMapKeeps ==
    ASSUME Boss!BossAssumption, BInv, NEW u \in User, NEW m \in Map, Boss!SwitchMap(u, m)
    PROVE  BInv'
<1> USE DEF Boss!SwitchMap, Boss!Goto, Boss!life, Boss!whereis, Boss!scores, Boss!Rest,
      Boss!Leaves, Boss!Stands
<1>1. Shape'
    BY DEF BInv, Shape, BossIs, WhoIs, SeenIs, Steps, Boss!Seen, Boss!Unseen, Boss!BossAssumption
<1>2. OneFall' /\ Planned' /\ Paid' /\ FirstKill'
    BY CalmKeeps, "away" \in Steps \ {"tell", "settle", "pay"} DEF Steps, Boss!Goto
<1>3. Locks'
    BY DEF BInv, Shape, WhoIs, Locks
<1>4. Stay'
    BY DEF BInv, Shape, BossIs, WhoIs, Stay, Boss!Stands
<1>5. Whole'
    BY DEF BInv, Shape, WhoIs, SeenIs, Whole, Locks, Boss!Seen
<1> QED BY <1>1, <1>2, <1>3, <1>4, <1>5 DEF BInv

LEMMA ArriveKeeps ==
    ASSUME Boss!BossAssumption, BInv, NEW u \in User, Boss!Arrive(u)
    PROVE  BInv'
<1> USE DEF Boss!Arrive, Boss!Goto, Boss!life, Boss!whereis, Boss!scores, Boss!Rest, Boss!FreeC
<1>1. Shape'
    BY DEF BInv, Shape, BossIs, WhoIs, SeenIs, Steps, Boss!Seen, Boss!Unseen, Boss!BossAssumption
<1>2. OneFall' /\ Planned' /\ Paid' /\ FirstKill'
    BY CalmKeeps, "enter" \in Steps \ {"tell", "settle", "pay"} DEF Steps, Boss!Goto
<1>3. Locks'
    BY DEF BInv, Shape, WhoIs, Locks
<1>4. Stay'
    BY DEF BInv, Shape, BossIs, WhoIs, Stay, Boss!Stands
<1>5. Whole'
    BY DEF BInv, Shape, WhoIs, SeenIs, Whole, Locks, Boss!Seen
<1> QED BY <1>1, <1>2, <1>3, <1>4, <1>5 DEF BInv

LEMMA EnterKeeps ==
    ASSUME Boss!BossAssumption, BInv, NEW u \in User, Boss!Enter(u)
    PROVE  BInv'
<1> USE DEF Boss!Enter, Boss!Goto, Boss!life, Boss!whereis, Boss!scores, Boss!Rest, Boss!FreeC
<1>1. Shape'
    BY DEF BInv, Shape, BossIs, WhoIs, SeenIs, Steps, Boss!Seen, Boss!Unseen, Boss!BossAssumption
<1>2. OneFall' /\ Planned' /\ Paid' /\ FirstKill'
    BY CalmKeeps, "snapshot" \in Steps \ {"tell", "settle", "pay"} DEF Steps, Boss!Goto
<1>3. Locks'
    BY DEF BInv, Shape, WhoIs, Locks
<1>4. Stay'
    BY DEF BInv, Shape, BossIs, WhoIs, Stay, Boss!Stands
<1>5. Whole'
    BY DEF BInv, Shape, WhoIs, SeenIs, Whole, Locks, Boss!Seen
<1> QED BY <1>1, <1>2, <1>3, <1>4, <1>5 DEF BInv

LEMMA LogoutKeeps ==
    ASSUME Boss!BossAssumption, BInv, NEW u \in User, Boss!Logout(u)
    PROVE  BInv'
<1> USE DEF Boss!Logout, Boss!Goto, Boss!life, Boss!whereis, Boss!scores, Boss!Rest,
      Boss!Leaves, Boss!Stands, Boss!FreeC
<1>1. Shape'
    BY DEF BInv, Shape, BossIs, WhoIs, SeenIs, Steps, Boss!Seen, Boss!Unseen, Boss!BossAssumption
<1>2. OneFall' /\ Planned' /\ Paid' /\ FirstKill'
    BY CalmKeeps, "leave" \in Steps \ {"tell", "settle", "pay"} DEF Steps, Boss!Goto
<1>3. Locks'
    BY DEF BInv, Shape, WhoIs, Locks
<1>4. Stay'
    BY DEF BInv, Shape, BossIs, WhoIs, Stay, Boss!Stands
<1>5. Whole'
    BY DEF BInv, Shape, WhoIs, SeenIs, Whole, Locks, Boss!Seen
<1> QED BY <1>1, <1>2, <1>3, <1>4, <1>5 DEF BInv

LEMMA GoneKeeps ==
    ASSUME Boss!BossAssumption, BInv, NEW u \in User, Boss!Gone(u)
    PROVE  BInv'
<1> USE DEF Boss!Gone, Boss!Goto, Boss!life, Boss!whereis, Boss!scores, Boss!Rest, Boss!FreeC
<1>1. Shape'
    BY DEF BInv, Shape, BossIs, WhoIs, SeenIs, Steps, Boss!Seen, Boss!Unseen, Boss!BossAssumption
<1>2. OneFall' /\ Planned' /\ Paid' /\ FirstKill'
    BY CalmKeeps, "idle" \in Steps \ {"tell", "settle", "pay"} DEF Steps, Boss!Goto
<1>3. Locks'
    BY DEF BInv, Shape, WhoIs, Locks
<1>4. Stay'
    BY DEF BInv, Shape, BossIs, WhoIs, Stay, Boss!Stands
<1>5. Whole'
    BY DEF BInv, Shape, WhoIs, SeenIs, Whole, Locks, Boss!Seen
<1> QED BY <1>1, <1>2, <1>3, <1>4, <1>5 DEF BInv

LEMMA LoginKeeps ==
    ASSUME Boss!BossAssumption, BInv, NEW u \in User, NEW m \in Map, Boss!Login(u, m)
    PROVE  BInv'
<1> USE DEF Boss!Login, Boss!Goto, Boss!life, Boss!whereis, Boss!scores, Boss!Rest, Boss!FreeC
<1>1. Shape'
    BY DEF BInv, Shape, BossIs, WhoIs, SeenIs, Steps, Boss!Seen, Boss!Unseen, Boss!BossAssumption
<1>2. OneFall' /\ Planned' /\ Paid' /\ FirstKill'
    BY CalmKeeps, "join" \in Steps \ {"tell", "settle", "pay"} DEF Steps, Boss!Goto
<1>3. Locks'
    BY DEF BInv, Shape, WhoIs, Locks
<1>4. Stay'
    BY DEF BInv, Shape, BossIs, WhoIs, Stay, Boss!Stands
<1>5. Whole'
    BY DEF BInv, Shape, WhoIs, SeenIs, Whole, Locks, Boss!Seen
<1> QED BY <1>1, <1>2, <1>3, <1>4, <1>5 DEF BInv

LEMMA JoinKeeps ==
    ASSUME Boss!BossAssumption, BInv, NEW u \in User, Boss!Join(u)
    PROVE  BInv'
<1> USE DEF Boss!Join, Boss!Goto, Boss!life, Boss!whereis, Boss!scores, Boss!Rest, Boss!FreeC
<1>1. Shape'
    BY DEF BInv, Shape, BossIs, WhoIs, SeenIs, Steps, Boss!Seen, Boss!Unseen, Boss!BossAssumption
<1>2. OneFall' /\ Planned' /\ Paid' /\ FirstKill'
    BY CalmKeeps, "snapshot" \in Steps \ {"tell", "settle", "pay"} DEF Steps, Boss!Goto
<1>3. Locks'
    BY DEF BInv, Shape, WhoIs, Locks
<1>4. Stay'
    BY DEF BInv, Shape, BossIs, WhoIs, Stay, Boss!Stands
<1>5. Whole'
    BY DEF BInv, Shape, WhoIs, SeenIs, Whole, Locks, Boss!Seen
<1> QED BY <1>1, <1>2, <1>3, <1>4, <1>5 DEF BInv

\* Every step keeps the invariant.
LEMMA NextKeeps ==
    ASSUME Boss!BossAssumption, BInv, [Boss!Next]_(Boss!vars)
    PROVE  BInv'
<1>1. CASE Boss!Respawn
    BY <1>1, RespawnKeeps
<1>2. ASSUME NEW u \in User, Boss!Begin(u) PROVE BInv'
    BY <1>2, AttackBossKeeps, LogoutKeeps, SwitchMapKeeps, LoginKeeps DEF Boss!Begin
<1>3. ASSUME NEW u \in User, Boss!Continue(u) PROVE BInv'
  <2>1. ASSUME NEW d \in 1..2, Boss!Strike(u, d) \/ Boss!Hit(u, d) PROVE BInv'
      BY <2>1, StrikeKeeps, HitKeeps
  <2>2. ASSUME NEW v \in User, Boss!Pay(u, v) PROVE BInv'
      BY <2>2, PayKeeps
  <2>3. CASE Boss!AllPaid(u) \/ Boss!Tell(u) \/ Boss!Settle(u) \/ Boss!Snapshot(u)
        \/ Boss!View(u)
      BY <2>3, AllPaidKeeps, TellKeeps, SettleKeeps, SnapshotKeeps, ViewKeeps
  <2>4. CASE Boss!Reply(u) \/ Boss!Arrive(u) \/ Boss!Enter(u) \/ Boss!Gone(u) \/ Boss!Join(u)
      BY <2>4, ReplyKeeps, ArriveKeeps, EnterKeeps, GoneKeeps, JoinKeeps
  <2> QED BY <1>3, <2>1, <2>2, <2>3, <2>4 DEF Boss!Continue
<1>4. CASE UNCHANGED Boss!vars
  <2> USE <1>4 DEF Boss!vars, Boss!life, Boss!whereis, Boss!scores
  <2>1. Shape' /\ OneFall' /\ Locks' /\ Planned'
      BY DEF BInv, Shape, BossIs, WhoIs, SeenIs, OneFall, Locks, Planned, Pays
  <2>2. Paid' /\ Stay' /\ FirstKill' /\ Whole'
      BY DEF BInv, Paid, Stay, FirstKill, Whole, Pending, Promised, Boss!Stands
  <2> QED BY <2>1, <2>2 DEF BInv
<1> QED BY <1>1, <1>2, <1>3, <1>4 DEF Boss!Next

\* What the invariant says of cooldowns, rewards and snapshots.
LEMMA BossMeans == ASSUME BInv
                   PROVE  Boss!OneCooldown /\ Boss!Rewarded /\ (Cloud => Boss!SeenWhole)
<1>1. Boss!OneCooldown
    BY DEF BInv, OneFall, Boss!OneCooldown
<1>2. Boss!Rewarded
  <2> SUFFICES ASSUME NEW u \in User
               PROVE  /\ paid[u] <= due[u]
                      /\ (sleepers = 1 /\ kills = 1 /\ ~moved[u]) => paid[u] = due[u]
      BY DEF Boss!Rewarded
  <2>1. paid[u] \in Nat /\ due[u] \in Nat /\ Pending(u) \in {0, 1}
      BY DEF BInv, Shape, WhoIs, Pending
  <2>2. paid[u] <= due[u]
      BY <2>1 DEF BInv, Paid
  <2>3. sleepers = 1 => Pending(u) = 0
      BY DEF BInv, OneFall, Locks, Planned, Pays, Pending, Promised
  <2> QED BY <2>1, <2>2, <2>3 DEF BInv, OneFall, FirstKill
<1>3. Cloud => Boss!SeenWhole
    BY DEF BInv, Whole, Boss!SeenWhole
<1> QED BY <1>1, <1>2, <1>3

\* However strikes, moves, logins and payments interleave: a cooldown runs only
\* for a boss that fell; nobody is paid more than once for a kill nor for one it
\* had no hand in, and whoever had a hand in the first and stayed is paid; and
\* where the boss is read under the lock that guards it, as in Lab4, nobody sees
\* it alive without health (AttackBoss, the respawn, SnapshotFor).
THEOREM BossRewards ==
    ASSUME Boss!BossAssumption
    PROVE  Boss!Spec => [](Boss!OneCooldown /\ Boss!Rewarded /\ (Cloud => Boss!SeenWhole))
<1>1. Boss!Init => BInv
    BY BInit
<1>2. BInv /\ [Boss!Next]_(Boss!vars) => BInv'
    BY NextKeeps
<1> QED BY <1>1, <1>2, BossMeans, PTL DEF Boss!Spec
=============================================================================
