----------------------------- MODULE RedisLease -----------------------------
(* The leader lease that the Lab4 services keep in Redis.                  *)
(*   src/Lab/Lab4/cluster/redis_leader.go    RedisLeaderElector            *)
(*   src/Lab/Lab4/redisx/client.go           GET, SET EX, SET NX EX, DEL   *)
(* The key names its holder and expires TTL ticks after it was last set.   *)
(* Every pod refreshes once per round of its loop and keeps the result in  *)
(* the flag isLeader, which its handlers read without asking Redis again.  *)
(* A command and its answer are apart: other steps may come between them,  *)
(* and a command whose answer never came may still be carried out later.   *)
EXTENDS Integers, FiniteSets

CONSTANTS Pod,         \* the replicas of one service
          None,        \* no pod
          TTL,         \* life of the key, in ticks
          MaxGap,      \* a live pod starts and ends a refresh within MaxGap
          MaxLeaving,  \* bound: pods that drain or end at the same time
          MaxTrouble   \* bound: failures, crashes and skewed clocks

LeaseAssumption == /\ None \notin Pod
                   /\ TTL \in Nat /\ MaxGap \in Nat /\ MaxGap < TTL
                   /\ MaxLeaving \in Nat /\ MaxTrouble \in Nat

VARIABLES holder,      \* whom the key names, None when it is absent
          left,        \* ticks until the key expires
          stage,       \* up, draining, ending (SIGTERM came) or down
          pc,          \* where the running refresh is
          eligible,    \* what it found when it asked eligible()
          saw,         \* the other leader that its GET found
          run,         \* ticks since the running refresh began
          age,         \* ticks since the refresh began whose result is stored
          leader,      \* isLeader
          leaderID,    \* leaderID, and so leaderIP
          stray,       \* commands given up by their pod and not yet carried out
          clobbered,   \* history: a SET EX or DEL hit a lease it did not mean
          trouble      \* bound: troubles so far

key    == <<holder, left, clobbered>>
loop   == <<pc, eligible, saw, run>>
result == <<age, leader, leaderID>>
vars   == <<key, stage, loop, result, stray, trouble>>

Stage == {"up", "draining", "ending", "down"}
Step  == {"idle", "get", "setnx", "setex", "del",   \* before the command
          "won", "lost", "freed", "follow"}         \* after it: to be stored

Live(p)    == stage[p] \in {"up", "draining"}
Running(p) == stage[p] # "down"
Leaving(p) == stage[p] \in {"draining", "ending"}
Timed(p)   == Live(p) \/ pc[p] # "idle"      \* its loop or its last refresh

TypeOK == /\ holder \in Pod \cup {None} /\ left \in 0..TTL
          /\ stage \in [Pod -> Stage] /\ pc \in [Pod -> Step]
          /\ eligible \in [Pod -> BOOLEAN] /\ saw \in [Pod -> Pod \cup {None}]
          /\ run \in [Pod -> 0..TTL] /\ age \in [Pod -> 0..TTL]
          /\ leader \in [Pod -> BOOLEAN]
          /\ leaderID \in [Pod -> Pod \cup {None}]
          /\ stray \subseteq ({"setnx", "setex", "del"} \X Pod)
          /\ clobbered \in BOOLEAN /\ trouble \in 0..MaxTrouble

Init == /\ holder = None /\ left = 0 /\ clobbered = FALSE
        /\ stage = [p \in Pod |-> "up"] /\ pc = [p \in Pod |-> "idle"]
        /\ eligible = [p \in Pod |-> TRUE] /\ saw = [p \in Pod |-> None]
        /\ run = [p \in Pod |-> 0] /\ age = [p \in Pod |-> 0]
        /\ leader = [p \in Pod |-> FALSE] /\ leaderID = [p \in Pod |-> None]
        /\ stray = {} /\ trouble = 0

Trouble == trouble < MaxTrouble /\ trouble' = trouble + 1

(* ------------------------- what Redis does ----------------------------- *)

Grant(p) == holder' = p /\ left' = TTL

SetNXEX_Blind(p) == Grant(p) /\ UNCHANGED clobbered
SetNXEX(p) == /\ IF holder = None THEN Grant(p) ELSE UNCHANGED <<holder, left>>
              /\ UNCHANGED clobbered

SetEX(p) == /\ Grant(p)
            /\ clobbered' = (clobbered \/ holder \notin {None, p})

\* mine: the lease that the command is meant for, if it is still there.
Del(mine) == /\ holder' = None /\ left' = 0
             /\ clobbered' = (clobbered \/ holder \notin {None, mine})

(* ------------------------------ refresh -------------------------------- *)

\* Between two refreshes the variables of refresh are gone.
Rest(p) == /\ pc' = [pc EXCEPT ![p] = "idle"] /\ run' = [run EXCEPT ![p] = 0]
           /\ eligible' = [eligible EXCEPT ![p] = TRUE]
           /\ saw' = [saw EXCEPT ![p] = None]

\* The ticker fires, or Start refreshes; `eligible` is !draining.
BeginRefresh(p) ==
  /\ Live(p) /\ pc[p] = "idle"
  /\ pc' = [pc EXCEPT ![p] = "get"]
  /\ eligible' = [eligible EXCEPT ![p] = stage[p] = "up"]
  /\ UNCHANGED <<key, stage, saw, run, result, stray, trouble>>

\* What the refresh does next when its GET found the key as `found`.
AfterGet_FreesAnyLease(p, found) ==
  IF ~eligible[p]       THEN IF found # None THEN "del" ELSE "lost"
  ELSE IF found = None  THEN "setnx"
  ELSE IF found = p     THEN "setex" ELSE "follow"
AfterGet(p, found) ==
  IF ~eligible[p]       THEN IF found = p THEN "del" ELSE "lost"
  ELSE IF found = None  THEN "setnx"
  ELSE IF found = p     THEN "setex" ELSE "follow"

Get(p) ==
  /\ Running(p) /\ pc[p] = "get"
  /\ \/ /\ pc' = [pc EXCEPT ![p] = AfterGet(p, holder)]
        /\ saw' = [saw EXCEPT ![p] = IF pc'[p] = "follow" THEN holder ELSE None]
        /\ UNCHANGED trouble
     \/ \* by this pod's clock the record that it read has expired
        /\ holder # None /\ eligible[p] /\ Trouble
        /\ pc' = [pc EXCEPT ![p] = "setnx"] /\ UNCHANGED saw
  /\ UNCHANGED <<key, stage, eligible, run, result, stray>>

GetFails(p) ==
  /\ Running(p) /\ pc[p] = "get" /\ Trouble
  /\ pc' = [pc EXCEPT ![p] = "lost"]
  /\ UNCHANGED <<key, stage, eligible, saw, run, result, stray>>

\* The command is carried out; its answer is stored by Store.
Execute(p) ==
  /\ Running(p)
  /\ \/ /\ pc[p] = "setnx" /\ SetNXEX(p)
        /\ pc' = [pc EXCEPT ![p] = IF holder = None THEN "won" ELSE "lost"]
     \/ /\ pc[p] = "setex" /\ SetEX(p) /\ pc' = [pc EXCEPT ![p] = "won"]
     \/ /\ pc[p] = "del" /\ Del(p) /\ pc' = [pc EXCEPT ![p] = "freed"]
  /\ UNCHANGED <<stage, eligible, saw, run, result, stray, trouble>>

\* No answer within the timeout: the command may still be carried out.
TimesOut(p) ==
  /\ Running(p) /\ pc[p] \in {"setnx", "setex", "del"} /\ Trouble
  /\ stray' = stray \cup {<<pc[p], p>>}
  /\ pc' = [pc EXCEPT ![p] = "lost"]
  /\ UNCHANGED <<key, stage, eligible, saw, run, result>>

\* A stray DEL is meant for a lease that its pod has given up since.
ExecuteStray(c) ==
  /\ c \in stray /\ stray' = stray \ {c}
  /\ CASE c[1] = "setnx" -> SetNXEX(c[2])
       [] c[1] = "setex" -> SetEX(c[2])
       [] c[1] = "del"   -> Del(None)
  /\ UNCHANGED <<stage, loop, result, trouble>>

\* The end of refresh: isLeader, and the leader's name when it is known.
Store_Nameless(p) ==
  /\ Running(p) /\ pc[p] \in {"won", "lost", "freed", "follow"}
  /\ leader' = [leader EXCEPT ![p] = pc[p] = "won"]
  /\ leaderID' = [leaderID EXCEPT ![p] = IF pc[p] = "won" THEN p ELSE @]
  /\ age' = [age EXCEPT ![p] = run[p]]
  /\ Rest(p) /\ UNCHANGED <<key, stage, stray, trouble>>
Store(p) ==
  /\ Running(p) /\ pc[p] \in {"won", "lost", "freed", "follow"}
  /\ leader' = [leader EXCEPT ![p] = pc[p] = "won"]
  /\ leaderID' = [leaderID EXCEPT ![p] = IF pc[p] = "won" THEN p
                                         ELSE IF pc[p] = "follow" THEN saw[p]
                                         ELSE @]
  /\ age' = [age EXCEPT ![p] = run[p]]
  /\ Rest(p) /\ UNCHANGED <<key, stage, stray, trouble>>

\* Whom a pod's requests go to: itself, its leaderIP, or nobody (503).
ProxyOrServe(p) == IF leader[p] THEN p
                   ELSE IF leaderID[p] = p THEN None ELSE leaderID[p]

(* ------------------------ time and the pods' life ---------------------- *)

Tick_Underflow ==
  /\ \A p \in Pod : Timed(p) => age[p] < MaxGap
  /\ left' = left - 1
  /\ holder' = IF left' = 0 THEN None ELSE holder
  /\ age' = [p \in Pod |-> IF Timed(p) THEN age[p] + 1 ELSE age[p]]
  /\ run' = [p \in Pod |-> IF pc[p] # "idle" THEN run[p] + 1 ELSE run[p]]
  /\ UNCHANGED <<clobbered, stage, pc, eligible, saw, leader, leaderID, stray,
                 trouble>>
\* Live pods are timely: see the README for when the code is.
Tick ==
  /\ \A p \in Pod : Timed(p) => age[p] < MaxGap
  /\ left' = IF left = 0 THEN 0 ELSE left - 1
  /\ holder' = IF left' = 0 THEN None ELSE holder
  /\ age' = [p \in Pod |-> IF Timed(p) THEN age[p] + 1 ELSE age[p]]
  /\ run' = [p \in Pod |-> IF pc[p] # "idle" THEN run[p] + 1 ELSE run[p]]
  /\ UNCHANGED <<clobbered, stage, pc, eligible, saw, leader, leaderID, stray,
                 trouble>>

\* /drain or preStop: the refresh loop goes on.
BeginDrain(p) ==
  /\ stage[p] = "up" /\ Cardinality({q \in Pod : Leaving(q)}) < MaxLeaving
  /\ stage' = [stage EXCEPT ![p] = "draining"]
  /\ UNCHANGED <<key, loop, result, stray, trouble>>

\* SIGTERM: draining, the loop ends at ctx.Done() and the listener is closed.
Terminate(p) ==
  /\ Live(p) /\ Cardinality({q \in Pod : Leaving(q)} \ {p}) < MaxLeaving
  /\ stage' = [stage EXCEPT ![p] = "ending"]
  /\ UNCHANGED <<key, loop, result, stray, trouble>>

\* select takes the ticker once more: the dial fails, the context is done.
LastTick(p) ==
  /\ stage[p] = "ending" /\ pc[p] = "idle"
  /\ leader' = [leader EXCEPT ![p] = FALSE]
  /\ UNCHANGED <<key, stage, loop, age, leaderID, stray, trouble>>

\* The process ends; a command on its way to Redis may still arrive.
Crash(p) ==
  /\ Running(p) /\ Trouble
  /\ stage' = [stage EXCEPT ![p] = "down"]
  /\ stray' = IF pc[p] \in {"setnx", "setex", "del"}
              THEN stray \cup {<<pc[p], p>>} ELSE stray
  /\ Rest(p) /\ age' = [age EXCEPT ![p] = 0]
  /\ leader' = [leader EXCEPT ![p] = FALSE]
  /\ leaderID' = [leaderID EXCEPT ![p] = None]
  /\ UNCHANGED key

\* The container starts again under the same POD_NAME.
Restart(p) ==
  /\ stage[p] = "down" /\ stage' = [stage EXCEPT ![p] = "up"]
  /\ UNCHANGED <<key, loop, result, stray, trouble>>

Refresh(p) == BeginRefresh(p) \/ Get(p) \/ Execute(p) \/ Store(p)

Life(p) == \/ BeginDrain(p) \/ Terminate(p) \/ LastTick(p)
           \/ Crash(p) \/ Restart(p)

Next == \/ \E p \in Pod : Refresh(p) \/ GetFails(p) \/ TimesOut(p) \/ Life(p)
        \/ \E c \in stray : ExecuteStray(c)
        \/ Tick

Spec == Init /\ [][Next]_vars

\* Time passes, and the loop of a pod that runs goes on.
FairSpec == Spec /\ WF_vars(Tick) /\ \A p \in Pod : WF_vars(Refresh(p))

(* ----------------------------- properties ------------------------------ *)

\* The pods that serve as leaders: their flag is set, their listener is open
\* and they have not just deleted the key.
Serving == {p \in Pod : leader[p] /\ Live(p) /\ pc[p] # "freed"}

\* The flag is cached, yet while the pods are timely and no lease was
\* clobbered, at most one pod serves as leader, and the key is its own: lost
\* answers, crashes, drains and late commands included. SET EX renews blindly
\* after a GET and DEL frees blindly: without failures and restarts neither
\* ever hits a lease that another pod took in between.
OneLeader == /\ ~clobbered => \A p \in Serving : holder = p /\ Serving = {p}
             /\ trouble = 0 => ~clobbered

\* Once the troubles are over, the pods that are up come to agree: one of
\* them leads, holds the key, and every other one forwards to it. A lease that
\* was clobbered is excepted: with slow answers two pods may then overwrite
\* each other's key for ever, each one between a GET and the SET EX after it.
Settled == \E p \in Pod : /\ holder = p
                          /\ \A q \in Pod : stage[q] = "up"
                                            => ProxyOrServe(q) = p
Settling == ~clobbered /\ \E p \in Pod : stage[p] = "up"
Settles == <>[]Settling => <>[]Settled
=============================================================================
