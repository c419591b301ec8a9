--------------------------- MODULE ConfigMapLease ---------------------------
(* The leader lease that the Lab4 services keep in a ConfigMap when they run *)
(* without Redis.                                                            *)
(*   src/Lab/Lab4/cluster/leader.go   LeaderElector                          *)
(*   src/Lab/Lab4/cluster/kube.go     UpdateConfigMapData                    *)
(* The ConfigMap names the leader and when its lease ends. A pod reads it,   *)
(* changes its copy and writes it back; the API server refuses the write     *)
(* (409) when the object changed since, and the pod starts over. Then it     *)
(* reads once more and keeps the result in the flag isLeader. All times are  *)
(* taken from `now`, read once when the refresh begins.                      *)
EXTENDS Integers, FiniteSets

CONSTANTS Pod, None,
          TTL,          \* life of a lease, in ticks
          MaxGap,       \* a live pod starts and ends a refresh within MaxGap
          MaxTries,     \* attempts at the write in one refresh
          MaxTrouble    \* bound: failed calls and crashes

LeaseAssumption == /\ None \notin Pod /\ TTL \in Nat /\ MaxGap \in Nat /\ MaxGap < TTL
                   /\ MaxTries \in Nat \ {0} /\ MaxTrouble \in Nat

VARIABLES holder,    \* leaderID of the ConfigMap, None when it does not exist
          left,      \* ticks until expiresAt, negative after it
          fresh,     \* the pods that read the object as it is: their writes succeed
          stage,     \* up, draining or down
          pc,        \* where the running refresh is
          eligible,  \* what it found when it asked eligible()
          wants,     \* what it will write: take, free or same
          tries, run,\* its attempts so far, and ticks since it began
          age,       \* ticks since the refresh began whose result is stored
          leader,    \* isLeader
          late,      \* writes given up by their pods that may still be carried out
          wrote,     \* history: the pod whose running refresh wrote the lease
          missed,    \* history: a pod won with a lease its refresh did not write
          trouble    \* bound: troubles so far

lease == <<holder, left, fresh>>
loop  == <<pc, eligible, wants, tries, run>>
vars  == <<lease, stage, loop, age, leader, late, wrote, missed, trouble>>

Live(p) == stage[p] # "down"

TypeOK == /\ holder \in Pod \cup {None} /\ left \in -(TTL + 1)..TTL /\ fresh \subseteq Pod
          /\ stage \in [Pod -> {"up", "draining", "down"}]
          /\ pc \in [Pod -> {"idle", "read", "write", "check", "won", "lost"}]
          /\ eligible \in [Pod -> BOOLEAN] /\ wants \in [Pod -> {"same", "take", "free"}]
          /\ tries \in [Pod -> 0..MaxTries] /\ run \in [Pod -> 0..TTL] /\ age \in [Pod -> 0..TTL]
          /\ leader \in [Pod -> BOOLEAN] /\ late \subseteq Pod \X {"take", "free"} \X (0..TTL)
          /\ wrote \subseteq Pod /\ missed \in BOOLEAN /\ trouble \in 0..MaxTrouble

Init == /\ holder = None /\ left = 0 /\ fresh = {}
        /\ stage = [p \in Pod |-> "up"] /\ pc = [p \in Pod |-> "idle"]
        /\ eligible = [p \in Pod |-> TRUE] /\ wants = [p \in Pod |-> "same"]
        /\ tries = [p \in Pod |-> 0] /\ run = [p \in Pod |-> 0] /\ age = [p \in Pod |-> 0]
        /\ leader = [p \in Pod |-> FALSE] /\ late = {} /\ wrote = {} /\ missed = FALSE
        /\ trouble = 0

Trouble == trouble < MaxTrouble /\ trouble' = trouble + 1
Goto(p, step) == pc' = [pc EXCEPT ![p] = step]

(* ------------------------------ refresh -------------------------------- *)

\* Start refreshes, or the ticker fires; `eligible` is !draining.
BeginRefresh(p) ==
  /\ Live(p) /\ pc[p] = "idle" /\ Goto(p, "read")
  /\ eligible' = [eligible EXCEPT ![p] = stage[p] = "up"]
  /\ UNCHANGED <<lease, stage, wants, tries, run, age, leader, late, wrote, missed, trouble>>

\* What mutate makes of the data: `now` is run[p] ticks ago.
Wants(p) ==
  IF ~eligible[p] THEN IF holder = p THEN "free" ELSE "same"
  ELSE IF holder \in {None, p} \/ left + run[p] < 0 THEN "take" ELSE "same"

Read(p) ==
  /\ Live(p) /\ pc[p] = "read" /\ Goto(p, "write")
  /\ wants' = [wants EXCEPT ![p] = Wants(p)] /\ fresh' = fresh \cup {p}
  /\ tries' = [tries EXCEPT ![p] = @ + 1]
  /\ UNCHANGED <<holder, left, stage, eligible, run, age, leader, late, wrote, missed, trouble>>

\* The data of p's copy, whose refresh began `ago` ticks ago. A write that
\* changes nothing leaves the object as it was; any other makes the copies
\* read before, those of writes on their way included, useless.
Put(p, what, ago) ==
  CASE what = "take" -> holder' = p /\ left' = TTL - ago /\ fresh' = {} /\ late' = {}
    [] what = "free" -> holder' = p /\ left' = -1 - ago /\ fresh' = {} /\ late' = {}
    [] what = "same" -> UNCHANGED <<holder, left, late>> /\ fresh' = fresh \ {p}
Wrote(p, what) == wrote' = CASE what = "take" -> {p} [] what = "free" -> {} [] what = "same" -> wrote

\* PUT with the resourceVersion of the copy: 409 means read again.
Write_Blind(p) ==
  /\ Live(p) /\ pc[p] = "write" /\ Put(p, wants[p], run[p]) /\ Goto(p, "check")
  /\ Wrote(p, wants[p])
  /\ UNCHANGED <<stage, eligible, wants, tries, run, age, leader, missed, trouble>>
Write(p) ==
  /\ Live(p) /\ pc[p] = "write"
  /\ IF p \in fresh
     THEN Put(p, wants[p], run[p]) /\ Wrote(p, wants[p]) /\ Goto(p, "check")
     ELSE /\ Goto(p, IF tries[p] < MaxTries THEN "read" ELSE "check")
          /\ UNCHANGED <<lease, late, wrote>>
  /\ UNCHANGED <<stage, eligible, wants, tries, run, age, leader, missed, trouble>>

\* The read or the write fails, or its answer does not come: a write may
\* still be carried out, if nothing else changed the object before.
UpdateFails(p) ==
  /\ Live(p) /\ pc[p] \in {"read", "write"} /\ Trouble /\ Goto(p, "check")
  /\ late' = IF pc[p] = "write" /\ p \in fresh /\ wants[p] # "same"
             THEN late \cup {<<p, wants[p], run[p]>>} ELSE late
  /\ UNCHANGED <<lease, stage, eligible, wants, tries, run, age, leader, wrote, missed>>
LateWrite(w) ==
  /\ w \in late /\ Put(w[1], w[2], w[3])
  /\ wrote' = IF w[2] = "take" /\ pc[w[1]] = "check" /\ w[3] = run[w[1]] THEN {w[1]} ELSE {}
  /\ UNCHANGED <<stage, loop, age, leader, missed, trouble>>

\* The ConfigMap is read again: is the lease this pod's, and not over?
Check(p) ==
  /\ Live(p) /\ pc[p] = "check"
  /\ Goto(p, IF eligible[p] /\ holder = p /\ left > 0 THEN "won" ELSE "lost")
  /\ missed' = (missed \/ (pc'[p] = "won" /\ p \notin wrote))
  /\ UNCHANGED <<lease, stage, eligible, wants, tries, run, age, leader, late, wrote, trouble>>
CheckFails(p) ==
  /\ Live(p) /\ pc[p] = "check" /\ Trouble /\ Goto(p, "lost")
  /\ UNCHANGED <<lease, stage, eligible, wants, tries, run, age, leader, late, wrote, missed>>

\* Between two refreshes the variables of refresh are gone.
Rest(p) == /\ Goto(p, "idle") /\ run' = [run EXCEPT ![p] = 0]
           /\ eligible' = [eligible EXCEPT ![p] = TRUE]
           /\ wants' = [wants EXCEPT ![p] = "same"] /\ tries' = [tries EXCEPT ![p] = 0]
           /\ wrote' = wrote \ {p}
Store(p) ==
  /\ Live(p) /\ pc[p] \in {"won", "lost"}
  /\ leader' = [leader EXCEPT ![p] = pc[p] = "won"]
  /\ age' = [age EXCEPT ![p] = run[p]] /\ Rest(p)
  /\ UNCHANGED <<lease, stage, late, missed, trouble>>

(* ------------------------ time and the pods' life ---------------------- *)

Tick ==
  /\ \A p \in Pod : Live(p) => age[p] < MaxGap
  /\ left' = IF holder = None \/ left = -(TTL + 1) THEN left ELSE left - 1
  /\ age' = [p \in Pod |-> IF Live(p) THEN age[p] + 1 ELSE age[p]]
  /\ run' = [p \in Pod |-> IF pc[p] # "idle" THEN run[p] + 1 ELSE run[p]]
  /\ late' = {<<w[1], w[2], w[3] + 1>> : w \in {v \in late : v[3] < TTL}}
  /\ UNCHANGED <<holder, fresh, stage, pc, eligible, wants, tries, leader, wrote, missed, trouble>>

BeginDrain(p) ==
  /\ stage[p] = "up" /\ \A q \in Pod : stage[q] # "draining"
  /\ stage' = [stage EXCEPT ![p] = "draining"]
  /\ UNCHANGED <<lease, loop, age, leader, late, wrote, missed, trouble>>
Crash(p) ==
  /\ Live(p) /\ Trouble /\ stage' = [stage EXCEPT ![p] = "down"]
  /\ late' = IF pc[p] = "write" /\ p \in fresh /\ wants[p] # "same"
             THEN late \cup {<<p, wants[p], run[p]>>} ELSE late
  /\ Rest(p) /\ age' = [age EXCEPT ![p] = 0] /\ leader' = [leader EXCEPT ![p] = FALSE]
  /\ UNCHANGED <<lease, missed>>
Restart(p) ==
  /\ stage[p] = "down" /\ stage' = [stage EXCEPT ![p] = "up"]
  /\ UNCHANGED <<lease, loop, age, leader, late, wrote, missed, trouble>>

Refresh(p) == BeginRefresh(p) \/ Read(p) \/ Write(p) \/ Check(p) \/ Store(p)
Next == \/ \E p \in Pod : \/ Refresh(p) \/ UpdateFails(p) \/ CheckFails(p)
                          \/ BeginDrain(p) \/ Crash(p) \/ Restart(p)
        \/ \E w \in late : LateWrite(w)
        \/ Tick
Spec == Init /\ [][Next]_vars

(* ----------------------------- properties ------------------------------ *)

\* A pod that drains ends its lease before it clears its flag: until then it
\* still serves, and is not counted.
Serving == {p \in Pod : leader[p] /\ Live(p) /\ ~(stage[p] = "draining" /\ pc[p] # "idle")}

\* The flag is cached, yet while the pods are timely and no pod whose renewal
\* failed was elected by the lease of an earlier refresh that still ran, at
\* most one pod serves as leader, and the ConfigMap names it.
OneKubeLeader == ~missed => \A p \in Serving : holder = p /\ Serving = {p}
=============================================================================
