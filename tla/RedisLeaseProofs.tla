-------------------------- MODULE RedisLeaseProofs --------------------------
(***************************************************************************)
(* Proofs about RedisLease, for any pods, any life of the key that is      *)
(* longer than a refresh of a timely pod, and any number of troubles: at   *)
(* most one pod serves as leader, and without troubles no pod ever hits a  *)
(* lease that is not its own.  Then about other programs that act on what  *)
(* a peer last told them: the rooms ReliableRoom, Duel, ZombieRoom and     *)
(* TurnLoop, which serve connections that come, fall silent and break, and *)
(* the two peers of Lockstep.                                              *)
(***************************************************************************)
EXTENDS RedisLease, FiniteSetTheorems, SequenceTheorems, TLAPS

\* A refresh is no older than the result before it, which is at most MaxGap old.
Timely == \A p \in Pod : /\ run[p] <= age[p] /\ age[p] <= MaxGap
                         /\ pc[p] = "idle" => run[p] = 0

\* A pod that is down has no refresh, and will not come up as leader.
DownForgets == \A p \in Pod : stage[p] = "down" => pc[p] = "idle" /\ ~leader[p]

\* The key was set after the refresh began whose answer a pod holds, so that it
\* lives at least as long as the answer may be relied on.
ServesOwn == \A p \in Serving : holder = p /\ left >= TTL - age[p]
WonOwn == \A p \in Pod : pc[p] = "won" => holder = p /\ left >= TTL - run[p]
Backed == ~clobbered => ServesOwn /\ WonOwn

\* Without troubles a pod renews or frees a key that it read as its own and that
\* cannot have run out since.
MeantOwn == \A p \in Pod : /\ pc[p] \in {"setex", "del"} => holder = p
                           /\ pc[p] \in {"setnx", "lost", "follow", "freed"} => holder # p
OwnLasts == \A p \in Pod : holder = p /\ Timed(p) => left >= TTL - age[p]
Untroubled == trouble = 0 => /\ ~clobbered /\ stray = {} /\ \A p \in Pod : stage[p] # "down"
                             /\ MeantOwn /\ OwnLasts

\* The inductive invariant.
IInv == TypeOK /\ Timely /\ DownForgets /\ Backed /\ Untroubled

-----------------------------------------------------------------------------
(* Types and times. *)

Bounded == TypeOK /\ Timely /\ DownForgets

LEMMA InitIInv ==
    ASSUME LeaseAssumption, Init
    PROVE  IInv
<1>1. TypeOK
  <2>1. left \in 0..TTL /\ trouble \in 0..MaxTrouble
        /\ run \in [Pod -> 0..TTL] /\ age \in [Pod -> 0..TTL]
    BY DEF LeaseAssumption, Init
  <2> QED BY <2>1, Zenon DEF Init, TypeOK, Stage, Step
<1>2. Timely
  BY DEF LeaseAssumption, Init, Timely
<1>3. DownForgets /\ Backed
  BY DEF Init, DownForgets, Backed, ServesOwn, WonOwn, Serving
<1>4. Untroubled
  BY DEF LeaseAssumption, Init, Untroubled, MeantOwn, OwnLasts
<1> QED BY <1>1, <1>2, <1>3, <1>4 DEF IInv

\* What a command does to the key leaves it a key.
LEMMA KeyTyped ==
    ASSUME LeaseAssumption, TypeOK, NEW p \in Pod \cup {None},
           (p \in Pod /\ (SetNXEX(p) \/ SetEX(p))) \/ Del(p)
    PROVE  holder' \in Pod \cup {None} /\ left' \in 0..TTL /\ clobbered' \in BOOLEAN
<1>1. holder' \in Pod \cup {None} /\ left' \in 0..TTL
  BY DEF LeaseAssumption, TypeOK, SetNXEX, SetEX, Del, Grant
<1>2. clobbered' \in BOOLEAN
  BY Zenon DEF TypeOK, SetNXEX, SetEX, Del
<1> QED BY <1>1, <1>2

\* The steps of a refresh before its result is stored.
LEMMA AskStep ==
    ASSUME LeaseAssumption, Bounded, NEW p \in Pod,
           BeginRefresh(p) \/ Get(p) \/ GetFails(p) \/ Execute(p) \/ TimesOut(p)
    PROVE  Bounded'
<1> USE DEF Bounded
<1>1. CASE BeginRefresh(p)
  BY <1>1 DEF BeginRefresh, TypeOK, Timely, DownForgets, Live, Step, key, result
<1>2. CASE Get(p)
  <2>1. pc' \in [Pod -> Step] /\ stage[p] # "down" /\ pc'[p] # "idle"
        /\ \A q \in Pod \ {p} : pc'[q] = pc[q]
    BY <1>2 DEF Get, AfterGet, Running, TypeOK, Step
  <2>2. saw' \in [Pod -> Pod \cup {None}] /\ trouble' \in 0..MaxTrouble
    BY <1>2 DEF Get, Trouble, TypeOK, LeaseAssumption
  <2> QED BY <1>2, <2>1, <2>2 DEF Get, TypeOK, Timely, DownForgets, key, result
<1>3. CASE GetFails(p)
  BY <1>3 DEF GetFails, Running, Trouble, TypeOK, Timely, DownForgets, Step, key, result,
              LeaseAssumption
<1>4. CASE Execute(p)
  <2>1. holder' \in Pod \cup {None} /\ left' \in 0..TTL /\ clobbered' \in BOOLEAN
    BY <1>4, KeyTyped DEF Execute
  <2>2. pc' \in [Pod -> Step] /\ stage[p] # "down" /\ pc'[p] # "idle"
        /\ \A q \in Pod \ {p} : pc'[q] = pc[q]
    BY <1>4 DEF Execute, Running, TypeOK, Step
  <2> QED BY <1>4, <2>1, <2>2 DEF Execute, TypeOK, Timely, DownForgets, result
<1>5. CASE TimesOut(p)
  <2>1. stray' \subseteq {"setnx", "setex", "del"} \X Pod
    <3>1. <<pc[p], p>> \in {"setnx", "setex", "del"} \X Pod
      BY <1>5 DEF TimesOut
    <3> QED BY <1>5, <3>1 DEF TimesOut, TypeOK
  <2>2. pc' \in [Pod -> Step] /\ trouble' \in 0..MaxTrouble
    BY <1>5 DEF TimesOut, Trouble, TypeOK, Step, LeaseAssumption
  <2> QED BY <1>5, <2>1, <2>2 DEF TimesOut, Running, TypeOK, Timely, DownForgets, key, result
<1> QED BY <1>1, <1>2, <1>3, <1>4, <1>5

LEMMA StoreBounded ==
    ASSUME LeaseAssumption, Bounded, NEW p \in Pod, Store(p)
    PROVE  Bounded'
BY DEF Bounded, Store, Rest, Running, TypeOK, Timely, DownForgets, Step, key, LeaseAssumption

LEMMA StrayBounded ==
    ASSUME LeaseAssumption, Bounded, NEW c \in stray, ExecuteStray(c)
    PROVE  Bounded'
<1>1. c[1] \in {"setnx", "setex", "del"} /\ c[2] \in Pod
  BY DEF Bounded, TypeOK
<1>2. (SetNXEX(c[2]) \/ SetEX(c[2])) \/ Del(None)
  BY <1>1 DEF ExecuteStray
<1>3. holder' \in Pod \cup {None} /\ left' \in 0..TTL /\ clobbered' \in BOOLEAN
  BY <1>1, <1>2, KeyTyped DEF Bounded
<1> QED BY <1>3 DEF ExecuteStray, Bounded, TypeOK, Timely, DownForgets, loop, result

LEMMA TickBounded ==
    ASSUME LeaseAssumption, Bounded, Tick
    PROVE  Bounded'
<1> USE DEF Bounded
<1>1. left' \in 0..TTL /\ holder' \in Pod \cup {None}
  BY DEF Tick, TypeOK, LeaseAssumption
<1>2. \A p \in Pod : /\ age'[p] = IF Timed(p) THEN age[p] + 1 ELSE age[p]
                     /\ run'[p] = IF pc[p] # "idle" THEN run[p] + 1 ELSE run[p]
                     /\ age[p] \in Nat /\ run[p] \in Nat
  BY DEF Tick, TypeOK
<1>3. \A p \in Pod : run'[p] <= age'[p] /\ age'[p] <= MaxGap
  BY <1>2 DEF Tick, TypeOK, Timely, Timed, LeaseAssumption
<1>4. age' \in [Pod -> 0..TTL] /\ run' \in [Pod -> 0..TTL]
  BY <1>2, <1>3 DEF Tick, TypeOK, Timely, LeaseAssumption
<1>5. Timely'
  BY <1>2, <1>3 DEF Tick, Timely
<1> QED BY <1>1, <1>4, <1>5 DEF Tick, TypeOK, DownForgets

LEMMA LifeBounded ==
    ASSUME LeaseAssumption, Bounded, NEW p \in Pod, Life(p)
    PROVE  Bounded'
<1> USE DEF Bounded, Timely, DownForgets, Live, Running, Stage
<1>1. CASE BeginDrain(p)
  BY <1>1 DEF BeginDrain, TypeOK, key, loop, result
<1>2. CASE Terminate(p)
  BY <1>2 DEF Terminate, TypeOK, key, loop, result
<1>3. CASE LastTick(p)
  BY <1>3 DEF LastTick, TypeOK, key, loop
<1>4. CASE Crash(p)
  BY <1>4 DEF Crash, Rest, Trouble, TypeOK, key, Step, LeaseAssumption
<1>5. CASE Restart(p)
  BY <1>5 DEF Restart, TypeOK, key, loop, result
<1> QED BY <1>1, <1>2, <1>3, <1>4, <1>5 DEF Life

LEMMA StepBounded ==
    ASSUME LeaseAssumption, Bounded, [Next]_vars
    PROVE  Bounded'
<1>1. CASE UNCHANGED vars
  BY <1>1 DEF Bounded, TypeOK, Timely, DownForgets, vars, key, loop, result
<1>2. CASE Next
  BY <1>2, AskStep, StoreBounded, StrayBounded, TickBounded, LifeBounded DEF Next, Refresh
<1> QED BY <1>1, <1>2

-----------------------------------------------------------------------------
(* The key belongs to whoever serves. *)

\* As long as no lease was clobbered, nobody serves and nobody has just won it
\* while the key is absent, and nobody but its holder while it is there.
LEMMA OnlyHolder ==
    ASSUME LeaseAssumption, TypeOK, Backed, ~clobbered, NEW q \in Pod,
           q \in Serving \/ pc[q] = "won"
    PROVE  holder = q /\ holder # None
BY DEF LeaseAssumption, Backed, ServesOwn, WonOwn

LEMMA AskBacked ==
    ASSUME LeaseAssumption, Bounded, Backed, NEW p \in Pod,
           BeginRefresh(p) \/ Get(p) \/ GetFails(p) \/ TimesOut(p)
    PROVE  Backed'
<1>1. /\ UNCHANGED <<key, stage, run, result>> /\ pc[p] \in {"idle", "get", "setnx", "setex", "del"}
      /\ pc' \in [Pod -> Step] /\ pc'[p] \notin {"won", "freed"}
      /\ \A q \in Pod \ {p} : pc'[q] = pc[q]
  BY DEF Bounded, TypeOK, Step, BeginRefresh, Get, AfterGet, GetFails, TimesOut, result
<1>2. Serving' = Serving
  BY <1>1 DEF Serving, Live, result
<1> QED BY <1>1, <1>2 DEF Backed, ServesOwn, WonOwn, key, result

LEMMA ExecuteBacked ==
    ASSUME LeaseAssumption, Bounded, Backed, NEW p \in Pod, Execute(p)
    PROVE  Backed'
<1> SUFFICES ASSUME ~clobbered' PROVE ServesOwn' /\ WonOwn'
  BY DEF Backed
<1>1. ~clobbered
  BY DEF Execute, SetNXEX, SetEX, Del
<1>2. \A q \in Pod : q \in Serving \/ pc[q] = "won" => holder = q /\ holder # None
  BY <1>1, OnlyHolder DEF Bounded
<1>3. UNCHANGED <<stage, leader, age, run>> /\ (\A q \in Pod \ {p} : pc'[q] = pc[q])
  BY DEF Execute, result, Bounded, TypeOK
<1>4. \A q \in Pod : age[q] \in Nat /\ run[q] \in Nat
  BY DEF Bounded, TypeOK
<1>5. CASE pc[p] = "setnx"
  <2>1. SetNXEX(p) /\ pc'[p] = IF holder = None THEN "won" ELSE "lost"
    BY <1>5 DEF Execute, Bounded, TypeOK
  <2>2. Serving' = Serving
    BY <1>3, <1>5, <2>1 DEF Serving, Live
  <2>3. CASE holder = None
    <3>1. Serving' = {} /\ \A q \in Pod \ {p} : pc'[q] # "won"
      BY <1>2, <1>3, <2>2, <2>3 DEF Serving
    <3>2. holder' = p /\ left' = TTL
      BY <2>1, <2>3 DEF SetNXEX, Grant
    <3> QED BY <1>3, <1>4, <3>1, <3>2 DEF ServesOwn, WonOwn, LeaseAssumption
  <2>4. CASE holder # None
    BY <1>1, <1>3, <2>1, <2>2, <2>4 DEF SetNXEX, Backed, ServesOwn, WonOwn
  <2> QED BY <2>3, <2>4
<1>6. CASE pc[p] = "setex"
  <2>1. SetEX(p) /\ pc'[p] = "won"
    BY <1>6 DEF Execute, Bounded, TypeOK
  <2>2. holder' = p /\ left' = TTL /\ holder \in {None, p}
    BY <2>1 DEF SetEX, Grant
  <2>3. \A q \in Pod : q \in Serving' \/ pc'[q] = "won" => q = p
    BY <1>2, <1>3, <1>6, <2>1, <2>2 DEF Serving, Live
  <2> QED BY <1>3, <1>4, <2>2, <2>3 DEF ServesOwn, WonOwn, Serving, LeaseAssumption
<1>7. CASE pc[p] = "del"
  <2>1. Del(p) /\ pc'[p] = "freed"
    BY <1>7 DEF Execute, Bounded, TypeOK
  <2>2. holder \in {None, p}
    BY <2>1 DEF Del
  <2>3. \A q \in Pod : q \notin Serving' /\ pc'[q] # "won"
    BY <1>2, <1>3, <1>7, <2>1, <2>2 DEF Serving, Live
  <2> QED BY <2>3 DEF ServesOwn, WonOwn, Serving
<1> QED BY <1>5, <1>6, <1>7 DEF Execute

\* The answer becomes the result, as old as the refresh.
LEMMA StoreBacked ==
    ASSUME LeaseAssumption, Bounded, Backed, NEW p \in Pod, Store(p)
    PROVE  Backed'
<1>1. /\ \A q \in Pod \ {p} : /\ pc'[q] = pc[q] /\ age'[q] = age[q] /\ run'[q] = run[q]
                              /\ leader'[q] = leader[q]
      /\ pc'[p] = "idle" /\ age'[p] = run[p] /\ (leader'[p] => pc[p] = "won")
      /\ UNCHANGED <<key, stage>>
  BY DEF Store, Rest, Bounded, TypeOK
<1> QED BY <1>1 DEF Backed, ServesOwn, WonOwn, Serving, Live, key

LEMMA StrayBacked ==
    ASSUME LeaseAssumption, Bounded, Backed, NEW c \in stray, ExecuteStray(c)
    PROVE  Backed'
<1> SUFFICES ASSUME ~clobbered' PROVE ServesOwn' /\ WonOwn'
  BY DEF Backed
<1>1. c[1] \in {"setnx", "setex", "del"} /\ c[2] \in Pod
  BY DEF Bounded, TypeOK
<1>2. SetNXEX(c[2]) \/ SetEX(c[2]) \/ Del(None)
  BY <1>1 DEF ExecuteStray
<1>3. ~clobbered
  BY <1>2 DEF SetNXEX, SetEX, Del
<1>4. \A q \in Pod : q \in Serving \/ pc[q] = "won" => holder = q /\ holder # None
  BY <1>3, OnlyHolder DEF Bounded
<1>5. Serving' = Serving /\ UNCHANGED <<pc, age, run>>
  BY DEF ExecuteStray, Serving, Live, loop, result
<1>6. \A q \in Pod : q \in Serving \/ pc[q] = "won" => holder' = q /\ left' \in {left, TTL}
  BY <1>2, <1>4 DEF SetNXEX, SetEX, Del, Grant
<1>7. \A q \in Pod : age[q] \in Nat /\ run[q] \in Nat
  BY DEF Bounded, TypeOK
<1> QED BY <1>3, <1>5, <1>6, <1>7 DEF Backed, ServesOwn, WonOwn, Serving, LeaseAssumption

\* The result and the refresh of a pod that serves or has won age with the key,
\* and neither may be older than MaxGap: the key does not run out.
LEMMA TickBacked ==
    ASSUME LeaseAssumption, Bounded, Backed, Tick
    PROVE  Backed'
<1> SUFFICES ASSUME ~clobbered' PROVE ServesOwn' /\ WonOwn'
  BY DEF Backed
<1>1. ~clobbered /\ Serving' = Serving /\ pc' = pc
  BY DEF Tick, Serving, Live
<1>2. ASSUME NEW q \in Pod, Timed(q)
      PROVE  /\ age[q] \in Nat /\ run[q] \in Nat /\ run[q] <= age[q] /\ age[q] < MaxGap
             /\ age'[q] = age[q] + 1 /\ (pc[q] # "idle" => run'[q] = run[q] + 1)
  BY <1>2 DEF Tick, Bounded, TypeOK, Timely
<1>3. \A q \in Serving : Timed(q)
  BY DEF Serving, Timed
<1>4. ASSUME NEW n \in Nat, n < MaxGap, left >= TTL - n
      PROVE  left' = left - 1 /\ left' >= TTL - (n + 1) /\ left' # 0 /\ holder' = holder
  BY <1>4 DEF Tick, Bounded, TypeOK, LeaseAssumption
<1>5. ServesOwn'
  BY <1>1, <1>2, <1>3, <1>4 DEF Backed, ServesOwn, Serving
<1>6. ASSUME NEW q \in Pod, pc[q] = "won"
      PROVE  holder' = q /\ left' >= TTL - run'[q]
  <2>1. Timed(q) /\ holder = q /\ left >= TTL - run[q]
    BY <1>1, <1>6 DEF Timed, Backed, WonOwn
  <2>2. run[q] \in Nat /\ run[q] < MaxGap /\ run'[q] = run[q] + 1
    BY <1>2, <1>6, <2>1 DEF LeaseAssumption
  <2> QED BY <1>4, <2>1, <2>2
<1> QED BY <1>1, <1>5, <1>6 DEF WonOwn

LEMMA LifeBacked ==
    ASSUME LeaseAssumption, Bounded, Backed, NEW p \in Pod, Life(p)
    PROVE  Backed'
<1>1. /\ UNCHANGED key
      /\ \A q \in Pod \ {p} : /\ stage'[q] = stage[q] /\ pc'[q] = pc[q] /\ age'[q] = age[q]
                              /\ run'[q] = run[q] /\ leader'[q] = leader[q]
  BY DEF Life, BeginDrain, Terminate, LastTick, Crash, Restart, Rest, loop, result, key,
         Bounded, TypeOK
<1>2. /\ pc'[p] \in {pc[p], "idle"} /\ (pc'[p] = "won" => run'[p] = run[p])
      /\ p \in Serving' => p \in Serving /\ age'[p] = age[p]
  BY DEF Life, BeginDrain, Terminate, LastTick, Crash, Restart, Rest, loop, result,
         Bounded, TypeOK, DownForgets, Serving, Live, Stage
<1> QED BY <1>1, <1>2 DEF Backed, ServesOwn, WonOwn, Serving, Live, key
LEMMA StepBacked ==
    ASSUME LeaseAssumption, Bounded, Backed, [Next]_vars
    PROVE  Backed'
<1>1. CASE UNCHANGED vars
  BY <1>1 DEF Backed, ServesOwn, WonOwn, Serving, Live, vars, key, loop, result
<1>2. CASE Next
  BY <1>2, AskBacked, ExecuteBacked, StoreBacked, StrayBacked, TickBacked, LifeBacked
     DEF Next, Refresh
<1> QED BY <1>1, <1>2

-----------------------------------------------------------------------------
(* Without troubles nobody's lease is clobbered. *)

LEMMA AskUntroubled ==
    ASSUME LeaseAssumption, Bounded, Untroubled, NEW p \in Pod,
           BeginRefresh(p) \/ Get(p) \/ GetFails(p) \/ TimesOut(p)
    PROVE  Untroubled'
<1> SUFFICES ASSUME trouble' = 0 PROVE Untroubled'
  BY DEF Untroubled
<1>1. trouble = 0 /\ (BeginRefresh(p) \/ Get(p))
  BY DEF BeginRefresh, Get, GetFails, TimesOut, Trouble, Bounded, TypeOK
<1>2. /\ pc[p] = "get" \/ (pc[p] \in {"idle", "get"} /\ Live(p))
      /\ \/ pc' = [pc EXCEPT ![p] = "get"]
         \/ pc' = [pc EXCEPT ![p] = AfterGet(p, holder)]
  BY <1>1 DEF BeginRefresh, Get, Trouble, Bounded, TypeOK
<1>3. /\ pc'[p] \in {"setex", "del"} => holder = p
      /\ pc'[p] \in {"setnx", "lost", "follow", "freed"} => holder # p
      /\ \A q \in Pod \ {p} : pc'[q] = pc[q]
  BY <1>2 DEF AfterGet, Bounded, TypeOK, LeaseAssumption
<1>4. UNCHANGED <<key, stage, age, stray>>
  BY <1>1 DEF BeginRefresh, Get, result
<1>5. \A q \in Pod : Timed(q)' => Timed(q)
  BY <1>2, <1>3, <1>4 DEF Timed, Live
<1> QED BY <1>1, <1>3, <1>4, <1>5 DEF Untroubled, MeantOwn, OwnLasts, key

LEMMA ExecuteUntroubled ==
    ASSUME LeaseAssumption, Bounded, Untroubled, NEW p \in Pod, Execute(p)
    PROVE  Untroubled'
<1> SUFFICES ASSUME trouble' = 0 PROVE Untroubled'
  BY DEF Untroubled
<1>1. trouble = 0 /\ UNCHANGED <<stage, age, stray>> /\ (\A q \in Pod \ {p} : pc'[q] = pc[q])
  BY DEF Execute, result, Bounded, TypeOK
<1>2. /\ \A q \in Pod : age[q] \in Nat /\ (Timed(q)' => Timed(q))
      /\ TTL \in Nat /\ p # None /\ None \notin Pod
  BY <1>1 DEF Execute, Bounded, TypeOK, Timed, Live, LeaseAssumption
<1>3. CASE pc[p] = "setnx"
  <2>1. /\ IF holder = None THEN holder' = p /\ left' = TTL ELSE UNCHANGED <<holder, left>>
        /\ pc'[p] = IF holder = None THEN "won" ELSE "lost"
        /\ UNCHANGED clobbered
    BY <1>3 DEF Execute, SetNXEX, Grant, Bounded, TypeOK
  <2>2. MeantOwn'
    BY <1>1, <1>2, <1>3, <2>1 DEF Untroubled, MeantOwn
  <2>3. OwnLasts'
    BY <1>1, <1>2, <2>1 DEF Untroubled, OwnLasts
  <2> QED BY <1>1, <2>1, <2>2, <2>3 DEF Untroubled
<1>4. CASE pc[p] = "setex"
  <2>1. holder' = p /\ holder = p /\ left' = TTL /\ pc'[p] = "won" /\ ~clobbered'
    BY <1>1, <1>4 DEF Execute, SetEX, Grant, Bounded, TypeOK, Untroubled, MeantOwn
  <2> QED BY <1>1, <1>2, <2>1 DEF Untroubled, MeantOwn, OwnLasts
<1>5. CASE pc[p] = "del"
  <2>1. holder' = None /\ holder = p /\ pc'[p] = "freed" /\ ~clobbered'
    BY <1>1, <1>5 DEF Execute, Del, Bounded, TypeOK, Untroubled, MeantOwn
  <2> QED BY <1>1, <1>2, <2>1 DEF Untroubled, MeantOwn, OwnLasts
<1> QED BY <1>3, <1>4, <1>5 DEF Execute

LEMMA StoreUntroubled ==
    ASSUME LeaseAssumption, Bounded, Backed, Untroubled, NEW p \in Pod, Store(p)
    PROVE  Untroubled'
<1> SUFFICES ASSUME trouble' = 0 PROVE Untroubled'
  BY DEF Untroubled
<1>1. /\ trouble = 0 /\ UNCHANGED <<key, stage, stray>>
      /\ pc'[p] = "idle" /\ age'[p] = run[p]
      /\ pc[p] \in {"won", "lost", "freed", "follow"}
      /\ \A q \in Pod \ {p} : pc'[q] = pc[q] /\ age'[q] = age[q]
  BY DEF Store, Rest, Bounded, TypeOK
<1>2. holder = p => left >= TTL - run[p]
  BY <1>1 DEF Untroubled, MeantOwn, Backed, WonOwn
<1>3. \A q \in Pod : Timed(q)' => Timed(q)
  BY <1>1 DEF Timed, Live
<1> QED BY <1>1, <1>2, <1>3 DEF Untroubled, MeantOwn, OwnLasts, key

\* A key that a pod means to renew or to free outlives the pod's refresh.
LEMMA TickUntroubled ==
    ASSUME LeaseAssumption, Bounded, Untroubled, Tick
    PROVE  Untroubled'
<1> SUFFICES ASSUME trouble' = 0 PROVE Untroubled'
  BY DEF Untroubled
<1>1. trouble = 0 /\ UNCHANGED <<clobbered, stage, pc, stray>>
  BY DEF Tick
<1>2. ASSUME NEW q \in Pod, Timed(q), holder = q
      PROVE  holder' = q /\ left' >= TTL - age'[q]
  <2>1. age[q] \in Nat /\ age[q] < MaxGap /\ age'[q] = age[q] + 1 /\ left >= TTL - age[q]
    BY <1>1, <1>2 DEF Tick, Bounded, TypeOK, Untroubled, OwnLasts
  <2> QED BY <1>2, <2>1 DEF Tick, Bounded, TypeOK, LeaseAssumption
<1>3. \A q \in Pod : (Timed(q)' <=> Timed(q)) /\ (holder' = q => holder = q)
  BY <1>1 DEF Tick, Timed, Live, LeaseAssumption
<1>4. MeantOwn'
  BY <1>1, <1>2, <1>3 DEF Untroubled, MeantOwn, Timed
<1>5. OwnLasts'
  BY <1>2, <1>3 DEF OwnLasts
<1> QED BY <1>1, <1>4, <1>5 DEF Untroubled

LEMMA LifeUntroubled ==
    ASSUME LeaseAssumption, Bounded, Untroubled, NEW p \in Pod, Life(p)
    PROVE  Untroubled'
<1> SUFFICES ASSUME trouble' = 0 PROVE Untroubled'
  BY DEF Untroubled
<1>1. trouble = 0 /\ (BeginDrain(p) \/ Terminate(p) \/ LastTick(p))
  BY DEF Life, BeginDrain, Terminate, LastTick, Crash, Restart, Trouble, Bounded, TypeOK,
         Untroubled
<1>2. /\ UNCHANGED <<key, pc, age, stray>>
      /\ \A q \in Pod : stage'[q] # "down" /\ (Live(q)' => Live(q))
  BY <1>1 DEF BeginDrain, Terminate, LastTick, Live, loop, result, Bounded, TypeOK, Untroubled
<1> QED BY <1>1, <1>2 DEF Untroubled, MeantOwn, OwnLasts, Timed, key

LEMMA StepUntroubled ==
    ASSUME LeaseAssumption, Bounded, Backed, Untroubled, [Next]_vars
    PROVE  Untroubled'
<1>1. CASE UNCHANGED vars
  BY <1>1 DEF Untroubled, MeantOwn, OwnLasts, Timed, Live, vars, key, loop, result
<1>2. CASE Next
  <2>1. ASSUME NEW c \in stray, ExecuteStray(c) PROVE Untroubled'
    BY <2>1 DEF ExecuteStray, Untroubled
  <2> QED BY <1>2, <2>1, AskUntroubled, ExecuteUntroubled, StoreUntroubled, TickUntroubled,
             LifeUntroubled DEF Next, Refresh
<1> QED BY <1>1, <1>2

-----------------------------------------------------------------------------
(* The theorems. *)

LEMMA Invariance ==
    ASSUME LeaseAssumption
    PROVE  Spec => []IInv
<1>1. Init => IInv
  BY InitIInv
<1>2. IInv /\ [Next]_vars => IInv'
  BY StepBounded, StepBacked, StepUntroubled DEF IInv, Bounded
<1> QED BY <1>1, <1>2, PTL DEF Spec

\* The variables keep their types: no key outlives its TTL, and no refresh and no
\* result of a timely pod is older than the key may be.
THEOREM TypeCorrect ==
    ASSUME LeaseAssumption
    PROVE  Spec => []TypeOK
<1>1. IInv => TypeOK
  BY DEF IInv
<1> QED BY <1>1, Invariance, PTL

\* refresh stores what it learnt from Redis in a flag that handlers read later.
\* However commands, answers, drains, crashes and late commands interleave, one
\* pod at most serves as leader, unless a blind SET EX or DEL hit the lease of
\* another pod. And that needs a failure: a lease that a timely pod read as its
\* own cannot have become another pod's since.
THEOREM OneLeaderAtATime ==
    ASSUME LeaseAssumption
    PROVE  Spec => []OneLeader
<1>1. IInv => OneLeader
  BY DEF IInv, Backed, ServesOwn, Untroubled, OneLeader
<1> QED BY <1>1, Invariance, PTL

-----------------------------------------------------------------------------
(*                                                                         *)
(* The room of ch3 (ReliableRoom), whose workers look in time at the       *)
(* connection they were started for.                                       *)
(*                                                                         *)
CONSTANTS Player, MaxConns, Beat, MaxIdle
VARIABLES client, conn, inbox, since, rc, online, silent, inputs, acceptor, worker, reads,
          targets, failed, panicked
Room == INSTANCE ReliableRoom WITH Prompt <- TRUE, age <- silent

Conns   == Room!Conn
Reading == {"reading", "timeout", "error", "beat", "input"}
At(n)   == n[1]       \* the player of a connection

\* A player's connection is open, and a worker reads it or is about to.
Owned == \A p \in Player : rc[p] # None =>
           /\ At(rc[p]) = p /\ conn[rc[p]] = "open"
           /\ acceptor = rc[p] \/ worker[rc[p]] \in {"start"} \cup Reading

\* A worker comes after the accept, finds the connection it was started for
\* and reads no other; what it has seen stays true.
Ended(n) == conn[n] = "shut" \/ client[n] = "closed"
Workers ==
    \A w \in Conns : /\ client[w] = "unborn" => conn[w] = "none"
                     /\ conn[w] \in {"none", "backlog"} => worker[w] = "none"
                     /\ worker[w] = "start" => rc[At(w)] = w
                     /\ worker[w] \in Reading => reads[w] = w
                     /\ worker[w] = "error" => Ended(w)
Accepted == acceptor # None => rc[At(acceptor)] = acceptor /\ worker[acceptor] = "none"
Failing  == failed # None => Ended(failed)

\* Time: a live client that nothing is heard of was heard less than Beat ago,
\* and the answer to a read that timed out is not overtaken by time.
Alive(p) == rc[p] # None /\ client[rc[p]] = "alive"
Heard == \A p \in Player : Alive(p) /\ rc[p] \notin inbox /\ worker[rc[p]] \notin {"beat", "input"}
           => silent[p] <= since[rc[p]]
InTime == \A p \in Player : Alive(p) /\ worker[rc[p]] = "timeout" => silent[p] <= MaxIdle

RInv == Room!TypeOK /\ Owned /\ Workers /\ Accepted /\ Failing /\ Heard /\ InTime /\ ~panicked

\* A connection belongs to a player.
LEMMA ConnPlayer == \A n \in Conns : At(n) \in Player
    BY DEF Conns, Room!Conn, At

\* acceptLoop attaches the connection it has accepted.
LEMMA AttachKeeps ==
    ASSUME Room!RoomAssumption, RInv, NEW n \in Conns, Room!Attach(n)
    PROVE  RInv'
<1>1. /\ acceptor = None /\ conn[n] = "backlog" /\ client[n] = "alive" /\ acceptor' = n
      /\ conn' = [m \in Conns |-> IF m = n THEN "open" ELSE IF rc[At(n)] = m THEN "shut"
                                  ELSE conn[m]]
      /\ rc' = [rc EXCEPT ![At(n)] = n] /\ online' = [online EXCEPT ![At(n)] = TRUE]
      /\ silent' = [silent EXCEPT ![At(n)] = 0]
      /\ UNCHANGED <<client, inbox, since, inputs, worker, reads, targets, failed, panicked>>
      /\ \A m \in Conns : At(m) = At(n) => worker[m] # "start"
    BY DEF Room!Attach, Room!clients, Room!workers, Room!frames, Conns, At
<1>2. n # None /\ None \notin Conns /\ At(n) \in Player /\ n \in Conns
    BY ConnPlayer DEF Room!RoomAssumption, Conns
<1>3. worker[n] = "none"
    BY <1>1 DEF RInv, Workers
<1>4. Room!TypeOK'
    BY <1>1, <1>2 DEF RInv, Room!TypeOK, Conns, Room!RoomAssumption
<1>5. Owned'
    BY <1>1, <1>2, <1>3 DEF RInv, Room!TypeOK, Owned, Conns, Reading
<1>6. Workers'
  <2>1. \A m \in Conns : rc[At(n)] = m => conn[m] = "open" /\ client[m] # "unborn"
      BY <1>2 DEF RInv, Owned, Workers
  <2> QED BY <1>1, <1>2, <1>3, <2>1, ConnPlayer DEF RInv, Room!TypeOK, Workers, Conns, Reading,
                                                    Ended
<1>7. Accepted' /\ Failing'
    BY <1>1, <1>2, <1>3 DEF RInv, Room!TypeOK, Accepted, Failing, Ended, Conns
<1>8. Heard'
    BY <1>1, <1>2, <1>3 DEF RInv, Room!TypeOK, Heard, Alive, Conns, Owned
<1>9. InTime'
    BY <1>1, <1>2, <1>3 DEF RInv, Room!TypeOK, InTime, Alive, Conns, Owned
<1> QED BY <1>1, <1>4, <1>5, <1>6, <1>7, <1>8, <1>9 DEF RInv

\* and starts a worker for it; a connection that says nothing is shut.
LEMMA SpawnKeeps ==
    ASSUME Room!RoomAssumption, RInv, Room!Spawn \/ \E n \in Conns : Room!NoJoin(n)
    PROVE  RInv'
<1>1. None \notin Conns
    BY DEF Room!RoomAssumption, Conns
<1>2. CASE Room!Spawn
  <2>1. /\ acceptor # None /\ acceptor' = None
        /\ panicked' = (panicked \/ rc[At(acceptor)] = None)
        /\ worker' = [worker EXCEPT ![acceptor] = "start"]
        /\ UNCHANGED <<client, inbox, since, conn, rc, online, silent, inputs, reads, targets,
                       failed>>
      BY <1>2 DEF Room!Spawn, Room!clients, Room!slots, Room!frames, At
  <2>2. /\ acceptor \in Conns /\ rc[At(acceptor)] = acceptor /\ worker[acceptor] = "none"
        /\ At(acceptor) \in Player
      BY <2>1, ConnPlayer DEF RInv, Accepted, Room!TypeOK, Conns
  <2>3. conn[acceptor] = "open"
      BY <2>1, <2>2 DEF RInv, Owned
  <2>4. Room!TypeOK'
      BY <2>1, <2>2, <1>1 DEF RInv, Room!TypeOK, Conns
  <2>5. Owned' /\ Workers'
      BY <2>1, <2>2, <2>3 DEF RInv, Room!TypeOK, Owned, Workers, Conns, Reading, Ended
  <2>6. Accepted' /\ Failing' /\ Heard' /\ InTime' /\ ~panicked'
      BY <2>1, <2>2, <1>1 DEF RInv, Room!TypeOK, Accepted, Failing, Ended, Heard, InTime, Alive,
                              Conns
  <2> QED BY <2>4, <2>5, <2>6 DEF RInv
<1>3. ASSUME NEW n \in Conns, Room!NoJoin(n) PROVE RInv'
  <2>1. /\ conn[n] = "backlog" /\ conn' = [conn EXCEPT ![n] = "shut"]
        /\ UNCHANGED <<client, inbox, since, rc, online, silent, inputs, acceptor, worker, reads,
                       targets, failed, panicked>>
      BY <1>3 DEF Room!NoJoin, Room!clients, Room!slots, Room!workers, Room!frames
  <2>2. Room!TypeOK'
      BY <2>1 DEF RInv, Room!TypeOK, Conns
  <2>3. Owned'
      BY <2>1 DEF RInv, Room!TypeOK, Owned, Conns
  <2>4. Workers' /\ Failing'
      BY <2>1 DEF RInv, Room!TypeOK, Workers, Failing, Ended, Conns
  <2> QED BY <2>1, <2>2, <2>3, <2>4 DEF RInv, Accepted, Heard, InTime, Alive
<1> QED BY <1>2, <1>3

\* A worker begins to read, or Recv returns.
LEMMA ReceiveKeeps ==
    ASSUME Room!RoomAssumption, RInv, NEW w \in Conns, Room!Start(w) \/ Room!Receive(w)
    PROVE  RInv'
<1>1. None \notin Conns /\ At(w) \in Player
    BY ConnPlayer DEF Room!RoomAssumption, Conns
<1>2. CASE Room!Start(w)
  <2>1. worker[w] = "start" /\ rc[At(w)] = w
      BY <1>2 DEF Room!Start, RInv, Workers
  <2>2. /\ reads' = [reads EXCEPT ![w] = w] /\ worker' = [worker EXCEPT ![w] = "reading"]
        /\ UNCHANGED <<client, inbox, since, conn, rc, online, silent, inputs, acceptor, targets,
                       failed>>
    <3>1. rc[w[1]] = w /\ rc[w[1]] # None
        BY <1>1, <2>1 DEF At
    <3> QED BY <1>2, <3>1 DEF Room!Start, Room!clients, Room!slots, Room!frames
  <2>7. panicked' = FALSE
    <3>1. rc[w[1]] # None /\ panicked = FALSE
        BY <1>1, <2>1 DEF At, RInv, Room!TypeOK
    <3> QED BY <1>2, <3>1 DEF Room!Start
  <2>3. conn[w] = "open"
      BY <1>1, <2>1 DEF RInv, Owned
  <2>4. Room!TypeOK'
      BY <2>2, <2>7 DEF RInv, Room!TypeOK, Conns
  <2>5. Owned' /\ Workers'
      BY <1>1, <2>1, <2>2, <2>3 DEF RInv, Room!TypeOK, Owned, Workers, Conns, Reading, Ended
  <2>6. Accepted' /\ Failing' /\ Heard' /\ InTime'
      BY <2>1, <2>2, <1>1 DEF RInv, Room!TypeOK, Accepted, Failing, Ended, Heard, InTime, Alive,
                              Conns
  <2> QED BY <2>4, <2>5, <2>6, <2>7 DEF RInv
<1>3. CASE Room!Receive(w)
  <2>1. worker[w] = "reading" /\ reads[w] = w
      BY <1>3 DEF Room!Receive, RInv, Workers, Reading
  <2>2. PICK m \in {"error", "beat", "input", "timeout"} :
          /\ worker' = [worker EXCEPT ![w] = m]
          /\ m = "error" => Ended(w) /\ UNCHANGED inbox
          /\ m \in {"beat", "input"} => inbox' = inbox \ {w}
          /\ m = "timeout" => w \notin inbox /\ UNCHANGED inbox
      BY <1>3, <2>1 DEF Room!Receive, Ended
  <2>3. UNCHANGED <<client, since, conn, rc, online, silent, inputs, acceptor, reads, targets,
                    failed, panicked>>
      BY <1>3 DEF Room!Receive, Room!slots, Room!frames
  <2>4. Room!TypeOK'
      BY <2>2, <2>3 DEF RInv, Room!TypeOK, Conns
  <2>5. Owned' /\ Workers'
      BY <1>1, <2>1, <2>2, <2>3 DEF RInv, Room!TypeOK, Owned, Workers, Conns, Reading, Ended
  <2>6. Accepted' /\ Failing' /\ ~panicked'
      BY <2>1, <2>2, <2>3, <1>1 DEF RInv, Room!TypeOK, Accepted, Failing, Ended, Conns
  <2>7. Heard'
      BY <2>1, <2>2, <2>3, <1>1 DEF RInv, Room!TypeOK, Heard, Alive, Conns, Owned, Ended
  <2>8. InTime'
      BY <2>1, <2>2, <2>3, <1>1 DEF RInv, Room!TypeOK, Heard, InTime, Alive, Conns, Owned,
                                    Room!RoomAssumption
  <2> QED BY <2>4, <2>5, <2>6, <2>7, <2>8 DEF RInv
<1> QED BY <1>2, <1>3

\* A worker acts on what it has read, under the mutex, if the connection is
\* still the player's.
LEMMA HandleKeeps ==
    ASSUME Room!RoomAssumption, RInv, NEW w \in Conns, Room!Handle(w)
    PROVE  RInv' /\ Room!KeepsLive /\ Room!WritesOwn
<1>1. None \notin Conns /\ At(w) \in Player
    BY ConnPlayer DEF Room!RoomAssumption, Conns
<1>2. /\ worker[w] \in {"timeout", "error", "beat", "input"} /\ reads[w] = w
      /\ UNCHANGED <<client, inbox, since, acceptor, targets, failed, panicked>>
    BY DEF Room!Handle, Room!clients, Room!frames, RInv, Workers, Reading, Room!TypeOK, Conns
<1>3. CASE rc[At(w)] # w
  <2>1. /\ worker' = [worker EXCEPT ![w] = "done"] /\ reads' = [reads EXCEPT ![w] = None]
        /\ UNCHANGED <<conn, rc, online, silent, inputs>>
      BY <1>2, <1>3 DEF Room!Handle, Room!End, Room!slots, At
  <2>2. Room!TypeOK'
      BY <1>2, <2>1 DEF RInv, Room!TypeOK, Conns
  <2>3. Owned' /\ Workers'
      BY <1>1, <1>2, <1>3, <2>1 DEF RInv, Room!TypeOK, Owned, Workers, Conns, Reading, Ended
  <2>4. Accepted' /\ Failing'
      BY <1>2, <2>1 DEF RInv, Room!TypeOK, Accepted, Failing, Ended, Conns
  <2>5. Heard' /\ InTime'
      BY <1>1, <1>2, <1>3, <2>1 DEF RInv, Room!TypeOK, Heard, InTime, Alive, Conns, Owned
  <2>6. Room!KeepsLive /\ Room!WritesOwn
      BY <2>1 DEF Room!KeepsLive, Room!WritesOwn
  <2> QED BY <1>2, <2>2, <2>3, <2>4, <2>5, <2>6 DEF RInv
<1>4. CASE /\ rc[At(w)] = w
           /\ worker[w] = "error" \/ (worker[w] = "timeout" /\ silent[At(w)] > MaxIdle)
  <2>1. /\ worker' = [worker EXCEPT ![w] = "done"] /\ reads' = [reads EXCEPT ![w] = None]
        /\ rc' = [rc EXCEPT ![At(w)] = None] /\ online' = [online EXCEPT ![At(w)] = FALSE]
        /\ silent' = [silent EXCEPT ![At(w)] = 0] /\ UNCHANGED inputs
        /\ conn' = [conn EXCEPT ![w] = "shut"] \/ UNCHANGED conn
    <3>1. silent[At(w)] \in Int /\ MaxIdle \in Int
        BY <1>1 DEF RInv, Room!TypeOK, Room!RoomAssumption
    <3>2. worker[w] # "timeout" \/ ~(silent[w[1]] <= MaxIdle)
        BY <1>4, <3>1 DEF At
    <3> QED BY <1>2, <1>4, <3>2 DEF Room!Handle, Room!End, Room!Leave, At
  <2>2. client[w] # "alive"
      BY <1>1, <1>2, <1>4 DEF RInv, Workers, Owned, InTime, Alive, Ended, Room!TypeOK, Conns,
                              Room!RoomAssumption
  <2>3. acceptor # w /\ worker[w] # "start"
      BY <1>1, <1>2 DEF RInv, Accepted
  <2>4. Room!TypeOK'
      BY <1>1, <1>2, <2>1 DEF RInv, Room!TypeOK, Conns, Room!RoomAssumption
  <2>5. Owned'
      BY <1>1, <1>2, <1>4, <2>1, ConnPlayer DEF RInv, Room!TypeOK, Owned, Conns, Reading
  <2>6. Workers'
      BY <1>1, <1>2, <1>4, <2>1, <2>3, ConnPlayer DEF RInv, Room!TypeOK, Workers, Owned, Conns,
                                                     Reading, Ended
  <2>7. Accepted' /\ Failing'
      BY <1>1, <1>2, <1>4, <2>1, <2>3, ConnPlayer DEF RInv, Room!TypeOK, Accepted, Failing,
                                                      Ended, Conns
  <2>8. Heard' /\ InTime'
      BY <1>1, <1>2, <1>4, <2>1 DEF RInv, Room!TypeOK, Heard, InTime, Alive, Conns, Owned
  <2>9. Room!KeepsLive /\ Room!WritesOwn
      BY <1>4, <2>1, <2>2 DEF Room!KeepsLive, Room!WritesOwn, RInv, Room!TypeOK
  <2> QED BY <1>2, <2>4, <2>5, <2>6, <2>7, <2>8, <2>9 DEF RInv
<1>5. CASE /\ rc[At(w)] = w /\ worker[w] # "error"
           /\ ~(worker[w] = "timeout" /\ silent[At(w)] > MaxIdle)
  <2>1. /\ worker' = [worker EXCEPT ![w] = "reading"] /\ UNCHANGED <<conn, rc, online, reads>>
        /\ \/ worker[w] = "timeout" /\ UNCHANGED <<silent, inputs>>
           \/ /\ worker[w] # "timeout" /\ silent' = [silent EXCEPT ![At(w)] = 0]
              /\ \/ UNCHANGED inputs
                 \/ inputs' = [inputs EXCEPT ![At(w)] = w]
    <3>1. silent[At(w)] \in Int /\ MaxIdle \in Int
        BY <1>1 DEF RInv, Room!TypeOK, Room!RoomAssumption
    <3> QED BY <1>2, <1>5, <3>1 DEF Room!Handle, Room!Again, Room!slots, At
  <2>2. Room!TypeOK'
      BY <1>1, <1>2, <2>1 DEF RInv, Room!TypeOK, Conns, Room!RoomAssumption
  <2>3. Owned' /\ Workers'
      BY <1>1, <1>2, <1>5, <2>1 DEF RInv, Room!TypeOK, Owned, Workers, Conns, Reading, Ended
  <2>4. Accepted' /\ Failing'
      BY <1>1, <1>2, <2>1 DEF RInv, Room!TypeOK, Accepted, Failing, Ended, Conns
  <2>5. Heard' /\ InTime'
      BY <1>1, <1>2, <1>5, <2>1 DEF RInv, Room!TypeOK, Heard, InTime, Alive, Conns, Owned,
                                    Room!RoomAssumption
  <2>6. Room!KeepsLive /\ Room!WritesOwn
      BY <1>5, <2>1 DEF Room!KeepsLive, Room!WritesOwn, RInv, Room!TypeOK
  <2> QED BY <1>2, <2>2, <2>3, <2>4, <2>5, <2>6 DEF RInv
<1> QED BY <1>3, <1>4, <1>5

\* The frame loop: a failed send ends a connection that nobody lives on.
LEMMA LoopKeeps ==
    ASSUME Room!RoomAssumption, RInv,
           Room!Update \/ Room!SendFailed \/ \E n \in Conns : Room!Send(n)
    PROVE  RInv' /\ Room!KeepsLive /\ Room!WritesOwn
<1>1. None \notin Conns
    BY DEF Room!RoomAssumption, Conns
<1>2. CASE Room!SendFailed /\ rc[At(failed)] = failed
  <2>1. /\ failed # None /\ failed' = None /\ acceptor # failed /\ worker[failed] # "start"
        /\ rc' = [rc EXCEPT ![At(failed)] = None] /\ online' = [online EXCEPT ![At(failed)] = FALSE]
        /\ silent' = [silent EXCEPT ![At(failed)] = 0] /\ conn' = [conn EXCEPT ![failed] = "shut"]
        /\ UNCHANGED <<client, inbox, since, inputs, acceptor, worker, reads, targets, panicked>>
      BY <1>2 DEF Room!SendFailed, Room!Leave, Room!clients, Room!workers, At
  <2>2. failed \in Conns /\ At(failed) \in Player /\ failed # acceptor
      BY <2>1, ConnPlayer DEF RInv, Room!TypeOK, Conns
  <2>3. client[failed] # "alive" /\ conn[failed] = "open"
      BY <1>2, <2>1, <2>2 DEF RInv, Failing, Owned, Ended
  <2>4. Room!TypeOK'
      BY <1>1, <2>1, <2>2 DEF RInv, Room!TypeOK, Conns, Room!RoomAssumption
  <2>5. Owned'
      BY <1>1, <1>2, <2>1, <2>2, ConnPlayer DEF RInv, Room!TypeOK, Owned, Conns, Reading
  <2>6. Workers'
      BY <1>1, <1>2, <2>1, <2>2, <2>3, ConnPlayer DEF RInv, Room!TypeOK, Workers, Owned, Conns,
                                                     Reading, Ended
  <2>7. Accepted' /\ Failing'
      BY <1>1, <1>2, <2>1, <2>2, ConnPlayer DEF RInv, Room!TypeOK, Accepted, Failing, Conns
  <2>8. Heard' /\ InTime'
      BY <1>1, <1>2, <2>1, <2>2 DEF RInv, Room!TypeOK, Heard, InTime, Alive, Conns, Owned
  <2>9. Room!KeepsLive /\ Room!WritesOwn
      BY <1>2, <2>1, <2>2, <2>3 DEF Room!KeepsLive, Room!WritesOwn, RInv, Room!TypeOK
  <2> QED BY <2>1, <2>4, <2>5, <2>6, <2>7, <2>8, <2>9 DEF RInv
<1>3. CASE Room!SendFailed /\ rc[At(failed)] # failed
  <2>1. /\ failed' = None
        /\ UNCHANGED <<conn, rc, online, silent, client, inbox, since, inputs, acceptor, worker,
                       reads, targets, panicked>>
      BY <1>3 DEF Room!SendFailed, Room!clients, Room!workers, At
  <2> QED BY <2>1 DEF RInv, Room!TypeOK, Owned, Workers, Accepted, Failing, Heard, InTime, Alive,
                      Ended, Room!KeepsLive, Room!WritesOwn, Reading
<1>4. CASE Room!Update
  <2>1. /\ inputs' = [p \in Player |-> None]
        /\ targets' = {rc[p] : p \in {q \in Player : online[q]}}
        /\ UNCHANGED <<conn, rc, online, silent, client, inbox, since, acceptor, worker, reads,
                       failed, panicked>>
      BY <1>4 DEF Room!Update, Room!clients, Room!workers
  <2>2. targets' \subseteq Conns /\ inputs' \in [Player -> Conns \cup {None}]
      BY <2>1 DEF RInv, Room!TypeOK, Conns
  <2>3. Room!TypeOK'
      BY <2>1, <2>2 DEF RInv, Room!TypeOK, Conns
  <2> QED BY <2>1, <2>3 DEF RInv, Owned, Workers, Accepted, Failing, Heard, InTime, Alive,
                      Ended, Room!KeepsLive, Room!WritesOwn, Reading
<1>5. ASSUME NEW n \in Conns, Room!Send(n) PROVE RInv' /\ Room!KeepsLive /\ Room!WritesOwn
  <2>1. /\ targets' = targets \ {n}
        /\ \/ failed' = failed
           \/ failed' = n /\ Ended(n)
        /\ UNCHANGED <<conn, rc, online, silent, inputs, client, inbox, since, acceptor, worker,
                       reads, panicked>>
      BY <1>5 DEF Room!Send, Room!clients, Room!workers, Room!slots, Ended
  <2>2. Failing' /\ Room!TypeOK'
      BY <2>1 DEF RInv, Failing, Ended, Room!TypeOK, Conns
  <2> QED BY <2>1, <2>2 DEF RInv, Owned, Workers, Accepted, Heard, InTime, Alive,
                      Ended, Room!KeepsLive, Room!WritesOwn, Reading
<1> QED BY <1>2, <1>3, <1>4, <1>5

\* The clients, and time.
LEMMA ClientKeeps ==
    ASSUME Room!RoomAssumption, RInv, NEW n \in Conns,
           Room!Dial(n) \/ Room!Close(n) \/ Room!Hang(n) \/ Room!Say(n)
    PROVE  RInv'
<1>1. /\ UNCHANGED <<rc, online, silent, inputs, acceptor, worker, reads, targets, failed,
                     panicked>>
      /\ since' = since \/ since' = [since EXCEPT ![n] = 0]
      /\ \/ conn' = conn /\ client' = client /\ inbox' = inbox \cup {n}
         \/ /\ conn' = conn /\ inbox' = inbox
            /\ \E c \in {"closed", "hung"} : client' = [client EXCEPT ![n] = c]
            /\ client[n] = "alive"
         \/ /\ conn' = [conn EXCEPT ![n] = "backlog"] /\ client' = [client EXCEPT ![n] = "alive"]
            /\ inbox' = inbox /\ since' = since /\ client[n] = "unborn"
    BY DEF Room!Dial, Room!Close, Room!Hang, Room!Say, Room!slots, Room!workers, Room!frames
<1>2. CASE UNCHANGED conn
  <2>1. Room!TypeOK'
      BY <1>1, <1>2 DEF RInv, Room!TypeOK, Conns, Room!RoomAssumption
  <2>2. Owned' /\ Workers' /\ Accepted' /\ Failing'
      BY <1>1, <1>2 DEF RInv, Room!TypeOK, Owned, Workers, Accepted, Failing, Ended, Conns, Reading
  <2>3. Heard' /\ InTime'
    <3>1. CASE client' = client /\ inbox' = inbox \cup {n}
        BY <1>1, <3>1 DEF RInv, Room!TypeOK, Heard, InTime, Alive, Conns
    <3>2. CASE \E c \in {"closed", "hung"} : client' = [client EXCEPT ![n] = c]
        BY <1>1, <1>2, <3>2 DEF RInv, Room!TypeOK, Heard, InTime, Alive, Conns
    <3>3. conn # [conn EXCEPT ![n] = "backlog"] \/ client[n] # "unborn"
        BY <1>2 DEF RInv, Room!TypeOK, Workers, Conns
    <3> QED BY <1>1, <1>2, <3>1, <3>2, <3>3
  <2> QED BY <1>1, <2>1, <2>2, <2>3 DEF RInv
<1>3. CASE conn' # conn
  <2>1. /\ conn' = [conn EXCEPT ![n] = "backlog"] /\ client' = [client EXCEPT ![n] = "alive"]
        /\ inbox' = inbox /\ since' = since /\ client[n] = "unborn"
      BY <1>1, <1>3
  <2>2. conn[n] = "none" /\ worker[n] = "none"
      BY <2>1 DEF RInv, Workers
  <2>3. Room!TypeOK'
      BY <1>1, <2>1 DEF RInv, Room!TypeOK, Conns
  <2>4. Owned' /\ Workers' /\ Accepted' /\ Failing'
      BY <1>1, <2>1, <2>2 DEF RInv, Room!TypeOK, Owned, Workers, Accepted, Failing, Ended, Conns,
                              Reading
  <2>5. Heard' /\ InTime'
      BY <1>1, <2>1, <2>2 DEF RInv, Room!TypeOK, Heard, InTime, Alive, Conns, Owned
  <2> QED BY <1>1, <2>3, <2>4, <2>5 DEF RInv
<1> QED BY <1>2, <1>3

\* A live client says something before Beat ticks have passed, and no time
\* passes between a read that timed out and what the worker does about it.
LEMMA TickKeeps ==
    ASSUME Room!RoomAssumption, RInv, Room!Tick
    PROVE  RInv'
<1>1. /\ \A n \in Conns : client[n] = "alive" /\ conn[n] # "shut" => since[n] < Beat \/ n \in inbox
      /\ \A w \in Conns : worker[w] # "timeout"
      /\ since' = [n \in Conns |-> IF client[n] = "alive" /\ conn[n] # "shut" /\ since[n] < Beat
                                   THEN since[n] + 1 ELSE since[n]]
      /\ silent' = [p \in Player |-> IF online[p] /\ silent[p] <= MaxIdle
                                     THEN silent[p] + 1 ELSE silent[p]]
      /\ UNCHANGED <<client, inbox, conn, rc, online, inputs, acceptor, worker, reads, targets,
                     failed, panicked>>
    BY DEF Room!Tick, Room!workers, Room!frames, Conns
<1>2. Room!TypeOK'
    BY <1>1 DEF RInv, Room!TypeOK, Conns, Room!RoomAssumption
<1>3. Heard' /\ InTime'
    BY <1>1 DEF RInv, Room!TypeOK, Heard, InTime, Alive, Owned, Conns, Room!RoomAssumption
<1> QED BY <1>1, <1>2, <1>3 DEF RInv, Owned, Workers, Accepted, Failing, Ended, Reading

\* The inductive invariant holds.
LEMMA RoomInit == ASSUME Room!RoomAssumption, Room!Init PROVE RInv
<1>1. Room!TypeOK
  <2>1. since \in [Room!Conn -> 0..Beat] /\ silent \in [Player -> 0..(MaxIdle + 1)]
      BY DEF Room!Init, Room!RoomAssumption
  <2>2. /\ client \in [Room!Conn -> {"unborn", "alive", "hung", "closed"}]
        /\ conn \in [Room!Conn -> {"none", "backlog", "open", "shut"}]
        /\ worker \in [Room!Conn -> {"none", "start", "reading", "timeout", "error", "beat",
                                     "input", "done"}]
      BY DEF Room!Init
  <2>3. /\ online \in [Player -> BOOLEAN]
        /\ \A p \in Player : online[p] <=> rc[p] # None
      BY Zenon DEF Room!Init
  <2> QED BY <2>1, <2>2, <2>3 DEF Room!Init, Room!TypeOK
<1> QED BY <1>1 DEF Room!Init, RInv, Owned, Workers, Accepted, Failing, Heard, InTime, Alive,
                    Conns, Reading

\* Every step keeps it, puts no living client offline and lets no other
\* connection write an input.
LEMMA RoomStep ==
    ASSUME Room!RoomAssumption, RInv, [Room!Next]_(Room!vars)
    PROVE  RInv' /\ [Room!KeepsLive /\ Room!WritesOwn]_(Room!vars)
<1>1. CASE UNCHANGED Room!vars
    BY <1>1 DEF Room!vars, Room!TypeOK, RInv, Owned, Workers, Accepted, Failing, Heard, InTime,
                Alive, Ended, Reading
<1>2. CASE \/ Room!Accepting \/ Room!Tick
           \/ \E w \in Conns : Room!Start(w) \/ Room!Receive(w)
           \/ \E n \in Conns : Room!Dial(n) \/ Room!Close(n) \/ Room!Hang(n) \/ Room!Say(n)
  <2>1. RInv'
      BY <1>2, AttachKeeps, SpawnKeeps, TickKeeps, ReceiveKeeps, ClientKeeps DEF Room!Accepting,
                                                                                 Conns
  <2>2. /\ UNCHANGED inputs
        /\ \/ UNCHANGED online
           \/ \E p \in Player : online' = [online EXCEPT ![p] = TRUE]
      BY <1>2, ConnPlayer DEF Room!Accepting, Room!Attach, Room!Spawn, Room!NoJoin, Room!Tick,
                  Room!Start, Room!Receive, Room!Dial, Room!Close, Room!Hang, Room!Say,
                  Room!slots, At, Conns
  <2>3. Room!KeepsLive /\ Room!WritesOwn
      BY <2>2 DEF Room!KeepsLive, Room!WritesOwn, RInv, Room!TypeOK
  <2> QED BY <2>1, <2>3
<1>3. CASE Room!Looping \/ \E w \in Conns : Room!Handle(w)
    BY <1>3, LoopKeeps, HandleKeeps DEF Room!Looping, Conns
<1> QED BY <1>1, <1>2, <1>3 DEF Room!Next, Room!Working, Conns

\* Whoever is online is read by one worker, its own, and no nil connection is
\* used: no two workers take each other's bytes, and nobody sits in the room
\* whom nothing could ever time out (ReliableRoom's OneReader and NoPanic;
\* acceptLoop, recvWorker).
THEOREM OneReaderEach ==
    ASSUME Room!RoomAssumption
    PROVE  Room!Spec => [](Room!TypeOK /\ Room!OneReader /\ Room!NoPanic)
<1>1. RInv => Room!TypeOK /\ Room!OneReader /\ Room!NoPanic
  <2> SUFFICES ASSUME RInv PROVE Room!TypeOK /\ Room!OneReader /\ Room!NoPanic
      OBVIOUS
  <2>1. ASSUME NEW p \in Player, online[p], acceptor # rc[p], worker[rc[p]] # "start"
        PROVE  Room!Readers(rc[p]) = {rc[p]}
    <3>1. rc[p] # None /\ rc[p] \in Conns
        BY <2>1 DEF RInv, Room!TypeOK, Conns
    <3>2. worker[rc[p]] \in Reading /\ reads[rc[p]] = rc[p]
        BY <2>1, <3>1 DEF RInv, Owned, Workers
    <3>3. \A w \in Conns : worker[w] \notin {"none", "start", "done"} => reads[w] = w
        BY DEF RInv, Room!TypeOK, Workers, Conns, Reading
    <3> QED BY <3>1, <3>2, <3>3 DEF Room!Readers, Conns, Reading
  <2>2. Room!OneReader
      BY <2>1 DEF Room!OneReader
  <2> QED BY <2>2 DEF RInv, Room!NoPanic
<1> QED BY RoomInit, RoomStep, <1>1, PTL DEF Room!Spec

\* A client that lives and keeps its heartbeat is never put offline, neither by
\* the timeout nor by what becomes of the connection it has replaced, and only
\* the connection a player has now writes its input (LiveStays and OwnInput of
\* ReliableRoom; recvWorker, broadcast).
THEOREM TheLivingStay ==
    ASSUME Room!RoomAssumption
    PROVE  Room!Spec => Room!LiveStays /\ Room!OwnInput
<1>1. [Room!KeepsLive /\ Room!WritesOwn]_(Room!vars)
        => [Room!KeepsLive]_(Room!vars) /\ [Room!WritesOwn]_(Room!vars)
    OBVIOUS
<1> QED BY RoomInit, RoomStep, <1>1, PTL DEF Room!Spec, Room!LiveStays, Room!OwnInput

-----------------------------------------------------------------------------
(*                                                                         *)
(* The lobby and the game of Lab1 (Duel), whose players are told by        *)
(* messages when it is their turn.                                         *)
(*                                                                         *)
CONSTANTS Client, Name, Width, Height, InitHP, AttackDmg, HealAmt, MaxPotions, AttackRange,
          Prompt
VARIABLES phase, players, joining, turn, winner, backlog, asked, acts, told, open, doing, myTurn
Match == INSTANCE Duel

\* Where the lobby has how many players, and what they are before the first turn;
\* while the turns last, both live.
Places == /\ phase \in {"sweep", "accept", "join"} => Len(players) <= 1
          /\ phase \in {"check", "turn"} => Len(players) = 2
          /\ phase = "join" => joining \in Client
          /\ phase \notin {"turn", "exit"} =>
               \A i \in DOMAIN players : players[i].at = Match!Start(i) /\ players[i].hp = InitHP
          /\ phase = "turn" => \A i \in DOMAIN players : players[i].hp > 0

\* No two players share a name and, where the map has two cells, a cell.
NameApart == Len(players) = 2 => players[1].name # players[2].name
CellApart == Len(players) = 2 => players[1].at # players[2].at
AllApart  == NameApart /\ (Width > 1 \/ Height > 1 => CellApart)

\* A client that has not dialled waits nowhere; one that has not been answered
\* has not heard that it is its turn.
Dialled == \A c \in Client : /\ doing[c] = "off" => c \notin Match!ToSet(backlog)
                             /\ doing[c] \in {"off", "naming", "joining"} => ~myTurn[c]

\* The right to act is in a message, in the client's flag or in an action it has sent.
Called(c)  == \E i \in DOMAIN told[c] : told[c][i] = "yours"
CalledOnce(c) == \A i, j \in DOMAIN told[c] : told[c][i] = "yours" /\ told[c][j] = "yours" => i = j
Ready(c)   == doing[c] = "playing" /\ myTurn[c]
Holds(c)   == Called(c) \/ Ready(c) \/ acts[c] # <<>>
Single(c)  == /\ CalledOnce(c) /\ Len(acts[c]) <= 1
              /\ Called(c) => ~Ready(c) /\ acts[c] = <<>>
              /\ Ready(c) => acts[c] = <<>>

\* There is one such right, the player's on turn; before the game there is none.
Rights == /\ phase \notin {"turn", "exit"} => \A c \in Client : ~Holds(c) /\ ~myTurn[c]
          /\ phase = "turn" => \A c \in Client : /\ Single(c)
                                                 /\ c # Match!Cur.client => ~Holds(c)

MInv == Match!TypeOK /\ Places /\ AllApart /\ Dialled /\ Rights

\* What TypeOK says.
LEMMA DuelTypes ==
    ASSUME Match!TypeOK
    PROVE  /\ phase \in {"sweep", "accept", "join", "check", "turn", "exit"}
           /\ players \in Seq(Match!Player) /\ Len(players) <= 2
           /\ joining \in Client \cup {None} /\ turn \in 1..2 /\ winner \in 0..2
           /\ backlog \in Seq(Client)
           /\ asked \in [Client -> Seq(Name)] /\ acts \in [Client -> Seq(Match!Action)]
           /\ told \in [Client -> Seq({"init", "again", "yours", "wait"})] /\ open \subseteq Client
           /\ doing \in [Client -> {"off", "naming", "joining", "playing", "sent", "gone"}]
           /\ myTurn \in [Client -> BOOLEAN]
BY DEF Match!TypeOK

\* About sequences: one more at the end, and a pair with one of the two changed.
LEMMA OneMore ==
    ASSUME NEW S, NEW s \in Seq(S), NEW x \in S
    PROVE  Append(s, x) \in Seq(S) /\ Len(Append(s, x)) = Len(s) + 1
OBVIOUS

LEMMA Pair ==
    ASSUME NEW S, NEW ps \in Seq(S), Len(ps) = 2, NEW i \in 1..2
    PROVE  DOMAIN ps = 1..2 /\ ps[i] \in S /\ 3 - i \in 1..2 /\ 3 - i # i /\ ps[3 - i] \in S
<1>1. DOMAIN ps = 1..2 /\ 3 - i \in 1..2 /\ 3 - i # i
    OBVIOUS
<1>2. \A j \in 1..2 : ps[j] \in S
    BY <1>1
<1> QED BY <1>1, <1>2

\* Once the only one is taken, none is left.
LEMMA OnlyOne ==
    ASSUME NEW S, NEW s \in Seq(S), Len(s) <= 1, s # <<>>
    PROVE  Tail(s) = <<>>
<1>1. Len(s) = 1
  <2>1. Len(s) \in Nat
      OBVIOUS
  <2>2. Len(s) # 0
      OBVIOUS
  <2> QED BY <2>1, <2>2
<1>2. Tail(s) \in Seq(S) /\ Len(Tail(s)) = 0
    BY <1>1
<1> QED BY <1>2

LEMMA PairChanged ==
    ASSUME NEW S, NEW ps \in Seq(S), Len(ps) = 2, NEW i \in 1..2, NEW x \in S
    PROVE  LET qs == [ps EXCEPT ![i] = x]
           IN  qs \in Seq(S) /\ Len(qs) = 2 /\ qs[i] = x /\ qs[3 - i] = ps[3 - i]
OBVIOUS

\* What a player is.
LEMMA OfPlayer ==
    ASSUME NEW p \in Match!Player
    PROVE  /\ p.client \in Client /\ p.name \in Name /\ p.at \in Match!Cell
           /\ p.hp \in 0..InitHP /\ p.potions \in 0..MaxPotions
BY DEF Match!Player

LEMMA MatchInit ==
    ASSUME Match!DuelAssumption, Match!Init
    PROVE  MInv
<1>1. Match!TypeOK
    BY DEF Match!Init, Match!TypeOK, Match!IsInjective
<1>2. Places /\ AllApart /\ Dialled
    BY DEF Match!Init, Places, AllApart, NameApart, CellApart, Dialled, Match!ToSet
<1>3. Rights
    BY DEF Match!Init, Rights, Holds, Called, Ready
<1> QED BY <1>1, <1>2, <1>3 DEF MInv

-----------------------------------------------------------------------------
\* What is left of the lobby after a sweep.
LEMMA SweptLobby ==
    ASSUME NEW ps \in Seq(Match!Player), Len(ps) <= 1, NEW kept \in Match!Sweeps(ps)
    PROVE  /\ kept \in Seq(Match!Player) /\ Len(kept) <= 1
           /\ kept = ps \/ kept = <<>>
<1>1. kept \in {ps, <<>>}
    BY DEF Match!Sweeps
<1>2. <<>> \in Seq(Match!Player) /\ Len(<<>>) <= 1
    OBVIOUS
<1>3. CASE kept = ps
    BY <1>3
<1>4. CASE kept = <<>>
    BY <1>2, <1>4, Zenon
<1> QED BY <1>1, <1>3, <1>4

\* The new player stands at its start, apart from the one that is there.
LEMMA NewcomerStands ==
    ASSUME Match!DuelAssumption, joining \in Client, NEW name \in Name, NEW i \in 1..2
    PROVE  Match!NewPlayer(i, name) \in Match!Player
<1>1. Match!Start(i) \in Match!Cell
    BY DEF Match!DuelAssumption, Match!Start, Match!Cell
<1> QED BY <1>1 DEF Match!DuelAssumption, Match!NewPlayer, Match!Player

LEMMA StartsApart ==
    ASSUME Match!DuelAssumption, Width > 1 \/ Height > 1
    PROVE  Match!Start(1) # Match!Start(2)
BY DEF Match!DuelAssumption, Match!Start

\* Before the game a step of the server that leaves the clients' flags alone and
\* tells nobody that it is its turn gives nobody the right to act.
LEMMA NoRight ==
    ASSUME MInv, phase \notin {"turn", "exit"}, phase' \notin {"turn", "exit"},
           UNCHANGED <<acts, doing, myTurn>>,
           \/ UNCHANGED told
           \/ \E c \in Client : \E m \in {"init", "again"} :
                told' = [told EXCEPT ![c] = Append(@, m)]
    PROVE  Rights'
<1>1. \A c \in Client : ~Called(c) /\ ~Ready(c) /\ acts[c] = <<>> /\ ~myTurn[c]
    BY DEF MInv, Rights, Holds
<1>2. \A c \in Client : told[c] \in Seq({"init", "again", "yours", "wait"})
    BY DuelTypes DEF MInv
<1>3. ASSUME NEW c \in Client
      PROVE  ~Called(c)'
  <2>1. CASE UNCHANGED told
      BY <2>1, <1>1 DEF Called
  <2>2. ASSUME NEW d \in Client, NEW m \in {"init", "again"},
               told' = [told EXCEPT ![d] = Append(@, m)]
        PROVE  ~Called(c)'
    <3>1. told'[c] = IF c = d THEN Append(told[c], m) ELSE told[c]
        BY <2>2, DuelTypes DEF MInv
    <3>2. \A i \in DOMAIN told[c] : told[c][i] # "yours"
        BY <1>1 DEF Called
    <3>3. \A i \in DOMAIN told'[c] : told'[c][i] # "yours"
        BY <3>1, <3>2, <1>2
    <3> QED BY <3>3 DEF Called
  <2> QED BY <2>1, <2>2
<1> QED BY <1>1, <1>3 DEF Rights, Holds, Ready

LEMMA SweepKeeps ==
    ASSUME MInv, Match!Sweep
    PROVE  MInv'
<1>1. PICK kept \in Match!Sweeps(players) :
        players' = kept /\ open' = open \ (Match!Clients(players) \ Match!Clients(kept))
    BY DEF Match!Sweep
<1>2. /\ kept \in Seq(Match!Player) /\ Len(kept) <= 1
      /\ kept = players \/ kept = <<>>
    BY <1>1, SweptLobby, DuelTypes DEF MInv, Places, Match!Sweep
<1>3. /\ phase = "sweep" /\ phase' = "accept"
      /\ UNCHANGED <<joining, turn, winner, acts, told, backlog, asked, doing, myTurn>>
    BY DEF Match!Sweep, Match!client
<1>4. Match!TypeOK'
    BY <1>1, <1>2, <1>3 DEF MInv, Match!TypeOK, Match!IsInjective
<1>5. Places'
    BY <1>1, <1>2, <1>3 DEF MInv, Places
<1>6. AllApart' /\ Dialled'
    BY <1>1, <1>2, <1>3, DuelTypes DEF MInv, AllApart, NameApart, CellApart, Dialled, Match!ToSet
<1>7. Rights'
    BY <1>3, NoRight
<1> QED BY <1>4, <1>5, <1>6, <1>7 DEF MInv

LEMMA AcceptKeeps ==
    ASSUME MInv, Match!Accept
    PROVE  MInv'
<1> DEFINE first == Head(backlog)
           rest  == Tail(backlog)
<1>1. /\ phase = "accept" /\ phase' = "join" /\ backlog # <<>>
      /\ joining' = first /\ backlog' = rest
      /\ UNCHANGED <<players, turn, winner, open, asked, acts, told, doing, myTurn>>
    BY DEF Match!Accept
<1>2. backlog \in Seq(Client) /\ (\A i, j \in DOMAIN backlog : backlog[i] = backlog[j] => i = j)
    BY DEF MInv, Match!TypeOK, Match!IsInjective
<1>3. /\ first \in Client /\ rest \in Seq(Client)
      /\ \A i \in DOMAIN rest : i \in Nat /\ i+1 \in DOMAIN backlog /\ rest[i] = backlog[i+1]
    BY <1>1, <1>2
<1>4. \A i, j \in DOMAIN rest : rest[i] = rest[j] => i = j
    BY <1>2, <1>3
<1>5. Match!TypeOK'
    BY <1>1, <1>3, <1>4, DuelTypes DEF MInv, Match!TypeOK, Match!IsInjective
<1>6. Places'
    BY <1>1, <1>3 DEF MInv, Places, Match!Start
<1>7. AllApart'
    BY <1>1 DEF MInv, AllApart, NameApart, CellApart
<1>8. Match!ToSet(rest) \subseteq Match!ToSet(backlog)
    BY <1>3 DEF Match!ToSet
<1>9. Dialled'
    BY <1>1, <1>8 DEF MInv, Dialled
<1>10. Rights'
    BY <1>1, NoRight
<1> QED BY <1>5, <1>6, <1>7, <1>9, <1>10 DEF MInv

LEMMA NoNameKeeps ==
    ASSUME MInv, Match!NoName
    PROVE  MInv'
<1>1. /\ phase = "join" /\ phase' = "sweep" /\ joining' = None /\ open' \subseteq open
      /\ UNCHANGED <<players, turn, winner, acts, told, backlog, asked, doing, myTurn>>
    BY DEF Match!NoName, Match!client
<1>2. Match!TypeOK'
    BY <1>1 DEF MInv, Match!TypeOK, Match!IsInjective
<1>3. Places' /\ AllApart' /\ Dialled'
    BY <1>1 DEF MInv, Places, Match!Start, AllApart, NameApart, CellApart, Dialled
<1>4. Rights'
    BY <1>1, NoRight
<1> QED BY <1>2, <1>3, <1>4 DEF MInv

LEMMA NegotiateKeeps ==
    ASSUME Match!DuelAssumption, MInv, Match!Negotiate
    PROVE  MInv'
<1>1. /\ phase = "join" /\ asked[joining] # <<>> /\ joining \in Client /\ Len(players) <= 1
      /\ asked' = [asked EXCEPT ![joining] = Tail(@)]
      /\ UNCHANGED <<turn, winner, backlog, acts, doing, myTurn>>
    BY DEF Match!Negotiate, MInv, Places
<1> DEFINE name == Head(asked[joining])
<1>2. name \in Name /\ asked' \in [Client -> Seq(Name)]
    BY <1>1, DuelTypes DEF MInv
<1>3. PICK seen \in Match!Sweeps(players) : \E kept \in Match!Sweeps(seen) :
         \/ /\ name \in Match!Taken(seen)
            /\ open' = open \ (Match!Clients(players) \ Match!Clients(seen))
            /\ told' = [told EXCEPT ![joining] = Append(@, "again")]
            /\ UNCHANGED <<phase, players, joining>>
         \/ /\ name \notin Match!Taken(seen)
            /\ open' = open \ (Match!Clients(players) \ Match!Clients(kept))
            /\ told' = [told EXCEPT ![joining] = Append(@, "init")]
            /\ Match!Lobby(Append(kept, Match!NewPlayer(Len(kept) + 1, name)))
         \/ /\ name \notin Match!Taken(seen) /\ Match!Gone(joining)
            /\ open' = open \ ({joining} \cup (Match!Clients(players) \ Match!Clients(kept)))
            /\ Match!Lobby(kept) /\ UNCHANGED told
    BY DEF Match!Negotiate
<1>4. PICK kept \in Match!Sweeps(seen) :
         \/ /\ name \in Match!Taken(seen)
            /\ open' = open \ (Match!Clients(players) \ Match!Clients(seen))
            /\ told' = [told EXCEPT ![joining] = Append(@, "again")]
            /\ UNCHANGED <<phase, players, joining>>
         \/ /\ name \notin Match!Taken(seen)
            /\ open' = open \ (Match!Clients(players) \ Match!Clients(kept))
            /\ told' = [told EXCEPT ![joining] = Append(@, "init")]
            /\ Match!Lobby(Append(kept, Match!NewPlayer(Len(kept) + 1, name)))
         \/ /\ name \notin Match!Taken(seen) /\ Match!Gone(joining)
            /\ open' = open \ ({joining} \cup (Match!Clients(players) \ Match!Clients(kept)))
            /\ Match!Lobby(kept) /\ UNCHANGED told
    BY <1>3
<1>5. /\ seen \in Seq(Match!Player) /\ Len(seen) <= 1 /\ (seen = players \/ seen = <<>>)
      /\ kept \in Seq(Match!Player) /\ Len(kept) <= 1 /\ (kept = seen \/ kept = <<>>)
    BY <1>1, <1>3, <1>4, SweptLobby, DuelTypes DEF MInv
<1> DEFINE new == Append(kept, Match!NewPlayer(Len(kept) + 1, name))
<1>6. open' \subseteq open
    BY <1>4
<1>7. Dialled'
    BY <1>1 DEF MInv, Dialled
<1>8. \A m \in {"init", "again"} :
        [told EXCEPT ![joining] = Append(@, m)] \in
            [Client -> Seq({"init", "again", "yours", "wait"})]
    BY <1>1, DuelTypes DEF MInv
<1>9. CASE /\ told' = [told EXCEPT ![joining] = Append(@, "again")]
           /\ UNCHANGED <<phase, players, joining>>
  <2>1. Match!TypeOK'
      BY <1>1, <1>2, <1>6, <1>8, <1>9 DEF MInv, Match!TypeOK, Match!IsInjective
  <2>2. Places' /\ AllApart'
      BY <1>9 DEF MInv, Places, Match!Start, AllApart, NameApart, CellApart
  <2>3. Rights'
      BY <1>1, <1>9, NoRight
  <2> QED BY <1>7, <2>1, <2>2, <2>3 DEF MInv
<1>10. CASE /\ name \notin Match!Taken(seen)
            /\ told' = [told EXCEPT ![joining] = Append(@, "init")]
            /\ Match!Lobby(new)
  <2>1. /\ new \in Seq(Match!Player) /\ Len(new) = Len(kept) + 1
        /\ new[Len(new)] = Match!NewPlayer(Len(kept) + 1, name)
        /\ \A i \in DOMAIN kept : new[i] = kept[i]
    <3>1. Match!NewPlayer(Len(kept) + 1, name) \in Match!Player
        BY <1>1, <1>2, <1>5, NewcomerStands
    <3> QED BY <3>1, <1>5
  <2>2. /\ players' = new /\ joining' = None
        /\ phase' = IF Len(new) = 2 THEN "check" ELSE "sweep"
      BY <1>10 DEF Match!Lobby
  <2>3. Match!TypeOK'
      BY <1>1, <1>2, <1>5, <1>6, <1>8, <1>10, <2>1, <2>2 DEF MInv, Match!TypeOK, Match!IsInjective
  <2>4. \A i \in DOMAIN kept : kept[i].at = Match!Start(i) /\ kept[i].hp = InitHP
      BY <1>1, <1>5 DEF MInv, Places
  <2>5. \A i \in DOMAIN new : new[i].at = Match!Start(i) /\ new[i].hp = InitHP
    <3>1. /\ new[Len(new)].at = Match!Start(Len(new)) /\ new[Len(new)].hp = InitHP
        BY <2>1 DEF Match!NewPlayer
    <3>2. \A i \in DOMAIN new : i = Len(new) \/ i \in DOMAIN kept
        BY <2>1, <1>5
    <3> QED BY <2>1, <2>4, <3>1, <3>2
  <2>6. Places'
      BY <1>5, <2>1, <2>2, <2>5 DEF Places, Match!Start
  <2>7. NameApart'
    <3>1. SUFFICES ASSUME Len(new) = 2 PROVE new[1].name # new[2].name
        BY <2>2 DEF NameApart
    <3>2. kept = seen /\ new[1] = seen[1] /\ 1 \in DOMAIN seen
        BY <3>1, <2>1, <1>5
    <3>3. seen[1].name \in Match!Taken(seen)
        BY <3>2 DEF Match!Taken, Match!ToSet
    <3>4. new[2].name = name
        BY <3>1, <2>1 DEF Match!NewPlayer
    <3> QED BY <1>10, <3>2, <3>3, <3>4
  <2>8. ASSUME Width > 1 \/ Height > 1
        PROVE  CellApart'
    <3>1. SUFFICES ASSUME Len(new) = 2 PROVE new[1].at # new[2].at
        BY <2>2 DEF CellApart
    <3>2. new[1].at = Match!Start(1) /\ new[2].at = Match!Start(2)
        BY <3>1, <2>1, <2>5
    <3> QED BY <3>2, <2>8, StartsApart
  <2>9. Rights'
    <3>1. phase' \notin {"turn", "exit"}
        BY <2>2
    <3> QED BY <1>1, <1>10, <3>1, NoRight
  <2> QED BY <1>7, <2>3, <2>6, <2>7, <2>8, <2>9 DEF MInv, AllApart
<1>11. CASE Match!Lobby(kept) /\ UNCHANGED told
  <2>1. players' = kept /\ joining' = None /\ phase' = "sweep"
      BY <1>5, <1>11 DEF Match!Lobby
  <2>2. Match!TypeOK'
      BY <1>1, <1>2, <1>5, <1>6, <1>11, <2>1 DEF MInv, Match!TypeOK, Match!IsInjective
  <2>3. kept = players \/ kept = <<>>
      BY <1>5
  <2>4. Places' /\ AllApart'
      BY <1>1, <1>5, <2>1, <2>3 DEF MInv, Places, Match!Start, AllApart, NameApart, CellApart
  <2>5. Rights'
      BY <1>1, <1>11, <2>1, NoRight
  <2> QED BY <1>7, <2>2, <2>4, <2>5 DEF MInv
<1> QED BY <1>4, <1>9, <1>10, <1>11

-----------------------------------------------------------------------------
\* Whose turn it is told to, of the two.
LEMMA AnnounceTells ==
    ASSUME Match!TypeOK, Len(players) = 2, NEW t \in 1..2, Match!Announce(t)
    PROVE  /\ told' \in [Client -> Seq({"init", "again", "yours", "wait"})]
           /\ \A c \in Client : \/ told'[c] = told[c]
                                \/ told'[c] = Append(told[c], "wait")
                                \/ told'[c] = Append(told[c], "yours") /\ c = players[t].client
<1>1. told' = [c \in Client |->
                 IF c = players[t].client THEN Append(told[c], "yours")
                 ELSE IF c = players[3 - t].client THEN Append(told[c], "wait")
                 ELSE told[c]]
    BY DEF Match!Announce
<1>2. \A c \in Client : told[c] \in Seq({"init", "again", "yours", "wait"})
    BY DuelTypes
<1>3. \A c \in Client : \/ told'[c] = told[c]
                        \/ told'[c] = Append(told[c], "wait")
                        \/ told'[c] = Append(told[c], "yours") /\ c = players[t].client
    BY <1>1
<1>4. ASSUME NEW c \in Client
      PROVE  told'[c] \in Seq({"init", "again", "yours", "wait"})
    BY <1>2, <1>3, OneMore
<1> QED BY <1>1, <1>3, <1>4

\* Once nobody may act, the announcement gives the right to the player named.
LEMMA AnnounceRights ==
    ASSUME MInv, Len(players) = 2, NEW t \in 1..2, Match!Announce(t), turn' = t,
           Len(players') = 2, players'[t].client = players[t].client, phase' = "turn",
           UNCHANGED <<doing, myTurn>>,
           \A c \in Client : ~Called(c) /\ ~Ready(c) /\ acts'[c] = <<>>
    PROVE  Rights'
<1>1. \A c \in Client : told[c] \in Seq({"init", "again", "yours", "wait"})
    BY DuelTypes DEF MInv
<1>2. ASSUME NEW c \in Client
      PROVE  Single(c)' /\ (c # Match!Cur.client => ~Holds(c))'
  <2>1. \A i \in DOMAIN told[c] : told[c][i] # "yours"
      BY DEF Called
  <2>2. acts'[c] = <<>> /\ ~Ready(c)'
      BY DEF Ready
  <2>3. CASE told'[c] = told[c] \/ told'[c] = Append(told[c], "wait")
    <3>1. \A i \in DOMAIN told'[c] : told'[c][i] # "yours"
        BY <1>1, <2>1, <2>3
    <3> QED BY <2>2, <3>1 DEF Single, CalledOnce, Called, Holds
  <2>4. CASE told'[c] = Append(told[c], "yours") /\ c = players[t].client
    <3>1. \A i \in DOMAIN told'[c] : told'[c][i] = "yours" => i = Len(told[c]) + 1
        BY <1>1, <2>1, <2>4
    <3>2. CalledOnce(c)'
        BY <3>1 DEF CalledOnce
    <3>3. c = players'[turn'].client
        BY <2>4
    <3> QED BY <2>2, <3>2, <3>3 DEF Single, Match!Cur
  <2> QED BY <2>3, <2>4, AnnounceTells DEF MInv
<1> QED BY <1>2 DEF Rights

\* The end of the game leaves the players where they are.
LEMMA ExitKeeps ==
    ASSUME MInv, NEW w \in 0..2, Match!Exit(w), players' \in Seq(Match!Player),
           Len(players') <= 2, AllApart', acts' \in [Client -> Seq(Match!Action)],
           UNCHANGED <<joining, backlog, asked, doing, myTurn>>
    PROVE  MInv'
<1>1. phase' = "exit" /\ winner' = w /\ open' \subseteq open /\ UNCHANGED <<turn, told>>
    BY DEF Match!Exit
<1>2. Match!TypeOK'
    BY <1>1 DEF MInv, Match!TypeOK, Match!IsInjective
<1>3. Places' /\ Rights'
    BY <1>1 DEF Places, Rights
<1>4. Dialled'
    BY DEF MInv, Dialled
<1> QED BY <1>2, <1>3, <1>4 DEF MInv

LEMMA CheckKeeps ==
    ASSUME Match!DuelAssumption, MInv, Match!Check
    PROVE  MInv'
<1>1. /\ phase = "check" /\ Len(players) = 2
      /\ UNCHANGED <<players, joining, acts, backlog, asked, doing, myTurn>>
    BY DEF Match!Check, Match!client, MInv, Places
<1>2. AllApart' /\ Dialled'
    BY <1>1 DEF MInv, AllApart, NameApart, CellApart, Dialled
<1>3. CASE phase' = "turn" /\ turn' = 1 /\ Match!Announce(1) /\ UNCHANGED <<winner, open>>
  <2>1. Match!TypeOK'
    <3>1. told' \in [Client -> Seq({"init", "again", "yours", "wait"})]
        BY <1>1, <1>3, AnnounceTells DEF MInv
    <3>2. turn' \in 1..2
        BY <1>3
    <3> QED BY <1>1, <1>3, <3>1, <3>2 DEF MInv, Match!TypeOK, Match!IsInjective
  <2>2. Places'
      BY <1>1, <1>3 DEF MInv, Places, Match!DuelAssumption
  <2>3. \A c \in Client : ~Called(c) /\ ~Ready(c) /\ acts'[c] = <<>>
      BY <1>1 DEF MInv, Rights, Holds
  <2>4. Rights'
      BY <1>1, <1>3, <2>3, AnnounceRights
  <2> QED BY <1>2, <2>1, <2>2, <2>4 DEF MInv
<1>4. CASE Match!Exit(0)
  <2>1. players \in Seq(Match!Player) /\ acts \in [Client -> Seq(Match!Action)]
      BY DuelTypes DEF MInv
  <2>2. players' \in Seq(Match!Player) /\ acts' \in [Client -> Seq(Match!Action)]
      BY <1>1, <2>1
  <2>3. Len(players') <= 2
    <3>1. Len(players') = 2
        BY <1>1
    <3> QED BY <3>1
  <2> QED BY <1>1, <1>2, <1>4, <2>2, <2>3, ExitKeeps
<1> QED BY <1>3, <1>4 DEF Match!Check

LEMMA ForfeitKeeps ==
    ASSUME MInv, Match!Forfeit
    PROVE  MInv'
<1>1. /\ Match!Exit(3 - turn)
      /\ UNCHANGED <<players, joining, acts, backlog, asked, doing, myTurn>>
    BY DEF Match!Forfeit, Match!client
<1>2. AllApart'
    BY <1>1 DEF MInv, AllApart, NameApart, CellApart
<1>3. 3 - turn \in 0..2
    BY DuelTypes DEF MInv
<1> QED BY <1>1, <1>2, <1>3, ExitKeeps, DuelTypes DEF MInv

-----------------------------------------------------------------------------
\* What a list of the two must be after an action.
Orderly(ps) == /\ ps \in Seq(Match!Player) /\ Len(ps) = 2
               /\ \A i \in 1..2 : ps[i].client = players[i].client /\ ps[i].name = players[i].name
               /\ ps[turn].hp > 0
               /\ CellApart => ps[1].at # ps[2].at

\* One of the two is changed, and does not come to stand where the other stands.
LEMMA OneChanged ==
    ASSUME players \in Seq(Match!Player), Len(players) = 2, turn \in 1..2, players[turn].hp > 0,
           NEW i \in 1..2, NEW q \in Match!Player, NEW ps, ps = [players EXCEPT ![i] = q],
           q.client = players[i].client, q.name = players[i].name,
           q.at = players[i].at \/ q.at # players[3 - i].at,
           i = turn => q.hp > 0
    PROVE  Orderly(ps)
<1>1. /\ ps \in Seq(Match!Player) /\ Len(ps) = 2 /\ ps[i] = q /\ ps[3 - i] = players[3 - i]
    BY PairChanged
<1>2. \A j \in 1..2 : j = i \/ j = 3 - i
    OBVIOUS
<1>3. \A j \in 1..2 : ps[j].client = players[j].client /\ ps[j].name = players[j].name
    BY <1>1, <1>2
<1>4. ps[turn].hp > 0
    BY <1>1, <1>2
<1>5. CellApart => ps[1].at # ps[2].at
  <2>1. CASE i = 1
      BY <1>1, <2>1 DEF CellApart
  <2>2. CASE i = 2
      BY <1>1, <2>2 DEF CellApart
  <2> QED BY <2>1, <2>2
<1> QED BY <1>1, <1>3, <1>4, <1>5 DEF Orderly

\* An action leaves the two their names and connections; the player on turn lives,
\* and has not stepped where a living opponent stands.
LEMMA ProcessKeeps ==
    ASSUME Match!DuelAssumption, MInv, phase = "turn", NEW a \in Match!Action
    PROVE  Orderly(Match!Process(a))
<1> DEFINE ps   == Match!Process(a)
           opp  == 3 - turn
           mine == players[turn]
           his  == players[opp]
<1>1. /\ players \in Seq(Match!Player) /\ Len(players) = 2 /\ DOMAIN players = 1..2
      /\ turn \in 1..2 /\ opp \in 1..2 /\ opp # turn /\ 3 - opp = turn
      /\ mine \in Match!Player /\ his \in Match!Player /\ mine.hp > 0 /\ his.hp > 0
  <2>1. players \in Seq(Match!Player) /\ Len(players) = 2 /\ turn \in 1..2
      BY DuelTypes DEF MInv, Places
  <2>2. \A i \in DOMAIN players : players[i].hp > 0
      BY DEF MInv, Places
  <2> QED BY <2>1, <2>2, Pair
<1>2. /\ mine.at \in Match!Cell /\ his.at \in Match!Cell
      /\ mine.hp \in 0..InitHP /\ his.hp \in 0..InitHP
      /\ mine.potions \in 0..MaxPotions
    BY <1>1, OfPlayer
<1>3. InitHP \in Nat \ {0} /\ AttackDmg \in Nat \ {0} /\ HealAmt \in Nat /\ MaxPotions \in Nat
    BY DEF Match!DuelAssumption
<1>4. ASSUME ps = players
      PROVE  Orderly(ps)
    BY <1>1, <1>4 DEF CellApart, Orderly
<1>5. CASE a = "attack"
  <2> DEFINE rest == IF his.hp > AttackDmg THEN his.hp - AttackDmg ELSE 0
             hurt == [his EXCEPT !.hp = rest]
  <2>1. ps = players \/ ps = [players EXCEPT ![opp] = hurt]
      BY <1>1, <1>5 DEF Match!Process
  <2>2. rest \in 0..InitHP
      BY <1>2, <1>3
  <2>3. /\ hurt \in Match!Player /\ hurt.client = his.client /\ hurt.name = his.name
        /\ hurt.at = his.at
      BY <1>1, <2>2 DEF Match!Player
  <2> HIDE DEF hurt, ps
  <2>4. ASSUME ps = [players EXCEPT ![opp] = hurt]
        PROVE  Orderly(ps)
      BY <1>1, <2>3, <2>4, OneChanged
  <2> QED BY <1>4, <2>1, <2>4 DEF ps
<1>6. CASE a = "heal"
  <2> DEFINE more == Match!Least(mine.hp + HealAmt, InitHP)
             healed == [mine EXCEPT !.potions = @ - 1, !.hp = more]
  <2>1. ps = players \/ (mine.potions # 0 /\ ps = [players EXCEPT ![turn] = healed])
      BY <1>1, <1>6 DEF Match!Process, Match!Cur
  <2>2. more \in 0..InitHP /\ more > 0
      BY <1>1, <1>2, <1>3 DEF Match!Least
  <2>3. ASSUME mine.potions # 0
        PROVE  /\ healed \in Match!Player /\ healed.client = mine.client
               /\ healed.name = mine.name /\ healed.at = mine.at /\ healed.hp > 0
    <3>1. mine.potions - 1 \in 0..MaxPotions
        BY <1>2, <1>3, <2>3
    <3> HIDE DEF more
    <3> QED BY <1>1, <2>2, <3>1 DEF Match!Player
  <2> HIDE DEF healed, ps
  <2>4. ASSUME mine.potions # 0, ps = [players EXCEPT ![turn] = healed]
        PROVE  Orderly(ps)
      BY <1>1, <2>3, <2>4, OneChanged
  <2> QED BY <1>4, <2>1, <2>4 DEF ps
<1>7. CASE a \notin {"attack", "heal"}
  <2> DEFINE to  == Match!Moved(a)
             moved == [mine EXCEPT !.at = to]
  <2>1. ps = [players EXCEPT ![turn] = moved]
      BY <1>1, <1>7 DEF Match!Process
  <2>2. to \in Match!Cell /\ (to = mine.at \/ to # his.at)
      BY <1>1, <1>2 DEF Match!Moved, Match!Cur, Match!Opp
  <2> HIDE DEF to
  <2>3. /\ moved \in Match!Player /\ moved.client = mine.client /\ moved.name = mine.name
        /\ moved.at = to /\ moved.hp = mine.hp
      BY <1>1, <2>2 DEF Match!Player
  <2> HIDE DEF moved, ps
  <2>4. Orderly(ps)
      BY <1>1, <2>1, <2>2, <2>3, OneChanged
  <2> QED BY <2>4 DEF ps
<1> QED BY <1>5, <1>6, <1>7

LEMMA PlayKeeps ==
    ASSUME Match!DuelAssumption, MInv, Match!Play
    PROVE  MInv'
<1> DEFINE who == Match!Cur.client
           a   == Head(acts[who])
<1>1. /\ phase = "turn" /\ acts[who] # <<>>
      /\ players' = Match!Process(a) /\ acts' = [acts EXCEPT ![who] = Tail(@)]
      /\ IF players'[3 - turn].hp = 0 THEN Match!Exit(turn)
         ELSE /\ turn' = 3 - turn /\ Match!Announce(3 - turn) /\ UNCHANGED <<phase, winner, open>>
      /\ UNCHANGED <<joining, backlog, asked, doing, myTurn>>
    BY DEF Match!Play, Match!client
<1>2. Len(players) = 2 /\ turn \in 1..2 /\ who \in Client
  <2>1. players \in Seq(Match!Player) /\ Len(players) = 2 /\ turn \in 1..2
      BY <1>1, DuelTypes DEF MInv, Places
  <2> QED BY <2>1, Pair, OfPlayer DEF Match!Cur
<1>3. a \in Match!Action /\ acts' \in [Client -> Seq(Match!Action)]
    BY <1>1, <1>2, DuelTypes DEF MInv
<1>4. /\ players' \in Seq(Match!Player) /\ Len(players') = 2
      /\ \A i \in 1..2 : /\ players'[i].client = players[i].client
                         /\ players'[i].name = players[i].name
      /\ players'[turn].hp > 0
      /\ CellApart => players'[1].at # players'[2].at
    BY <1>1, <1>3, ProcessKeeps DEF Orderly
<1>5. AllApart'
    BY <1>2, <1>4 DEF MInv, AllApart, NameApart, CellApart
<1>6. CASE players'[3 - turn].hp = 0
  <2>1. turn \in 0..2 /\ Match!Exit(turn)
      BY <1>1, <1>2, <1>6
  <2>2. UNCHANGED <<joining, backlog, asked, doing, myTurn>>
      BY <1>1
  <2>3. Len(players') <= 2
      BY <1>4
  <2> QED BY <1>3, <1>4, <1>5, <2>1, <2>2, <2>3, ExitKeeps
<1>7. CASE players'[3 - turn].hp # 0
  <2>1. /\ turn' = 3 - turn /\ 3 - turn \in 1..2 /\ Match!Announce(3 - turn)
        /\ UNCHANGED <<phase, winner, open>>
      BY <1>1, <1>2, <1>7
  <2>2. Match!TypeOK'
    <3>1. told' \in [Client -> Seq({"init", "again", "yours", "wait"})]
        BY <1>2, <2>1, AnnounceTells DEF MInv
    <3>2. players' \in Seq(Match!Player) /\ Len(players') <= 2
        BY <1>4
    <3>3. /\ turn' \in 1..2 /\ acts' \in [Client -> Seq(Match!Action)]
          /\ UNCHANGED <<phase, winner, open, joining, backlog, asked, doing, myTurn>>
        BY <1>1, <1>3, <2>1
    <3> QED BY <3>1, <3>2, <3>3 DEF MInv, Match!TypeOK, Match!IsInjective
  <2>3. Places'
    <3>1. players'[3 - turn].hp \in 0..InitHP
        BY <1>4, <2>1, Pair, OfPlayer
    <3>2. players'[3 - turn].hp > 0
        BY <1>7, <3>1
    <3>3. \A i \in DOMAIN players' : players'[i].hp > 0
        BY <1>2, <1>4, <3>2
    <3> QED BY <1>1, <1>4, <2>1, <3>3 DEF Places
  <2>4. Dialled'
      BY <1>1 DEF MInv, Dialled
  <2>5. ASSUME NEW c \in Client
        PROVE  ~Called(c) /\ ~Ready(c) /\ acts'[c] = <<>>
    <3>1. CASE c = who
      <4>1. Len(acts[c]) <= 1 /\ ~Called(c) /\ ~Ready(c)
          BY <1>1, <3>1 DEF MInv, Rights, Single
      <4>2. acts[c] \in Seq(Match!Action) /\ acts'[c] = Tail(acts[c])
          BY <1>1, <3>1, DuelTypes DEF MInv
      <4>3. acts[c] # <<>>
          BY <1>1, <3>1
      <4>4. acts'[c] = <<>>
          BY <4>1, <4>2, <4>3, OnlyOne
      <4> QED BY <4>1, <4>4
    <3>2. CASE c # who
      <4>1. ~Holds(c)
          BY <1>1, <3>2 DEF MInv, Rights
      <4>2. acts'[c] = acts[c]
          BY <1>1, <3>2, DuelTypes DEF MInv
      <4> QED BY <4>1, <4>2 DEF Holds
    <3> QED BY <3>1, <3>2
  <2>6. Rights'
      BY <1>1, <1>2, <1>4, <2>1, <2>5, AnnounceRights
  <2> QED BY <1>5, <2>2, <2>3, <2>4, <2>6 DEF MInv
<1> QED BY <1>6, <1>7

-----------------------------------------------------------------------------
\* A step of one client d that leaves the server alone keeps the rights when it
\* gives d none and leaves it one at most.
LEMMA ClientRights ==
    ASSUME MInv, NEW d \in Client, UNCHANGED <<phase, players, turn>>,
           \A c \in Client \ {d} : /\ told'[c] = told[c] /\ acts'[c] = acts[c]
                                   /\ doing'[c] = doing[c] /\ myTurn'[c] = myTurn[c],
           Holds(d)' => Holds(d), myTurn'[d] => myTurn[d] \/ Holds(d), Single(d) => Single(d)'
    PROVE  Rights'
<1>1. \A c \in Client \ {d} : /\ Holds(c)' = Holds(c) /\ Single(c)' = Single(c)
                              /\ myTurn'[c] = myTurn[c]
    BY DEF Holds, Single, CalledOnce, Called, Ready
<1> QED BY <1>1 DEF MInv, Rights, Match!Cur

LEMMA TalkKeeps ==
    ASSUME MInv, NEW c \in Client,
           Match!Dial(c) \/ Match!Quit(c) \/ Match!Done(c) \/ \E n \in Name : Match!SendName(c, n)
    PROVE  MInv'
<1>1. /\ UNCHANGED <<phase, players, joining, turn, winner, open, acts, told, myTurn>>
      /\ \E d \in {"naming", "joining", "gone"} : doing' = [doing EXCEPT ![c] = d]
      /\ \/ UNCHANGED backlog
         \/ doing[c] = "off" /\ backlog' = Append(backlog, c)
      /\ asked' = asked \/ \E n \in Name : asked' = [asked EXCEPT ![c] = Append(@, n)]
      /\ doing[c] \in {"off", "naming"} \/ doing'[c] = "gone"
    BY DuelTypes DEF MInv, Match!Dial, Match!Quit, Match!Done, Match!SendName, Match!Become,
                     Match!server
<1>2. /\ \A d \in Client \ {c} : doing'[d] = doing[d]
      /\ doing'[c] \in {"naming", "joining", "gone"}
      /\ doing' \in [Client -> {"off", "naming", "joining", "playing", "sent", "gone"}]
    BY <1>1, DuelTypes DEF MInv
<1>3. asked' \in [Client -> Seq(Name)]
  <2>1. asked \in [Client -> Seq(Name)]
      BY DuelTypes DEF MInv
  <2>2. \A n \in Name : Append(asked[c], n) \in Seq(Name)
      BY <2>1, OneMore
  <2> QED BY <1>1, <2>1, <2>2
<1>4. backlog' \in Seq(Client) /\ Match!IsInjective(backlog')
  <2>1. CASE UNCHANGED backlog
      BY <2>1 DEF MInv, Match!TypeOK
  <2>2. CASE doing[c] = "off" /\ backlog' = Append(backlog, c)
    <3>1. backlog \in Seq(Client) /\ (\A i, j \in DOMAIN backlog : backlog[i] = backlog[j] => i = j)
        BY DEF MInv, Match!TypeOK, Match!IsInjective
    <3>2. \A i \in DOMAIN backlog : backlog[i] # c
        BY <2>2 DEF MInv, Dialled, Match!ToSet
    <3>3. /\ backlog' \in Seq(Client) /\ DOMAIN backlog' = 1..(Len(backlog) + 1)
          /\ DOMAIN backlog = 1..Len(backlog) /\ Len(backlog) \in Nat
          /\ \A i \in DOMAIN backlog' : backlog'[i] = IF i = Len(backlog) + 1 THEN c ELSE backlog[i]
        BY <2>2, <3>1
    <3>4. \A i, j \in DOMAIN backlog' : backlog'[i] = backlog'[j] => i = j
        BY <3>1, <3>2, <3>3
    <3> QED BY <3>3, <3>4 DEF Match!IsInjective
  <2> QED BY <1>1, <2>1, <2>2
<1>5. Match!TypeOK'
    BY <1>1, <1>2, <1>3, <1>4 DEF MInv, Match!TypeOK, Match!IsInjective
<1>6. Places' /\ AllApart'
    BY <1>1 DEF MInv, Places, Match!Start, AllApart, NameApart, CellApart
<1>7. Dialled'
  <2>1. Match!ToSet(backlog') \subseteq Match!ToSet(backlog) \cup {c}
    <3>1. backlog \in Seq(Client)
        BY DuelTypes DEF MInv
    <3>2. \A i \in DOMAIN Append(backlog, c) :
            \/ Append(backlog, c)[i] = c
            \/ i \in DOMAIN backlog /\ Append(backlog, c)[i] = backlog[i]
        BY <3>1
    <3> QED BY <1>1, <3>2 DEF Match!ToSet
  <2>2. doing[c] \in {"off", "naming"} => ~myTurn[c]
      BY DEF MInv, Dialled
  <2> QED BY <1>1, <1>2, <2>1, <2>2 DEF MInv, Dialled
<1>8. Rights'
  <2>1. ~Ready(c)'
      BY <1>2 DEF Ready
  <2>2. /\ \A d \in Client \ {c} : /\ told'[d] = told[d] /\ acts'[d] = acts[d]
                                   /\ doing'[d] = doing[d] /\ myTurn'[d] = myTurn[d]
        /\ Holds(c)' => Holds(c)
        /\ myTurn'[c] => myTurn[c] \/ Holds(c)
        /\ Single(c) => Single(c)'
      BY <1>1, <1>2, <2>1 DEF Holds, Single, CalledOnce, Called
  <2> QED BY <1>1, <2>2, ClientRights
<1> QED BY <1>5, <1>6, <1>7, <1>8 DEF MInv

\* The message a client takes from its stream was one of those it could be called by.
LEMMA TakesOne ==
    ASSUME MInv, NEW c \in Client, told[c] # <<>>, told' = [told EXCEPT ![c] = Tail(@)]
    PROVE  /\ told' \in [Client -> Seq({"init", "again", "yours", "wait"})]
           /\ \A d \in Client \ {c} : told'[d] = told[d]
           /\ Called(c)' => Called(c)
           /\ CalledOnce(c) => CalledOnce(c)'
           /\ Head(told[c]) = "yours" => Called(c) /\ (CalledOnce(c) => ~Called(c)')
<1>1. told[c] \in Seq({"init", "again", "yours", "wait"})
    BY DuelTypes DEF MInv
<1>2. /\ told' \in [Client -> Seq({"init", "again", "yours", "wait"})]
      /\ told'[c] = Tail(told[c])
      /\ \A d \in Client \ {c} : told'[d] = told[d]
    BY <1>1, DuelTypes DEF MInv
<1>3. /\ \A i \in DOMAIN told'[c] : /\ i \in Nat \ {0} /\ i+1 \in DOMAIN told[c]
                                    /\ told'[c][i] = told[c][i+1]
      /\ 1 \in DOMAIN told[c] /\ Head(told[c]) = told[c][1]
    BY <1>1, <1>2
<1> QED BY <1>2, <1>3 DEF Called, CalledOnce

LEMMA AnsweredKeeps ==
    ASSUME MInv, NEW c \in Client, Match!Answered(c)
    PROVE  MInv'
<1>1. /\ doing[c] = "joining" /\ ~myTurn[c]
      /\ UNCHANGED <<phase, players, joining, turn, winner, open, backlog, asked, acts, myTurn>>
      /\ \E d \in {"playing", "naming", "gone"} : doing' = [doing EXCEPT ![c] = d]
      /\ \/ told[c] # <<>> /\ told' = [told EXCEPT ![c] = Tail(@)]
         \/ UNCHANGED told
    BY DEF Match!Answered, Match!Become, Match!server, MInv, Dialled
<1>2. /\ \A d \in Client \ {c} : doing'[d] = doing[d]
      /\ doing'[c] \in {"playing", "naming", "gone"}
      /\ doing' \in [Client -> {"off", "naming", "joining", "playing", "sent", "gone"}]
    BY <1>1, DuelTypes DEF MInv
<1>3. /\ told' \in [Client -> Seq({"init", "again", "yours", "wait"})]
      /\ \A d \in Client \ {c} : told'[d] = told[d]
      /\ Called(c)' => Called(c)
      /\ CalledOnce(c) => CalledOnce(c)'
  <2>1. CASE UNCHANGED told
      BY <2>1, DuelTypes DEF MInv, Called, CalledOnce
  <2>2. CASE told[c] # <<>> /\ told' = [told EXCEPT ![c] = Tail(@)]
      BY <2>2, TakesOne
  <2> QED BY <1>1, <2>1, <2>2
<1>4. Match!TypeOK'
    BY <1>1, <1>2, <1>3 DEF MInv, Match!TypeOK, Match!IsInjective
<1>5. Places' /\ AllApart'
    BY <1>1 DEF MInv, Places, Match!Start, AllApart, NameApart, CellApart
<1>6. Dialled'
    BY <1>1, <1>2 DEF MInv, Dialled
<1>7. Rights'
  <2>1. ~Ready(c)' /\ ~Ready(c)
      BY <1>1, <1>2 DEF Ready
  <2>2. /\ \A d \in Client \ {c} : /\ told'[d] = told[d] /\ acts'[d] = acts[d]
                                   /\ doing'[d] = doing[d] /\ myTurn'[d] = myTurn[d]
        /\ Holds(c)' => Holds(c)
        /\ myTurn'[c] => myTurn[c] \/ Holds(c)
        /\ Single(c) => Single(c)'
      BY <1>1, <1>2, <1>3, <2>1 DEF Holds, Single
  <2> QED BY <1>1, <2>2, ClientRights
<1> QED BY <1>4, <1>5, <1>6, <1>7 DEF MInv

LEMMA HearKeeps ==
    ASSUME MInv, NEW c \in Client, Match!Hear(c)
    PROVE  MInv'
<1>1. /\ doing[c] \in {"playing", "sent"} /\ told[c] # <<>>
      /\ told' = [told EXCEPT ![c] = Tail(@)]
      /\ myTurn' = [myTurn EXCEPT ![c] = (Head(told[c]) = "yours")]
      /\ UNCHANGED <<phase, players, joining, turn, winner, open, backlog, asked, acts, doing>>
    BY DEF Match!Hear, Match!server
<1>2. /\ told' \in [Client -> Seq({"init", "again", "yours", "wait"})]
      /\ \A d \in Client \ {c} : told'[d] = told[d]
      /\ Called(c)' => Called(c)
      /\ CalledOnce(c) => CalledOnce(c)'
      /\ Head(told[c]) = "yours" => Called(c) /\ (CalledOnce(c) => ~Called(c)')
    BY <1>1, TakesOne
<1>3. /\ myTurn' \in [Client -> BOOLEAN]
      /\ myTurn'[c] <=> Head(told[c]) = "yours"
      /\ \A d \in Client \ {c} : myTurn'[d] = myTurn[d]
    BY <1>1, DuelTypes, Zenon DEF MInv
<1>4. Match!TypeOK'
    BY <1>1, <1>2, <1>3 DEF MInv, Match!TypeOK, Match!IsInjective
<1>5. Places' /\ AllApart'
    BY <1>1 DEF MInv, Places, Match!Start, AllApart, NameApart, CellApart
<1>6. Dialled'
    BY <1>1, <1>3 DEF MInv, Dialled
<1>7. Rights'
  <2>1. /\ \A d \in Client \ {c} : /\ told'[d] = told[d] /\ acts'[d] = acts[d]
                                   /\ doing'[d] = doing[d] /\ myTurn'[d] = myTurn[d]
        /\ Holds(c)' => Holds(c)
        /\ myTurn'[c] => myTurn[c] \/ Holds(c)
        /\ Single(c) => Single(c)'
      BY <1>1, <1>2, <1>3 DEF Holds, Single, Ready
  <2> QED BY <1>1, <2>1, ClientRights
<1> QED BY <1>4, <1>5, <1>6, <1>7 DEF MInv

LEMMA SendKeeps ==
    ASSUME MInv, NEW c \in Client, NEW a \in Match!Action, Match!Send(c, a)
    PROVE  MInv'
<1>1. /\ doing[c] = "playing" /\ myTurn[c] /\ doing' = [doing EXCEPT ![c] = "sent"]
      /\ acts' = [acts EXCEPT ![c] = Append(@, a)]
      /\ UNCHANGED <<phase, players, joining, turn, winner, open, backlog, asked, told, myTurn>>
    BY DEF Match!Send, Match!Become, Match!server
<1>2. /\ \A d \in Client \ {c} : doing'[d] = doing[d] /\ acts'[d] = acts[d]
      /\ doing'[c] = "sent" /\ acts'[c] = Append(acts[c], a)
      /\ acts[c] \in Seq(Match!Action) /\ acts' \in [Client -> Seq(Match!Action)]
      /\ doing' \in [Client -> {"off", "naming", "joining", "playing", "sent", "gone"}]
    BY <1>1, DuelTypes DEF MInv
<1>3. Match!TypeOK'
    BY <1>1, <1>2 DEF MInv, Match!TypeOK, Match!IsInjective
<1>4. Places' /\ AllApart'
    BY <1>1 DEF MInv, Places, Match!Start, AllApart, NameApart, CellApart
<1>5. Dialled'
    BY <1>1, <1>2 DEF MInv, Dialled
<1>6. Rights'
  <2>1. Ready(c) /\ ~Ready(c)' /\ Called(c)' = Called(c) /\ CalledOnce(c)' = CalledOnce(c)
      BY <1>1, <1>2 DEF Ready, Called, CalledOnce
  <2>2. Single(c) => Single(c)'
      BY <1>2, <2>1 DEF Single
  <2>3. /\ \A d \in Client \ {c} : /\ told'[d] = told[d] /\ acts'[d] = acts[d]
                                   /\ doing'[d] = doing[d] /\ myTurn'[d] = myTurn[d]
        /\ Holds(c)' => Holds(c)
        /\ myTurn'[c] => myTurn[c] \/ Holds(c)
      BY <1>1, <1>2, <2>1 DEF Holds
  <2> QED BY <1>1, <2>2, <2>3, ClientRights
<1> QED BY <1>3, <1>4, <1>5, <1>6 DEF MInv

LEMMA ClearKeeps ==
    ASSUME MInv, NEW c \in Client, Match!Clear(c)
    PROVE  MInv'
<1>1. /\ doing[c] = "sent" /\ doing' = [doing EXCEPT ![c] = "playing"]
      /\ myTurn' = [myTurn EXCEPT ![c] = FALSE]
      /\ UNCHANGED <<phase, players, joining, turn, winner, open, backlog, asked, acts, told>>
    BY DEF Match!Clear, Match!Become, Match!server
<1>2. /\ \A d \in Client \ {c} : doing'[d] = doing[d] /\ myTurn'[d] = myTurn[d]
      /\ doing'[c] = "playing" /\ ~myTurn'[c] /\ myTurn' \in [Client -> BOOLEAN]
      /\ doing' \in [Client -> {"off", "naming", "joining", "playing", "sent", "gone"}]
    BY <1>1, DuelTypes DEF MInv
<1>3. Match!TypeOK'
    BY <1>1, <1>2 DEF MInv, Match!TypeOK, Match!IsInjective
<1>4. Places' /\ AllApart'
    BY <1>1 DEF MInv, Places, Match!Start, AllApart, NameApart, CellApart
<1>5. Dialled'
    BY <1>1, <1>2 DEF MInv, Dialled
<1>6. Rights'
  <2>1. ~Ready(c)' /\ ~Ready(c)
      BY <1>1, <1>2 DEF Ready
  <2>2. /\ \A d \in Client \ {c} : /\ told'[d] = told[d] /\ acts'[d] = acts[d]
                                   /\ doing'[d] = doing[d] /\ myTurn'[d] = myTurn[d]
        /\ Holds(c)' => Holds(c)
        /\ myTurn'[c] => myTurn[c] \/ Holds(c)
        /\ Single(c) => Single(c)'
      BY <1>1, <1>2, <2>1 DEF Holds, Single, CalledOnce, Called
  <2> QED BY <1>1, <2>2, ClientRights
<1> QED BY <1>3, <1>4, <1>5, <1>6 DEF MInv

LEMMA MatchStep ==
    ASSUME Match!DuelAssumption, MInv, [Match!Next]_(Match!vars)
    PROVE  MInv'
<1>1. CASE UNCHANGED Match!vars
  <2>1. Match!TypeOK' /\ Places' /\ AllApart' /\ Dialled'
      BY <1>1 DEF Match!vars, MInv, Match!TypeOK, Match!IsInjective, Places, Match!Start,
                  AllApart, NameApart, CellApart, Dialled
  <2>2. Rights'
      BY <1>1 DEF Match!vars, MInv, Rights, Holds, Single, CalledOnce, Called, Ready, Match!Cur
  <2> QED BY <2>1, <2>2 DEF MInv
<1>2. CASE Match!Server
    BY <1>2, SweepKeeps, AcceptKeeps, NegotiateKeeps, NoNameKeeps, CheckKeeps, PlayKeeps,
       ForfeitKeeps
       DEF Match!Server
<1>3. ASSUME NEW c \in Client,
             \/ Match!Listen(c) \/ Match!Dial(c) \/ Match!Clear(c) \/ Match!Quit(c)
             \/ (\E n \in Name : Match!SendName(c, n)) \/ (\E a \in Match!Action : Match!Send(c, a))
      PROVE  MInv'
    BY <1>3, TalkKeeps, AnsweredKeeps, HearKeeps, SendKeeps, ClearKeeps DEF Match!Listen
<1> QED BY <1>1, <1>2, <1>3 DEF Match!Next

\* Two players never share a name or, on a map with more than one cell, a cell:
\* the lobby sweeps who has left before it gives out the places, and nobody
\* steps where the opponent lives (Duel's Apart; main, negotiateJoinName,
\* handleMove).
THEOREM DuellistsApart ==
    ASSUME Match!DuelAssumption, Width > 1 \/ Height > 1
    PROVE  Match!Spec => []Match!Apart
<1>1. MInv => Match!Apart
    BY DEF MInv, AllApart, NameApart, CellApart, Match!Apart
<1> QED BY MatchInit, MatchStep, <1>1, PTL DEF Match!Spec

\* In a turn the only action on its way is one of the player on turn, whether or
\* not its client is quick to clear its flag: nothing a client sends is left over
\* for a later turn (Duel's OneAction; Run, the client's main).
THEOREM OneActionEach ==
    ASSUME Match!DuelAssumption
    PROVE  Match!Spec => [](Match!TypeOK /\ Match!OneAction)
<1>1. MInv => Match!TypeOK /\ Match!OneAction
    BY DuelTypes DEF MInv, Rights, Holds, Single, Match!OneAction
<1> QED BY MatchInit, MatchStep, <1>1, PTL DEF Match!Spec

-----------------------------------------------------------------------------
(*                                                                         *)
(* The room whose silent clients keep their place (ZombieRoom).            *)
(*                                                                         *)
CONSTANT Wants
VARIABLES waiting, typed, player, reader, ready, in
Crowd == INSTANCE ZombieRoom

Reads == {"reading", "message", "error"}

\* A slot belongs to who asked for it, and no longer waits.
Owners == \A s \in {0, 1} : player[s] # None =>
            /\ Wants[player[s]] = s /\ player[s] \notin waiting
            /\ client[player[s]] # "unborn"

\* Who waits has dialled and has no goroutine yet.
Queue == \A c \in waiting : client[c] # "unborn" /\ reader[c] = "none"

\* A recvLoop runs for the owner of an online slot and for nobody else; when it
\* has seen the end, the client has closed.
Loops == \A c \in Client :
    /\ reader[c] \in Reads => player[Wants[c]] = c /\ online[Wants[c]]
    /\ reader[c] \in {"error", "done"} => client[c] = "closed"
    /\ ~ready => reader[c] = "none"
    /\ client[c] = "unborn" => reader[c] = "none"

\* Once the room is full, no slot is ever without an owner; one that is offline
\* had an owner whose recvLoop has ended.
Full == /\ ready => \A s \in {0, 1} : /\ player[s] # None
                                      /\ ~online[s] => reader[player[s]] = "done"
        /\ ~ready => \A s \in {0, 1} : inputs[s] = None /\ (player[s] # None => online[s])

CrowdInv == Crowd!TypeOK /\ Owners /\ Queue /\ Loops /\ Full /\ Crowd!OwnInputs

LEMMA CrowdTypes ==
    ASSUME Crowd!RoomAssumption, Crowd!TypeOK
    PROVE  /\ None \notin Client /\ \A c \in Client : Wants[c] \in {0, 1}
           /\ client \in [Client -> {"unborn", "alive", "zombie", "closed"}]
           /\ waiting \subseteq Client /\ typed \subseteq Client
           /\ player \in [{0, 1} -> Client \cup {None}] /\ online \in [{0, 1} -> BOOLEAN]
           /\ reader \in [Client -> {"none", "reading", "message", "error", "done"}]
           /\ inputs \in [{0, 1} -> Client \cup {None}] /\ ready \in BOOLEAN
           /\ in \in [{0, 1} -> Client \cup {None}]
BY DEF Crowd!RoomAssumption, Crowd!TypeOK, Crowd!Slot

LEMMA CrowdInit ==
    ASSUME Crowd!RoomAssumption, Crowd!Init
    PROVE  CrowdInv
<1>1. Crowd!TypeOK
    BY DEF Crowd!Init, Crowd!TypeOK, Crowd!Slot
<1> QED BY <1>1 DEF Crowd!Init, Crowd!Slot, CrowdInv, Owners, Queue, Loops, Full, Crowd!OwnInputs, Reads

\* The goroutine that accepts: before the room is full, and after.
LEMMA DoorKeeps ==
    ASSUME Crowd!RoomAssumption, CrowdInv, NEW c \in Client,
           Crowd!Join(c) \/ Crowd!Replace(c) \/ Crowd!Refuse(c)
    PROVE  CrowdInv'
<1>1. Crowd!TypeOK /\ Owners /\ Queue /\ Loops /\ Full /\ Crowd!OwnInputs
    BY DEF CrowdInv
<1>2. CASE Crowd!Join(c)
  <2>1. /\ ~ready /\ c \in waiting /\ player[Wants[c]] = None
        /\ player' = [player EXCEPT ![Wants[c]] = c]
        /\ online' = [online EXCEPT ![Wants[c]] = TRUE] /\ waiting' = waiting \ {c}
        /\ UNCHANGED <<client, typed, reader, inputs, ready, in>>
      BY <1>2 DEF Crowd!Join
  <2>2. Crowd!TypeOK'
      BY <1>1, <2>1, CrowdTypes DEF Crowd!TypeOK, Crowd!Slot
  <2>3. Owners' /\ Queue'
      BY <1>1, <2>1, CrowdTypes DEF Owners, Queue
  <2>4. Loops' /\ Full' /\ Crowd!OwnInputs'
      BY <1>1, <2>1, CrowdTypes DEF Loops, Full, Crowd!OwnInputs, Crowd!Slot, Reads
  <2> QED BY <2>2, <2>3, <2>4 DEF CrowdInv
<1>3. CASE Crowd!Replace(c)
  <2>1. /\ ready /\ c \in waiting /\ ~online[Wants[c]]
        /\ player' = [player EXCEPT ![Wants[c]] = c]
        /\ online' = [online EXCEPT ![Wants[c]] = TRUE] /\ waiting' = waiting \ {c}
        /\ inputs' = [inputs EXCEPT ![Wants[c]] = None]
        /\ reader' = [reader EXCEPT ![c] = "reading"]
        /\ UNCHANGED <<client, typed, ready, in>>
      BY <1>3 DEF Crowd!Replace
  <2>2. Crowd!TypeOK'
      BY <1>1, <2>1, CrowdTypes DEF Crowd!TypeOK, Crowd!Slot
  <2>3. Owners' /\ Queue'
      BY <1>1, <2>1, CrowdTypes DEF Owners, Queue
  <2>4. Loops'
      BY <1>1, <2>1, CrowdTypes DEF Loops, Full, Queue, Owners, Reads
  <2>5. Full' /\ Crowd!OwnInputs'
      BY <1>1, <2>1, CrowdTypes DEF Full, Owners, Crowd!OwnInputs, Crowd!Slot
  <2> QED BY <2>2, <2>3, <2>4, <2>5 DEF CrowdInv
<1>4. CASE Crowd!Refuse(c)
  <2>1. /\ c \in waiting /\ client' = [client EXCEPT ![c] = "closed"] /\ waiting' = waiting \ {c}
        /\ UNCHANGED <<typed, player, online, reader, inputs, ready, in>>
      BY <1>4 DEF Crowd!Refuse
  <2>2. Crowd!TypeOK'
      BY <1>1, <2>1, CrowdTypes DEF Crowd!TypeOK, Crowd!Slot
  <2> QED BY <1>1, <2>1, <2>2, CrowdTypes
          DEF CrowdInv, Owners, Queue, Loops, Full, Crowd!OwnInputs, Crowd!Slot, Reads
<1> QED BY <1>2, <1>3, <1>4

\* A recvLoop.
LEMMA ReaderKeeps ==
    ASSUME Crowd!RoomAssumption, CrowdInv, NEW c \in Client,
           Crowd!Read(c) \/ Crowd!Store(c) \/ Crowd!Offline(c)
    PROVE  CrowdInv'
<1>1. Crowd!TypeOK /\ Owners /\ Queue /\ Loops /\ Full /\ Crowd!OwnInputs
    BY DEF CrowdInv
<1>2. CASE Crowd!Read(c)
  <2>1. /\ reader[c] = "reading"
        /\ \/ reader' = [reader EXCEPT ![c] = "message"]
           \/ client[c] = "closed" /\ reader' = [reader EXCEPT ![c] = "error"]
        /\ typed' \subseteq typed
        /\ UNCHANGED <<client, waiting, player, online, inputs, ready, in>>
      BY <1>2 DEF Crowd!Read
  <2>2. Crowd!TypeOK'
      BY <1>1, <2>1, CrowdTypes DEF Crowd!TypeOK, Crowd!Slot
  <2>3. Owners' /\ Queue' /\ Crowd!OwnInputs'
      BY <1>1, <2>1, CrowdTypes DEF Owners, Queue, Crowd!OwnInputs, Crowd!Slot
  <2>4. Loops'
      BY <1>1, <2>1, CrowdTypes DEF Loops, Reads
  <2>5. Full'
      BY <1>1, <2>1, CrowdTypes DEF Full
  <2> QED BY <2>2, <2>3, <2>4, <2>5 DEF CrowdInv
<1>3. CASE Crowd!Store(c)
  <2>1. /\ reader[c] = "message" /\ reader' = [reader EXCEPT ![c] = "reading"]
        /\ inputs' = [inputs EXCEPT ![Wants[c]] = c]
        /\ UNCHANGED <<client, waiting, typed, player, online, ready, in>>
      BY <1>3 DEF Crowd!Store
  <2>2. Crowd!TypeOK'
      BY <1>1, <2>1, CrowdTypes DEF Crowd!TypeOK, Crowd!Slot
  <2>3. Owners' /\ Queue'
      BY <1>1, <2>1, CrowdTypes DEF Owners, Queue
  <2>4. Loops' /\ Crowd!OwnInputs'
      BY <1>1, <2>1, CrowdTypes DEF Loops, Reads, Crowd!OwnInputs, Crowd!Slot
  <2>5. Full'
      BY <1>1, <2>1, CrowdTypes DEF Full, Loops
  <2> QED BY <2>2, <2>3, <2>4, <2>5 DEF CrowdInv
<1>4. CASE Crowd!Offline(c)
  <2>1. /\ reader[c] = "error" /\ reader' = [reader EXCEPT ![c] = "done"]
        /\ online' = [online EXCEPT ![Wants[c]] = FALSE]
        /\ UNCHANGED <<client, waiting, typed, player, inputs, ready, in>>
      BY <1>4 DEF Crowd!Offline
  <2>2. Crowd!TypeOK'
      BY <1>1, <2>1, CrowdTypes DEF Crowd!TypeOK, Crowd!Slot
  <2>3. Owners' /\ Queue' /\ Crowd!OwnInputs'
      BY <1>1, <2>1, CrowdTypes DEF Owners, Queue, Crowd!OwnInputs, Crowd!Slot
  <2>4. Loops'
      BY <1>1, <2>1, CrowdTypes DEF Loops, Reads
  <2>5. Full'
      BY <1>1, <2>1, CrowdTypes DEF Full, Loops, Reads
  <2> QED BY <2>2, <2>3, <2>4, <2>5 DEF CrowdInv
<1> QED BY <1>2, <1>3, <1>4

\* The frame loop and the start of the game.
LEMMA FramesKeep ==
    ASSUME Crowd!RoomAssumption, CrowdInv, Crowd!Begin \/ Crowd!Take \/ Crowd!Play
    PROVE  CrowdInv'
<1>1. Crowd!TypeOK /\ Owners /\ Queue /\ Loops /\ Full /\ Crowd!OwnInputs
    BY DEF CrowdInv
<1>2. CASE Crowd!Begin
  <2>1. /\ ~ready /\ ready' = TRUE /\ \A s \in {0, 1} : player[s] # None
        /\ reader' = [c \in Client |-> IF \E s \in {0, 1} : player[s] = c THEN "reading" ELSE "none"]
        /\ UNCHANGED <<client, waiting, typed, player, online, inputs, in>>
      BY <1>2 DEF Crowd!Begin, Crowd!Slot
  <2>2. Crowd!TypeOK'
      BY <1>1, <2>1, CrowdTypes DEF Crowd!TypeOK, Crowd!Slot
  <2>3. Owners' /\ Queue' /\ Crowd!OwnInputs'
      BY <1>1, <2>1, CrowdTypes DEF Owners, Queue, Crowd!OwnInputs, Crowd!Slot
  <2>4. Loops' /\ Full'
      BY <1>1, <2>1, CrowdTypes DEF Loops, Full, Owners, Reads
  <2> QED BY <2>2, <2>3, <2>4 DEF CrowdInv
<1>3. CASE Crowd!Take \/ Crowd!Play
  <2>1. /\ UNCHANGED <<client, waiting, typed, player, online, reader, ready>>
        /\ inputs' = inputs \/ inputs' = [s \in {0, 1} |-> None]
        /\ in' = inputs \/ in' = [s \in {0, 1} |-> None]
      BY <1>3 DEF Crowd!Take, Crowd!Play, Crowd!Slot
  <2>2. Crowd!TypeOK'
      BY <1>1, <2>1, CrowdTypes DEF Crowd!TypeOK, Crowd!Slot
  <2>3. Owners' /\ Queue' /\ Loops'
      BY <1>1, <2>1, CrowdTypes DEF Owners, Queue, Loops
  <2>4. Full' /\ Crowd!OwnInputs'
      BY <1>1, <2>1, CrowdTypes DEF Full, Crowd!OwnInputs, Crowd!Slot
  <2> QED BY <2>2, <2>3, <2>4 DEF CrowdInv
<1> QED BY <1>2, <1>3

LEMMA PeopleKeep ==
    ASSUME Crowd!RoomAssumption, CrowdInv, NEW c \in Client,
           Crowd!Dial(c) \/ Crowd!Type(c) \/ Crowd!Toggle(c) \/ Crowd!Close(c)
    PROVE  CrowdInv'
<1>1. Crowd!TypeOK /\ Owners /\ Queue /\ Loops /\ Full /\ Crowd!OwnInputs
    BY DEF CrowdInv
<1>2. /\ UNCHANGED <<player, online, reader, inputs, ready, in>>
      /\ typed' = typed \/ typed' = typed \cup {c}
      /\ \/ client' = client /\ waiting' = waiting
         \/ /\ client[c] = "unborn" /\ client' = [client EXCEPT ![c] = "alive"]
            /\ waiting' = waiting \cup {c}
         \/ /\ client[c] \in {"alive", "zombie"} /\ waiting' = waiting
            /\ \E l \in {"alive", "zombie", "closed"} : client' = [client EXCEPT ![c] = l]
    BY DEF Crowd!Dial, Crowd!Type, Crowd!Toggle, Crowd!Close
<1>3. Crowd!TypeOK'
    BY <1>1, <1>2, CrowdTypes DEF Crowd!TypeOK, Crowd!Slot
<1>4. Owners'
    BY <1>1, <1>2, CrowdTypes DEF Owners
<1>5. Queue'
    BY <1>1, <1>2, CrowdTypes DEF Queue, Loops
<1>6. Loops'
    BY <1>1, <1>2, CrowdTypes DEF Loops
<1>7. Full' /\ Crowd!OwnInputs'
    BY <1>1, <1>2 DEF Full, Crowd!OwnInputs
<1> QED BY <1>3, <1>4, <1>5, <1>6, <1>7 DEF CrowdInv

LEMMA CrowdStep ==
    ASSUME Crowd!RoomAssumption, CrowdInv, [Crowd!Next]_(Crowd!vars)
    PROVE  CrowdInv'
<1>1. CASE UNCHANGED Crowd!vars
    BY <1>1 DEF Crowd!vars, CrowdInv, Crowd!TypeOK, Owners, Queue, Loops, Full, Crowd!OwnInputs
<1>2. CASE Crowd!Next
    BY <1>2, DoorKeeps, ReaderKeeps, FramesKeep, PeopleKeep DEF Crowd!Next, Crowd!Server
<1> QED BY <1>1, <1>2

\* Whoever comes, goes, falls silent or is refused: a slot plays only what its
\* own client sent (ZombieRoom's OwnInputs; recvLoop, the frame loop and
\* handleExtraOrReplacementLoop of exp5_1's multi_thread_server).
THEOREM OwnKeysOnly ==
    ASSUME Crowd!RoomAssumption
    PROVE  Crowd!Spec => [](Crowd!TypeOK /\ Crowd!OwnInputs)
<1>1. CrowdInv => Crowd!TypeOK /\ Crowd!OwnInputs
    BY DEF CrowdInv
<1> QED BY CrowdInit, CrowdStep, <1>1, PTL DEF Crowd!Spec

\* And a slot changes hands only after its client has closed and what it sent
\* has been read: a zombie keeps its slot (ZombieRoom's GivesFree).
THEOREM ZombiesKeep ==
    ASSUME Crowd!RoomAssumption
    PROVE  Crowd!Spec => Crowd!ZombieKeeps
<1>1. ASSUME CrowdInv, [Crowd!Next]_(Crowd!vars) PROVE Crowd!GivesFree
  <2> SUFFICES ASSUME NEW s \in {0, 1}, player[s] # None, player'[s] # player[s]
               PROVE  client[player[s]] = "closed" /\ reader[player[s]] = "done"
      BY DEF Crowd!GivesFree, Crowd!Slot
  <2>1. PICK c \in Client : Crowd!Join(c) \/ Crowd!Replace(c)
      BY <1>1 DEF Crowd!Next, Crowd!Server, Crowd!vars, Crowd!Begin, Crowd!Take, Crowd!Play,
                  Crowd!Refuse, Crowd!Read, Crowd!Store, Crowd!Offline, Crowd!Dial, Crowd!Type,
                  Crowd!Toggle, Crowd!Close
  <2>2. player \in [{0, 1} -> Client \cup {None}] /\ Wants[c] \in {0, 1}
      BY <1>1, CrowdTypes DEF CrowdInv
  <2>3. Crowd!Replace(c) /\ s = Wants[c]
      BY <2>1, <2>2 DEF Crowd!Join, Crowd!Replace
  <2>4. ready /\ ~online[s]
      BY <2>3 DEF Crowd!Replace
  <2>5. reader[player[s]] = "done" /\ player[s] \in Client
      BY <1>1, <2>2, <2>4 DEF CrowdInv, Full
  <2> QED BY <1>1, <2>5 DEF CrowdInv, Loops
<1> QED BY CrowdInit, CrowdStep, <1>1, PTL DEF Crowd!Spec, Crowd!ZombieKeeps

-----------------------------------------------------------------------------
(*                                                                         *)
(* The rooms of one loop that reads its players in turn (TurnLoop).        *)
(*                                                                         *)
CONSTANTS Deadline, MaxFrames, MaxRedials
VARIABLES slot, at, heard, frame, up, shut, fresh, mute, sticky
Turns == INSTANCE TurnLoop

Lines == Client \X Nat
TurnTypes == /\ conn \in [Client -> Nat] /\ backlog \in Seq(Lines)
             /\ slot \in [{1, 2} -> [conn : Lines, online : BOOLEAN]]
             /\ inputs \in [{1, 2} -> {"none", "idle", "act"}] /\ at \in 0..4

\* A client numbers its connections, and each is in one place.
Numbered == /\ \A s \in {1, 2} : slot[s].conn[2] <= conn[slot[s].conn[1]]
            /\ \A i \in 1..Len(backlog) : backlog[i][2] <= conn[backlog[i][1]]
OnePlace == /\ slot[1].conn # slot[2].conn
            /\ \A s \in {1, 2}, i \in 1..Len(backlog) : slot[s].conn # backlog[i]
            /\ \A i, j \in 1..Len(backlog) : i # j => backlog[i] # backlog[j]

\* An input that was read in this pass is still to be applied: its player is
\* there, and the pass has heard somebody.
ToApply == \A s \in {1, 2} : inputs[s] = "act" => s < at /\ at <= 3 /\ slot[s].online /\ heard

TurnInv == TurnTypes /\ Numbered /\ OnePlace /\ ToApply

LEMMA FirstTwo ==
    ASSUME Turns!RoomAssumption
    PROVE  Turns!Nth(1) \in Client /\ Turns!Nth(2) \in Client /\ Turns!Nth(1) # Turns!Nth(2)
<1> DEFINE first == CHOOSE c \in Client : TRUE
<1>1. IsFiniteSet(Client) /\ Cardinality(Client) = 2
    BY DEF Turns!RoomAssumption, Turns!IsFiniteSet, IsFiniteSet, Turns!Cardinality, Cardinality
<1>2. first \in Client
  <2>1. Client # {}
      BY <1>1, FS_EmptySet
  <2> QED BY <2>1
<1>3. (CHOOSE c \in Client \ {first} : TRUE) \in Client \ {first}
  <2>1. Client # {first}
    <3>1. Cardinality({first}) = 1
        BY FS_Singleton
    <3> QED BY <1>1, <3>1
  <2>2. Client \ {first} # {}
      BY <1>2, <2>1
  <2> QED BY <2>2
<1> QED BY <1>2, <1>3 DEF Turns!Nth

LEMMA TurnInit ==
    ASSUME Turns!RoomAssumption, Turns!Init
    PROVE  TurnInv
<1>1. /\ \A s \in {1, 2} : slot[s] = [conn |-> <<Turns!Nth(s), 0>>, online |-> TRUE]
      /\ slot = [s \in {1, 2} |-> [conn |-> <<Turns!Nth(s), 0>>, online |-> TRUE]]
      /\ backlog = <<>> /\ conn = [c \in Client |-> 0] /\ inputs = [s \in {1, 2} |-> "none"]
      /\ at \in {0, 1} /\ heard = FALSE
    BY DEF Turns!Init, Turns!Slot
<1>2. backlog \in Seq(Lines) /\ Len(backlog) = 0
    BY <1>1, EmptySeq
<1>3. slot \in [{1, 2} -> [conn : Lines, online : BOOLEAN]]
    BY <1>1, FirstTwo DEF Lines
<1>4. TurnTypes
    BY <1>1, <1>2, <1>3 DEF TurnTypes
<1>5. Numbered /\ OnePlace /\ ToApply
    BY <1>1, <1>2, FirstTwo DEF Numbered, OnePlace, ToApply
<1> QED BY <1>4, <1>5 DEF TurnInv

\* acceptReconnect: the first connection that waits gets a slot.
LEMMA ReturnKeeps ==
    ASSUME TurnInv, Turns!Accept
    PROVE  TurnInv'
<1>1. TurnTypes /\ Numbered /\ OnePlace /\ ToApply
    BY DEF TurnInv
<1>2. /\ at = 0 /\ at' = 1 /\ heard' = FALSE /\ UNCHANGED <<inputs, conn>>
      /\ \/ UNCHANGED <<slot, backlog>>
         \/ /\ backlog # <<>> /\ backlog' = Tail(backlog)
            /\ \E k \in {1, 2} : slot' = [slot EXCEPT ![k] = [conn |-> Head(backlog), online |-> TRUE]]
    BY DEF Turns!Accept, Turns!Slot, Turns!client
<1>3. \A s \in {1, 2} : inputs[s] # "act"
    BY <1>1, <1>2 DEF ToApply, TurnTypes
<1>4. ToApply'
    BY <1>2, <1>3 DEF ToApply
<1>5. CASE UNCHANGED <<slot, backlog>>
  <2>1. TurnTypes' /\ Numbered' /\ OnePlace'
      BY <1>1, <1>2, <1>5 DEF TurnTypes, Numbered, OnePlace
  <2> QED BY <1>4, <2>1 DEF TurnInv
<1>6. ASSUME NEW k \in {1, 2}, backlog # <<>>, backlog' = Tail(backlog),
             slot' = [slot EXCEPT ![k] = [conn |-> Head(backlog), online |-> TRUE]]
      PROVE  TurnInv'
  <2>1. /\ backlog' \in Seq(Lines) /\ Len(backlog') = Len(backlog) - 1 /\ Len(backlog) \in Nat \ {0}
        /\ \A i \in 1..Len(backlog') : backlog'[i] = backlog[i + 1]
        /\ Head(backlog) = backlog[1] /\ Head(backlog) \in Lines
      BY <1>1, <1>6, HeadTailProperties, EmptySeq DEF TurnTypes
  <2>2. slot' \in [{1, 2} -> [conn : Lines, online : BOOLEAN]]
      BY <1>1, <1>6, <2>1 DEF TurnTypes
  <2>3. TurnTypes'
      BY <1>1, <1>2, <2>1, <2>2 DEF TurnTypes
  <2>4. \A s \in {1, 2} : slot'[s].conn = IF s = k THEN backlog[1] ELSE slot[s].conn
      BY <1>1, <1>6, <2>1 DEF TurnTypes
  <2>5. 1 \in 1..Len(backlog) /\ \A i \in 1..Len(backlog') : i + 1 \in 1..Len(backlog) /\ i + 1 # 1
      BY <2>1
  <2>6. Numbered'
      BY <1>1, <1>2, <2>1, <2>4, <2>5 DEF Numbered
  <2>7. OnePlace'
    <3>1. slot'[1].conn # slot'[2].conn
        BY <1>1, <2>4, <2>5 DEF OnePlace
    <3>2. \A s \in {1, 2}, i \in 1..Len(backlog') : slot'[s].conn # backlog'[i]
        BY <1>1, <2>1, <2>4, <2>5 DEF OnePlace
    <3>3. \A i, j \in 1..Len(backlog') : i # j => backlog'[i] # backlog'[j]
      <4> SUFFICES ASSUME NEW i \in 1..Len(backlog'), NEW j \in 1..Len(backlog'), i # j
                   PROVE  backlog'[i] # backlog'[j]
          OBVIOUS
      <4>1. i + 1 # j + 1
          BY <2>1
      <4> QED BY <1>1, <2>1, <2>5, <4>1 DEF OnePlace
    <3> QED BY <3>1, <3>2, <3>3 DEF OnePlace
  <2> QED BY <1>4, <2>3, <2>6, <2>7 DEF TurnInv
<1> QED BY <1>2, <1>5, <1>6

\* A step that leaves the connections of the slots, and those that wait.
LEMMA LinesStay ==
    ASSUME TurnInv, TurnTypes', UNCHANGED <<conn, backlog>>,
           \A s \in {1, 2} : slot'[s].conn = slot[s].conn
    PROVE  Numbered' /\ OnePlace'
BY DEF TurnInv, Numbered, OnePlace

\* One turn of the reading loop, the frame, and a pass that computes nothing.
LEMMA PassKeeps ==
    ASSUME TurnInv, (\E s \in Turns!Slot : Turns!Read(s)) \/ Turns!Update \/ Turns!Idle
    PROVE  TurnInv'
<1>1. TurnTypes /\ Numbered /\ OnePlace /\ ToApply
    BY DEF TurnInv
<1>2. ASSUME NEW s \in {1, 2}, Turns!Read(s)
      PROVE  TurnInv'
  <2>1. /\ at = s /\ at' = s + 1 /\ UNCHANGED <<conn, backlog>>
        /\ \E i \in {"none", "idle", "act"} :
             /\ inputs' = [inputs EXCEPT ![s] = i]
             /\ i = "act" => heard' /\ slot[s].online /\ slot' = slot
        /\ (heard => heard')
        /\ slot' = slot \/ slot' = [slot EXCEPT ![s].online = FALSE]
      BY <1>1, <1>2 DEF Turns!Read, Turns!Drop, Turns!client, TurnTypes
  <2>2. slot' \in [{1, 2} -> [conn : Lines, online : BOOLEAN]]
        /\ \A t \in {1, 2} : /\ slot'[t].conn = slot[t].conn
                             /\ t # s => slot'[t] = slot[t]
    <3>1. slot \in [{1, 2} -> [conn : Lines, online : BOOLEAN]]
          /\ slot[s] \in [conn : Lines, online : BOOLEAN]
        BY <1>1 DEF TurnTypes
    <3>2. CASE slot' = slot
        BY <3>1, <3>2
    <3>3. CASE slot' = [slot EXCEPT ![s].online = FALSE]
      <4>1. [slot[s] EXCEPT !.online = FALSE] \in [conn : Lines, online : BOOLEAN]
            /\ [slot[s] EXCEPT !.online = FALSE].conn = slot[s].conn
          BY <3>1
      <4>2. slot' = [slot EXCEPT ![s] = [slot[s] EXCEPT !.online = FALSE]]
          BY <3>3
      <4> QED BY <3>1, <4>1, <4>2
    <3> QED BY <2>1, <3>2, <3>3
  <2>3. TurnTypes'
      BY <1>1, <2>1, <2>2 DEF TurnTypes
  <2>4. Numbered' /\ OnePlace'
      BY <2>1, <2>2, <2>3, LinesStay
  <2>5. ToApply'
      BY <1>1, <2>1, <2>2 DEF ToApply, TurnTypes
  <2> QED BY <2>3, <2>4, <2>5 DEF TurnInv
<1>3. CASE Turns!Update
  <2>1. /\ at = 3 /\ at' \in {0, 1, 4} /\ UNCHANGED <<conn, backlog, heard>>
        /\ inputs' = [s \in {1, 2} |-> IF Deadline /\ ~slot[s].online THEN inputs[s] ELSE "none"]
        /\ \E lost \in SUBSET {1, 2} :
             slot' = [s \in {1, 2} |-> IF s \in lost /\ Deadline
                                       THEN [slot[s] EXCEPT !.online = FALSE] ELSE slot[s]]
      BY <1>3 DEF Turns!Update, Turns!Slot, Turns!client
  <2>2. slot' \in [{1, 2} -> [conn : Lines, online : BOOLEAN]]
        /\ \A t \in {1, 2} : slot'[t].conn = slot[t].conn
    <3>1. \A t \in {1, 2} : slot[t] \in [conn : Lines, online : BOOLEAN]
        BY <1>1 DEF TurnTypes
    <3>2. \A t \in {1, 2} : /\ [slot[t] EXCEPT !.online = FALSE] \in [conn : Lines, online : BOOLEAN]
                            /\ [slot[t] EXCEPT !.online = FALSE].conn = slot[t].conn
        BY <3>1
    <3>3. \A t \in {1, 2} : slot'[t] \in {slot[t], [slot[t] EXCEPT !.online = FALSE]}
        BY <2>1
    <3>4. \A t \in {1, 2} : /\ slot'[t] \in [conn : Lines, online : BOOLEAN]
                            /\ slot'[t].conn = slot[t].conn
        BY <3>1, <3>2, <3>3
    <3>5. slot' = [t \in {1, 2} |-> slot'[t]]
        BY <2>1
    <3> QED BY <3>4, <3>5
  <2>3. TurnTypes'
      BY <1>1, <2>1, <2>2 DEF TurnTypes
  <2>4. Numbered' /\ OnePlace'
      BY <2>1, <2>2, <2>3, LinesStay
  <2>5. ToApply'
      BY <1>1, <2>1 DEF ToApply
  <2> QED BY <2>3, <2>4, <2>5 DEF TurnInv
<1>4. CASE Turns!Idle
  <2>1. at = 3 /\ ~heard /\ at' = 0 /\ UNCHANGED <<conn, backlog, heard, inputs, slot>>
      BY <1>4 DEF Turns!Idle, Turns!client
  <2> QED BY <1>1, <2>1 DEF TurnInv, TurnTypes, Numbered, OnePlace, ToApply
<1> QED BY <1>2, <1>3, <1>4 DEF Turns!Slot

\* The clients: one that dials again has a connection it never had.
LEMMA DialsKeep ==
    ASSUME TurnInv, NEW c \in Client,
           \/ Turns!Act(c) \/ Turns!Show(c) \/ Turns!Toggle(c) \/ Turns!Quit(c) \/ Turns!Demo(c)
           \/ Turns!Redial(c) \/ Turns!Closed(c)
    PROVE  TurnInv'
<1>1. TurnTypes /\ Numbered /\ OnePlace /\ ToApply
    BY DEF TurnInv
<1>2. /\ UNCHANGED <<slot, inputs, at, heard>>
      /\ \/ UNCHANGED <<conn, backlog>>
         \/ /\ conn' = [conn EXCEPT ![c] = @ + 1]
            /\ backlog' = Append(backlog, <<c, conn[c] + 1>>)
    BY DEF Turns!Act, Turns!Show, Turns!Toggle, Turns!Quit, Turns!Demo, Turns!Redial, Turns!Closed,
           Turns!server
<1>3. ToApply'
    BY <1>1, <1>2 DEF ToApply
<1>4. CASE UNCHANGED <<conn, backlog>>
  <2>1. TurnTypes' /\ Numbered' /\ OnePlace'
      BY <1>1, <1>2, <1>4 DEF TurnTypes, Numbered, OnePlace
  <2> QED BY <1>3, <2>1 DEF TurnInv
<1>5. CASE /\ conn' = [conn EXCEPT ![c] = @ + 1]
           /\ backlog' = Append(backlog, <<c, conn[c] + 1>>)
  <2> DEFINE new == <<c, conn[c] + 1>>
             n   == Len(backlog)
  <2>1. new \in Lines /\ new[1] = c /\ new[2] = conn[c] + 1 /\ conn[c] \in Nat
      BY <1>1 DEF TurnTypes, Lines
  <2>2. /\ backlog' \in Seq(Lines) /\ Len(backlog') = n + 1 /\ n \in Nat
        /\ \A i \in 1..n : backlog'[i] = backlog[i] /\ backlog[i] \in Lines
        /\ backlog'[n + 1] = new
      BY <1>1, <1>5, <2>1 DEF TurnTypes
  <2>3. conn' \in [Client -> Nat] /\ conn'[c] = conn[c] + 1
        /\ \A d \in Client : d # c => conn'[d] = conn[d]
      BY <1>1, <1>5 DEF TurnTypes
  <2>4. TurnTypes'
      BY <1>1, <1>2, <2>2, <2>3 DEF TurnTypes
  <2>5. ASSUME NEW l \in Lines, l[2] <= conn[l[1]]
        PROVE  l # new /\ l[2] <= conn'[l[1]]
    <3>1. l[1] \in Client /\ l[2] \in Nat /\ conn[l[1]] \in Nat
        BY <1>1 DEF Lines, TurnTypes
    <3>2. l[1] = c => l[2] < conn[c] + 1
        BY <2>1, <2>5, <3>1
    <3>3. l[2] <= conn'[l[1]]
        BY <2>1, <2>3, <2>5, <3>1
    <3> QED BY <2>1, <3>1, <3>2, <3>3
  <2> HIDE DEF new
  <2>6. \A s \in {1, 2} : slot[s].conn \in Lines
      BY <1>1 DEF TurnTypes
  <2>7. \A i \in 1..Len(backlog') : i \in 1..n \/ i = n + 1
      BY <2>2
  <2>8. \A s \in {1, 2} : slot[s].conn # new /\ slot[s].conn[2] <= conn'[slot[s].conn[1]]
      BY <1>1, <2>5, <2>6 DEF Numbered
  <2>9. \A i \in 1..n : backlog[i] # new /\ backlog[i][2] <= conn'[backlog[i][1]]
      BY <1>1, <2>2, <2>5 DEF Numbered
  <2>10. Numbered'
    <3>1. new[2] <= conn'[new[1]]
        BY <2>1, <2>3
    <3>2. \A i \in 1..Len(backlog') : backlog'[i][2] <= conn'[backlog'[i][1]]
        BY <2>2, <2>7, <2>9, <3>1
    <3> QED BY <1>2, <2>8, <3>2 DEF Numbered
  <2>11. OnePlace'
    <3>1. \A s \in {1, 2}, i \in 1..Len(backlog') : slot[s].conn # backlog'[i]
        BY <1>1, <2>2, <2>7, <2>8 DEF OnePlace
    <3>2. \A i, j \in 1..Len(backlog') : i # j => backlog'[i] # backlog'[j]
      <4> SUFFICES ASSUME NEW i \in 1..Len(backlog'), NEW j \in 1..Len(backlog'), i # j
                   PROVE  backlog'[i] # backlog'[j]
          OBVIOUS
      <4>1. CASE i \in 1..n /\ j \in 1..n
          BY <1>1, <2>2, <4>1 DEF OnePlace
      <4>2. CASE i = n + 1 /\ j \in 1..n
          BY <2>2, <2>9, <4>2
      <4>3. CASE j = n + 1 /\ i \in 1..n
          BY <2>2, <2>9, <4>3
      <4> QED BY <2>7, <4>1, <4>2, <4>3
    <3> QED BY <1>1, <1>2, <3>1, <3>2 DEF OnePlace
  <2> QED BY <1>3, <2>4, <2>10, <2>11 DEF TurnInv
<1> QED BY <1>2, <1>4, <1>5

LEMMA TurnStep ==
    ASSUME TurnInv, [Turns!Next]_(Turns!vars)
    PROVE  TurnInv'
<1>1. CASE UNCHANGED Turns!vars
    BY <1>1 DEF Turns!vars, TurnInv, TurnTypes, Numbered, OnePlace, ToApply
<1>2. CASE Turns!Next
    BY <1>2, ReturnKeeps, PassKeeps, DialsKeep DEF Turns!Next, Turns!Loop
<1> QED BY <1>1, <1>2

\* Whoever leaves and dials again, however often: each slot has a connection of
\* its own, which no longer waits to be accepted (TurnLoop's OwnConnection;
\* acceptReconnect of exp7's reliable_server).
THEOREM OneSlotEach ==
    ASSUME Turns!RoomAssumption
    PROVE  Turns!Spec => []Turns!OwnConnection
<1>1. ASSUME TurnInv PROVE Turns!OwnConnection
  <2>1. DOMAIN backlog = 1..Len(backlog)
      BY <1>1, LenProperties DEF TurnInv, TurnTypes
  <2> QED BY <1>1, <2>1 DEF TurnInv, OnePlace, Turns!OwnConnection, Turns!Slot, Turns!Range
<1> QED BY TurnInit, TurnStep, <1>1, PTL DEF Turns!Spec

\* What the server has read from a player it applies in the frame of the same
\* pass, even if the other one times out, leaves or is replaced (TurnLoop's
\* Applies; main and update).
THEOREM NoInputLost ==
    ASSUME Turns!RoomAssumption
    PROVE  Turns!Spec => Turns!InputApplied
<1>1. ASSUME TurnInv, [Turns!Next]_(Turns!vars) PROVE Turns!Applies
  <2> SUFFICES ASSUME NEW s \in {1, 2}, inputs[s] = "act", inputs'[s] # "act"
               PROVE  frame' = frame + 1
      BY DEF Turns!Applies, Turns!Slot
  <2>1. s < at /\ inputs \in [{1, 2} -> {"none", "idle", "act"}]
      BY <1>1 DEF TurnInv, ToApply, TurnTypes
  <2>2. ASSUME NEW t \in {1, 2}, Turns!Read(t) PROVE FALSE
    <3>1. at = t /\ s # t
        BY <2>1, <2>2 DEF Turns!Read
    <3>2. inputs'[s] = inputs[s]
        BY <2>1, <2>2, <3>1 DEF Turns!Read
    <3> QED BY <3>2
  <2>3. inputs' # inputs
      OBVIOUS
  <2>4. Turns!Update
      BY <1>1, <2>2, <2>3 DEF Turns!Next, Turns!Loop, Turns!Accept, Turns!Idle, Turns!Act, Turns!Show,
         Turns!Toggle, Turns!Quit, Turns!Demo, Turns!Redial, Turns!Closed, Turns!server, Turns!vars,
         Turns!Slot
  <2> QED BY <2>4 DEF Turns!Update
<1> QED BY TurnInit, TurnStep, <1>1, PTL DEF Turns!Spec, Turns!InputApplied

-----------------------------------------------------------------------------
(*                                                                         *)
(* Two peers that play in lock step (Lockstep).                            *)
(*                                                                         *)
CONSTANTS Frames, StartHP, Keys, MaxLeaves
VARIABLES state, local, wire, leaves
Peers == INSTANCE Lockstep

Peer     == {"host", "client"}
Other(p) == Peers!Other(p)
Plays(p) == pc[p] \in {"key", "wait"}
Done(p)  == state[p].frame
Upd(p, mine, theirs) == Peers!DeterministicUpdate(state[p], mine, theirs, p = "host")

LockTypes == /\ DOMAIN state = Peer /\ DOMAIN pc = Peer /\ DOMAIN local = Peer
             /\ wire \in [Peer -> Seq(Keys)] /\ \A p \in Peer : Done(p) \in Nat

\* Two peers that have computed as many frames hold the same world, and what p
\* has sent to q, that q has not read, is p's input for the frame they are in.
Same(p, q) == Done(p) = Done(q) =>
    /\ state[p] = state[q]
    /\ Plays(q) => /\ Len(wire[q]) <= 1
                   /\ pc[p] = "key" => Len(wire[q]) = 0
                   /\ pc[p] = "wait" => Len(wire[q]) = 1 /\ wire[q][1] = local[p]

\* A peer that is one frame ahead computed from the input that the other still
\* waits to use, and has nothing to read itself.
Ahead(p, q) == Done(p) = Done(q) + 1 =>
    /\ Plays(p) => Len(wire[p]) = 0
    /\ pc[q] # "key"
    /\ pc[q] = "wait" => /\ Len(wire[q]) <= 2
                         /\ Len(wire[q]) # 0 => state[p] = Upd(q, local[q], wire[q][1])
                         /\ pc[p] = "key" => Len(wire[q]) = 1
                         /\ pc[p] = "wait" => Len(wire[q]) = 2 /\ wire[q][2] = local[p]

BothWays(p, q) == Same(p, q) /\ Ahead(p, q) /\ Done(p) <= Done(q) + 1
LockInv    == LockTypes /\ BothWays("host", "client") /\ BothWays("client", "host")

LEMMA BothOrders ==
    ASSUME NEW p \in Peer
    PROVE  /\ Other(p) \in Peer /\ Other(p) # p /\ Peer = {p, Other(p)}
           /\ LockInv <=> LockTypes /\ BothWays(p, Other(p)) /\ BothWays(Other(p), p)
           /\ LockInv' <=> LockTypes' /\ BothWays(p, Other(p))' /\ BothWays(Other(p), p)'
<1>1. CASE p = "host"
    BY <1>1 DEF Peer, Other, Peers!Other, LockInv
<1>2. CASE p = "client"
    BY <1>2 DEF Peer, Other, Peers!Other, LockInv
<1> QED BY <1>1, <1>2 DEF Peer

\* Both compute the same from the same two inputs.
LEMMA Mirror ==
    ASSUME NEW p \in Peer, NEW a, NEW b, NEW s
    PROVE  /\ Peers!DeterministicUpdate(s, a, b, p = "host")
                = Peers!DeterministicUpdate(s, b, a, Other(p) = "host")
           /\ Peers!DeterministicUpdate(s, a, b, p = "host").frame = s.frame + 1
<1>1. Peers!Sides(a, b, TRUE) = Peers!Sides(b, a, FALSE)
    BY DEF Peers!Sides
<1>2. Peers!Sides(a, b, p = "host") = Peers!Sides(b, a, Other(p) = "host")
  <2>1. CASE p = "host"
      BY <2>1 DEF Peers!Sides, Other, Peers!Other
  <2>2. CASE p = "client"
      BY <2>2 DEF Peers!Sides, Other, Peers!Other
  <2> QED BY <2>1, <2>2 DEF Peer
<1>3. ASSUME NEW ins PROVE Peers!Played(s, ins).frame = s.frame + 1
    BY DEF Peers!Played
<1> QED BY <1>2, <1>3 DEF Peers!DeterministicUpdate

LEMMA OnWire ==
    ASSUME NEW s \in Seq(Keys)
    PROVE  /\ Len(s) \in Nat /\ (s = <<>> <=> Len(s) = 0)
           /\ s # <<>> => /\ Head(s) = s[1] /\ Tail(s) \in Seq(Keys) /\ Len(Tail(s)) = Len(s) - 1
                          /\ Len(s) = 2 => Tail(s)[1] = s[2]
           /\ \A k \in Keys : /\ Append(s, k) \in Seq(Keys) /\ Len(Append(s, k)) = Len(s) + 1
                              /\ Append(s, k)[Len(s) + 1] = k
                              /\ \A i \in 1..Len(s) : Append(s, k)[i] = s[i]
                              /\ Len(s) = 0 => Append(s, k)[1] = k
                              /\ Len(s) = 1 => Append(s, k)[1] = s[1] /\ Append(s, k)[2] = k
OBVIOUS

LEMMA LockInit ==
    ASSUME Peers!Init
    PROVE  LockInv
<1>1. /\ state["host"] = Peers!Start /\ state["client"] = Peers!Start
      /\ wire["host"] = <<>> /\ wire["client"] = <<>> /\ pc["host"] = pc["client"]
      /\ pc["host"] \in {"over", "key"}
      /\ DOMAIN state = Peer /\ DOMAIN pc = Peer /\ DOMAIN local = Peer
      /\ wire = [p \in Peer |-> <<>>]
    BY DEF Peers!Init, Peers!Peer, Peer
<1>2. Peers!Start.frame = 0
    BY DEF Peers!Start
<1>3. LockTypes
    BY <1>1, <1>2 DEF LockTypes, Done, Peer
<1>4. Len(<<>>) = 0
    OBVIOUS
<1> QED BY <1>1, <1>2, <1>3, <1>4 DEF LockInv, BothWays, Same, Ahead, Done, Plays

LEMMA KeyKeeps ==
    ASSUME LockInv, NEW p \in Peer, NEW k \in Keys, Peers!Key(p, k)
    PROVE  LockInv'
<1> DEFINE q == Other(p)
<1>1. LockTypes /\ BothWays(p, q) /\ BothWays(q, p) /\ q \in Peer /\ q # p /\ Peer = {p, q}
    BY BothOrders
<1>2. /\ pc[p] = "key" /\ state' = state
      /\ local' = [local EXCEPT ![p] = k] /\ pc' = [pc EXCEPT ![p] = "wait"]
      /\ wire' = IF Plays(q) THEN [wire EXCEPT ![q] = Append(wire[q], k)] ELSE wire
    BY DEF Peers!Key, Plays, Other
<1> HIDE DEF q
<1>3. /\ pc'[p] = "wait" /\ pc'[q] = pc[q] /\ local'[p] = k /\ local'[q] = local[q]
      /\ DOMAIN pc' = Peer /\ DOMAIN local' = Peer
    BY <1>1, <1>2 DEF LockTypes
<1>4. wire[p] \in Seq(Keys) /\ wire[q] \in Seq(Keys)
    BY <1>1 DEF LockTypes
<1>5. /\ Append(wire[q], k) \in Seq(Keys) /\ Len(wire[q]) \in Nat /\ Len(wire[p]) \in Nat
      /\ Len(Append(wire[q], k)) = Len(wire[q]) + 1
      /\ Len(wire[q]) = 0 => Append(wire[q], k)[1] = k
      /\ Len(wire[q]) = 1 => Append(wire[q], k)[1] = wire[q][1] /\ Append(wire[q], k)[2] = k
    BY <1>4, OnWire
<1>6. /\ wire' \in [Peer -> Seq(Keys)] /\ wire'[p] = wire[p]
      /\ Plays(q) => wire'[q] = Append(wire[q], k)
    BY <1>1, <1>2, <1>5 DEF LockTypes
<1>7. LockTypes'
    BY <1>1, <1>2, <1>3, <1>6 DEF LockTypes, Done
<1>8. BothWays(p, q)'
  <2>1. Done(p) \in Nat /\ Done(q) \in Nat
      BY <1>1 DEF LockTypes
  <2>2. Same(p, q)'
    <3>1. CASE Done(p) = Done(q) /\ Plays(q)
      <4>1. state[p] = state[q] /\ Len(wire[q]) = 0
          BY <1>1, <1>2, <3>1 DEF BothWays, Same
      <4>2. Len(wire'[q]) = 1 /\ wire'[q][1] = k
        <5>1. wire'[q] = Append(wire[q], k)
          <6>1. Plays(q)
              BY <3>1
          <6> QED BY <6>1, <1>6
        <5> QED BY <1>5, <4>1, <5>1
      <4> QED BY <1>2, <1>3, <4>1, <4>2 DEF Same
    <3>2. CASE Done(p) = Done(q) /\ ~Plays(q)
        BY <1>1, <1>2, <1>3, <3>2 DEF BothWays, Same, Plays
    <3>3. CASE Done(p) # Done(q)
        BY <1>2, <3>3 DEF Same, Done
    <3> QED BY <3>1, <3>2, <3>3
  <2>3. Ahead(p, q)'
    <3>1. CASE Done(p) = Done(q) + 1 /\ pc[q] = "wait"
      <4>1. Len(wire[q]) = 1 /\ Plays(q) /\ Plays(p) /\ Len(wire[p]) = 0
          BY <1>1, <1>2, <3>1 DEF BothWays, Ahead, Plays
      <4>2. Len(wire'[q]) = 2 /\ wire'[q][2] = k /\ wire'[q][1] = wire[q][1]
        <5>1. wire'[q] = Append(wire[q], k)
            BY <1>6, <4>1 DEF Plays
        <5> QED BY <1>5, <4>1, <5>1
      <4>3. state[p] = Upd(q, local[q], wire[q][1])
          BY <1>1, <3>1, <4>1 DEF BothWays, Ahead
      <4> QED BY <1>2, <1>3, <1>6, <3>1, <4>1, <4>2, <4>3 DEF Ahead, Done, Plays, Upd
    <3>2. CASE Done(p) = Done(q) + 1 /\ pc[q] # "wait"
        BY <1>1, <1>2, <1>3, <1>6, <3>2 DEF BothWays, Ahead, Done, Plays
    <3>3. CASE Done(p) # Done(q) + 1
        BY <1>2, <3>3 DEF Ahead, Done
    <3> QED BY <3>1, <3>2, <3>3
  <2> QED BY <1>1, <1>2, <2>2, <2>3 DEF BothWays, Done
<1>9. BothWays(q, p)'
  <2>1. Same(q, p)'
      BY <1>1, <1>2, <1>3, <1>6 DEF BothWays, Same, Done, Plays
  <2>2. Done(q) # Done(p) + 1
      BY <1>1, <1>2 DEF BothWays, Ahead
  <2> QED BY <1>1, <1>2, <2>1, <2>2 DEF BothWays, Ahead, Done
<1> QED BY <1>7, <1>8, <1>9, BothOrders DEF q

LEMMA FrameKeeps ==
    ASSUME LockInv, NEW p \in Peer, Peers!Frame(p)
    PROVE  LockInv'
<1> DEFINE q == Other(p)
           l == IF Upd(p, local[p], wire[p][1]).over \/ frame[p] = Frames THEN "over" ELSE "key"
<1>1. LockTypes /\ BothWays(p, q) /\ BothWays(q, p) /\ q \in Peer /\ q # p /\ Peer = {p, q}
    BY BothOrders
<1>2. wire[p] \in Seq(Keys) /\ wire[q] \in Seq(Keys) /\ wire[p] # <<>> /\ pc[p] = "wait"
    BY <1>1 DEF LockTypes, Peers!Frame
<1>3. /\ Head(wire[p]) = wire[p][1] /\ Tail(wire[p]) \in Seq(Keys) /\ Len(wire[p]) # 0
      /\ Len(Tail(wire[p])) = Len(wire[p]) - 1 /\ Len(wire[p]) \in Nat /\ Len(wire[q]) \in Nat
      /\ Len(wire[p]) = 2 => Tail(wire[p])[1] = wire[p][2]
    BY <1>2, OnWire
<1>4. /\ state' = [state EXCEPT ![p] = Upd(p, local[p], wire[p][1])]
      /\ pc' = [pc EXCEPT ![p] = l] /\ local' = [local EXCEPT ![p] = "idle"]
      /\ wire' = [wire EXCEPT ![p] = Tail(wire[p])]
    BY <1>3 DEF Peers!Frame, Upd
<1>5. l \in {"over", "key"}
    OBVIOUS
<1> HIDE DEF q, l
<1>6. /\ state'[p] = Upd(p, local[p], wire[p][1]) /\ state'[q] = state[q]
      /\ pc'[p] = l /\ pc'[q] = pc[q] /\ local'[q] = local[q]
      /\ wire'[p] = Tail(wire[p]) /\ wire'[q] = wire[q]
      /\ DOMAIN state' = Peer /\ DOMAIN pc' = Peer /\ DOMAIN local' = Peer
      /\ wire' \in [Peer -> Seq(Keys)]
    BY <1>1, <1>3, <1>4 DEF LockTypes
<1>7. Done(p) \in Nat /\ Done(q) \in Nat /\ Done(p)' = Done(p) + 1 /\ Done(q)' = Done(q)
    BY <1>1, <1>6, Mirror DEF LockTypes, Done, Upd
<1>8. LockTypes'
    BY <1>1, <1>6, <1>7 DEF LockTypes
<1>9. Done(p) # Done(q) + 1
    BY <1>1, <1>2, <1>3 DEF BothWays, Ahead, Plays
<1>10. CASE Done(p) = Done(q)
  <2>1. state[p] = state[q] /\ Len(wire[p]) = 1 /\ pc[q] # "key"
    <3>1. Same(q, p) /\ Plays(p) /\ Done(q) = Done(p)
        BY <1>1, <1>2, <1>10 DEF BothWays, Plays
    <3>2. /\ state[q] = state[p] /\ Len(wire[p]) <= 1
          /\ pc[q] = "key" => Len(wire[p]) = 0
        BY <3>1 DEF Same
    <3>3. Len(wire[p]) \in Nat /\ Len(wire[p]) # 0
        BY <1>3
    <3>4. \A n \in Nat : n # 0 /\ n <= 1 => n = 1
        OBVIOUS
    <3>5. Len(wire[p]) = 1
        BY <3>2, <3>3, <3>4
    <3> QED BY <3>2, <3>3, <3>5
  <2>2. Len(wire'[p]) = 0
      BY <1>3, <1>6, <2>1
  <2>3. ASSUME pc[q] = "wait"
        PROVE  Len(wire[q]) = 1 /\ wire[q][1] = local[p] /\ wire[p][1] = local[q]
      BY <1>1, <1>2, <1>10, <2>3 DEF BothWays, Same, Plays
  <2>4. ASSUME pc[q] = "wait"
        PROVE  state'[p] = Upd(q, local[q], wire[q][1])
      BY <1>1, <1>6, <2>1, <2>3, <2>4, Mirror DEF Upd, q
  <2>5. Ahead(p, q)'
    <3>1. pc'[q] # "key" /\ pc'[p] # "wait"
        BY <1>5, <1>6, <2>1
    <3>2. pc'[q] = "wait" => Len(wire'[q]) = 1 /\ state'[p] = Upd(q, local[q], wire[q][1])
        BY <1>6, <2>3, <2>4
    <3>3. Upd(q, local[q], wire[q][1])' = Upd(q, local[q], wire[q][1])
        BY <1>6 DEF Upd
    <3>4. pc'[q] = "wait" => (state[p] = Upd(q, local[q], wire[q][1]))'
        BY <3>2, <3>3
    <3>5. pc'[q] = "wait" => Len(wire'[q]) = 1 /\ Len(wire'[q]) <= 2
      <4>1. \A n : n = 1 => n <= 2
          OBVIOUS
      <4> QED BY <3>2, <4>1
    <3>6. ASSUME pc'[q] = "wait"
          PROVE  /\ (Len(wire[q]) <= 2)'
                 /\ (Len(wire[q]) # 0 => state[p] = Upd(q, local[q], wire[q][1]))'
                 /\ (pc[p] = "key" => Len(wire[q]) = 1)'
                 /\ (pc[p] = "wait" => Len(wire[q]) = 2 /\ wire[q][2] = local[p])'
        BY <3>1, <3>4, <3>5, <3>6
    <3> QED BY <2>2, <3>1, <3>6 DEF Ahead
  <2> QED BY <1>7, <1>8, <1>10, <2>5, BothOrders DEF BothWays, Same, Ahead, q
<1>11. CASE Done(q) = Done(p) + 1
  <2>1. /\ Len(wire[p]) <= 2 /\ state[q] = Upd(p, local[p], wire[p][1])
        /\ Plays(q) => Len(wire[q]) = 0
        /\ pc[q] = "key" => Len(wire[p]) = 1
        /\ pc[q] = "wait" => Len(wire[p]) = 2 /\ wire[p][2] = local[q]
      BY <1>1, <1>2, <1>3, <1>11 DEF BothWays, Ahead
  <2>2. /\ Len(wire'[p]) <= 1
        /\ pc[q] = "key" => Len(wire'[p]) = 0
        /\ pc[q] = "wait" => Len(wire'[p]) = 1 /\ wire'[p][1] = local[q]
      BY <1>3, <1>6, <2>1
  <2>3. Same(q, p)'
      BY <1>6, <2>1, <2>2 DEF Same
  <2>4. Same(p, q)'
      BY <1>5, <1>6, <2>1 DEF Same, Plays
  <2>5. Ahead(p, q)' /\ Ahead(q, p)'
      BY <1>7, <1>11 DEF Ahead
  <2> QED BY <1>7, <1>8, <1>11, <2>3, <2>4, <2>5, BothOrders DEF BothWays, q
<1>12. Done(p) <= Done(q) + 1 /\ Done(q) <= Done(p) + 1
    BY <1>1 DEF BothWays
<1> QED BY <1>7, <1>9, <1>10, <1>11, <1>12

\* A peer that stops, because the other has or by itself, holds nobody to
\* anything; what it had sent may be lost with it.
LEMMA StopKeeps ==
    ASSUME LockInv, NEW p \in Peer, Peers!Lost(p) \/ Peers!Leave(p)
    PROVE  LockInv'
<1> DEFINE q == Other(p)
<1>1. LockTypes /\ BothWays(p, q) /\ BothWays(q, p) /\ q \in Peer /\ q # p /\ Peer = {p, q}
    BY BothOrders
<1>2. PICK l \in {"lost", "left"}, read \in {wire[p], <<>>}, kept \in {wire[q], <<>>} :
        /\ state' = state /\ pc' = [pc EXCEPT ![p] = l] /\ local' = [local EXCEPT ![p] = "idle"]
        /\ wire' = [wire EXCEPT ![p] = read, ![q] = kept]
  <2>1. CASE Peers!Lost(p)
    <3>1. wire = [wire EXCEPT ![p] = wire[p], ![q] = wire[q]]
        BY <1>1 DEF LockTypes
    <3> QED BY <2>1, <3>1 DEF Peers!Lost
  <2>2. CASE Peers!Leave(p)
      BY <2>2 DEF Peers!Leave, Other
  <2> QED BY <2>1, <2>2
<1> HIDE DEF q
<1>3. /\ pc'[p] = l /\ pc'[q] = pc[q] /\ local'[q] = local[q] /\ wire'[p] = read /\ wire'[q] = kept
      /\ DOMAIN pc' = Peer /\ DOMAIN local' = Peer
    BY <1>1, <1>2 DEF LockTypes
<1>4. wire[q] \in Seq(Keys) /\ Len(wire[q]) \in Nat /\ <<>> \in Seq(Keys) /\ Len(<<>>) = 0
    BY <1>1 DEF LockTypes
<1>5. /\ Len(wire'[q]) <= Len(wire[q]) /\ Len(wire'[q]) \in Nat
      /\ Len(wire'[q]) # 0 => wire'[q] = wire[q]
    BY <1>3, <1>4
<1>6. LockTypes'
    BY <1>1, <1>2, <1>3, <1>4 DEF LockTypes, Done
<1>7. Same(p, q)'
    BY <1>1, <1>2, <1>3, <1>4, <1>5 DEF BothWays, Same, Done, Plays
<1>8. Ahead(p, q)'
    BY <1>1, <1>2, <1>3, <1>4, <1>5 DEF BothWays, Ahead, Done, Plays, Upd
<1>9. Same(q, p)' /\ Ahead(q, p)'
    BY <1>1, <1>2, <1>3, <1>5 DEF BothWays, Same, Ahead, Done, Plays
<1>10. Done(p)' <= Done(q)' + 1 /\ Done(q)' <= Done(p)' + 1
    BY <1>1, <1>2 DEF BothWays, Done
<1> QED BY <1>6, <1>7, <1>8, <1>9, <1>10, BothOrders DEF BothWays, q

LEMMA LockStep ==
    ASSUME LockInv, [Peers!Next]_(Peers!vars)
    PROVE  LockInv'
<1>1. CASE UNCHANGED Peers!vars
    BY <1>1 DEF Peers!vars, LockInv, LockTypes, BothWays, Same, Ahead, Done, Plays, Upd
<1>2. CASE Peers!Next
    BY <1>2, KeyKeeps, FrameKeeps, StopKeeps DEF Peers!Next, Peers!Peer, Peer
<1> QED BY <1>1, <1>2

\* Two peers that exchange nothing but their keys hold the same world whenever
\* they have computed the same number of frames, and neither is ever more than
\* a frame ahead, for any keys, any length of the game, and whoever leaves when
\* (Lockstep's InStep; the main of both peers, DeterministicUpdate).
THEOREM WorldsAgree == Peers!Spec => []Peers!InStep
<1>1. ASSUME LockInv PROVE Peers!InStep
  <2>1. state.host = state["host"] /\ state.client = state["client"]
      OBVIOUS
  <2>2. Done("host") \in Nat /\ Done("client") \in Nat
      BY <1>1 DEF LockInv, LockTypes, Peer
  <2>3. Done("host") - Done("client") \in {-1, 0, 1}
      BY <1>1, <2>2 DEF LockInv, BothWays
  <2> QED BY <1>1, <2>1, <2>3 DEF LockInv, BothWays, Same, Done, Peers!InStep
<1> QED BY LockInit, LockStep, <1>1, PTL DEF Peers!Spec
=============================================================================
