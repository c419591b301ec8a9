---------------------------- MODULE TreasureNPC ------------------------------
(* ch4/cmd/exp2 and exp3: players take treasures from one NPC under its      *)
(* mutex. Demo names the program: exp2/right (one treasure, who comes late   *)
(* fails), exp3/busy_wait (who finds none looks again) and exp3/cond_wait    *)
(* (who finds none sleeps on a sync.Cond; restock signals).                  *)
EXTENDS Integers, FiniteSets

CONSTANTS
  Player, Demo,
  MaxStock, \* treasures the operator restocks in all
  None

TreasureAssumption == /\ IsFiniteSet(Player) /\ Player # {} /\ None \notin Player
                      /\ MaxStock \in Nat /\ Demo \in {"right", "busy", "cond"}

VARIABLES
  pc,      \* where each player's goroutine is
  items,   \* npc.Items (exp2: 1 while npc.Active is false)
  mu,      \* who holds npc.mu
  stocked, \* treasures restocked so far
  signals  \* Signal calls of restock still to come
vars == <<pc, items, mu, stocked, signals>>

Places == {"arrive", "check", "take", "asleep", "woken", "won", "lost"}
At(P)  == {p \in Player : pc[p] \in P}
Goto(p, l) == pc' = [pc EXCEPT ![p] = l]

TypeOK == /\ pc \in [Player -> Places] /\ items \in -MaxStock..(MaxStock + 1)
          /\ mu \in Player \cup {None}
          /\ stocked \in 0..MaxStock /\ signals \in 0..MaxStock

Init == /\ pc = [p \in Player |-> "arrive"] /\ mu = None /\ stocked = 0 /\ signals = 0
        /\ items = IF Demo = "right" THEN 1 ELSE 0

\* npc.mu.Lock(); a woken sleeper takes it again inside Wait.
Lock(p) == /\ pc[p] \in {"arrive", "woken"} /\ mu = None
           /\ Goto(p, "check") /\ mu' = p
           /\ UNCHANGED <<items, stocked, signals>>

\* The condition under the lock: go on to take, or give the lock back.
Check_If(p) == /\ pc[p] = "check" /\ UNCHANGED <<items, stocked, signals>>
               /\ IF items > 0 THEN Goto(p, "take") /\ UNCHANGED mu
                  ELSE /\ Goto(p, "take") /\ mu' = None
Check_Unlocked(p) == /\ pc[p] = "check" /\ mu' = None /\ UNCHANGED <<items, stocked, signals>>
                     /\ IF items > 0 THEN Goto(p, "take")
                        ELSE Goto(p, CASE Demo = "right" -> "lost"
                                       [] Demo = "busy" -> "arrive"
                                       [] Demo = "cond" -> "asleep")
Check(p) == /\ pc[p] = "check" /\ UNCHANGED <<items, stocked, signals>>
            /\ IF items > 0 THEN Goto(p, "take") /\ UNCHANGED mu
               ELSE /\ mu' = None
                    /\ Goto(p, CASE Demo = "right" -> "lost"
                                 [] Demo = "busy" -> "arrive"
                                 [] Demo = "cond" -> "asleep")

\* The treasure leaves the NPC (exp2: after the pickup time, still locked).
Take(p) == /\ pc[p] = "take" /\ items' = items - 1
           /\ Goto(p, "won") /\ mu' = None
           /\ UNCHANGED <<stocked, signals>>

\* restock (cond_wait) and applyRestock (busy_wait): under the lock; only the
\* former signals, without it, once for each treasure. The operator's thread
\* is through with the signals of one restock before it reads the next.
Restock_OneSignal(n) ==
  /\ Demo # "right" /\ mu = None /\ signals = 0 /\ stocked + n <= MaxStock
  /\ items' = items + n /\ stocked' = stocked + n
  /\ signals' = IF Demo = "cond" THEN 1 ELSE 0
  /\ UNCHANGED <<pc, mu>>
Restock(n) == /\ Demo # "right" /\ mu = None /\ signals = 0 /\ stocked + n <= MaxStock
              /\ items' = items + n /\ stocked' = stocked + n
              /\ signals' = IF Demo = "cond" THEN n ELSE 0
              /\ UNCHANGED <<pc, mu>>
Signal == /\ signals > 0 /\ signals' = signals - 1
          /\ IF At({"asleep"}) = {} THEN UNCHANGED pc
                                    ELSE \E p \in At({"asleep"}) : Goto(p, "woken")
          /\ UNCHANGED <<items, mu, stocked>>

Try(p) == Lock(p) \/ Check(p) \/ Take(p)
Next == Signal \/ (\E n \in 1..MaxStock : Restock(n)) \/ (\E p \in Player : Try(p))
\* A sync.Mutex does not starve its waiters; the operator is not bound to restock.
Spec == /\ Init /\ [][Next]_vars /\ WF_vars(Signal)
        /\ \A p \in Player : SF_vars(Lock(p)) /\ WF_vars(Check(p) \/ Take(p))

\* No treasure is given out twice and none is lost, between players that look
\* and take and an operator that restocks.
Given == /\ items >= 0
         /\ items + Cardinality(At({"won"})) = stocked + (IF Demo = "right" THEN 1 ELSE 0)

\* Signal wakes enough: while somebody sleeps, there are no more treasures than
\* players awake to take them and signals to come. (A treasure a newcomer
\* takes sends the sleeper that was woken for it back to sleep.)
NoneForgotten == At({"asleep"}) # {} =>
                   items <= signals + Cardinality(At({"arrive", "check", "take", "woken"}))

\* Everybody that can be served is: in the end all have won, or no treasure is left.
NoneWaits == At({"won"}) = Player \/ items = 0
Served == <>[]NoneWaits
=============================================================================
