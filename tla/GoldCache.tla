----------------------------- MODULE GoldCache ------------------------------
(* ch4/internal/exp6demo: PostgreSQL below, Redis above it. Gold is written  *)
(* through (DeductGold), the game's configuration is cached aside            *)
(* (GetGameConfig, UpdateGameConfig). The programs call one operation after  *)
(* the other; Caller with several members is a program that does not.        *)
EXTENDS Integers, FiniteSets

CONSTANTS
  Caller,
  MaxCalls, \* operations in all
  MaxFails, \* failures of a store
  None

CacheAssumption == IsFiniteSet(Caller) /\ None \notin Caller /\ MaxCalls \in Nat /\ MaxFails \in Nat

VARIABLES
  gold, cfg,   \* the rows of PostgreSQL; cfg counts the versions of the value
  row,         \* the transaction that holds the player's row
  goldC, cfgC, \* Redis: gold:player_1, cfg:drop_rate (None: no such key)
  pc, val,     \* where each caller is, and the value it holds
  calls, fails,
  missed       \* a Redis write or delete failed
vars == <<gold, cfg, row, goldC, cfgC, pc, val, calls, fails, missed>>

Rows  == <<gold, cfg, row>>
Redis == <<goldC, cfgC>>
Goto(c, l, v) == pc' = [pc EXCEPT ![c] = l] /\ val' = [val EXCEPT ![c] = v]
Return(c) == Goto(c, "idle", 0)
Fail == fails < MaxFails /\ fails' = fails + 1

TypeOK == /\ gold \in -MaxCalls..0 /\ cfg \in 0..MaxCalls /\ row \in Caller \cup {None}
          /\ goldC \in -MaxCalls..0 /\ cfgC \in (0..MaxCalls) \cup {None}
          /\ pc \in [Caller -> {"idle", "commit", "set", "read", "fill", "del"}]
          /\ val \in [Caller -> -MaxCalls..MaxCalls]
          /\ calls \in 0..MaxCalls /\ fails \in 0..MaxFails /\ missed \in BOOLEAN

\* seedData (gold is counted from the amount seeded).
Init == /\ gold = 0 /\ cfg = 0 /\ row = None /\ goldC = 0 /\ cfgC = None
        /\ pc = [c \in Caller |-> "idle"] /\ val = [c \in Caller |-> 0]
        /\ calls = 0 /\ fails = 0 /\ missed = FALSE

Called(c) == pc[c] = "idle" /\ calls < MaxCalls /\ calls' = calls + 1

\* BeginTx and UPDATE ... RETURNING gold: the row is locked to the end of the
\* transaction (no balance is asked for). A failure rolls back.
Deduct_SetsFirst(c) == /\ Called(c) /\ row = None /\ row' = c /\ goldC' = gold - 1
                       /\ Goto(c, "commit", gold - 1)
                       /\ UNCHANGED <<gold, cfg, cfgC, fails, missed>>
Deduct(c) == /\ Called(c)
             /\ \/ row = None /\ row' = c /\ Goto(c, "commit", gold - 1) /\ UNCHANGED fails
                \/ Fail /\ UNCHANGED <<row, pc, val>>
             /\ UNCHANGED <<gold, cfg, Redis, missed>>
Commit(c) == /\ pc[c] = "commit" /\ row' = None
             /\ \/ gold' = val[c] /\ Goto(c, "set", val[c]) /\ UNCHANGED fails
                \/ Fail /\ Return(c) /\ UNCHANGED gold
             /\ UNCHANGED <<cfg, Redis, calls, missed>>
SetGold_Lost(c) == /\ pc[c] = "set" /\ Return(c)
                   /\ UNCHANGED <<Rows, Redis, calls, fails, missed>>
SetGold(c) == /\ pc[c] = "set" /\ Return(c)
              /\ \/ goldC' = val[c] /\ UNCHANGED <<fails, missed>>
                 \/ Fail /\ missed' = TRUE /\ UNCHANGED goldC
              /\ UNCHANGED <<Rows, cfgC, calls>>

\* GetGameConfig: a hit returns; a miss, or any error of Redis, reads the row
\* and writes it back (a write that fails is only reported).
GetConfig(c) == /\ Called(c)
                /\ \/ cfgC # None /\ UNCHANGED <<pc, val, fails>>
                   \/ cfgC = None /\ Goto(c, "read", 0) /\ UNCHANGED fails
                   \/ Fail /\ Goto(c, "read", 0)
                /\ UNCHANGED <<Rows, Redis, missed>>
ReadConfig(c) == /\ pc[c] = "read"
                 /\ \/ Goto(c, "fill", cfg) /\ UNCHANGED fails
                    \/ Fail /\ Return(c)
                 /\ UNCHANGED <<Rows, Redis, calls, missed>>
FillConfig(c) == /\ pc[c] = "fill" /\ Return(c)
                 /\ \/ cfgC' = val[c] /\ UNCHANGED fails
                    \/ Fail /\ UNCHANGED cfgC
                 /\ UNCHANGED <<Rows, goldC, calls, missed>>

\* UpdateGameConfig: the row first, the cached value is deleted after it.
Update(c) == /\ Called(c)
             /\ \/ cfg' = cfg + 1 /\ Goto(c, "del", 0) /\ UNCHANGED fails
                \/ Fail /\ UNCHANGED <<cfg, pc, val>>
             /\ UNCHANGED <<gold, row, Redis, missed>>
DelConfig_Keeps(c) == /\ pc[c] = "del" /\ Return(c)
                      /\ UNCHANGED <<Rows, Redis, calls, fails, missed>>
DelConfig(c) == /\ pc[c] = "del" /\ Return(c)
                /\ \/ cfgC' = None /\ UNCHANGED <<fails, missed>>
                   \/ Fail /\ missed' = TRUE /\ UNCHANGED cfgC
                /\ UNCHANGED <<Rows, goldC, calls>>

Step(c) == \/ Deduct(c) \/ Commit(c) \/ SetGold(c) \/ GetConfig(c) \/ ReadConfig(c)
           \/ FillConfig(c) \/ Update(c) \/ DelConfig(c)
Next == \E c \in Caller : Step(c)
Spec == Init /\ [][Next]_vars

\* Redis never shows a deduction the database did not commit (demo.go:150,
\* "Redis 不会把一个“数据库里没有成功的扣款结果”提前展示给玩家"), whoever calls
\* and whatever fails: gold only falls, so what is shown is not below the row.
Committed == goldC >= gold

\* One caller at a time, and no write to Redis that failed: between two calls
\* Redis holds what the database holds, or no configuration at all.
Fresh == (Cardinality(Caller) = 1 /\ ~missed /\ \A c \in Caller : pc[c] = "idle") =>
            goldC = gold /\ cfgC \in {cfg, None}
=============================================================================
