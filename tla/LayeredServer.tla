---------------------------- MODULE LayeredServer ----------------------------
(* ch5/exp1 and ch5/exp2: clients, a gateway, stateless Games, Storages that *)
(* hold the positions in memory. exp2 (Sharded) runs two Games, chosen by    *)
(* the map, and two Storages, chosen by the user. Every hop has its timeout; *)
(* a Game does not notice that its caller has given up. Positions are        *)
(* modelled on one axis.                                                     *)
EXTENDS Integers, FiniteSets

CONSTANTS
  Client,
  User,        \* player ids, numbers
  Own(_),      \* the users a client plays (exp1: its CLIENT_ID only)
  Map,         \* exp2: map ids; exp1 has one
  Sharded,
  MapSize,
  MaxCommands, \* commands a client sends
  MaxLate,     \* callers that give up on a command a Game is working on
  MaxFails,    \* connections or calls that fail
  MaxRestarts, \* Storages restarted
  None

LayeredAssumption ==
  /\ IsFiniteSet(Client) /\ User \subseteq Nat /\ Map \subseteq Nat /\ Sharded \in BOOLEAN
  /\ MapSize \in Nat /\ {MaxCommands, MaxLate, MaxFails, MaxRestarts} \subseteq Nat
  /\ \A c \in Client : Own(c) \subseteq User /\ (Sharded \/ Cardinality(Own(c)) = 1)
  /\ ~Sharded => Map = {0}

VARIABLES
  who, map,  \* the user and the map a client plays
  ui,        \* "show": the position is asked for next; "ask": the player is; "wait"
  request,   \* a client's command on its way through the layers
  orphans,   \* commands a Game still works on though nobody waits
  shown,     \* the position a client showed last, None: it does not know
  sent, store, late, fails, restarts
vars == <<who, map, ui, request, orphans, shown, sent, store, late, fails, restarts>>

player == <<who, map, sent>>
faults == <<late, restarts>>

\* parseShardIndex and makeKey: a user's positions, one for each map, all lie
\* in one Storage.
Index(n)      == IF Sharded THEN n % 2 ELSE 0
Storages      == IF Sharded THEN {0, 1} ELSE {0}
StorageFor_Map(r) == Index(r.map)
StorageFor(r) == Index(r.user)
Clamp_Low(v)  == IF v < 0 THEN 0 ELSE v
Clamp(v)      == IF v < 0 THEN 0 ELSE IF v > MapSize THEN MapSize ELSE v

Requests == [user : User, map : Map, step : {-1, 0, 1}, pos : 0..MapSize,
             stage : {"gateway", "game", "loaded", "ok", "err"}]
Idle     == [user |-> 0, map |-> 0, step |-> 0, pos |-> 0, stage |-> "ok"]

TypeOK == /\ who \in [Client -> User] /\ map \in [Client -> Map]
          /\ ui \in [Client -> {"show", "ask", "wait"}]
          /\ \A c \in Client : request[c] \in Requests \cup {Idle}
          /\ orphans \subseteq [on : Client, of : Requests]
          /\ shown \in [Client -> (0..MapSize) \cup {None}]
          /\ sent \in [Client -> 0..MaxCommands]
          /\ store \in [Storages -> [User \X Map -> 0..MapSize]]
          /\ late \in 0..MaxLate /\ fails \in 0..MaxFails /\ restarts \in 0..MaxRestarts

Init == /\ who \in [Client -> User] /\ (\A c \in Client : who[c] \in Own(c))
        /\ map \in [Client -> Map]
        /\ ui = [c \in Client |-> "show"]
        /\ request = [c \in Client |-> Idle] /\ orphans = {}
        /\ shown = [c \in Client |-> None] /\ sent = [c \in Client |-> 0]
        /\ store = [s \in Storages |-> [k \in User \X Map |-> 0]]
        /\ late = 0 /\ fails = 0 /\ restarts = 0

Fail == fails < MaxFails /\ fails' = fails + 1

\* sendCommand: a fresh connection to the gateway for each command (0 is GET).
Send(c, step) == /\ sent[c] < MaxCommands /\ sent' = [sent EXCEPT ![c] = @ + 1]
                 /\ request' = [request EXCEPT ![c] =
                      [user |-> who[c], map |-> map[c], step |-> step, pos |-> 0, stage |-> "gateway"]]
                 /\ ui' = [ui EXCEPT ![c] = "wait"]

\* exp1's client asks for the position before every prompt.
Show(c) == /\ ~Sharded /\ ui[c] = "show" /\ Send(c, 0)
           /\ UNCHANGED <<who, map, orphans, shown, store, fails, faults>>
\* exp2's asks at its start and after a switch of map or user.
ShowState(c) == /\ Sharded /\ ui[c] = "show" /\ Send(c, 0)
                /\ UNCHANGED <<who, map, orphans, shown, store, fails, faults>>
MoveCommand(c, d) == /\ ui[c] = "ask" /\ Send(c, d)
                     /\ UNCHANGED <<who, map, orphans, shown, store, fails, faults>>
Switch(c, u, m) == /\ Sharded /\ ui[c] = "ask" /\ (u = who[c] \/ m = map[c])
                   /\ sent[c] < MaxCommands
                   /\ who' = [who EXCEPT ![c] = u] /\ map' = [map EXCEPT ![c] = m]
                   /\ ui' = [ui EXCEPT ![c] = "show"] /\ shown' = [shown EXCEPT ![c] = None]
                   /\ UNCHANGED <<request, orphans, sent, store, fails, faults>>

\* The gateway's forwardToGame (exp2: handleCommand): one HTTP call; the Game
\* may be unreachable.
Forward(c) == /\ request[c].stage = "gateway"
              /\ \/ /\ request' = [request EXCEPT ![c].stage = "game"] /\ UNCHANGED fails
                 \/ Fail /\ request' = [request EXCEPT ![c].stage = "err"]
              /\ UNCHANGED <<player, ui, orphans, shown, store, faults>>

\* The Game's /player and /move (exp2: /process): the old position is read,
\* and, for a move, the new one is written from what was read.
LoadInto(r) == [r EXCEPT !.pos = store[StorageFor(r)][<<r.user, r.map>>],
                         !.stage = IF r.step = 0 THEN "ok" ELSE "loaded"]
Load_ZeroOnError(c) ==
  /\ request[c].stage = "game"
  /\ \/ request' = [request EXCEPT ![c] = LoadInto(@)] /\ UNCHANGED fails
     \/ Fail /\ request' = [request EXCEPT ![c] = IF @.step = 0 THEN [@ EXCEPT !.stage = "err"]
                                                  ELSE [LoadInto(@) EXCEPT !.pos = 0]]
  /\ UNCHANGED <<player, ui, orphans, shown, store, faults>>
Load(c) == /\ request[c].stage = "game"
           /\ \/ request' = [request EXCEPT ![c] = LoadInto(@)] /\ UNCHANGED fails
              \/ Fail /\ request' = [request EXCEPT ![c].stage = "err"]
           /\ UNCHANGED <<player, ui, orphans, shown, store, faults>>
SaveFrom(r) == [store EXCEPT ![StorageFor(r)][<<r.user, r.map>>] = Clamp(r.pos + r.step)]
Save(c) == LET r == request[c] IN
           /\ r.stage = "loaded"
           /\ \/ /\ store' = SaveFrom(r) /\ UNCHANGED fails
                 /\ request' = [request EXCEPT ![c].pos = Clamp(r.pos + r.step), ![c].stage = "ok"]
              \/ /\ Fail /\ request' = [request EXCEPT ![c].stage = "err"]
                 /\ UNCHANGED store \/ store' = SaveFrom(r)
           /\ UNCHANGED <<player, ui, orphans, shown, faults>>

\* A caller's timeout, gateway's or client's, ends the wait; the handler of
\* the Game does not look at its request's context and goes on.
GiveUp(c) == /\ ui[c] = "wait" /\ request[c].stage \in {"game", "loaded"} /\ late < MaxLate
             /\ late' = late + 1
             /\ orphans' = orphans \cup {[on |-> c, of |-> request[c]]}
             /\ request' = [request EXCEPT ![c].stage = "err"]
             /\ UNCHANGED <<player, ui, shown, store, fails, restarts>>
Orphan(o) == /\ o \in orphans
             /\ \/ /\ o.of.stage = "game" /\ LoadInto(o.of).stage = "loaded"
                   /\ orphans' = (orphans \ {o}) \cup {[o EXCEPT !.of = LoadInto(o.of)]}
                   /\ UNCHANGED store
                \/ /\ o.of.stage = "loaded" /\ store' = SaveFrom(o.of)
                   /\ orphans' = orphans \ {o}
                \/ o.of.step = 0 /\ orphans' = orphans \ {o} /\ UNCHANGED store
             /\ UNCHANGED <<player, ui, request, shown, fails, faults>>

\* The answer: RESULT ok with the position, or RESULT err. exp1's client does
\* not know its position after an error; after a GET that failed it lets the
\* player move all the same. A MOVE is followed by a GET in exp1 only.
Answer(c) == LET r == request[c] IN
             /\ ui[c] = "wait" /\ r.stage \in {"ok", "err"}
             /\ shown' = [shown EXCEPT ![c] = IF r.stage = "ok" THEN r.pos ELSE None]
             /\ ui' = [ui EXCEPT ![c] = IF ~Sharded /\ r.step # 0 THEN "show" ELSE "ask"]
             /\ request' = [request EXCEPT ![c] = Idle]
             /\ UNCHANGED <<player, orphans, store, fails, faults>>

\* The positions of a Storage live in its memory.
Restart(s) == /\ restarts < MaxRestarts /\ restarts' = restarts + 1
              /\ store' = [store EXCEPT ![s] = [k \in User \X Map |-> 0]]
              /\ UNCHANGED <<player, ui, request, orphans, shown, late, fails>>

Serve(c) == Forward(c) \/ Load(c) \/ Save(c) \/ GiveUp(c) \/ Answer(c)
Play(c)  == \/ Show(c) \/ ShowState(c) \/ (\E d \in {-1, 1} : MoveCommand(c, d))
            \/ (\E u \in Own(c), m \in Map : Switch(c, u, m))
Next == \/ (\E c \in Client : Serve(c) \/ Play(c)) \/ (\E o \in orphans : Orphan(o))
        \/ (\E s \in Storages : Restart(s))
Spec == Init /\ [][Next]_vars

OwnUsers == \A b, c \in Client : b = c \/ Own(b) \cap Own(c) = {}

\* What a player was shown last is what the Storage of its user holds,
\* whatever the other players do on the shared Games and Storages and whichever
\* calls failed before - as long as every user has one client, nobody gave up
\* on a command that was running and no Storage lost its memory.
Kept == (late = 0 /\ restarts = 0 /\ OwnUsers) =>
          \A c \in Client : (ui[c] # "wait" /\ shown[c] # None) =>
            store[Index(who[c])][<<who[c], map[c]>>] = shown[c]

\* Under the same conditions a position moves one step at a time, a command at
\* most once: no write is computed from a position that has changed since.
Steps == (late = 0 /\ restarts' = 0 /\ OwnUsers) =>
           \A s \in Storages, k \in User \X Map : store'[s][k] - store[s][k] \in {-1, 0, 1}
OneStep == [][Steps]_vars
=============================================================================
