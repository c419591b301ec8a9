------------------------------ MODULE OpenWorld ------------------------------
(* Lab2: many players in one world.  Every connection has a goroutine that   *)
(* runs handleClient, a ticker broadcasts snapshots, and a goroutine per     *)
(* knocked-down player respawns it.  A broadcast collects the connections    *)
(* under the read lock and sends after it has let go of it.                  *)
(* A position is a cell of one axis.  The names, the number of kills and the *)
(* wording of events are left out; a send queue never fills up (64).  Prompt *)
(* says that a connection is not closed while a broadcast that has collected *)
(* it is still sending.  The players of Early have joined before the model   *)
(* starts, at the first cell.                                                *)
EXTENDS Naturals, FiniteSets

CONSTANTS Player, Early, MapSize, InitHP, AttackDmg, HealAmt, MaxPotions, AttackRange,
          MaxCommands, Prompt

WorldAssumption == /\ Early \subseteq Player /\ MapSize \in Nat \ {0} /\ InitHP \in Nat \ {0} /\ AttackDmg \in Nat \ {0}
                   /\ {HealAmt, MaxPotions, AttackRange, MaxCommands} \subseteq Nat /\ Prompt \in BOOLEAN

Cell == 0 .. MapSize - 1
Dead == [x |-> 0, hp |-> 0, potions |-> 0]     \* the entry of a player that is not in the world

Newborn(x) == [x |-> x, hp |-> InitHP, potions |-> MaxPotions]

(* Who broadcasts: a player's handler, its respawning goroutine, the ticker. *)
Sender == ({"handler", "respawn"} \X Player) \cup {<<"ticker">>}

VARIABLES players,    \* the players in w.players
          body,       \* position, hit points and potions; a player is alive while it has hit points
          sleeping,   \* the players whose respawning goroutine sleeps
          at,         \* where each handler is
          more,       \* what it has still to broadcast when this broadcast is done
          hand,       \* the connections a broadcast has collected and not yet sent to
          snap,       \* the players in the snapshot it sends; {} for an event
          closed,     \* the connections whose queue handleClient has closed
          shown,      \* the players in the last snapshot each client has received
          given,      \* the number of commands carried out
          panicked    \* a send on a closed queue has ended the server

vars == <<players, body, sleeping, at, more, hand, snap, closed, shown, given, panicked>>

TypeOK == /\ players \subseteq Player /\ closed \subseteq Player /\ sleeping \subseteq Player
          /\ body \in [Player -> [x : Cell, hp : 0..InitHP, potions : 0..MaxPotions]]
          /\ at \in [Player -> {"join", "hello", "receive", "sending", "bye", "leave", "close", "gone"}]
          /\ more \in [Player -> SUBSET {"snapshot", "event", "left"}]
          /\ hand \in [Sender -> SUBSET Player] /\ snap \in [Sender -> SUBSET Player]
          /\ shown \in [Player -> SUBSET Player] /\ given \in 0..MaxCommands /\ panicked \in BOOLEAN

Init == /\ players = Early /\ sleeping = {} /\ closed = {} /\ given = 0 /\ panicked = FALSE
        /\ body = [p \in Player |-> IF p \in Early THEN Newborn(0) ELSE Dead]
        /\ at = [p \in Player |-> IF p \in Early THEN "receive" ELSE "join"]
        /\ more = [p \in Player |-> {}] /\ shown = [p \in Player |-> {}]
        /\ hand = [s \in Sender |-> {}] /\ snap = [s \in Sender |-> {}]

Alive(p)  == p \in players /\ body[p].hp > 0
Me(p)     == <<"handler", p>>
Idle(s)   == hand[s] = {}
Distance(p, q) == IF body[p].x > body[q].x THEN body[p].x - body[q].x ELSE body[q].x - body[p].x

(* BroadcastAll up to RUnlock.                                              *)
Collect(s, snapshot) == /\ Idle(s)
                        /\ hand' = [hand EXCEPT ![s] = players]
                        /\ snap' = [snap EXCEPT ![s] = IF players = {} THEN {} ELSE snapshot]
NoBroadcast == UNCHANGED <<hand, snap>>

-----------------------------------------------------------------------------

(* AddPlayer: a random place; the event that announces it comes next.       *)
Join(p, x) == /\ at[p] = "join"
              /\ players' = players \cup {p}
              /\ body' = [body EXCEPT ![p] = Newborn(x)]
              /\ at' = [at EXCEPT ![p] = "hello"]
              /\ NoBroadcast /\ UNCHANGED <<sleeping, more, closed, shown, given, panicked>>

(* A command has been carried out: what handleClient broadcasts then.       *)
Answer(p, next) == /\ given < MaxCommands /\ given' = given + 1
                   /\ at' = [at EXCEPT ![p] = IF next = {} THEN "receive" ELSE "sending"]
                   /\ more' = [more EXCEPT ![p] = next]
                   /\ NoBroadcast /\ UNCHANGED <<players, closed, shown, panicked>>

MovePlayer(p, x) == /\ at[p] = "receive" /\ Alive(p)
                    /\ x \in {body[p].x, body[p].x + 1} \/ x + 1 = body[p].x
                    /\ body' = [body EXCEPT ![p].x = x]
                    /\ Answer(p, {"event"}) /\ UNCHANGED sleeping

InRange(p) == {q \in players \ {p} : Alive(q) /\ Distance(p, q) <= AttackRange}
Weakest(p) == {q \in InRange(p) : \A r \in InRange(p) : body[q].hp <= body[r].hp}

AttackPlayer_Sleepless(p) ==
    /\ at[p] = "receive" /\ Alive(p)
    /\ \/ Weakest(p) = {} /\ UNCHANGED <<body, sleeping>>
       \/ \E q \in Weakest(p) :
            /\ body' = [body EXCEPT ![q].hp = IF @ > AttackDmg THEN @ - AttackDmg ELSE 0]
            /\ sleeping' = IF body[q].hp < AttackDmg THEN sleeping \cup {q} ELSE sleeping
    /\ Answer(p, {"snapshot", "event"})
AttackPlayer(p) ==
    /\ at[p] = "receive" /\ Alive(p)
    /\ \/ Weakest(p) = {} /\ UNCHANGED <<body, sleeping>>
       \/ \E q \in Weakest(p) :
            /\ body' = [body EXCEPT ![q].hp = IF @ > AttackDmg THEN @ - AttackDmg ELSE 0]
            /\ sleeping' = IF body[q].hp <= AttackDmg THEN sleeping \cup {q} ELSE sleeping
    /\ Answer(p, {"snapshot", "event"})

HealPlayer(p) == /\ at[p] = "receive" /\ Alive(p)
                 /\ IF body[p].potions = 0 THEN UNCHANGED body
                    ELSE body' = [body EXCEPT ![p].potions = @ - 1,
                                              ![p].hp = IF @ + HealAmt > InitHP THEN InitHP
                                                        ELSE @ + HealAmt]
                 /\ Answer(p, {"snapshot", "event"}) /\ UNCHANGED sleeping

(* A knocked-down player's attack or potion only sends the snapshot.        *)
Refused(p) == /\ at[p] = "receive" /\ ~Alive(p)
              /\ Answer(p, {"snapshot"}) /\ UNCHANGED <<body, sleeping>>

(* Receive fails: the farewell, then the deferred RemovePlayer and Close.   *)
Hangup(p) == /\ at[p] = "receive" /\ at' = [at EXCEPT ![p] = "bye"]
             /\ NoBroadcast /\ UNCHANGED <<players, body, sleeping, more, closed, shown, given, panicked>>

(* The handler's own broadcasts, and what follows the last of them.         *)
After == [hello |-> "receive", sending |-> "receive", bye |-> "leave"]
Broadcast(p) ==
    LET snapshot == at[p] = "sending" /\ "snapshot" \in more[p]
        done     == IF snapshot THEN {"snapshot"} ELSE {"event"}
    IN  /\ at[p] \in {"hello", "sending", "bye"} /\ "left" \notin more[p]
        /\ Collect(Me(p), IF snapshot THEN players ELSE {})
        /\ more' = [more EXCEPT ![p] = (@ \ done) \cup {"left"}]
        /\ UNCHANGED <<players, body, sleeping, at, closed, shown, given, panicked>>
Return(p) == /\ "left" \in more[p] /\ Idle(Me(p))
             /\ more' = [more EXCEPT ![p] = @ \ {"left"}]
             /\ at' = IF more[p] = {"left"} THEN [at EXCEPT ![p] = After[@]] ELSE at
             /\ NoBroadcast /\ UNCHANGED <<players, body, sleeping, closed, shown, given, panicked>>

RemovePlayer_Offline(p) == /\ at[p] = "leave" /\ at' = [at EXCEPT ![p] = "close"]
                           /\ body' = [body EXCEPT ![p].hp = 0]
                           /\ NoBroadcast /\ UNCHANGED <<players, sleeping, more, closed, shown, given, panicked>>
RemovePlayer(p) == /\ at[p] = "leave" /\ at' = [at EXCEPT ![p] = "close"]
                   /\ players' = players \ {p} /\ body' = [body EXCEPT ![p] = Dead]
                   /\ NoBroadcast /\ UNCHANGED <<sleeping, more, closed, shown, given, panicked>>

Close(p) == /\ at[p] = "close" /\ at' = [at EXCEPT ![p] = "gone"]
            /\ Prompt => \A s \in Sender : p \notin hand[s]
            /\ closed' = closed \cup {p} /\ shown' = [shown EXCEPT ![p] = {}]
            /\ NoBroadcast /\ UNCHANGED <<players, body, sleeping, more, given, panicked>>

-----------------------------------------------------------------------------

(* The goroutine an attack started wakes up; it announces a player that is  *)
(* still there.                                                             *)
respawn(p, x) ==
    /\ p \in sleeping /\ sleeping' = sleeping \ {p}
    /\ IF p \in players
       THEN /\ body' = [body EXCEPT ![p] = Newborn(x)]
            /\ Collect(<<"respawn", p>>, {})
       ELSE UNCHANGED body /\ NoBroadcast
    /\ UNCHANGED <<players, at, more, closed, shown, given, panicked>>

Tick == /\ players # {} /\ Collect(<<"ticker">>, players)
        /\ UNCHANGED <<players, body, sleeping, at, more, closed, shown, given, panicked>>

(* One SendRaw of a broadcast's loop, and the client's updateSnapshot.      *)
SendRaw(s, c) == /\ c \in hand[s]
                 /\ hand' = [hand EXCEPT ![s] = @ \ {c}]
                 /\ snap' = IF hand[s] = {c} THEN [snap EXCEPT ![s] = {}] ELSE snap
                 /\ panicked' = (c \in closed)
                 /\ shown' = IF snap[s] # {} /\ at[c] \notin {"close", "gone"}
                             THEN [shown EXCEPT ![c] = snap[s]] ELSE shown
                 /\ UNCHANGED <<players, body, sleeping, at, more, closed, given>>

Handler(p) == Broadcast(p) \/ Return(p) \/ RemovePlayer(p) \/ Close(p)
Command(p) == \/ \E x \in Cell : MovePlayer(p, x)
              \/ AttackPlayer(p) \/ HealPlayer(p) \/ Refused(p)

Next == /\ ~panicked
        /\ \/ Tick
           \/ \E p \in Player : \/ Handler(p) \/ Command(p) \/ Hangup(p)
                                \/ \E x \in Cell : Join(p, x) \/ respawn(p, x)
           \/ \E s \in Sender, c \in Player : SendRaw(s, c)

Fairness == /\ WF_vars(Tick)
            /\ \A p \in Player : WF_vars(Handler(p)) /\ WF_vars(\E x \in Cell : respawn(p, x))
            /\ \A s \in Sender : WF_vars(\E c \in Player : SendRaw(s, c))
Spec == Init /\ [][Next]_vars /\ Fairness

-----------------------------------------------------------------------------

(* A knocked-down player that is in the world has a respawn under way, and  *)
(* an upright one has none that would interrupt its next life               *)
(* (world.go:249-264, 292-305).                                             *)
WillRespawn == \A p \in players : (p \in sleeping) <=> (body[p].hp = 0)

(* Once nobody comes or goes any more, every client is shown exactly the    *)
(* players that are there, whatever old snapshots were still being sent     *)
(* (autotest 3, README.md:394).                                             *)
Told  == \A p \in players : shown[p] = players
Shows == <>[]Told

(* No broadcast sends on a queue that handleClient has closed               *)
(* (world.go:345-354, message.go:110-118, 126-131).                         *)
NoPanic == ~panicked
=============================================================================
