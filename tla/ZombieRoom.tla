----------------------------- MODULE ZombieRoom -----------------------------
(* ch3/cmd/exp5_1/multi_thread_server: the room without heartbeats and read  *)
(* deadlines.  Each slot has a recvLoop that blocks in its read, the frame   *)
(* loop runs on whatever input is there, and another goroutine accepts the   *)
(* clients that come later: one that asks for a slot in use is refused.  A   *)
(* client may become a zombie ("t": silent, the connection stays) and speak  *)
(* again.  The server knows a connection by the client that dialed it.       *)
EXTENDS Naturals, FiniteSets

CONSTANTS Client, Wants, None

Slot == {0, 1}
RoomAssumption == Wants \in [Client -> Slot] /\ None \notin Client

VARIABLES client,    \* "unborn", "alive", "zombie" or "closed"
          waiting,   \* clients in the listener's queue, their JoinMsg sent
          typed,     \* clients with an input on its way
          player,    \* the client each slot belongs to
          online,
          reader,    \* recvLoop of each client: "none", "reading", "message", "error" or "done"
          inputs,    \* the client each slot's input of this frame came from, or None (got)
          ready,     \* main has left the joining phase
          in         \* the inputs the frame loop has taken

vars == <<client, waiting, typed, player, online, reader, inputs, ready, in>>

TypeOK == /\ client \in [Client -> {"unborn", "alive", "zombie", "closed"}]
          /\ waiting \subseteq Client
          /\ typed \subseteq Client /\ player \in [Slot -> Client \cup {None}]
          /\ online \in [Slot -> BOOLEAN]
          /\ reader \in [Client -> {"none", "reading", "message", "error", "done"}]
          /\ inputs \in [Slot -> Client \cup {None}] /\ ready \in BOOLEAN
          /\ in \in [Slot -> Client \cup {None}]

Init == /\ client = [c \in Client |-> "unborn"] /\ waiting = {} /\ typed = {}
        /\ player = [s \in Slot |-> None] /\ online = [s \in Slot |-> FALSE]
        /\ reader = [c \in Client |-> "none"] /\ inputs = [s \in Slot |-> None]
        /\ ready = FALSE /\ in = [s \in Slot |-> None]

-----------------------------------------------------------------------------

(* main, before the room is full: the first to ask for a slot gets it.      *)
Join(c) == /\ ~ready /\ c \in waiting /\ player[Wants[c]] = None
           /\ player' = [player EXCEPT ![Wants[c]] = c] /\ online' = [online EXCEPT ![Wants[c]] = TRUE]
           /\ waiting' = waiting \ {c}
           /\ UNCHANGED <<client, typed, reader, inputs, ready, in>>
(* runReadBlock: a recvLoop for each of the two, then the frame loop.       *)
Begin == /\ ~ready /\ \A s \in Slot : player[s] # None
         /\ ready' = TRUE /\ reader' = [c \in Client |-> IF \E s \in Slot : player[s] = c THEN "reading" ELSE "none"]
         /\ UNCHANGED <<client, waiting, typed, player, online, inputs, in>>

(* handleExtraOrReplacementLoop: an offline slot is given to the newcomer,  *)
(* with its input cleared and a recvLoop of its own.                        *)
Replace_KeepsInput(c) == /\ ready /\ c \in waiting /\ ~online[Wants[c]]
              /\ player' = [player EXCEPT ![Wants[c]] = c] /\ online' = [online EXCEPT ![Wants[c]] = TRUE]
              /\ reader' = [reader EXCEPT ![c] = "reading"] /\ waiting' = waiting \ {c}
              /\ UNCHANGED <<client, typed, inputs, ready, in>>
Replace(c) == /\ ready /\ c \in waiting /\ ~online[Wants[c]]
              /\ player' = [player EXCEPT ![Wants[c]] = c] /\ online' = [online EXCEPT ![Wants[c]] = TRUE]
              /\ inputs' = [inputs EXCEPT ![Wants[c]] = None]
              /\ reader' = [reader EXCEPT ![c] = "reading"] /\ waiting' = waiting \ {c}
              /\ UNCHANGED <<client, typed, ready, in>>
(* rejectConn, in either phase: the client finds its connection closed and  *)
(* ends (a zombie would find out later; it has no slot).                    *)
Refuse(c) == /\ c \in waiting /\ (IF ready THEN online[Wants[c]] ELSE player[Wants[c]] # None)
             /\ client' = [client EXCEPT ![c] = "closed"] /\ waiting' = waiting \ {c}
             /\ UNCHANGED <<typed, player, online, reader, inputs, ready, in>>

(* recvLoop: the read returns an input or the end of the connection, what   *)
(* has arrived first; then the mutex.                                       *)
Read(c) == /\ reader[c] = "reading"
           /\ \/ c \in typed /\ reader' = [reader EXCEPT ![c] = "message"] /\ typed' = typed \ {c}
              \/ c \notin typed /\ client[c] = "closed" /\ reader' = [reader EXCEPT ![c] = "error"] /\ UNCHANGED typed
           /\ UNCHANGED <<client, waiting, player, online, inputs, ready, in>>
Store(c) == /\ reader[c] = "message"
            /\ inputs' = [inputs EXCEPT ![Wants[c]] = c] /\ reader' = [reader EXCEPT ![c] = "reading"]
            /\ UNCHANGED <<client, waiting, typed, player, online, ready, in>>
Offline_Silent(c) == /\ reader[c] \in {"reading", "error"} /\ client[c] \in {"zombie", "closed"}
                     /\ online' = [online EXCEPT ![Wants[c]] = FALSE] /\ reader' = [reader EXCEPT ![c] = "done"]
                     /\ UNCHANGED <<client, waiting, typed, player, inputs, ready, in>>
Offline(c) == /\ reader[c] = "error"
              /\ online' = [online EXCEPT ![Wants[c]] = FALSE] /\ reader' = [reader EXCEPT ![c] = "done"]
              /\ UNCHANGED <<client, waiting, typed, player, inputs, ready, in>>

(* The frame loop: take both inputs under the mutex, then, if there is one, *)
(* compute the frame and send it, first to player 0, then for at most 15 ms *)
(* to player 1; neither send can hold the loop.                             *)
Take == /\ ready /\ \A s \in Slot : in[s] = None
        /\ in' = inputs /\ inputs' = [s \in Slot |-> None]
        /\ UNCHANGED <<client, waiting, typed, player, online, reader, ready>>
Play == /\ \E s \in Slot : in[s] # None
        /\ in' = [s \in Slot |-> None]
        /\ UNCHANGED <<client, waiting, typed, player, online, reader, inputs, ready>>

(* The clients.                                                             *)
Dial(c) == /\ client[c] = "unborn"
           /\ client' = [client EXCEPT ![c] = "alive"] /\ waiting' = waiting \cup {c}
           /\ UNCHANGED <<typed, player, online, reader, inputs, ready, in>>
Type(c) == /\ client[c] = "alive"
           /\ typed' = typed \cup {c}
           /\ UNCHANGED <<client, waiting, player, online, reader, inputs, ready, in>>
Toggle(c) == /\ client[c] \in {"alive", "zombie"}
             /\ client' = [client EXCEPT ![c] = IF @ = "alive" THEN "zombie" ELSE "alive"]
             /\ UNCHANGED <<waiting, typed, player, online, reader, inputs, ready, in>>
(* "q", also in a zombie.                                                   *)
Close(c) == /\ client[c] \in {"alive", "zombie"}
            /\ client' = [client EXCEPT ![c] = "closed"]
            /\ UNCHANGED <<waiting, typed, player, online, reader, inputs, ready, in>>

Server == Begin \/ Take \/ Play \/ \E c \in Client : Join(c) \/ Replace(c) \/ Refuse(c) \/ Read(c) \/ Store(c) \/ Offline(c)
Next == Server \/ \E c \in Client : Dial(c) \/ Type(c) \/ Toggle(c) \/ Close(c)

Spec == /\ Init /\ [][Next]_vars
        /\ WF_vars(Take) /\ WF_vars(Play)
        /\ \A c \in Client : WF_vars(Read(c)) /\ WF_vars(Store(c)) /\ WF_vars(Offline(c))

-----------------------------------------------------------------------------

(* A slot plays only what its own client sent, although the old client's    *)
(* recvLoop, the accepting goroutine and the frame loop all write the same  *)
(* input: a newcomer never inherits a key of the one before.                *)
OwnInputs == \A s \in Slot : inputs[s] \in {None, player[s]}

(* A slot goes to a newcomer only after its client has closed, and what     *)
(* that client had sent has been read: a zombie keeps its slot.             *)
GivesFree == \A s \in Slot : player[s] # None /\ player'[s] # player[s] =>
               client[player[s]] = "closed" /\ reader[player[s]] = "done"
ZombieKeeps == [][GivesFree]_vars

(* A zombie holds up neither the frame loop nor the other player: inputs    *)
(* are taken again and again, and the slot of a client that closes is freed. *)
Taken == \A s \in Slot : inputs[s] = None
Freed == \A s \in Slot : ready /\ online[s] => client[player[s]] # "closed"
Plays == []<>Taken /\ <>[]Freed
=============================================================================
