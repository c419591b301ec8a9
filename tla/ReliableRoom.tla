----------------------------- MODULE ReliableRoom ---------------------------
(* ch3/cmd/exp7/multi_thread: a room whose players may come back.  The       *)
(* server runs an accept loop, one recvWorker per connection it has accepted *)
(* and the frame loop, around one mutex; the client runs its loop and a      *)
(* heartbeat goroutine.  A client may fall silent for good without closing   *)
(* its connection, and a new client may ask for the same player at any time. *)
(*                                                                           *)
(* Time passes in ticks: a live client sends a heartbeat at least every Beat *)
(* ticks, and playerIdleTimeout is MaxIdle ticks (1 s and 3 s in the code).  *)
(* A worker that has timed out waits less than a tick for the mutex.         *)
(* acceptLoop and recvWorker read p.rc without the mutex; with Prompt they   *)
(* do so before the connection they were started for is lost or replaced.    *)
EXTENDS Naturals, FiniteSets

CONSTANTS Player, MaxConns, Beat, MaxIdle, Prompt, None

Conn == Player \X (1..MaxConns)

RoomAssumption == /\ Beat \in Nat \ {0} /\ MaxIdle \in Nat /\ Beat <= MaxIdle
                  /\ Prompt \in BOOLEAN /\ None \notin Conn

VARIABLES client,    \* the process at the other end: "unborn", "alive", "hung" or "closed"
          conn,      \* the server's end: "none", "backlog", "open" or "shut"
          inbox,     \* the connections with a heartbeat or an input not yet read (which, the read tells)
          since,     \* ticks since the client last sent
          rc, online, age,    \* player: its connection, online, ticks since lastSeen
          inputs,    \* the connection each player's input of this frame came from
          acceptor,  \* the connection that acceptLoop has attached and not yet started a worker for
          worker,    \* recvWorker of each connection: "none", "start", "reading", what Recv returned, "done"
          reads,     \* the connection that worker reads (its rc)
          targets,   \* broadcast: the connections still to send to
          failed,    \* the connection whose send has failed, before the mutex is taken
          panicked   \* a nil connection was used

vars == <<client, conn, inbox, since, rc, online, age, inputs, acceptor, worker, reads,
          targets, failed, panicked>>

TypeOK == /\ client \in [Conn -> {"unborn", "alive", "hung", "closed"}]
          /\ conn \in [Conn -> {"none", "backlog", "open", "shut"}]
          /\ inbox \subseteq Conn /\ since \in [Conn -> 0..Beat]
          /\ rc \in [Player -> Conn \cup {None}] /\ online \in [Player -> BOOLEAN]
          /\ age \in [Player -> 0..MaxIdle + 1] /\ inputs \in [Player -> Conn \cup {None}]
          /\ acceptor \in Conn \cup {None}
          /\ worker \in [Conn -> {"none", "start", "reading", "timeout", "error", "beat", "input", "done"}]
          /\ reads \in [Conn -> Conn \cup {None}]
          /\ targets \subseteq Conn /\ failed \in Conn \cup {None}
          /\ panicked \in BOOLEAN
          /\ \A p \in Player : online[p] <=> rc[p] # None

Init == /\ client = [n \in Conn |-> "unborn"] /\ conn = [n \in Conn |-> "none"]
        /\ inbox = {} /\ since = [n \in Conn |-> 0]
        /\ rc = [p \in Player |-> None] /\ online = [p \in Player |-> FALSE]
        /\ age = [p \in Player |-> 0] /\ inputs = [p \in Player |-> None]
        /\ acceptor = None
        /\ worker = [n \in Conn |-> "none"] /\ reads = [n \in Conn |-> None]
        /\ targets = {} /\ failed = None /\ panicked = FALSE

clients == <<client, inbox, since>>
slots   == <<rc, online, age, inputs>>
frames  == <<targets, failed>>
workers == <<worker, reads>>

-----------------------------------------------------------------------------
(* acceptLoop                                                               *)

(* Accept and Recv of the JoinMsg: a connection that says nothing is        *)
(* closed after two seconds; otherwise attachPlayer closes what the player  *)
(* had and gives it the new one.                                            *)
Attach(n) == /\ acceptor = None /\ conn[n] = "backlog" /\ client[n] = "alive"
             /\ Prompt => \A m \in Conn : m[1] = n[1] => worker[m] # "start"
             /\ conn' = [m \in Conn |-> IF m = n THEN "open" ELSE IF rc[n[1]] = m THEN "shut" ELSE conn[m]]
             /\ rc' = [rc EXCEPT ![n[1]] = n] /\ online' = [online EXCEPT ![n[1]] = TRUE]
             /\ age' = [age EXCEPT ![n[1]] = 0]
             /\ acceptor' = n
             /\ UNCHANGED <<clients, inputs, workers, frames, panicked>>
NoJoin(n) == /\ acceptor = None /\ conn[n] = "backlog" /\ client[n] # "alive"
             /\ conn' = [conn EXCEPT ![n] = "shut"]
             /\ UNCHANGED <<clients, slots, acceptor, workers, frames, panicked>>

(* p.rc.SendTimeout after the mutex is released, then go recvWorker(p).     *)
Spawn == /\ acceptor # None /\ acceptor' = None
         /\ panicked' = (panicked \/ rc[acceptor[1]] = None)
         /\ worker' = [worker EXCEPT ![acceptor] = "start"]
         /\ UNCHANGED <<clients, conn, slots, reads, frames>>

-----------------------------------------------------------------------------
(* recvWorker                                                               *)

Start(w) == /\ worker[w] = "start"
            /\ reads' = [reads EXCEPT ![w] = rc[w[1]]]
            /\ panicked' = (panicked \/ rc[w[1]] = None)
            /\ worker' = [worker EXCEPT ![w] = IF rc[w[1]] = None THEN "done" ELSE "reading"]
            /\ UNCHANGED <<clients, conn, slots, acceptor, frames>>

(* rc.Recv(recvTimeout): a message, the end of the connection, or nothing.  *)
Receive(w) == LET r == reads[w] IN
  /\ worker[w] = "reading"
  /\ \/ /\ conn[r] = "shut" \/ (r \notin inbox /\ client[r] = "closed")
        /\ worker' = [worker EXCEPT ![w] = "error"] /\ UNCHANGED inbox
     \/ /\ conn[r] # "shut" /\ r \in inbox /\ inbox' = inbox \ {r}
        /\ \E m \in {"beat", "input"} : worker' = [worker EXCEPT ![w] = m]
     \/ /\ conn[r] # "shut" /\ r \notin inbox /\ client[r] # "closed"
        /\ worker' = [worker EXCEPT ![w] = "timeout"] /\ UNCHANGED inbox
  /\ UNCHANGED <<client, since, conn, slots, acceptor, reads, frames, panicked>>

Leave(p) == /\ rc' = [rc EXCEPT ![p] = None] /\ online' = [online EXCEPT ![p] = FALSE]
            /\ age' = [age EXCEPT ![p] = 0]
End(w)   == worker' = [worker EXCEPT ![w] = "done"] /\ reads' = [reads EXCEPT ![w] = None]
Again(w) == worker' = [worker EXCEPT ![w] = "reading"] /\ UNCHANGED reads

(* What the worker does with it under the mutex, where the connection must  *)
(* still be the player's.                                                   *)
Handle_AnyRc(w) == LET r == reads[w] p == r[1] IN
  /\ worker[w] \in {"timeout", "error"} /\ End(w)
  /\ IF worker[w] = "error" \/ age[p] > MaxIdle THEN Leave(p) ELSE UNCHANGED <<rc, online, age>>
  /\ UNCHANGED <<clients, conn, inputs, acceptor, frames, panicked>>
Handle_NoTimeout(w) == LET r == reads[w] p == r[1] IN
  /\ worker[w] \notin {"none", "start", "reading", "done"}
  /\ IF rc[p] # r THEN End(w) /\ UNCHANGED slots
     ELSE IF worker[w] = "error" THEN End(w) /\ Leave(p) /\ UNCHANGED inputs ELSE Again(w) /\ UNCHANGED slots
  /\ UNCHANGED <<clients, conn, acceptor, frames, panicked>>
Handle_Unchecked(w) == LET r == reads[w] p == r[1] IN
  /\ worker[w] \in {"beat", "input"} /\ Again(w)
  /\ age' = [age EXCEPT ![p] = 0]
  /\ inputs' = IF worker[w] = "input" THEN [inputs EXCEPT ![p] = r] ELSE inputs
  /\ UNCHANGED <<clients, conn, rc, online, acceptor, frames, panicked>>
Handle(w) == LET r == reads[w] p == r[1] IN
  /\ worker[w] \notin {"none", "start", "reading", "done"}
  /\ IF rc[p] # r THEN End(w) /\ UNCHANGED <<conn, slots>>
     ELSE CASE worker[w] = "timeout" /\ age[p] > MaxIdle ->
                 End(w) /\ Leave(p) /\ conn' = [conn EXCEPT ![r] = "shut"] /\ UNCHANGED inputs
            [] worker[w] = "timeout" /\ age[p] <= MaxIdle -> Again(w) /\ UNCHANGED <<conn, slots>>
            [] worker[w] = "error" -> End(w) /\ Leave(p) /\ UNCHANGED <<conn, inputs>>
            [] OTHER -> /\ Again(w) /\ age' = [age EXCEPT ![p] = 0]
                        /\ inputs' = IF worker[w] = "input" THEN [inputs EXCEPT ![p] = r] ELSE inputs
                        /\ UNCHANGED <<conn, rc, online>>
  /\ UNCHANGED <<clients, acceptor, frames, panicked>>

-----------------------------------------------------------------------------
(* main: update, and broadcast's targets, under the mutex; then the sends   *)

Update == /\ targets = {} /\ failed = None
          /\ inputs' = [p \in Player |-> None]
          /\ targets' = {rc[p] : p \in {q \in Player : online[q]}}
          /\ UNCHANGED <<clients, conn, rc, online, age, acceptor, workers, failed, panicked>>
(* A send to a silent client times out and the frame is dropped; to a       *)
(* closed one it may fail.                                                  *)
Send(n) == /\ n \in targets /\ failed = None
           /\ \/ conn[n] # "shut" /\ UNCHANGED failed
              \/ (conn[n] = "shut" \/ client[n] = "closed") /\ failed' = n
           /\ targets' = targets \ {n}
           /\ UNCHANGED <<clients, conn, slots, acceptor, workers, panicked>>
SendFailed_Unchecked == /\ failed # None /\ failed' = None /\ Leave(failed[1])
                        /\ UNCHANGED <<clients, conn, inputs, acceptor, workers, targets, panicked>>
SendFailed == /\ failed # None /\ failed' = None
              /\ Prompt => acceptor # failed /\ worker[failed] # "start"
              /\ IF rc[failed[1]] = failed
                 THEN Leave(failed[1]) /\ conn' = [conn EXCEPT ![failed] = "shut"]
                 ELSE UNCHANGED <<conn, rc, online, age>>
              /\ UNCHANGED <<clients, inputs, acceptor, workers, targets, panicked>>
-----------------------------------------------------------------------------
(* The clients                                                              *)

Dial(n) == /\ client[n] = "unborn" /\ \A k \in 1..(n[2] - 1) : client[<<n[1], k>>] # "unborn"
           /\ client' = [client EXCEPT ![n] = "alive"] /\ conn' = [conn EXCEPT ![n] = "backlog"]
           /\ UNCHANGED <<inbox, since, slots, acceptor, workers, frames, panicked>>
Say(n) == /\ client[n] = "alive" /\ conn[n] # "shut"
          /\ inbox' = inbox \cup {n} /\ since' = [since EXCEPT ![n] = 0]
          /\ UNCHANGED <<client, conn, slots, acceptor, workers, frames, panicked>>
(* "q", or three seconds without a frame; what a client does after the      *)
(* server has shut its connection touches nothing.                          *)
Close(n) == /\ client[n] = "alive" /\ conn[n] # "shut"
            /\ client' = [client EXCEPT ![n] = "closed"] /\ since' = [since EXCEPT ![n] = 0]
            /\ UNCHANGED <<inbox, conn, slots, acceptor, workers, frames, panicked>>
Hang(n) == /\ client[n] = "alive" /\ conn[n] # "shut"
           /\ client' = [client EXCEPT ![n] = "hung"] /\ since' = [since EXCEPT ![n] = 0]
           /\ UNCHANGED <<inbox, conn, slots, acceptor, workers, frames, panicked>>

Tick == /\ \A n \in Conn : client[n] = "alive" /\ conn[n] # "shut" => since[n] < Beat \/ n \in inbox
        /\ \A w \in Conn : worker[w] # "timeout"
        /\ since' = [n \in Conn |-> IF client[n] = "alive" /\ conn[n] # "shut" /\ since[n] < Beat THEN since[n] + 1 ELSE since[n]]
        /\ age' = [p \in Player |-> IF online[p] /\ age[p] <= MaxIdle THEN age[p] + 1 ELSE age[p]]
        /\ UNCHANGED <<client, inbox, conn, rc, online, inputs, acceptor, workers, frames, panicked>>

Accepting == (\E n \in Conn : Attach(n) \/ NoJoin(n)) \/ Spawn
Working(w) == Start(w) \/ Receive(w) \/ Handle(w)
Looping == Update \/ (\E n \in Conn : Send(n)) \/ SendFailed
Next == \/ /\ ~panicked
           /\ Accepting \/ (\E w \in Conn : Working(w)) \/ Looping
        \/ \E n \in Conn : Dial(n) \/ Close(n) \/ Hang(n) \/ Say(n)
        \/ Tick

Spec == /\ Init /\ [][Next]_vars
        /\ WF_vars(Accepting) /\ SF_vars(Tick)
        /\ \A n \in Conn : WF_vars(Working(n)) /\ WF_vars(Say(n))

-----------------------------------------------------------------------------

(* Whoever is online is read by exactly one worker, its own: two would take *)
(* each other's bytes, and without one the player could neither play nor be *)
(* timed out.  (acceptLoop, recvWorker)                                     *)
Readers(n) == {w \in Conn : worker[w] \notin {"none", "start", "done"} /\ reads[w] = n}
OneReader == \A p \in Player : online[p] =>
               \/ acceptor = rc[p] \/ worker[rc[p]] = "start"
               \/ Readers(rc[p]) = {rc[p]}

(* No nil connection is used.                                               *)
NoPanic == ~panicked

(* A client that lives and keeps its heartbeat is never put offline: not by *)
(* the timeout, and not by the worker or the failed send of the connection  *)
(* it has replaced.  (recvWorker, broadcast: p.rc == rc)                    *)
KeepsLive == \A p \in Player : online[p] /\ client[rc[p]] = "alive" => online'[p]
LiveStays == [][KeepsLive]_vars

(* Only the connection a player has now may write its input.                *)
WritesOwn == \A p \in Player : inputs'[p] \notin {inputs[p], None} => inputs'[p] = rc[p]
OwnInput == [][WritesOwn]_vars

(* A player that has fallen silent does not hold its slot for ever, and a   *)
(* client that comes for it is let in: once no more clients come and hang,  *)
(* nobody waits and no slot belongs to the dead.                            *)
NoneHung == \A n \in Conn : conn[n] # "backlog" /\ (rc[n[1]] = n => client[n] # "hung")
Freed == <>[]NoneHung
=============================================================================
