------------------------------- MODULE Warzone -------------------------------
(* ch4/cmd/exp1: the three Warzone servers that wait for two heroes and take *)
(* one ACTION of each. Server names the program: 02 reads slow, then fast,   *)
(* in its main loop ("serial"), 04 reads each connection in a goroutine and  *)
(* waits for both results ("spawn"), 06 takes what has arrived at each tick  *)
(* ("ticks"). A client may be as slow as it likes, or leave.                 *)
EXTENDS Integers, FiniteSets

CONSTANTS
  Client,
  Hero(_),  \* the -player a client was started with, "fast" or "slow"
  Server,
  Ticks,    \* totalTicks
  MaxGone,  \* clients that leave before they are told DONE
  None

WarzoneAssumption == /\ IsFiniteSet(Client) /\ None \notin Client
                     /\ \A c \in Client : Hero(c) \in {"fast", "slow"}
                     /\ Server \in {"serial", "spawn", "ticks"}
                     /\ Ticks \in Nat \ {0} /\ MaxGone \in Nat

Heroes == {"fast", "slow"}

VARIABLES
  phase,    \* where the server's main goroutine is
  sessions, \* the map of that name
  client,   \* how far each client is
  gone,     \* clients whose connection has broken
  results,  \* results in the channel of receiveAction: <<hero, no error>>
  applied,  \* heroes whose ACTION is in the world
  dirty,    \* dirtyPlayers
  synced,   \* heroes announced in a STATE_UPDATE
  tick
vars == <<phase, sessions, client, gone, results, applied, dirty, synced, tick>>

world  == <<applied, dirty, synced, tick>>
Over   == phase \in {"done", "failed"}
Move(c, l) == client' = [client EXCEPT ![c] = l]

TypeOK == /\ phase \in {"accept", "start", "serve", "drain", "done", "failed"}
          /\ sessions \in [Heroes -> Client \cup {None}]
          /\ client \in [Client -> {"off", "hello", "joined", "started", "sent", "read"}]
          /\ gone \in SUBSET Client /\ results \in SUBSET (Heroes \X BOOLEAN)
          /\ applied \in SUBSET Heroes /\ dirty \in SUBSET Heroes /\ synced \in SUBSET Heroes
          /\ tick \in 0..Ticks

Init == /\ phase = "accept" /\ sessions = [h \in Heroes |-> None]
        /\ client = [c \in Client |-> "off"] /\ gone = {} /\ results = {}
        /\ applied = {} /\ dirty = {} /\ synced = {} /\ tick = 0

\* The client: dial and HELLO; its ACTION after START_ACTION and a delay.
Hello(c) == /\ client[c] = "off" /\ phase = "accept" /\ Move(c, "hello")
            /\ UNCHANGED <<phase, sessions, gone, results, world>>
Send(c) == /\ client[c] = "started" /\ c \notin gone /\ Move(c, "sent")
           /\ UNCHANGED <<phase, sessions, gone, results, world>>
Leave(c) == /\ client[c] # "off" /\ c \notin gone /\ Cardinality(gone) < MaxGone /\ ~Over
            /\ gone' = gone \cup {c}
            /\ UNCHANGED <<phase, sessions, client, results, world>>

\* run: accept until two heroes are there. A HELLO under a name that is taken
\* replaces the session; one that cannot be read ends the server.
Accept(c) == /\ phase = "accept" /\ client[c] = "hello"
             /\ \/ /\ sessions' = [sessions EXCEPT ![Hero(c)] = c]
                   /\ Move(c, "joined")
                   /\ phase' = IF None \in {sessions'[h] : h \in Heroes} THEN "accept" ELSE "start"
                \/ c \in gone /\ phase' = "failed" /\ UNCHANGED <<sessions, client>>
             /\ UNCHANGED <<gone, results, world>>

\* START_ACTION to both; a write to a connection that has gone may fail.
Start == /\ phase = "start"
         /\ LET in == {sessions[h] : h \in Heroes} IN
            \/ /\ phase' = "serve"
               /\ client' = [c \in Client |-> IF c \in in THEN "started" ELSE client[c]]
            \/ in \cap gone # {} /\ phase' = "failed" /\ UNCHANGED client
         /\ UNCHANGED <<sessions, gone, results, world>>

\* readAction returns: the ACTION, or the error of a connection that has gone
\* (an ACTION sent before that is still there to be read).
Arrived(h, ok) == /\ sessions[h] # None
                  /\ IF ok THEN client[sessions[h]] = "sent"
                           ELSE client[sessions[h]] = "started" /\ sessions[h] \in gone

\* 02: readAction(slow), then readAction(fast), then the broadcast.
ReadNext(h) == /\ Server = "serial" /\ phase = "serve"
               /\ h = IF "slow" \in applied THEN "fast" ELSE "slow"
               /\ \/ /\ Arrived(h, TRUE) /\ applied' = applied \cup {h}
                     /\ phase' = IF applied' = Heroes THEN "done" ELSE "serve"
                  \/ Arrived(h, FALSE) /\ phase' = "failed" /\ UNCHANGED applied
               /\ UNCHANGED <<sessions, client, gone, results, dirty, synced, tick>>

\* 04 and 06: the goroutine of a connection hands over what it read.
Receive_SlowFirst(h) ==
  /\ Server # "serial" /\ phase \notin {"accept", "start"}
  /\ h = "slow" \/ "slow" \in applied
  /\ \E ok \in BOOLEAN : Arrived(h, ok) /\ results' = results \cup {<<h, ok>>}
  /\ Move(sessions[h], "read")
  /\ UNCHANGED <<phase, sessions, gone, world>>
Receive(h) == /\ Server # "serial" /\ phase \notin {"accept", "start"}
              /\ \E ok \in BOOLEAN : Arrived(h, ok) /\ results' = results \cup {<<h, ok>>}
              /\ Move(sessions[h], "read")
              /\ UNCHANGED <<phase, sessions, gone, world>>

\* The main goroutine takes one result: an error ends the server.
Apply(r) == /\ results' = results \ {r}
            /\ IF r[2] THEN applied' = applied \cup {r[1]} ELSE UNCHANGED applied
TakeResult(r) == /\ Server = "spawn" /\ phase = "serve" /\ r \in results /\ Apply(r)
                 /\ phase' = IF ~r[2] THEN "failed"
                             ELSE IF applied' = Heroes THEN "done" ELSE "serve"
                 /\ UNCHANGED <<sessions, client, gone, dirty, synced, tick>>

\* 06: at each tick of the clock the results that have arrived, one by one;
\* then (select's default) the heroes that changed are announced.
Tick == /\ Server = "ticks" /\ phase = "serve" /\ phase' = "drain" /\ tick' = tick + 1
        /\ UNCHANGED <<sessions, client, gone, results, applied, dirty, synced>>
Drain(r) == /\ phase = "drain" /\ r \in results /\ Apply(r)
            /\ dirty' = IF r[2] THEN dirty \cup {r[1]} ELSE dirty
            /\ phase' = IF r[2] THEN "drain" ELSE "failed"
            /\ UNCHANGED <<sessions, client, gone, synced, tick>>
Sync == /\ phase = "drain" /\ results = {}
        /\ synced' = synced \cup dirty /\ dirty' = {}
        /\ phase' = IF tick = Ticks THEN "done" ELSE "serve"
        /\ UNCHANGED <<sessions, client, gone, results, applied, tick>>

Result == \E h \in Heroes, ok \in BOOLEAN : TakeResult(<<h, ok>>) \/ Drain(<<h, ok>>)
Main == Start \/ Tick \/ Sync \/ Result
Next == \/ Main \/ (\E c \in Client : Hello(c) \/ Send(c) \/ Leave(c) \/ Accept(c))
        \/ (\E h \in Heroes : ReadNext(h) \/ Receive(h))
\* The server's goroutines run; no client is bound to do anything.
Spec == /\ Init /\ [][Next]_vars
        /\ WF_vars(Main) /\ \A h \in Heroes : WF_vars(ReadNext(h)) /\ WF_vars(Receive(h))

\* 02 makes fast wait for slow (main.go:100, "fast 可能早已发包，但必须等 slow
\* 返回后才会被读取"); in 04 and 06 an ACTION that was sent is applied, or the
\* server is over, however long the other hero takes; and 06 ends without it.
Sent(h) == sessions[h] # None /\ client[sessions[h]] \in {"sent", "read"}
NotHeldUp == /\ Server # "serial" => \A h \in Heroes : Sent(h) => h \in applied \/ Over
             /\ Server = "ticks" => phase \in {"accept", "done", "failed"}
Runs == <>[]NotHeldUp

\* The world announced is the world: between two ticks nothing that was
\* applied is still to be told.
Told == (Server = "ticks" /\ phase \in {"serve", "done"}) => synced = applied
=============================================================================
