------------------------------ MODULE TurnLoop ------------------------------
(* The single-threaded rooms of ch3: one loop reads each player in turn,     *)
(* computes a frame and broadcasts it.                                       *)
(* Deadline TRUE is ch3/cmd/exp7/single_thread (reliable_server and          *)
(* reliable_client): every read has a deadline, a pass that heard nobody     *)
(* computes nothing, and a player that is gone may be replaced by a new      *)
(* connection.  Deadline FALSE is ch3/cmd/exp5_1/single_thread_server: the   *)
(* reads block and nobody comes back.                                        *)
(* Two clients play.  One may fall silent without closing ("t"); the         *)
(* exp7 client may also leave ("q") and dial again (leaving the sticky-      *)
(* packet demonstration, "p").  Of the frames on their way to a client only  *)
(* the newest is kept.  The code plays 10000 frames.                         *)
EXTENDS Naturals, Sequences, FiniteSets, SequencesExt

CONSTANTS Client, Deadline, MaxFrames, MaxRedials, None

RoomAssumption == /\ IsFiniteSet(Client) /\ Cardinality(Client) = 2
                  /\ Deadline \in BOOLEAN /\ MaxFrames \in Nat /\ MaxRedials \in Nat

Slot == 1..2

VARIABLES slot,      \* the server's players: the connection and whether it is online
          inputs,    \* what the server has read for each slot in this pass: "none", "idle" or "act"
          at,        \* where the loop is: 0 accepts, 1 and 2 read the slot, 3 updates, 4 has ended
          heard,     \* receivedAny
          frame,
          conn,      \* the number of each client's connection
          backlog,   \* connections that wait for Accept
          up,        \* the messages on their way from a connection to the server
          shut,      \* connections closed by the client
          fresh,     \* the clients a frame newer than the last one they showed is on its way to
          doing,     \* "play", "wait" (for a frame) or "gone"
          mute,      \* the clients that simulate a dead network
          sticky     \* the clients in the sticky-packet demonstration

vars == <<slot, inputs, at, heard, frame, conn, backlog, up, shut, fresh, doing, mute, sticky>>

Conn    == Client \X (0..MaxRedials)
Now(c)  == <<c, conn[c]>>

TypeOK == /\ slot \in [Slot -> [conn : Conn \cup {None}, online : BOOLEAN]]
          /\ inputs \in [Slot -> {"none", "idle", "act"}] /\ at \in 0..4
          /\ heard \in BOOLEAN /\ frame \in 0..MaxFrames
          /\ conn \in [Client -> 0..MaxRedials] /\ backlog \in Seq(Conn)
          /\ up \in [Conn -> Seq({"act", "quit", "p_on", "p_off"})] /\ \A n \in Conn : Len(up[n]) <= 2
          /\ shut \subseteq Conn /\ fresh \subseteq Client
          /\ doing \in [Client -> {"play", "wait", "gone"}]
          /\ mute \subseteq Client /\ sticky \subseteq Client

(* Both clients have been accepted, in an order that makes no difference.   *)
Nth(s) == LET first == CHOOSE c \in Client : TRUE
          IN  IF s = 1 THEN first ELSE CHOOSE c \in Client \ {first} : TRUE
Init == /\ slot = [s \in Slot |-> [conn |-> <<Nth(s), 0>>, online |-> TRUE]]
        /\ inputs = [s \in Slot |-> "none"] /\ at = (IF Deadline THEN 0 ELSE 1)
        /\ heard = FALSE /\ frame = 0 /\ conn = [c \in Client |-> 0] /\ backlog = <<>>
        /\ up = [n \in Conn |-> <<>>] /\ shut = {} /\ fresh = {}
        /\ doing = [c \in Client |-> "play"] /\ mute = {} /\ sticky = {}

server == <<slot, inputs, at, heard, frame, backlog, fresh>>
client == <<conn, doing, mute, sticky, shut>>

-----------------------------------------------------------------------------

(* acceptReconnect: with a slot offline, the first connection that waits    *)
(* gets the first such slot.                                                *)
Accept_Peeks == /\ at = 0 /\ at' = 1 /\ heard' = FALSE
                /\ slot' = [s \in Slot |-> IF ~slot[s].online /\ backlog # <<>>
                                           THEN [conn |-> Head(backlog), online |-> TRUE] ELSE slot[s]]
                /\ UNCHANGED <<backlog, inputs, frame, fresh, up, client>>
Accept == /\ at = 0 /\ at' = 1 /\ heard' = FALSE
          /\ LET free == {s \in Slot : ~slot[s].online}
             IN  IF free # {} /\ backlog # <<>>
                 THEN /\ slot' = [slot EXCEPT ![IF 1 \in free THEN 1 ELSE 2] =
                                    [conn |-> Head(backlog), online |-> TRUE]]
                      /\ backlog' = Tail(backlog)
                 ELSE UNCHANGED <<slot, backlog>>
          /\ UNCHANGED <<inputs, frame, fresh, up, client>>

Drop(s) == slot' = [slot EXCEPT ![s].online = FALSE]

(* One turn of the reading loop.  An empty stream is a timeout where reads  *)
(* have a deadline; otherwise the loop waits.                               *)
Read_Blocks(s) == /\ at = s /\ at' = s + 1
                  /\ slot[s].online /\ up[slot[s].conn] # <<>>
                  /\ up' = [up EXCEPT ![slot[s].conn] = Tail(@)]
                  /\ inputs' = [inputs EXCEPT ![s] = "act"] /\ heard' = TRUE
                  /\ UNCHANGED <<slot, frame, backlog, fresh, client>>
Read(s) == /\ at = s /\ at' = s + 1
           /\ LET n == slot[s].conn
                  m == IF up[n] # <<>> THEN Head(up[n]) ELSE IF n \in shut THEN "error" ELSE "timeout"
              IN  IF ~slot[s].online
                  THEN inputs' = [inputs EXCEPT ![s] = "none"] /\ UNCHANGED <<slot, up, heard>>
                  ELSE /\ m = "timeout" => Deadline
                       /\ up' = [up EXCEPT ![n] = IF @ = <<>> THEN @ ELSE Tail(@)]
                       /\ inputs' = [inputs EXCEPT ![s] = CASE m \in {"error", "quit"} -> "none"
                                                            [] m = "act" -> "act" [] OTHER -> "idle"]
                       /\ heard' = (heard \/ m \in {"act", "p_on", "p_off"})
                       /\ IF m \in {"error", "quit"} THEN Drop(s) ELSE UNCHANGED slot
           /\ UNCHANGED <<frame, backlog, fresh, client>>

(* update and broadcast: the inputs of online players are applied and       *)
(* cleared, the frame goes to every online player; a send to a connection   *)
(* that the client has closed may fail, and the player is offline.          *)
Update == /\ at = 3 /\ (heard \/ ~Deadline)
          /\ frame' = frame + 1
          /\ inputs' = [s \in Slot |-> IF Deadline /\ ~slot[s].online THEN inputs[s] ELSE "none"]
          /\ \E lost \in SUBSET {s \in Slot : slot[s].online /\ slot[s].conn \in shut} :
               /\ slot' = [s \in Slot |-> IF s \in lost /\ Deadline THEN [slot[s] EXCEPT !.online = FALSE] ELSE slot[s]]
               /\ fresh' = fresh \cup {c \in Client : \E s \in Slot : slot[s].online /\ slot[s].conn = Now(c)}
          /\ at' = IF frame + 1 = MaxFrames THEN 4 ELSE IF Deadline THEN 0 ELSE 1
          /\ UNCHANGED <<heard, backlog, up, client>>

(* A pass that heard nobody computes nothing (idleSleep).                   *)
Idle_UnlessAll == /\ at = 3 /\ Deadline /\ (\E s \in Slot : inputs[s] # "act") /\ at' = 0
                  /\ UNCHANGED <<slot, inputs, heard, frame, backlog, fresh, up, client>>
Idle == /\ at = 3 /\ ~heard /\ Deadline /\ at' = 0
        /\ UNCHANGED <<slot, inputs, heard, frame, backlog, fresh, up, client>>

-----------------------------------------------------------------------------

Send(c, m) == up' = [up EXCEPT ![Now(c)] = Append(@, m)]
Able(c) == doing[c] = "play" /\ c \notin mute /\ Len(up[Now(c)]) < 2 /\ at # 4

(* A key that is an action (exp7: the user's; exp5_1: one per frame, "idle" *)
(* where the user gave none): send it and wait for a newer frame; in the    *)
(* sticky demonstration the client reads whatever comes and goes on.        *)
Act(c) == /\ Able(c) /\ Send(c, "act")
          /\ doing' = [doing EXCEPT ![c] = IF c \in sticky THEN "play" ELSE "wait"]
          /\ UNCHANGED <<server, conn, mute, sticky, shut>>

(* recvLatestAfter: the newest frame, once it is newer than the last one.   *)
Show(c) == /\ doing[c] = "wait" /\ c \notin mute /\ c \in fresh
           /\ fresh' = fresh \ {c} /\ doing' = [doing EXCEPT ![c] = "play"]
           /\ UNCHANGED <<slot, inputs, at, heard, frame, backlog, up, conn, mute, sticky, shut>>

(* "t": nothing is sent or received, the connection stays.                  *)
Toggle(c) == /\ doing[c] = "play" \/ (~Deadline /\ doing[c] = "wait")
             /\ mute \subseteq {c}
             /\ mute' = IF c \in mute THEN mute \ {c} ELSE mute \cup {c}
             /\ UNCHANGED <<server, up, conn, doing, sticky, shut>>

Quit(c) == /\ Able(c) /\ Deadline
           /\ Send(c, "quit") /\ doing' = [doing EXCEPT ![c] = "gone"] /\ shut' = shut \cup {Now(c)}
           /\ UNCHANGED <<server, conn, mute, sticky>>

(* "p": into the demonstration, and out of it over a new connection.  The   *)
(* close may reset the old one and take p_off with it.                      *)
Demo(c) == /\ Able(c) /\ Deadline /\ c \notin sticky /\ conn[c] < MaxRedials
           /\ Send(c, "p_on") /\ sticky' = sticky \cup {c}
           /\ UNCHANGED <<server, conn, doing, mute, shut>>
Redial(c) == /\ Able(c) /\ c \in sticky
             /\ \E arrives \in BOOLEAN : IF arrives THEN Send(c, "p_off") ELSE up' = [up EXCEPT ![Now(c)] = <<>>]
             /\ shut' = shut \cup {Now(c)} /\ conn' = [conn EXCEPT ![c] = @ + 1]
             /\ backlog' = Append(backlog, <<c, conn[c] + 1>>)
             /\ sticky' = sticky \ {c} /\ fresh' = fresh \ {c}
             /\ UNCHANGED <<slot, inputs, at, heard, frame, doing, mute>>

(* The loop has ended and the server's process with it.                     *)
Closed(c) == /\ at = 4 /\ doing[c] # "gone" /\ c \notin mute /\ c \notin fresh
             /\ doing' = [doing EXCEPT ![c] = "gone"]
             /\ UNCHANGED <<server, up, conn, mute, sticky, shut>>

Loop == Accept \/ (\E s \in Slot : Read(s)) \/ Update \/ Idle
Next == \/ Loop
        \/ \E c \in Client : Act(c) \/ Show(c) \/ Toggle(c) \/ Quit(c) \/ Demo(c) \/ Redial(c) \/ Closed(c)

(* With blocking reads the room lives from a zombie's return (exp5_1's      *)
(* client sends by itself, whoever has toggled "t" toggles it back).        *)
Back(c) == c \in mute /\ Toggle(c)
Spec == /\ Init /\ [][Next]_vars /\ WF_vars(Loop)
        /\ \A c \in Client : /\ WF_vars(Show(c)) /\ WF_vars(Closed(c))
                             /\ SF_vars(~Deadline /\ Show(c))
                             /\ SF_vars(~Deadline /\ Act(c)) /\ WF_vars(~Deadline /\ Back(c))

-----------------------------------------------------------------------------

(* No input is lost between the read and the frame: what the server has     *)
(* read from a player it applies in the frame of the same pass, even if the *)
(* other player times out, leaves or is replaced in that pass.              *)
(* (main: inputs, receivedAny; update)                                      *)
Applies == \A s \in Slot : inputs[s] = "act" /\ inputs'[s] # "act" => frame' = frame + 1
InputApplied == [][Applies]_vars

(* Every slot has its own connection, and a client that is connected and    *)
(* waits has one slot at most.  (acceptReconnect)                           *)
OwnConnection == /\ slot[1].conn # slot[2].conn
                 /\ \A s \in Slot : slot[s].online => slot[s].conn \notin Range(backlog)

(* A silent player does not hold up the room: a client that waits for its   *)
(* frame gets it, though the other says nothing and never closes.  With     *)
(* blocking reads this needs the other to speak again.                      *)
Answered == \A c \in Client : (doing[c] = "wait") ~> (doing[c] # "wait" \/ c \in mute)

(* "This gives the new TCP connection of an offline player its original     *)
(* player slot" (acceptReconnect).                                          *)
OriginalSlot == [][\A s \in Slot : slot'[s].conn[1] = slot[s].conn[1]]_vars
=============================================================================
