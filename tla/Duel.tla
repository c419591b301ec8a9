-------------------------------- MODULE Duel --------------------------------
(* Lab1: a server that matches two players in its lobby and then plays one   *)
(* turn-based game with them, and the client.                                *)
(* Of what the server sends, only what a client acts on is a message: the    *)
(* answers to a join, whose turn it is, and the end of the connection; the   *)
(* events and the states it draws are left out.  A Send to a client that has *)
(* gone may fail or not.  Prompt says that the client clears its turn flag   *)
(* before the server's next announcement of a turn reaches it.               *)
EXTENDS Naturals, Sequences, FiniteSets, SequencesExt

CONSTANTS Client, Name, Width, Height, InitHP, AttackDmg, HealAmt, MaxPotions, AttackRange,
          Prompt, None

DuelAssumption == /\ {Width, Height, InitHP, AttackDmg, AttackRange} \subseteq Nat \ {0}
                  /\ {HealAmt, MaxPotions} \subseteq Nat /\ Prompt \in BOOLEAN

Cell   == (0 .. Width - 1) \X (0 .. Height - 1)
Player == [client : Client, name : Name, at : Cell, hp : 0..InitHP, potions : 0..MaxPotions]
Action == {"up", "down", "left", "right", "attack", "heal"}

VARIABLES phase,      \* of the server: "sweep", "accept", "join", "check", "turn" or "exit"
          players,    \* the players it has taken in, in their order
          joining,    \* the connection whose name it negotiates, or None
          turn,
          winner,     \* the player that sendGameOver has named: 0 for none
          backlog,    \* connections that wait for Accept
          asked,      \* the names a client has sent and the server has not read
          acts,       \* the actions on their way to the server
          told,       \* the messages on their way to a client
          open,       \* the connections that the server has not closed
          doing,      \* a client: "off", "naming", "joining", "playing", "sent" or "gone"
          myTurn

vars == <<phase, players, joining, turn, winner, backlog, asked, acts, told, open, doing, myTurn>>

TypeOK == /\ phase \in {"sweep", "accept", "join", "check", "turn", "exit"}
          /\ players \in Seq(Player) /\ Len(players) <= 2
          /\ joining \in Client \cup {None} /\ turn \in 1..2 /\ winner \in 0..2
          /\ backlog \in Seq(Client) /\ IsInjective(backlog)
          /\ asked \in [Client -> Seq(Name)] /\ acts \in [Client -> Seq(Action)]
          /\ told \in [Client -> Seq({"init", "again", "yours", "wait"})] /\ open \subseteq Client
          /\ doing \in [Client -> {"off", "naming", "joining", "playing", "sent", "gone"}]
          /\ myTurn \in [Client -> BOOLEAN]

Init == /\ phase = "sweep" /\ players = <<>> /\ joining = None /\ turn = 1 /\ winner = 0
        /\ backlog = <<>> /\ open = Client
        /\ asked = [c \in Client |-> <<>>] /\ acts = [c \in Client |-> <<>>]
        /\ told = [c \in Client |-> <<>>]
        /\ doing = [c \in Client |-> "off"] /\ myTurn = [c \in Client |-> FALSE]

Gone(c) == doing[c] = "gone"
server  == <<phase, players, joining, turn, winner, open>>
client  == <<backlog, asked, doing, myTurn>>

-----------------------------------------------------------------------------

(* sweepDisconnectedPlayers: what it may keep of the players in the lobby,  *)
(* who are one at most whenever it is called.                               *)
Clients(ps) == {p.client : p \in ToSet(ps)}
Sweeps(ps)  == {kept \in {ps, <<>>} : \A c \in Clients(ps) \ Clients(kept) : Gone(c)}

Sweep == /\ phase = "sweep" /\ Len(players) < 2
         /\ \E kept \in Sweeps(players) :
              players' = kept /\ open' = open \ (Clients(players) \ Clients(kept))
         /\ phase' = "accept"
         /\ UNCHANGED <<joining, turn, winner, acts, told, client>>

Accept == /\ phase = "accept" /\ backlog # <<>>
          /\ joining' = Head(backlog) /\ backlog' = Tail(backlog) /\ phase' = "join"
          /\ UNCHANGED <<players, turn, winner, open, asked, acts, told, doing, myTurn>>

(* negotiateJoinName reads a name: a duplicate is asked again.  Otherwise   *)
(* the player takes the next place after one more sweep; when the init      *)
(* message cannot be sent it loses it again.                                *)
Start(i) == IF i = 1 THEN <<0, 0>> ELSE <<Width - 1, Height - 1>>
NewPlayer(i, name) == [client |-> joining, name |-> name, at |-> Start(i),
                       hp |-> InitHP, potions |-> MaxPotions]
Taken(ps) == {p.name : p \in ToSet(ps)}
Lobby(ps) == /\ players' = ps /\ joining' = None
             /\ phase' = IF Len(ps) = 2 THEN "check" ELSE "sweep"

Negotiate_CountsFirst ==
    /\ phase = "join" /\ asked[joining] # <<>>
    /\ asked' = [asked EXCEPT ![joining] = Tail(@)]
    /\ \E seen \in Sweeps(players) : \E kept \in Sweeps(seen) :
         LET name == Head(asked[joining])
         IN  \/ /\ name \in Taken(seen) /\ open' = open \ (Clients(players) \ Clients(seen))
                /\ told' = [told EXCEPT ![joining] = Append(@, "again")]
                /\ UNCHANGED <<phase, players, joining>>
             \/ /\ name \notin Taken(seen) /\ open' = open \ (Clients(players) \ Clients(kept))
                /\ told' = [told EXCEPT ![joining] = Append(@, "init")]
                /\ Lobby(Append(kept, NewPlayer(Len(players) + 1, name)))
    /\ UNCHANGED <<turn, winner, backlog, acts, doing, myTurn>>
Negotiate ==
    /\ phase = "join" /\ asked[joining] # <<>>
    /\ asked' = [asked EXCEPT ![joining] = Tail(@)]
    /\ \E seen \in Sweeps(players) : \E kept \in Sweeps(seen) :
         LET name == Head(asked[joining])
         IN  \/ /\ name \in Taken(seen) /\ open' = open \ (Clients(players) \ Clients(seen))
                /\ told' = [told EXCEPT ![joining] = Append(@, "again")]
                /\ UNCHANGED <<phase, players, joining>>
             \/ /\ name \notin Taken(seen) /\ open' = open \ (Clients(players) \ Clients(kept))
                /\ told' = [told EXCEPT ![joining] = Append(@, "init")]
                /\ Lobby(Append(kept, NewPlayer(Len(kept) + 1, name)))
             \/ /\ name \notin Taken(seen) /\ Gone(joining)
                /\ open' = open \ ({joining} \cup (Clients(players) \ Clients(kept)))
                /\ Lobby(kept) /\ UNCHANGED told
    /\ UNCHANGED <<turn, winner, backlog, acts, doing, myTurn>>

(* Receive fails: the connection has ended before it gave a usable name.    *)
NoName == /\ phase = "join" /\ Gone(joining) /\ asked[joining] = <<>>
          /\ open' = open \ {joining} /\ joining' = None /\ phase' = "sweep"
          /\ UNCHANGED <<players, turn, winner, acts, told, client>>

-----------------------------------------------------------------------------

(* The top of Run's loop: both players are told whose turn it is.           *)
Announce(t) == told' = [c \in Client |->
                          IF c = players[t].client THEN Append(told[c], "yours")
                          ELSE IF c = players[3 - t].client THEN Append(told[c], "wait")
                          ELSE told[c]]
Exit(w) == /\ phase' = "exit" /\ winner' = w
           /\ open' = open \ Clients(players) /\ UNCHANGED <<turn, told>>

(* checkPlayersBeforeStart: the game starts, or everything is closed and    *)
(* main returns.                                                            *)
Check == /\ phase = "check"
         /\ \/ phase' = "turn" /\ turn' = 1 /\ Announce(1) /\ UNCHANGED <<winner, open>>
            \/ (\E p \in ToSet(players) : Gone(p.client)) /\ Exit(0)
         /\ UNCHANGED <<players, joining, acts, client>>

Cur == players[turn]
Opp == players[3 - turn]
Step(a) == CASE a = "up" -> <<0, -1>> [] a = "down" -> <<0, 1>>
             [] a = "left" -> <<-1, 0>> [] a = "right" -> <<1, 0>>
(* handleMove: not off the map and not onto a living opponent.              *)
Moved(a) == LET to == <<Cur.at[1] + Step(a)[1], Cur.at[2] + Step(a)[2]>>
            IN  IF to \in Cell /\ ~(to = Opp.at /\ Opp.hp > 0) THEN to ELSE Cur.at
Gap(x, y) == IF x > y THEN x - y ELSE y - x
InReach   == Gap(Cur.at[1], Opp.at[1]) + Gap(Cur.at[2], Opp.at[2]) <= AttackRange
Least(x, y) == IF x < y THEN x ELSE y

(* processAction: handleMove, handleAttack or handleHeal.                   *)
Process(a) ==
    CASE a = "attack" ->
           IF InReach THEN [players EXCEPT ![3 - turn].hp = IF @ > AttackDmg THEN @ - AttackDmg ELSE 0]
           ELSE players
      [] a = "heal" ->
           IF Cur.potions = 0 THEN players
           ELSE [players EXCEPT ![turn].potions = @ - 1, ![turn].hp = Least(@ + HealAmt, InitHP)]
      [] OTHER -> [players EXCEPT ![turn].at = Moved(a)]

Play == /\ phase = "turn" /\ acts[Cur.client] # <<>>
        /\ players' = Process(Head(acts[Cur.client]))
        /\ acts' = [acts EXCEPT ![Cur.client] = Tail(@)]
        /\ IF players'[3 - turn].hp = 0 THEN Exit(turn)
           ELSE turn' = 3 - turn /\ Announce(3 - turn) /\ UNCHANGED <<phase, winner, open>>
        /\ UNCHANGED <<joining, client>>

(* The player on turn has left: the other one wins.                         *)
Forfeit == /\ phase = "turn" /\ Gone(Cur.client) /\ acts[Cur.client] = <<>> /\ Exit(3 - turn)
           /\ UNCHANGED <<players, joining, acts, client>>

-----------------------------------------------------------------------------

Become(c, d) == doing' = [doing EXCEPT ![c] = d]
Ended(c)     == c \notin open /\ told[c] = <<>>     \* Receive fails

Dial(c) == /\ doing[c] = "off" /\ phase # "exit" /\ Become(c, "naming")
           /\ backlog' = Append(backlog, c) /\ UNCHANGED <<asked, acts, told, myTurn, server>>

(* joinUntilAccepted: a name is sent, then the answer is awaited.           *)
SendName(c, n) == /\ doing[c] = "naming" /\ asked' = [asked EXCEPT ![c] = Append(@, n)]
                  /\ Become(c, "joining") /\ UNCHANGED <<backlog, acts, told, myTurn, server>>
Answered(c) == /\ doing[c] = "joining"
               /\ \/ /\ told[c] # <<>> /\ told' = [told EXCEPT ![c] = Tail(@)]
                     /\ Become(c, IF Head(told[c]) = "init" THEN "playing" ELSE "naming")
                  \/ Ended(c) /\ Become(c, "gone") /\ UNCHANGED told
               /\ UNCHANGED <<backlog, asked, acts, myTurn, server>>

(* The receiving goroutine keeps the turn flag.                             *)
Hear(c) == /\ doing[c] \in {"playing", "sent"} /\ told[c] # <<>>
           /\ Prompt => doing[c] = "playing"
           /\ told' = [told EXCEPT ![c] = Tail(@)]
           /\ myTurn' = [myTurn EXCEPT ![c] = (Head(told[c]) = "yours")]
           /\ UNCHANGED <<backlog, asked, acts, doing, server>>
Done(c) == /\ doing[c] = "playing" /\ Ended(c) /\ Become(c, "gone")
           /\ UNCHANGED <<backlog, asked, acts, told, myTurn, server>>

(* main: an action is sent when the flag is set, and the flag cleared when  *)
(* Send has returned.                                                       *)
Send(c, a) == /\ doing[c] = "playing" /\ myTurn[c] /\ Become(c, "sent")
              /\ acts' = [acts EXCEPT ![c] = Append(@, a)]
              /\ UNCHANGED <<backlog, asked, told, myTurn, server>>
Clear_Forgotten(c) == /\ doing[c] = "sent" /\ Become(c, "playing") /\ UNCHANGED myTurn
                      /\ UNCHANGED <<backlog, asked, acts, told, server>>
Clear(c) == /\ doing[c] = "sent" /\ Become(c, "playing")
            /\ myTurn' = [myTurn EXCEPT ![c] = FALSE]
            /\ UNCHANGED <<backlog, asked, acts, told, server>>
Quit(c) == /\ doing[c] \in {"naming", "joining", "playing"} /\ Become(c, "gone")
           /\ UNCHANGED <<backlog, asked, acts, told, myTurn, server>>

(* The player does something when it is its turn, or leaves.                *)
Decide(c) == (myTurn[c] /\ Quit(c)) \/ \E a \in Action : Send(c, a)
Listen(c) == Answered(c) \/ Hear(c) \/ Done(c)
Server    == Sweep \/ Accept \/ Negotiate \/ NoName \/ Check \/ Play \/ Forfeit

Next == \/ Server
        \/ \E c \in Client : \/ Listen(c) \/ Dial(c) \/ Clear(c) \/ Quit(c)
                             \/ (\E n \in Name : SendName(c, n)) \/ (\E a \in Action : Send(c, a))

Fairness == /\ WF_vars(Server)
            /\ \A c \in Client : WF_vars(Listen(c)) /\ WF_vars(Clear(c)) /\ WF_vars(Decide(c))
Spec == Init /\ [][Next]_vars /\ Fairness

-----------------------------------------------------------------------------

(* Two players never share a name or a cell, whoever left the lobby before  *)
(* (main.go:63-103, 120-160; game.go:199-209).                               *)
Apart == Len(players) = 2 => /\ players[1].name # players[2].name
                             /\ players[1].at # players[2].at

(* Only the player on turn has an action on its way, and only one: what a   *)
(* client sends is never taken for a later turn (client main.go:341-380).   *)
OneAction == phase = "turn" => \A c \in Client : Len(acts[c]) <= (IF c = Cur.client THEN 1 ELSE 0)

(* The turn never stays with one player for ever as long as players that    *)
(* may act do something (game.go:92-117).                                   *)
TurnsPass == \A t \in 1..2 : []<>(phase # "turn" \/ turn # t)
=============================================================================
