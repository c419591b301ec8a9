------------------------------ MODULE MCPrograms ------------------------------
(* The small programs of ch3, ch4 and ch5/exp1-exp2, each on its own:        *)
(* `system` names the one that runs, and the others stay as they start.      *)
EXTENDS Integers

VARIABLES system,
          \* FramedStream
          stream, writeMu, writing, count, reading, sent, got, garbled, cuts,
          \* Lockstep
          state, peerFrame, peerPc, local, wire, leaves,
          \* ReliableRoom
          roomClient, roomConn, inbox, since, rc, roomOnline, age, roomInputs, acceptor, worker,
          reads, targets, failed, panicked,
          \* ZombieRoom
          zombie, waiting, typed, player, online, reader, inputs, ready, in,
          \* BlackholeSwitch
          ch, mode, key, dead, recv, keys,
          \* TurnLoop
          slot, passInputs, at, heard, frame, conn, backlog, up, shut, fresh, doing, mute, sticky,
          \* ConnectionPool and TreasureNPC
          poolPc, jobs, openConn, idle, closed, heroPc, items, mu, stocked, signals,
          \* GoldCache
          gold, cfg, row, goldC, cfgC, callPc, val, calls, storeFails, missed,
          \* Warzone
          phase, sessions, client, gone, results, applied, dirty, synced, tick,
          \* LayeredServer
          who, map, ui, request, orphans, shown, given, store, late, fails, restarts

streamVars == <<stream, writeMu, writing, count, reading, sent, got, garbled, cuts>>
peerVars   == <<state, peerFrame, peerPc, local, wire, leaves>>
roomVars   == <<roomClient, roomConn, inbox, since, rc, roomOnline, age, roomInputs, acceptor,
                worker, reads, targets, failed, panicked>>
zombieVars == <<zombie, waiting, typed, player, online, reader, inputs, ready, in>>
switchVars == <<ch, mode, key, dead, recv, keys>>
turnVars   == <<slot, passInputs, at, heard, frame, conn, backlog, up, shut, fresh, doing, mute,
                sticky>>
poolVars   == <<poolPc, jobs, openConn, idle, closed>>
heroVars   == <<heroPc, items, mu, stocked, signals>>
goldVars   == <<gold, cfg, row, goldC, cfgC, callPc, val, calls, storeFails, missed>>
warVars    == <<phase, sessions, client, gone, results, applied, dirty, synced, tick>>
layerVars  == <<who, map, ui, request, orphans, shown, given, store, late, fails, restarts>>
all == <<system, streamVars, peerVars, roomVars, zombieVars, switchVars, turnVars, poolVars,
         heroVars, goldVars, warVars, layerVars>>

CONSTANT None

Stream == INSTANCE FramedStream WITH Writer <- {1, 2}, MaxSends <- 2, Room <- 2, MaxCuts <- 0
Peers == INSTANCE Lockstep WITH
           Frames <- 3, StartHP <- 20, Keys <- {"left", "up", "attack"}, MaxLeaves <- 1,
           frame <- peerFrame, pc <- peerPc
Room == INSTANCE ReliableRoom WITH
          Player <- {0}, MaxConns <- 2, Beat <- 1, MaxIdle <- 1, Prompt <- TRUE,
          client <- roomClient, conn <- roomConn, online <- roomOnline, inputs <- roomInputs
Zombies == INSTANCE ZombieRoom WITH
             Client <- {1, 2, 3}, Wants <- [c \in {1, 2, 3} |-> IF c = 2 THEN 1 ELSE 0],
             client <- zombie
Switch == INSTANCE BlackholeSwitch WITH MaxKeys <- 3
\* Two frames, or one and a client that dials again.
Turns(deadline, redials) == INSTANCE TurnLoop WITH
                              Client <- {1, 2}, Deadline <- deadline, MaxFrames <- 2 - redials,
                              MaxRedials <- redials, inputs <- passInputs
\* A pool as wide as its users, whose connections fail, and a narrow one.
Pool(breaks) == INSTANCE ConnectionPool WITH
                  Worker <- {1, 2, 3}, Requests <- 4, MaxOpen <- IF breaks THEN 3 ELSE 2,
                  MaxIdle <- 1, Expires <- breaks, Fails <- breaks, pc <- poolPc
Treasure(demo) == INSTANCE TreasureNPC WITH
                    Player <- {1, 2, 3}, Demo <- demo, MaxStock <- 4, pc <- heroPc
Cache(callers) == INSTANCE GoldCache WITH
                    Caller <- callers, MaxCalls <- 4, MaxFails <- 1, pc <- callPc,
                    fails <- storeFails
Hero(c) == IF c = 1 THEN "fast" ELSE "slow"
War(server) == INSTANCE Warzone WITH
                 Client <- {1, 2, 3}, Server <- server, Ticks <- 2, MaxGone <- 1
One(c) == {c}
Two(c) == {1, 2}
Plain == INSTANCE LayeredServer WITH
           Client <- {1, 2}, User <- {1, 2}, Own <- One, Map <- {0}, Sharded <- FALSE,
           MapSize <- 2, MaxCommands <- 3, MaxLate <- 0, MaxFails <- 1, MaxRestarts <- 1,
           sent <- given
Shards == INSTANCE LayeredServer WITH
            Client <- {1}, User <- {1, 2}, Own <- Two, Map <- {0, 1}, Sharded <- TRUE,
            MapSize <- 2, MaxCommands <- 4, MaxLate <- 1, MaxFails <- 1, MaxRestarts <- 1,
            sent <- given

Demos   == {"right", "busy", "cond"}
Servers == {"serial", "spawn", "ticks"}
\* The systems that are one module with two values of a constant.
RedialsOf  == [turns |-> 0, redials |-> 1]
BreaksOf   == [pool |-> FALSE, breaking |-> TRUE]
CallersOf  == [cache |-> {1}, callers |-> {1, 2}]

ASSUME /\ Stream!StreamAssumption /\ Peers!GameAssumption /\ Room!RoomAssumption
       /\ Zombies!RoomAssumption /\ Plain!LayeredAssumption /\ Shards!LayeredAssumption
       /\ \A b \in BOOLEAN : Turns(b, 0)!RoomAssumption /\ Pool(b)!PoolAssumption
       /\ \A d \in Demos : Treasure(d)!TreasureAssumption
       /\ \A s \in Servers : War(s)!WarzoneAssumption
       /\ \A s \in DOMAIN CallersOf : Cache(CallersOf[s])!CacheAssumption

Init == /\ system \in Demos \cup Servers \cup {"stream", "peers", "room", "zombies", "switch",
                                               "blocking", "plain", "shards"}
                      \cup DOMAIN RedialsOf \cup DOMAIN BreaksOf \cup DOMAIN CallersOf
        /\ Stream!Init /\ Peers!Init /\ Room!Init /\ Zombies!Init /\ Switch!Init
        /\ CASE system = "blocking" -> Turns(FALSE, 0)!Init
             [] system = "redials" -> Turns(TRUE, 1)!Init
             [] OTHER -> Turns(TRUE, 0)!Init
        /\ Pool(TRUE)!Init
        /\ IF system = "right" THEN Treasure("right")!Init ELSE Treasure("cond")!Init
        /\ IF system = "callers" THEN Cache({1, 2})!Init ELSE Cache({1})!Init
        /\ War("serial")!Init
        /\ IF system = "shards" THEN Shards!Init ELSE Plain!Init
        /\ system \notin {"plain", "shards"} => who = [c \in {1, 2} |-> c]

Others == /\ UNCHANGED system
          /\ system # "stream" => UNCHANGED streamVars
          /\ system # "peers" => UNCHANGED peerVars
          /\ system # "room" => UNCHANGED roomVars
          /\ system # "zombies" => UNCHANGED zombieVars
          /\ system # "switch" => UNCHANGED switchVars
          /\ system \notin DOMAIN RedialsOf \cup {"blocking"} => UNCHANGED turnVars
          /\ system \notin DOMAIN BreaksOf => UNCHANGED poolVars
          /\ system \notin Demos => UNCHANGED heroVars
          /\ system \notin DOMAIN CallersOf => UNCHANGED goldVars
          /\ system \notin Servers => UNCHANGED warVars
          /\ system \notin {"plain", "shards"} => UNCHANGED layerVars

Next == \/ system = "stream" /\ Stream!Next /\ Others
        \/ system = "peers" /\ Peers!Next /\ Others
        \/ system = "room" /\ Room!Next /\ Others
        \/ system = "zombies" /\ Zombies!Next /\ Others
        \/ system = "switch" /\ Switch!Next /\ Others
        \/ \E s \in DOMAIN RedialsOf : system = s /\ Turns(TRUE, RedialsOf[s])!Next /\ Others
        \/ system = "blocking" /\ Turns(FALSE, 0)!Next /\ Others
        \/ \E s \in DOMAIN BreaksOf : system = s /\ Pool(BreaksOf[s])!Next /\ Others
        \/ \E d \in Demos : system = d /\ Treasure(d)!Next /\ Others
        \/ \E s \in DOMAIN CallersOf : system = s /\ Cache(CallersOf[s])!Next /\ Others
        \/ \E s \in Servers : system = s /\ War(s)!Next /\ Others
        \/ system = "plain" /\ Plain!Next /\ Others
        \/ system = "shards" /\ Shards!Next /\ Others

\* The fairness of each module's own Spec, to the program that runs. Steps of
\* which no two are ready at once, those of one thread, share a condition.
StreamFair == /\ \A w \in {1, 2} : WF_streamVars(system = "stream" /\ Stream!Write(w))
              /\ WF_streamVars(system = "stream" /\ (Stream!ReadLength \/ Stream!ReadBody))
PeerFair == \A p \in {"host", "client"} :
              WF_peerVars(system = "peers" /\ \/ \E k \in {"left", "up", "attack"} : Peers!Key(p, k)
                                              \/ Peers!Frame(p) \/ Peers!Lost(p))
RoomFair == /\ WF_roomVars(system = "room" /\ Room!Accepting)
            /\ SF_roomVars(system = "room" /\ Room!Tick)
            /\ \A i \in {1, 2} : /\ WF_roomVars(system = "room" /\ Room!Working(<<0, i>>))
                                /\ WF_roomVars(system = "room" /\ Room!Say(<<0, i>>))
ZombieFair == /\ WF_zombieVars(system = "zombies" /\ (Zombies!Take \/ Zombies!Play))
              /\ \A i \in {1, 2, 3} :
                   WF_zombieVars(system = "zombies" /\ (Zombies!Read(i) \/ Zombies!Store(i) \/ Zombies!Offline(i)))
TurnFair == /\ WF_turnVars(\E s \in DOMAIN RedialsOf : system = s /\ Turns(TRUE, RedialsOf[s])!Loop)
            /\ \A i \in {1, 2} :
                 WF_turnVars(\E s \in DOMAIN RedialsOf :
                   /\ system = s
                   /\ Turns(TRUE, RedialsOf[s])!Show(i) \/ Turns(TRUE, RedialsOf[s])!Closed(i))
PoolFair == /\ WF_poolVars(\E s \in DOMAIN BreaksOf : system = s /\ Pool(BreaksOf[s])!ClosePool)
            /\ \A i \in {1, 2, 3} :
                 WF_poolVars(\E s \in DOMAIN BreaksOf : system = s /\ Pool(BreaksOf[s])!Work(i))
HeroFair == /\ WF_heroVars(\E d \in Demos : system = d /\ Treasure(d)!Signal)
            /\ \A i \in {1, 2, 3} :
                 /\ WF_heroVars(\E d \in Demos : system = d /\ (Treasure(d)!Check(i) \/ Treasure(d)!Take(i)))
                 /\ SF_heroVars(\E d \in Demos : system = d /\ Treasure(d)!Lock(i))
WarFair == /\ WF_warVars(\E s \in Servers : system = s /\ War(s)!Main)
           /\ \A h \in {"fast", "slow"} :
                WF_warVars(\E s \in Servers : system = s /\ (War(s)!ReadNext(h) \/ War(s)!Receive(h)))

Spec == /\ Init /\ [][Next]_all
        /\ StreamFair /\ PeerFair /\ RoomFair /\ ZombieFair /\ TurnFair /\ PoolFair
        /\ HeroFair /\ WarFair

\* The type invariants of the modules.
TypeOK == CASE system = "stream" -> Stream!TypeOK
            [] system = "peers" -> Peers!TypeOK
            [] system = "room" -> Room!TypeOK
            [] system = "zombies" -> Zombies!TypeOK
            [] system = "switch" -> Switch!TypeOK
            [] system = "plain" -> Plain!TypeOK
            [] system = "shards" -> Shards!TypeOK
            [] system = "blocking" -> Turns(FALSE, 0)!TypeOK
            [] OTHER -> /\ \A s \in DOMAIN RedialsOf : system = s => Turns(TRUE, RedialsOf[s])!TypeOK
                        /\ \A s \in DOMAIN BreaksOf : system = s => Pool(BreaksOf[s])!TypeOK
                        /\ \A d \in Demos : system = d => Treasure(d)!TypeOK
                        /\ \A s \in DOMAIN CallersOf : system = s => Cache(CallersOf[s])!TypeOK
                        /\ \A s \in Servers : system = s => War(s)!TypeOK

\* Nothing is lost, invented or credited to another: messages, frames, places
\* of a room, connections of a pool, treasures, gold and positions.
Accounts ==
  CASE system = "stream" -> Stream!Delivered
    [] system = "peers" -> Peers!InStep
    [] system = "room" -> Room!OneReader
    [] system = "zombies" -> Zombies!OwnInputs
    [] system = "switch" -> Switch!LastWord
    [] system = "pool" -> Pool(FALSE)!Accounted /\ Pool(FALSE)!Woken
    [] system = "breaking" -> Pool(TRUE)!Accounted
    [] system = "cache" -> Cache({1})!Committed /\ Cache({1})!Fresh
    [] system = "callers" -> Cache({1, 2})!Committed
    [] system = "plain" -> Plain!Kept
    [] system = "shards" -> Shards!Kept
    [] OTHER -> /\ system = "redials" => Turns(TRUE, 1)!OwnConnection
                /\ \A d \in Demos : system = d => Treasure(d)!Given /\ Treasure(d)!NoneForgotten
                /\ \A s \in Servers : system = s => War(s)!Told

\* What no step may do: put a live client offline, play another's input, give
\* a zombie's place away, drop an input that was read, move by more than one.
OneStep == [][/\ system = "room" => Room!KeepsLive /\ Room!WritesOwn
              /\ system = "zombies" => Zombies!GivesFree
              /\ system = "blocking" => Turns(FALSE, 0)!Applies
              /\ \A s \in DOMAIN RedialsOf : system = s => Turns(TRUE, RedialsOf[s])!Applies
              /\ system = "plain" => Plain!Steps
              /\ system = "shards" => Shards!Steps]_all

\* Received, BothStop, Freed, Plays, Answered, Ends, Served and Runs of the
\* modules: it holds again and again. What a module expects in the end is made
\* false by a bounded number of steps only, so that this is the same.
Again(i) ==
  CASE system = "stream" -> sent = got
    [] system = "peers" -> Peers!Stopped
    [] system = "room" -> Room!NoneHung
    [] system = "zombies" -> IF i = 1 THEN Zombies!Taken ELSE Zombies!Freed
    [] system \in DOMAIN RedialsOf -> doing[i] # "wait" \/ i \in mute
    [] system \in DOMAIN BreaksOf -> closed
    [] system \in Demos -> \A d \in Demos : system = d => Treasure(d)!NoneWaits
    [] system \in Servers -> \A s \in Servers : system = s => War(s)!NotHeldUp
    [] OTHER -> TRUE
Ends == \A i \in {1, 2} : []<>Again(i)
=============================================================================
