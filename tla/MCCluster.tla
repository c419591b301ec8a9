------------------------------ MODULE MCCluster -------------------------------
(* Lab3's in-process cluster: its failovers, with worlds that are counters,  *)
(* and its sessions, whose worlds are the players in them. `system` names    *)
(* the instance that runs; the others stay as they start. The constants of   *)
(* the configuration are those that the visits share.                        *)
EXTENDS ClusterSessions

VARIABLE system

\* NewCluster: node-a owns the map, node-c has its replica. Nodes that fail
\* while the checkpoint loop runs; pings that are lost; node-b never fails.
Kinds == {"fence", "lossy", "steady"}
Kind(s) == INSTANCE ClusterFailover WITH
             Nodes <- 1..3, Maps <- {1}, FirstOwner <- [m \in {1} |-> 1],
             FirstReplica <- [m \in {1} |-> 3], FreshWorld <- 0,
             Steady <- IF s = "steady" THEN {2} ELSE {},
             MaxWork <- IF s = "steady" THEN 0 ELSE 1,
             MaxTicks <- 1,
             MaxCommands <- CASE s = "fence" -> 2 [] s = "lossy" -> 1 [] s = "steady" -> 3,
             MaxLostPings <- IF s = "lossy" THEN 1 ELSE 0
\* Two nodes with a map each. A player that plays, or walks about while nodes
\* fail; two connections of two players.
Visits == {"plays", "fails", "pair"}
OwnMap == [m \in Maps |-> m]
OtherNode == [m \in Maps |-> 3 - m]
NoPlayers == <<>>
Visit(s) == INSTANCE ClusterSessions WITH
              MaxCommands <- IF s = "fails" THEN 1 ELSE 0,
              Users <- IF s = "pair" THEN Users ELSE {1},
              Conns <- IF s = "pair" THEN Conns ELSE {1},
              Calm <- s = "fails", MaxActs <- IF s = "plays" THEN 1 ELSE 0

ASSUME /\ \A s \in Kinds : Kind(s)!ClusterAssumption
       /\ \A s \in Visits : Visit(s)!ClusterAssumption /\ Visit(s)!SessionAssumption

EachInit == /\ system \in Kinds \cup Visits
            /\ IF system = "pair" THEN Visit("pair")!CInit
               ELSE IF system \in Visits THEN Visit("plays")!CInit
               ELSE /\ Kind("fence")!Init
                    /\ sessions = <<>> /\ rescue = {} /\ profile = <<>> /\ conn = <<>>
                    /\ logout = <<>> /\ saver = <<>> /\ earned = <<>>

EachNext == /\ UNCHANGED system
            /\ \/ \E s \in Kinds : system = s /\ Kind(s)!Next /\ UNCHANGED play
               \/ \E s \in Visits : system = s /\ Visit(s)!CNext

Fair(A) == system = "steady" /\ A /\ UNCHANGED <<system, play>>
EachSpec == /\ EachInit /\ [][EachNext]_<<system, cvars>>
            /\ WF_cluster(Fair(Kind("steady")!Failovers))
            /\ SF_cluster(Fair(Kind("steady")!Heartbeats))
            /\ SF_cluster(Fair(Kind("steady")!CommandGoesOn))
            /\ WF_cluster(Fair(\E w \in Kind("steady")!Writers :
                                 Kind("steady")!Take(w) \/ Kind("steady")!Save(w)
                                   \/ Kind("steady")!Copy(w)))

EachTypeOK == /\ \A s \in Kinds : system = s => Kind(s)!TypeOK
              /\ \A s \in Visits : system = s => Visit(s)!CTypeOK
\* SingleHost and FencedStore of ClusterFailover speak of whatever maps and
\* nodes there are; Home and UniqueHome are those of ClusterSessions.
EachHome == \A s \in Visits : system = s => Visit(s)!Home /\ Visit(s)!UniqueHome
\* ClusterFailover.Served, of the one map: there is always a later moment at
\* which its owner listens.
EachServed == []<>(system = "steady" => listening[owners[1]])
=============================================================================
