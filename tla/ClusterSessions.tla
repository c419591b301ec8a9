--------------------------- MODULE ClusterSessions ---------------------------
(* Logins, map switches, commands, logouts and the saving of profiles of     *)
(*   src/Lab/Lab3/student/cluster/cluster.go                                 *)
(* on top of ClusterFailover: a world is here the progress of the players in *)
(* it. Connections (cmd/server/main.go), flushLoop and the failover all read *)
(* a player under one mutex and use it after the mutex is let go. Attack     *)
(* also saves its target, which is left out; so are events and hot sessions, *)
(* which nothing reads.                                                      *)
EXTENDS ClusterFailover

CONSTANTS Users, Conns,
          Calm,      \* bound: commands fail nodes only while nobody does anything
          Patient,   \* bound: a client waits for the answer before it leaves, and does
                     \* not log in twice
          MaxActs    \* bound: progress of a player

\* A world that is new is without players.
SessionAssumption == None \notin Users /\ Maps # {} /\ FreshWorld = <<>>

VARIABLES sessions,  \* Cluster.sessions: user -> map and node
          profile,   \* Store.users: LastMap and the progress
          conn,      \* what handleClient does for a connection
          logout,    \* Logout of the connection, which may overlap with it
          saver,     \* persistSessionState, of a connection, flushLoop, a failover
          rescue,    \* persistList of handleNodeFailure
          earned     \* history: what a player has done

play == <<sessions, profile, conn, logout, saver, rescue, earned>>
cluster == <<owners, replicas, term, mu, hosts, snapshots, nodeTerm, healthy, listening,
             lost, stored, writer, heart, admin, commands, ticks>>
cvars == <<cluster, play>>

Savers == {[conn |-> c] : c \in Conns} \cup {[loop |-> "flush"], [loop |-> "rescue"]}
Saver(c) == [conn |-> c]
Flusher == [loop |-> "flush"]
Rescuer == [loop |-> "rescue"]

Profile(m, p) == [map |-> m, progress |-> p]
Nothing == Profile(None, 0)
Out == [pc |-> "out", user |-> None, map |-> None, node |-> None, to |-> None,
        toNode |-> None, profile |-> Nothing]
NotSaving == [pc |-> "idle", user |-> None, map |-> None, node |-> None, profile |-> Nothing]
NotLeaving == [pc |-> "no", map |-> None, node |-> None, profile |-> Nothing]

CInit == /\ Init /\ sessions = <<>>
         /\ profile = [u \in Users |-> Profile(Least(Maps), 0)]
         /\ conn = [c \in Conns |-> Out] /\ logout = [c \in Conns |-> NotLeaving]
         /\ saver = [s \in Savers |-> NotSaving] /\ rescue = {}
         /\ earned = [u \in Users |-> 0]

(* ------------------------------- the worlds ---------------------------- *)

Stands(n, m, u) == m \in DOMAIN hosts[n] /\ u \in DOMAIN hosts[n][m]
ProfileAt(n, m, u) == Profile(m, hosts[n][m][u])

\* NodeService.AddPlayer: silently nothing on a node that does not host the map.
AddPlayer(n, m, u, p) ==
  hosts' = IF m \in DOMAIN hosts[n] THEN [hosts EXCEPT ![n][m] = Assign(@, u, p)] ELSE hosts
RemovePlayer(n, m, u) ==
  hosts' = IF Stands(n, m, u)
           THEN [hosts EXCEPT ![n][m] = Restrict(@, DOMAIN @ \ {u})] ELSE hosts

AfterHosts == UNCHANGED <<owners, replicas, term, mu, snapshots, nodeTerm, health, stored,
                          writer, heart, admin, bounds>>

(* ---------------------------- persistSessionState ---------------------- *)

Persist(s, u) == saver' = [saver EXCEPT ![s] = [NotSaving EXCEPT !.pc = "look", !.user = u]]

\* The session, under c.mu; an error ends it.
PersistLook(s) ==
  LET u == saver[s].user
  IN  /\ saver[s].pc = "look" /\ Free
      /\ saver' = [saver EXCEPT ![s] =
           IF u \in DOMAIN sessions /\ healthy[sessions[u].node]
           THEN [@ EXCEPT !.pc = "read", !.map = sessions[u].map, !.node = sessions[u].node]
           ELSE NotSaving]
      /\ UNCHANGED <<cluster, sessions, profile, conn, logout, rescue, earned>>
PersistRead_Unchecked(s) ==
  LET p == saver[s]
  IN  /\ p.pc = "read"
      /\ saver' = [saver EXCEPT ![s] = [@ EXCEPT !.pc = "write", !.profile =
           IF Stands(p.node, p.map, p.user) THEN ProfileAt(p.node, p.map, p.user) ELSE Nothing]]
      /\ UNCHANGED <<cluster, sessions, profile, conn, logout, rescue, earned>>
PersistRead(s) ==
  LET p == saver[s]
  IN  /\ p.pc = "read"
      /\ saver' = [saver EXCEPT ![s] =
           IF Stands(p.node, p.map, p.user)
           THEN [@ EXCEPT !.pc = "write", !.profile = ProfileAt(p.node, p.map, p.user)]
           ELSE NotSaving]
      /\ UNCHANGED <<cluster, sessions, profile, conn, logout, rescue, earned>>
PersistWrite(s) ==
  /\ saver[s].pc = "write"
  /\ profile' = [profile EXCEPT ![saver[s].user] = saver[s].profile]
  /\ saver' = [saver EXCEPT ![s] = NotSaving]
  /\ UNCHANGED <<cluster, sessions, conn, logout, rescue, earned>>

\* flushLoop, for one of the users it found in the table.
Flush(u) == /\ saver[Flusher] = NotSaving /\ Free /\ u \in DOMAIN sessions
            /\ Persist(Flusher, u)
            /\ UNCHANGED <<cluster, sessions, profile, conn, logout, rescue, earned>>

(* ------------------------------ connections ---------------------------- *)

Calmly == Calm => admin = Quiet /\ Free /\ rescue = {}
Active(c) == conn[c].pc \notin {"out", "in"}
Step(c, from) == conn[c].pc = from
Goto(c, pc) == conn' = [conn EXCEPT ![c].pc = pc]

\* Login: Authenticate returns a copy of the profile.
Authenticate(c, u) ==
  /\ Step(c, "out") /\ Calmly /\ (Patient => \A d \in Conns : conn[d].user # u)
  /\ conn' = [conn EXCEPT ![c] = [Out EXCEPT !.pc = "check", !.user = u, !.profile = profile[u]]]
  /\ UNCHANGED <<cluster, sessions, profile, logout, saver, rescue, earned>>
LoginCheck(c) ==
  LET m == conn[c].profile.map
  IN  /\ Step(c, "check") /\ Free
      /\ conn' = IF conn[c].user \in DOMAIN sessions THEN [conn EXCEPT ![c] = Out]
                 ELSE [conn EXCEPT ![c].pc = "add", ![c].map = m, ![c].node = owners[m]]
      /\ UNCHANGED <<cluster, sessions, profile, logout, saver, rescue, earned>>
LoginAdd(c) ==
  /\ Step(c, "add") /\ Goto(c, "enter")
  /\ AddPlayer(conn[c].node, conn[c].map, conn[c].user, conn[c].profile.progress)
  /\ AfterHosts /\ UNCHANGED <<sessions, profile, logout, saver, rescue, earned>>
LoginEnter(c) ==
  /\ Step(c, "enter") /\ Free /\ Goto(c, "persist")
  /\ sessions' = Assign(sessions, conn[c].user, [map |-> conn[c].map, node |-> conn[c].node])
  /\ Persist(Saver(c), conn[c].user)
  /\ UNCHANGED <<cluster, profile, logout, rescue, earned>>

\* A command returns.
Return(c) ==
  /\ Step(c, "persist") /\ saver[Saver(c)] = NotSaving
  /\ conn' = [conn EXCEPT ![c] = [Out EXCEPT !.pc = "in", !.user = conn[c].user]]
  /\ UNCHANGED <<cluster, sessions, profile, logout, saver, rescue, earned>>
Listens(c) == Step(c, "in") /\ logout[c].pc = "no" /\ Calmly

\* Move, Attack, Heal, BuyItem: sessionNode, the world, SaveProfile.
Command(c) ==
  LET u == conn[c].user
  IN  /\ Listens(c) /\ Free /\ earned[u] < MaxActs
      /\ u \in DOMAIN sessions /\ healthy[sessions[u].node]
      /\ conn' = [conn EXCEPT ![c].pc = "act", ![c].map = sessions[u].map,
                              ![c].node = sessions[u].node]
      /\ UNCHANGED <<cluster, sessions, profile, logout, saver, rescue, earned>>
Act(c) ==
  LET u == conn[c].user n == conn[c].node m == conn[c].map
  IN  /\ Step(c, "act")
      /\ IF Stands(n, m, u)
         THEN /\ hosts' = [hosts EXCEPT ![n][m][u] = @ + 1]
              /\ earned' = [earned EXCEPT ![u] = @ + 1]
              /\ conn' = [conn EXCEPT ![c].pc = "save",
                                      ![c].profile = Profile(m, hosts[n][m][u] + 1)]
         ELSE Goto(c, "persist") /\ UNCHANGED <<hosts, earned>>
      /\ AfterHosts /\ UNCHANGED <<sessions, profile, logout, saver, rescue>>
SaveActed(c) ==
  /\ Step(c, "save") /\ profile' = [profile EXCEPT ![conn[c].user] = conn[c].profile]
  /\ Goto(c, "persist")
  /\ UNCHANGED <<cluster, sessions, logout, saver, rescue, earned>>

\* SwitchMap: the places are read under c.mu.
SwitchMap(c, m) ==
  LET u == conn[c].user
  IN  /\ Listens(c) /\ Free /\ u \in DOMAIN sessions /\ sessions[u].map # m
      /\ healthy[owners[m]]
      /\ conn' = [conn EXCEPT ![c].pc = "look", ![c].to = m, ![c].toNode = owners[m],
                              ![c].map = sessions[u].map, ![c].node = sessions[u].node]
      /\ UNCHANGED <<cluster, sessions, profile, logout, saver, rescue, earned>>
SwitchLook(c) ==
  LET k == conn[c]
  IN  /\ Step(c, "look")
      /\ IF Stands(k.node, k.map, k.user)
         THEN conn' = [conn EXCEPT ![c].pc = "remove",
                                   ![c].profile = ProfileAt(k.node, k.map, k.user)]
         ELSE Goto(c, "persist")
      /\ UNCHANGED <<cluster, sessions, profile, logout, saver, rescue, earned>>
\* A player that is not there any more goes with the profile that was looked at.
SwitchRemove_Not(c) ==
  /\ Step(c, "remove") /\ Goto(c, "arrive")
  /\ UNCHANGED <<cluster, sessions, profile, logout, saver, rescue, earned>>
SwitchRemove(c) ==
  LET k == conn[c]
  IN  /\ Step(c, "remove") /\ RemovePlayer(k.node, k.map, k.user)
      /\ conn' = [conn EXCEPT ![c].pc = "arrive", ![c].profile =
           IF Stands(k.node, k.map, k.user) THEN ProfileAt(k.node, k.map, k.user) ELSE @]
      /\ AfterHosts /\ UNCHANGED <<sessions, profile, logout, saver, rescue, earned>>
SwitchArrive(c) ==
  /\ Step(c, "arrive") /\ Goto(c, "update")
  /\ AddPlayer(conn[c].toNode, conn[c].to, conn[c].user, conn[c].profile.progress)
  /\ AfterHosts /\ UNCHANGED <<sessions, profile, logout, saver, rescue, earned>>
SwitchUpdate_MapOnly(c) ==
  /\ Step(c, "update") /\ Free /\ Goto(c, "store")
  /\ sessions' = IF conn[c].user \in DOMAIN sessions
                 THEN [sessions EXCEPT ![conn[c].user].map = conn[c].to] ELSE sessions
  /\ UNCHANGED <<cluster, profile, logout, saver, rescue, earned>>
SwitchUpdate(c) ==
  /\ Step(c, "update") /\ Free /\ Goto(c, "store")
  /\ sessions' = IF conn[c].user \in DOMAIN sessions
                 THEN [sessions EXCEPT ![conn[c].user] =
                         [map |-> conn[c].to, node |-> conn[c].toNode]] ELSE sessions
  /\ UNCHANGED <<cluster, profile, logout, saver, rescue, earned>>
SwitchStore(c) ==
  /\ Step(c, "store") /\ Goto(c, "persist")
  /\ profile' = [profile EXCEPT ![conn[c].user] = Profile(conn[c].to, conn[c].profile.progress)]
  /\ Persist(Saver(c), conn[c].user)
  /\ UNCHANGED <<cluster, sessions, logout, rescue, earned>>

(* -------------------------------- Logout ------------------------------- *)

\* The command loop ends, or the ticker finds the client gone during a command.
Logout(c) ==
  LET u == conn[c].user
  IN  /\ logout[c].pc = "no" /\ Free /\ conn[c].pc \notin {"out", "check", "add", "enter"}
      /\ (Patient \/ Calm) => conn[c].pc = "in"
      /\ Calmly
      /\ IF u \in DOMAIN sessions
         THEN /\ logout' = [logout EXCEPT ![c] = [NotLeaving EXCEPT !.pc = "remove",
                              !.map = sessions[u].map, !.node = sessions[u].node]]
              /\ sessions' = Restrict(sessions, DOMAIN sessions \ {u})
         ELSE logout' = [logout EXCEPT ![c].pc = "done"] /\ UNCHANGED sessions
      /\ UNCHANGED <<cluster, profile, conn, saver, rescue, earned>>
LogoutRemove(c) ==
  LET l == logout[c] u == conn[c].user
  IN  /\ l.pc = "remove" /\ RemovePlayer(l.node, l.map, u)
      /\ logout' = [logout EXCEPT ![c] =
           IF Stands(l.node, l.map, u)
           THEN [@ EXCEPT !.pc = "save", !.profile = ProfileAt(l.node, l.map, u)]
           ELSE [NotLeaving EXCEPT !.pc = "done"]]
      /\ AfterHosts /\ UNCHANGED <<sessions, profile, conn, saver, rescue, earned>>
LogoutSave(c) ==
  /\ logout[c].pc = "save" /\ logout' = [logout EXCEPT ![c] = [NotLeaving EXCEPT !.pc = "done"]]
  /\ profile' = [profile EXCEPT ![conn[c].user] = logout[c].profile]
  /\ UNCHANGED <<cluster, sessions, conn, saver, rescue, earned>>
Close(c) == /\ logout[c].pc = "done" /\ Step(c, "in")
            /\ conn' = [conn EXCEPT ![c] = Out] /\ logout' = [logout EXCEPT ![c] = NotLeaving]
            /\ UNCHANGED <<cluster, sessions, profile, saver, rescue, earned>>

(* ------------------------------- failovers ----------------------------- *)

\* handleNodeFailure for one map: the sessions of the map follow it, and the
\* players that the restored world has are to be saved.
FailoverSessions_Stay(m) == UNCHANGED <<sessions, rescue>>
FailoverSessions(m) ==
  IF Successor(mu.node, m) = None THEN UNCHANGED <<sessions, rescue>>
  ELSE LET k == owners'[m]
           here == {u \in DOMAIN sessions : sessions[u].map = m}
       IN  /\ sessions' = [u \in DOMAIN sessions |->
                             IF u \in here THEN [map |-> m, node |-> k] ELSE sessions[u]]
           /\ rescue' = rescue \cup
                {[user |-> u, profile |-> Profile(m, hosts'[k][m][u])] :
                   u \in here \cap DOMAIN hosts'[k][m]}
FailoverStep == /\ FailoverNext /\ FailoverSessions(Least(mu.todo))
                /\ UNCHANGED <<profile, conn, logout, saver, earned>>

\* After c.mu is let go.
Rescue == /\ Free /\ saver[Rescuer] = NotSaving
          /\ \E r \in rescue : /\ profile' = [profile EXCEPT ![r.user] = r.profile]
                               /\ rescue' = rescue \ {r} /\ Persist(Rescuer, r.user)
          /\ UNCHANGED <<cluster, sessions, conn, logout, earned>>
Rescued == rescue = {} /\ saver[Rescuer] = NotSaving

Nobody == \A c \in Conns : ~Active(c) /\ logout[c].pc \in {"no", "done"}
Operate == /\ \/ (Calm => Nobody /\ writer["loop"] = Waiting) /\ \E n \in Nodes : Fail(n) \/ Recover(n)
              \/ Checkpoints \/ Stop \/ Down \/ Up \/ Reload \/ Ping \/ Heard \/ End
              \/ Rescued /\ (AdminHandles \/ HeartHandles)
           /\ UNCHANGED play

Serve(c) == \/ \E u \in Users : Authenticate(c, u)
            \/ LoginCheck(c) \/ LoginAdd(c) \/ LoginEnter(c) \/ Return(c)
            \/ Command(c) \/ Act(c) \/ SaveActed(c)
            \/ \E m \in Maps : SwitchMap(c, m)
            \/ SwitchLook(c) \/ SwitchRemove(c) \/ SwitchArrive(c)
            \/ SwitchUpdate(c) \/ SwitchStore(c)
            \/ Logout(c) \/ LogoutRemove(c) \/ LogoutSave(c) \/ Close(c)

CNext == \/ \E c \in Conns : Serve(c)
         \/ \E u \in Users : Flush(u)
         \/ \E s \in Savers : PersistLook(s) \/ PersistRead(s) \/ PersistWrite(s)
         \/ FailoverStep \/ Rescue \/ Operate

CSpec == CInit /\ [][CNext]_cvars

(* ------------------------------ properties ----------------------------- *)

Profiles == [map : Maps, progress : 0..MaxActs]
Worlds == UNION {[us -> 0..MaxActs] : us \in SUBSET Users}

CTypeOK == /\ TypeInv(Worlds)
           /\ DOMAIN sessions \subseteq Users
           /\ \A u \in DOMAIN sessions : sessions[u] \in [map : Maps, node : Nodes]
           /\ profile \in [Users -> Profiles] /\ earned \in [Users -> 0..MaxActs]
           /\ \A c \in Conns : conn[c].user \in Users \cup {None}
           /\ rescue \subseteq [user : Users, profile : Profiles]

Idle(u) == /\ Free /\ \A c \in Conns : conn[c].user = u => ~Active(c) /\ logout[c].pc = "no"

\* SwitchMap updates the session so that later commands are routed right.
Routed == \A u \in DOMAIN sessions : Idle(u) => sessions[u].node = owners[sessions[u].map]

\* A player with a session stands in the world that the owner of its map runs.
InWorld == \A u \in DOMAIN sessions :
             Idle(u) => Stands(owners[sessions[u].map], sessions[u].map, u)
Home == Routed /\ InWorld

\* Nobody stands in two worlds, whatever is going on.
UniqueHome == \A u \in Users :
  Cardinality({x \in Nodes \X Maps : Stands(x[1], x[2], u)}) <= 1

\* Who has left finds at the next login what it had at the last exit.
RestoresLastExit ==
  \A u \in Users : (u \notin DOMAIN sessions /\ Idle(u) /\ \A s \in Savers : saver[s].user # u)
                     => profile[u].progress = earned[u]
=============================================================================
