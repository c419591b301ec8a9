--------------------------- MODULE ClusterFailover ---------------------------
(* Placement of the maps on the nodes, checkpoints, replicas and failover of *)
(*   src/Lab/Lab3/student/cluster/cluster.go                                 *)
(* The administrator's commands, the heartbeat loop and the checkpoint loop  *)
(* run concurrently. c.mu is held over whole failovers (mu), but neither by  *)
(* heartbeats, nor while a checkpoint is taken, saved and copied. What a     *)
(* world holds is left to the modules that extend this one: only Work, of    *)
(* this module's Next, takes it to be the number of changes made to it.      *)
EXTENDS Integers, FiniteSets, Functions

CONSTANTS Nodes,         \* 1..n: node-a, node-b, ... in the order of their names
          Maps,          \* 1..k
          FirstOwner, FirstReplica,  \* assignments of NewCluster
          FreshWorld,    \* NewWorld
          Steady,        \* nodes that no command takes down
          MaxWork,       \* bound: changes of a world
          MaxTicks,      \* bound: rounds of the checkpoint loop
          MaxCommands,   \* bound: fail and recover commands
          MaxLostPings   \* bound: pings that time out although the node listens

None == 0

ClusterAssumption ==
  /\ Nodes \subseteq Nat \ {None} /\ IsFiniteSet(Nodes) /\ Nodes # {}
  /\ Maps \subseteq Nat \ {None} /\ IsFiniteSet(Maps)
  /\ FirstOwner \in [Maps -> Nodes] /\ FirstReplica \in [Maps -> Nodes]
  /\ \A m \in Maps : FirstOwner[m] # FirstReplica[m]
  /\ Steady \subseteq Nodes
  /\ {MaxWork, MaxTicks, MaxCommands, MaxLostPings} \subseteq Nat

VARIABLES owners, replicas, \* Cluster: map -> node, None for ""
          term, mu,         \* Cluster.term; who holds Cluster.mu
          hosts,            \* NodeService.maps: node -> map -> world
          snapshots,        \* NodeService.replicaSnapshots: node -> map -> checkpoint
          nodeTerm, healthy, listening,   \* NodeService: term, healthy, ln # nil
          stored,           \* the checkpoint files: map -> checkpoint
          writer,           \* checkpointLoop and failNode write checkpoints
          heart, admin,     \* heartbeatLoop; the administrator's connection
          commands, lost, ticks

metadata == <<owners, replicas, term>>
nodes == <<hosts, snapshots, nodeTerm>>
health == <<healthy, listening, lost>>
bounds == <<commands, ticks>>
vars == <<metadata, mu, nodes, health, stored, writer, heart, admin, bounds>>

Writers == {"loop", "admin"}
NobodyHolds == [by |-> "nobody", node |-> None, todo |-> {}]
Free == mu = NobodyHolds

\* protocol.MapCheckpoint
Checkpoint(n, m) == [map |-> m, world |-> hosts[n][m], term |-> nodeTerm[n], by |-> n]
NoCheckpoint == [map |-> None, world |-> FreshWorld, term |-> 0, by |-> None]

Waiting == [pc |-> "idle", plans |-> {}, cp |-> NoCheckpoint, to |-> None]
Quiet == [pc |-> "idle", node |-> None]

Least(S) == CHOOSE x \in S : \A y \in S : x <= y

\* Assignment to a map of Go: of one key, and of every key of another map.
Assign(f, k, v) == [x \in DOMAIN f \cup {k} |-> IF x = k THEN v ELSE f[x]]
Merge(f, g) == [x \in DOMAIN f \cup DOMAIN g |-> IF x \in DOMAIN g THEN g[x] ELSE f[x]]

Init == /\ owners = FirstOwner /\ replicas = FirstReplica /\ term = 0 /\ mu = NobodyHolds
        /\ hosts = [n \in Nodes |-> [m \in {k \in Maps : FirstOwner[k] = n} |-> FreshWorld]]
        /\ snapshots = [n \in Nodes |-> <<>>] /\ nodeTerm = [n \in Nodes |-> 0]
        /\ healthy = [n \in Nodes |-> TRUE] /\ listening = [n \in Nodes |-> TRUE]
        /\ stored = <<>> /\ writer = [w \in Writers |-> Waiting]
        /\ heart = [pc |-> "idle", node |-> Least(Nodes)] /\ admin = Quiet
        /\ commands = 0 /\ lost = 0 /\ ticks = 0

(* ----------------------------- checkpoints ----------------------------- *)

\* Store.SaveCheckpoint refuses an older term.
SaveCheckpoint_NoTerm(files, cp) == Assign(files, cp.map, cp)
SaveCheckpoint(files, cp) ==
  IF cp.map \in DOMAIN files /\ cp.term < files[cp.map].term
  THEN files ELSE Assign(files, cp.map, cp)

\* StoreReplica; None is a node that is not there.
StoreReplica(copies, n, cp) ==
  IF n = None THEN copies ELSE [copies EXCEPT ![n] = Assign(@, cp.map, cp)]

\* checkpointLoop: the maps with a healthy owner, and their healthy replicas.
Plan == /\ Free /\ writer["loop"].pc = "idle" /\ ticks < MaxTicks /\ ticks' = ticks + 1
        /\ LET up == {m \in Maps : healthy[owners[m]]}
           IN  /\ up # {}
               /\ writer' = [writer EXCEPT !["loop"].pc = "take", !["loop"].plans =
                    {[map |-> m, owner |-> owners[m],
                      to |-> IF replicas[m] # None /\ healthy[replicas[m]]
                             THEN replicas[m] ELSE None] : m \in up}]
        /\ UNCHANGED <<metadata, mu, nodes, health, stored, heart, admin, commands>>

After(plans) == IF plans = {} THEN Waiting ELSE [Waiting EXCEPT !.pc = "take", !.plans = plans]

\* NodeService.Checkpoint, an error when the node does not host the map.
Take(w) ==
  /\ writer[w].pc = "take"
  /\ LET p    == CHOOSE p \in writer[w].plans :
                   p.map = Least({q.map : q \in writer[w].plans})
         rest == writer[w].plans \ {p}
     IN  writer' = [writer EXCEPT ![w] =
           IF p.map \in DOMAIN hosts[p.owner]
           THEN [pc |-> "save", plans |-> rest, cp |-> Checkpoint(p.owner, p.map), to |-> p.to]
           ELSE After(rest)]
  /\ UNCHANGED <<metadata, mu, nodes, health, stored, heart, admin, bounds>>

Save(w) == /\ writer[w].pc = "save"
           /\ stored' = SaveCheckpoint(stored, writer[w].cp)
           /\ writer' = [writer EXCEPT ![w].pc = "copy"]
           /\ UNCHANGED <<metadata, mu, nodes, health, heart, admin, bounds>>

Copy(w) == /\ writer[w].pc = "copy"
           /\ snapshots' = StoreReplica(snapshots, writer[w].to, writer[w].cp)
           /\ writer' = [writer EXCEPT ![w] = After(writer[w].plans)]
           /\ UNCHANGED <<metadata, mu, hosts, nodeTerm, health, stored, heart, admin, bounds>>

(* ------------------------------- failover ------------------------------ *)

\* pickReplicaLocked
Pick_AnyNode(n) == LET up == Nodes \ {n} IN IF up = {} THEN None ELSE Least(up)
Pick(n) == LET up == {k \in Nodes \ {n} : healthy[k]} IN IF up = {} THEN None ELSE Least(up)

\* The replica if it is healthy and has a snapshot, else the first healthy node.
Successor(n, m) ==
  LET r == replicas[m]
  IN  IF r # None /\ healthy[r] /\ m \in DOMAIN snapshots[r] THEN r ELSE Pick(n)

\* Promote from the snapshot, or RestorePrimaryMap from the file. A file that
\* is missing leaves a new world.
Restored(k, m) == IF m \in DOMAIN snapshots[k] THEN snapshots[k][m].world
                  ELSE IF m \in DOMAIN stored THEN stored[m].world ELSE FreshWorld

\* handleNodeFailure for one map. Without a successor only the term grows.
Failover_KeepsWorld(n, m) ==
  /\ term' = term + 1
  /\ LET k == Successor(n, m) r == Pick(k)
     IN  IF k = None THEN UNCHANGED <<owners, replicas, nodes, stored>>
         ELSE LET cp == [map |-> m, world |-> Restored(k, m), term |-> term', by |-> k]
              IN  /\ hosts' = [hosts EXCEPT ![k] = Assign(@, m, cp.world)]
                  /\ nodeTerm' = [nodeTerm EXCEPT ![k] = term']
                  /\ owners' = [owners EXCEPT ![m] = k]
                  /\ replicas' = [replicas EXCEPT ![m] = r]
                  /\ stored' = SaveCheckpoint(stored, cp)
                  /\ snapshots' = StoreReplica(
                       [snapshots EXCEPT ![k] = Restrict(@, DOMAIN @ \ {m})], r, cp)
Failover_TermNotStored(n, m) ==
  /\ term' = term
  /\ LET k == Successor(n, m) r == Pick(k)
     IN  IF k = None THEN UNCHANGED <<owners, replicas, nodes, stored>>
         ELSE LET cp == [map |-> m, world |-> Restored(k, m), term |-> term + 1, by |-> k]
              IN  /\ hosts' = [hosts EXCEPT ![k] = Assign(@, m, cp.world),
                                            ![n] = Restrict(@, DOMAIN @ \ {m})]
                  /\ nodeTerm' = [nodeTerm EXCEPT ![k] = term + 1]
                  /\ owners' = [owners EXCEPT ![m] = k]
                  /\ replicas' = [replicas EXCEPT ![m] = r]
                  /\ stored' = SaveCheckpoint(stored, cp)
                  /\ snapshots' = StoreReplica(
                       [snapshots EXCEPT ![k] = Restrict(@, DOMAIN @ \ {m})], r, cp)
Failover_OldTerm(n, m) ==
  /\ term' = term + 1
  /\ LET k == Successor(n, m) r == Pick(k)
     IN  IF k = None THEN UNCHANGED <<owners, replicas, nodes, stored>>
         ELSE LET cp == [map |-> m, world |-> Restored(k, m), term |-> nodeTerm[k], by |-> k]
              IN  /\ hosts' = [hosts EXCEPT ![k] = Assign(@, m, cp.world),
                                            ![n] = Restrict(@, DOMAIN @ \ {m})]
                  /\ UNCHANGED nodeTerm
                  /\ owners' = [owners EXCEPT ![m] = k]
                  /\ replicas' = [replicas EXCEPT ![m] = r]
                  /\ stored' = SaveCheckpoint(stored, cp)
                  /\ snapshots' = StoreReplica(
                       [snapshots EXCEPT ![k] = Restrict(@, DOMAIN @ \ {m})], r, cp)
Failover(n, m) ==
  /\ term' = term + 1
  /\ LET k == Successor(n, m) r == Pick(k)
     IN  IF k = None THEN UNCHANGED <<owners, replicas, nodes, stored>>
         ELSE LET cp == [map |-> m, world |-> Restored(k, m), term |-> term', by |-> k]
              IN  /\ hosts' = [hosts EXCEPT ![k] = Assign(@, m, cp.world),
                                            ![n] = Restrict(@, DOMAIN @ \ {m})]
                  /\ nodeTerm' = [nodeTerm EXCEPT ![k] = term']
                  /\ owners' = [owners EXCEPT ![m] = k]
                  /\ replicas' = [replicas EXCEPT ![m] = r]
                  /\ stored' = SaveCheckpoint(stored, cp)
                  /\ snapshots' = StoreReplica(
                       [snapshots EXCEPT ![k] = Restrict(@, DOMAIN @ \ {m})], r, cp)

\* heartbeatLoop goes through the nodes in the order of their names.
Following(n) == LET more == {k \in Nodes : k > n}
                IN  [pc |-> "idle", node |-> Least(IF more = {} THEN Nodes ELSE more)]

\* The loop of handleNodeFailure over the maps of node n, under c.mu, called by
\* the heartbeat loop or by failNode.
Begin(who, n) == /\ Free /\ mu' = [by |-> who, node |-> n,
                                   todo |-> {m \in Maps : owners[m] = n}]
                 /\ UNCHANGED <<metadata, nodes, stored>>
FailoverNext == /\ ~Free /\ mu.todo # {}
                /\ LET m == Least(mu.todo)
                   IN  Failover(mu.node, m) /\ mu' = [mu EXCEPT !.todo = @ \ {m}]
                /\ UNCHANGED <<health, writer, heart, admin, bounds>>
End == /\ ~Free /\ mu.todo = {} /\ mu' = NobodyHolds
       /\ IF mu.by = "heart" THEN heart' = Following(heart.node) /\ UNCHANGED admin
                              ELSE admin' = Quiet /\ UNCHANGED heart
       /\ UNCHANGED <<metadata, nodes, health, stored, writer, bounds>>

(* ------------------------------ heartbeats ----------------------------- *)

Ping == LET n == heart.node
        IN  /\ heart.pc = "idle"
            /\ \/ /\ heart' = [heart EXCEPT !.pc = IF listening[n] THEN "alive" ELSE "dead"]
                  /\ lost' = lost
               \/ /\ listening[n] /\ lost < MaxLostPings /\ lost' = lost + 1
                  /\ heart' = [heart EXCEPT !.pc = "dead"]
            /\ UNCHANGED <<metadata, mu, nodes, healthy, listening, stored, writer, admin,
                           bounds>>

\* SetHealthy with the result of the ping.
Heard == LET n == heart.node
         IN  /\ heart.pc \in {"alive", "dead"}
             /\ healthy' = [healthy EXCEPT ![n] = (heart.pc = "alive")]
             /\ heart' = IF healthy[n] /\ heart.pc = "dead"
                         THEN [heart EXCEPT !.pc = "handle"] ELSE Following(n)
             /\ UNCHANGED <<metadata, mu, nodes, listening, lost, stored, writer, admin,
                            bounds>>

HeartHandles == /\ heart.pc = "handle" /\ Begin("heart", heart.node)
                /\ heart' = [heart EXCEPT !.pc = "called"]
                /\ UNCHANGED <<health, writer, admin, bounds>>

(* ---------------------------- administration --------------------------- *)

\* failNode: a checkpoint of every map of the node, copied to the replica,
\* healthy or not.
Fail(n) ==
  /\ Free /\ admin.pc = "idle" /\ commands < MaxCommands /\ n \notin Steady
  /\ admin' = [pc |-> "stop", node |-> n] /\ commands' = commands + 1
  /\ writer' = [writer EXCEPT !["admin"] =
       After({[map |-> m, owner |-> n, to |-> replicas[m]] : m \in DOMAIN hosts[n]})]
  /\ UNCHANGED <<metadata, mu, nodes, health, stored, heart, ticks>>

\* Stop closes the listener and clears the flag under the node's mutex.
Stop == /\ admin.pc = "stop" /\ writer["admin"].pc = "idle"
        /\ listening' = [listening EXCEPT ![admin.node] = FALSE]
        /\ healthy' = IF listening[admin.node]
                      THEN [healthy EXCEPT ![admin.node] = FALSE] ELSE healthy
        /\ admin' = [admin EXCEPT !.pc = "down"]
        /\ UNCHANGED <<metadata, mu, nodes, lost, stored, writer, heart, bounds>>

Down == /\ admin.pc = "down" /\ admin' = [admin EXCEPT !.pc = "handle"]
        /\ healthy' = [healthy EXCEPT ![admin.node] = FALSE]
        /\ UNCHANGED <<metadata, mu, nodes, listening, lost, stored, writer, heart, bounds>>

AdminHandles == /\ admin.pc = "handle" /\ Begin("admin", admin.node)
                /\ admin' = [admin EXCEPT !.pc = "called"]
                /\ UNCHANGED <<health, writer, heart, bounds>>

\* recoverNode: Start does nothing to a node that listens; SetHealthy follows.
Recover(n) ==
  /\ admin.pc = "idle" /\ commands < MaxCommands
  /\ admin' = [pc |-> "up", node |-> n] /\ commands' = commands + 1
  /\ listening' = [listening EXCEPT ![n] = TRUE]
  /\ healthy' = IF listening[n] THEN healthy ELSE [healthy EXCEPT ![n] = TRUE]
  /\ UNCHANGED <<metadata, mu, nodes, lost, stored, writer, heart, ticks>>

Up == /\ admin.pc = "up" /\ admin' = [admin EXCEPT !.pc = "reload"]
      /\ healthy' = [healthy EXCEPT ![admin.node] = TRUE]
      /\ UNCHANGED <<metadata, mu, nodes, listening, lost, stored, writer, heart, bounds>>

\* It becomes the replica of every map it does not own.
Reload ==
  /\ Free /\ admin.pc = "reload" /\ admin' = Quiet
  /\ LET others == {m \in Maps : owners[m] # admin.node}
     IN  /\ replicas' = [m \in Maps |-> IF m \in others THEN admin.node ELSE replicas[m]]
         /\ snapshots' = [snapshots EXCEPT ![admin.node] =
                            Merge(@, Restrict(stored, others \cap DOMAIN stored))]
  /\ UNCHANGED <<owners, term, mu, hosts, nodeTerm, health, stored, writer, heart, bounds>>

(* --------------------------------- spec -------------------------------- *)

\* Commands of players and BackgroundStep on a node that is healthy.
Work(n, m) == /\ healthy[n] /\ m \in DOMAIN hosts[n] /\ hosts[n][m] < MaxWork
              /\ hosts' = [hosts EXCEPT ![n][m] = @ + 1]
              /\ UNCHANGED <<metadata, mu, snapshots, nodeTerm, health, stored, writer,
                             heart, admin, bounds>>

Checkpoints == Plan \/ \E w \in Writers : Take(w) \/ Save(w) \/ Copy(w)
Failovers == FailoverNext \/ End
Heartbeats == Ping \/ Heard \/ HeartHandles
CommandGoesOn == Stop \/ Down \/ AdminHandles \/ Up \/ Reload

Next == \/ Checkpoints \/ Failovers \/ Heartbeats \/ CommandGoesOn
        \/ \E n \in Nodes : Fail(n) \/ Recover(n)
        \/ \E n \in Nodes, m \in Maps : Work(n, m)

Spec == Init /\ [][Next]_vars

\* The heartbeat loop ticks, a command that began goes on, and the mutex is given
\* to whoever waits for it. No command has to be given.
FairSpec == /\ Spec /\ WF_vars(Failovers) /\ SF_vars(Heartbeats) /\ SF_vars(CommandGoesOn)
            /\ WF_vars(\E w \in Writers : Take(w) \/ Save(w) \/ Copy(w))

(* ------------------------------ properties ----------------------------- *)

CheckpointOf(m, worlds) == [map : {m}, world : worlds, term : 0..term, by : Nodes]
NodeOrNone == Nodes \cup {None}
Plans == [map : Maps, owner : Nodes, to : NodeOrNone]

TypeInv(worlds) ==
  /\ owners \in [Maps -> Nodes] /\ replicas \in [Maps -> NodeOrNone] /\ term \in Nat
  /\ Free \/ mu \in [by : {"heart", "admin"}, node : Nodes, todo : SUBSET Maps]
  /\ \A n \in Nodes : /\ DOMAIN hosts[n] \subseteq Maps
                      /\ \A m \in DOMAIN hosts[n] : hosts[n][m] \in worlds
                      /\ DOMAIN snapshots[n] \subseteq Maps
                      /\ \A m \in DOMAIN snapshots[n] :
                           snapshots[n][m] \in CheckpointOf(m, worlds)
  /\ nodeTerm \in [Nodes -> 0..term]
  /\ {healthy, listening} \subseteq [Nodes -> BOOLEAN]
  /\ DOMAIN stored \subseteq Maps /\ \A m \in DOMAIN stored : stored[m] \in CheckpointOf(m, worlds)
  /\ \A w \in Writers :
       /\ writer[w].pc \in {"idle", "take", "save", "copy"}
       /\ writer[w].plans \subseteq Plans /\ writer[w].to \in NodeOrNone
       /\ writer[w].pc \in {"save", "copy"} =>
            \E m \in Maps : writer[w].cp \in CheckpointOf(m, worlds)
  /\ heart \in [pc : {"idle", "alive", "dead", "handle", "called"}, node : NodeOrNone]
  /\ admin \in [pc : {"idle", "stop", "down", "handle", "called", "up", "reload"}, node : NodeOrNone]

TypeOK == TypeInv(0..MaxWork)

\* One node writes a map: whatever fails, recovers, or is taken for dead, the
\* owner holds the only world of a map, and its replica is another node.
SingleHost == \A m \in DOMAIN owners :
  /\ {n \in DOMAIN hosts : m \in DOMAIN hosts[n]} = {owners[m]}
  /\ replicas[m] # owners[m]

\* The term fences the file: a checkpoint that was taken from a former owner
\* before the failover and is saved late never replaces one of the new owner.
FencedStore == \A m \in DOMAIN stored : stored[m].by = owners[m]

\* A failover does not go back behind the last saved checkpoint, when it does
\* not fall between the saving and the copying of one.
RestoresLatest ==
  [][\A m \in DOMAIN stored :
       owners'[m] # owners[m] /\ (\A w \in Writers : writer[w].pc # "copy") =>
       hosts'[owners'[m]][m] >= stored[m].world]_vars

\* A map does not stay on a node that is down.
Served == \A m \in Maps : ~listening[owners[m]] ~> listening[owners[m]]
=============================================================================
