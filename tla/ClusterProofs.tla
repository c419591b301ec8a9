---------------------------- MODULE ClusterProofs ----------------------------
(* Proofs about ClusterFailover and ClusterSessions, for any nodes, maps and *)
(* players, and any commands, lost pings and checkpoints: one node runs a    *)
(* map, and the file of a map is its owner's, whatever the players do; and   *)
(* until a node is failed the players are where their sessions say.          *)
EXTENDS ClusterSessions, FiniteSetTheorems, WellFoundedInduction, TLAPS

\* A writer holds plans while it has some to carry out, and then a checkpoint.
Writing(w) == writer[w].pc \in {"save", "copy"}
WriterShape(w) ==
  /\ writer[w] = [pc |-> writer[w].pc, plans |-> writer[w].plans,
                  cp |-> writer[w].cp, to |-> writer[w].to]
  /\ writer[w].pc \in {"idle", "take", "save", "copy"}
  /\ writer[w].plans \subseteq Plans /\ writer[w].to \in NodeOrNone
  /\ writer[w].pc = "take" => writer[w].plans # {}
  /\ Writing(w) => /\ writer[w].cp.map \in Maps /\ writer[w].cp.by \in Nodes
                   /\ writer[w].cp.term \in 0..term

HeartSteps == {"idle", "alive", "dead", "handle", "called"}
AdminSteps == {"idle", "stop", "down", "handle", "called", "up", "reload"}

\* The types of all that does not depend on what a world holds.
Shape ==
  /\ owners \in [Maps -> Nodes] /\ replicas \in [Maps -> NodeOrNone] /\ term \in Nat
  /\ DOMAIN hosts = Nodes /\ \A n \in Nodes : DOMAIN hosts[n] \subseteq Maps
  /\ DOMAIN snapshots = Nodes /\ nodeTerm \in [Nodes -> 0..term]
  /\ DOMAIN stored \subseteq Maps /\ \A m \in DOMAIN stored : stored[m].term \in 0..term
  /\ DOMAIN writer = Writers /\ \A w \in Writers : WriterShape(w)
  /\ heart \in [pc : HeartSteps, node : Nodes]
  /\ admin \in [pc : AdminSteps, node : NodeOrNone] /\ (admin.pc # "idle" => admin.node \in Nodes)
  /\ healthy \in [Nodes -> BOOLEAN]

\* A failover under way has the maps of the failed node still before it.
TodoOwned == ~Free => /\ mu \in [by : {"heart", "admin"}, node : Nodes, todo : SUBSET Maps]
                      /\ \A m \in mu.todo : owners[m] = mu.node

\* A checkpoint that is yet to be saved is the owner's, or older than the file.
Fenced(w) == LET cp == writer[w].cp
             IN  \/ cp.by = owners[cp.map]
                 \/ cp.map \in DOMAIN stored /\ cp.term < stored[cp.map].term
WriterFenced == \A w \in Writers : writer[w].pc = "save" => Fenced(w)

\* SingleHost, of the maps and nodes that there are.
HostedOnce == \A m \in Maps : /\ {n \in Nodes : m \in DOMAIN hosts[n]} = {owners[m]}
                              /\ replicas[m] # owners[m]

\* The inductive invariant.
Safe == TodoOwned /\ HostedOnce /\ FencedStore /\ WriterFenced
IInv == Shape /\ Safe

-----------------------------------------------------------------------------
(* What the operators do. *)

\* A set of node numbers that is not empty has a least one.
LEMMA LeastOf ==
    ASSUME NEW S, S \subseteq Nat, S # {}
    PROVE  Least(S) \in S /\ \A y \in S : Least(S) <= y
<1>1. PICK x \in S : \A y \in S : ~(<<y, x>> \in OpToRel(<, Nat))
  BY NatLessThanWellFounded, WFMin
<1>2. \A y \in S : ~(y < x)
  BY <1>1 DEF OpToRel
<1>3. \A y \in S : x <= y
  BY <1>2
<1> QED BY <1>3 DEF Least

\* pickReplicaLocked finds a healthy node other than the one it is called for.
LEMMA PickOther ==
    ASSUME ClusterAssumption, NEW n
    PROVE  Pick(n) = None \/ (Pick(n) \in Nodes \ {n} /\ healthy[Pick(n)])
<1> DEFINE up == {k \in Nodes \ {n} : healthy[k]}
<1>1. up # {} => Least(up) \in up
  BY LeastOf DEF ClusterAssumption
<1> QED BY <1>1 DEF Pick

\* A map moves to a node other than the one that failed.
LEMMA SuccessorOther ==
    ASSUME ClusterAssumption, Shape, HostedOnce, NEW m \in Maps
    PROVE  LET k == Successor(owners[m], m) IN k = None \/ k \in Nodes \ {owners[m]}
BY PickOther DEF Successor, Shape, HostedOnce, NodeOrNone

LEMMA FollowingNode ==
    ASSUME ClusterAssumption, NEW n \in Nodes
    PROVE  Following(n) \in [pc : {"idle"}, node : Nodes]
<1> DEFINE more == {k \in Nodes : k > n}
<1>1. Least(IF more = {} THEN Nodes ELSE more) \in Nodes
  BY LeastOf DEF ClusterAssumption
<1> QED BY <1>1 DEF Following

LEMMA ReplicaStored ==
    ASSUME NEW copies, DOMAIN copies = Nodes, NEW n \in NodeOrNone, NEW cp
    PROVE  DOMAIN StoreReplica(copies, n, cp) = Nodes
BY DEF StoreReplica
-----------------------------------------------------------------------------
(* The initial state. *)

LEMMA InitShape ==
    ASSUME ClusterAssumption, Init
    PROVE  Shape
<1>1. Least(Nodes) \in Nodes
  BY LeastOf DEF ClusterAssumption
<1>2. owners \in [Maps -> Nodes] /\ replicas \in [Maps -> NodeOrNone] /\ term = 0
  BY DEF Init, ClusterAssumption, NodeOrNone
<1>3. \A w \in Writers : WriterShape(w)
  BY DEF Init, Waiting, WriterShape, Writing, NodeOrNone
<1>4. heart \in [pc : HeartSteps, node : Nodes] /\ admin \in [pc : AdminSteps, node : NodeOrNone]
      /\ admin.pc = "idle"
  BY <1>1 DEF Init, Quiet, HeartSteps, AdminSteps, NodeOrNone
<1>5. DOMAIN stored = {}
  BY DEF Init
<1> QED BY <1>2, <1>3, <1>4, <1>5 DEF Init, Shape

LEMMA InitIInv ==
    ASSUME ClusterAssumption, Init
    PROVE  IInv
<1>1. HostedOnce
  BY DEF Init, HostedOnce, ClusterAssumption
<1>2. TodoOwned
  BY DEF Init, TodoOwned, Free
<1>3. FencedStore
  BY DEF Init, FencedStore
<1>4. WriterFenced
  BY DEF Init, WriterFenced, Waiting
<1> QED BY InitShape, <1>1, <1>2, <1>3, <1>4 DEF IInv, Safe

-----------------------------------------------------------------------------
(* Checkpoints. *)

LEMMA AfterShape ==
    ASSUME NEW plans, plans \subseteq Plans
    PROVE  LET r == After(plans)
           IN  /\ r = [pc |-> r.pc, plans |-> r.plans, cp |-> r.cp, to |-> r.to]
               /\ r.pc \in {"idle", "take"} /\ r.plans \subseteq Plans /\ r.to \in NodeOrNone
               /\ r.pc = "take" => r.plans # {}
BY DEF After, Waiting, NodeOrNone

\* The plans of a round name the owners and replicas of the time.
LEMMA PlanShape ==
    ASSUME ClusterAssumption, Shape, Plan
    PROVE  /\ Shape'
           /\ \A w \in Writers : writer'[w].pc = "save" => writer'[w] = writer[w]
<1> DEFINE up == {m \in Maps : healthy[owners[m]]}
           plan(m) == [map |-> m, owner |-> owners[m],
                       to |-> IF replicas[m] # None /\ healthy[replicas[m]]
                              THEN replicas[m] ELSE None]
           plans == {plan(m) : m \in up}
<1>1. writer' = [writer EXCEPT !["loop"].pc = "take", !["loop"].plans = plans] /\ up # {}
  BY DEF Plan
<1>2. plans \subseteq Plans /\ plans # {}
  <2>1. \A m \in Maps : plan(m) \in Plans
    BY DEF Plans, Shape, NodeOrNone
  <2> QED BY <1>1, <2>1
<1>3. DOMAIN writer' = Writers /\ writer'["admin"] = writer["admin"]
      /\ writer'["loop"] = [pc |-> "take", plans |-> plans, cp |-> writer["loop"].cp,
                            to |-> writer["loop"].to]
  BY <1>1 DEF Shape, WriterShape, Writers
<1>4. UNCHANGED <<owners, replicas, term, hosts, snapshots, nodeTerm, stored, heart, admin, healthy>>
  BY DEF Plan, metadata, nodes, health
<1>5. \A w \in Writers : WriterShape(w)'
  BY <1>2, <1>3, <1>4 DEF Shape, WriterShape, Writing, Writers
<1> QED BY <1>3, <1>4, <1>5 DEF Shape, Writers
\* A step that leaves the metadata, the files, the writers and the failover
\* alone, and neither moves nor drops a map, keeps the invariant's safety part.
LEMMA SafeKept ==
    ASSUME Shape, Safe, UNCHANGED <<owners, replicas, stored>>,
           mu' = mu \/ mu' = NobodyHolds,
           \A n \in Nodes : DOMAIN hosts'[n] = DOMAIN hosts[n],
           \A w \in Writers : writer'[w].pc = "save" => writer[w].pc = "save" /\ writer'[w].cp = writer[w].cp
    PROVE  Safe'
<1>1. TodoOwned'
  BY DEF Safe, TodoOwned, Free
<1>2. HostedOnce'
  BY DEF Safe, HostedOnce
<1>3. FencedStore'
  BY DEF Safe, FencedStore
<1>4. WriterFenced'
  BY DEF Safe, WriterFenced, Fenced
<1> QED BY <1>1, <1>2, <1>3, <1>4 DEF Safe

\* A node hands out a checkpoint of a map while it hosts the map, and is then its
\* owner; an error leaves the other plans.
LEMMA TakeStep ==
    ASSUME ClusterAssumption, Shape, Safe, NEW w \in Writers, Take(w)
    PROVE  Shape' /\ Safe'
<1> DEFINE plans == writer[w].plans
           p == CHOOSE q \in plans : q.map = Least({r.map : r \in plans})
<1>1. WriterShape(w) /\ plans # {} /\ plans \subseteq Plans
  BY DEF Take, Shape, WriterShape
<1>2. p \in plans
  <2>1. {r.map : r \in plans} \subseteq Nat /\ {r.map : r \in plans} # {}
    <3>1. \A q \in plans : q.map \in Nat
      BY <1>1 DEF Plans, ClusterAssumption
    <3> QED BY <1>1, <3>1
  <2>2. \E q \in plans : q.map = Least({r.map : r \in plans})
    BY <2>1, LeastOf
  <2> QED BY <2>2
<1>3. p.map \in Maps /\ p.owner \in Nodes /\ p.to \in NodeOrNone
  BY <1>1, <1>2 DEF Plans
<1>4. UNCHANGED <<owners, replicas, term, mu, hosts, snapshots, nodeTerm, stored, heart, admin, healthy>>
  BY DEF Take, metadata, nodes, health
<1> HIDE DEF p
<1>5. DOMAIN writer' = Writers /\ \A v \in Writers \ {w} : writer'[v] = writer[v]
  BY DEF Take, Shape
<1>6. CASE p.map \in DOMAIN hosts[p.owner]
  <2>1. writer'[w] = [pc |-> "save", plans |-> plans \ {p}, cp |-> Checkpoint(p.owner, p.map),
                      to |-> p.to]
    BY <1>6 DEF Take, Shape, p
  <2>2. Checkpoint(p.owner, p.map).map = p.map /\ Checkpoint(p.owner, p.map).by = p.owner
        /\ Checkpoint(p.owner, p.map).term \in 0..term
    BY <1>3 DEF Checkpoint, Shape
  <2>3. WriterShape(w)'
    BY <1>1, <1>3, <1>4, <2>1, <2>2 DEF WriterShape, Writing
  <2>4. Shape'
    BY <1>4, <1>5, <2>3 DEF Shape, WriterShape, Writing
  <2>5. p.owner = owners[p.map]
    BY <1>3, <1>6 DEF Safe, HostedOnce
  <2>6. WriterFenced'
    BY <1>4, <1>5, <2>1, <2>2, <2>5 DEF Safe, WriterFenced, Fenced
  <2> QED BY <1>4, <2>4, <2>6 DEF Safe, TodoOwned, Free, HostedOnce, FencedStore
<1>7. CASE p.map \notin DOMAIN hosts[p.owner]
  <2>1. writer'[w] = After(plans \ {p})
    BY <1>7 DEF Take, Shape, p
  <2>2. WriterShape(w)' /\ writer'[w].pc # "save"
    BY <1>1, <2>1, AfterShape DEF WriterShape, Writing
  <2>3. Shape'
    BY <1>4, <1>5, <2>2 DEF Shape, WriterShape, Writing
  <2> QED BY <1>4, <1>5, <2>2, <2>3, SafeKept
<1> QED BY <1>6, <1>7

\* An older term is refused; what is not refused is the owner's.
LEMMA SaveStep ==
    ASSUME ClusterAssumption, Shape, Safe, NEW w \in Writers, Save(w)
    PROVE  Shape' /\ Safe'
<1> DEFINE cp == writer[w].cp
<1>1. WriterShape(w) /\ Fenced(w) /\ writer[w].pc = "save"
  BY DEF Save, Shape, Safe, WriterFenced
<1>2. cp.map \in Maps /\ cp.by \in Nodes /\ cp.term \in 0..term
  BY <1>1 DEF WriterShape, Writing
<1>3. /\ DOMAIN stored' = DOMAIN stored \cup {cp.map}
      /\ \A m \in DOMAIN stored \ {cp.map} : stored'[m] = stored[m]
      /\ stored'[cp.map] = IF cp.map \in DOMAIN stored /\ cp.term < stored[cp.map].term
                          THEN stored[cp.map] ELSE cp
  <2>1. stored' = SaveCheckpoint(stored, cp)
    BY DEF Save
  <2> HIDE DEF cp
  <2> QED BY <2>1 DEF SaveCheckpoint, Assign
<1>4. UNCHANGED <<owners, replicas, term, mu, hosts, snapshots, nodeTerm, heart, admin, healthy>>
  BY DEF Save, metadata, nodes, health
<1>5. DOMAIN writer' = Writers /\ (\A v \in Writers \ {w} : writer'[v] = writer[v])
      /\ writer'[w] = [pc |-> "copy", plans |-> writer[w].plans, cp |-> cp, to |-> writer[w].to]
  BY <1>1 DEF Save, Shape, WriterShape
<1>6. Shape'
  <2>1. WriterShape(w)'
    BY <1>1, <1>2, <1>4, <1>5 DEF WriterShape, Writing
  <2> QED BY <1>2, <1>3, <1>4, <1>5, <2>1 DEF Shape, WriterShape, Writing
<1>7. FencedStore'
  BY <1>1, <1>2, <1>3, <1>4 DEF Safe, FencedStore, Fenced
<1>8. WriterFenced'
  <2> SUFFICES ASSUME NEW v \in Writers, writer'[v].pc = "save" PROVE Fenced(v)'
    BY DEF WriterFenced
  <2>1. v # w /\ writer'[v] = writer[v] /\ Fenced(v)
    BY <1>5 DEF Safe, WriterFenced
  <2>2. writer[v].cp.map \in Maps /\ writer[v].cp.term \in Nat
    BY <2>1 DEF Shape, WriterShape, Writing
  <2>3. \A m \in DOMAIN stored : m \in DOMAIN stored' /\ stored[m].term <= stored'[m].term
                               /\ stored[m].term \in Nat /\ stored'[m].term \in Nat
    <3>1. \A m \in DOMAIN stored : stored[m].term \in Nat
      BY DEF Shape
    <3>2. \A m \in DOMAIN stored' : stored'[m].term \in Nat
      BY <1>6 DEF Shape
    <3> QED BY <1>2, <1>3, <3>1, <3>2
  <2> QED BY <1>4, <2>1, <2>2, <2>3 DEF Fenced
<1> QED BY <1>4, <1>6, <1>7, <1>8 DEF Safe, TodoOwned, Free, HostedOnce

LEMMA CopyStep ==
    ASSUME ClusterAssumption, Shape, Safe, NEW w \in Writers, Copy(w)
    PROVE  Shape' /\ Safe'
<1>1. WriterShape(w) /\ writer'[w] = After(writer[w].plans)
      /\ DOMAIN writer' = Writers /\ (\A v \in Writers \ {w} : writer'[v] = writer[v])
  BY DEF Copy, Shape
<1>2. UNCHANGED <<owners, replicas, term, mu, hosts, nodeTerm, stored, heart, admin, healthy>>
      /\ DOMAIN snapshots' = Nodes
  BY <1>1, ReplicaStored DEF Copy, metadata, health, Shape, WriterShape
<1>3. WriterShape(w)' /\ writer'[w].pc # "save"
  BY <1>1, AfterShape DEF WriterShape, Writing
<1>4. Shape'
  BY <1>1, <1>2, <1>3 DEF Shape, WriterShape, Writing
<1> QED BY <1>1, <1>2, <1>3, <1>4, SafeKept
-----------------------------------------------------------------------------
(* Failovers. *)

\* What handleNodeFailure does for a map when there is another node.
LEMMA FailoverMoves ==
    ASSUME ClusterAssumption, Shape, HostedOnce, NEW n \in Nodes, NEW m \in Maps, owners[m] = n,
           Failover(n, m), Successor(n, m) # None
    PROVE  LET k == Successor(n, m)
           IN  /\ k \in Nodes \ {n} /\ term' = term + 1
               /\ owners' = [owners EXCEPT ![m] = k]
               /\ \E r \in NodeOrNone \ {k} : replicas' = [replicas EXCEPT ![m] = r]
               /\ nodeTerm' = [nodeTerm EXCEPT ![k] = term + 1]
               /\ DOMAIN hosts' = Nodes /\ DOMAIN snapshots' = Nodes
               /\ DOMAIN hosts'[n] = DOMAIN hosts[n] \ {m}
               /\ DOMAIN hosts'[k] = DOMAIN hosts[k] \cup {m}
               /\ \A j \in Nodes \ {n, k} : DOMAIN hosts'[j] = DOMAIN hosts[j]
               /\ \E cp : /\ stored' = SaveCheckpoint(stored, cp)
                         /\ cp.map = m /\ cp.term = term + 1 /\ cp.by = k
<1> DEFINE k == Successor(n, m)
           r == Pick(k)
           cp == [map |-> m, world |-> Restored(k, m), term |-> term', by |-> k]
<1>1. k \in Nodes \ {n}
  BY SuccessorOther
<1>2. r \in NodeOrNone \ {k}
  BY <1>1, PickOther DEF NodeOrNone, ClusterAssumption
<1>3. /\ term' = term + 1
      /\ hosts' = [hosts EXCEPT ![k] = Assign(@, m, cp.world), ![n] = Restrict(@, DOMAIN @ \ {m})]
      /\ nodeTerm' = [nodeTerm EXCEPT ![k] = term']
      /\ owners' = [owners EXCEPT ![m] = k]
      /\ replicas' = [replicas EXCEPT ![m] = r]
      /\ stored' = SaveCheckpoint(stored, cp)
      /\ snapshots' = StoreReplica([snapshots EXCEPT ![k] = Restrict(@, DOMAIN @ \ {m})], r, cp)
  BY DEF Failover
<1>4. cp.map = m /\ cp.term = term + 1 /\ cp.by = k
  BY <1>3
<1> HIDE DEF k, r, cp
<1>5. DOMAIN snapshots' = Nodes
  <2> DEFINE copies == [snapshots EXCEPT ![k] = Restrict(@, DOMAIN @ \ {m})]
  <2>1. DOMAIN copies = Nodes
    BY DEF Shape
  <2> HIDE DEF copies
  <2>2. DOMAIN StoreReplica(copies, r, cp) = Nodes
    BY <1>2, <2>1, ReplicaStored
  <2> QED BY <1>3, <2>2 DEF copies
<1>6. /\ DOMAIN hosts' = Nodes
      /\ DOMAIN hosts'[n] = DOMAIN hosts[n] \ {m}
      /\ DOMAIN hosts'[k] = DOMAIN hosts[k] \cup {m}
      /\ \A j \in Nodes \ {n, k} : DOMAIN hosts'[j] = DOMAIN hosts[j]
  BY <1>1, <1>3 DEF Shape, Assign, Restrict
<1>7. \E c : stored' = SaveCheckpoint(stored, c) /\ c.map = m /\ c.term = term + 1 /\ c.by = k
  BY <1>3, <1>4
<1> QED BY <1>1, <1>2, <1>3, <1>5, <1>6, <1>7 DEF k

\* Only the numbers of terms grow.
LEMMA ShapeLater ==
    ASSUME Shape, term' = term + 1,
           UNCHANGED <<writer, heart, admin, healthy>>,
           owners' \in [Maps -> Nodes], replicas' \in [Maps -> NodeOrNone],
           DOMAIN hosts' = Nodes, \A n \in Nodes : DOMAIN hosts'[n] \subseteq Maps,
           DOMAIN snapshots' = Nodes,
           nodeTerm' \in [Nodes -> 0..term'],
           DOMAIN stored' \subseteq Maps, \A m \in DOMAIN stored' : stored'[m].term \in 0..term'
    PROVE  Shape'
<1>1. \A i \in 0..term : i \in 0..term'
  BY DEF Shape
<1>2. \A w \in Writers : WriterShape(w)'
  BY <1>1 DEF Shape, WriterShape, Writing
<1> QED BY <1>2 DEF Shape

LEMMA FailoverNextStep ==
    ASSUME ClusterAssumption, Shape, Safe, FailoverNext
    PROVE  Shape' /\ Safe'
<1> DEFINE m == Least(mu.todo)
           n == mu.node
           k == Successor(n, m)
<1>1. mu \in [by : {"heart", "admin"}, node : Nodes, todo : SUBSET Maps] /\ mu.todo # {}
  BY DEF FailoverNext, Safe, TodoOwned
<1>2. m \in mu.todo
  BY <1>1, LeastOf DEF ClusterAssumption
<1>3. m \in Maps /\ n \in Nodes /\ owners[m] = n
  BY <1>1, <1>2 DEF FailoverNext, Safe, TodoOwned
<1>4. /\ Failover(n, m) /\ mu' = [mu EXCEPT !.todo = @ \ {m}]
      /\ UNCHANGED <<healthy, writer, heart, admin>>
  BY DEF FailoverNext, health
<1> HIDE DEF m, n
<1>5. CASE k = None
  <2>1. term' = term + 1 /\ UNCHANGED <<owners, replicas, hosts, snapshots, nodeTerm, stored>>
    BY <1>4, <1>5 DEF Failover, nodes
  <2>2. Shape'
    <3>1. \A i \in 0..term : i \in 0..term'
      BY <2>1 DEF Shape
    <3>2. nodeTerm' \in [Nodes -> 0..term'] /\ \A j \in DOMAIN stored' : stored'[j].term \in 0..term'
      BY <2>1, <3>1 DEF Shape
    <3> QED BY <1>4, <2>1, <3>2, ShapeLater DEF Shape
  <2>3. TodoOwned'
    BY <1>1, <1>4, <2>1 DEF Safe, TodoOwned, FailoverNext
  <2> QED BY <1>4, <2>1, <2>2, <2>3 DEF Safe, HostedOnce, FencedStore, WriterFenced, Fenced
<1>6. CASE k # None
  <2>1. /\ k \in Nodes \ {n} /\ term' = term + 1
        /\ owners' = [owners EXCEPT ![m] = k]
        /\ \E r \in NodeOrNone \ {k} : replicas' = [replicas EXCEPT ![m] = r]
        /\ nodeTerm' = [nodeTerm EXCEPT ![k] = term + 1]
        /\ DOMAIN hosts' = Nodes /\ DOMAIN snapshots' = Nodes
        /\ DOMAIN hosts'[n] = DOMAIN hosts[n] \ {m}
        /\ DOMAIN hosts'[k] = DOMAIN hosts[k] \cup {m}
        /\ \A j \in Nodes \ {n, k} : DOMAIN hosts'[j] = DOMAIN hosts[j]
        /\ \E cp : /\ stored' = SaveCheckpoint(stored, cp)
                  /\ cp.map = m /\ cp.term = term + 1 /\ cp.by = k
    BY <1>3, <1>4, <1>6, FailoverMoves DEF Safe
  <2> HIDE DEF k
  <2>2. PICK cp : /\ stored' = SaveCheckpoint(stored, cp)
                  /\ cp.map = m /\ cp.term = term + 1 /\ cp.by = k
    BY <2>1
  <2>3. /\ DOMAIN stored' = DOMAIN stored \cup {m} /\ stored'[m] = cp
        /\ \A j \in DOMAIN stored \ {m} : stored'[j] = stored[j]
    <3>1. m \in DOMAIN stored => ~(cp.term < stored[m].term)
      BY <2>2 DEF Shape
    <3>2. /\ DOMAIN stored' = DOMAIN stored \cup {cp.map}
          /\ \A j \in DOMAIN stored \ {cp.map} : stored'[j] = stored[j]
          /\ stored'[cp.map] = IF cp.map \in DOMAIN stored /\ cp.term < stored[cp.map].term
                              THEN stored[cp.map] ELSE cp
      BY <2>2 DEF SaveCheckpoint, Assign
    <3> QED BY <2>2, <3>1, <3>2
  <2>4. Shape'
    <3>1. owners' \in [Maps -> Nodes] /\ replicas' \in [Maps -> NodeOrNone]
      <4>1. owners \in [Maps -> Nodes] /\ replicas \in [Maps -> NodeOrNone]
        BY DEF Shape
      <4> QED BY <2>1, <4>1
    <3>2. nodeTerm' \in [Nodes -> 0..term'] /\ \A j \in DOMAIN stored' : stored'[j].term \in 0..term'
      BY <2>1, <2>2, <2>3 DEF Shape
    <3>3. \A j \in Nodes : DOMAIN hosts'[j] \subseteq Maps
      BY <1>3, <2>1 DEF Shape
    <3> QED BY <1>3, <1>4, <2>1, <2>3, <3>1, <3>2, <3>3, ShapeLater DEF Shape
  <2>5. \A j \in Maps \ {m} : owners'[j] = owners[j] /\ replicas'[j] = replicas[j]
    BY <2>1 DEF Shape
  <2>6. owners'[m] = k /\ replicas'[m] # k
    BY <1>3, <2>1 DEF Shape
  <2>7. HostedOnce'
    <3> SUFFICES ASSUME NEW j \in Maps
                 PROVE  /\ {i \in Nodes : j \in DOMAIN hosts'[i]} = {owners'[j]}
                        /\ replicas'[j] # owners'[j]
      BY DEF HostedOnce
    <3>1. {i \in Nodes : j \in DOMAIN hosts[i]} = {owners[j]} /\ replicas[j] # owners[j]
      BY DEF Safe, HostedOnce
    <3>2. CASE j = m
      BY <1>3, <2>1, <2>6, <3>1, <3>2
    <3>3. CASE j # m
      <4>1. \A i \in Nodes : j \in DOMAIN hosts'[i] <=> j \in DOMAIN hosts[i]
        BY <2>1, <3>3
      <4> QED BY <2>5, <3>1, <3>3, <4>1
    <3> QED BY <3>2, <3>3
  <2>8. FencedStore'
    BY <2>2, <2>3, <2>5, <2>6 DEF Safe, FencedStore, Shape
  <2>9. WriterFenced'
    <3> SUFFICES ASSUME NEW w \in Writers, writer[w].pc = "save" PROVE Fenced(w)'
      BY <1>4 DEF WriterFenced
    <3>1. writer[w].cp.map \in Maps /\ writer[w].cp.term \in 0..term /\ Fenced(w)
      BY DEF Shape, WriterShape, Writing, Safe, WriterFenced
    <3>2. term \in Nat
      BY DEF Shape
    <3> QED BY <1>4, <2>2, <2>3, <2>5, <3>1, <3>2 DEF Fenced
  <2>10. TodoOwned'
    BY <1>1, <1>4, <2>5 DEF Safe, TodoOwned, FailoverNext
  <2> QED BY <2>4, <2>7, <2>8, <2>9, <2>10 DEF Safe
<1> QED BY <1>5, <1>6
LEMMA EndStep ==
    ASSUME ClusterAssumption, Shape, Safe, End
    PROVE  Shape' /\ Safe'
<1>1. UNCHANGED <<owners, replicas, term, hosts, snapshots, nodeTerm, stored, writer, healthy>>
      /\ mu' = NobodyHolds
  BY DEF End, metadata, nodes, health
<1>2. heart' \in [pc : HeartSteps, node : Nodes]
  BY FollowingNode DEF End, Shape, HeartSteps
<1>3. admin' \in [pc : AdminSteps, node : NodeOrNone] /\ (admin'.pc # "idle" => admin'.node \in Nodes)
  BY DEF End, Shape, Quiet, AdminSteps, NodeOrNone
<1>4. \A w \in Writers : WriterShape(w)'
  BY <1>1 DEF Shape, WriterShape, Writing
<1>5. Shape'
  BY <1>1, <1>2, <1>3, <1>4 DEF Shape
<1> QED BY <1>1, <1>5, SafeKept

\* The failover of a node begins with the maps that it owns.
LEMMA BeginSafe ==
    ASSUME Shape, Safe, NEW who \in {"heart", "admin"}, NEW n \in Nodes, Begin(who, n),
           writer' = writer
    PROVE  Safe'
<1>1. mu' = [by |-> who, node |-> n, todo |-> {m \in Maps : owners[m] = n}]
      /\ UNCHANGED <<owners, replicas, hosts, stored>>
  BY DEF Begin, metadata, nodes
<1>2. TodoOwned'
  BY <1>1 DEF TodoOwned
<1> QED BY <1>1, <1>2 DEF Safe, HostedOnce, FencedStore, WriterFenced, Fenced

-----------------------------------------------------------------------------
(* Heartbeats and the administrator's commands. *)

\* Shape, as far as these steps may change it.
LEMMA ShapeOfHealth ==
    ASSUME Shape, UNCHANGED <<metadata, nodes, stored, writer>>,
           heart' \in [pc : HeartSteps, node : Nodes], admin' \in [pc : AdminSteps, node : NodeOrNone],
           admin'.pc # "idle" => admin'.node \in Nodes, healthy' \in [Nodes -> BOOLEAN]
    PROVE  Shape'
<1>1. UNCHANGED <<owners, replicas, term, hosts, snapshots, nodeTerm>>
  BY DEF metadata, nodes
<1>2. \A w \in Writers : WriterShape(w)'
  BY <1>1 DEF Shape, WriterShape, Writing
<1> QED BY <1>1, <1>2 DEF Shape

LEMMA HeartStep ==
    ASSUME ClusterAssumption, Shape, Safe, Heartbeats
    PROVE  Shape' /\ Safe'
<1>1. UNCHANGED <<metadata, nodes, stored, writer, admin>>
  BY DEF Heartbeats, Ping, Heard, HeartHandles, Begin
<1>2. heart' \in [pc : HeartSteps, node : Nodes] /\ healthy' \in [Nodes -> BOOLEAN]
  <2>1. CASE Ping
    BY <2>1 DEF Ping, Shape, HeartSteps
  <2>2. CASE Heard
    <3>1. healthy' \in [Nodes -> BOOLEAN]
      BY <2>2 DEF Heard, Shape
    <3> QED BY <2>2, <3>1, FollowingNode DEF Heard, Shape, HeartSteps
  <2>3. CASE HeartHandles
    BY <2>3 DEF HeartHandles, Shape, HeartSteps, health
  <2> QED BY <2>1, <2>2, <2>3 DEF Heartbeats
<1>3. Shape'
  BY <1>1, <1>2, ShapeOfHealth DEF Shape
<1>4. CASE HeartHandles
  BY <1>1, <1>3, <1>4, BeginSafe DEF HeartHandles, Shape
<1>5. CASE Ping \/ Heard
  <2>1. UNCHANGED <<owners, replicas, stored, mu, hosts, writer>>
    BY <1>1, <1>5 DEF Ping, Heard, metadata, nodes
  <2> QED BY <1>3, <2>1, SafeKept
<1> QED BY <1>3, <1>4, <1>5 DEF Heartbeats

LEMMA AdminStep ==
    ASSUME ClusterAssumption, Shape, Safe,
           Stop \/ Down \/ AdminHandles \/ Up \/ \E n \in Nodes : Recover(n)
    PROVE  Shape' /\ Safe'
<1>1. UNCHANGED <<metadata, nodes, stored, writer, heart>>
  BY DEF Stop, Down, AdminHandles, Up, Recover, Begin
<1>2. admin' \in [pc : AdminSteps, node : NodeOrNone] /\ admin'.node \in Nodes
  BY DEF Stop, Down, AdminHandles, Up, Recover, Shape, AdminSteps, NodeOrNone
<1>3. healthy' \in [Nodes -> BOOLEAN]
  BY DEF Stop, Down, AdminHandles, Up, Recover, Shape, health
<1>4. Shape'
  BY <1>1, <1>2, <1>3, ShapeOfHealth DEF Shape
<1>5. CASE AdminHandles
  BY <1>1, <1>4, <1>5, BeginSafe DEF AdminHandles, Shape
<1>6. CASE Stop \/ Down \/ Up \/ \E n \in Nodes : Recover(n)
  <2>1. UNCHANGED <<owners, replicas, stored, mu, hosts, writer>>
    BY <1>1, <1>6 DEF Stop, Down, Up, Recover, metadata, nodes
  <2> QED BY <1>4, <2>1, SafeKept
<1> QED BY <1>4, <1>5, <1>6

\* failNode plans a checkpoint of every map of the node.
LEMMA FailStep ==
    ASSUME ClusterAssumption, Shape, Safe, NEW n \in Nodes, Fail(n)
    PROVE  Shape' /\ Safe'
<1> DEFINE plans == {[map |-> m, owner |-> n, to |-> replicas[m]] : m \in DOMAIN hosts[n]}
<1>1. UNCHANGED <<owners, replicas, term, mu, hosts, snapshots, nodeTerm, stored, heart, healthy>>
      /\ admin' = [pc |-> "stop", node |-> n]
      /\ writer' = [writer EXCEPT !["admin"] = After(plans)]
  BY DEF Fail, metadata, nodes, health
<1>2. plans \subseteq Plans
  BY DEF Shape, Plans
<1>3. DOMAIN writer' = Writers /\ writer'["admin"] = After(plans) /\ writer'["loop"] = writer["loop"]
  BY <1>1 DEF Shape, Writers
<1> HIDE DEF plans
<1>4. WriterShape("admin")' /\ writer'["admin"].pc # "save"
  BY <1>2, <1>3, AfterShape DEF WriterShape, Writing
<1>5. Shape'
  BY <1>1, <1>3, <1>4 DEF Shape, WriterShape, Writing, Writers, AdminSteps, NodeOrNone
<1> QED BY <1>1, <1>3, <1>4, <1>5, SafeKept DEF Writers

\* A recovered node is never made the replica of its own map.
LEMMA ReloadStep ==
    ASSUME ClusterAssumption, Shape, Safe, Reload
    PROVE  Shape' /\ Safe'
<1>1. /\ admin.pc = "reload" /\ admin' = Quiet /\ admin.node \in Nodes
      /\ replicas' = [m \in Maps |-> IF owners[m] # admin.node THEN admin.node ELSE replicas[m]]
      /\ DOMAIN snapshots' = DOMAIN snapshots
      /\ UNCHANGED <<owners, term, mu, hosts, nodeTerm, stored, writer, heart, healthy>>
  BY DEF Reload, Shape, health
<1>2. \A w \in Writers : WriterShape(w)'
  BY <1>1 DEF Shape, WriterShape, Writing
<1>3. Shape'
  BY <1>1, <1>2 DEF Shape, Quiet, AdminSteps, NodeOrNone
<1>4. HostedOnce'
  BY <1>1 DEF Safe, HostedOnce
<1> QED BY <1>1, <1>3, <1>4 DEF Safe, TodoOwned, Free, FencedStore, WriterFenced, Fenced
-----------------------------------------------------------------------------
(* What players do. *)

\* A world changes, but no node gets or loses one.
WorldStep == /\ UNCHANGED <<owners, replicas, term, mu, snapshots, nodeTerm, healthy, stored,
                            writer, heart, admin>>
             /\ DOMAIN hosts' = DOMAIN hosts
             /\ \A n \in DOMAIN hosts : DOMAIN hosts'[n] = DOMAIN hosts[n]

LEMMA WorldStepSafe ==
    ASSUME Shape, Safe, WorldStep
    PROVE  Shape' /\ Safe'
<1>1. \A w \in Writers : WriterShape(w)'
  BY DEF Shape, WriterShape, Writing, WorldStep
<1>2. Shape'
  BY <1>1 DEF Shape, WorldStep
<1> QED BY <1>2, SafeKept DEF Shape, WorldStep

LEMMA WorkWorld ==
    ASSUME NEW n \in Nodes, NEW m \in Maps, Work(n, m)
    PROVE  WorldStep
BY DEF Work, WorldStep, metadata, health

\* The steps of a connection, of a logout, of flushLoop and of those that save.
Sessions == \/ \E c \in Conns : Serve(c)
            \/ \E u \in Users : Flush(u)
            \/ \E s \in Savers : PersistLook(s) \/ PersistRead(s) \/ PersistWrite(s)
            \/ Rescue

LEMMA PlayersWorld ==
    ASSUME NEW n, NEW m, NEW u, NEW p, AddPlayer(n, m, u, p) \/ RemovePlayer(n, m, u), AfterHosts
    PROVE  WorldStep
BY DEF AddPlayer, RemovePlayer, AfterHosts, WorldStep, health

LEMMA ServeWorld ==
    ASSUME NEW c \in Conns, Serve(c)
    PROVE  UNCHANGED cluster \/ WorldStep
<1>1. CASE LoginAdd(c) \/ SwitchRemove(c) \/ SwitchArrive(c) \/ LogoutRemove(c)
  BY <1>1, PlayersWorld DEF LoginAdd, SwitchRemove, SwitchArrive, LogoutRemove
<1>2. CASE Act(c)
  BY <1>2 DEF Act, AfterHosts, WorldStep, health
<1>3. CASE ~(LoginAdd(c) \/ SwitchRemove(c) \/ SwitchArrive(c) \/ LogoutRemove(c) \/ Act(c))
  BY <1>3 DEF Serve, Authenticate, LoginCheck, LoginEnter, Return, Command, SaveActed, SwitchMap,
              SwitchLook, SwitchUpdate, SwitchStore, Logout, LogoutSave, Close
<1> QED BY <1>1, <1>2, <1>3

LEMMA SessionsSafe ==
    ASSUME Shape, Safe, Sessions
    PROVE  Shape' /\ Safe'
<1>1. UNCHANGED cluster \/ WorldStep
  BY ServeWorld DEF Sessions, Flush, PersistLook, PersistRead, PersistWrite, Rescue
<1>2. UNCHANGED cluster => WorldStep
  BY DEF cluster, WorldStep
<1> QED BY <1>1, <1>2, WorldStepSafe

-----------------------------------------------------------------------------
(* The theorems. *)

LEMMA ClusterStep ==
    ASSUME ClusterAssumption, IInv,
           \/ Checkpoints \/ Failovers \/ Heartbeats \/ CommandGoesOn
           \/ \E n \in Nodes : Fail(n) \/ Recover(n)
    PROVE  IInv'
<1>1. CASE Plan
  <2>1. Shape' /\ \A w \in Writers : writer'[w].pc = "save" => writer'[w] = writer[w]
    BY <1>1, PlanShape DEF IInv
  <2>2. UNCHANGED <<owners, replicas, stored, mu, hosts>>
    BY <1>1 DEF Plan, metadata, nodes
  <2> QED BY <2>1, <2>2, SafeKept DEF IInv
<1>2. CASE \E w \in Writers : Take(w) \/ Save(w) \/ Copy(w)
  BY <1>2, TakeStep, SaveStep, CopyStep DEF IInv
<1>3. CASE Failovers
  BY <1>3, FailoverNextStep, EndStep DEF IInv, Failovers
<1>4. CASE Heartbeats
  BY <1>4, HeartStep DEF IInv
<1>5. CASE CommandGoesOn
  BY <1>5, AdminStep, ReloadStep DEF IInv, CommandGoesOn
<1>6. CASE \E n \in Nodes : Fail(n) \/ Recover(n)
  BY <1>6, AdminStep, FailStep DEF IInv
<1> QED BY <1>1, <1>2, <1>3, <1>4, <1>5, <1>6 DEF Checkpoints

LEMMA Invariance ==
    ASSUME ClusterAssumption
    PROVE  Spec => []IInv
<1>1. Init => IInv
  BY InitIInv
<1>2. IInv /\ [Next]_vars => IInv'
  <2> SUFFICES ASSUME IInv, [Next]_vars PROVE IInv'
    OBVIOUS
  <2>1. CASE UNCHANGED vars
    BY <2>1, WorldStepSafe DEF vars, metadata, nodes, health, WorldStep, IInv
  <2>2. CASE Next
    BY <2>2, ClusterStep, WorkWorld, WorldStepSafe DEF Next, IInv
  <2> QED BY <2>1, <2>2
<1> QED BY <1>1, <1>2, PTL DEF Spec

LEMMA SessionsInvariance ==
    ASSUME ClusterAssumption
    PROVE  CSpec => []IInv
<1>1. CInit => IInv
  BY InitIInv DEF CInit
<1>2. IInv /\ [CNext]_cvars => IInv'
  <2> SUFFICES ASSUME IInv, [CNext]_cvars PROVE IInv'
    OBVIOUS
  <2>1. CASE UNCHANGED cvars
    BY <2>1, WorldStepSafe DEF cvars, cluster, WorldStep, IInv
  <2>2. CASE Sessions
    BY <2>2, SessionsSafe DEF IInv
  <2>3. CASE FailoverStep
    BY <2>3, FailoverNextStep DEF FailoverStep, IInv
  <2>4. CASE Operate
    BY <2>4, ClusterStep
       DEF Operate, Checkpoints, Failovers, Heartbeats, CommandGoesOn
  <2> QED BY <2>1, <2>2, <2>3, <2>4 DEF CNext, Sessions
<1> QED BY <1>1, <1>2, PTL DEF CSpec

\* handleNodeFailure moves a map under c.mu while heartbeats, commands and
\* checkpoints go on without it: the owner is the one node that hosts a map, and
\* the replica another, whatever fails, recovers or is taken for dead.
THEOREM OneHost ==
    ASSUME ClusterAssumption
    PROVE  Spec => []SingleHost
<1>1. IInv => SingleHost
  BY DEF IInv, Safe, Shape, HostedOnce, SingleHost
<1> QED BY <1>1, Invariance, PTL

\* SaveCheckpoint compares terms, and a failover writes the file under a term
\* above all that were given: a checkpoint taken from a former owner and saved
\* late never replaces the owner's.
THEOREM FileFollowsOwner ==
    ASSUME ClusterAssumption
    PROVE  Spec => []FencedStore
<1>1. IInv => FencedStore
  BY DEF IInv, Safe
<1> QED BY <1>1, Invariance, PTL

\* Both hold while players log in, act, switch maps and leave: none of that
\* gives a node a map, or takes one away.
THEOREM SessionsKeepHosts ==
    ASSUME ClusterAssumption
    PROVE  CSpec => [](SingleHost /\ FencedStore)
<1>1. IInv => SingleHost /\ FencedStore
  BY DEF IInv, Safe, Shape, HostedOnce, SingleHost
<1> QED BY <1>1, SessionsInvariance, PTL
-----------------------------------------------------------------------------
(* Where the players are, until a node is first failed, recovered or taken   *)
(* for dead.                                                                 *)

Untouched == commands = 0 /\ lost = 0
Counted == commands \in Nat /\ lost \in Nat

\* Nobody fails over then.
AllUp == /\ Free /\ admin.pc = "idle" /\ heart.pc \in {"idle", "alive"}
         /\ (\A n \in Nodes : listening[n] = TRUE) /\ rescue = {}

\* The places of each player, and the one that the owner of a map gives it.
places == [u \in Users |-> {x \in Nodes \X Maps : Stands(x[1], x[2], u)}]
Place(m) == {<<owners[m], m>>}

ConnSteps == {"out", "check", "add", "enter", "persist", "in", "act", "save", "look", "remove",
              "arrive", "update", "store"}
ConnRecord(c) ==
  /\ conn[c] = [pc |-> conn[c].pc, user |-> conn[c].user, map |-> conn[c].map,
                node |-> conn[c].node, to |-> conn[c].to, toNode |-> conn[c].toNode,
                profile |-> conn[c].profile]
  /\ conn[c].pc \in ConnSteps
  /\ conn[c].pc \in {"check", "save"} => conn[c].profile.map \in Maps
LogoutRecord(c) ==
  /\ logout[c] = [pc |-> logout[c].pc, map |-> logout[c].map, node |-> logout[c].node,
                  profile |-> logout[c].profile]
  /\ logout[c].pc \in {"no", "remove", "save", "done"}
  /\ logout[c].pc = "save" => logout[c].profile.map \in Maps
SaverRecord(s) ==
  /\ saver[s] = [pc |-> saver[s].pc, user |-> saver[s].user, map |-> saver[s].map,
                 node |-> saver[s].node, profile |-> saver[s].profile]
  /\ saver[s].pc \in {"idle", "look", "read", "write"}
  /\ saver[s].pc # "idle" => saver[s].user \in Users
  /\ saver[s].pc = "read" => saver[s].map \in Maps
  /\ saver[s].pc = "write" => saver[s].profile.map \in Maps

\* Whoever logs in, leaves or is saved is sent to a map that there is.
Records == /\ DOMAIN conn = Conns /\ (\A c \in Conns : ConnRecord(c))
           /\ DOMAIN logout = Conns /\ (\A c \in Conns : LogoutRecord(c))
           /\ DOMAIN saver = Savers /\ (\A s \in Savers : SaverRecord(s))
           /\ DOMAIN profile = Users /\ (\A u \in Users : profile[u].map \in Maps)

\* A session names the owner of its map.
SessionsOwned == /\ DOMAIN sessions \subseteq Users
                 /\ \A u \in DOMAIN sessions : /\ sessions[u].map \in Maps
                                               /\ sessions[u].node = owners[sessions[u].map]

\* A player has one connection, or no session and no place.
OneConn == \A c, d \in Conns : conn[c].user \in Users /\ conn[c].user = conn[d].user => c = d
Away(u) == places[u] = {} /\ u \notin DOMAIN sessions
Visiting(u) == places[u] = Place(sessions[u].map) /\ u \in DOMAIN sessions
GoneAway == \A u \in Users : (\A c \in Conns : conn[c].user # u) => Away(u)

\* What the step of a connection says of its player.
Whereabouts(c) ==
  LET k == conn[c] u == k.user l == logout[c]
  IN  /\ k.pc = "out" => u = None
      /\ k.pc # "out" => u \in Users
      /\ k.pc # "in" => l.pc = "no"
      /\ k.pc \in {"check", "add"} => Away(u)
      /\ k.pc \in {"add", "enter"} => k.map \in Maps /\ k.node = owners[k.map]
      /\ k.pc = "enter" => places[u] = Place(k.map) /\ u \notin DOMAIN sessions
      /\ k.pc \in {"persist", "act", "save", "look", "remove"} => Visiting(u)
      /\ k.pc \in {"act", "look", "remove"} => k.map = sessions[u].map /\ k.node = sessions[u].node
      /\ k.pc \in {"look", "remove", "arrive", "update", "store"} =>
           k.to \in Maps /\ k.toNode = owners[k.to]
      /\ k.pc = "arrive" => places[u] = {} /\ u \in DOMAIN sessions
      /\ k.pc \in {"update", "store"} => places[u] = Place(k.to) /\ u \in DOMAIN sessions
      /\ k.pc = "store" => sessions[u].map = k.to
      /\ k.pc = "in" /\ l.pc = "no" => Visiting(u)
      /\ l.pc = "remove" => /\ l.map \in Maps /\ l.node = owners[l.map]
                            /\ places[u] = Place(l.map) /\ u \notin DOMAIN sessions
      /\ l.pc \in {"save", "done"} => Away(u)

Tidy == /\ Records /\ SessionsOwned /\ OneConn /\ GoneAway
        /\ \A c \in Conns : Whereabouts(c)
Located == Counted /\ (Untouched => AllUp /\ Tidy)

-----------------------------------------------------------------------------
(* What adding, removing and serving a player does to the places. *)

LEMMA PlacesFunction ==
    /\ places = [u \in Users |-> places[u]]
    /\ places' = [u \in Users |-> places'[u]]
BY DEF places

LEMMA SameAt ==
    ASSUME UNCHANGED hosts
    PROVE  places' = places
BY DEF places, Stands

LEMMA AddAt ==
    ASSUME Shape, HostedOnce, NEW m \in Maps, NEW u \in Users, NEW p, AddPlayer(owners[m], m, u, p)
    PROVE  places' = [places EXCEPT ![u] = @ \cup Place(m)]
<1>1. PICK n \in Nodes : n = owners[m]
  BY DEF Shape
<1>2. m \in DOMAIN hosts[n] /\ DOMAIN hosts = Nodes
  BY <1>1 DEF Shape, HostedOnce
<1>3. hosts' = [hosts EXCEPT ![n][m] = Assign(@, u, p)]
  BY <1>1, <1>2 DEF AddPlayer
<1>4. DOMAIN Assign(hosts[n][m], u, p) = DOMAIN hosts[n][m] \cup {u}
  BY DEF Assign
<1>5. /\ \A k \in Nodes : DOMAIN hosts'[k] = DOMAIN hosts[k]
      /\ \A k \in Nodes : \A l \in DOMAIN hosts[k] :
           DOMAIN hosts'[k][l] = IF k = n /\ l = m THEN DOMAIN hosts[k][l] \cup {u}
                                 ELSE DOMAIN hosts[k][l]
  <2> DEFINE w == Assign(hosts[n][m], u, p)
  <2>1. hosts' = [hosts EXCEPT ![n][m] = w]
    BY <1>3
  <2> HIDE DEF w
  <2> QED BY <1>2, <1>4, <2>1 DEF w
<1>6. ASSUME NEW v \in Users, NEW x \in Nodes \X Maps
      PROVE  x \in places'[v] <=> x \in places[v] \/ (v = u /\ x = <<n, m>>)
  <2>1. PICK k \in Nodes, l \in Maps : x = <<k, l>>
    OBVIOUS
  <2>2. x \in places'[v] <=> l \in DOMAIN hosts'[k] /\ v \in DOMAIN hosts'[k][l]
    BY <2>1 DEF places, Stands
  <2>3. x \in places[v] <=> l \in DOMAIN hosts[k] /\ v \in DOMAIN hosts[k][l]
    BY <2>1 DEF places, Stands
  <2>4. x = <<n, m>> <=> k = n /\ l = m
    BY <2>1
  <2>5. CASE l \notin DOMAIN hosts[k]
    BY <1>2, <1>5, <2>2, <2>3, <2>4, <2>5
  <2>6. CASE l \in DOMAIN hosts[k]
    BY <1>5, <2>2, <2>3, <2>4, <2>6
  <2> QED BY <2>5, <2>6
<1>7. \A v \in Users : places'[v] = IF v = u THEN places[v] \cup {<<n, m>>} ELSE places[v]
  <2>1. \A v \in Users : places[v] \subseteq Nodes \X Maps /\ places'[v] \subseteq Nodes \X Maps
    BY DEF places
  <2> QED BY <1>6, <2>1
<1> QED BY <1>1, <1>7, PlacesFunction DEF Place

LEMMA RemoveAt ==
    ASSUME Shape, NEW n \in Nodes, NEW m \in Maps, NEW u \in Users, RemovePlayer(n, m, u)
    PROVE  places' = [places EXCEPT ![u] = @ \ {<<n, m>>}]
<1>1. CASE ~Stands(n, m, u)
  <2>1. places' = places
    BY <1>1 DEF RemovePlayer, places, Stands
  <2>2. <<n, m>> \notin places[u]
    BY <1>1 DEF places
  <2> QED BY <2>1, <2>2, PlacesFunction
<1>2. CASE Stands(n, m, u)
  <2> DEFINE w == Restrict(hosts[n][m], DOMAIN hosts[n][m] \ {u})
  <2>1. hosts' = [hosts EXCEPT ![n][m] = w] /\ DOMAIN w = DOMAIN hosts[n][m] \ {u}
    BY <1>2 DEF RemovePlayer, Restrict
  <2>2. DOMAIN hosts = Nodes /\ m \in DOMAIN hosts[n]
    BY <1>2 DEF Shape, Stands
  <2> HIDE DEF w
  <2>3. /\ \A k \in Nodes : DOMAIN hosts'[k] = DOMAIN hosts[k]
        /\ \A k \in Nodes : \A l \in DOMAIN hosts[k] :
             DOMAIN hosts'[k][l] = IF k = n /\ l = m THEN DOMAIN hosts[k][l] \ {u}
                                   ELSE DOMAIN hosts[k][l]
    BY <2>1, <2>2
  <2>4. ASSUME NEW v \in Users, NEW x \in Nodes \X Maps
        PROVE  x \in places'[v] <=> x \in places[v] /\ ~(v = u /\ x = <<n, m>>)
    <3>1. PICK k \in Nodes, l \in Maps : x = <<k, l>>
      OBVIOUS
    <3>2. x \in places'[v] <=> l \in DOMAIN hosts'[k] /\ v \in DOMAIN hosts'[k][l]
      BY <3>1 DEF places, Stands
    <3>3. x \in places[v] <=> l \in DOMAIN hosts[k] /\ v \in DOMAIN hosts[k][l]
      BY <3>1 DEF places, Stands
    <3> QED BY <2>2, <2>3, <3>1, <3>2, <3>3
  <2>5. \A v \in Users : places'[v] = IF v = u THEN places[v] \ {<<n, m>>} ELSE places[v]
    <3>1. \A v \in Users : places[v] \subseteq Nodes \X Maps /\ places'[v] \subseteq Nodes \X Maps
      BY DEF places
    <3> QED BY <2>4, <3>1
  <2> QED BY <2>5, PlacesFunction
<1> QED BY <1>1, <1>2

LEMMA ActAt ==
    ASSUME Shape, NEW c \in Conns, Act(c)
    PROVE  places' = places
<1>1. hosts' = hosts \/ hosts' = [hosts EXCEPT ![conn[c].node][conn[c].map][conn[c].user] = @ + 1]
  BY DEF Act
<1>2. DOMAIN hosts' = DOMAIN hosts /\ \A k \in DOMAIN hosts :
        DOMAIN hosts'[k] = DOMAIN hosts[k] /\ \A l \in DOMAIN hosts[k] :
          DOMAIN hosts'[k][l] = DOMAIN hosts[k][l]
  BY <1>1
<1>3. \A k \in Nodes, l \in Maps : \A v : Stands(k, l, v)' <=> Stands(k, l, v)
  BY <1>2 DEF Stands, Shape
<1> QED BY <1>3 DEF places

-----------------------------------------------------------------------------
(* A step of one connection, and the players of the others. *)

KeepsOthers(u) ==
  /\ UNCHANGED owners
  /\ \A v \in Users \ {u} : /\ places'[v] = places[v]
                            /\ v \in DOMAIN sessions' <=> v \in DOMAIN sessions
                            /\ v \in DOMAIN sessions => sessions'[v] = sessions[v]
Turn(c) == /\ DOMAIN conn' = Conns /\ \A d \in Conns \ {c} : conn'[d] = conn[d]
           /\ DOMAIN logout' = Conns /\ \A d \in Conns \ {c} : logout'[d] = logout[d]

LEMMA OthersStay ==
    ASSUME SessionAssumption, Tidy, NEW c \in Conns, Turn(c), KeepsOthers(conn[c].user),
           NEW d \in Conns \ {c}
    PROVE  Whereabouts(d)'
<1>1. conn'[d] = conn[d] /\ logout'[d] = logout[d] /\ Whereabouts(d)
  BY DEF Tidy, Turn
<1>2. CASE conn[d].pc = "out"
  BY <1>1, <1>2 DEF Whereabouts
<1>3. CASE conn[d].pc # "out"
  <2>1. PICK u \in Users \ {conn[c].user} : u = conn[d].user
    BY <1>1, <1>3 DEF Whereabouts, Tidy, OneConn
  <2>2. places'[u] = places[u] /\ (u \in DOMAIN sessions' <=> u \in DOMAIN sessions)
        /\ (u \in DOMAIN sessions => sessions'[u] = sessions[u]) /\ owners' = owners
    BY <2>1 DEF KeepsOthers
  <2> QED BY <1>1, <2>1, <2>2 DEF Whereabouts, Visiting, Away, Place
<1> QED BY <1>2, <1>3

\* The connection stays its player's.
LEMMA OwnStep ==
    ASSUME SessionAssumption, Tidy, NEW c \in Conns, Turn(c), KeepsOthers(conn[c].user),
           conn'[c].user = conn[c].user,
           Records', SessionsOwned', Whereabouts(c)'
    PROVE  Tidy'
<1>1. \A d \in Conns : Whereabouts(d)'
  BY OthersStay
<1>2. \A d \in Conns : conn'[d].user = conn[d].user
  BY DEF Turn
<1>3. OneConn'
  BY <1>2 DEF Tidy, OneConn
<1>4. GoneAway'
  <2> SUFFICES ASSUME NEW u \in Users, \A d \in Conns : conn'[d].user # u PROVE Away(u)'
    BY DEF GoneAway
  <2>1. Away(u) /\ u # conn[c].user
    BY <1>2 DEF Tidy, GoneAway
  <2> QED BY <2>1 DEF KeepsOthers, Away
<1> QED BY <1>1, <1>3, <1>4 DEF Tidy

\* A step that moves nobody and changes no session.
LEMMA NobodyMoves ==
    ASSUME UNCHANGED <<owners, sessions>>, places' = places, NEW u
    PROVE  KeepsOthers(u)
BY DEF KeepsOthers

\* The records, when those of one connection and one saver change.
LEMMA RecordsStay ==
    ASSUME Records, NEW c \in Conns, Turn(c), ConnRecord(c)', LogoutRecord(c)',
           DOMAIN saver' = Savers, \A s \in Savers : SaverRecord(s)',
           DOMAIN profile' = Users, \A u \in Users : profile'[u].map \in Maps
    PROVE  Records'
<1>1. \A d \in Conns \ {c} : ConnRecord(d)' /\ LogoutRecord(d)'
  BY DEF Turn, Records, ConnRecord, LogoutRecord
<1> QED BY <1>1 DEF Records, Turn

\* A step that changes only a connection, with its logout.
LEMMA RecordsOfConn ==
    ASSUME Records, NEW c \in Conns, Turn(c), ConnRecord(c)', LogoutRecord(c)',
           UNCHANGED <<saver, profile>>
    PROVE  Records'
BY RecordsStay DEF Records, SaverRecord

\* A step that moves nobody and changes no session, no profile and no saver.
LEMMA QuietStep ==
    ASSUME SessionAssumption, Tidy, NEW c \in Conns, Turn(c),
           UNCHANGED <<owners, hosts, sessions, saver, profile>>,
           conn'[c].user = conn[c].user, ConnRecord(c)', LogoutRecord(c)', Whereabouts(c)'
    PROVE  Tidy'
<1>1. Records'
  BY RecordsOfConn DEF Tidy
<1>2. SessionsOwned'
  BY DEF Tidy, SessionsOwned
<1> QED BY <1>1, <1>2, OwnStep, NobodyMoves, SameAt

\* What the step of a connection and its logout make of them.
LEMMA ConnTurn ==
    ASSUME Tidy, NEW c \in Conns, NEW r, conn' = [conn EXCEPT ![c] = r], UNCHANGED logout
    PROVE  Turn(c) /\ conn'[c] = r /\ LogoutRecord(c)'
BY DEF Tidy, Records, Turn, LogoutRecord

LEMMA ConnGoes ==
    ASSUME Tidy, NEW c \in Conns, NEW pc \in ConnSteps, Goto(c, pc), UNCHANGED logout
    PROVE  /\ Turn(c) /\ LogoutRecord(c)'
           /\ conn'[c] = [pc |-> pc, user |-> conn[c].user, map |-> conn[c].map,
                          node |-> conn[c].node, to |-> conn[c].to, toNode |-> conn[c].toNode,
                          profile |-> conn[c].profile]
           /\ (pc \in {"check", "save"} => conn[c].profile.map \in Maps) => ConnRecord(c)'
<1>1. conn' = [conn EXCEPT ![c].pc = pc] /\ DOMAIN conn = Conns /\ ConnRecord(c)
  BY DEF Goto, Tidy, Records
<1>2. conn'[c] = [conn[c] EXCEPT !.pc = pc]
  BY <1>1
<1>3. conn'[c] = [pc |-> pc, user |-> conn[c].user, map |-> conn[c].map,
                  node |-> conn[c].node, to |-> conn[c].to, toNode |-> conn[c].toNode,
                  profile |-> conn[c].profile]
  BY <1>1, <1>2 DEF ConnRecord
<1>4. Turn(c) /\ LogoutRecord(c)'
  BY <1>1 DEF Tidy, Records, Turn, LogoutRecord
<1> QED BY <1>3, <1>4 DEF ConnRecord

\* Whoever logs in has no connection yet.
LEMMA AuthenticateTidy ==
    ASSUME SessionAssumption, Patient, Tidy, NEW c \in Conns, NEW u \in Users, Authenticate(c, u)
    PROVE  Tidy'
<1>1. /\ conn[c].pc = "out" /\ \A d \in Conns : conn[d].user # u
      /\ conn' = [conn EXCEPT ![c] = [Out EXCEPT !.pc = "check", !.user = u, !.profile = profile[u]]]
      /\ UNCHANGED <<owners, hosts, sessions, logout, saver, profile>>
  BY DEF Authenticate, Step, cluster
<1>2. conn'[c] = [pc |-> "check", user |-> u, map |-> None, node |-> None, to |-> None,
                  toNode |-> None, profile |-> profile[u]]
      /\ Turn(c) /\ LogoutRecord(c)'
  <2>1. conn'[c] = [Out EXCEPT !.pc = "check", !.user = u, !.profile = profile[u]]
        /\ Turn(c) /\ LogoutRecord(c)'
    BY <1>1, ConnTurn
  <2> QED BY <2>1 DEF Out
<1>3. Records'
  <2>1. ConnRecord(c)'
    BY <1>2 DEF ConnRecord, ConnSteps, Tidy, Records
  <2> QED BY <1>1, <1>2, <2>1, RecordsOfConn DEF Tidy
<1>4. places' = places /\ SessionsOwned'
  BY <1>1, SameAt DEF Tidy, SessionsOwned
<1>5. Away(u) /\ logout[c].pc = "no"
  BY <1>1 DEF Tidy, GoneAway, Whereabouts
<1>6. Whereabouts(c)'
  BY <1>1, <1>2, <1>4, <1>5 DEF Whereabouts, Away
<1>7. \A d \in Conns : Whereabouts(d)'
  BY <1>1, <1>2, <1>4, <1>6, OthersStay, NobodyMoves
<1>8. OneConn'
  BY <1>1, <1>2 DEF Tidy, OneConn, Turn
<1>9. GoneAway'
  <2> SUFFICES ASSUME NEW v \in Users, \A d \in Conns : conn'[d].user # v PROVE Away(v)'
    BY DEF GoneAway
  <2>1. conn[c].user = None
    BY <1>1 DEF Tidy, Whereabouts
  <2>2. \A d \in Conns : conn[d].user # v
    BY <1>2, <2>1 DEF Turn, SessionAssumption
  <2> QED BY <1>1, <1>4, <2>2 DEF Tidy, GoneAway, Away
<1> QED BY <1>3, <1>4, <1>7, <1>8, <1>9 DEF Tidy

LEMMA CloseTidy ==
    ASSUME SessionAssumption, Tidy, NEW c \in Conns, Close(c)
    PROVE  Tidy'
<1>1. /\ conn[c].pc = "in" /\ logout[c].pc = "done"
      /\ conn' = [conn EXCEPT ![c] = Out] /\ logout' = [logout EXCEPT ![c] = NotLeaving]
      /\ UNCHANGED <<owners, hosts, sessions, saver, profile>>
  BY DEF Close, Step, cluster
<1>2. conn'[c] = Out /\ logout'[c] = NotLeaving /\ Turn(c)
  BY <1>1 DEF Tidy, Records, Turn
<1>3. Records'
  <2>1. ConnRecord(c)' /\ LogoutRecord(c)'
    BY <1>2 DEF ConnRecord, LogoutRecord, ConnSteps, Out, NotLeaving
  <2> QED BY <1>1, <1>2, <2>1, RecordsOfConn DEF Tidy
<1>4. places' = places /\ SessionsOwned'
  BY <1>1, SameAt DEF Tidy, SessionsOwned
<1>5. Whereabouts(c)'
  BY <1>2 DEF Whereabouts, Out, NotLeaving
<1>6. \A d \in Conns : Whereabouts(d)'
  BY <1>1, <1>2, <1>4, <1>5, OthersStay, NobodyMoves
<1>7. OneConn'
  BY <1>2 DEF Tidy, OneConn, Turn, Out, SessionAssumption
<1>8. GoneAway'
  <2> SUFFICES ASSUME NEW v \in Users, \A d \in Conns : conn'[d].user # v PROVE Away(v)'
    BY DEF GoneAway
  <2>1. Away(v)
    <3>1. CASE v = conn[c].user
      BY <1>1, <3>1 DEF Tidy, Whereabouts
    <3>2. CASE v # conn[c].user
      BY <1>2, <3>2 DEF Turn, Tidy, GoneAway
    <3> QED BY <3>1, <3>2
  <2> QED BY <1>1, <1>4, <2>1 DEF Away
<1> QED BY <1>3, <1>4, <1>6, <1>7, <1>8 DEF Tidy

\* The map of the profile is the one that is entered, on the node of its owner.
LEMMA LoginCheckTidy ==
    ASSUME SessionAssumption, Tidy, NEW c \in Conns, LoginCheck(c)
    PROVE  Tidy'
<1>1. PICK m \in Maps : m = conn[c].profile.map
  BY DEF LoginCheck, Step, Tidy, Records, ConnRecord
<1>2. /\ conn[c].pc = "check" /\ conn[c].user \in Users
      /\ Away(conn[c].user) /\ logout[c].pc = "no"
  BY DEF LoginCheck, Step, Tidy, Whereabouts
<1>3. UNCHANGED <<owners, hosts, sessions, logout, saver, profile>>
  BY DEF LoginCheck, cluster
<1>4. Turn(c) /\ conn'[c] = [conn[c] EXCEPT !.pc = "add", !.map = m, !.node = owners[m]]
  BY <1>1, <1>2, <1>3 DEF LoginCheck, Away, Tidy, Records, Turn
<1>5. conn'[c] = [pc |-> "add", user |-> conn[c].user, map |-> m, node |-> owners[m],
                  to |-> conn[c].to, toNode |-> conn[c].toNode, profile |-> conn[c].profile]
  BY <1>4 DEF Tidy, Records, ConnRecord
<1>6. ConnRecord(c)' /\ LogoutRecord(c)'
  BY <1>3, <1>5 DEF ConnRecord, ConnSteps, Tidy, Records, LogoutRecord
<1>7. places' = places
  BY <1>3, SameAt
<1>8. Whereabouts(c)'
  BY <1>2, <1>3, <1>5, <1>7 DEF Whereabouts, Away
<1>9. conn'[c].user = conn[c].user /\ Turn(c)
  BY <1>4, <1>5
<1> QED BY <1>3, <1>6, <1>8, <1>9, QuietStep

LEMMA LoginAddTidy ==
    ASSUME SessionAssumption, Shape, HostedOnce, Tidy, NEW c \in Conns, LoginAdd(c)
    PROVE  Tidy'
<1> DEFINE m == conn[c].map
<1>1. PICK u \in Users : u = conn[c].user
  BY DEF LoginAdd, Step, Tidy, Whereabouts
<1>2. /\ conn[c].pc = "add" /\ m \in Maps /\ conn[c].node = owners[m] /\ Away(u)
      /\ logout[c].pc = "no"
  BY <1>1 DEF LoginAdd, Step, Tidy, Whereabouts
<1>3. UNCHANGED <<owners, sessions, logout, saver, profile>> /\ Goto(c, "enter")
  BY DEF LoginAdd, AfterHosts
<1>4. places' = [places EXCEPT ![u] = @ \cup Place(m)]
  BY <1>1, <1>2, AddAt DEF LoginAdd
<1>5. /\ Turn(c) /\ ConnRecord(c)' /\ LogoutRecord(c)'
      /\ conn'[c] = [pc |-> "enter", user |-> u, map |-> m, node |-> owners[m],
                  to |-> conn[c].to, toNode |-> conn[c].toNode, profile |-> conn[c].profile]
  BY <1>1, <1>2, <1>3, ConnGoes DEF ConnSteps
<1>6. places'[u] = Place(m) /\ \A v \in Users \ {u} : places'[v] = places[v]
  BY <1>2, <1>4 DEF Away, places
<1>7. Whereabouts(c)'
  BY <1>2, <1>3, <1>5, <1>6 DEF Whereabouts, Away, Place
<1>8. KeepsOthers(u)
  BY <1>3, <1>6 DEF KeepsOthers
<1>9. Records' /\ SessionsOwned'
  BY <1>3, <1>5, RecordsOfConn DEF Tidy, SessionsOwned
<1> QED BY <1>1, <1>5, <1>7, <1>8, <1>9, OwnStep

\* The records, when a saver or a profile changes.
LEMMA SaverSet ==
    ASSUME Records, NEW s \in Savers, NEW r, saver' = [saver EXCEPT ![s] = r],
           r = [pc |-> r.pc, user |-> r.user, map |-> r.map, node |-> r.node, profile |-> r.profile],
           r.pc \in {"idle", "look", "read", "write"},
           r.pc # "idle" => r.user \in Users,
           r.pc = "read" => r.map \in Maps, r.pc = "write" => r.profile.map \in Maps
    PROVE  DOMAIN saver' = Savers /\ \A t \in Savers : SaverRecord(t)'
<1>1. DOMAIN saver' = Savers /\ saver'[s] = r /\ \A t \in Savers \ {s} : saver'[t] = saver[t]
  BY DEF Records
<1>2. SaverRecord(s)'
  BY <1>1 DEF SaverRecord
<1>3. ASSUME NEW t \in Savers \ {s} PROVE SaverRecord(t)'
  BY <1>1 DEF Records, SaverRecord
<1> QED BY <1>1, <1>2, <1>3

LEMMA PersistRecord ==
    ASSUME Records, NEW s \in Savers, NEW u \in Users, Persist(s, u)
    PROVE  DOMAIN saver' = Savers /\ \A t \in Savers : SaverRecord(t)'
<1>1. PICK r : r = [NotSaving EXCEPT !.pc = "look", !.user = u]
  OBVIOUS
<1>2. r = [pc |-> "look", user |-> u, map |-> None, node |-> None, profile |-> Nothing]
  BY <1>1 DEF NotSaving
<1>3. saver' = [saver EXCEPT ![s] = r]
  BY <1>1 DEF Persist
<1> QED BY <1>2, <1>3, SaverSet

LEMMA ProfileSet ==
    ASSUME Records, NEW u \in Users, NEW p, p.map \in Maps, profile' = [profile EXCEPT ![u] = p]
    PROVE  DOMAIN profile' = Users /\ \A v \in Users : profile'[v].map \in Maps
BY DEF Records

LEMMA SameSavers ==
    ASSUME Records, UNCHANGED saver
    PROVE  DOMAIN saver' = Savers /\ \A t \in Savers : SaverRecord(t)'
BY DEF Records, SaverRecord

LEMMA SaverOfConn == ASSUME NEW c \in Conns PROVE Saver(c) \in Savers
BY DEF Saver, Savers

\* The player that was added gets its session.
LEMMA LoginEnterTidy ==
    ASSUME SessionAssumption, Shape, Tidy, NEW c \in Conns, LoginEnter(c)
    PROVE  Tidy'
<1> DEFINE m == conn[c].map
<1>1. PICK u \in Users : u = conn[c].user
  BY DEF LoginEnter, Step, Tidy, Whereabouts
<1>2. /\ conn[c].pc = "enter" /\ m \in Maps /\ conn[c].node = owners[m]
      /\ places[u] = Place(m) /\ u \notin DOMAIN sessions /\ logout[c].pc = "no"
  BY <1>1 DEF LoginEnter, Step, Tidy, Whereabouts
<1>3. /\ UNCHANGED <<owners, hosts, logout, profile>> /\ Goto(c, "persist")
      /\ sessions' = Assign(sessions, u, [map |-> m, node |-> owners[m]])
      /\ Persist(Saver(c), u)
  BY <1>1, <1>2 DEF LoginEnter, cluster
<1>4. /\ DOMAIN sessions' = DOMAIN sessions \cup {u}
      /\ sessions'[u] = [map |-> m, node |-> owners[m]]
      /\ \A v \in DOMAIN sessions \ {u} : sessions'[v] = sessions[v]
  BY <1>3 DEF Assign
<1>5. places' = places
  BY <1>3, SameAt
<1>6. /\ Turn(c) /\ ConnRecord(c)' /\ LogoutRecord(c)'
      /\ conn'[c] = [pc |-> "persist", user |-> u, map |-> m, node |-> owners[m],
                  to |-> conn[c].to, toNode |-> conn[c].toNode, profile |-> conn[c].profile]
  BY <1>1, <1>2, <1>3, ConnGoes DEF ConnSteps
<1>7. Whereabouts(c)'
  BY <1>2, <1>3, <1>4, <1>5, <1>6 DEF Whereabouts, Visiting, Place
<1>8. KeepsOthers(u)
  BY <1>3, <1>4, <1>5 DEF KeepsOthers
<1>9. SessionsOwned'
  BY <1>2, <1>3, <1>4 DEF Tidy, SessionsOwned
<1>10. Records'
  <2>1. DOMAIN saver' = Savers /\ \A t \in Savers : SaverRecord(t)'
    BY <1>3, PersistRecord, SaverOfConn DEF Tidy
  <2>2. DOMAIN profile' = Users /\ \A v \in Users : profile'[v].map \in Maps
    BY <1>3 DEF Tidy, Records
  <2> QED BY <1>6, <2>1, <2>2, RecordsStay DEF Tidy
<1> QED BY <1>1, <1>6, <1>7, <1>8, <1>9, <1>10, OwnStep

LEMMA ReturnTidy ==
    ASSUME SessionAssumption, Tidy, NEW c \in Conns, Return(c)
    PROVE  Tidy'
<1>1. conn[c].pc = "persist" /\ UNCHANGED <<owners, hosts, sessions, logout, saver, profile>>
  BY DEF Return, Step, cluster
<1>2. conn[c].user \in Users /\ Visiting(conn[c].user) /\ logout[c].pc = "no"
  BY <1>1 DEF Tidy, Whereabouts
<1>3. conn'[c] = [Out EXCEPT !.pc = "in", !.user = conn[c].user] /\ Turn(c)
  BY <1>1 DEF Return, Tidy, Records, Turn
<1>4. conn'[c] = [pc |-> "in", user |-> conn[c].user, map |-> None, node |-> None, to |-> None,
                  toNode |-> None, profile |-> Nothing]
  BY <1>3 DEF Out
<1>5. ConnRecord(c)' /\ LogoutRecord(c)'
  BY <1>1, <1>4 DEF ConnRecord, ConnSteps, Tidy, Records, LogoutRecord
<1>6. Whereabouts(c)'
  BY <1>1, <1>2, <1>4, SameAt DEF Whereabouts, Visiting, Place
<1> QED BY <1>1, <1>3, <1>4, <1>5, <1>6, QuietStep

\* A command reads where its player is.
LEMMA CommandTidy ==
    ASSUME SessionAssumption, Tidy, NEW c \in Conns, Command(c)
    PROVE  Tidy'
<1>1. PICK u \in Users : u = conn[c].user
  BY DEF Command, Listens, Step, Tidy, Whereabouts
<1>2. /\ conn[c].pc = "in" /\ logout[c].pc = "no" /\ Visiting(u)
      /\ UNCHANGED <<owners, hosts, sessions, logout, saver, profile>>
  BY <1>1 DEF Command, Listens, Step, Tidy, Whereabouts, cluster
<1>3. Turn(c) /\ conn'[c] = [conn[c] EXCEPT !.pc = "act", !.map = sessions[u].map,
                                            !.node = sessions[u].node]
  BY <1>1, <1>2 DEF Command, Tidy, Records, Turn
<1>4. conn'[c] = [pc |-> "act", user |-> u, map |-> sessions[u].map,
                  node |-> sessions[u].node, to |-> conn[c].to, toNode |-> conn[c].toNode,
                  profile |-> conn[c].profile]
  BY <1>1, <1>3 DEF Tidy, Records, ConnRecord
<1>5. ConnRecord(c)' /\ LogoutRecord(c)'
  BY <1>2, <1>4 DEF ConnRecord, ConnSteps, Tidy, Records, LogoutRecord
<1>6. Whereabouts(c)'
  BY <1>2, <1>4, SameAt DEF Whereabouts, Visiting, Place
<1> QED BY <1>1, <1>2, <1>3, <1>4, <1>5, <1>6, QuietStep

\* The player is there and stays there.
LEMMA ActTidy ==
    ASSUME SessionAssumption, Shape, Tidy, NEW c \in Conns, Act(c)
    PROVE  Tidy'
<1>1. PICK u \in Users : u = conn[c].user
  BY DEF Act, Step, Tidy, Whereabouts
<1>2. /\ conn[c].pc = "act" /\ logout[c].pc = "no" /\ Visiting(u)
      /\ conn[c].map = sessions[u].map /\ sessions[u].map \in Maps
  BY <1>1 DEF Act, Step, Tidy, Whereabouts, Visiting, SessionsOwned
<1>3. UNCHANGED <<owners, sessions, logout, saver, profile>>
  BY DEF Act, AfterHosts
<1>4. places' = places
  BY ActAt
<1>5. CASE Goto(c, "persist")
  <2>1. /\ Turn(c) /\ ConnRecord(c)' /\ LogoutRecord(c)'
        /\ conn'[c] = [pc |-> "persist", user |-> u, map |-> conn[c].map, node |-> conn[c].node,
                    to |-> conn[c].to, toNode |-> conn[c].toNode, profile |-> conn[c].profile]
    BY <1>1, <1>3, <1>5, ConnGoes DEF ConnSteps
  <2>2. Whereabouts(c)'
    BY <1>2, <1>3, <1>4, <2>1 DEF Whereabouts, Visiting, Place
  <2>3. Records' /\ SessionsOwned'
    BY <1>3, <2>1, RecordsOfConn DEF Tidy, SessionsOwned
  <2> QED BY <1>1, <1>3, <1>4, <2>1, <2>2, <2>3, OwnStep, NobodyMoves
<1>6. CASE ~Goto(c, "persist")
  <2>1. PICK p : p = Profile(conn[c].map, hosts[conn[c].node][conn[c].map][u] + 1)
    OBVIOUS
  <2>2. Turn(c) /\ conn'[c] = [conn[c] EXCEPT !.pc = "save", !.profile = p]
    BY <1>1, <1>3, <1>6, <2>1 DEF Act, Tidy, Records, Turn
  <2>3. conn'[c] = [pc |-> "save", user |-> u, map |-> conn[c].map, node |-> conn[c].node,
                    to |-> conn[c].to, toNode |-> conn[c].toNode, profile |-> p]
    BY <1>1, <2>2 DEF Tidy, Records, ConnRecord
  <2>4. p.map \in Maps
    BY <1>2, <2>1 DEF Profile
  <2>5. ConnRecord(c)' /\ LogoutRecord(c)'
    BY <1>3, <2>3, <2>4 DEF ConnRecord, ConnSteps, Tidy, Records, LogoutRecord
  <2>6. Whereabouts(c)'
    BY <1>2, <1>3, <1>4, <2>3 DEF Whereabouts, Visiting, Place
  <2>7. Records' /\ SessionsOwned'
    BY <1>3, <2>2, <2>5, RecordsOfConn DEF Tidy, SessionsOwned
  <2> QED BY <1>1, <1>3, <1>4, <2>2, <2>3, <2>6, <2>7, OwnStep, NobodyMoves
<1> QED BY <1>5, <1>6

LEMMA SaveActedTidy ==
    ASSUME SessionAssumption, Tidy, NEW c \in Conns, SaveActed(c)
    PROVE  Tidy'
<1>1. PICK u \in Users : u = conn[c].user
  BY DEF SaveActed, Step, Tidy, Whereabouts
<1>2. /\ conn[c].pc = "save" /\ logout[c].pc = "no" /\ Visiting(u) /\ conn[c].profile.map \in Maps
  BY <1>1 DEF SaveActed, Step, Tidy, Whereabouts, Records, ConnRecord
<1>3. /\ UNCHANGED <<owners, hosts, sessions, logout, saver>> /\ Goto(c, "persist")
      /\ profile' = [profile EXCEPT ![u] = conn[c].profile]
  BY <1>1 DEF SaveActed, cluster
<1>4. /\ Turn(c) /\ ConnRecord(c)' /\ LogoutRecord(c)'
      /\ conn'[c] = [pc |-> "persist", user |-> u, map |-> conn[c].map, node |-> conn[c].node,
                  to |-> conn[c].to, toNode |-> conn[c].toNode, profile |-> conn[c].profile]
  BY <1>1, <1>3, ConnGoes DEF ConnSteps
<1>5. places' = places
  BY <1>3, SameAt
<1>6. Whereabouts(c)'
  BY <1>2, <1>3, <1>4, <1>5 DEF Whereabouts, Visiting, Place
<1>7. Records'
  BY <1>2, <1>3, <1>4, ProfileSet, SameSavers, RecordsStay DEF Tidy
<1>8. SessionsOwned'
  BY <1>3 DEF Tidy, SessionsOwned
<1> QED BY <1>1, <1>3, <1>4, <1>5, <1>6, <1>7, <1>8, OwnStep, NobodyMoves

LEMMA SwitchMapTidy ==
    ASSUME SessionAssumption, Tidy, NEW c \in Conns, NEW m \in Maps, SwitchMap(c, m)
    PROVE  Tidy'
<1>1. PICK u \in Users : u = conn[c].user
  BY DEF SwitchMap, Listens, Step, Tidy, Whereabouts
<1>2. /\ conn[c].pc = "in" /\ logout[c].pc = "no" /\ Visiting(u)
      /\ UNCHANGED <<owners, hosts, sessions, logout, saver, profile>>
  BY <1>1 DEF SwitchMap, Listens, Step, Tidy, Whereabouts, cluster
<1>3. Turn(c) /\ conn'[c] = [conn[c] EXCEPT !.pc = "look", !.to = m, !.toNode = owners[m],
                               !.map = sessions[u].map, !.node = sessions[u].node]
  BY <1>1, <1>2 DEF SwitchMap, Tidy, Records, Turn
<1>4. conn'[c] = [pc |-> "look", user |-> u, map |-> sessions[u].map,
                  node |-> sessions[u].node, to |-> m, toNode |-> owners[m],
                  profile |-> conn[c].profile]
  BY <1>1, <1>3 DEF Tidy, Records, ConnRecord
<1>5. ConnRecord(c)' /\ LogoutRecord(c)'
  BY <1>2, <1>4 DEF ConnRecord, ConnSteps, Tidy, Records, LogoutRecord
<1>6. Whereabouts(c)'
  BY <1>2, <1>4, SameAt DEF Whereabouts, Visiting, Place
<1> QED BY <1>1, <1>2, <1>3, <1>4, <1>5, <1>6, QuietStep

LEMMA SwitchLookTidy ==
    ASSUME SessionAssumption, Tidy, NEW c \in Conns, SwitchLook(c)
    PROVE  Tidy'
<1>1. PICK u \in Users : u = conn[c].user
  BY DEF SwitchLook, Step, Tidy, Whereabouts
<1>2. /\ conn[c].pc = "look" /\ logout[c].pc = "no" /\ Visiting(u)
      /\ conn[c].map = sessions[u].map /\ conn[c].node = sessions[u].node
      /\ conn[c].to \in Maps /\ conn[c].toNode = owners[conn[c].to]
  BY <1>1 DEF SwitchLook, Step, Tidy, Whereabouts
<1>3. UNCHANGED <<owners, hosts, sessions, logout, saver, profile>>
  BY DEF SwitchLook, cluster
<1>4. CASE Goto(c, "persist")
  <2>1. /\ Turn(c) /\ ConnRecord(c)' /\ LogoutRecord(c)'
        /\ conn'[c] = [pc |-> "persist", user |-> u, map |-> conn[c].map, node |-> conn[c].node,
                    to |-> conn[c].to, toNode |-> conn[c].toNode, profile |-> conn[c].profile]
    BY <1>1, <1>3, <1>4, ConnGoes DEF ConnSteps
  <2>2. Whereabouts(c)'
    BY <1>2, <1>3, <2>1, SameAt DEF Whereabouts, Visiting, Place
  <2> QED BY <1>1, <1>3, <2>1, <2>2, QuietStep
<1>5. CASE ~Goto(c, "persist")
  <2>1. PICK p : p = ProfileAt(conn[c].node, conn[c].map, conn[c].user)
    OBVIOUS
  <2>2. Turn(c) /\ conn'[c] = [conn[c] EXCEPT !.pc = "remove", !.profile = p]
    BY <1>3, <1>5, <2>1 DEF SwitchLook, Tidy, Records, Turn
  <2>3. conn'[c] = [pc |-> "remove", user |-> u, map |-> conn[c].map, node |-> conn[c].node,
                    to |-> conn[c].to, toNode |-> conn[c].toNode, profile |-> p]
    BY <1>1, <2>2 DEF Tidy, Records, ConnRecord
  <2>4. ConnRecord(c)' /\ LogoutRecord(c)'
    BY <1>3, <2>3 DEF ConnRecord, ConnSteps, Tidy, Records, LogoutRecord
  <2>5. Whereabouts(c)'
    BY <1>2, <1>3, <2>3, SameAt DEF Whereabouts, Visiting, Place
  <2> QED BY <1>1, <1>3, <2>2, <2>3, <2>4, <2>5, QuietStep
<1> QED BY <1>4, <1>5

\* Between two worlds a player is in neither.
LEMMA SwitchRemoveTidy ==
    ASSUME SessionAssumption, Shape, Tidy, NEW c \in Conns, SwitchRemove(c)
    PROVE  Tidy'
<1>1. PICK u \in Users : u = conn[c].user
  BY DEF SwitchRemove, Step, Tidy, Whereabouts
<1>2. /\ conn[c].pc = "remove" /\ logout[c].pc = "no"
      /\ u \in DOMAIN sessions /\ places[u] = Place(sessions[u].map)
      /\ conn[c].map = sessions[u].map /\ conn[c].node = owners[conn[c].map]
      /\ conn[c].map \in Maps /\ conn[c].to \in Maps /\ conn[c].toNode = owners[conn[c].to]
  BY <1>1 DEF SwitchRemove, Step, Tidy, Whereabouts, Visiting, SessionsOwned
<1>3. UNCHANGED <<owners, sessions, logout, saver, profile>>
  BY DEF SwitchRemove, AfterHosts
<1>4. places' = [places EXCEPT ![u] = @ \ {<<conn[c].node, conn[c].map>>}]
  <2>1. conn[c].node \in Nodes
    BY <1>2 DEF Shape
  <2> QED BY <1>1, <1>2, <2>1, RemoveAt DEF SwitchRemove
<1>5. places'[u] = {} /\ \A v \in Users \ {u} : places'[v] = places[v]
  BY <1>2, <1>4 DEF Place, places
<1>6. PICK p : p = IF Stands(conn[c].node, conn[c].map, conn[c].user)
                   THEN ProfileAt(conn[c].node, conn[c].map, conn[c].user) ELSE conn[c].profile
  OBVIOUS
<1>7. Turn(c) /\ conn'[c] = [conn[c] EXCEPT !.pc = "arrive", !.profile = p]
  BY <1>3, <1>6 DEF SwitchRemove, Tidy, Records, ConnRecord, Turn
<1>8. conn'[c] = [pc |-> "arrive", user |-> u, map |-> conn[c].map, node |-> conn[c].node,
                  to |-> conn[c].to, toNode |-> conn[c].toNode, profile |-> p]
  BY <1>1, <1>7 DEF Tidy, Records, ConnRecord
<1>9. ConnRecord(c)' /\ LogoutRecord(c)'
  BY <1>3, <1>8 DEF ConnRecord, ConnSteps, Tidy, Records, LogoutRecord
<1>10. Whereabouts(c)'
  BY <1>2, <1>3, <1>5, <1>8 DEF Whereabouts, Visiting, Place
<1>11. KeepsOthers(u)
  BY <1>3, <1>5 DEF KeepsOthers
<1>12. Records' /\ SessionsOwned'
  BY <1>3, <1>7, <1>9, RecordsOfConn DEF Tidy, SessionsOwned
<1> QED BY <1>1, <1>7, <1>8, <1>10, <1>11, <1>12, OwnStep

LEMMA SwitchArriveTidy ==
    ASSUME SessionAssumption, Shape, HostedOnce, Tidy, NEW c \in Conns, SwitchArrive(c)
    PROVE  Tidy'
<1> DEFINE m == conn[c].to
<1>1. PICK u \in Users : u = conn[c].user
  BY DEF SwitchArrive, Step, Tidy, Whereabouts
<1>2. /\ conn[c].pc = "arrive" /\ logout[c].pc = "no" /\ m \in Maps /\ conn[c].toNode = owners[m]
      /\ places[u] = {} /\ u \in DOMAIN sessions
  BY <1>1 DEF SwitchArrive, Step, Tidy, Whereabouts
<1>3. UNCHANGED <<owners, sessions, logout, saver, profile>> /\ Goto(c, "update")
  BY DEF SwitchArrive, AfterHosts
<1>4. places' = [places EXCEPT ![u] = @ \cup Place(m)]
  BY <1>1, <1>2, AddAt DEF SwitchArrive
<1>5. /\ Turn(c) /\ ConnRecord(c)' /\ LogoutRecord(c)'
      /\ conn'[c] = [pc |-> "update", user |-> u, map |-> conn[c].map, node |-> conn[c].node,
                  to |-> m, toNode |-> owners[m], profile |-> conn[c].profile]
  BY <1>1, <1>2, <1>3, ConnGoes DEF ConnSteps
<1>6. places'[u] = Place(m) /\ \A v \in Users \ {u} : places'[v] = places[v]
  BY <1>2, <1>4 DEF places
<1>7. Whereabouts(c)'
  BY <1>2, <1>3, <1>5, <1>6 DEF Whereabouts, Place
<1>8. KeepsOthers(u)
  BY <1>3, <1>6 DEF KeepsOthers
<1>9. Records' /\ SessionsOwned'
  BY <1>3, <1>5, RecordsOfConn DEF Tidy, SessionsOwned
<1> QED BY <1>1, <1>5, <1>7, <1>8, <1>9, OwnStep

\* The session follows its player.
LEMMA SwitchUpdateTidy ==
    ASSUME SessionAssumption, Tidy, NEW c \in Conns, SwitchUpdate(c)
    PROVE  Tidy'
<1> DEFINE m == conn[c].to
<1>1. PICK u \in Users : u = conn[c].user
  BY DEF SwitchUpdate, Step, Tidy, Whereabouts
<1>2. /\ conn[c].pc = "update" /\ logout[c].pc = "no" /\ m \in Maps /\ conn[c].toNode = owners[m]
      /\ places[u] = Place(m) /\ u \in DOMAIN sessions
  BY <1>1 DEF SwitchUpdate, Step, Tidy, Whereabouts
<1>3. /\ UNCHANGED <<owners, hosts, logout, saver, profile>> /\ Goto(c, "store")
      /\ sessions' = [sessions EXCEPT ![u] = [map |-> m, node |-> owners[m]]]
  BY <1>1, <1>2 DEF SwitchUpdate, cluster
<1>4. /\ DOMAIN sessions' = DOMAIN sessions /\ sessions'[u] = [map |-> m, node |-> owners[m]]
      /\ \A v \in DOMAIN sessions \ {u} : sessions'[v] = sessions[v]
  BY <1>2, <1>3
<1>5. places' = places
  BY <1>3, SameAt
<1>6. /\ Turn(c) /\ ConnRecord(c)' /\ LogoutRecord(c)'
      /\ conn'[c] = [pc |-> "store", user |-> u, map |-> conn[c].map, node |-> conn[c].node,
                  to |-> m, toNode |-> owners[m], profile |-> conn[c].profile]
  BY <1>1, <1>2, <1>3, ConnGoes DEF ConnSteps
<1>7. Whereabouts(c)'
  BY <1>2, <1>3, <1>4, <1>5, <1>6 DEF Whereabouts, Place
<1>8. KeepsOthers(u)
  BY <1>3, <1>4, <1>5 DEF KeepsOthers
<1>9. SessionsOwned'
  BY <1>2, <1>3, <1>4 DEF Tidy, SessionsOwned
<1>10. Records'
  BY <1>3, <1>6, RecordsOfConn DEF Tidy
<1> QED BY <1>1, <1>6, <1>7, <1>8, <1>9, <1>10, OwnStep

LEMMA SwitchStoreTidy ==
    ASSUME SessionAssumption, Tidy, NEW c \in Conns, SwitchStore(c)
    PROVE  Tidy'
<1> DEFINE m == conn[c].to
<1>1. PICK u \in Users : u = conn[c].user
  BY DEF SwitchStore, Step, Tidy, Whereabouts
<1>2. /\ conn[c].pc = "store" /\ logout[c].pc = "no" /\ m \in Maps
      /\ places[u] = Place(m) /\ u \in DOMAIN sessions /\ sessions[u].map = m
  BY <1>1 DEF SwitchStore, Step, Tidy, Whereabouts
<1>3. PICK p : p = Profile(m, conn[c].profile.progress)
  OBVIOUS
<1>4. /\ UNCHANGED <<owners, hosts, logout, sessions>> /\ Goto(c, "persist")
      /\ profile' = [profile EXCEPT ![u] = p] /\ Persist(Saver(c), u)
  BY <1>1, <1>3 DEF SwitchStore, cluster
<1>5. /\ Turn(c) /\ ConnRecord(c)' /\ LogoutRecord(c)'
      /\ conn'[c] = [pc |-> "persist", user |-> u, map |-> conn[c].map, node |-> conn[c].node,
                  to |-> m, toNode |-> conn[c].toNode, profile |-> conn[c].profile]
  BY <1>1, <1>4, ConnGoes DEF ConnSteps
<1>6. places' = places
  BY <1>4, SameAt
<1>7. Whereabouts(c)'
  BY <1>2, <1>4, <1>5, <1>6 DEF Whereabouts, Visiting, Place
<1>8. SessionsOwned'
  BY <1>4 DEF Tidy, SessionsOwned
<1>9. Records'
  <2>1. DOMAIN saver' = Savers /\ \A t \in Savers : SaverRecord(t)'
    BY <1>4, PersistRecord, SaverOfConn DEF Tidy
  <2>2. DOMAIN profile' = Users /\ \A v \in Users : profile'[v].map \in Maps
    BY <1>2, <1>3, <1>4, ProfileSet DEF Profile, Tidy
  <2> QED BY <1>5, <2>1, <2>2, RecordsStay DEF Tidy
<1> QED BY <1>1, <1>4, <1>5, <1>6, <1>7, <1>8, <1>9, OwnStep, NobodyMoves

-----------------------------------------------------------------------------
(* Logout. *)

\* What a step of the logout makes of it; the connection waits for its end.
LEMMA LogoutTurn ==
    ASSUME Tidy, NEW c \in Conns, NEW r, logout' = [logout EXCEPT ![c] = r], UNCHANGED conn
    PROVE  Turn(c) /\ logout'[c] = r /\ ConnRecord(c)' /\ conn'[c] = conn[c]
BY DEF Tidy, Records, Turn, ConnRecord

LEMMA LogoutTidy ==
    ASSUME SessionAssumption, Patient, Tidy, NEW c \in Conns, Logout(c)
    PROVE  Tidy'
<1>1. PICK u \in Users : u = conn[c].user
  BY DEF Logout, Tidy, Whereabouts
<1>2. /\ conn[c].pc = "in" /\ logout[c].pc = "no"
      /\ u \in DOMAIN sessions /\ places[u] = Place(sessions[u].map)
      /\ sessions[u].map \in Maps /\ sessions[u].node = owners[sessions[u].map]
  BY <1>1 DEF Logout, Tidy, Whereabouts, Visiting, SessionsOwned
<1>3. /\ UNCHANGED <<owners, hosts, conn, saver, profile>>
      /\ sessions' = Restrict(sessions, DOMAIN sessions \ {u})
  BY <1>1, <1>2 DEF Logout, cluster
<1>4. PICK r : r = [NotLeaving EXCEPT !.pc = "remove", !.map = sessions[u].map,
                                      !.node = sessions[u].node]
  OBVIOUS
<1>5. logout' = [logout EXCEPT ![c] = r]
  BY <1>1, <1>2, <1>4 DEF Logout
<1>6. r = [pc |-> "remove", map |-> sessions[u].map, node |-> sessions[u].node, profile |-> Nothing]
  BY <1>4 DEF NotLeaving
<1>7. Turn(c) /\ logout'[c] = r /\ ConnRecord(c)' /\ conn'[c] = conn[c]
  BY <1>3, <1>5, LogoutTurn
<1>8. /\ DOMAIN sessions' = DOMAIN sessions \ {u}
      /\ \A v \in DOMAIN sessions \ {u} : sessions'[v] = sessions[v]
  BY <1>3 DEF Restrict
<1>9. places' = places
  BY <1>3, SameAt
<1>10. Whereabouts(c)'
  BY <1>1, <1>2, <1>3, <1>6, <1>7, <1>8, <1>9 DEF Whereabouts, Place
<1>11. KeepsOthers(u)
  BY <1>3, <1>8, <1>9 DEF KeepsOthers
<1>12. SessionsOwned'
  BY <1>3, <1>8 DEF Tidy, SessionsOwned
<1>13. Records'
  BY <1>3, <1>6, <1>7, RecordsOfConn DEF Tidy, LogoutRecord
<1> QED BY <1>1, <1>7, <1>10, <1>11, <1>12, <1>13, OwnStep

LEMMA LogoutRemoveTidy ==
    ASSUME SessionAssumption, Shape, Tidy, NEW c \in Conns, LogoutRemove(c)
    PROVE  Tidy'
<1> DEFINE l == logout[c]
<1>1. PICK u \in Users : u = conn[c].user
  BY DEF LogoutRemove, Tidy, Whereabouts
<1>2. /\ l.pc = "remove" /\ conn[c].pc = "in" /\ l.map \in Maps /\ l.node = owners[l.map]
      /\ places[u] = Place(l.map) /\ u \notin DOMAIN sessions
  BY <1>1 DEF LogoutRemove, Tidy, Whereabouts
<1>3. UNCHANGED <<owners, sessions, conn, saver, profile>>
  BY DEF LogoutRemove, AfterHosts
<1>4. places' = [places EXCEPT ![u] = @ \ {<<l.node, l.map>>}]
  <2>1. l.node \in Nodes
    BY <1>2 DEF Shape
  <2> QED BY <1>1, <1>2, <2>1, RemoveAt DEF LogoutRemove
<1>5. places'[u] = {} /\ \A v \in Users \ {u} : places'[v] = places[v]
  BY <1>2, <1>4 DEF Place, places
<1>6. PICK p : p = ProfileAt(l.node, l.map, u)
  OBVIOUS
<1>7. PICK r : r = IF Stands(l.node, l.map, u) THEN [l EXCEPT !.pc = "save", !.profile = p]
                   ELSE [NotLeaving EXCEPT !.pc = "done"]
  OBVIOUS
<1>8. logout' = [logout EXCEPT ![c] = r]
  BY <1>1, <1>6, <1>7 DEF LogoutRemove, Tidy, Records
<1>9. /\ r = [pc |-> r.pc, map |-> r.map, node |-> r.node, profile |-> r.profile]
      /\ r.pc \in {"save", "done"} /\ (r.pc = "save" => r.profile.map \in Maps)
  <2>1. CASE Stands(l.node, l.map, u)
    <3>1. r = [l EXCEPT !.pc = "save", !.profile = p] /\ LogoutRecord(c)
      BY <1>7, <2>1 DEF Tidy, Records
    <3>2. r = [pc |-> "save", map |-> l.map, node |-> l.node, profile |-> p]
      BY <3>1 DEF LogoutRecord
    <3> QED BY <1>2, <1>6, <3>2 DEF ProfileAt, Profile
  <2>2. CASE ~Stands(l.node, l.map, u)
    <3>1. r = [NotLeaving EXCEPT !.pc = "done"]
      BY <1>7, <2>2
    <3>2. r = [pc |-> "done", map |-> None, node |-> None, profile |-> Nothing]
      BY <3>1 DEF NotLeaving
    <3> QED BY <3>2
  <2> QED BY <2>1, <2>2
<1>10. Turn(c) /\ logout'[c] = r /\ ConnRecord(c)' /\ conn'[c] = conn[c]
  BY <1>3, <1>8, LogoutTurn
<1>11. Whereabouts(c)'
  BY <1>1, <1>2, <1>3, <1>5, <1>9, <1>10 DEF Whereabouts, Away
<1>12. KeepsOthers(u)
  BY <1>3, <1>5 DEF KeepsOthers
<1>13. SessionsOwned'
  BY <1>3 DEF Tidy, SessionsOwned
<1>14. Records'
  BY <1>3, <1>9, <1>10, RecordsOfConn DEF Tidy, LogoutRecord
<1> QED BY <1>1, <1>10, <1>11, <1>12, <1>13, <1>14, OwnStep

LEMMA LogoutSaveTidy ==
    ASSUME SessionAssumption, Tidy, NEW c \in Conns, LogoutSave(c)
    PROVE  Tidy'
<1>1. PICK u \in Users : u = conn[c].user
  BY DEF LogoutSave, Tidy, Whereabouts
<1>2. /\ logout[c].pc = "save" /\ conn[c].pc = "in" /\ Away(u) /\ logout[c].profile.map \in Maps
  BY <1>1 DEF LogoutSave, Tidy, Whereabouts, Records, LogoutRecord
<1>3. PICK r : r = [NotLeaving EXCEPT !.pc = "done"]
  OBVIOUS
<1>4. r = [pc |-> "done", map |-> None, node |-> None, profile |-> Nothing]
  BY <1>3 DEF NotLeaving
<1>5. /\ UNCHANGED <<owners, hosts, sessions, conn, saver>>
      /\ logout' = [logout EXCEPT ![c] = r]
      /\ profile' = [profile EXCEPT ![u] = logout[c].profile]
  BY <1>1, <1>3 DEF LogoutSave, cluster
<1>6. Turn(c) /\ logout'[c] = r /\ ConnRecord(c)' /\ conn'[c] = conn[c]
  BY <1>5, LogoutTurn
<1>7. places' = places
  BY <1>5, SameAt
<1>8. Whereabouts(c)'
  BY <1>1, <1>2, <1>4, <1>5, <1>6, <1>7 DEF Whereabouts, Away
<1>9. SessionsOwned'
  BY <1>5 DEF Tidy, SessionsOwned
<1>10. Records'
  <2>1. LogoutRecord(c)'
    BY <1>4, <1>6 DEF LogoutRecord
  <2> QED BY <1>2, <1>5, <1>6, <2>1, ProfileSet, SameSavers, RecordsStay DEF Tidy
<1> QED BY <1>1, <1>5, <1>6, <1>7, <1>8, <1>9, <1>10, OwnStep, NobodyMoves

-----------------------------------------------------------------------------
(* What is saved, and what nodes do, moves no player. *)

LEMMA SaverTidy ==
    ASSUME SessionAssumption, Tidy, UNCHANGED <<owners, hosts, sessions, conn, logout>>,
           DOMAIN saver' = Savers, \A s \in Savers : SaverRecord(s)',
           DOMAIN profile' = Users, \A u \in Users : profile'[u].map \in Maps
    PROVE  Tidy'
<1>1. places' = places
  BY SameAt
<1>2. Records'
  BY DEF Tidy, Records, ConnRecord, LogoutRecord
<1>3. SessionsOwned' /\ OneConn'
  BY DEF Tidy, SessionsOwned, OneConn
<1>4. GoneAway'
  BY <1>1 DEF Tidy, GoneAway, Away
<1>5. \A c \in Conns : Whereabouts(c)'
  <2> SUFFICES ASSUME NEW c \in Conns PROVE Whereabouts(c)'
    OBVIOUS
  <2> QED BY <1>1 DEF Tidy, Whereabouts, Visiting, Away, Place
<1> QED BY <1>2, <1>3, <1>4, <1>5 DEF Tidy

LEMMA FlushTidy ==
    ASSUME SessionAssumption, Tidy, NEW u \in Users, Flush(u)
    PROVE  Tidy'
<1>1. UNCHANGED <<owners, hosts, sessions, conn, logout, profile>> /\ Persist(Flusher, u)
  BY DEF Flush, cluster
<1>2. Flusher \in Savers
  BY DEF Flusher, Savers
<1> QED BY <1>1, <1>2, PersistRecord, SaverTidy DEF Tidy, Records

\* persistSessionState reads the map of the session, and saves under it.
LEMMA PersistTidy ==
    ASSUME SessionAssumption, Tidy, NEW s \in Savers,
           PersistLook(s) \/ PersistRead(s) \/ PersistWrite(s)
    PROVE  Tidy'
<1>1. SaverRecord(s) /\ DOMAIN saver = Savers
  BY DEF Tidy, Records
<1>2. UNCHANGED <<owners, hosts, sessions, conn, logout>>
  BY DEF PersistLook, PersistRead, PersistWrite, cluster
<1>3. CASE PersistLook(s)
  <2>1. PICK u \in Users : u = saver[s].user
    BY <1>1, <1>3 DEF PersistLook, SaverRecord
  <2>2. PICK r : r = IF u \in DOMAIN sessions /\ healthy[sessions[u].node]
                     THEN [saver[s] EXCEPT !.pc = "read", !.map = sessions[u].map,
                                           !.node = sessions[u].node]
                     ELSE NotSaving
    OBVIOUS
  <2>3. saver' = [saver EXCEPT ![s] = r] /\ UNCHANGED profile
    BY <1>1, <1>3, <2>1, <2>2 DEF PersistLook
  <2>4. CASE u \in DOMAIN sessions /\ healthy[sessions[u].node]
    <3>1. r = [saver[s] EXCEPT !.pc = "read", !.map = sessions[u].map, !.node = sessions[u].node]
          /\ sessions[u].map \in Maps
      BY <2>2, <2>4 DEF Tidy, SessionsOwned
    <3>2. r = [pc |-> "read", user |-> u, map |-> sessions[u].map, node |-> sessions[u].node,
               profile |-> saver[s].profile]
      BY <1>1, <2>1, <3>1 DEF SaverRecord
    <3> QED BY <1>2, <2>3, <3>1, <3>2, SaverSet, SaverTidy DEF Tidy, Records
  <2>5. CASE ~(u \in DOMAIN sessions /\ healthy[sessions[u].node])
    <3>1. r = [pc |-> "idle", user |-> None, map |-> None, node |-> None, profile |-> Nothing]
      BY <2>2, <2>5 DEF NotSaving
    <3> QED BY <1>2, <2>3, <3>1, SaverSet, SaverTidy DEF Tidy, Records
  <2> QED BY <2>4, <2>5
<1>4. CASE PersistRead(s)
  <2>1. saver[s].pc = "read" /\ saver[s].map \in Maps /\ saver[s].user \in Users
    BY <1>1, <1>4 DEF PersistRead, SaverRecord
  <2>2. PICK p : p = ProfileAt(saver[s].node, saver[s].map, saver[s].user)
    OBVIOUS
  <2>3. PICK r : r = IF Stands(saver[s].node, saver[s].map, saver[s].user)
                     THEN [saver[s] EXCEPT !.pc = "write", !.profile = p] ELSE NotSaving
    OBVIOUS
  <2>4. saver' = [saver EXCEPT ![s] = r] /\ UNCHANGED profile
    BY <1>1, <1>4, <2>2, <2>3 DEF PersistRead
  <2>5. p.map \in Maps
    BY <2>1, <2>2 DEF ProfileAt, Profile
  <2>6. CASE Stands(saver[s].node, saver[s].map, saver[s].user)
    <3>1. r = [saver[s] EXCEPT !.pc = "write", !.profile = p]
      BY <2>3, <2>6
    <3>2. r = [pc |-> "write", user |-> saver[s].user, map |-> saver[s].map,
               node |-> saver[s].node, profile |-> p]
      BY <1>1, <3>1 DEF SaverRecord
    <3> QED BY <1>2, <2>1, <2>4, <2>5, <3>2, SaverSet, SaverTidy DEF Tidy, Records
  <2>7. CASE ~Stands(saver[s].node, saver[s].map, saver[s].user)
    <3>1. r = [pc |-> "idle", user |-> None, map |-> None, node |-> None, profile |-> Nothing]
      BY <2>3, <2>7 DEF NotSaving
    <3> QED BY <1>2, <2>4, <3>1, SaverSet, SaverTidy DEF Tidy, Records
  <2> QED BY <2>6, <2>7
<1>5. CASE PersistWrite(s)
  <2>1. saver[s].user \in Users /\ saver[s].profile.map \in Maps
    BY <1>1, <1>5 DEF PersistWrite, SaverRecord
  <2>2. PICK r : r = NotSaving
    OBVIOUS
  <2>3. r = [pc |-> "idle", user |-> None, map |-> None, node |-> None, profile |-> Nothing]
    BY <2>2 DEF NotSaving
  <2>4. saver' = [saver EXCEPT ![s] = r]
        /\ profile' = [profile EXCEPT ![saver[s].user] = saver[s].profile]
    BY <1>5, <2>2 DEF PersistWrite
  <2>5. DOMAIN saver' = Savers /\ \A t \in Savers : SaverRecord(t)'
    BY <2>3, <2>4, SaverSet DEF Tidy
  <2>6. DOMAIN profile' = Users /\ \A u \in Users : profile'[u].map \in Maps
    BY <2>1, <2>4, ProfileSet DEF Tidy
  <2> QED BY <1>2, <2>5, <2>6, SaverTidy
<1> QED BY <1>3, <1>4, <1>5

LEMMA ServeTidy ==
    ASSUME SessionAssumption, Patient, Shape, HostedOnce, Tidy, NEW c \in Conns, Serve(c)
    PROVE  Tidy'
BY AuthenticateTidy, LoginCheckTidy, LoginAddTidy, LoginEnterTidy, ReturnTidy, CommandTidy,
   ActTidy, SaveActedTidy, SwitchMapTidy, SwitchLookTidy, SwitchRemoveTidy, SwitchArriveTidy,
   SwitchUpdateTidy, SwitchStoreTidy, LogoutTidy, LogoutRemoveTidy, LogoutSaveTidy, CloseTidy
   DEF Serve

\* While nothing fails, the heartbeats find every node.
LEMMA OperateUp ==
    ASSUME ClusterAssumption, Shape, Counted, AllUp, Operate, Untouched'
    PROVE  AllUp' /\ UNCHANGED <<owners, hosts, play>>
<1>1. UNCHANGED play
  BY DEF Operate
<1>2. CASE \E n \in Nodes : Fail(n) \/ Recover(n)
  BY <1>2 DEF Fail, Recover, Untouched, Counted
<1>3. CASE Checkpoints
  BY <1>1, <1>3 DEF Checkpoints, Plan, Take, Save, Copy, metadata, nodes, health, play, AllUp, Free
<1>4. CASE Stop \/ Down \/ Up \/ Reload \/ End \/ AdminHandles \/ HeartHandles
  BY <1>4 DEF Stop, Down, Up, Reload, End, AdminHandles, HeartHandles, AllUp
<1>5. CASE Ping
  <2>1. heart.node \in Nodes
    BY DEF Shape
  <2>2. listening[heart.node] = TRUE
    BY <2>1 DEF AllUp
  <2>3. lost' = lost
    BY <1>5 DEF Ping, Untouched, Counted
  <2>4. heart' = [heart EXCEPT !.pc = "alive"]
    BY <1>5, <2>2, <2>3 DEF Ping, Counted
  <2>5. heart'.pc = "alive"
    BY <2>4 DEF Shape
  <2>6. UNCHANGED <<owners, hosts, mu, admin, listening>>
    BY <1>5 DEF Ping, metadata, nodes
  <2> QED BY <1>1, <2>5, <2>6 DEF AllUp, Free, play
<1>6. CASE Heard
  <2>1. heart' = Following(heart.node) /\ heart.node \in Nodes
    BY <1>6 DEF Heard, AllUp, Shape
  <2>2. heart'.pc = "idle"
    BY <2>1 DEF Following
  <2>3. UNCHANGED <<owners, hosts, mu, admin, listening>>
    BY <1>6 DEF Heard, metadata, nodes
  <2> QED BY <1>1, <2>2, <2>3 DEF AllUp, Free, play
<1> QED BY <1>2, <1>3, <1>4, <1>5, <1>6 DEF Operate

LEMMA SessionsKeepNodes ==
    ASSUME Sessions
    PROVE  /\ UNCHANGED <<mu, admin, heart, listening, lost, commands>>
           /\ rescue' = rescue \/ Rescue
<1>1. ASSUME NEW c \in Conns, Serve(c)
      PROVE  UNCHANGED <<mu, admin, heart, listening, lost, commands, rescue>>
  <2>1. CASE LoginAdd(c) \/ SwitchRemove(c) \/ SwitchArrive(c) \/ LogoutRemove(c) \/ Act(c)
    BY <2>1 DEF LoginAdd, SwitchRemove, SwitchArrive, LogoutRemove, Act, AfterHosts, health, bounds
  <2>2. CASE ~(LoginAdd(c) \/ SwitchRemove(c) \/ SwitchArrive(c) \/ LogoutRemove(c) \/ Act(c))
    BY <1>1, <2>2 DEF Serve, Authenticate, LoginCheck, LoginEnter, Return, Command, SaveActed,
          SwitchMap, SwitchLook, SwitchUpdate, SwitchStore, Logout, LogoutSave, Close, cluster
  <2> QED BY <2>1, <2>2
<1> QED BY <1>1 DEF Sessions, Flush, PersistLook, PersistRead, PersistWrite, Rescue, cluster

LEMMA CountedStep ==
    ASSUME ClusterAssumption, Counted, [CNext]_cvars
    PROVE  Counted' /\ (Untouched' => Untouched)
<1>1. CASE Sessions \/ UNCHANGED cvars
  <2>1. UNCHANGED <<commands, lost>>
    BY <1>1, SessionsKeepNodes DEF cvars, cluster
  <2> QED BY <2>1 DEF Counted, Untouched
<1>2. CASE FailoverStep
  BY <1>2 DEF FailoverStep, FailoverNext, health, bounds, Counted, Untouched
<1>3. CASE Operate
  <2>1. /\ commands' \in {commands, commands + 1} /\ lost' \in {lost, lost + 1}
    BY <1>3 DEF Operate, Fail, Recover, Checkpoints, Plan, Take, Save, Copy, Stop, Down, Up,
                Reload, Ping, Heard, End, AdminHandles, HeartHandles, health, bounds
  <2> QED BY <2>1 DEF Counted, Untouched
<1> QED BY <1>1, <1>2, <1>3 DEF CNext, Sessions

LEMMA InitLocated ==
    ASSUME ClusterAssumption, SessionAssumption, CInit
    PROVE  Located
<1>1. Counted /\ AllUp
  BY DEF CInit, Init, Counted, AllUp, Free, Quiet
<1>2. Least(Maps) \in Maps
  BY LeastOf DEF ClusterAssumption, SessionAssumption
<1>3. Records
  <2>1. \A c \in Conns : ConnRecord(c)
    BY DEF CInit, Out, ConnRecord, ConnSteps
  <2>2. \A c \in Conns : LogoutRecord(c)
    BY DEF CInit, NotLeaving, LogoutRecord
  <2>3. \A s \in Savers : SaverRecord(s)
    BY DEF CInit, NotSaving, SaverRecord
  <2>4. \A u \in Users : profile[u].map \in Maps
    BY <1>2 DEF CInit, Profile
  <2> QED BY <2>1, <2>2, <2>3, <2>4 DEF CInit, Records
<1>4. DOMAIN sessions = {} /\ SessionsOwned
  BY DEF CInit, SessionsOwned
<1>5. \A c \in Conns : conn[c].pc = "out" /\ conn[c].user = None /\ logout[c].pc = "no"
  BY DEF CInit, Out, NotLeaving
<1>6. \A u \in Users : places[u] = {}
  <2>1. FreshWorld = <<>>
    BY DEF SessionAssumption
  <2>2. \A n \in Nodes : \A m \in DOMAIN hosts[n] : DOMAIN hosts[n][m] = {}
    BY <2>1 DEF CInit, Init
  <2> QED BY <2>2 DEF places, Stands
<1>7. OneConn
  BY <1>5 DEF OneConn, SessionAssumption
<1>8. GoneAway
  BY <1>4, <1>6 DEF GoneAway, Away
<1>9. \A c \in Conns : Whereabouts(c)
  BY <1>5 DEF Whereabouts
<1> QED BY <1>1, <1>3, <1>4, <1>7, <1>8, <1>9 DEF Located, Tidy

LEMMA LocatedStep ==
    ASSUME ClusterAssumption, SessionAssumption, Patient, IInv, Located, [CNext]_cvars
    PROVE  Located'
<1>1. Counted' /\ (Untouched' => Untouched)
  BY CountedStep DEF Located
<1> SUFFICES ASSUME Untouched' PROVE AllUp' /\ Tidy'
  BY <1>1 DEF Located
<1>2. AllUp /\ Tidy /\ Shape /\ HostedOnce /\ Counted
  BY <1>1 DEF Located, IInv, Safe
<1>3. CASE UNCHANGED cvars
  <2>1. UNCHANGED <<owners, hosts, sessions, conn, logout, saver, profile>>
    BY <1>3 DEF cvars, cluster, play
  <2>2. Tidy'
    BY <1>2, <2>1, SaverTidy, SameSavers DEF Tidy, Records
  <2> QED BY <1>2, <1>3, <2>2 DEF AllUp, Free, cvars, cluster, play
<1>4. CASE Sessions
  <2>1. ~Rescue
    BY <1>2 DEF Rescue, AllUp
  <2>2. Tidy'
    BY <1>2, <1>4, <2>1, ServeTidy, FlushTidy, PersistTidy DEF Sessions
  <2>3. UNCHANGED <<mu, admin, heart, listening, rescue>>
    BY <1>4, <2>1, SessionsKeepNodes
  <2> QED BY <1>2, <2>2, <2>3 DEF AllUp, Free
<1>5. CASE FailoverStep
  BY <1>2, <1>5 DEF FailoverStep, FailoverNext, AllUp
<1>6. CASE Operate
  <2>1. AllUp' /\ UNCHANGED <<owners, hosts, play>>
    BY <1>2, <1>6, OperateUp
  <2> QED BY <1>2, <2>1, SaverTidy, SameSavers DEF Tidy, Records, play
<1> QED BY <1>3, <1>4, <1>5, <1>6 DEF CNext, Sessions

\* A player whose operations wait for each other is in one world at most,
\* whatever it does, and what the flush loop and checkpoints do meanwhile; and
\* whenever none of its operations runs, it stands in the world of its session,
\* on the node that owns it. So it is until a node is first failed, recovered or
\* taken for dead.
THEOREM PlayersAtHome ==
    ASSUME ClusterAssumption, SessionAssumption, Patient
    PROVE  CSpec => [](Untouched => Home /\ UniqueHome)
<1>1. CInit => IInv /\ Located
  BY InitIInv, InitLocated DEF CInit
<1>2. IInv /\ Located /\ [CNext]_cvars => Located'
  BY LocatedStep
<1>3. Located => (Untouched => Home /\ UniqueHome)
  <2> SUFFICES ASSUME Tidy PROVE Home /\ UniqueHome
    BY DEF Located
  <2>1. ASSUME NEW u \in Users PROVE places[u] = {} \/ \E x : places[u] = {x}
    <3>1. CASE \A c \in Conns : conn[c].user # u
      BY <3>1 DEF Tidy, GoneAway, Away
    <3>2. CASE \E c \in Conns : conn[c].user = u
      <4>1. PICK c \in Conns : conn[c].user = u /\ Whereabouts(c) /\ ConnRecord(c) /\ LogoutRecord(c)
        BY <3>2 DEF Tidy, Records
      <4> QED BY <4>1 DEF Whereabouts, Away, Visiting, Place, ConnRecord, LogoutRecord, ConnSteps,
                          SessionAssumption
    <3> QED BY <3>1, <3>2
  <2>2. UniqueHome
    <3> SUFFICES ASSUME NEW u \in Users
                 PROVE  Cardinality({x \in Nodes \X Maps : Stands(x[1], x[2], u)}) <= 1
      BY DEF UniqueHome
    <3>1. CASE places[u] = {}
      BY <3>1, FS_EmptySet DEF places
    <3>2. CASE places[u] # {}
      <4>1. PICK x : places[u] = {x}
        BY <2>1, <3>2
      <4>2. Cardinality({x}) = 1
        BY FS_Singleton
      <4> QED BY <4>1, <4>2 DEF places
    <3> QED BY <3>1, <3>2
  <2>3. ASSUME NEW u \in DOMAIN sessions, Idle(u)
        PROVE  sessions[u].node = owners[sessions[u].map]
               /\ Stands(owners[sessions[u].map], sessions[u].map, u)
    <3>1. u \in Users /\ sessions[u].node = owners[sessions[u].map]
      BY DEF Tidy, SessionsOwned
    <3>2. PICK c \in Conns : conn[c].user = u
      BY <3>1 DEF Tidy, GoneAway, Away
    <3>3. Visiting(u)
      BY <2>3, <3>1, <3>2 DEF Tidy, Whereabouts, Idle, Active, SessionAssumption
    <3>4. <<owners[sessions[u].map], sessions[u].map>> \in places[u]
      BY <3>3 DEF Visiting, Place
    <3> QED BY <3>1, <3>4 DEF places
  <2> QED BY <2>2, <2>3 DEF Home, Routed, InWorld
<1> QED BY <1>1, <1>2, <1>3, SessionsInvariance, PTL DEF CSpec
=============================================================================
