--------------------------- MODULE ConsistentHash ---------------------------
(* The hash ring of                                                        *)
(*   src/CourseCode/ch5/exp3/cmd/consistent_hash_virtual/main.go           *)
(* and, with one key per node and the ranges of MigratePhysical, of        *)
(*   src/CourseCode/ch5/exp3/cmd/consistent_hash_physical/main.go          *)
(* What MD5 makes of the names is any function: the initial state picks    *)
(* it. There is a player at every place of the ring.                       *)
EXTENDS Naturals, Sequences, FiniteSets, SequencesExt, TLC

CONSTANTS Nodes,     \* initialNodes: buildNodeNames gives 0..Nodes-1
          Replicas,  \* replicas, 1 for the physical ring
          Places,    \* number of hash values: 2^32 in the code
          Physical   \* whether MigrateRanges is that of the physical ring

HashAssumption == /\ Nodes \in Nat \ {0} /\ Replicas \in Nat \ {0}
                         /\ Places \in Nat \ {0} /\ Physical \in BOOLEAN

Hash == 0..(Places - 1)
NewNode == Nodes                \* newNode := Node-<initialNodes>
Node == 0..Nodes

VARIABLES hash,     \* hash(node#i); constant during a run
          ring,     \* HashRing.ring: key -> node
          sorted,   \* HashRing.sorted
          added,    \* the nodes 0..added-1 are on the ring
          before,   \* beforeAssign; <<>> until it is built
          migrate   \* the ranges of MigrateRanges

vars == <<hash, ring, sorted, added, before, migrate>>

MigrateRange == [from : Node, start : Hash, end : Hash]

TypeOK == /\ hash \in [Node -> [1..Replicas -> Hash]]
          /\ added \in 0..(Nodes + 1)
          /\ DOMAIN ring = ToSet(sorted) /\ ToSet(ring) \subseteq Node
          /\ ToSet(sorted) \subseteq Hash /\ Len(sorted) = added * Replicas
          /\ before = <<>> \/ before \in [Hash -> Node]
          /\ migrate \in Seq(MigrateRange)

Init == /\ hash \in [Node -> [1..Replicas -> Hash]]
        /\ ring = <<>> /\ sorted = <<>> /\ added = 0
        /\ before = <<>> /\ migrate = <<>>

\* sort.Search for the first entry at or after h; Len(sorted) + 1 if none.
Search(h) == LET hits == {i \in DOMAIN sorted : sorted[i] >= h}
             IN  IF hits = {} THEN Len(sorted) + 1
                 ELSE CHOOSE i \in hits : \A j \in hits : i <= j

\* Lookup: past the last entry the ring starts again.
Lookup_Last(h) ==
  LET i == Search(h) IN ring[sorted[IF i > Len(sorted) THEN Len(sorted) ELSE i]]
Lookup_Modulo(h) == ring[sorted[(h % Len(sorted)) + 1]]
Lookup(h) == LET i == Search(h) IN ring[sorted[IF i > Len(sorted) THEN 1 ELSE i]]

\* AddNode: a key that is already on the ring changes hands, and is then in
\* sorted twice.
AddNode_NoSort(n) ==
  /\ ring' = [k \in ToSet(hash[n]) |-> n] @@ ring
  /\ sorted' = sorted \o hash[n]
  /\ added' = n + 1
AddNode_Dedup(n) ==
  /\ ring' = [k \in ToSet(hash[n]) |-> n] @@ ring
  /\ sorted' = SetToSortSeq(ToSet(sorted \o hash[n]), LAMBDA a, b : a < b)
  /\ added' = n + 1
AddNode(n) ==
  /\ ring' = [k \in ToSet(hash[n]) |-> n] @@ ring
  /\ sorted' = SortSeq(sorted \o hash[n], LAMBDA a, b : a < b)
  /\ added' = n + 1

\* MigrateRanges, virtual: one range per key of the new node, its end.
MigrateVirtual ==
  [r \in 1..Replicas |->
     LET i == Search(hash[NewNode][r])
         n == Len(sorted)
     IN  [from  |-> ring[sorted[IF i > n THEN 1 ELSE i]],
          start |-> sorted[IF i = 1 THEN n ELSE i - 1],
          end   |-> hash[NewNode][r]]]

\* MigrateRanges, physical: the same computed with prevIdx and srcIdx.
MigratePhysical_NoWrap ==
  LET i   == Search(hash[NewNode][1])
      n   == Len(sorted)
      src == IF i <= n THEN i ELSE n
  IN  <<[from |-> ring[sorted[src]], start |-> sorted[IF i > 1 THEN i - 1 ELSE n],
         end |-> hash[NewNode][1]]>>
MigratePhysical ==
  LET i    == Search(hash[NewNode][1])
      n    == Len(sorted)
      prev == IF i > 1 THEN i - 1 ELSE n
      src  == IF i <= n THEN i ELSE 1
  IN  <<[from |-> ring[sorted[src]], start |-> sorted[prev],
         end |-> hash[NewNode][1]]>>

\* BuildRing for the initial nodes.
Build == /\ added < Nodes
         /\ AddNode(added)
         /\ UNCHANGED <<hash, before, migrate>>

\* buildAssignments on the old ring, and MigrateRanges.
Assign == /\ added = Nodes /\ before = <<>>
          /\ before' = [h \in Hash |-> Lookup(h)]
          /\ migrate' = IF Physical THEN MigratePhysical ELSE MigrateVirtual
          /\ UNCHANGED <<hash, ring, sorted, added>>

\* The ring is built again with the new node added last.
Expand == /\ added = Nodes /\ before # <<>>
          /\ AddNode(NewNode)
          /\ UNCHANGED <<hash, before, migrate>>

Next == Build \/ Assign \/ Expand
Spec == Init /\ [][Next]_vars

(* ----------------------------- properties ------------------------------ *)

\* The range (start, end], which may pass the end of the ring; the whole ring
\* when start = end (drawMigrateRangesOnRing draws it so).
InRange(h, r) == IF r.start < r.end THEN r.start < h /\ h <= r.end
                 ELSE r.start < h \/ h <= r.end

\* Adding a node moves players to that node only, wherever its keys fall,
\* also on keys of another node.
MovesToNew == added' > added /\ added > 0 =>
                \A h \in Hash : Lookup(h)' \in {Lookup(h), added}
LocalMoves == [][MovesToNew]_vars

\* The ranges computed on the old ring are what the growth of the ring does:
\* the players of the ranges, and no others, go to the new node, each from
\* the node its range names.
RangesAreMoves ==
  added = Nodes + 1 =>
    \A h \in Hash :
      LET mine == {i \in DOMAIN migrate : InRange(h, migrate[i])}
      IN  /\ Lookup(h) = NewNode <=> mine # {}
          /\ \A i \in mine : migrate[i].from = before[h]

\* A range is what one virtual node takes over: unless keys collide, no player
\* is in two of them.
RangesDisjoint ==
  (\A n, m \in Node, i, j \in 1..Replicas : hash[n][i] = hash[m][j] => <<n, i>> = <<m, j>>) =>
  \A h \in Hash, i, j \in DOMAIN migrate :
    InRange(h, migrate[i]) /\ InRange(h, migrate[j]) => i = j
=============================================================================
