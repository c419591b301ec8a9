------------------------- MODULE MCTreasureTransfer -------------------------
(* Model-checking instance of TreasureTransfer. *)
EXTENDS TreasureTransfer, TLC

\* Players, maps and trades are interchangeable.
Symmetry == Permutations(Player) \cup Permutations(Map) \cup Permutations(Trade)
=============================================================================
