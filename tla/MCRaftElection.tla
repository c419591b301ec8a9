--------------------------- MODULE MCRaftElection ---------------------------
(* Model-checking instance of RaftElection. *)
EXTENDS RaftElection, TLC

Symmetry == Permutations(Node)
=============================================================================
