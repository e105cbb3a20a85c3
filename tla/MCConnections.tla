---------------------------- MODULE MCConnections ----------------------------
(* Model-checking instance of Connections: clients and uids can be swapped. *)
EXTENDS Connections, TLC

Symmetry == Permutations(Clients) \cup Permutations(Uids)
=============================================================================
