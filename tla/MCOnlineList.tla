---------------------------- MODULE MCOnlineList ----------------------------
(* Model-checking instance of OnlineList: the symmetry of connections,     *)
(* uids and heap cells (used by the runs without liveness properties).     *)
EXTENDS OnlineList, TLC

Symmetry == Permutations(Conns) \cup Permutations(Uids) \cup Permutations(Cells)
=============================================================================
