---------------------------- MODULE MCFileTransfer ----------------------------
(* Model-checking instance of FileTransfer: users and heap cells are        *)
(* interchangeable.                                                         *)
EXTENDS FileTransfer, TLC

Symmetry == Permutations(Users) \cup Permutations(Cells)
=============================================================================
