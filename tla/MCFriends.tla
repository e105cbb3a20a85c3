------------------------------ MODULE MCFriends ------------------------------
(* Model-checking instance of Friends: users are interchangeable.          *)
EXTENDS Friends, TLC

Symmetry == Permutations(Users)
=============================================================================
