----------------------------- MODULE MCDirectory -----------------------------
(***************************************************************************)
(* Two persons: the window clients are one's, the command-line clients the *)
(* other's.  The lists of users: one with a user who may have no account   *)
(* when the group is made and one with another user; for the profiles,     *)
(* nobody, and a list that is too long.                                    *)
(***************************************************************************)
EXTENDS Directory, TLC

CONSTANTS w1, w2, t1, t2, g1, g2, p1, p2

MCPerson == [c \in Clients |-> IF c \in Windows THEN p1 ELSE p2]
MCOne  == <<p1>>
MCBoth == <<p1, p2>>
MCSymmetry == Permutations(Windows) \cup Permutations(Clients \ Windows) \cup Permutations(Gids)
MCLists == {<<3, 1>>, <<2>>}
MCOddLists == {<<>>, <<1, 2, 3>>}
=============================================================================
