------------------------------ MODULE MCStore ------------------------------
(* Two users, two group IDs on two instances, two aliases, three row IDs:  *)
(* every pair of rows can collide on either key, on both, or on neither,   *)
(* and alias g1 is also the ID of a group.                                 *)
EXTENDS Store, TLC

Symmetry == Permutations(User) \cup Permutations(Instance)
=============================================================================
