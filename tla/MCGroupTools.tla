---------------------------- MODULE MCGroupTools ----------------------------
(***************************************************************************)
(* Instances of GroupTools.  Model values stand for users, groups and IDs; *)
(* alias a2 is what registerGroup tries after a1, as "trip-2" after "trip".*)
(***************************************************************************)
EXTENDS GroupTools, TLC

CONSTANTS i1, g1, g2, p1, p2, p3, a1, a2

\* One group somebody made outside the service, with two participants.
OneGroup == [g \in Group |-> IF g = <<i1, g1>> THEN {p1, p2} ELSE {}]
TwoTries == [a \in Alias |-> IF a = a1 THEN <<a1, a2>> ELSE <<a>>]
OneTry == [a \in Alias |-> <<a>>]

Symmetry == Permutations(User) \cup Permutations(Call) \cup Permutations(RowId)
=============================================================================
