------------------------------ MODULE MCLogin ------------------------------
(* One user whose browser has any number of tabs, two replicas whose clocks *)
(* differ by one tick, and a group to choose as the default.                *)
EXTENDS Login

CONSTANTS u1, b1, r1, r2, n2, id1

TheOne   == [b \in Browser |-> u1]
OneAhead == [r \in Replica |-> IF r = r1 THEN 0 ELSE 1]
\* Both fields, with a group; and the default cleared alone.
NameAndDefault == {<<n2, id1>>, <<None, None>>}
=============================================================================
