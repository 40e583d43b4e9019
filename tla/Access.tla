------------------------------- MODULE Access -------------------------------
(***************************************************************************)
(* What the service promises about membership, without tables: every user  *)
(* has a set of Spliit groups made available to their session, and at most *)
(* one of those is the group tools fall back to.  This is the              *)
(* authorization boundary of internal/store: "a group the user has not     *)
(* registered is simply not found".                                        *)
(***************************************************************************)

CONSTANTS User, Group, None

VARIABLES avail,     \* [User -> SUBSET Group]
          fallback   \* [User -> Group or None]

vars == <<avail, fallback>>

Init ==
    /\ avail    = [u \in User |-> {}]
    /\ fallback = [u \in User |-> None]

\* Registering is something each user does for themselves, once per group.
Register(u, g) ==
    /\ g \notin avail[u]
    /\ avail' = [avail EXCEPT ![u] = @ \cup {g}]
    /\ UNCHANGED fallback

\* Leaving a group that is the default clears the default with it.
Leave(u, g) ==
    /\ g \in avail[u]
    /\ avail'    = [avail EXCEPT ![u] = @ \ {g}]
    /\ fallback' = [fallback EXCEPT ![u] = IF @ = g THEN None ELSE @]

Choose(u, g) ==
    /\ g \in avail[u]
    /\ fallback' = [fallback EXCEPT ![u] = g]
    /\ UNCHANGED avail

Clear(u) ==
    /\ fallback' = [fallback EXCEPT ![u] = None]
    /\ UNCHANGED avail

Next ==
    \E u \in User :
        \/ Clear(u)
        \/ \E g \in Group : Register(u, g) \/ Leave(u, g) \/ Choose(u, g)

Spec == Init /\ [][Next]_vars

\* The fallback is always one of the user's own groups.
FallbackIsOwn ==
    \A u \in User : fallback[u] # None => fallback[u] \in avail[u]
=============================================================================
