--------------------------- MODULE MCExpenseTools ---------------------------
(***************************************************************************)
(* Instances of ExpenseTools.                                              *)
(***************************************************************************)
EXTENDS ExpenseTools, TLC

CONSTANTS c1, anna

\* Moving an expense to either end of the list, and sharing it anew.
Moves == {ch \in Change : /\ ch.amount = None /\ ch.payer = None
                          /\ ch.date \in {None, 0, LastDate}
                          /\ ch.date = None \/ ~ch.shared}

AllAnna == [c \in Caller |-> anna]

Everyone(tools) == [c \in Caller |-> tools]
OnlyList == Everyone({"list"})
OnlyUpdate == Everyone({"update"})

\* One call reads the list while another changes it; either deletes.
Reader == [c \in Caller |-> IF c = c1 THEN {"create", "list", "delete"}
                            ELSE {"update", "delete"}]
=============================================================================
