------------------------------- MODULE Migrate -------------------------------
(***************************************************************************)
(* Schema migrations: db.Open and Migrate of internal/db, as run by every  *)
(* process that starts (`serve' and `migrate' of cmd/spliit-mcp), several  *)
(* of them at once and of different builds, over one database.             *)
(*                                                                         *)
(* One action is one SQL statement.  A migration is one transaction: what  *)
(* it has done is seen by nobody until the commit, and an uncommitted      *)
(* change of the same tables makes another process wait.  Whatever goes    *)
(* wrong ends the process with its transaction rolled back; the            *)
(* orchestrator starts it again, perhaps with another build.               *)
(***************************************************************************)
EXTENDS Integers

CONSTANTS Process,
          Builds,       \* by how many migrations each ships, 001 to that
          Latest,       \* the most any of them ships
          Repeatable,   \* migrations whose SQL the engine accepts again
          MaxStops      \* bound of a run: crashes and failed statements

Version == 1 .. Latest

ASSUME BuildsAssumption ==
    /\ Latest \in Nat /\ MaxStops \in Nat
    /\ Builds \subseteq 0 .. Latest
    /\ Repeatable \subseteq Version

VARIABLES applied,   \* rows of schema_migrations
          changed,   \* [Version -> Nat]: times its SQL was committed
          table,     \* schema_migrations exists
          proc,      \* [Process -> its place, build and next migration]
          stops      \* failures so far

vars == <<applied, changed, table, proc, stops>>

Down  == [at |-> "down", ships |-> 0, next |-> 1]
InTx(p) == proc[p].at \in {"record", "commit"}

Init ==
    /\ applied = {}
    /\ changed = [v \in Version |-> 0]
    /\ table = FALSE
    /\ proc = [p \in Process |-> Down]
    /\ stops = 0

Goto(p, at) == proc' = [proc EXCEPT ![p].at = at]

\* An error return of Migrate or a crash: the deferred Rollback, or the engine
\* when the connection is gone.
Exit(p) == proc' = [proc EXCEPT ![p] = Down]

-----------------------------------------------------------------------------

Start(p, b) ==
    /\ proc[p].at = "down"
    /\ proc' = [proc EXCEPT ![p] = [at |-> "create", ships |-> b, next |-> 1]]
    /\ UNCHANGED <<applied, changed, table, stops>>

CreateTable(p) ==
    /\ proc[p].at = "create"
    /\ table' = TRUE
    /\ Goto(p, "read")
    /\ UNCHANGED <<applied, changed, stops>>

\* SELECT COALESCE(MAX(version), 0).
Current == CHOOSE m \in applied \cup {0} : \A v \in applied : v <= m

FirstNewer_Same == IF Current = 0 THEN 1 ELSE Current
\* The first of the sorted migrations that is not `<= current'.
FirstNewer == Current + 1

ProceedTo_NoEnd(p, v) ==
    proc' = [proc EXCEPT ![p].at = "apply", ![p].next = v]
ProceedTo_NewestFirst(p, v) ==
    proc' = [proc EXCEPT
        ![p].at = IF v <= proc[p].ships THEN "apply" ELSE "serve",
        ![p].next = IF v = 1 /\ proc[p].ships > 0 THEN proc[p].ships ELSE v]

\* The loop of Migrate: v is the next migration to apply, if the build has it.
ProceedTo(p, v) ==
    proc' = [proc EXCEPT
        ![p].at = IF v <= proc[p].ships THEN "apply" ELSE "serve", ![p].next = v]

ReadVersion(p) ==
    /\ proc[p].at = "read"
    /\ ProceedTo(p, FirstNewer)
    /\ UNCHANGED <<applied, changed, table, stops>>

\* Another transaction has changed what this migration changes.
Blocked(p) == \E q \in Process \ {p} : InTx(q) /\ proc[q].next = proc[p].next

Apply_SkipBusy(p) ==
    /\ proc[p].at = "apply"
    /\ IF Blocked(p) THEN ProceedTo(p, proc[p].next + 1)
       ELSE IF proc[p].next \in applied \ Repeatable THEN Exit(p) ELSE Goto(p, "record")
    /\ UNCHANGED <<applied, changed, table, stops>>

\* The migration's SQL, in a new transaction; most of it fails when somebody
\* has committed the migration since the version was read.
Apply(p) ==
    /\ proc[p].at = "apply" /\ ~Blocked(p)
    /\ IF proc[p].next \in applied \ Repeatable THEN Exit(p) ELSE Goto(p, "record")
    /\ UNCHANGED <<applied, changed, table, stops>>

\* SQLite waits for five seconds only.
GiveUp(p) ==
    /\ proc[p].at = "apply" /\ Blocked(p)
    /\ Exit(p)
    /\ UNCHANGED <<applied, changed, table, stops>>

Record_NoKey(p) ==
    /\ proc[p].at = "record"
    /\ Goto(p, "commit")
    /\ UNCHANGED <<applied, changed, table, stops>>

\* INSERT INTO schema_migrations: version is its primary key.
Record(p) ==
    /\ proc[p].at = "record"
    /\ IF proc[p].next \in applied THEN Exit(p) ELSE Goto(p, "commit")
    /\ UNCHANGED <<applied, changed, table, stops>>

\* The SQL and the row at once; the process may not learn of it.
Commit(p, heard) ==
    /\ proc[p].at = "commit"
    /\ applied' = applied \cup {proc[p].next}
    /\ changed' = [changed EXCEPT ![proc[p].next] = @ + 1]
    /\ IF heard THEN ProceedTo(p, proc[p].next + 1) ELSE Exit(p)
    /\ UNCHANGED <<table, stops>>

\* A crash, a signal, or a statement that fails for the database's own reasons.
Stop(p) ==
    /\ stops < MaxStops /\ proc[p].at # "down"
    /\ stops' = stops + 1
    /\ Exit(p)
    /\ UNCHANGED <<applied, changed, table>>

Begin(p) == \E b \in Builds : Start(p, b)
Step(p) == \/ CreateTable(p) \/ ReadVersion(p) \/ Apply(p) \/ GiveUp(p)
           \/ Record(p) \/ \E heard \in BOOLEAN : Commit(p, heard)

Next == \E p \in Process : Begin(p) \/ Step(p) \/ Stop(p)

Spec == Init /\ [][Next]_vars

\* A running process goes on, and one that ended is started again.
FairSpec == Spec /\ \A p \in Process : WF_vars(Begin(p)) /\ WF_vars(Step(p))

-----------------------------------------------------------------------------
(* Properties *)

Places == {"down", "create", "read", "apply", "record", "commit", "serve"}

\* Type invariant.
MigrateTypeOK ==
    /\ applied \in SUBSET Version
    /\ changed \in [Version -> Nat]
    /\ table \in BOOLEAN
    /\ proc \in [Process -> [at : Places, ships : 0 .. Latest, next : 1 .. Latest + 1]]
    /\ stops \in Nat

\* The SQL of a migration is committed once if it is recorded and never if it
\* is not, however many processes found it missing (applyMigration's
\* transaction and the key of schema_migrations).
AppliedOnce ==
    \A v \in Version : changed[v] = IF v \in applied THEN 1 ELSE 0

\* A process serves requests only over a schema that has every migration its
\* build was written for (runServe after Migrate).
ServesMigrated ==
    \A p \in Process : proc[p].at = "serve" => 1 .. proc[p].ships \subseteq applied

\* What makes these inductive.  The recorded versions have no gap, so their
\* number says which they are; a process that is to apply a migration finds
\* all earlier ones applied; and one about to commit is alone with it, since
\* no other transaction of that migration is open and none was committed.
NoGap == \E n \in 0 .. Latest : applied = 1 .. n
InOrder ==
    \A p \in Process :
        proc[p].at \in {"apply", "record", "commit"} =>
            proc[p].next <= proc[p].ships /\ 1 .. proc[p].next - 1 \subseteq applied
OneTx ==
    \A p, q \in Process :
        InTx(p) /\ InTx(q) /\ proc[p].next = proc[q].next => p = q
Uncommitted ==
    \A p \in Process : proc[p].at = "commit" => proc[p].next \notin applied
MigrateInv ==
    /\ MigrateTypeOK /\ NoGap /\ AppliedOnce
    /\ InOrder /\ OneTx /\ Uncommitted /\ ServesMigrated

Sch == INSTANCE Schema WITH version <- Current

\* The migrations reach the database one by one and in their order.
SchemaSpec == Sch!Spec

\* Once nothing else fails, every process comes to serve, although losing a
\* race for a migration ends a process with an error.
AllServe == \A p \in Process : <>[](proc[p].at = "serve")
=============================================================================
