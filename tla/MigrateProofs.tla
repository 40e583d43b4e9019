---------------------------- MODULE MigrateProofs ----------------------------
(***************************************************************************)
(* Theorems about module Migrate, for any number of processes, builds and  *)
(* migrations: migrations are applied once and in order, a process serves  *)
(* only over a schema that has what its build needs, and the database      *)
(* implements module Schema.                                               *)
(***************************************************************************)
EXTENDS Migrate, TLAPS

USE BuildsAssumption

\* The versions recorded being 1 to n, the query for the newest returns n.
LEMMA CurrentIs ==
  ASSUME NEW n \in Nat, applied = 1 .. n
  PROVE  Current = n
<1>1. n \in applied \cup {0} /\ \A v \in applied : v <= n
  OBVIOUS
<1>2. \A m \in applied \cup {0} : (\A v \in applied : v <= m) => m = n
  <2>1. SUFFICES ASSUME NEW m \in applied \cup {0}, \A v \in applied : v <= m
                 PROVE  m = n
    OBVIOUS
  <2>2. m \in Nat /\ m <= n
    OBVIOUS
  <2>3. n = 0 \/ n \in applied
    OBVIOUS
  <2>4. QED
    BY <2>1, <2>2, <2>3
<1>3. QED
  BY <1>1, <1>2 DEF Current

\* A step of one process that commits nothing, to a place fit for it.
LEMMA QuietStep ==
  ASSUME MigrateInv, NEW p \in Process,
         NEW r \in [at : Places, ships : 0 .. Latest, next : 1 .. Latest + 1],
         proc' = [proc EXCEPT ![p] = r],
         UNCHANGED <<applied, changed>>,
         table' \in BOOLEAN, stops' \in Nat,
         r.at \in {"apply", "record", "commit"} =>
            r.next <= r.ships /\ 1 .. r.next - 1 \subseteq applied,
         r.at \in {"record", "commit"} =>
            \A q \in Process \ {p} : ~(InTx(q) /\ proc[q].next = r.next),
         r.at = "commit" => r.next \notin applied,
         r.at = "serve" => 1 .. r.ships \subseteq applied
  PROVE  MigrateInv'
<1> USE DEF MigrateInv, MigrateTypeOK
<1>1. /\ proc'[p] = r
      /\ \A q \in Process : q # p => proc'[q] = proc[q]
  OBVIOUS
<1>2. MigrateTypeOK'
  OBVIOUS
<1>3. NoGap' /\ AppliedOnce'
  BY DEF NoGap, AppliedOnce
<1>4. InOrder'
  BY <1>1 DEF InOrder
<1>5. OneTx'
  <2>1. SUFFICES ASSUME NEW a \in Process, NEW b \in Process,
                        InTx(a)', InTx(b)', proc'[a].next = proc'[b].next, a # b
                 PROVE  FALSE
    BY DEF OneTx
  <2>2. CASE a # p /\ b # p
    BY <1>1, <2>1, <2>2 DEF OneTx, InTx
  <2>3. CASE a = p
    BY <1>1, <2>1, <2>3 DEF InTx
  <2>4. CASE b = p
    BY <1>1, <2>1, <2>4 DEF InTx
  <2>5. QED
    BY <2>2, <2>3, <2>4
<1>6. Uncommitted' /\ ServesMigrated'
  BY <1>1 DEF Uncommitted, ServesMigrated
<1>7. QED
  BY <1>2, <1>3, <1>4, <1>5, <1>6

LEMMA ExitInv ==
  ASSUME MigrateInv, NEW p \in Process, Exit(p),
         UNCHANGED <<applied, changed, table>>, stops' \in Nat
  PROVE  MigrateInv'
<1>1. Down \in [at : Places, ships : 0 .. Latest, next : 1 .. Latest + 1]
  BY DEF Down, Places
<1>2. table' \in BOOLEAN
  BY DEF MigrateInv, MigrateTypeOK
<1>3. QED
  BY <1>1, <1>2, QuietStep DEF Exit, Down

LEMMA GotoIs ==
  ASSUME MigrateTypeOK, NEW p \in Process, NEW at \in Places, Goto(p, at)
  PROVE  \E r \in [at : Places, ships : 0 .. Latest, next : 1 .. Latest + 1] :
            /\ proc' = [proc EXCEPT ![p] = r]
            /\ r.at = at /\ r.ships = proc[p].ships /\ r.next = proc[p].next
<1> DEFINE r == [proc[p] EXCEPT !.at = at]
<1>1. proc[p] \in [at : Places, ships : 0 .. Latest, next : 1 .. Latest + 1]
  BY DEF MigrateTypeOK
<1>2. r \in [at : Places, ships : 0 .. Latest, next : 1 .. Latest + 1]
  BY <1>1
<1>3. r.at = at /\ r.ships = proc[p].ships /\ r.next = proc[p].next
  BY <1>1
<1>4. proc' = [proc EXCEPT ![p] = r]
  BY DEF Goto
<1>5. QED
  BY <1>2, <1>3, <1>4

LEMMA ProceedIs ==
  ASSUME MigrateTypeOK, NEW p \in Process, NEW v \in 1 .. Latest + 1,
         ProceedTo(p, v)
  PROVE  \E r \in [at : Places, ships : 0 .. Latest, next : 1 .. Latest + 1] :
            /\ proc' = [proc EXCEPT ![p] = r]
            /\ r.ships = proc[p].ships /\ r.next = v
            /\ \/ r.at = "apply" /\ v <= r.ships
               \/ r.at = "serve" /\ ~(v <= r.ships)
<1> DEFINE r == [proc[p] EXCEPT
                   !.at = IF v <= proc[p].ships THEN "apply" ELSE "serve", !.next = v]
<1>1. proc[p] \in [at : Places, ships : 0 .. Latest, next : 1 .. Latest + 1]
  BY DEF MigrateTypeOK
<1>2. r \in [at : Places, ships : 0 .. Latest, next : 1 .. Latest + 1]
  BY <1>1 DEF Places
<1>3. /\ r.ships = proc[p].ships /\ r.next = v
      /\ \/ r.at = "apply" /\ v <= r.ships
         \/ r.at = "serve" /\ ~(v <= r.ships)
  BY <1>1
<1>4. proc' = [proc EXCEPT ![p] = r]
  BY <1>1 DEF ProceedTo
<1>5. QED
  BY <1>2, <1>3, <1>4

LEMMA ReadInv ==
  ASSUME MigrateInv, NEW p \in Process, ReadVersion(p)
  PROVE  MigrateInv'
<1>1. PICK n \in 0 .. Latest : applied = 1 .. n
  BY DEF MigrateInv, NoGap
<1>2. FirstNewer = n + 1 /\ n + 1 \in 1 .. Latest + 1
  BY <1>1, CurrentIs DEF FirstNewer
<1>3. PICK r \in [at : Places, ships : 0 .. Latest, next : 1 .. Latest + 1] :
            /\ proc' = [proc EXCEPT ![p] = r]
            /\ r.ships = proc[p].ships /\ r.next = n + 1
            /\ \/ r.at = "apply" /\ n + 1 <= r.ships
               \/ r.at = "serve" /\ ~(n + 1 <= r.ships)
  BY <1>2, ProceedIs DEF ReadVersion, MigrateInv
<1>4. r.ships \in Nat
  OBVIOUS
<1>5. 1 .. r.next - 1 \subseteq applied
  BY <1>1, <1>3
<1>6. r.at = "serve" => 1 .. r.ships \subseteq applied
  BY <1>1, <1>3, <1>4
<1>7. table' \in BOOLEAN /\ stops' \in Nat /\ UNCHANGED <<applied, changed>>
  BY DEF ReadVersion, MigrateInv, MigrateTypeOK
<1>8. QED
  BY <1>3, <1>5, <1>6, <1>7, QuietStep

LEMMA ApplyInv ==
  ASSUME MigrateInv, NEW p \in Process, Apply(p)
  PROVE  MigrateInv'
<1>1. /\ proc[p].at = "apply" /\ ~Blocked(p)
      /\ UNCHANGED <<applied, changed, table, stops>>
  BY DEF Apply
<1>2. table' \in BOOLEAN /\ stops' \in Nat
  BY <1>1 DEF MigrateInv, MigrateTypeOK
<1>3. CASE Exit(p)
  BY <1>1, <1>2, <1>3, ExitInv
<1>4. CASE Goto(p, "record")
  <2>1. PICK r \in [at : Places, ships : 0 .. Latest, next : 1 .. Latest + 1] :
            /\ proc' = [proc EXCEPT ![p] = r]
            /\ r.at = "record" /\ r.ships = proc[p].ships /\ r.next = proc[p].next
    BY <1>4, GotoIs DEF MigrateInv, Places
  <2>2. r.next <= r.ships /\ 1 .. r.next - 1 \subseteq applied
    BY <1>1, <2>1 DEF MigrateInv, InOrder
  <2>3. \A q \in Process \ {p} : ~(InTx(q) /\ proc[q].next = r.next)
    BY <1>1, <2>1 DEF Blocked
  <2>4. QED
    BY <1>1, <1>2, <2>1, <2>2, <2>3, QuietStep
<1>5. QED
  BY <1>3, <1>4 DEF Apply

LEMMA RecordInv ==
  ASSUME MigrateInv, NEW p \in Process, Record(p)
  PROVE  MigrateInv'
<1>1. /\ proc[p].at = "record"
      /\ UNCHANGED <<applied, changed, table, stops>>
  BY DEF Record
<1>2. table' \in BOOLEAN /\ stops' \in Nat
  BY <1>1 DEF MigrateInv, MigrateTypeOK
<1>3. CASE Exit(p)
  BY <1>1, <1>2, <1>3, ExitInv
<1>4. CASE Goto(p, "commit") /\ proc[p].next \notin applied
  <2>1. PICK r \in [at : Places, ships : 0 .. Latest, next : 1 .. Latest + 1] :
            /\ proc' = [proc EXCEPT ![p] = r]
            /\ r.at = "commit" /\ r.ships = proc[p].ships /\ r.next = proc[p].next
    BY <1>4, GotoIs DEF MigrateInv, Places
  <2>2. r.next <= r.ships /\ 1 .. r.next - 1 \subseteq applied
    BY <1>1, <2>1 DEF MigrateInv, InOrder
  <2>3. \A q \in Process \ {p} : ~(InTx(q) /\ proc[q].next = r.next)
    BY <1>1, <2>1 DEF MigrateInv, OneTx, InTx
  <2>4. QED
    BY <1>1, <1>2, <1>4, <2>1, <2>2, <2>3, QuietStep
<1>5. QED
  BY <1>3, <1>4 DEF Record

\* The migration a process commits is the one after those applied, and no
\* other process is about to commit it.
LEMMA CommitsNext ==
  ASSUME MigrateInv, NEW p \in Process, NEW heard \in BOOLEAN, Commit(p, heard)
  PROVE  \E n \in 0 .. Latest - 1 :
            /\ applied = 1 .. n /\ proc[p].next = n + 1 /\ n + 1 <= proc[p].ships
            /\ applied' = 1 .. n + 1
            /\ \A q \in Process \ {p} : proc[q].at # "commit"
<1> USE DEF MigrateInv
<1>1. PICK n \in 0 .. Latest : applied = 1 .. n
  BY DEF NoGap
<1>2. proc[p].ships \in 0 .. Latest /\ proc[p].next \in 1 .. Latest + 1
  BY DEF MigrateTypeOK
<1>3. \A q \in Process : proc[q].at = "commit" => proc[q].next = n + 1
  <2>1. SUFFICES ASSUME NEW q \in Process, proc[q].at = "commit"
                 PROVE  proc[q].next = n + 1
    OBVIOUS
  <2>2. proc[q].next \in Nat \ {0}
    BY DEF MigrateTypeOK
  <2>3. proc[q].next \notin 1 .. n /\ 1 .. proc[q].next - 1 \subseteq 1 .. n
    BY <1>1, <2>1 DEF Uncommitted, InOrder
  <2>4. proc[q].next > n
    BY <2>2, <2>3
  <2>5. CASE proc[q].next > n + 1
    <3>1. n + 1 \in 1 .. proc[q].next - 1
      BY <2>2, <2>5
    <3>2. QED
      BY <2>3, <3>1
  <2>6. QED
    BY <2>2, <2>4, <2>5
<1>4. proc[p].at = "commit" /\ applied' = applied \cup {proc[p].next}
  BY DEF Commit
<1>5. proc[p].next = n + 1 /\ n + 1 <= proc[p].ships
  BY <1>3, <1>4 DEF InOrder
<1>6. n \in 0 .. Latest - 1
  BY <1>2, <1>5
<1>7. applied' = 1 .. n + 1
  BY <1>1, <1>4, <1>5
<1>8. \A q \in Process \ {p} : proc[q].at # "commit"
  BY <1>3, <1>4, <1>5 DEF OneTx, InTx
<1>9. QED
  BY <1>1, <1>5, <1>6, <1>7, <1>8

LEMMA CommitInv ==
  ASSUME MigrateInv, NEW p \in Process, NEW heard \in BOOLEAN, Commit(p, heard)
  PROVE  MigrateInv'
<1> USE DEF MigrateInv
<1>1. PICK n \in 0 .. Latest - 1 :
            /\ applied = 1 .. n /\ proc[p].next = n + 1 /\ n + 1 <= proc[p].ships
            /\ applied' = 1 .. n + 1
            /\ \A q \in Process \ {p} : proc[q].at # "commit"
  BY CommitsNext
<1>2. PICK r \in [at : Places, ships : 0 .. Latest, next : 1 .. Latest + 1] :
            /\ proc' = [proc EXCEPT ![p] = r]
            /\ \/ r.at = "down"
               \/ /\ r.ships = proc[p].ships /\ r.next = n + 2
                  /\ \/ r.at = "apply" /\ n + 2 <= r.ships
                     \/ r.at = "serve" /\ ~(n + 2 <= r.ships)
  <2>1. CASE heard
    <3>1. ProceedTo(p, n + 2)
      BY <1>1, <2>1 DEF Commit
    <3>2. n + 2 \in 1 .. Latest + 1
      BY <1>1
    <3>3. QED
      BY <3>1, <3>2, ProceedIs
  <2>2. CASE ~heard
    <3>1. Down \in [at : Places, ships : 0 .. Latest, next : 1 .. Latest + 1]
      BY DEF Down, Places
    <3>2. QED
      BY <2>2, <3>1 DEF Commit, Exit, Down
  <2>3. QED
    BY <2>1, <2>2
<1>3. /\ proc'[p] = r
      /\ \A q \in Process : q # p => proc'[q] = proc[q]
  BY <1>2 DEF MigrateTypeOK
<1>4. /\ changed' = [changed EXCEPT ![n + 1] = @ + 1]
      /\ UNCHANGED <<table, stops>>
  BY <1>1 DEF Commit
<1>5. n + 1 \in Version
  BY <1>1 DEF Version
<1>6. MigrateTypeOK'
  <2>1. applied' \subseteq Version
    BY <1>1 DEF Version
  <2>2. changed' \in [Version -> Nat]
    BY <1>4, <1>5 DEF MigrateTypeOK
  <2>3. QED
    BY <1>2, <1>4, <2>1, <2>2 DEF MigrateTypeOK
<1>7. NoGap'
  BY <1>1 DEF NoGap
<1>8. AppliedOnce'
  <2>1. SUFFICES ASSUME NEW v \in Version
                 PROVE  changed'[v] = IF v \in applied' THEN 1 ELSE 0
    BY DEF AppliedOnce
  <2>2. CASE v = n + 1
    <3>1. changed[v] = 0
      BY <1>1, <2>2 DEF AppliedOnce
    <3>2. QED
      BY <1>1, <1>4, <2>2, <3>1 DEF MigrateTypeOK
  <2>3. CASE v # n + 1
    <3>1. (v \in applied') <=> (v \in applied)
      BY <1>1, <2>3 DEF Version
    <3>2. changed'[v] = changed[v]
      BY <1>4, <2>3 DEF MigrateTypeOK
    <3>3. QED
      BY <3>1, <3>2 DEF AppliedOnce
  <2>4. QED
    BY <2>2, <2>3
<1>9. applied \subseteq applied'
  BY <1>1
<1>10. InOrder'
  <2>1. SUFFICES ASSUME NEW q \in Process,
                        proc'[q].at \in {"apply", "record", "commit"}
                 PROVE  /\ proc'[q].next <= proc'[q].ships
                        /\ 1 .. proc'[q].next - 1 \subseteq applied'
    BY DEF InOrder
  <2>2. CASE q = p
    <3>1. r.next = n + 2 /\ n + 2 <= r.ships
      BY <1>2, <1>3, <2>1, <2>2
    <3>2. QED
      BY <1>1, <1>3, <2>2, <3>1
  <2>3. CASE q # p
    BY <1>3, <1>9, <2>1, <2>3 DEF InOrder
  <2>4. QED
    BY <2>2, <2>3
<1>11. OneTx'
  <2>1. ~InTx(p)'
    BY <1>2, <1>3 DEF InTx
  <2>2. QED
    BY <1>3, <2>1 DEF OneTx, InTx
<1>12. Uncommitted'
  BY <1>1, <1>2, <1>3 DEF Uncommitted
<1>13. ServesMigrated'
  <2>1. SUFFICES ASSUME NEW q \in Process, proc'[q].at = "serve"
                 PROVE  1 .. proc'[q].ships \subseteq applied'
    BY DEF ServesMigrated
  <2>2. CASE q = p
    <3>1. r.ships \in Nat /\ r.ships < n + 2
      BY <1>2, <1>3, <2>1, <2>2
    <3>2. QED
      BY <1>1, <1>3, <2>2, <3>1
  <2>3. CASE q # p
    BY <1>3, <1>9, <2>1, <2>3 DEF ServesMigrated
  <2>4. QED
    BY <2>2, <2>3
<1>14. QED
  BY <1>6, <1>7, <1>8, <1>10, <1>11, <1>12, <1>13

LEMMA InitInv == Init => MigrateInv
<1> SUFFICES ASSUME Init
             PROVE  MigrateInv
  OBVIOUS
<1> USE DEF Init, Down
<1>1. MigrateTypeOK
  <2>1. Down \in [at : Places, ships : 0 .. Latest, next : 1 .. Latest + 1]
    BY DEF Places
  <2>2. proc \in [Process -> [at : Places, ships : 0 .. Latest, next : 1 .. Latest + 1]]
    BY <2>1
  <2>3. QED
    BY <2>2 DEF MigrateTypeOK
<1>2. NoGap
  <2>1. applied = 1 .. 0 /\ 0 \in 0 .. Latest
    OBVIOUS
  <2>2. QED
    BY <2>1 DEF NoGap
<1>3. QED
  BY <1>1, <1>2 DEF MigrateInv, AppliedOnce, InOrder, OneTx, InTx, Uncommitted,
                    ServesMigrated

LEMMA NextInv == MigrateInv /\ [Next]_vars => MigrateInv'
<1> SUFFICES ASSUME MigrateInv, [Next]_vars
             PROVE  MigrateInv'
  OBVIOUS
<1>0. table \in BOOLEAN /\ stops \in Nat
  BY DEF MigrateInv, MigrateTypeOK
<1>1. ASSUME NEW p \in Process, NEW b \in Builds, Start(p, b)
      PROVE  MigrateInv'
  <2> DEFINE r == [at |-> "create", ships |-> b, next |-> 1]
  <2>1. r \in [at : Places, ships : 0 .. Latest, next : 1 .. Latest + 1]
    BY DEF Places
  <2>2. proc' = [proc EXCEPT ![p] = r] /\ UNCHANGED <<applied, changed, table, stops>>
    BY <1>1 DEF Start
  <2>3. QED
    BY <1>0, <2>1, <2>2, QuietStep
<1>2. ASSUME NEW p \in Process, CreateTable(p)
      PROVE  MigrateInv'
  <2>1. PICK r \in [at : Places, ships : 0 .. Latest, next : 1 .. Latest + 1] :
            proc' = [proc EXCEPT ![p] = r] /\ r.at = "read"
    BY <1>2, GotoIs DEF CreateTable, MigrateInv, Places
  <2>2. UNCHANGED <<applied, changed, stops>> /\ table' \in BOOLEAN
    BY <1>2 DEF CreateTable
  <2>3. QED
    BY <1>0, <2>1, <2>2, QuietStep
<1>3. ASSUME NEW p \in Process, ReadVersion(p)
      PROVE  MigrateInv'
  BY <1>3, ReadInv
<1>4. ASSUME NEW p \in Process, Apply(p)
      PROVE  MigrateInv'
  BY <1>4, ApplyInv
<1>5. ASSUME NEW p \in Process, GiveUp(p)
      PROVE  MigrateInv'
  BY <1>0, <1>5, ExitInv DEF GiveUp
<1>6. ASSUME NEW p \in Process, Record(p)
      PROVE  MigrateInv'
  BY <1>6, RecordInv
<1>7. ASSUME NEW p \in Process, NEW heard \in BOOLEAN, Commit(p, heard)
      PROVE  MigrateInv'
  BY <1>7, CommitInv
<1>8. ASSUME NEW p \in Process, Stop(p)
      PROVE  MigrateInv'
  BY <1>0, <1>8, ExitInv DEF Stop
<1>9. CASE UNCHANGED vars
  BY <1>9 DEF vars, MigrateInv, MigrateTypeOK, NoGap, AppliedOnce, InOrder, OneTx,
              InTx, Uncommitted, ServesMigrated
<1>10. QED
  BY <1>1, <1>2, <1>3, <1>4, <1>5, <1>6, <1>7, <1>8, <1>9 DEF Next, Begin, Step

LEMMA MigrateInvariance == Spec => []MigrateInv
  BY InitInv, NextInv, PTL DEF Spec

\* The state keeps its types.
THEOREM MigrateTypesHold == Spec => []MigrateTypeOK
<1>1. MigrateInv => MigrateTypeOK
  BY DEF MigrateInv
<1>2. QED
  BY <1>1, MigrateInvariance, PTL

\* Each migration is committed once together with its row, however many
\* processes race for it and wherever they are stopped (applyMigration).
THEOREM MigrationsAppliedOnce == Spec => []AppliedOnce
<1>1. MigrateInv => AppliedOnce
  BY DEF MigrateInv
<1>2. QED
  BY <1>1, MigrateInvariance, PTL

\* A process that serves requests has the whole schema of its build under it
\* (runServe).
THEOREM AlwaysServesMigrated == Spec => []ServesMigrated
<1>1. MigrateInv => ServesMigrated
  BY DEF MigrateInv
<1>2. QED
  BY <1>1, MigrateInvariance, PTL

\* Every step leaves the schema version or moves it on by one: the database,
\* with many processes at it, implements module Schema.
THEOREM MigrateImplementsSchema == Spec => SchemaSpec
<1>1. Init => Sch!Init
  <2>1. SUFFICES ASSUME Init
                 PROVE  Current = 0
    BY DEF Sch!Init
  <2>2. applied = 1 .. 0
    BY <2>1 DEF Init
  <2>3. QED
    BY <2>2, CurrentIs
<1>2. MigrateInv /\ [Next]_vars => [Sch!Migrated]_Current
  <2>1. SUFFICES ASSUME MigrateInv, [Next]_vars, applied' # applied
                 PROVE  Sch!Migrated
    BY DEF Current
  <2>2. PICK p \in Process, heard \in BOOLEAN : Commit(p, heard)
    BY <2>1 DEF Next, Begin, Step, Start, CreateTable, ReadVersion, Apply, GiveUp,
                Record, Stop, vars
  <2>3. PICK n \in 0 .. Latest - 1 : applied = 1 .. n /\ applied' = 1 .. n + 1
    BY <2>1, <2>2, CommitsNext
  <2>4. Current = n
    BY <2>3, CurrentIs
  <2>5. Current' = n + 1
    <3>1. n + 1 \in applied' \cup {0} /\ \A v \in applied' : v <= n + 1
      BY <2>3
    <3>2. \A m \in applied' \cup {0} : (\A v \in applied' : v <= m) => m = n + 1
      BY <2>3
    <3>3. QED
      BY <3>1, <3>2 DEF Current
  <2>6. QED
    BY <2>3, <2>4, <2>5 DEF Sch!Migrated
<1>3. QED
  BY <1>1, <1>2, MigrateInvariance, PTL DEF Spec, SchemaSpec, Sch!Spec
=============================================================================
