----------------------------- MODULE ExpenseTools -----------------------------
(***************************************************************************)
(* The tools that record, change and list the expenses of one group:       *)
(* create_expense with its check for duplicates, update_expense,           *)
(* delete_expense and list_expenses.  Each is a sequence of requests to    *)
(* the Spliit instance, which serves other people between any two of them. *)
(* Resolving the group is left to module GroupTools; its participants stay *)
(* the same here.                                                          *)
(*                                                                         *)
(* Spliit lists expenses newest first and pages by offset, so what others  *)
(* delete moves the rest towards the front.  `stood' collects what a call  *)
(* may count on seeing: the expenses of interest to it that were there     *)
(* when it began and that no removal has moved since.  Nothing the code    *)
(* does depends on it.                                                     *)
(* Definitions named Operation_Bug are mutants, as in module Store.        *)
(***************************************************************************)
EXTENDS Naturals, FiniteSets

CONSTANTS Caller,       \* calls running side by side
          Person,       \* participants of the group
          Me,           \* [Caller -> Person], whom each caller has pinned
          Amount,
          LastDate,     \* dates are 0..LastDate
          Split,        \* ways to share an expense
          Even,         \* the one among them that tools make: evenly
          Repeats,      \* what expenses may say about being repeated
          MaxExpenses,  \* bound on the expenses ever recorded
          Window,       \* duplicateWindow
          PageSize,     \* of the duplicate check, 50 in the code
          MaxPages,     \* 10 in the code, for both tools that page
          Limit,        \* of list_expenses
          Filters,      \* the payers list_expenses is asked for
          Changes,      \* what update_expense is asked to change
          Tools,        \* [Caller -> the tools it uses]
          Fails,        \* may requests to Spliit fail?
          None

ASSUME GroupAssumption ==
    /\ Me \in [Caller -> Person] /\ Even \in Split
    /\ Repeats \subseteq BOOLEAN /\ FALSE \in Repeats
    /\ Filters \subseteq Person \cup {None} /\ None \notin Person \cup Amount \cup Split \cup Nat
ASSUME BoundsAssumption ==
    /\ LastDate \in Nat /\ MaxExpenses \in Nat /\ Window \in Nat
    /\ PageSize \in Nat \ {0} /\ MaxPages \in Nat \ {0} /\ Limit \in Nat \ {0}
    /\ Fails \in BOOLEAN

Id == 1..MaxExpenses

Expense == [date: 0..LastDate, amount: Amount, payer: Person, split: Split,
            repeats: Repeats]

\* The fields of an update, None where unchanged; naming those who share an
\* expense makes them share it evenly.
Change == [date: 0..LastDate \cup {None}, amount: Amount \cup {None},
           payer: Person \cup {None}, shared: BOOLEAN]

ASSUME ChangesAssumption == Changes \subseteq Change
ASSUME NoneAssumption == None \notin Expense \cup Change

VARIABLES ledger,   \* [Id -> Expense, or None]
          made,     \* expenses ever recorded; their IDs are 1..made
          calls

vars == <<ledger, made, calls>>

Live == {i \in Id : ledger[i] # None}

-----------------------------------------------------------------------------
(* Spliit *)

\* i is listed ahead of j: a later date, or recorded later on the same one.
Ahead(i, j) ==
    \/ ledger[i].date > ledger[j].date
    \/ ledger[i].date = ledger[j].date /\ i > j

\* How many are listed ahead of i, and so its offset in the list.
Before(i) == {j \in Live : Ahead(j, i)}
Place(i)  == Cardinality(Before(i))

Page(cursor, size)    == {i \in Live : Place(i) \in cursor .. cursor + size - 1}
HasMore(cursor, size) == cursor + size < Cardinality(Live)

-----------------------------------------------------------------------------
(* Calls *)

\* What a call carries.  Fields a tool has no use for keep their idle values.
CallState == [
    at: {"idle", "checking", "recording", "listing", "listed", "complete",
         "updating", "fetched", "deleting", "found"},
    form: Expense \cup {None},            \* what create_expense will record
    target: Id \cup {None},               \* the expense to update or delete
    named: Change \cup {None},            \* the fields named for update_expense
    read: Expense \cup {None},            \* the expense as update_expense read it
    payer: Person \cup {None},            \* the payer list_expenses asks for
    cursor: Nat, page: Nat,               \* requests made, and where the next starts
    match: BOOLEAN,                       \* a duplicate has been found
    full: BOOLEAN,                        \* the check saw all it had to
    room: Nat,                            \* what the answer may still hold
    got: SUBSET Id,                       \* what the client has been given
    stood: SUBSET Id]

Idle == [at |-> "idle", form |-> None, target |-> None, named |-> None, read |-> None,
         payer |-> None, cursor |-> 0, page |-> 0, match |-> FALSE, full |-> FALSE,
         room |-> 0, got |-> {}, stood |-> {}]

At(c, s)   == calls[c].at = s
Goto(c, k) == calls' = [calls EXCEPT ![c] = k]

\* Changing i takes it out of what the calls may count on; if it leaves its
\* place, then so do all that are listed after it.
Disturbed(i, leaves) ==
    [c \in Caller |-> [calls[c] EXCEPT
        !.stood = {j \in @ : j # i /\ (leaves => Ahead(j, i))}]]

-----------------------------------------------------------------------------
(* create_expense *)

Duplicate(i, form) ==
    /\ ledger[i].amount = form.amount
    /\ form.date <= ledger[i].date + Window
    /\ ledger[i].date <= form.date + Window

\* With allow_duplicate the check is skipped.
Create(c) ==
    /\ At(c, "idle") /\ "create" \in Tools[c]
    /\ \E form \in Expense, allow \in BOOLEAN :
          /\ form.split = Even /\ ~form.repeats
          /\ Goto(c, IF allow THEN [Idle EXCEPT !.at = "recording", !.form = form]
                     ELSE [Idle EXCEPT !.at = "checking", !.form = form,
                                       !.stood = {i \in Live : Duplicate(i, form)}])
    /\ UNCHANGED <<ledger, made>>

Past_EitherSide(i, form) ==
    \/ ledger[i].date + Window < form.date
    \/ form.date + Window < ledger[i].date
Past(i, form) == ledger[i].date + Window < form.date

\* One page of likelyDuplicates: it stops past the window, at the end of the
\* list or after MaxPages.
CheckPage(c) ==
    LET k    == calls[c]
        ids  == Page(k.cursor, PageSize)
        met  == k.match \/ \E i \in ids : Duplicate(i, k.form)
        full == (\E i \in ids : Past(i, k.form)) \/ ~HasMore(k.cursor, PageSize)
    IN
    /\ At(c, "checking")
    /\ IF full \/ k.page + 1 = MaxPages
       THEN Goto(c, IF met THEN Idle
                    ELSE [k EXCEPT !.at = "recording", !.full = full])
       ELSE Goto(c, [k EXCEPT !.match = met, !.page = @ + 1, !.cursor = @ + PageSize])
    /\ UNCHANGED <<ledger, made>>

\* A check that fails does not stop the expense, whatever it had found.
CheckFails(c) ==
    /\ At(c, "checking") /\ Fails
    /\ Goto(c, [Idle EXCEPT !.at = "recording", !.form = calls[c].form])
    /\ UNCHANGED <<ledger, made>>

Add(form) ==
    /\ made < MaxExpenses
    /\ made' = made + 1
    /\ ledger' = [ledger EXCEPT ![made'] = form]

\* Whether or not the answer comes back, there is no further step.
Record(c) ==
    /\ At(c, "recording")
    /\ Add(calls[c].form)
    /\ Goto(c, Idle)

\* Any request that fails ends the call.
Abort(c) ==
    /\ Fails /\ calls[c].at \notin {"idle", "checking", "listed", "complete"}
    /\ Goto(c, Idle)
    /\ UNCHANGED <<ledger, made>>

-----------------------------------------------------------------------------
(* update_expense and delete_expense *)

Update(c) ==
    /\ At(c, "idle") /\ "update" \in Tools[c]
    /\ \E i \in Live, named \in Changes :
          Goto(c, [Idle EXCEPT !.at = "updating", !.target = i, !.named = named])
    /\ UNCHANGED <<ledger, made>>

\* The expense is read.  Its payer is known by name only if Spliit nests it in
\* the answer; without a name the caller is taken to have paid.
Fetch(c) ==
    LET k == calls[c] IN
    /\ At(c, "updating") /\ k.target \in Live
    /\ \E payer \in {ledger[k.target].payer, Me[c]} :
          Goto(c, [k EXCEPT !.at = "fetched",
                            !.read = [ledger[k.target] EXCEPT !.payer = payer]])
    /\ UNCHANGED <<ledger, made>>

Or_Given(given, else) == given
Or(given, else) == IF given = None THEN else ELSE given

Sharing_Evenly(k) == Even
\* keepSplit
Sharing(k) == IF k.named.shared THEN Even ELSE k.read.split

\* applyExpenseDefaults and buildExpenseForm: what was not named is filled in
\* from what was read; a form never repeats.
Filled(k) ==
    [date    |-> Or(k.named.date, k.read.date),
     amount  |-> Or(k.named.amount, k.read.amount),
     payer   |-> Or(k.named.payer, k.read.payer),
     split   |-> Sharing(k),
     repeats |-> FALSE]

\* Spliit replaces the whole expense.
Replace(c) ==
    LET k == calls[c] IN
    /\ At(c, "fetched") /\ k.target \in Live
    /\ ledger' = [ledger EXCEPT ![k.target] = Filled(k)]
    /\ calls' = [Disturbed(k.target, Filled(k).date # ledger[k.target].date)
                    EXCEPT ![c] = Idle]
    /\ UNCHANGED made

\* Both tools read an expense before they change it; one that is gone ends them.
Missing(c) ==
    /\ calls[c].at \in {"updating", "fetched", "deleting", "found"}
    /\ calls[c].target \notin Live
    /\ Goto(c, Idle)
    /\ UNCHANGED <<ledger, made>>

Delete(c) ==
    /\ At(c, "idle") /\ "delete" \in Tools[c]
    /\ \E i \in Live : Goto(c, [Idle EXCEPT !.at = "deleting", !.target = i])
    /\ UNCHANGED <<ledger, made>>

Find(c) ==
    /\ At(c, "deleting") /\ calls[c].target \in Live
    /\ Goto(c, [calls[c] EXCEPT !.at = "found"])
    /\ UNCHANGED <<ledger, made>>

DeleteFound(c) ==
    /\ At(c, "found") /\ calls[c].target \in Live
    /\ ledger' = [ledger EXCEPT ![calls[c].target] = None]
    /\ calls' = [Disturbed(calls[c].target, TRUE) EXCEPT ![c] = Idle]
    /\ UNCHANGED made

-----------------------------------------------------------------------------
(* list_expenses *)

Wanted(i, payer) == payer = None \/ ledger[i].payer = payer

List(c) ==
    /\ At(c, "idle") /\ "list" \in Tools[c]
    /\ \E payer \in Filters :
          Goto(c, [Idle EXCEPT !.at = "listing", !.payer = payer, !.room = Limit,
                               !.stood = {i \in Live : Wanted(i, payer)}])
    /\ UNCHANGED <<ledger, made>>

Fetched_Generous == Limit + 1
Fetched == Limit

\* One page: what is wanted is added until the answer is full.  The cursor of
\* the last page fetched goes into the answer.
ListPage(c) ==
    LET k     == calls[c]
        hits  == {i \in Page(k.cursor, Fetched) : Wanted(i, k.payer)}
        taken == {i \in hits : Cardinality(hits \cap Before(i)) < k.room}
        more  == HasMore(k.cursor, Fetched)
        next  == [k EXCEPT !.got = @ \cup taken, !.room = @ - Cardinality(taken),
                           !.cursor = @ + Fetched, !.page = @ + 1]
    IN
    /\ At(c, "listing")
    /\ Goto(c, [next EXCEPT !.at =
          IF ~more THEN "complete"
          ELSE IF next.room = 0 \/ next.page = MaxPages THEN "listed"
          ELSE "listing"])
    /\ UNCHANGED <<ledger, made>>

\* It has come to the end of the list.
Close(c) ==
    /\ At(c, "complete")
    /\ Goto(c, Idle)
    /\ UNCHANGED <<ledger, made>>

\* The client asks for more from the cursor it was given.
Continue(c) ==
    /\ At(c, "listed")
    /\ Goto(c, [calls[c] EXCEPT !.at = "listing", !.room = Limit, !.page = 0])
    /\ UNCHANGED <<ledger, made>>

-----------------------------------------------------------------------------
(* Other people, in Spliit, who record what tools cannot.  What they change or
   delete is as if another call did. *)

SpliitAdd ==
    /\ \E form \in Expense : Add(form)
    /\ UNCHANGED calls

-----------------------------------------------------------------------------

Init ==
    /\ ledger = [i \in Id |-> None]
    /\ made = 0
    /\ calls = [c \in Caller |-> Idle]

Next ==
    \/ \E c \in Caller :
          \/ Create(c) \/ CheckPage(c) \/ CheckFails(c) \/ Record(c)
          \/ Update(c) \/ Fetch(c) \/ Replace(c) \/ Missing(c)
          \/ Delete(c) \/ Find(c) \/ DeleteFound(c)
          \/ List(c) \/ ListPage(c) \/ Continue(c)
          \/ Close(c) \/ Abort(c)
    \/ SpliitAdd

Spec == Init /\ [][Next]_vars

-----------------------------------------------------------------------------
(* Properties *)

\* Type invariant.
ExpensesTypeOK ==
    /\ made \in 0..MaxExpenses
    /\ ledger \in [Id -> Expense \cup {None}]
    /\ calls \in [Caller -> CallState]

\* A duplicate check that ran to its end let nothing through that it could
\* have met: an expense of the same amount dated within the window, in the
\* list when the check began and not moved by a removal, stops the call,
\* whatever others record meanwhile.
CheckCatches ==
    \A c \in Caller : At(c, "recording") /\ calls[c].full => calls[c].stood = {}

\* A client that follows the cursors of an unfiltered list to the end has been
\* given every expense that stood throughout.
UnfilteredComplete ==
    \A c \in Caller :
        At(c, "complete") /\ calls[c].payer = None => calls[c].stood \subseteq calls[c].got

\* The same of any list.
ListComplete ==
    \A c \in Caller : At(c, "complete") => calls[c].stood \subseteq calls[c].got

\* How an expense is shared changes only by an update that names who shares it,
\* or else by one that puts back what it read before somebody else's update:
\* never is a split flattened on the way.
SplitKept ==
    [][\A i \in Live : i \in Live' /\ ledger'[i].split # ledger[i].split =>
          \E c \in Caller :
             /\ At(c, "fetched") /\ calls[c].target = i /\ calls'[c].at = "idle"
             /\ calls[c].named.shared \/ ledger'[i].split = calls[c].read.split]_vars

\* "everything else, including who paid, who shares it and how it is split, is
\* kept exactly as it is": what an update does not name, it leaves alone, be it
\* the payer, the split, or that the expense repeats.  It does not hold: a form
\* never repeats, it makes the caller the payer if Spliit does not nest one, and
\* it puts back what was read before somebody else's update.
RestKept ==
    [][\A c \in Caller :
          At(c, "fetched") /\ ledger' # ledger =>
              LET i     == calls[c].target
                  named == calls[c].named
              IN  /\ named.payer = None => ledger'[i].payer = ledger[i].payer
                  /\ named.amount = None => ledger'[i].amount = ledger[i].amount
                  /\ ~named.shared => ledger'[i].split = ledger[i].split
                  /\ named.date = None => ledger'[i].date = ledger[i].date
                  /\ ledger'[i].repeats = ledger[i].repeats]_vars

-----------------------------------------------------------------------------
(* What makes these inductive. *)

\* Each call has what its next step uses, and no expense is recorded under an
\* ID that is still to come.
CallsCarry ==
    \A c \in Caller :
        /\ calls[c].at \in {"checking", "recording"} => calls[c].form \in Expense
        /\ calls[c].at \in {"updating", "fetched", "deleting", "found"} =>
              calls[c].target \in Id
        /\ calls[c].at \in {"updating", "fetched"} => calls[c].named \in Change
        /\ At(c, "fetched") => calls[c].read \in Expense
Unmade == \A i \in Id : i > made => ledger[i] = None

\* What a call counts on is still listed, at its cursor or beyond, unless the
\* pages before have shown it.
CheckSound ==
    \A c \in Caller : At(c, "checking") =>
        /\ calls[c].stood \subseteq Live
        /\ \A i \in calls[c].stood :
              Duplicate(i, calls[c].form) /\ (calls[c].match \/ Place(i) >= calls[c].cursor)
ListSound ==
    \A c \in Caller : calls[c].at \in {"listing", "listed"} /\ calls[c].payer = None =>
        /\ calls[c].stood \subseteq Live
        /\ \A i \in calls[c].stood : i \in calls[c].got \/ Place(i) >= calls[c].cursor
        /\ At(c, "listing") => calls[c].room = Limit

ExpensesInv ==
    /\ ExpensesTypeOK /\ CallsCarry /\ Unmade
    /\ CheckSound /\ ListSound /\ CheckCatches /\ UnfilteredComplete
=============================================================================
