----------------------------- MODULE GroupTools -----------------------------
(***************************************************************************)
(* The handlers that change which groups a user can reach and who they are *)
(* in them: the membership tools of internal/mcp and the endpoints of      *)
(* internal/handlers/api.go that do the same from the config page.         *)
(*                                                                         *)
(* A call is a sequence of SQL statements (module Store) and requests to a *)
(* Spliit instance.  Nothing is locked between them, so every step of one  *)
(* call may interleave with steps of the others, and with what people do   *)
(* to the group in Spliit itself.  A call that has failed leaves no trace; *)
(* only what it had already done stays.  A read that decides nothing       *)
(* (reading a group back for its names) is merged with the step before it. *)
(* Definitions named Operation_Bug are mutants, as in module Store.        *)
(***************************************************************************)
EXTENDS Store, Sequences, Naturals, FiniteSets

CONSTANTS Call,        \* slots for concurrent requests
          Tools,       \* which handlers clients use: a subset of ToolNames
          Faults,      \* which failures occur: a subset of FaultNames
          Founded,     \* participants of the groups made outside the service
          Candidates   \* the aliases registerGroup tries for a requested one

Group     == Instance \X Gid
ToolNames == {"join", "create", "leave", "repin", "rename", "edit",
              "default", "spliit"}
FaultNames == {"lost", "readback", "db", "crash"}
Status    == {"unborn", "idle", "spent", "gone"}

ASSUME ToolsAssumption ==
    Tools \subseteq ToolNames /\ Faults \subseteq FaultNames
ASSUME FoundedAssumption ==
    /\ Founded \in [Group -> SUBSET Pid]
    /\ \A g, h \in Group : g # h => Founded[g] \cap Founded[h] = {}
ASSUME CandidatesAssumption ==
    \A a \in Alias : Candidates[a] \in Seq(Alias) /\ Candidates[a] # <<>>

VARIABLES spliit,   \* external: [Group -> [Pid -> Status]]
          calls,    \* [Call -> the state of the request in that slot]
          told      \* groups whose ID the creating call returned to its user

toolVars == <<spliit, calls, told>>
vars     == <<users, rows, issued, spliit, calls, told>>

-----------------------------------------------------------------------------
(* Spliit, as the handlers see it: a participant with expenses is "spent". *)

Live(g)   == {p \in Pid : spliit[g][p] \in {"idle", "spent"}}
Unspent(g) == {p \in Pid : spliit[g][p] = "idle"}
Exists(g) == \E p \in Pid : spliit[g][p] # "unborn"
Fresh     == {p \in Pid : \A g \in Group : spliit[g][p] = "unborn"}

\* groups.update replaces the participant list, keyed by ID: an entry with an
\* ID is kept, one without is created, and anything missing is deleted.
Replaced(g, keep, new) ==
    [spliit EXCEPT ![g] = [p \in Pid |->
        IF p \in new THEN "idle"
        ELSE IF p \in Live(g) \ keep THEN "gone" ELSE spliit[g][p]]]

-----------------------------------------------------------------------------
(* Calls *)

Blank == [at |-> "idle", user |-> None, id |-> None, group |-> None,
          alias |-> None, pin |-> None, keep |-> {},
          add |-> FALSE, asked |-> {}, tries |-> 0]

Steps == {"idle", "JoinInsert", "CreateRead", "Register", "WebRegister",
          "LeaveDelete", "PinFetch", "RowWrite", "EditDetails", "EditPush",
          "SetDefault"}

CallState == [at: Steps, user: User \cup {None}, id: RowId \cup {None},
              group: Group \cup {None}, alias: Alias \cup {None},
              pin: Pin, keep: SUBSET Pid,
              add: BOOLEAN, asked: SUBSET {"alias", "pin"}, tries: Nat]

Goto(c, k) == calls' = [calls EXCEPT ![c] = k]
Finish(c)  == Goto(c, Blank)
At(c, s)   == calls[c].at = s
Starts(c, tool) == At(c, "idle") /\ tool \in Tools

\* What resolve keeps of the row it found: the group it links, and the columns
\* a later UpdateGroup writes back.
Holding(u, id, s) ==
    [Blank EXCEPT !.at = s, !.user = u, !.id = id, !.group = GroupOf(id),
                  !.alias = rows[id].alias, !.pin = rows[id].pin]

References == Alias \cup RowId \cup Gid

\* Bound: a call that will insert a row starts only while an unused row ID is
\* left for it.
Inserting == {c \in Call : calls[c].at \in
                 {"JoinInsert", "CreateRead", "Register", "WebRegister"}}
IdLeft == Cardinality(Inserting) < Cardinality(RowId \ issued)

-----------------------------------------------------------------------------
(* The first web login; nothing else makes a users row. *)
SignUp(u, n) == InsertUser(u, n) /\ UNCHANGED toolVars

(* join_group, and joining from the config page *)

\* The group is fetched, and the participant the caller named must be in it.
JoinFetch(c, u, g, p, a) ==
    /\ Starts(c, "join") /\ IdLeft
    /\ p \in Live(g)
    /\ Goto(c, [Blank EXCEPT !.at = "JoinInsert", !.user = u, !.group = g,
                             !.alias = a, !.pin = p])
    /\ UNCHANGED <<storeVars, spliit, told>>

JoinInsert_NoConstraint(c) ==
    LET k == calls[c] IN
    /\ At(c, "JoinInsert")
    /\ \E id \in RowId \ issued :
          /\ rows' = [rows EXCEPT ![id] =
                        [user |-> k.user, base |-> k.group[1], gid |-> k.group[2],
                         alias |-> k.alias, pin |-> k.pin]]
          /\ issued' = issued \cup {id}
    /\ Finish(c)
    /\ UNCHANGED <<users, spliit, told>>

JoinInsert(c) ==
    LET k == calls[c] IN
    /\ At(c, "JoinInsert")
    /\ \/ \E id \in RowId :
             InsertGroup(k.user, k.group[1], k.group[2], k.alias, k.pin, id)
       \/ /\ InsertConflicts(k.user, k.group[1], k.group[2], k.alias)
          /\ UNCHANGED storeVars
    /\ Finish(c)
    /\ UNCHANGED <<spliit, told>>

(* create_group, and creating from the config page *)

\* Spliit makes the group, with the caller as a participant.
Create(c, u, g, p, a) ==
    /\ Starts(c, "create") /\ IdLeft
    /\ HasUser(u)
    /\ ~Exists(g) /\ p \in Fresh
    /\ spliit' = Replaced(g, {}, {p})
    /\ \/ Goto(c, [Blank EXCEPT !.at = "CreateRead", !.user = u,
                                !.group = g, !.alias = a])
       \/ "lost" \in Faults /\ Finish(c)
    /\ UNCHANGED <<storeVars, told>>

\* It is read back for the participant ID of the caller, which stays empty if
\* nobody of the caller's name is found in it.  The tool and the page register
\* the group differently from here on.
CreateRead(c) ==
    /\ At(c, "CreateRead")
    /\ \/ \E p \in Live(calls[c].group) \cup {None},
             s \in {"Register", "WebRegister"} :
             Goto(c, [calls[c] EXCEPT !.at = s, !.pin = p, !.tries = 1])
       \/ "readback" \in Faults /\ Finish(c)
    /\ UNCHANGED <<storeVars, spliit, told>>

Tell(c) == told' = told \cup {calls[c].group}

Register_Silent(c) ==
    LET k == calls[c] IN
    /\ At(c, "Register")
    /\ \/ /\ \E id \in RowId :
                InsertGroup(k.user, k.group[1], k.group[2], k.alias, k.pin, id)
          /\ Tell(c)
       \/ /\ InsertConflicts(k.user, k.group[1], k.group[2], k.alias)
          /\ UNCHANGED <<storeVars, told>>
    /\ Finish(c) /\ UNCHANGED spliit
Register_SameAlias(c) ==
    LET k == calls[c] IN
    /\ At(c, "Register")
    /\ \E id \in RowId :
          InsertGroup(k.user, k.group[1], k.group[2], k.alias, k.pin, id)
    /\ Tell(c) /\ Finish(c) /\ UNCHANGED spliit

\* registerGroup: one attempt per alias candidate; when all are taken the
\* error names the group's ID, when the database fails it does not.
Register(c) ==
    LET k == calls[c]
        a == Candidates[k.alias][k.tries]
        taken == InsertConflicts(k.user, k.group[1], k.group[2], a)
    IN
    /\ At(c, "Register")
    /\ \/ /\ \E id \in RowId :
                InsertGroup(k.user, k.group[1], k.group[2], a, k.pin, id)
          /\ Finish(c) /\ Tell(c)
       \/ /\ taken /\ k.tries < Len(Candidates[k.alias])
          /\ Goto(c, [k EXCEPT !.tries = @ + 1])
          /\ UNCHANGED <<storeVars, told>>
       \/ /\ taken /\ k.tries = Len(Candidates[k.alias])
          /\ Finish(c) /\ Tell(c) /\ UNCHANGED storeVars
       \/ /\ "db" \in Faults
          /\ Finish(c) /\ UNCHANGED <<storeVars, told>>
    /\ UNCHANGED spliit

\* CreateSpliitGroup registers once, and names the ID if the alias is taken.
WebRegister(c) ==
    LET k == calls[c] IN
    /\ At(c, "WebRegister")
    /\ \/ /\ \E id \in RowId :
                InsertGroup(k.user, k.group[1], k.group[2], k.alias, k.pin, id)
          /\ Tell(c)
       \/ /\ InsertConflicts(k.user, k.group[1], k.group[2], k.alias)
          /\ Tell(c) /\ UNCHANGED storeVars
       \/ /\ "db" \in Faults
          /\ UNCHANGED <<storeVars, told>>
    /\ Finish(c)
    /\ UNCHANGED spliit

(* leave_group; the config page deletes by internal ID in one statement *)

LeaveResolve_RawReference(c, u, ref) ==
    /\ Starts(c, "leave")
    /\ ResolveGroup(u, ref) # {}
    /\ Goto(c, [Blank EXCEPT !.at = "LeaveDelete", !.user = u, !.id = ref])
    /\ UNCHANGED <<storeVars, spliit, told>>

LeaveResolve(c, u, ref) ==
    /\ Starts(c, "leave")
    /\ \E id \in ResolveGroup(u, ref) :
          Goto(c, [Blank EXCEPT !.at = "LeaveDelete", !.user = u, !.id = id])
    /\ UNCHANGED <<storeVars, spliit, told>>

LeaveDelete(c) ==
    LET k == calls[c] IN
    /\ At(c, "LeaveDelete")
    /\ \/ DeleteGroup(k.user, k.id)
       \/ k.id \notin RowsOf(k.user) /\ UNCHANGED storeVars
    /\ Finish(c)
    /\ UNCHANGED <<spliit, told>>

WebDelete(u, id) ==
    /\ "leave" \in Tools
    /\ DeleteGroup(u, id)
    /\ UNCHANGED toolVars

(* set_active_participant, and PATCH of a group from the config page *)

RepinResolve(c, u, ref) ==
    /\ Starts(c, "repin")
    /\ \E id \in ResolveGroup(u, ref) :
          Goto(c, [Holding(u, id, "PinFetch") EXCEPT !.asked = {"pin"}])
    /\ UNCHANGED <<storeVars, spliit, told>>

\* The page sends a new alias, a new participant, or both; a new participant
\* is looked up in Spliit first.
WebUpdateLoad(c, u, id) ==
    /\ Starts(c, "rename")
    /\ id \in RowsOf(u)
    /\ \/ Goto(c, [Holding(u, id, "PinFetch") EXCEPT !.asked = {"pin"}])
       \/ \E a \in Alias :
             \/ Goto(c, [Holding(u, id, "PinFetch") EXCEPT
                           !.alias = a, !.asked = {"alias", "pin"}])
             \/ Goto(c, [Holding(u, id, "RowWrite") EXCEPT
                           !.alias = a, !.asked = {"alias"}])
    /\ UNCHANGED <<storeVars, spliit, told>>

PinFetch_Unchecked(c) ==
    /\ At(c, "PinFetch")
    /\ \E p \in Pid : Goto(c, [calls[c] EXCEPT !.at = "RowWrite", !.pin = p])
    /\ UNCHANGED <<storeVars, spliit, told>>

PinFetch(c) ==
    /\ At(c, "PinFetch")
    /\ \E p \in Live(calls[c].group) :
          Goto(c, [calls[c] EXCEPT !.at = "RowWrite", !.pin = p])
    /\ UNCHANGED <<storeVars, spliit, told>>

\* A group that has lost the participant meanwhile, or all of them.
PinFetchFails(c) ==
    /\ At(c, "PinFetch")
    /\ Finish(c)
    /\ UNCHANGED <<storeVars, spliit, told>>

RowWrite_Upsert(c) ==
    LET k == calls[c] IN
    /\ At(c, "RowWrite")
    /\ ~AliasTaken(k.user, k.alias, k.id)
    /\ rows' = [rows EXCEPT ![k.id] =
                  [user |-> k.user, base |-> k.group[1], gid |-> k.group[2],
                   alias |-> k.alias, pin |-> k.pin]]
    /\ Finish(c)
    /\ UNCHANGED <<users, issued, spliit, told>>

\* The last statement of every handler that resolved a row: the row held since
\* then is written back, whatever has happened to the stored one.
RowWrite(c) ==
    LET k == calls[c] IN
    /\ At(c, "RowWrite")
    /\ \/ UpdateGroup(k.user, k.id, k.alias, k.pin)
       \/ /\ k.id \notin RowsOf(k.user) \/ AliasTaken(k.user, k.alias, k.id)
          /\ UNCHANGED storeVars
    /\ Finish(c)
    /\ UNCHANGED <<spliit, told>>

(* update_group *)

EditResolve(c, u, ref) ==
    /\ Starts(c, "edit")
    /\ \E id \in ResolveGroup(u, ref) : Goto(c, Holding(u, id, "EditDetails"))
    /\ UNCHANGED <<storeVars, spliit, told>>

EditDetails_NoSelfCheck(c) ==
    LET k == calls[c] IN
    /\ At(c, "EditDetails")
    /\ \/ \E cut \in SUBSET Unspent(k.group), add \in BOOLEAN :
             LET keep == Live(k.group) \ cut IN
             /\ keep # {} \/ add
             /\ Goto(c, [k EXCEPT !.at = "EditPush", !.keep = keep,
                                  !.add = add])
       \/ Finish(c)
    /\ UNCHANGED <<storeVars, spliit, told>>

\* The group is fetched, and buildGroupForm makes the list to send: everyone in
\* the group now, less the named participants, who may be neither the caller nor
\* have expenses, plus a new one if asked.  It refuses names it does not find,
\* and a request that changes nothing; or the group cannot be fetched.
EditDetails(c) ==
    LET k == calls[c] IN
    /\ At(c, "EditDetails")
    /\ \/ \E cut \in SUBSET (Unspent(k.group) \ {k.pin}), add \in BOOLEAN :
             LET keep == Live(k.group) \ cut IN
             /\ keep # {} \/ add
             /\ Goto(c, [k EXCEPT !.at = "EditPush", !.keep = keep,
                                  !.add = add])
       \/ Finish(c)
    /\ UNCHANGED <<storeVars, spliit, told>>

\* The form is sent; the group is read back for its names, which decides
\* nothing but whether the row is then refreshed.
EditPush(c) ==
    LET k == calls[c] IN
    /\ At(c, "EditPush")
    /\ \/ /\ \/ ~k.add /\ spliit' = Replaced(k.group, k.keep, {})
             \/ k.add /\ \E p \in Fresh : spliit' = Replaced(k.group, k.keep, {p})
          /\ \/ Goto(c, [k EXCEPT !.at = "RowWrite", !.keep = {}, !.add = FALSE])
             \/ "readback" \in Faults /\ Finish(c)
       \/ Finish(c) /\ UNCHANGED spliit                 \* Spliit refuses it
    /\ UNCHANGED <<storeVars, told>>

(* set_default_group, and the default group among the user's settings *)

DefaultResolve(c, u, ref) ==
    /\ Starts(c, "default")
    /\ \E id \in ResolveGroup(u, ref) :
          Goto(c, [Blank EXCEPT !.at = "SetDefault", !.user = u, !.id = id])
    /\ UNCHANGED <<storeVars, spliit, told>>

SetDefault(c) ==
    LET k == calls[c] IN
    /\ At(c, "SetDefault")
    /\ \/ SetDefaultGroup(k.user, k.id)
       \/ ~CanSetDefault(k.user, k.id) /\ UNCHANGED storeVars
    /\ Finish(c)
    /\ UNCHANGED <<spliit, told>>

\* The page names the row by ID, or clears the default; one statement each.
WebSetDefault(u, id) ==
    "default" \in Tools /\ SetDefaultGroup(u, id) /\ UNCHANGED toolVars
ClearDefault(u) ==
    "default" \in Tools /\ ClearDefaultGroup(u) /\ UNCHANGED toolVars

\* The request is cut off between two of its steps: the client goes away, the
\* process is killed, or a deadline passes.
Crash(c) ==
    /\ "crash" \in Faults /\ ~At(c, "idle")
    /\ Finish(c)
    /\ UNCHANGED <<storeVars, spliit, told>>

-----------------------------------------------------------------------------
(* People use Spliit directly, in any group whose ID somebody knows. *)

Known(g) == Founded[g] # {} \/ g \in told

SpliitEdit(g) ==
    /\ "spliit" \in Tools /\ Known(g)
    /\ \E p \in Pid :
         \/ /\ spliit[g][p] = "idle"                   \* an expense is recorded
            /\ spliit' = [spliit EXCEPT ![g][p] = "spent"]
         \/ /\ spliit[g][p] = "spent"                  \* its last one is deleted
            /\ spliit' = [spliit EXCEPT ![g][p] = "idle"]
         \/ /\ p \in Fresh                             \* somebody is added
            /\ spliit' = [spliit EXCEPT ![g][p] = "idle"]
         \/ /\ p \in Unspent(g) /\ Live(g) # {p}       \* somebody is removed
            /\ spliit' = [spliit EXCEPT ![g][p] = "gone"]
    /\ UNCHANGED <<storeVars, calls, told>>

-----------------------------------------------------------------------------

Init ==
    /\ StoreInit
    /\ spliit = [g \in Group |-> [p \in Pid |->
                    IF p \in Founded[g] THEN "idle" ELSE "unborn"]]
    /\ calls = [c \in Call |-> Blank]
    /\ told = {}

Next ==
    \/ \E u \in User, n \in Name : SignUp(u, n)
    \/ \E c \in Call, u \in User :
          \/ \E g \in Group, p \in Pid, a \in Alias :
                JoinFetch(c, u, g, p, a) \/ Create(c, u, g, p, a)
          \/ \E ref \in References :
                \/ LeaveResolve(c, u, ref)
                \/ RepinResolve(c, u, ref)
                \/ EditResolve(c, u, ref)
                \/ DefaultResolve(c, u, ref)
          \/ \E id \in RowId : WebUpdateLoad(c, u, id)
    \/ \E c \in Call :
          \/ JoinInsert(c)
          \/ CreateRead(c) \/ Register(c) \/ WebRegister(c)
          \/ LeaveDelete(c)
          \/ PinFetch(c) \/ PinFetchFails(c) \/ RowWrite(c)
          \/ EditDetails(c) \/ EditPush(c)
          \/ SetDefault(c)
          \/ Crash(c)
    \/ \E u \in User :
          \/ ClearDefault(u)
          \/ \E id \in RowId : WebDelete(u, id) \/ WebSetDefault(u, id)
    \/ \E g \in Group : SpliitEdit(g)

Spec == Init /\ [][Next]_vars

-----------------------------------------------------------------------------
(* Properties *)

\* Type invariant of the handlers' state.
ToolsTypeOK ==
    /\ spliit \in [Group -> [Pid -> Status]]
    /\ calls \in [Call -> CallState]
    /\ told \in SUBSET Group

\* Authorization boundary: whatever row a call resolved and carries through its
\* later steps is, or was until it was deleted, the caller's own, and still
\* links the group the call is talking to Spliit about (ResolveGroup).
Held(k) ==
    k.id # None =>
        /\ k.id \in issued
        /\ rows[k.id] # None =>
              /\ rows[k.id].user = k.user
              /\ k.group # None => k.group = GroupOf(k.id)
HeldRowsAreOwn == \A c \in Call : Held(calls[c])

\* The participant pinned as "you" is one of that very group, present or past:
\* no handler pins somebody from another group (FindParticipant).
PinsBelong ==
    \A id \in RowId :
        rows[id] # None /\ rows[id].pin # None =>
            spliit[GroupOf(id)][rows[id].pin] # "unborn"

\* A group made through the service is not lost: its ID has been returned to
\* the user who made it, or the call that will do so is still running.
Creating(g) ==
    \E c \in Call : calls[c].group = g /\
        calls[c].at \in {"CreateRead", "Register", "WebRegister"}
NothingStranded ==
    \A g \in Group : Exists(g) /\ Founded[g] = {} => g \in told \/ Creating(g)

\* The participants a step of call c pushes out of the group.
Dropped(c) ==
    LET g == calls[c].group IN
    IF At(c, "EditPush") /\ calls'[c].at # "EditPush" /\ spliit' # spliit
    THEN {p \in Live(g) : spliit'[g][p] = "gone"} ELSE {}

\* update_group never takes its caller away: whoever the caller was pinned to
\* when the call resolved the group is not among those it removes, whatever
\* people in Spliit and the caller's other calls do before the form is sent.
CallerStays == [][\A c \in Call : calls[c].pin \notin Dropped(c)]_vars

\* "A participant with expenses cannot be removed."  buildGroupForm refuses by
\* what it read: somebody who gets an expense, or joins and gets one, before the
\* form is sent goes all the same.
SpentStay ==
    [][\A c \in Call : \A p \in Dropped(c) :
          spliit[calls[c].group][p] # "spent"]_vars

\* "Removing yourself would leave the group unwritable through these tools": no
\* edit removes the participant its own row pins.  The guard in buildGroupForm is
\* against the pin as read, and another call of the user may have changed it.
StoredPinKept ==
    [][\A c \in Call : \A id \in RowsOf(calls[c].user) :
          id = calls[c].id => rows[id].pin \notin Dropped(c)]_vars

\* "Only the fields you pass change": update_group can be passed neither an alias
\* nor a participant to be, so refreshing the row changes neither.  UpdateGroup
\* writes both of them as they were read when the call began.
OnlyPassedChange ==
    [][\A c \in Call :
          At(c, "RowWrite") /\ ~At(c, "RowWrite")' /\ calls[c].asked = {} =>
              \A id \in RowsOf(calls[c].user) :
                  id = calls[c].id => /\ rows'[id].alias = rows[id].alias
                                      /\ rows'[id].pin = rows[id].pin]_vars

\* "AlreadyJoined reports whether this group is already available to you."
\* inspect_group looks the group's ID up like any reference of the user's, so the
\* same ID on another instance, or an alias equal to it, answers for it.
AlreadyJoined(u, g) == ResolveGroup(u, g[2]) # {}
JoinedIsTrue ==
    \A u \in User, g \in Group :
        Exists(g) /\ AlreadyJoined(u, g) => g \in Reach[u]

-----------------------------------------------------------------------------
(* Handlers run to completion: goroutines are scheduled, and every request *)
(* to an instance is bounded by the client's timeout.  Clients, people and *)
(* failures are under no obligation.                                       *)

StepOf(c) ==
    \/ JoinInsert(c) \/ CreateRead(c) \/ Register(c) \/ WebRegister(c)
    \/ LeaveDelete(c) \/ PinFetch(c) \/ PinFetchFails(c) \/ RowWrite(c)
    \/ EditDetails(c) \/ EditPush(c) \/ SetDefault(c)
FairSpec == Spec /\ \A c \in Call : WF_vars(StepOf(c))

\* A call that has made a group in Spliit ends, and by then its user has the
\* group's ID, however many aliases are taken meanwhile (registerGroup).
CreateEnds ==
    \A g \in Group : Creating(g) ~> (g \in told /\ ~Creating(g))
=============================================================================
