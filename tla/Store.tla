------------------------------- MODULE Store -------------------------------
(***************************************************************************)
(* The database behind the service: the users and groups tables of         *)
(* internal/db/migrations, and the SQL statements internal/store issues    *)
(* against them.  One action is one statement, which both engines run      *)
(* atomically; everything that takes several statements is a handler and   *)
(* lives in the modules that extend this one.                              *)
(*                                                                         *)
(* A row keeps the columns the handlers decide with: who owns it, which    *)
(* Spliit group it links (instance and group ID), its alias, and the       *)
(* participant pinned as "you".  Timestamps, e-mail, issuer and the        *)
(* cached name and currency of the group are left out.                     *)
(*                                                                         *)
(* A definition whose name ends in _Something is a mutated form of the one *)
(* before the underscore: a bug it could have, used to see that the runs   *)
(* would notice.                                                           *)
(***************************************************************************)

CONSTANTS User,      \* OIDC subjects
          Name,      \* display names
          Instance,  \* tRPC base URLs of Spliit instances
          Gid,       \* Spliit group IDs, unique within one instance only
          Alias,     \* per-user short names; may coincide with a group ID
          Pid,       \* Spliit participant IDs
          RowId,     \* UUIDs of rows of the groups table
          None       \* SQL NULL, or no row

\* A group created under a name that is not found in it afterwards has nobody
\* pinned: its participant_id stays empty.
Pin      == Pid \cup {None}
UserRow  == [name: Name, default: RowId \cup {None}]
GroupRow == [user: User, base: Instance, gid: Gid, alias: Alias, pin: Pin]

ASSUME NoneAssumption ==
    /\ None \notin RowId /\ None \notin UserRow /\ None \notin GroupRow
    /\ None \notin Instance \X Gid /\ None \notin Pid

VARIABLES users,   \* [User -> UserRow or None]
          rows,    \* [RowId -> GroupRow or None]
          issued   \* row IDs handed out so far; uuid.NewString never repeats

storeVars == <<users, rows, issued>>

StoreInit ==
    /\ users  = [u \in User |-> None]
    /\ rows   = [id \in RowId |-> None]
    /\ issued = {}

-----------------------------------------------------------------------------
(* Queries *)

HasUser(u) == users[u] # None

\* ListGroups: the rows user u registered.
RowsOf(u) == {id \in RowId : rows[id] # None /\ rows[id].user = u}

\* UNIQUE (user_sub, alias), seen from every row but one.
AliasTaken(u, a, but) == \E id \in RowsOf(u) \ {but} : rows[id].alias = a

\* UNIQUE (user_sub, base_url, spliit_group_id).
Registered(u, b, g) ==
    \E id \in RowsOf(u) : rows[id].base = b /\ rows[id].gid = g

ResolveGroup_AnyOwner(u, ref) ==
    {id \in RowId : rows[id] # None /\
        (rows[id].alias = ref \/ id = ref \/ rows[id].gid = ref)}
ResolveGroup_Unordered(u, ref) ==
    {id \in RowsOf(u) : rows[id].alias = ref \/ id = ref \/ rows[id].gid = ref}

\* ResolveGroup: an alias match comes first; among the rows that match by
\* internal or Spliit ID only, LIMIT 1 returns whichever the engine meets.
ResolveGroup(u, ref) ==
    LET byAlias == {id \in RowsOf(u) : rows[id].alias = ref}
        byId    == {id \in RowsOf(u) : id = ref \/ rows[id].gid = ref}
    IN  IF byAlias # {} THEN byAlias ELSE byId

\* DefaultGroup: the join of users and groups on default_group_id and owner.
DefaultGroup(u) ==
    {id \in RowsOf(u) : HasUser(u) /\ users[u].default = id}

-----------------------------------------------------------------------------
(* Statements.  Each is enabled exactly when the statement succeeds; the   *)
(* handlers name the negated guard where they take the error path.         *)

InsertUser(u, n) ==
    /\ ~HasUser(u)                                  \* sub is the primary key
    /\ users' = [users EXCEPT ![u] = [name |-> n, default |-> None]]
    /\ UNCHANGED <<rows, issued>>

SetDisplayName(u, n) ==
    /\ HasUser(u)
    /\ users' = [users EXCEPT ![u].name = n]
    /\ UNCHANGED <<rows, issued>>

\* The group must exist and be the user's own, in the same UPDATE.
CanSetDefault(u, id) == HasUser(u) /\ id \in RowsOf(u)

SetDefaultGroup(u, id) ==
    /\ CanSetDefault(u, id)
    /\ users' = [users EXCEPT ![u].default = id]
    /\ UNCHANGED <<rows, issued>>

ClearDefaultGroup(u) ==
    /\ HasUser(u)
    /\ users' = [users EXCEPT ![u].default = None]
    /\ UNCHANGED <<rows, issued>>

\* Both uniqueness constraints and the foreign key to users; any of them
\* failing is the same ErrConflict to the caller.
InsertConflicts(u, b, g, a) ==
    ~HasUser(u) \/ Registered(u, b, g) \/ AliasTaken(u, a, None)

InsertGroup_Stub(u, b, g, a, p, id) ==
    /\ ~InsertConflicts(u, b, g, a)
    /\ id \in RowId \ issued
    /\ rows' = [rows EXCEPT ![id] = [user |-> u, base |-> b, gid |-> g,
                                     alias |-> None, pin |-> p]]
    /\ issued' = issued \cup {id}
    /\ UNCHANGED users
InsertGroup_ReusedId(u, b, g, a, p, id) ==
    /\ ~InsertConflicts(u, b, g, a)
    /\ rows[id] = None
    /\ rows' = [rows EXCEPT ![id] =
                  [user |-> u, base |-> b, gid |-> g, alias |-> a, pin |-> p]]
    /\ issued' = issued \cup {id}
    /\ UNCHANGED users

InsertGroup(u, b, g, a, p, id) ==
    /\ ~InsertConflicts(u, b, g, a)
    /\ id \in RowId \ issued
    /\ rows' = [rows EXCEPT ![id] =
                  [user |-> u, base |-> b, gid |-> g, alias |-> a, pin |-> p]]
    /\ issued' = issued \cup {id}
    /\ UNCHANGED users

UpdateGroup_NoUnique(u, id, a, p) ==
    /\ id \in RowsOf(u)
    /\ rows' = [rows EXCEPT ![id].alias = a, ![id].pin = p]
    /\ UNCHANGED <<users, issued>>

\* The statement writes alias and pin together, whichever of them the caller
\* meant to change, and only to a row that still exists and is the user's.
UpdateGroup(u, id, a, p) ==
    /\ id \in RowsOf(u)
    /\ ~AliasTaken(u, a, id)
    /\ rows' = [rows EXCEPT ![id].alias = a, ![id].pin = p]
    /\ UNCHANGED <<users, issued>>

DefaultsWithout_Dangling(id) == users
DefaultsWithout_All(id) ==
    [u \in User |-> IF HasUser(u) THEN [users[u] EXCEPT !.default = None]
                    ELSE users[u]]

\* default_group_id REFERENCES groups (id) ON DELETE SET NULL.
DefaultsWithout(id) ==
    [u \in User |-> IF HasUser(u) /\ users[u].default = id
                    THEN [users[u] EXCEPT !.default = None]
                    ELSE users[u]]

DeleteGroup(u, id) ==
    /\ id \in RowsOf(u)
    /\ rows'  = [rows EXCEPT ![id] = None]
    /\ users' = DefaultsWithout(id)
    /\ UNCHANGED issued

StoreNext ==
    \E u \in User :
        \/ \E n \in Name : InsertUser(u, n) \/ SetDisplayName(u, n)
        \/ ClearDefaultGroup(u)
        \/ \E id \in RowId : SetDefaultGroup(u, id) \/ DeleteGroup(u, id)
        \/ \E id \in RowId, a \in Alias, p \in Pin : UpdateGroup(u, id, a, p)
        \/ \E b \in Instance, g \in Gid, a \in Alias, p \in Pin, id \in RowId :
              InsertGroup(u, b, g, a, p, id)

StoreSpec == StoreInit /\ [][StoreNext]_storeVars

-----------------------------------------------------------------------------
(* What the store promises *)

\* Type invariant of the three tables' model.
StoreTypeOK ==
    /\ users  \in [User -> UserRow \cup {None}]
    /\ rows   \in [RowId -> GroupRow \cup {None}]
    /\ issued \in SUBSET RowId

\* One row per user, instance and group, and one per user and alias: a tool
\* call that names an alias can mean one group only, and leaving a group is
\* the end of it.  Insert and update must both enforce it.
SameKey(i, j) ==
    \/ rows[i].alias = rows[j].alias
    \/ rows[i].base = rows[j].base /\ rows[i].gid = rows[j].gid
RowsUnique ==
    \A u \in User : \A i, j \in RowsOf(u) : SameKey(i, j) => i = j

\* "Tools only ever need the alias": a reference that is the alias of one of
\* the user's groups means that group, whatever else it happens to match
\* (ResolveGroup's ORDER BY).
AliasWins ==
    \A u \in User : \A id \in RowsOf(u) : ResolveGroup(u, rows[id].alias) = {id}

\* The default group feeds every tool call that names no group, so it must be
\* a row that exists and belongs to that very user, whatever is deleted or
\* chosen in the meantime (SetDefaultGroup, DeleteGroup).
DefaultIsOwn ==
    \A u \in User :
        HasUser(u) /\ users[u].default # None => users[u].default \in RowsOf(u)

\* Foreign key of groups.user_sub, and no row without an issued ID.
OwnersExist ==
    \A id \in RowId : rows[id] # None => id \in issued /\ HasUser(rows[id].user)

StoreInv == StoreTypeOK /\ RowsUnique /\ DefaultIsOwn /\ OwnersExist

\* A row keeps its owner, instance and group for life, and a row once deleted
\* never comes back under its old ID: a handler that holds a row it read
\* earlier can neither redirect somebody's alias to another group nor undo a
\* leave (UpdateGroup's WHERE clause).
RowStep ==
    \A id \in issued :
        /\ rows[id] = None => rows'[id] = None
        /\ rows[id] # None /\ rows'[id] # None =>
              /\ rows'[id].user = rows[id].user
              /\ rows'[id].base = rows[id].base
              /\ rows'[id].gid  = rows[id].gid
RowIdentity == [][RowStep]_storeVars

-----------------------------------------------------------------------------
(* Refinement: what a user can reach, without rows, IDs and aliases. *)

GroupOf(id) == <<rows[id].base, rows[id].gid>>
Reach    == [u \in User |-> {GroupOf(id) : id \in RowsOf(u)}]
Fallback == [u \in User |-> IF HasUser(u) /\ users[u].default # None
                            THEN GroupOf(users[u].default) ELSE None]

Acc == INSTANCE Access WITH
          Group <- Instance \X Gid, avail <- Reach, fallback <- Fallback

\* The tables implement the access contract of module Access.
AccessSpec == Acc!Spec
=============================================================================
