---------------------------- MODULE StoreProofs ----------------------------
(***************************************************************************)
(* Theorems about module Store, for any number of users, groups, aliases   *)
(* and rows: its invariant, the identity of rows, and that it implements   *)
(* module Access.                                                          *)
(***************************************************************************)
EXTENDS Store, TLAPS

-----------------------------------------------------------------------------
(* Each statement preserves the invariant. *)

LEMMA InitInv == StoreInit => StoreInv
  BY NoneAssumption
     DEF StoreInit, StoreInv, StoreTypeOK, RowsUnique, DefaultIsOwn,
         OwnersExist, RowsOf, HasUser

LEMMA InsertUserInv ==
  ASSUME StoreInv, NEW u \in User, NEW n \in Name, InsertUser(u, n)
  PROVE  StoreInv'
<1> USE NoneAssumption DEF StoreInv, InsertUser, HasUser
<1>1. users'[u] # None /\ \A v \in User : v # u => users'[v] = users[v]
  BY DEF StoreTypeOK, UserRow
<1>2. StoreTypeOK'
  BY DEF StoreTypeOK, UserRow
<1>3. RowsUnique'
  BY DEF RowsUnique, RowsOf, SameKey
<1>4. DefaultIsOwn'
  BY <1>1 DEF DefaultIsOwn, RowsOf, StoreTypeOK, UserRow
<1>5. OwnersExist'
  BY <1>1 DEF OwnersExist, StoreTypeOK, GroupRow
<1>6. QED
  BY <1>2, <1>3, <1>4, <1>5

LEMMA SetDisplayNameInv ==
  ASSUME StoreInv, NEW u \in User, NEW n \in Name, SetDisplayName(u, n)
  PROVE  StoreInv'
<1> USE NoneAssumption DEF StoreInv, SetDisplayName, HasUser
<1>0. users[u] \in UserRow
  BY DEF StoreTypeOK
<1>1. \A v \in User : /\ (users'[v] = None) <=> (users[v] = None)
                      /\ users[v] # None => users'[v].default = users[v].default
  BY <1>0 DEF StoreTypeOK, UserRow
<1>2. StoreTypeOK'
  BY <1>0 DEF StoreTypeOK, UserRow
<1>3. RowsUnique'
  BY DEF RowsUnique, RowsOf, SameKey
<1>4. DefaultIsOwn'
  BY <1>1 DEF DefaultIsOwn, RowsOf
<1>5. OwnersExist'
  BY <1>1 DEF OwnersExist, StoreTypeOK, GroupRow
<1>6. QED
  BY <1>2, <1>3, <1>4, <1>5

LEMMA SetDefaultInv ==
  ASSUME StoreInv, NEW u \in User, NEW d \in RowId \cup {None},
         HasUser(u), d # None => d \in RowsOf(u),
         users' = [users EXCEPT ![u].default = d],
         UNCHANGED <<rows, issued>>
  PROVE  StoreInv'
<1> USE NoneAssumption DEF StoreInv, HasUser
<1>0. users[u] \in UserRow
  BY DEF StoreTypeOK
<1>1. /\ \A v \in User : (users'[v] = None) <=> (users[v] = None)
      /\ users'[u].default = d
      /\ \A v \in User : v # u => users'[v] = users[v]
  BY <1>0 DEF StoreTypeOK, UserRow
<1>2. StoreTypeOK'
  BY <1>0 DEF StoreTypeOK, UserRow
<1>3. RowsUnique'
  BY DEF RowsUnique, RowsOf, SameKey
<1>4. DefaultIsOwn'
  BY <1>1 DEF DefaultIsOwn, RowsOf
<1>5. OwnersExist'
  BY <1>1 DEF OwnersExist, StoreTypeOK, GroupRow
<1>6. QED
  BY <1>2, <1>3, <1>4, <1>5

LEMMA InsertGroupInv ==
  ASSUME StoreInv, NEW u \in User, NEW b \in Instance, NEW g \in Gid,
         NEW a \in Alias, NEW p \in Pin, NEW id \in RowId,
         InsertGroup(u, b, g, a, p, id)
  PROVE  StoreInv'
<1> DEFINE row == [user |-> u, base |-> b, gid |-> g, alias |-> a, pin |-> p]
<1> USE NoneAssumption DEF StoreInv
<1>1. /\ HasUser(u) /\ ~Registered(u, b, g) /\ ~AliasTaken(u, a, None)
      /\ id \notin issued
      /\ rows' = [rows EXCEPT ![id] = row]
      /\ issued' = issued \cup {id}
      /\ users' = users
  BY DEF InsertGroup, InsertConflicts
<1>2. row \in GroupRow /\ row # None
  BY DEF GroupRow
<1>3. rows[id] = None
  BY <1>1 DEF OwnersExist
<1>4. StoreTypeOK'
  BY <1>1, <1>2 DEF StoreTypeOK
<1>5. /\ rows'[id] = row
      /\ \A j \in RowId : j # id => rows'[j] = rows[j]
  BY <1>1 DEF StoreTypeOK
<1>6. RowsUnique'
  <2>1. SUFFICES ASSUME NEW v \in User,
                        NEW i \in RowsOf(v)', NEW j \in RowsOf(v)',
                        SameKey(i, j)', i # j
                 PROVE  FALSE
    BY DEF RowsUnique
  <2>2. CASE i # id /\ j # id
    <3>1. i \in RowsOf(v) /\ j \in RowsOf(v) /\ SameKey(i, j)
      BY <1>5, <2>1, <2>2 DEF RowsOf, SameKey
    <3>2. QED
      BY <2>1, <3>1 DEF RowsUnique
  <2>3. ASSUME NEW k \in RowsOf(v)', k # id, SameKey(k, id)', id \in RowsOf(v)'
        PROVE  FALSE
    <3>1. v = u /\ k \in RowsOf(u)
      BY <1>5, <2>3 DEF RowsOf
    <3>2. /\ rows[k].alias # a
          /\ ~(rows[k].base = b /\ rows[k].gid = g)
      BY <1>1, <3>1 DEF AliasTaken, Registered, RowsOf
    <3>3. QED
      BY <1>5, <2>3, <3>2 DEF SameKey, RowsOf
  <2>4. CASE i = id
    BY <2>1, <2>3, <2>4 DEF SameKey
  <2>5. CASE j = id
    BY <2>1, <2>3, <2>5 DEF SameKey
  <2>6. QED
    BY <2>2, <2>4, <2>5
<1>7. DefaultIsOwn'
  BY <1>1, <1>3, <1>5 DEF DefaultIsOwn, RowsOf, HasUser
<1>8. OwnersExist'
  BY <1>1, <1>5 DEF OwnersExist, HasUser
<1>9. QED
  BY <1>4, <1>6, <1>7, <1>8

LEMMA UpdateGroupInv ==
  ASSUME StoreInv, NEW u \in User, NEW id \in RowId,
         NEW a \in Alias, NEW p \in Pin, UpdateGroup(u, id, a, p)
  PROVE  StoreInv'
<1> USE NoneAssumption DEF StoreInv
<1>1. /\ id \in RowsOf(u) /\ ~AliasTaken(u, a, id)
      /\ rows' = [rows EXCEPT ![id].alias = a, ![id].pin = p]
      /\ users' = users /\ issued' = issued
  BY DEF UpdateGroup
<1>2. rows[id] # None /\ rows[id] \in GroupRow /\ rows[id].user = u
  BY <1>1 DEF StoreTypeOK, RowsOf
<1>3. /\ rows'[id] = [rows[id] EXCEPT !.alias = a, !.pin = p]
      /\ \A j \in RowId : j # id => rows'[j] = rows[j]
  BY <1>1 DEF StoreTypeOK
<1>4. /\ rows'[id] \in GroupRow /\ rows'[id] # None
      /\ rows'[id].user = u /\ rows'[id].alias = a
      /\ rows'[id].base = rows[id].base /\ rows'[id].gid = rows[id].gid
  BY <1>2, <1>3 DEF GroupRow
<1>5. StoreTypeOK'
  BY <1>1, <1>3, <1>4 DEF StoreTypeOK
<1>5a. ASSUME NEW j \in RowId
       PROVE  /\ (rows'[j] = None) <=> (rows[j] = None)
              /\ rows'[j].user = rows[j].user
  <2>1. CASE j = id
    BY <1>2, <1>4, <2>1
  <2>2. CASE j # id
    BY <1>3, <2>2
  <2>3. QED
    BY <2>1, <2>2
<1>6. \A v \in User : RowsOf(v)' = RowsOf(v)
  BY <1>5a DEF RowsOf
<1>7. RowsUnique'
  <2>1. SUFFICES ASSUME NEW v \in User, NEW i \in RowsOf(v), NEW j \in RowsOf(v),
                        SameKey(i, j)', i # j
                 PROVE  FALSE
    BY <1>6 DEF RowsUnique
  <2>2. CASE i # id /\ j # id
    BY <1>3, <2>1, <2>2 DEF RowsUnique, SameKey, RowsOf
  <2>3. ASSUME NEW k \in RowsOf(v), k # id, SameKey(k, id)', id \in RowsOf(v)
        PROVE  FALSE
    <3>1. v = u /\ rows'[k] = rows[k]
      BY <1>2, <1>3, <2>3 DEF RowsOf
    <3>2. rows[k].alias # a
      BY <1>1, <2>3, <3>1 DEF AliasTaken
    <3>3. SameKey(k, id)
      BY <1>4, <2>3, <3>1, <3>2 DEF SameKey
    <3>4. QED
      BY <2>3, <3>3 DEF RowsUnique
  <2>4. CASE i = id
    BY <2>1, <2>3, <2>4 DEF SameKey
  <2>5. CASE j = id
    BY <2>1, <2>3, <2>5 DEF SameKey
  <2>6. QED
    BY <2>2, <2>4, <2>5
<1>8. DefaultIsOwn'
  BY <1>1, <1>6 DEF DefaultIsOwn, HasUser
<1>9. OwnersExist'
  BY <1>1, <1>5a DEF OwnersExist, HasUser
<1>10. QED
  BY <1>5, <1>7, <1>8, <1>9

LEMMA DeleteGroupInv ==
  ASSUME StoreInv, NEW u \in User, NEW id \in RowId, DeleteGroup(u, id)
  PROVE  StoreInv'
<1> USE NoneAssumption DEF StoreInv
<1>1. /\ id \in RowsOf(u)
      /\ rows' = [rows EXCEPT ![id] = None]
      /\ users' = DefaultsWithout(id)
      /\ issued' = issued
  BY DEF DeleteGroup
<1>2. /\ rows'[id] = None
      /\ \A j \in RowId : j # id => rows'[j] = rows[j]
  BY <1>1 DEF StoreTypeOK
<1>3. \A v \in User :
         /\ HasUser(v)' <=> HasUser(v)
         /\ HasUser(v) => users'[v].default =
                            IF users[v].default = id THEN None ELSE users[v].default
         /\ users'[v] \in UserRow \cup {None}
  <2>1. SUFFICES ASSUME NEW v \in User
                 PROVE  /\ HasUser(v)' <=> HasUser(v)
                        /\ HasUser(v) => users'[v].default =
                             IF users[v].default = id THEN None ELSE users[v].default
                        /\ users'[v] \in UserRow \cup {None}
    OBVIOUS
  <2>2. users[v] \in UserRow \cup {None}
    BY DEF StoreTypeOK
  <2>3. QED
    BY <1>1, <2>2 DEF DefaultsWithout, HasUser, UserRow
<1>4. StoreTypeOK'
  <2>1. users' \in [User -> UserRow \cup {None}]
    BY <1>1, <1>3 DEF DefaultsWithout
  <2>2. QED
    BY <1>1, <2>1 DEF StoreTypeOK
<1>5. \A v \in User : RowsOf(v)' = RowsOf(v) \ {id}
  BY <1>1, <1>2 DEF RowsOf
<1>6. RowsUnique'
  BY <1>2, <1>5 DEF RowsUnique, SameKey, RowsOf
<1>7. DefaultIsOwn'
  BY <1>3, <1>5 DEF DefaultIsOwn
<1>8. OwnersExist'
  BY <1>1, <1>2, <1>3, <1>4 DEF OwnersExist, StoreTypeOK, GroupRow
<1>9. QED
  BY <1>4, <1>6, <1>7, <1>8

LEMMA NextInv == StoreInv /\ [StoreNext]_storeVars => StoreInv'
<1> SUFFICES ASSUME StoreInv, [StoreNext]_storeVars
             PROVE  StoreInv'
  OBVIOUS
<1>1. ASSUME NEW u \in User, NEW n \in Name, InsertUser(u, n)
      PROVE  StoreInv'
  BY <1>1, InsertUserInv
<1>2. ASSUME NEW u \in User, NEW n \in Name, SetDisplayName(u, n)
      PROVE  StoreInv'
  BY <1>2, SetDisplayNameInv
<1>3. ASSUME NEW u \in User, ClearDefaultGroup(u)
      PROVE  StoreInv'
  BY <1>3, SetDefaultInv DEF ClearDefaultGroup
<1>4. ASSUME NEW u \in User, NEW id \in RowId, SetDefaultGroup(u, id)
      PROVE  StoreInv'
  BY <1>4, SetDefaultInv DEF SetDefaultGroup, CanSetDefault
<1>5. ASSUME NEW u \in User, NEW id \in RowId, DeleteGroup(u, id)
      PROVE  StoreInv'
  BY <1>5, DeleteGroupInv
<1>6. ASSUME NEW u \in User, NEW id \in RowId, NEW a \in Alias, NEW p \in Pin,
             UpdateGroup(u, id, a, p)
      PROVE  StoreInv'
  BY <1>6, UpdateGroupInv
<1>7. ASSUME NEW u \in User, NEW b \in Instance, NEW g \in Gid, NEW a \in Alias,
             NEW p \in Pin, NEW id \in RowId, InsertGroup(u, b, g, a, p, id)
      PROVE  StoreInv'
  BY <1>7, InsertGroupInv
<1>8. CASE UNCHANGED storeVars
  BY <1>8 DEF storeVars, StoreInv, StoreTypeOK, RowsUnique, DefaultIsOwn,
              OwnersExist, RowsOf, HasUser, SameKey
<1>9. QED
  BY <1>1, <1>2, <1>3, <1>4, <1>5, <1>6, <1>7, <1>8 DEF StoreNext

\* The tables keep their types, their two uniqueness constraints, their foreign
\* keys and the ownership of the default group, whatever statements run in
\* whatever order (internal/store and the constraints of the migrations).
THEOREM StoreInvariance == StoreSpec => []StoreInv
<1>1. StoreInit => StoreInv
  BY InitInv
<1>2. StoreInv /\ [StoreNext]_storeVars => StoreInv'
  BY NextInv
<1>3. QED
  BY <1>1, <1>2, PTL DEF StoreSpec

\* Every statement keeps the tables well formed.
THEOREM StoreTypesHold == StoreSpec => []StoreTypeOK
BY StoreInvariance, PTL DEF StoreInv

\* A user has one row per group of an instance and one per alias, whichever
\* statements race (the UNIQUE constraints on groups).
THEOREM RowsAlwaysUnique == StoreSpec => []RowsUnique
BY StoreInvariance, PTL DEF StoreInv

\* The default group is a row of the same user, one that exists
\* (SetDefaultGroup's check and ON DELETE SET NULL).
THEOREM DefaultAlwaysOwn == StoreSpec => []DefaultIsOwn
BY StoreInvariance, PTL DEF StoreInv

\* A reference that is an alias of the user's means the row of that alias and no
\* other, although it may be another row's ID as well (ResolveGroup's ORDER BY).
THEOREM AliasAlwaysWins == StoreSpec => []AliasWins
<1>1. RowsUnique => AliasWins
  <2> SUFFICES ASSUME RowsUnique, NEW u \in User, NEW id \in RowsOf(u)
               PROVE  ResolveGroup(u, rows[id].alias) = {id}
    BY DEF AliasWins
  <2>1. \A i \in RowsOf(u) : rows[i].alias = rows[id].alias => i = id
    BY DEF RowsUnique, SameKey
  <2>2. {i \in RowsOf(u) : rows[i].alias = rows[id].alias} = {id}
    BY <2>1
  <2>3. QED
    BY <2>2 DEF ResolveGroup
<1>2. QED
  BY <1>1, StoreInvariance, PTL DEF StoreInv

-----------------------------------------------------------------------------
(* Rows keep their identity. *)

LEMMA NextRowStep == StoreInv /\ [StoreNext]_storeVars => [RowStep]_storeVars
<1> SUFFICES ASSUME StoreInv, StoreNext
             PROVE  RowStep
  BY DEF storeVars
<1> SUFFICES ASSUME NEW k \in issued
             PROVE  /\ rows[k] = None => rows'[k] = None
                    /\ rows[k] # None /\ rows'[k] # None =>
                          /\ rows'[k].user = rows[k].user
                          /\ rows'[k].base = rows[k].base
                          /\ rows'[k].gid  = rows[k].gid
  BY DEF RowStep
<1> USE DEF StoreInv
<1>0. k \in RowId
  BY DEF StoreTypeOK
<1>1. CASE rows' = rows
  BY <1>1
<1>2. ASSUME NEW u \in User, NEW id \in RowId, DeleteGroup(u, id)
      PROVE  rows'[k] = None \/ rows'[k] = rows[k]
  BY <1>0, <1>2 DEF DeleteGroup, StoreTypeOK
<1>3. ASSUME NEW u \in User, NEW id \in RowId, NEW a \in Alias, NEW p \in Pin,
             UpdateGroup(u, id, a, p)
      PROVE  \/ rows'[k] = rows[k]
             \/ /\ rows[k] # None /\ rows'[k].user = rows[k].user
                /\ rows'[k].base = rows[k].base /\ rows'[k].gid = rows[k].gid
  <2>1. CASE k # id
    BY <1>0, <1>3, <2>1 DEF UpdateGroup, StoreTypeOK
  <2>2. CASE k = id
    <3>1. rows[id] # None /\ rows[id] \in GroupRow
      BY <1>3 DEF UpdateGroup, RowsOf, StoreTypeOK
    <3>2. rows'[id] = [rows[id] EXCEPT !.alias = a, !.pin = p]
      BY <1>3 DEF UpdateGroup, StoreTypeOK
    <3>3. QED
      BY <2>2, <3>1, <3>2 DEF GroupRow
  <2>3. QED
    BY <2>1, <2>2
<1>4. ASSUME NEW u \in User, NEW b \in Instance, NEW g \in Gid, NEW a \in Alias,
             NEW p \in Pin, NEW id \in RowId, InsertGroup(u, b, g, a, p, id)
      PROVE  rows'[k] = rows[k]
  <2>1. k # id
    BY <1>4 DEF InsertGroup
  <2>2. QED
    BY <1>0, <1>4, <2>1 DEF InsertGroup, StoreTypeOK
<1>5. QED
  BY <1>1, <1>2, <1>3, <1>4
     DEF StoreNext, InsertUser, SetDisplayName, ClearDefaultGroup, SetDefaultGroup

\* A row never changes owner, instance or group, and a deleted row never
\* returns, whoever still holds a copy of it (UpdateGroup, DeleteGroup).
THEOREM RowIdentityHolds == StoreSpec => RowIdentity
<1>1. StoreInv /\ [StoreNext]_storeVars => [RowStep]_storeVars
  BY NextRowStep
<1>2. QED
  BY <1>1, StoreInvariance, PTL DEF StoreSpec, RowIdentity

-----------------------------------------------------------------------------
(* The tables implement module Access. *)

LEMMA AccessInit == StoreInit => Acc!Init
  BY DEF StoreInit, Acc!Init, Reach, Fallback, RowsOf, HasUser

\* A statement that leaves groups and defaults as they are is a stutter.
LEMMA AccessStutter ==
  ASSUME \A u \in User : RowsOf(u)' = RowsOf(u),
         \A id \in RowId : rows[id] # None => GroupOf(id)' = GroupOf(id),
         \A u \in User : Fallback'[u] = Fallback[u]
  PROVE  UNCHANGED <<Reach, Fallback>>
<1>1. \A u \in User : Reach'[u] = Reach[u]
  BY DEF Reach, RowsOf
<1>2. Reach' = Reach
  BY <1>1 DEF Reach
<1>3. Fallback' = Fallback
  BY DEF Fallback
<1>4. QED
  BY <1>2, <1>3

LEMMA FallbackOf ==
  ASSUME StoreInv, NEW u \in User
  PROVE  \/ Fallback[u] = None /\ (~HasUser(u) \/ users[u].default = None)
         \/ /\ HasUser(u) /\ users[u].default \in RowsOf(u)
            /\ Fallback[u] = GroupOf(users[u].default)
            /\ Fallback[u] \in Reach[u] /\ Fallback[u] # None
<1>1. CASE ~HasUser(u) \/ users[u].default = None
  BY <1>1 DEF Fallback
<1>2. CASE HasUser(u) /\ users[u].default # None
  <2>1. users[u].default \in RowsOf(u)
    BY <1>2 DEF StoreInv, DefaultIsOwn
  <2>2. rows[users[u].default] \in GroupRow
    BY <2>1 DEF StoreInv, StoreTypeOK, RowsOf
  <2>3. GroupOf(users[u].default) \in Instance \X Gid
    BY <2>2 DEF GroupOf, GroupRow
  <2>4. QED
    BY <1>2, <2>1, <2>3, NoneAssumption DEF Fallback, Reach
<1>3. QED
  BY <1>1, <1>2

LEMMA InsertUserAccess ==
  ASSUME StoreInv, NEW u \in User, NEW n \in Name, InsertUser(u, n)
  PROVE  UNCHANGED <<Reach, Fallback>>
<1>1. /\ users'[u] = [name |-> n, default |-> None]
      /\ \A v \in User : v # u => users'[v] = users[v]
      /\ rows' = rows /\ users[u] = None
  BY DEF InsertUser, StoreInv, StoreTypeOK, HasUser
<1>2. \A v \in User : Fallback'[v] = Fallback[v]
  BY <1>1 DEF Fallback, HasUser, GroupOf
<1>3. QED
  BY <1>1, <1>2, AccessStutter DEF RowsOf, GroupOf

LEMMA SetDisplayNameAccess ==
  ASSUME StoreInv, NEW u \in User, NEW n \in Name, SetDisplayName(u, n)
  PROVE  UNCHANGED <<Reach, Fallback>>
<1>1. users[u] \in UserRow /\ users[u] # None
  BY DEF SetDisplayName, StoreInv, StoreTypeOK, HasUser
<1>2. /\ users'[u] = [users[u] EXCEPT !.name = n]
      /\ \A v \in User : v # u => users'[v] = users[v]
      /\ rows' = rows
  BY DEF SetDisplayName, StoreInv, StoreTypeOK
<1>3. users'[u].default = users[u].default /\ users'[u] # None
  BY <1>1, <1>2, NoneAssumption DEF UserRow
<1>4. \A v \in User : Fallback'[v] = Fallback[v]
  BY <1>1, <1>2, <1>3 DEF Fallback, HasUser, GroupOf
<1>5. QED
  BY <1>2, <1>4, AccessStutter DEF RowsOf, GroupOf

LEMMA ClearDefaultAccess ==
  ASSUME StoreInv, NEW u \in User, ClearDefaultGroup(u)
  PROVE  Acc!Clear(u)
<1>1. users[u] \in UserRow /\ users[u] # None
  BY DEF ClearDefaultGroup, StoreInv, StoreTypeOK, HasUser
<1>2. /\ users'[u].default = None
      /\ \A v \in User : v # u => users'[v] = users[v]
      /\ rows' = rows
  BY <1>1 DEF ClearDefaultGroup, StoreInv, StoreTypeOK, UserRow
<1>3. Reach' = Reach
  BY <1>2 DEF Reach, RowsOf, GroupOf
<1>4. Fallback' = [Fallback EXCEPT ![u] = None]
  BY <1>2 DEF Fallback, HasUser, GroupOf
<1>5. QED
  BY <1>3, <1>4 DEF Acc!Clear

LEMMA SetDefaultAccess ==
  ASSUME StoreInv, NEW u \in User, NEW id \in RowId, SetDefaultGroup(u, id)
  PROVE  Acc!Choose(u, GroupOf(id))
<1>1. users[u] \in UserRow /\ users[u] # None /\ id \in RowsOf(u)
  BY DEF SetDefaultGroup, CanSetDefault, StoreInv, StoreTypeOK, HasUser
<1>2. /\ users'[u] = [users[u] EXCEPT !.default = id]
      /\ \A v \in User : v # u => users'[v] = users[v]
      /\ rows' = rows
  BY <1>1 DEF SetDefaultGroup, StoreInv, StoreTypeOK
<1>3. users'[u].default = id /\ users'[u] # None /\ id # None
  BY <1>1, <1>2, NoneAssumption DEF UserRow
<1>4. Reach' = Reach
  BY <1>2 DEF Reach, RowsOf, GroupOf
<1>5. Fallback' = [Fallback EXCEPT ![u] = GroupOf(id)]
  BY <1>2, <1>3 DEF Fallback, HasUser, GroupOf
<1>6. GroupOf(id) \in Reach[u]
  BY <1>1 DEF Reach
<1>7. QED
  BY <1>4, <1>5, <1>6 DEF Acc!Choose

LEMMA UpdateGroupAccess ==
  ASSUME StoreInv, NEW u \in User, NEW id \in RowId,
         NEW a \in Alias, NEW p \in Pin, UpdateGroup(u, id, a, p)
  PROVE  UNCHANGED <<Reach, Fallback>>
<1>1. rows[id] # None /\ rows[id] \in GroupRow
  BY DEF UpdateGroup, RowsOf, StoreInv, StoreTypeOK
<1>2. /\ rows'[id] = [rows[id] EXCEPT !.alias = a, !.pin = p]
      /\ \A j \in RowId : j # id => rows'[j] = rows[j]
      /\ users' = users
  BY DEF UpdateGroup, StoreInv, StoreTypeOK
<1>3. /\ rows'[id] # None /\ rows'[id].user = rows[id].user
      /\ rows'[id].base = rows[id].base /\ rows'[id].gid = rows[id].gid
  BY <1>1, <1>2, NoneAssumption DEF GroupRow
<1>4. ASSUME NEW j \in RowId
      PROVE  /\ (rows'[j] = None) <=> (rows[j] = None)
             /\ rows'[j].user = rows[j].user
             /\ rows'[j].base = rows[j].base /\ rows'[j].gid = rows[j].gid
  <2>1. CASE j = id
    BY <1>1, <1>3, <2>1
  <2>2. CASE j # id
    BY <1>2, <2>2
  <2>3. QED
    BY <2>1, <2>2
<1>5. \A v \in User : RowsOf(v)' = RowsOf(v)
  BY <1>4 DEF RowsOf
<1>6. \A j \in RowId : GroupOf(j)' = GroupOf(j)
  BY <1>4 DEF GroupOf
<1>7. \A v \in User : Fallback'[v] = Fallback[v]
  <2>1. SUFFICES ASSUME NEW v \in User
                 PROVE  Fallback'[v] = Fallback[v]
    OBVIOUS
  <2>2. HasUser(v) /\ users[v].default # None => users[v].default \in RowId
    BY DEF StoreInv, DefaultIsOwn, RowsOf
  <2>3. QED
    BY <1>2, <1>6, <2>2 DEF Fallback, HasUser
<1>8. QED
  BY <1>5, <1>6, <1>7, AccessStutter

LEMMA InsertGroupAccess ==
  ASSUME StoreInv, NEW u \in User, NEW b \in Instance, NEW g \in Gid,
         NEW a \in Alias, NEW p \in Pin, NEW id \in RowId,
         InsertGroup(u, b, g, a, p, id)
  PROVE  Acc!Register(u, <<b, g>>)
<1> DEFINE row == [user |-> u, base |-> b, gid |-> g, alias |-> a, pin |-> p]
<1>1. /\ HasUser(u) /\ ~Registered(u, b, g) /\ id \notin issued
      /\ rows' = [rows EXCEPT ![id] = row] /\ users' = users
  BY DEF InsertGroup, InsertConflicts
<1>2. rows[id] = None /\ row # None
  BY <1>1, NoneAssumption DEF StoreInv, OwnersExist, GroupRow
<1>3. /\ rows'[id] = row
      /\ \A j \in RowId : j # id => rows'[j] = rows[j]
  BY <1>1 DEF StoreInv, StoreTypeOK
<1>4. /\ RowsOf(u)' = RowsOf(u) \cup {id}
      /\ \A v \in User : v # u => RowsOf(v)' = RowsOf(v)
  BY <1>2, <1>3 DEF RowsOf
<1>5. /\ GroupOf(id)' = <<b, g>>
      /\ \A j \in RowId : j # id => GroupOf(j)' = GroupOf(j)
  BY <1>3 DEF GroupOf
<1>6. <<b, g>> \notin Reach[u]
  <2>1. \A j \in RowsOf(u) : GroupOf(j) # <<b, g>>
    BY <1>1 DEF Registered, GroupOf
  <2>2. QED
    BY <2>1 DEF Reach
<1>7. \A v \in User : id \notin RowsOf(v)
  BY <1>2 DEF RowsOf
<1>8. Reach' = [Reach EXCEPT ![u] = Reach[u] \cup {<<b, g>>}]
  <2>1. \A v \in User : RowsOf(v) \subseteq RowId
    BY DEF RowsOf
  <2>2. Reach'[u] = Reach[u] \cup {<<b, g>>}
    BY <1>4, <1>5, <1>7, <2>1 DEF Reach
  <2>3. \A v \in User : v # u => Reach'[v] = Reach[v]
    BY <1>4, <1>5, <1>7, <2>1 DEF Reach
  <2>4. QED
    BY <2>2, <2>3 DEF Reach
<1>9. Fallback' = Fallback
  <2>1. ASSUME NEW v \in User
        PROVE  Fallback'[v] = Fallback[v]
    <3>1. HasUser(v) /\ users[v].default # None =>
             users[v].default \in RowId /\ users[v].default # id
      BY <1>7 DEF StoreInv, DefaultIsOwn, RowsOf
    <3>2. QED
      BY <1>1, <1>5, <3>1 DEF Fallback, HasUser
  <2>2. QED
    BY <2>1 DEF Fallback
<1>10. QED
  BY <1>6, <1>8, <1>9 DEF Acc!Register

LEMMA DeleteGroupAccess ==
  ASSUME StoreInv, NEW u \in User, NEW id \in RowId, DeleteGroup(u, id)
  PROVE  Acc!Leave(u, GroupOf(id))
<1>1. /\ id \in RowsOf(u) /\ rows[id] # None /\ rows[id].user = u
      /\ rows' = [rows EXCEPT ![id] = None]
      /\ users' = DefaultsWithout(id)
  BY DEF DeleteGroup, RowsOf
<1>2. /\ rows'[id] = None
      /\ \A j \in RowId : j # id => rows'[j] = rows[j] /\ GroupOf(j)' = GroupOf(j)
  BY <1>1 DEF StoreInv, StoreTypeOK, GroupOf
<1>3. /\ RowsOf(u)' = RowsOf(u) \ {id}
      /\ \A v \in User : v # u => id \notin RowsOf(v) /\ RowsOf(v)' = RowsOf(v)
  BY <1>1, <1>2 DEF RowsOf
<1>4. GroupOf(id) \in Reach[u]
  BY <1>1 DEF Reach
\* Uniqueness of (user, instance, group): no other row of u links this group.
<1>5. \A j \in RowsOf(u) \ {id} : GroupOf(j) # GroupOf(id)
  BY <1>1 DEF StoreInv, RowsUnique, SameKey, GroupOf
<1>6. Reach' = [Reach EXCEPT ![u] = Reach[u] \ {GroupOf(id)}]
  <2>1. \A v \in User : RowsOf(v) \subseteq RowId
    BY DEF RowsOf
  <2>2. Reach'[u] = Reach[u] \ {GroupOf(id)}
    BY <1>2, <1>3, <1>5, <2>1 DEF Reach
  <2>3. \A v \in User : v # u => Reach'[v] = Reach[v]
    BY <1>2, <1>3, <2>1 DEF Reach
  <2>4. QED
    BY <2>2, <2>3 DEF Reach
<1>7. ASSUME NEW v \in User
      PROVE  /\ HasUser(v)' <=> HasUser(v)
             /\ HasUser(v) => users'[v].default =
                                IF users[v].default = id THEN None ELSE users[v].default
  <2>1. users[v] \in UserRow \cup {None}
    BY DEF StoreInv, StoreTypeOK
  <2>2. QED
    BY <1>1, <2>1, NoneAssumption DEF DefaultsWithout, HasUser, UserRow
<1>8. Fallback' = [Fallback EXCEPT ![u] = IF @ = GroupOf(id) THEN None ELSE @]
  <2>1. Fallback'[u] = IF Fallback[u] = GroupOf(id) THEN None ELSE Fallback[u]
    <3>1. CASE Fallback[u] = None /\ (~HasUser(u) \/ users[u].default = None)
      BY <1>7, <3>1 DEF Fallback
    <3>2. CASE /\ HasUser(u) /\ users[u].default \in RowsOf(u)
               /\ Fallback[u] = GroupOf(users[u].default)
               /\ Fallback[u] \in Reach[u] /\ Fallback[u] # None
      <4>1. CASE users[u].default = id
        BY <1>7, <3>2, <4>1 DEF Fallback
      <4>2. CASE users[u].default # id
        <5>1. users[u].default \in RowId /\ users[u].default # None
          BY <3>2 DEF RowsOf, Fallback
        <5>2. Fallback[u] # GroupOf(id)
          BY <1>5, <3>2, <4>2
        <5>3. Fallback'[u] = GroupOf(users[u].default)
          BY <1>2, <1>7, <3>2, <4>2, <5>1 DEF Fallback
        <5>4. QED
          BY <3>2, <5>2, <5>3
      <4>3. QED
        BY <4>1, <4>2
    <3>3. QED
      BY <3>1, <3>2, FallbackOf
  <2>2. ASSUME NEW v \in User, v # u
        PROVE  Fallback'[v] = Fallback[v]
    <3>1. HasUser(v) /\ users[v].default # None =>
             users[v].default \in RowId /\ users[v].default # id
      BY <1>3, <2>2 DEF StoreInv, DefaultIsOwn, RowsOf
    <3>2. QED
      BY <1>2, <1>7, <3>1 DEF Fallback
  <2>3. QED
    BY <2>1, <2>2 DEF Fallback
<1>9. QED
  BY <1>4, <1>6, <1>8 DEF Acc!Leave

LEMMA NextAccess == StoreInv /\ [StoreNext]_storeVars => [Acc!Next]_(Acc!vars)
<1> SUFFICES ASSUME StoreInv, [StoreNext]_storeVars
             PROVE  Acc!Next \/ UNCHANGED <<Reach, Fallback>>
  BY DEF Acc!vars
<1>1. ASSUME NEW u \in User, NEW n \in Name,
             InsertUser(u, n) \/ SetDisplayName(u, n)
      PROVE  UNCHANGED <<Reach, Fallback>>
  BY <1>1, InsertUserAccess, SetDisplayNameAccess
<1>2. ASSUME NEW u \in User, ClearDefaultGroup(u)
      PROVE  Acc!Next
  BY <1>2, ClearDefaultAccess DEF Acc!Next
<1>3. ASSUME NEW u \in User, NEW id \in RowId,
             SetDefaultGroup(u, id) \/ DeleteGroup(u, id)
      PROVE  Acc!Next
  <2>1. GroupOf(id) \in Instance \X Gid
    BY <1>3 DEF SetDefaultGroup, CanSetDefault, DeleteGroup, RowsOf, GroupOf,
                StoreInv, StoreTypeOK, GroupRow
  <2>2. Acc!Choose(u, GroupOf(id)) \/ Acc!Leave(u, GroupOf(id))
    BY <1>3, SetDefaultAccess, DeleteGroupAccess
  <2>3. QED
    BY <2>1, <2>2 DEF Acc!Next
<1>4. ASSUME NEW u \in User, NEW id \in RowId, NEW a \in Alias, NEW p \in Pin,
             UpdateGroup(u, id, a, p)
      PROVE  UNCHANGED <<Reach, Fallback>>
  BY <1>4, UpdateGroupAccess
<1>5. ASSUME NEW u \in User, NEW b \in Instance, NEW g \in Gid, NEW a \in Alias,
             NEW p \in Pin, NEW id \in RowId, InsertGroup(u, b, g, a, p, id)
      PROVE  Acc!Next
  <2>1. Acc!Register(u, <<b, g>>)
    BY <1>5, InsertGroupAccess
  <2>2. QED
    BY <2>1 DEF Acc!Next
<1>6. CASE UNCHANGED storeVars
  <2>1. /\ \A u \in User : RowsOf(u)' = RowsOf(u)
        /\ \A id \in RowId : GroupOf(id)' = GroupOf(id)
        /\ \A u \in User : Fallback'[u] = Fallback[u]
    BY <1>6 DEF storeVars, RowsOf, GroupOf, Fallback, HasUser
  <2>2. QED
    BY <2>1, AccessStutter
<1>7. QED
  BY <1>1, <1>2, <1>3, <1>4, <1>5, <1>6 DEF StoreNext

\* The tables and statements implement the access contract: users reach only
\* what they registered, one membership per group, leaving ends it, and the
\* default is one of them.
THEOREM StoreImplementsAccess == StoreSpec => AccessSpec
<1>1. StoreInit => Acc!Init
  BY AccessInit
<1>2. StoreInv /\ [StoreNext]_storeVars => [Acc!Next]_(Acc!vars)
  BY NextAccess
<1>3. QED
  BY <1>1, <1>2, StoreInvariance, PTL DEF StoreSpec, AccessSpec, Acc!Spec

\* In the contract's own terms: the group a tool call falls back to is always
\* one its user has made available.
THEOREM FallbackAlwaysOwn == StoreSpec => []Acc!FallbackIsOwn
<1>1. StoreInv => Acc!FallbackIsOwn
  BY DEF StoreInv, DefaultIsOwn, Acc!FallbackIsOwn, Reach, Fallback
<1>2. QED
  BY <1>1, StoreInvariance, PTL
=============================================================================
