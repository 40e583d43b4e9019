-------------------------- MODULE GroupToolsProofs --------------------------
(***************************************************************************)
(* Theorems about module GroupTools, for any number of users, concurrent   *)
(* calls, groups and participants, and any of the failures: the handlers   *)
(* implement the store's specification, a call only ever holds rows of its *)
(* own user, pins belong to their group, and, when nothing fails, no group *)
(* made through the service is lost.                                       *)
(*                                                                         *)
(* The inductive invariant ToolsInv says of every call in progress what    *)
(* its earlier steps have established: CallShape (the fields its next step *)
(* uses are set), Held (its row is its user's) and PinOK (its participant  *)
(* is one of its group).  Every action is shown to be a StepOK, and StepOK *)
(* preserves ToolsInv.                                                     *)
(***************************************************************************)
EXTENDS GroupTools, StoreProofs

CallShape(k) ==
    /\ k.at # "idle" => k.user \in User
    /\ k.at \in {"JoinInsert", "CreateRead", "Register", "WebRegister",
                 "PinFetch", "RowWrite", "EditDetails", "EditPush"}
          => k.group \in Group /\ k.alias \in Alias
    /\ k.at \in {"JoinInsert", "Register", "WebRegister",
                 "PinFetch", "RowWrite", "EditDetails", "EditPush"} => k.pin \in Pin
    /\ k.at \in {"PinFetch", "RowWrite", "EditDetails", "EditPush",
                 "LeaveDelete", "SetDefault"} => k.id \in RowId
    /\ k.at \in {"RowWrite", "EditDetails", "EditPush", "PinFetch"} => k.id # None
    /\ k.at = "Register" => k.tries \in 1..Len(Candidates[k.alias])

\* The group exists, and p, if it is anybody, is or was one of it.
Born(g, p) == Exists(g) /\ (p = None \/ spliit[g][p] # "unborn")

PinOK(k) == k.at \in {"JoinInsert", "CreateRead", "Register", "WebRegister", "PinFetch",
                      "RowWrite", "EditDetails", "EditPush"} => Born(k.group, k.pin)

PinBorn(id) == Born(GroupOf(id), rows[id].pin)
RowsBorn == \A id \in RowId : rows[id] # None => PinBorn(id)

ToolsInv ==
    /\ StoreInv /\ ToolsTypeOK
    /\ \A c \in Call : CallShape(calls[c]) /\ PinOK(calls[c])
    /\ HeldRowsAreOwn /\ RowsBorn

\* A call goes on, or ends, knowing what ToolsInv says of it.
Passes(c, k) == /\ Goto(c, k)
                /\ k \in CallState /\ CallShape(k)
                /\ Held(k)' /\ PinOK(k)'

CallsOK == UNCHANGED calls \/ \E c \in Call : \E k : Passes(c, k)

SpliitOK == /\ spliit' \in [Group -> [Pid -> Status]]
            /\ \A g \in Group, p \in Pid :
                  spliit[g][p] # "unborn" => spliit'[g][p] # "unborn"

\* Rows written by the step pin a participant of their group.
PinsOK == \A id \in RowId :
    rows'[id] # None => \/ rows'[id] = rows[id]
                        \/ PinBorn(id)'

StepOK == /\ [StoreNext]_storeVars
          /\ CallsOK /\ SpliitOK /\ PinsOK
          /\ told' \in SUBSET Group

-----------------------------------------------------------------------------
(* What a step of the store leaves of a row that a call holds. *)

LEMMA IssuedGrows == [StoreNext]_storeVars => issued \subseteq issued'
  BY DEF StoreNext, storeVars, InsertUser, SetDisplayName, ClearDefaultGroup,
         SetDefaultGroup, DeleteGroup, UpdateGroup, InsertGroup

LEMMA HeldStays ==
  ASSUME StoreInv, [StoreNext]_storeVars, NEW k, Held(k)
  PROVE  Held(k)'
<1>1. issued \subseteq issued'
  BY IssuedGrows
<1>2. [RowStep]_storeVars
  BY NextRowStep
<1>3. CASE UNCHANGED storeVars
  BY <1>3 DEF storeVars, Held, GroupOf
<1>4. CASE RowStep
  BY <1>1, <1>4 DEF RowStep, Held, GroupOf
<1>5. QED
  BY <1>2, <1>3, <1>4

LEMMA BornStays ==
  ASSUME SpliitOK, NEW g \in Group, NEW p \in Pin, Born(g, p)
  PROVE  Born(g, p)'
  BY DEF SpliitOK, Born, Exists, Pin

LEMMA LiveBorn ==
  ASSUME NEW g, NEW p \in Live(g)
  PROVE  p \in Pid /\ p \in Pin /\ Born(g, p) /\ Born(g, None)
  BY DEF Live, Pin, Born, Exists

LEMMA BlankOK == Blank \in CallState /\ CallShape(Blank) /\ Held(Blank)' /\ PinOK(Blank)'
  BY DEF Blank, CallState, Steps, CallShape, Held, PinOK, Pin

LEMMA RowOfUser ==
  ASSUME StoreInv, NEW u \in User, NEW id \in RowsOf(u)
  PROVE  /\ id \in RowId /\ id \in issued /\ id # None
         /\ rows[id] # None /\ rows[id].user = u /\ rows[id].alias \in Alias
         /\ rows[id].pin \in Pin /\ GroupOf(id) \in Group
  BY NoneAssumption
     DEF StoreInv, StoreTypeOK, OwnersExist, RowsOf, GroupRow, GroupOf, Group

LEMMA ResolvedIsOwn ==
  ASSUME NEW u, NEW ref, NEW id \in ResolveGroup(u, ref)
  PROVE  id \in RowsOf(u)
  BY DEF ResolveGroup

\* Frames: what an action leaves alone is fine.
LEMMA StoreStutter ==
  ASSUME UNCHANGED storeVars
  PROVE  [StoreNext]_storeVars /\ PinsOK
  BY DEF storeVars, PinsOK

LEMMA SpliitStutter ==
  ASSUME ToolsInv, UNCHANGED spliit
  PROVE  SpliitOK
  BY DEF ToolsInv, ToolsTypeOK, SpliitOK

LEMMA Finishes ==
  ASSUME NEW c \in Call, Finish(c)
  PROVE  CallsOK
  BY BlankOK DEF Finish, CallsOK, Passes

LEMMA ToldStays ==
  ASSUME ToolsInv, UNCHANGED told
  PROVE  told' \in SUBSET Group
  BY DEF ToolsInv, ToolsTypeOK

-----------------------------------------------------------------------------
(* Every action is a StepOK: steps that only read the tables *)

\* A call that resolves one of its user's rows.
LEMMA StartsHolding ==
  ASSUME ToolsInv, NEW c \in Call, NEW u \in User, NEW id \in RowsOf(u),
         NEW k, k \in CallState,
         k.user = u, k.id = id, k.group \in {None, GroupOf(id)},
         k.at \in {"PinFetch", "RowWrite", "EditDetails", "LeaveDelete", "SetDefault"},
         k.at \in {"PinFetch", "RowWrite", "EditDetails"} =>
            k.group = GroupOf(id) /\ k.alias \in Alias /\ k.pin = rows[id].pin,
         Goto(c, k), UNCHANGED <<storeVars, spliit, told>>
  PROVE  StepOK
<1>1. /\ id \in RowId /\ id \in issued /\ id # None
      /\ rows[id] # None /\ rows[id].user = u /\ rows[id].pin \in Pin
      /\ GroupOf(id) \in Group
  BY RowOfUser DEF ToolsInv
<1>2. CallShape(k)
  BY <1>1 DEF CallShape
<1>3. Held(k)'
  BY <1>1 DEF Held, storeVars, GroupOf
<1>4. PinOK(k)'
  BY <1>1 DEF PinOK, ToolsInv, RowsBorn, PinBorn, Born, Exists
<1>5. CallsOK
  BY <1>2, <1>3, <1>4 DEF CallsOK, Passes
<1>6. QED
  BY <1>5, StoreStutter, SpliitStutter, ToldStays DEF StepOK

LEMMA HoldingOK ==
  ASSUME ToolsInv, NEW u \in User, NEW id \in RowsOf(u), NEW s \in Steps
  PROVE  /\ Holding(u, id, s) \in CallState
         /\ Holding(u, id, s).at = s /\ Holding(u, id, s).user = u
         /\ Holding(u, id, s).id = id /\ Holding(u, id, s).group = GroupOf(id)
         /\ Holding(u, id, s).alias \in Alias
         /\ Holding(u, id, s).pin = rows[id].pin
<1>1. /\ id \in RowId /\ rows[id].alias \in Alias /\ rows[id].pin \in Pin
      /\ GroupOf(id) \in Group
  BY RowOfUser DEF ToolsInv
<1>2. QED
  BY <1>1 DEF Holding, Blank, CallState

LEMMA LeaveResolveOK ==
  ASSUME ToolsInv, NEW c \in Call, NEW u \in User, NEW ref, LeaveResolve(c, u, ref)
  PROVE  StepOK
<1>1. PICK id \in ResolveGroup(u, ref) :
         Goto(c, [Blank EXCEPT !.at = "LeaveDelete", !.user = u, !.id = id])
  BY DEF LeaveResolve
<1> DEFINE k == [Blank EXCEPT !.at = "LeaveDelete", !.user = u, !.id = id]
<1>2. id \in RowsOf(u) /\ id \in RowId
  BY ResolvedIsOwn, RowOfUser DEF ToolsInv
<1>3. k \in CallState /\ k.user = u /\ k.id = id /\ k.group = None
         /\ k.at = "LeaveDelete"
  BY <1>2 DEF Blank, CallState, Steps, Pin
<1>4. UNCHANGED <<storeVars, spliit, told>>
  BY DEF LeaveResolve
<1> HIDE DEF k
<1>5. QED
  BY <1>1, <1>2, <1>3, <1>4, StartsHolding DEF k

LEMMA DefaultResolveOK ==
  ASSUME ToolsInv, NEW c \in Call, NEW u \in User, NEW ref, DefaultResolve(c, u, ref)
  PROVE  StepOK
<1>1. PICK id \in ResolveGroup(u, ref) :
         Goto(c, [Blank EXCEPT !.at = "SetDefault", !.user = u, !.id = id])
  BY DEF DefaultResolve
<1> DEFINE k == [Blank EXCEPT !.at = "SetDefault", !.user = u, !.id = id]
<1>2. id \in RowsOf(u) /\ id \in RowId
  BY ResolvedIsOwn, RowOfUser DEF ToolsInv
<1>3. k \in CallState /\ k.user = u /\ k.id = id /\ k.group = None
         /\ k.at = "SetDefault"
  BY <1>2 DEF Blank, CallState, Steps, Pin
<1>4. UNCHANGED <<storeVars, spliit, told>>
  BY DEF DefaultResolve
<1> HIDE DEF k
<1>5. QED
  BY <1>1, <1>2, <1>3, <1>4, StartsHolding DEF k

LEMMA RepinResolveOK ==
  ASSUME ToolsInv, NEW c \in Call, NEW u \in User, NEW ref, RepinResolve(c, u, ref)
  PROVE  StepOK
<1>1. PICK id \in ResolveGroup(u, ref) :
         Goto(c, [Holding(u, id, "PinFetch") EXCEPT !.asked = {"pin"}])
  BY DEF RepinResolve
<1> DEFINE h == Holding(u, id, "PinFetch")
           k == [h EXCEPT !.asked = {"pin"}]
<1>2. id \in RowsOf(u)
  BY ResolvedIsOwn
<1>3. /\ h \in CallState /\ h.at = "PinFetch" /\ h.user = u /\ h.id = id
      /\ h.group = GroupOf(id) /\ h.alias \in Alias /\ h.pin = rows[id].pin
  BY <1>2, HoldingOK DEF Steps
<1> HIDE DEF h
<1>4. /\ k \in CallState /\ k.at = "PinFetch" /\ k.user = u /\ k.id = id
      /\ k.group = GroupOf(id) /\ k.alias \in Alias /\ k.pin = rows[id].pin
  BY <1>3 DEF CallState
<1>5. UNCHANGED <<storeVars, spliit, told>> /\ Goto(c, k)
  BY <1>1 DEF RepinResolve, h
<1> HIDE DEF k
<1>6. QED
  BY <1>2, <1>4, <1>5, StartsHolding

LEMMA EditResolveOK ==
  ASSUME ToolsInv, NEW c \in Call, NEW u \in User, NEW ref, EditResolve(c, u, ref)
  PROVE  StepOK
<1>1. PICK id \in ResolveGroup(u, ref) : Goto(c, Holding(u, id, "EditDetails"))
  BY DEF EditResolve
<1> DEFINE k == Holding(u, id, "EditDetails")
<1>2. id \in RowsOf(u)
  BY ResolvedIsOwn
<1>3. /\ k \in CallState /\ k.at = "EditDetails" /\ k.user = u /\ k.id = id
      /\ k.group = GroupOf(id) /\ k.alias \in Alias /\ k.pin = rows[id].pin
  BY <1>2, HoldingOK DEF Steps
<1>4. UNCHANGED <<storeVars, spliit, told>> /\ Goto(c, k)
  BY <1>1 DEF EditResolve
<1> HIDE DEF k
<1>5. QED
  BY <1>2, <1>3, <1>4, StartsHolding

LEMMA WebUpdateLoadOK ==
  ASSUME ToolsInv, NEW c \in Call, NEW u \in User, NEW id, WebUpdateLoad(c, u, id)
  PROVE  StepOK
<1> DEFINE h(s) == Holding(u, id, s)
           pin == [h("PinFetch") EXCEPT !.asked = {"pin"}]
           both(a) == [h("PinFetch") EXCEPT !.alias = a, !.asked = {"alias", "pin"}]
           alias(a) == [h("RowWrite") EXCEPT !.alias = a, !.asked = {"alias"}]
           OfRow(k) == /\ k \in CallState /\ k.user = u /\ k.id = id
                       /\ k.group = GroupOf(id) /\ k.alias \in Alias
                       /\ k.pin = rows[id].pin /\ k.at \in {"PinFetch", "RowWrite"}
<1>1. id \in RowsOf(u) /\ UNCHANGED <<storeVars, spliit, told>>
  BY DEF WebUpdateLoad
<1>2. \A s \in {"PinFetch", "RowWrite"} : OfRow(h(s))
  BY <1>1, HoldingOK DEF Steps
<1>3. PICK k : /\ Goto(c, k)
               /\ k = pin \/ \E a \in Alias : k = both(a) \/ k = alias(a)
  BY DEF WebUpdateLoad
<1> HIDE DEF h
<1>4. OfRow(k)
  <2>1. CASE k = pin
    BY <1>2, <2>1 DEF CallState
  <2>2. ASSUME NEW a \in Alias, k = both(a)
        PROVE  OfRow(k)
    BY <1>2, <2>2 DEF CallState
  <2>3. ASSUME NEW a \in Alias, k = alias(a)
        PROVE  OfRow(k)
    BY <1>2, <2>3 DEF CallState
  <2>4. QED
    BY <1>3, <2>1, <2>2, <2>3
<1>5. QED
  BY <1>1, <1>3, <1>4, StartsHolding

-----------------------------------------------------------------------------
(* Every action is a StepOK: steps that write *)

\* A call that keeps the row it holds.
LEMMA GoesOn ==
  ASSUME ToolsInv, [StoreNext]_storeVars, NEW c \in Call,
         NEW k, k \in CallState, CallShape(k), PinOK(k)',
         k.id = calls[c].id, k.user = calls[c].user, k.group = calls[c].group,
         Goto(c, k)
  PROVE  CallsOK
<1>1. Held(calls[c])
  BY DEF ToolsInv, HeldRowsAreOwn
<1>2. Held(k)
  BY <1>1 DEF Held
<1>3. Held(k)'
  BY <1>2, HeldStays DEF ToolsInv
<1>4. QED
  BY <1>3 DEF CallsOK, Passes

\* A call that holds no row.
LEMMA GoesOnFree ==
  ASSUME NEW c \in Call, NEW k, k \in CallState, CallShape(k), PinOK(k)',
         k.id = None, Goto(c, k)
  PROVE  CallsOK
  BY DEF CallsOK, Passes, Held

LEMMA InsertOK ==
  ASSUME ToolsInv, UNCHANGED spliit,
         NEW u \in User, NEW g \in Group, NEW a \in Alias, NEW p \in Pin,
         NEW id \in RowId, Born(g, p), InsertGroup(u, g[1], g[2], a, p, id)
  PROVE  [StoreNext]_storeVars /\ PinsOK
<1>1. g[1] \in Instance /\ g[2] \in Gid /\ g = <<g[1], g[2]>>
  BY DEF Group
<1>2. StoreNext
  BY <1>1 DEF StoreNext
<1>3. rows'[id] = [user |-> u, base |-> g[1], gid |-> g[2], alias |-> a, pin |-> p]
  BY DEF InsertGroup, ToolsInv, StoreInv, StoreTypeOK
<1>4. PinBorn(id)'
  BY <1>1, <1>3 DEF PinBorn, GroupOf, Born, Exists
<1>5. \A i \in RowId : i # id => rows'[i] = rows[i]
  BY DEF InsertGroup, ToolsInv, StoreInv, StoreTypeOK
<1>6. QED
  BY <1>2, <1>4, <1>5 DEF PinsOK

LEMMA SignUpOK ==
  ASSUME ToolsInv, NEW u \in User, NEW n \in Name, SignUp(u, n)
  PROVE  StepOK
<1>1. [StoreNext]_storeVars /\ PinsOK
  BY DEF SignUp, StoreNext, InsertUser, PinsOK
<1>2. UNCHANGED toolVars
  BY DEF SignUp
<1>3. QED
  BY <1>1, <1>2, SpliitStutter, ToldStays DEF StepOK, toolVars, CallsOK

LEMMA JoinFetchOK ==
  ASSUME ToolsInv, NEW c \in Call, NEW u \in User, NEW g \in Group, NEW p \in Pid,
         NEW a \in Alias, JoinFetch(c, u, g, p, a)
  PROVE  StepOK
<1> DEFINE k == [Blank EXCEPT !.at = "JoinInsert", !.user = u, !.group = g,
                              !.alias = a, !.pin = p]
<1>1. Goto(c, k) /\ UNCHANGED <<storeVars, spliit, told>> /\ Born(g, p)
  BY LiveBorn DEF JoinFetch
<1>2. k \in CallState /\ CallShape(k) /\ k.id = None
  BY DEF Blank, CallState, Steps, CallShape, Pin
<1>3. PinOK(k)'
  BY <1>1 DEF PinOK, Blank, Born, Exists
<1> HIDE DEF k
<1>4. CallsOK
  BY <1>1, <1>2, <1>3, GoesOnFree
<1>5. QED
  BY <1>1, <1>4, StoreStutter, SpliitStutter, ToldStays DEF StepOK

LEMMA JoinInsertOK ==
  ASSUME ToolsInv, NEW c \in Call, JoinInsert(c)
  PROVE  StepOK
<1> DEFINE k == calls[c]
<1>1. /\ k.user \in User /\ k.group \in Group /\ k.alias \in Alias /\ k.pin \in Pin
      /\ Born(k.group, k.pin)
  BY DEF JoinInsert, At, ToolsInv, CallShape, PinOK
<1>2. UNCHANGED <<spliit, told>> /\ Finish(c)
  BY DEF JoinInsert
<1>3. [StoreNext]_storeVars /\ PinsOK
  BY <1>1, <1>2, InsertOK, StoreStutter DEF JoinInsert
<1>4. QED
  BY <1>2, <1>3, Finishes, SpliitStutter, ToldStays DEF StepOK

LEMMA ReplacedOK ==
  ASSUME ToolsInv, NEW g \in Group, NEW keep, NEW new,
         spliit' = Replaced(g, keep, new)
  PROVE  SpliitOK
  BY DEF ToolsInv, ToolsTypeOK, Replaced, SpliitOK, Live, Status

LEMMA CreateOK ==
  ASSUME ToolsInv, NEW c \in Call, NEW u \in User, NEW g \in Group, NEW p \in Pid,
         NEW a \in Alias, Create(c, u, g, p, a)
  PROVE  StepOK
<1> DEFINE k == [Blank EXCEPT !.at = "CreateRead", !.user = u, !.group = g, !.alias = a]
<1>1. UNCHANGED <<storeVars, told>> /\ (Goto(c, k) \/ Finish(c)) /\ SpliitOK
  BY ReplacedOK DEF Create
<1>2. Exists(g)'
  BY DEF Create, Replaced, Exists, ToolsInv, ToolsTypeOK
<1>3. k \in CallState /\ CallShape(k) /\ k.id = None /\ PinOK(k)'
  BY <1>2 DEF Blank, CallState, Steps, CallShape, PinOK, Pin, Born, Exists
<1> HIDE DEF k
<1>4. CallsOK
  BY <1>1, <1>3, GoesOnFree, Finishes
<1>5. QED
  BY <1>1, <1>4, StoreStutter, ToldStays DEF StepOK

LEMMA CreateReadOK ==
  ASSUME ToolsInv, NEW c \in Call, CreateRead(c)
  PROVE  StepOK
<1>1. UNCHANGED <<storeVars, spliit, told>> /\ [StoreNext]_storeVars
  BY StoreStutter DEF CreateRead
<1>2. ASSUME NEW p \in Live(calls[c].group) \cup {None},
             NEW s \in {"Register", "WebRegister"},
             Goto(c, [calls[c] EXCEPT !.at = s, !.pin = p, !.tries = 1])
      PROVE  CallsOK
  <2>0. PICK k : k = [calls[c] EXCEPT !.at = s, !.pin = p, !.tries = 1]
    OBVIOUS
  <2>1. /\ calls[c] \in CallState /\ calls[c].user \in User /\ calls[c].group \in Group
        /\ calls[c].alias \in Alias /\ PinOK(calls[c]) /\ calls[c].at = "CreateRead"
    BY DEF CreateRead, At, ToolsInv, ToolsTypeOK, CallShape
  <2>2. p \in Pin /\ Born(calls[c].group, p)
    BY <2>1 DEF Live, Born, PinOK, Pin
  <2>3. /\ k \in CallState /\ k.at = s /\ k.tries = 1 /\ k.pin = p
        /\ k.user = calls[c].user /\ k.group = calls[c].group
        /\ k.alias = calls[c].alias /\ k.id = calls[c].id
    BY <2>0, <2>1, <2>2 DEF CallState, Steps
  <2>4. 1 \in 1..Len(Candidates[calls[c].alias])
    BY <2>1, CandidatesAssumption
  <2>5. CallShape(k)
    BY <2>1, <2>2, <2>3, <2>4 DEF CallShape
  <2>6. PinOK(k)'
    BY <1>1, <2>2, <2>3 DEF PinOK, Born, Exists
  <2>7. QED
    BY <1>1, <1>2, <2>0, <2>3, <2>5, <2>6, GoesOn
<1>3. CallsOK
  BY <1>2, Finishes DEF CreateRead
<1>4. QED
  BY <1>1, <1>3, StoreStutter, SpliitStutter, ToldStays DEF StepOK

LEMMA TellOK ==
  ASSUME ToolsInv, NEW c \in Call, calls[c].group \in Group, Tell(c)
  PROVE  told' \in SUBSET Group
  BY DEF ToolsInv, ToolsTypeOK, Tell

LEMMA RegisterOK ==
  ASSUME ToolsInv, NEW c \in Call, Register(c)
  PROVE  StepOK
<1>0. PICK k : k = calls[c]
  OBVIOUS
<1> DEFINE a == Candidates[k.alias][k.tries]
<1>1. /\ k \in CallState /\ k.at = "Register" /\ k.user \in User /\ k.group \in Group
      /\ k.alias \in Alias /\ k.pin \in Pin /\ k.tries \in 1..Len(Candidates[k.alias])
      /\ Born(k.group, k.pin) /\ CallShape(k)
  BY <1>0 DEF Register, At, ToolsInv, ToolsTypeOK, CallShape, PinOK
<1>2. a \in Alias
  BY <1>1, CandidatesAssumption
<1>3. UNCHANGED spliit /\ SpliitOK
  BY SpliitStutter DEF Register
<1>4. CASE /\ \E id \in RowId : InsertGroup(k.user, k.group[1], k.group[2], a, k.pin, id)
           /\ Finish(c) /\ Tell(c)
  BY <1>0, <1>1, <1>2, <1>3, <1>4, InsertOK, Finishes, TellOK DEF StepOK
<1>5. CASE /\ k.tries < Len(Candidates[k.alias])
           /\ Goto(c, [k EXCEPT !.tries = @ + 1])
           /\ UNCHANGED <<storeVars, told>>
  <2> DEFINE n == [k EXCEPT !.tries = @ + 1]
  <2>1. Len(Candidates[k.alias]) \in Nat /\ k.tries \in Nat
    BY <1>1, CandidatesAssumption
  <2>2. k.tries + 1 \in 1..Len(Candidates[k.alias]) /\ k.tries + 1 \in Nat
    BY <1>1, <1>5, <2>1
  <2>3. /\ n \in CallState /\ n.at = k.at /\ n.user = k.user /\ n.group = k.group
        /\ n.alias = k.alias /\ n.pin = k.pin /\ n.id = k.id /\ n.tries = k.tries + 1
    BY <1>1, <2>2 DEF CallState
  <2> HIDE DEF n
  <2>4. CallShape(n)
    BY <1>1, <2>2, <2>3 DEF CallShape
  <2>5. PinOK(n)'
    BY <1>1, <1>3, <2>3 DEF PinOK, Born, Exists
  <2>6. [StoreNext]_storeVars /\ PinsOK
    BY <1>5, StoreStutter
  <2>7. CallsOK
    BY <1>0, <1>5, <2>3, <2>4, <2>5, <2>6, GoesOn DEF n
  <2>8. QED
    BY <1>3, <1>5, <2>6, <2>7, ToldStays DEF StepOK
<1>6. CASE Finish(c) /\ Tell(c) /\ UNCHANGED storeVars
  BY <1>0, <1>1, <1>3, <1>6, StoreStutter, Finishes, TellOK DEF StepOK
<1>7. CASE Finish(c) /\ UNCHANGED <<storeVars, told>>
  BY <1>3, <1>7, StoreStutter, Finishes, ToldStays DEF StepOK
<1>8. QED
  BY <1>0, <1>4, <1>5, <1>6, <1>7 DEF Register

LEMMA WebRegisterOK ==
  ASSUME ToolsInv, NEW c \in Call, WebRegister(c)
  PROVE  StepOK
<1> DEFINE k == calls[c]
<1>1. /\ k.user \in User /\ k.group \in Group /\ k.alias \in Alias /\ k.pin \in Pin
      /\ Born(k.group, k.pin)
  BY DEF WebRegister, At, ToolsInv, CallShape, PinOK
<1>2. UNCHANGED spliit /\ SpliitOK /\ CallsOK
  BY SpliitStutter, Finishes DEF WebRegister
<1>3. [StoreNext]_storeVars /\ PinsOK
  BY <1>1, <1>2, InsertOK, StoreStutter DEF WebRegister
<1>4. told' \in SUBSET Group
  BY <1>1, TellOK, ToldStays DEF WebRegister
<1>5. QED
  BY <1>2, <1>3, <1>4 DEF StepOK

LEMMA DeleteOK ==
  ASSUME ToolsInv, NEW u \in User, NEW id, DeleteGroup(u, id)
  PROVE  [StoreNext]_storeVars /\ PinsOK
<1>1. id \in RowId /\ StoreNext
  BY DEF DeleteGroup, RowsOf, StoreNext
<1>2. \A i \in RowId : rows'[i] = None \/ rows'[i] = rows[i]
  BY <1>1 DEF DeleteGroup, ToolsInv, StoreInv, StoreTypeOK
<1>3. QED
  BY <1>1, <1>2 DEF PinsOK

LEMMA LeaveDeleteOK ==
  ASSUME ToolsInv, NEW c \in Call, LeaveDelete(c)
  PROVE  StepOK
<1>1. calls[c].user \in User
  BY DEF LeaveDelete, At, ToolsInv, CallShape
<1>2. [StoreNext]_storeVars /\ PinsOK
  BY <1>1, DeleteOK, StoreStutter DEF LeaveDelete
<1>3. QED
  BY <1>2, Finishes, SpliitStutter, ToldStays DEF StepOK, LeaveDelete

LEMMA WebDeleteOK ==
  ASSUME ToolsInv, NEW u \in User, NEW id, WebDelete(u, id)
  PROVE  StepOK
<1>1. [StoreNext]_storeVars /\ PinsOK
  BY DeleteOK DEF WebDelete
<1>2. QED
  BY <1>1, SpliitStutter, ToldStays DEF StepOK, WebDelete, toolVars, CallsOK

LEMMA PinFetchOK ==
  ASSUME ToolsInv, NEW c \in Call, PinFetch(c)
  PROVE  StepOK
<1>1. UNCHANGED <<storeVars, spliit, told>> /\ [StoreNext]_storeVars
  BY StoreStutter DEF PinFetch
<1>2. PICK p \in Live(calls[c].group) :
         Goto(c, [calls[c] EXCEPT !.at = "RowWrite", !.pin = p])
  BY DEF PinFetch
<1>3. PICK k : k = [calls[c] EXCEPT !.at = "RowWrite", !.pin = p]
  OBVIOUS
<1>4. /\ calls[c] \in CallState /\ calls[c].at = "PinFetch" /\ CallShape(calls[c])
  BY DEF PinFetch, At, ToolsInv, ToolsTypeOK
<1>5. p \in Pin /\ Born(calls[c].group, p)
  BY LiveBorn
<1>6. /\ k \in CallState /\ k.at = "RowWrite" /\ k.pin = p
      /\ k.user = calls[c].user /\ k.group = calls[c].group
      /\ k.alias = calls[c].alias /\ k.id = calls[c].id
  BY <1>3, <1>4, <1>5 DEF CallState, Steps
<1>7. CallShape(k)
  BY <1>4, <1>5, <1>6 DEF CallShape
<1>8. PinOK(k)'
  BY <1>1, <1>5, <1>6 DEF PinOK, Born, Exists
<1>9. CallsOK
  BY <1>1, <1>2, <1>3, <1>6, <1>7, <1>8, GoesOn
<1>10. QED
  BY <1>1, <1>9, StoreStutter, SpliitStutter, ToldStays DEF StepOK

LEMMA EndsOK ==
  ASSUME ToolsInv, NEW c \in Call, Finish(c), UNCHANGED <<storeVars, spliit, told>>
  PROVE  StepOK
  BY Finishes, StoreStutter, SpliitStutter, ToldStays DEF StepOK

LEMMA RowWriteOK ==
  ASSUME ToolsInv, NEW c \in Call, RowWrite(c)
  PROVE  StepOK
<1> DEFINE k == calls[c]
<1>1. /\ k.user \in User /\ k.group \in Group /\ k.alias \in Alias /\ k.pin \in Pin
      /\ k.id \in RowId /\ k.id # None /\ Born(k.group, k.pin) /\ Held(k)
  BY DEF RowWrite, At, ToolsInv, CallShape, PinOK, HeldRowsAreOwn
<1>2. UNCHANGED <<spliit, told>> /\ Finish(c)
  BY DEF RowWrite
<1>3. ASSUME UpdateGroup(k.user, k.id, k.alias, k.pin)
      PROVE  [StoreNext]_storeVars /\ PinsOK
  <2>1. StoreNext
    BY <1>1, <1>3 DEF StoreNext
  <2>2. rows[k.id] # None /\ rows[k.id] \in GroupRow
    BY <1>3, <1>1 DEF UpdateGroup, RowsOf, ToolsInv, StoreInv, StoreTypeOK
  <2>3. rows'[k.id] = [rows[k.id] EXCEPT !.alias = k.alias, !.pin = k.pin]
    BY <1>3, <1>1 DEF UpdateGroup, ToolsInv, StoreInv, StoreTypeOK
  <2>4. /\ rows'[k.id].pin = k.pin /\ rows'[k.id].base = rows[k.id].base
        /\ rows'[k.id].gid = rows[k.id].gid
    BY <2>2, <2>3 DEF GroupRow
  <2>5. k.group = GroupOf(k.id)
    BY <1>1, <2>2, NoneAssumption DEF Held, Group
  <2>6. \A id \in RowId : id = k.id => PinBorn(id)'
    BY <1>1, <1>2, <2>4, <2>5 DEF PinBorn, GroupOf, Born, Exists
  <2>7. \A id \in RowId : id # k.id => rows'[id] = rows[id]
    BY <1>3 DEF UpdateGroup, ToolsInv, StoreInv, StoreTypeOK
  <2>8. QED
    BY <2>1, <2>6, <2>7 DEF PinsOK
<1>4. QED
  BY <1>2, <1>3, Finishes, StoreStutter, SpliitStutter, ToldStays DEF StepOK, RowWrite

LEMMA EditDetailsOK ==
  ASSUME ToolsInv, NEW c \in Call, EditDetails(c)
  PROVE  StepOK
<1>1. UNCHANGED <<storeVars, spliit, told>> /\ [StoreNext]_storeVars
  BY StoreStutter DEF EditDetails
<1>2. ASSUME NEW cut, NEW add \in BOOLEAN,
             Goto(c, [calls[c] EXCEPT !.at = "EditPush",
                                      !.keep = Live(calls[c].group) \ cut,
                                      !.add = add])
      PROVE  CallsOK
  <2>1. PICK k : k = [calls[c] EXCEPT !.at = "EditPush",
                                      !.keep = Live(calls[c].group) \ cut,
                                      !.add = add]
    OBVIOUS
  <2>2. /\ calls[c] \in CallState /\ calls[c].at = "EditDetails" /\ CallShape(calls[c])
        /\ PinOK(calls[c])
    BY DEF EditDetails, At, ToolsInv, ToolsTypeOK
  <2>3. Live(calls[c].group) \in SUBSET Pid
    BY DEF Live
  <2>4. /\ k \in CallState /\ k.at = "EditPush" /\ k.pin = calls[c].pin
        /\ k.user = calls[c].user /\ k.group = calls[c].group
        /\ k.alias = calls[c].alias /\ k.id = calls[c].id
    BY <2>1, <2>2, <2>3 DEF CallState, Steps
  <2>5. CallShape(k)
    BY <2>2, <2>4 DEF CallShape
  <2>6. PinOK(k)'
    BY <1>1, <2>2, <2>4 DEF PinOK, Born, Exists
  <2>7. QED
    BY <1>1, <1>2, <2>1, <2>4, <2>5, <2>6, GoesOn
<1>3. CallsOK
  BY <1>2, Finishes DEF EditDetails
<1>4. QED
  BY <1>1, <1>3, StoreStutter, SpliitStutter, ToldStays DEF StepOK

LEMMA EditPushOK ==
  ASSUME ToolsInv, NEW c \in Call, EditPush(c)
  PROVE  StepOK
<1>1. UNCHANGED <<storeVars, told>> /\ [StoreNext]_storeVars
  BY StoreStutter DEF EditPush
<1>2. /\ calls[c] \in CallState /\ calls[c].at = "EditPush" /\ CallShape(calls[c])
      /\ PinOK(calls[c]) /\ calls[c].group \in Group /\ calls[c].pin \in Pin
  BY DEF EditPush, At, ToolsInv, ToolsTypeOK, CallShape
<1>3. SpliitOK
  BY <1>2, ReplacedOK, SpliitStutter DEF EditPush
<1>4. PICK k : k = [calls[c] EXCEPT !.at = "RowWrite", !.keep = {}, !.add = FALSE]
  OBVIOUS
<1>5. Goto(c, k) \/ Finish(c)
  BY <1>4 DEF EditPush
<1>6. /\ k \in CallState /\ k.at = "RowWrite" /\ k.pin = calls[c].pin
      /\ k.user = calls[c].user /\ k.group = calls[c].group
      /\ k.alias = calls[c].alias /\ k.id = calls[c].id
  BY <1>2, <1>4 DEF CallState, Steps
<1>7. CallShape(k)
  BY <1>2, <1>6 DEF CallShape
<1>8. PinOK(k)'
  <2>1. k.group \in Group /\ k.pin \in Pin /\ Born(k.group, k.pin)
    BY <1>2, <1>6 DEF PinOK
  <2>2. Born(k.group, k.pin)'
    BY <1>3, <2>1, BornStays
  <2>3. QED
    BY <2>2 DEF PinOK
<1>9. CallsOK
  BY <1>1, <1>5, <1>6, <1>7, <1>8, GoesOn, Finishes
<1>10. QED
  BY <1>1, <1>3, <1>9, StoreStutter, ToldStays DEF StepOK

LEMMA UsersOnlyOK ==
  ASSUME ToolsInv, NEW u \in User, NEW id,
         SetDefaultGroup(u, id) \/ ClearDefaultGroup(u)
  PROVE  [StoreNext]_storeVars /\ PinsOK
<1>1. rows' = rows
  BY DEF SetDefaultGroup, ClearDefaultGroup
<1>2. StoreNext
  BY DEF SetDefaultGroup, CanSetDefault, RowsOf, ClearDefaultGroup, StoreNext
<1>3. QED
  BY <1>1, <1>2 DEF PinsOK

LEMMA SetDefaultOK ==
  ASSUME ToolsInv, NEW c \in Call, SetDefault(c)
  PROVE  StepOK
<1>1. calls[c].user \in User
  BY DEF SetDefault, At, ToolsInv, CallShape
<1>2. [StoreNext]_storeVars /\ PinsOK
  BY <1>1, UsersOnlyOK, StoreStutter DEF SetDefault
<1>3. QED
  BY <1>2, Finishes, SpliitStutter, ToldStays DEF StepOK, SetDefault

LEMMA SettingsOK ==
  ASSUME ToolsInv, NEW u \in User, NEW id, WebSetDefault(u, id) \/ ClearDefault(u)
  PROVE  StepOK
<1>1. [StoreNext]_storeVars /\ PinsOK
  BY UsersOnlyOK DEF WebSetDefault, ClearDefault
<1>2. UNCHANGED toolVars
  BY DEF WebSetDefault, ClearDefault
<1>3. QED
  BY <1>1, <1>2, SpliitStutter, ToldStays DEF StepOK, toolVars, CallsOK

LEMMA SpliitEditOK ==
  ASSUME ToolsInv, NEW g \in Group, SpliitEdit(g)
  PROVE  StepOK
<1>1. UNCHANGED <<storeVars, calls, told>>
  BY DEF SpliitEdit
<1>2. PICK p \in Pid, s \in Status : /\ spliit' = [spliit EXCEPT ![g][p] = s]
                                     /\ s # "unborn"
  BY DEF SpliitEdit, Status
<1>3. SpliitOK
  BY <1>2 DEF SpliitOK, ToolsInv, ToolsTypeOK
<1>4. QED
  BY <1>1, <1>3, StoreStutter, ToldStays DEF StepOK, CallsOK

LEMMA EveryStepOK == ToolsInv /\ Next => StepOK
<1> SUFFICES ASSUME ToolsInv, Next
             PROVE  StepOK
  OBVIOUS
<1>1. ASSUME NEW u \in User, NEW n \in Name, SignUp(u, n)
      PROVE  StepOK
  BY <1>1, SignUpOK
<1>2. ASSUME NEW c \in Call, NEW u \in User, NEW g \in Group, NEW p \in Pid,
             NEW a \in Alias, JoinFetch(c, u, g, p, a) \/ Create(c, u, g, p, a)
      PROVE  StepOK
  BY <1>2, JoinFetchOK, CreateOK
<1>3. ASSUME NEW c \in Call, NEW u \in User, NEW ref \in References,
             \/ LeaveResolve(c, u, ref) \/ RepinResolve(c, u, ref)
             \/ EditResolve(c, u, ref) \/ DefaultResolve(c, u, ref)
      PROVE  StepOK
  BY <1>3, LeaveResolveOK, RepinResolveOK, EditResolveOK, DefaultResolveOK
<1>4. ASSUME NEW c \in Call, NEW u \in User, NEW id \in RowId, WebUpdateLoad(c, u, id)
      PROVE  StepOK
  BY <1>4, WebUpdateLoadOK
<1>5. ASSUME NEW c \in Call,
             \/ JoinInsert(c) \/ CreateRead(c) \/ Register(c) \/ WebRegister(c)
             \/ LeaveDelete(c)
      PROVE  StepOK
  BY <1>5, JoinInsertOK, CreateReadOK, RegisterOK, WebRegisterOK, LeaveDeleteOK
<1>6. ASSUME NEW c \in Call,
             \/ PinFetch(c) \/ RowWrite(c) \/ EditDetails(c) \/ EditPush(c)
             \/ SetDefault(c)
      PROVE  StepOK
  BY <1>6, PinFetchOK, RowWriteOK, EditDetailsOK, EditPushOK, SetDefaultOK
<1>7. ASSUME NEW c \in Call, PinFetchFails(c) \/ Crash(c)
      PROVE  StepOK
  BY <1>7, EndsOK DEF PinFetchFails, Crash
<1>8. ASSUME NEW u \in User,
             \/ ClearDefault(u)
             \/ \E id \in RowId : WebDelete(u, id) \/ WebSetDefault(u, id)
      PROVE  StepOK
  BY <1>8, SettingsOK, WebDeleteOK
<1>9. ASSUME NEW g \in Group, SpliitEdit(g)
      PROVE  StepOK
  BY <1>9, SpliitEditOK
<1>10. QED
  BY <1>1, <1>2, <1>3, <1>4, <1>5, <1>6, <1>7, <1>8, <1>9 DEF Next

-----------------------------------------------------------------------------
(* The invariant *)

LEMMA ToolsInitInv == Init => ToolsInv
<1> SUFFICES ASSUME Init
             PROVE  ToolsInv
  OBVIOUS
<1>1. StoreInv
  BY InitInv DEF Init
<1>2. ToolsTypeOK
  BY BlankOK, FoundedAssumption DEF Init, ToolsTypeOK, Status
<1>3. \A c \in Call : CallShape(calls[c]) /\ PinOK(calls[c]) /\ Held(calls[c])
  BY BlankOK DEF Init, Blank, PinOK, Held
<1>4. RowsBorn
  BY DEF Init, StoreInit, RowsBorn
<1>5. QED
  BY <1>1, <1>2, <1>3, <1>4 DEF ToolsInv, HeldRowsAreOwn

LEMMA StepInv == ToolsInv /\ StepOK => ToolsInv'
<1> SUFFICES ASSUME ToolsInv, StepOK
             PROVE  ToolsInv'
  OBVIOUS
<1>1. StoreInv'
  BY NextInv DEF ToolsInv, StepOK
<1>2. \A c \in Call : /\ calls'[c] \in CallState /\ CallShape(calls'[c])
                      /\ (PinOK(calls[c]) /\ Held(calls[c]))'
  <2>1. SUFFICES ASSUME NEW c \in Call
                 PROVE  /\ calls'[c] \in CallState /\ CallShape(calls'[c])
                        /\ (PinOK(calls[c]) /\ Held(calls[c]))'
    OBVIOUS
  <2>2. CASE calls'[c] = calls[c]
    <3>1. PICK k : k = calls[c]
      OBVIOUS
    <3>2. k \in CallState /\ CallShape(k) /\ PinOK(k) /\ Held(k)
      BY <3>1 DEF ToolsInv, ToolsTypeOK, HeldRowsAreOwn
    <3>3. Held(k)'
      BY <3>2, HeldStays DEF StepOK, ToolsInv
    <3>4. PinOK(k)'
      <4>1. k.pin \in Pin
        BY <3>2 DEF CallState
      <4>2. QED
        BY <3>2, <4>1, BornStays DEF StepOK, PinOK, CallShape
    <3>5. QED
      BY <2>2, <3>1, <3>2, <3>3, <3>4 DEF PinOK, Held
  <2>3. ASSUME NEW d \in Call, NEW k, Passes(d, k), calls'[c] # calls[c]
        PROVE  /\ calls'[c] \in CallState /\ CallShape(calls'[c])
               /\ (PinOK(calls[c]) /\ Held(calls[c]))'
    <3>1. calls'[c] = k
      BY <2>3 DEF Passes, Goto, ToolsInv, ToolsTypeOK
    <3>2. QED
      BY <2>3, <3>1 DEF Passes, PinOK, Held
  <2>4. QED
    BY <2>2, <2>3 DEF StepOK, CallsOK
<1>3. calls' \in [Call -> CallState]
  <2>1. calls' = [c \in Call |-> calls'[c]]
    BY DEF StepOK, CallsOK, Passes, Goto, ToolsInv, ToolsTypeOK
  <2>2. QED
    BY <1>2, <2>1
<1>4. RowsBorn'
  <2>1. SUFFICES ASSUME NEW id \in RowId, rows'[id] # None
                 PROVE  PinBorn(id)'
    BY DEF RowsBorn
  <2>2. CASE rows'[id] = rows[id]
    <3>1. PICK g \in Group, p \in Pin : g = GroupOf(id) /\ p = rows[id].pin
      BY <2>1, <2>2 DEF ToolsInv, StoreInv, StoreTypeOK, GroupRow, GroupOf, Group
    <3>2. Born(g, p)
      BY <2>1, <2>2, <3>1 DEF ToolsInv, RowsBorn, PinBorn
    <3>3. Born(g, p)'
      BY <3>2, BornStays DEF StepOK
    <3>4. g = GroupOf(id)' /\ p = rows'[id].pin
      BY <2>2, <3>1 DEF GroupOf
    <3>5. QED
      BY <3>3, <3>4 DEF PinBorn
  <2>3. QED
    BY <2>1, <2>2 DEF StepOK, PinsOK
<1>5. QED
  BY <1>1, <1>2, <1>3, <1>4
     DEF ToolsInv, ToolsTypeOK, StepOK, SpliitOK, HeldRowsAreOwn

LEMMA ToolsStutterInv == ToolsInv /\ UNCHANGED vars => ToolsInv'
<1> SUFFICES ASSUME ToolsInv, UNCHANGED vars
             PROVE  ToolsInv'
  OBVIOUS
<1>1. UNCHANGED <<storeVars, spliit, calls, told>>
  BY DEF vars, storeVars
<1>2. StepOK
  BY <1>1, StoreStutter, SpliitStutter, ToldStays DEF StepOK, CallsOK
<1>3. QED
  BY <1>2, StepInv

LEMMA ToolsInvariance == Spec => []ToolsInv
<1>1. ToolsInv /\ [Next]_vars => ToolsInv'
  BY EveryStepOK, StepInv, ToolsStutterInv
<1>2. QED
  BY <1>1, ToolsInitInv, PTL DEF Spec

\* Type correctness of the handlers' state.
THEOREM ToolsTypesHold == Spec => []ToolsTypeOK
<1>1. ToolsInv => ToolsTypeOK
  BY DEF ToolsInv
<1>2. QED
  BY <1>1, ToolsInvariance, PTL

\* The authorization boundary: no call ever acts on a row of another user, or
\* talks to Spliit about another group than its row links (ResolveGroup).
THEOREM HeldRowsAlwaysOwn == Spec => []HeldRowsAreOwn
<1>1. ToolsInv => HeldRowsAreOwn
  BY DEF ToolsInv
<1>2. QED
  BY <1>1, ToolsInvariance, PTL

\* A row's pin is a participant, past or present, of the row's own group,
\* through joins, re-pins and edits that interleave (FindParticipant).
THEOREM PinsAlwaysBelong == Spec => []PinsBelong
<1>1. ToolsInv => PinsBelong
  BY DEF ToolsInv, RowsBorn, PinBorn, Born, PinsBelong
<1>2. QED
  BY <1>1, ToolsInvariance, PTL

\* The handlers implement the store's specification: whatever they do to the
\* tables, in whatever order and with whatever failures, is a statement of it.
THEOREM ToolsImplementStore == Spec => StoreSpec
<1>1. Init => StoreInit
  BY DEF Init
<1>2. ToolsInv /\ [Next]_vars => [StoreNext]_storeVars
  BY EveryStepOK DEF StepOK, vars, storeVars
<1>3. QED
  BY <1>1, <1>2, ToolsInvariance, PTL DEF Spec, StoreSpec

\* So what holds of the store holds of the service: rows keep their identity.
THEOREM ToolsKeepRowIdentity == Spec => RowIdentity
  BY ToolsImplementStore, RowIdentityHolds

\* And users reach exactly the groups the access contract gives them.
THEOREM ToolsImplementAccess == Spec => AccessSpec
  BY ToolsImplementStore, StoreImplementsAccess

-----------------------------------------------------------------------------
(* Without failures, no group made through the service is lost. *)

CreatingSteps == {"CreateRead", "Register", "WebRegister"}

\* What a step must leave of the groups being made.
StrandOK ==
    /\ told \subseteq told'
    /\ \A d \in Call : calls[d].at \in CreatingSteps =>
          \/ calls'[d].at \in CreatingSteps /\ calls'[d].group = calls[d].group
          \/ calls[d].group \in told'
    /\ \A g \in Group : Exists(g)' => Exists(g) \/ g \in told' \/ Founded[g] # {}
                                      \/ Creating(g)'

LEMMA StrandStep ==
  ASSUME NothingStranded, StrandOK
  PROVE  NothingStranded'
<1> SUFFICES ASSUME NEW g \in Group, Exists(g)', Founded[g] = {}
             PROVE  g \in told' \/ Creating(g)'
  BY DEF NothingStranded
<1>1. CASE Exists(g)
  BY <1>1 DEF NothingStranded, StrandOK, Creating, CreatingSteps
<1>2. CASE ~Exists(g)
  BY <1>2 DEF StrandOK
<1>3. QED
  BY <1>1, <1>2

\* A step of a call that is not making a group, with Spliit left alone.
LEMMA StrandElsewhere ==
  ASSUME ToolsInv, NEW c \in Call, calls[c].at \notin CreatingSteps,
         NEW k, Goto(c, k), UNCHANGED spliit, told \subseteq told'
  PROVE  StrandOK
<1>1. \A d \in Call : d # c => calls'[d] = calls[d]
  BY DEF Goto, ToolsInv, ToolsTypeOK
<1>2. QED
  BY <1>1 DEF StrandOK, Exists

LEMMA StrandStutter ==
  ASSUME UNCHANGED <<spliit, calls, told>>
  PROVE  StrandOK
  BY DEF StrandOK, Exists

LEMMA StrandCreate ==
  ASSUME Faults = {}, ToolsInv, NEW c \in Call, NEW u \in User, NEW g \in Group,
         NEW p \in Pid, NEW a \in Alias, Create(c, u, g, p, a)
  PROVE  StrandOK
<1>1. /\ calls' = [calls EXCEPT ![c] = [Blank EXCEPT !.at = "CreateRead", !.user = u,
                                                   !.group = g, !.alias = a]]
      /\ calls[c].at = "idle" /\ told' = told /\ spliit' = Replaced(g, {}, {p})
  BY DEF Create, Goto, Starts, At
<1>2. calls'[c].at = "CreateRead" /\ calls'[c].group = g
  BY <1>1 DEF Blank, ToolsInv, ToolsTypeOK
<1>3. \A d \in Call : d # c => calls'[d] = calls[d]
  BY <1>1 DEF ToolsInv, ToolsTypeOK
<1>4. Creating(g)'
  BY <1>2 DEF Creating
<1>5. \A h \in Group : h # g => spliit'[h] = spliit[h]
  BY <1>1 DEF Replaced, ToolsInv, ToolsTypeOK
<1>6. \A h \in Group : h # g => (Exists(h)' <=> Exists(h))
  BY <1>5 DEF Exists
<1>7. \A h \in Group : Exists(h)' => Exists(h) \/ Creating(h)'
  BY <1>4, <1>6
<1>8. QED
  BY <1>1, <1>3, <1>7 DEF StrandOK, CreatingSteps

LEMMA StrandCreateRead ==
  ASSUME Faults = {}, ToolsInv, NEW c \in Call, CreateRead(c)
  PROVE  StrandOK
<1>1. PICK p \in Pin, s \in {"Register", "WebRegister"} :
         calls' = [calls EXCEPT ![c] =
                     [calls[c] EXCEPT !.at = s, !.pin = p, !.tries = 1]]
  BY DEF CreateRead, Goto, Live, Pin
<1>2. calls'[c].at = s /\ calls'[c].group = calls[c].group
  BY <1>1 DEF ToolsInv, ToolsTypeOK, CallState
<1>3. \A d \in Call : d # c => calls'[d] = calls[d]
  BY <1>1 DEF ToolsInv, ToolsTypeOK
<1>4. told' = told /\ spliit' = spliit
  BY DEF CreateRead
<1>5. QED
  BY <1>2, <1>3, <1>4 DEF StrandOK, CreatingSteps, Exists

LEMMA StrandRegister ==
  ASSUME Faults = {}, ToolsInv, NEW c \in Call, Register(c) \/ WebRegister(c)
  PROVE  StrandOK
<1>1. spliit' = spliit
  BY DEF Register, WebRegister
<1>2. \/ Finish(c) /\ Tell(c)
      \/ /\ Goto(c, [calls[c] EXCEPT !.tries = @ + 1])
         /\ calls[c].at = "Register" /\ told' = told
  BY DEF Register, WebRegister, At
<1>3. \A d \in Call : d # c => calls'[d] = calls[d]
  BY <1>2 DEF Finish, Goto, ToolsInv, ToolsTypeOK
<1>4. CASE Finish(c) /\ Tell(c)
  BY <1>1, <1>3, <1>4 DEF StrandOK, Tell, Exists
<1>5. CASE /\ Goto(c, [calls[c] EXCEPT !.tries = @ + 1])
           /\ calls[c].at = "Register" /\ told' = told
  <2>1. calls'[c].at = "Register" /\ calls'[c].group = calls[c].group
    BY <1>5 DEF Goto, ToolsInv, ToolsTypeOK, CallState
  <2>2. QED
    BY <1>1, <1>3, <1>5, <2>1 DEF StrandOK, CreatingSteps, Exists
<1>6. QED
  BY <1>2, <1>4, <1>5

LEMMA StrandEditPush ==
  ASSUME ToolsInv, NEW c \in Call, EditPush(c)
  PROVE  StrandOK
<1> DEFINE g == calls[c].group
<1>1. g \in Group /\ Exists(g) /\ calls[c].at = "EditPush" /\ told' = told
  BY DEF EditPush, At, ToolsInv, CallShape, PinOK, Born
<1>2. \A d \in Call : d # c => calls'[d] = calls[d]
  BY DEF EditPush, Finish, Goto, ToolsInv, ToolsTypeOK
<1>3. \A h \in Group : h # g => spliit'[h] = spliit[h]
  BY <1>1 DEF EditPush, Replaced, ToolsInv, ToolsTypeOK
<1>4. \A h \in Group : Exists(h)' => Exists(h)
  BY <1>1, <1>3 DEF Exists
<1>5. QED
  BY <1>1, <1>2, <1>4 DEF StrandOK, CreatingSteps

LEMMA StrandSpliitEdit ==
  ASSUME ToolsInv, NEW g \in Group, SpliitEdit(g)
  PROVE  StrandOK
<1>1. UNCHANGED <<calls, told>> /\ (Founded[g] # {} \/ g \in told)
  BY DEF SpliitEdit, Known
<1>2. \A h \in Group : h # g => spliit'[h] = spliit[h]
  BY DEF SpliitEdit, ToolsInv, ToolsTypeOK
<1>3. QED
  BY <1>1, <1>2 DEF StrandOK, Exists

LEMMA StrandNext ==
  ASSUME Faults = {}, ToolsInv, Next
  PROVE  StrandOK
<1>1. ASSUME NEW u \in User, NEW n \in Name, SignUp(u, n)
      PROVE  StrandOK
  BY <1>1, StrandStutter DEF SignUp, toolVars
<1>2. ASSUME NEW c \in Call, NEW u \in User, NEW g \in Group, NEW p \in Pid,
             NEW a \in Alias, JoinFetch(c, u, g, p, a)
      PROVE  StrandOK
  BY <1>2, StrandElsewhere DEF JoinFetch, Starts, At, CreatingSteps
<1>3. ASSUME NEW c \in Call, NEW u \in User, NEW ref \in References,
             \/ LeaveResolve(c, u, ref) \/ RepinResolve(c, u, ref)
             \/ EditResolve(c, u, ref) \/ DefaultResolve(c, u, ref)
      PROVE  StrandOK
  BY <1>3, StrandElsewhere
     DEF LeaveResolve, RepinResolve, EditResolve, DefaultResolve, Starts, At,
         CreatingSteps
<1>4. ASSUME NEW c \in Call, NEW u \in User, NEW id \in RowId, WebUpdateLoad(c, u, id)
      PROVE  StrandOK
  BY <1>4, StrandElsewhere DEF WebUpdateLoad, Starts, At, CreatingSteps
<1>5. ASSUME NEW c \in Call,
             \/ JoinInsert(c) \/ LeaveDelete(c) \/ PinFetch(c) \/ PinFetchFails(c)
             \/ RowWrite(c) \/ EditDetails(c) \/ SetDefault(c)
      PROVE  StrandOK
  <2>1. PICK k : Goto(c, k)
    BY <1>5 DEF JoinInsert, LeaveDelete, PinFetch, PinFetchFails, RowWrite,
                EditDetails, SetDefault, Finish
  <2>2. UNCHANGED <<spliit, told>> /\ calls[c].at \notin CreatingSteps
    BY <1>5 DEF JoinInsert, LeaveDelete, PinFetch, PinFetchFails, RowWrite,
                EditDetails, SetDefault, At, CreatingSteps
  <2>3. QED
    BY <2>1, <2>2, StrandElsewhere
<1>6. ASSUME NEW u \in User,
             \/ ClearDefault(u)
             \/ \E id \in RowId : WebDelete(u, id) \/ WebSetDefault(u, id)
      PROVE  StrandOK
  BY <1>6, StrandStutter DEF ClearDefault, WebDelete, WebSetDefault, toolVars
<1>7. QED
  BY <1>1, <1>2, <1>3, <1>4, <1>5, <1>6, StrandCreate, StrandCreateRead,
     StrandRegister, StrandEditPush, StrandSpliitEdit DEF Next, Crash

\* As long as the instance and the database answer and no process stops, the
\* ID of every group made through the service reaches its user, whatever
\* aliases are taken while it is being recorded (registerGroup).
THEOREM NothingStrandedWithoutFaults ==
  ASSUME Faults = {}
  PROVE  Spec => []NothingStranded
<1>1. Init => NothingStranded
  BY FoundedAssumption DEF Init, NothingStranded, Exists
<1>2. ToolsInv /\ NothingStranded /\ [Next]_vars => NothingStranded'
  BY StrandNext, StrandStep, StrandStutter DEF vars
<1>3. QED
  BY <1>1, <1>2, ToolsInvariance, PTL DEF Spec

-----------------------------------------------------------------------------
(* What becomes of the participants of a group that is edited *)

\* Who has gone from a group does not come back to it: no other participant is
\* ever given their ID.
GoneStays ==
    \A g \in Group, p \in Pid : spliit[g][p] = "gone" => spliit'[g][p] = "gone"

\* Once the form of a call is made, the caller's participant is in it, or beyond
\* removing.
Spared(k) ==
    k.at = "EditPush" =>
        k.pin = None \/ k.pin \in k.keep \/ spliit[k.group][k.pin] = "gone"
EditInv == \A c \in Call : Spared(calls[c])

\* Only the step that makes the form takes a call to where it is sent.
FormsOK ==
    \A c \in Call :
        calls'[c].at = "EditPush" => calls'[c] = calls[c] \/ Spared(calls'[c])

\* A new list of participants revives nobody.
LEMMA ReplacedGone ==
  ASSUME ToolsInv, NEW g \in Group, NEW keep, NEW new \in SUBSET Fresh,
         spliit' = Replaced(g, keep, new)
  PROVE  GoneStays
  BY DEF ToolsInv, ToolsTypeOK, Replaced, GoneStays, Live, Fresh

LEMMA EditPushGone ==
  ASSUME ToolsInv, NEW c \in Call, EditPush(c)
  PROVE  GoneStays
<1>1. calls[c].group \in Group
  BY DEF EditPush, At, ToolsInv, CallShape
<1>2. CASE UNCHANGED spliit
  BY <1>2 DEF GoneStays
<1>3. CASE \E new \in SUBSET Fresh : spliit' = Replaced(calls[c].group, calls[c].keep, new)
  BY <1>1, <1>3, ReplacedGone
<1>4. {} \in SUBSET Fresh /\ \A p \in Fresh : {p} \in SUBSET Fresh
  OBVIOUS
<1>5. QED
  BY <1>2, <1>3, <1>4 DEF EditPush

\* What any step leaves of the participants who have gone.
LEMMA GoneNext ==
  ASSUME ToolsInv, Next
  PROVE  GoneStays
<1>1. CASE UNCHANGED spliit
  BY <1>1 DEF GoneStays
<1>2. ASSUME NEW c \in Call, NEW u \in User, NEW g \in Group, NEW p \in Pid,
             NEW a \in Alias, Create(c, u, g, p, a)
      PROVE  GoneStays
  BY <1>2, ReplacedGone DEF Create
<1>3. ASSUME NEW g \in Group, SpliitEdit(g)
      PROVE  GoneStays
  BY <1>3 DEF SpliitEdit, GoneStays, Fresh, Unspent, ToolsInv, ToolsTypeOK
<1>4. ASSUME NEW c \in Call, NEW u \in User, NEW ref,
             \/ LeaveResolve(c, u, ref) \/ RepinResolve(c, u, ref)
             \/ EditResolve(c, u, ref) \/ DefaultResolve(c, u, ref)
             \/ WebUpdateLoad(c, u, ref)
             \/ \E g \in Group, q \in Pid, a \in Alias : JoinFetch(c, u, g, q, a)
      PROVE  UNCHANGED spliit
  BY <1>4 DEF LeaveResolve, RepinResolve, EditResolve, DefaultResolve,
              WebUpdateLoad, JoinFetch
<1>5. ASSUME NEW c \in Call,
             \/ JoinInsert(c) \/ CreateRead(c) \/ Register(c) \/ WebRegister(c)
             \/ LeaveDelete(c) \/ PinFetch(c) \/ PinFetchFails(c) \/ RowWrite(c)
             \/ EditDetails(c) \/ SetDefault(c) \/ Crash(c)
      PROVE  UNCHANGED spliit
  BY <1>5 DEF JoinInsert, CreateRead, Register, WebRegister, LeaveDelete,
              PinFetch, PinFetchFails, RowWrite, EditDetails, SetDefault, Crash
<1>6. ASSUME NEW u \in User,
             \/ \E n \in Name : SignUp(u, n)
             \/ ClearDefault(u)
             \/ \E id \in RowId : WebDelete(u, id) \/ WebSetDefault(u, id)
      PROVE  UNCHANGED spliit
  BY <1>6 DEF SignUp, ClearDefault, WebDelete, WebSetDefault, toolVars
<1>7. QED
  BY <1>1, <1>2, <1>3, <1>4, <1>5, <1>6, EditPushGone DEF Next

\* A step that takes call c anywhere but to the sending of a form.
LEMMA FormElsewhere ==
  ASSUME ToolsInv, NEW c \in Call, NEW k, Goto(c, k), k.at # "EditPush"
  PROVE  FormsOK
  BY DEF Goto, FormsOK, ToolsInv, ToolsTypeOK

\* The form leaves out no more than it may, so the caller's participant is in it
\* unless it had gone from the group before.
LEMMA FormMade ==
  ASSUME ToolsInv, NEW c \in Call, EditDetails(c)
  PROVE  FormsOK
<1>1. ASSUME NEW cut \in SUBSET (Unspent(calls[c].group) \ {calls[c].pin}), NEW add,
             Goto(c, [calls[c] EXCEPT !.at = "EditPush",
                                      !.keep = Live(calls[c].group) \ cut,
                                      !.add = add])
      PROVE  FormsOK
  <2>1. PICK k : k = [calls[c] EXCEPT !.at = "EditPush",
                                      !.keep = Live(calls[c].group) \ cut,
                                      !.add = add]
    OBVIOUS
  <2>2. /\ k.pin = calls[c].pin /\ k.group = calls[c].group
        /\ k.keep = Live(calls[c].group) \ cut /\ calls[c].at = "EditDetails"
    BY <2>1 DEF EditDetails, At, ToolsInv, ToolsTypeOK, CallState
  <2>3. k.group \in Group /\ k.pin \in Pin /\ Born(k.group, k.pin)
    BY <2>2 DEF ToolsInv, CallShape, PinOK
  <2>4. k.pin = None \/ k.pin \in Live(k.group) \/ spliit[k.group][k.pin] = "gone"
    BY <2>3 DEF ToolsInv, ToolsTypeOK, Born, Live, Status, Pin
  <2>5. Spared(k)
    BY <1>1, <2>2, <2>4 DEF Spared
  <2>6. \A d \in Call : calls'[d] = IF d = c THEN k ELSE calls[d]
    BY <1>1, <2>1 DEF Goto, ToolsInv, ToolsTypeOK
  <2>7. QED
    BY <2>5, <2>6 DEF FormsOK
<1>2. CASE Finish(c)
  BY <1>2, FormElsewhere DEF Finish, Blank
<1>3. QED
  BY <1>1, <1>2 DEF EditDetails

\* A call that resolves a row, or begins without one, has no form yet.
LEMMA FormStarts ==
  ASSUME ToolsInv, NEW c \in Call, NEW u \in User, NEW ref,
         \/ LeaveResolve(c, u, ref) \/ RepinResolve(c, u, ref)
         \/ EditResolve(c, u, ref) \/ DefaultResolve(c, u, ref)
         \/ WebUpdateLoad(c, u, ref)
         \/ \E g \in Group, p \in Pid, a \in Alias :
               JoinFetch(c, u, g, p, a) \/ Create(c, u, g, p, a)
  PROVE  FormsOK
<1> DEFINE Begun(k) == Goto(c, k) /\ k.at # "EditPush"
<1>1. ASSUME NEW id, NEW s \in {"PinFetch", "RowWrite", "EditDetails"}
      PROVE  /\ Holding(u, id, s).at # "EditPush"
             /\ [Holding(u, id, s) EXCEPT !.asked = {"pin"}].at # "EditPush"
             /\ \A a : /\ [Holding(u, id, s) EXCEPT !.alias = a,
                               !.asked = {"alias", "pin"}].at # "EditPush"
                     /\ [Holding(u, id, s) EXCEPT !.alias = a,
                               !.asked = {"alias"}].at # "EditPush"
  BY DEF Holding, Blank
<1>2. ASSUME RepinResolve(c, u, ref) \/ EditResolve(c, u, ref) \/ WebUpdateLoad(c, u, ref)
      PROVE  \E k : Begun(k)
  BY <1>1, <1>2 DEF RepinResolve, EditResolve, WebUpdateLoad
<1>3. ASSUME LeaveResolve(c, u, ref) \/ DefaultResolve(c, u, ref)
      PROVE  \E k : Begun(k)
  <2> DEFINE leave(id) == [Blank EXCEPT !.at = "LeaveDelete", !.user = u, !.id = id]
             default(id) == [Blank EXCEPT !.at = "SetDefault", !.user = u, !.id = id]
  <2>1. \E id : Goto(c, leave(id)) \/ Goto(c, default(id))
    BY <1>3 DEF LeaveResolve, DefaultResolve
  <2>2. \A id : leave(id).at # "EditPush" /\ default(id).at # "EditPush"
    BY DEF Blank
  <2> HIDE DEF leave, default
  <2>3. QED
    BY <2>1, <2>2
<1>4. ASSUME NEW g, NEW p, NEW a, JoinFetch(c, u, g, p, a) \/ Create(c, u, g, p, a)
      PROVE  \E k : Begun(k)
  <2> DEFINE join == [Blank EXCEPT !.at = "JoinInsert", !.user = u, !.group = g,
                                   !.alias = a, !.pin = p]
             make == [Blank EXCEPT !.at = "CreateRead", !.user = u, !.group = g,
                                   !.alias = a]
  <2>1. Goto(c, join) \/ Goto(c, make) \/ Goto(c, Blank)
    BY <1>4 DEF JoinFetch, Create, Finish
  <2>2. join.at = "JoinInsert" /\ make.at = "CreateRead" /\ Blank.at = "idle"
    BY DEF Blank
  <2> HIDE DEF join, make
  <2>3. QED
    BY <2>1, <2>2
<1>5. PICK k : Begun(k)
  BY <1>2, <1>3, <1>4
<1>6. QED
  BY <1>5, FormElsewhere

LEMMA FormNext ==
  ASSUME ToolsInv, Next
  PROVE  FormsOK
<1>1. CASE UNCHANGED calls
  BY <1>1 DEF FormsOK
<1>2. ASSUME NEW c \in Call, NEW u \in User,
             \/ \E g \in Group, p \in Pid, a \in Alias :
                   JoinFetch(c, u, g, p, a) \/ Create(c, u, g, p, a)
             \/ \E ref : \/ LeaveResolve(c, u, ref) \/ RepinResolve(c, u, ref)
                        \/ EditResolve(c, u, ref) \/ DefaultResolve(c, u, ref)
                        \/ WebUpdateLoad(c, u, ref)
      PROVE  FormsOK
  BY <1>2, FormStarts
<1>3. ASSUME NEW c \in Call, Finish(c)
      PROVE  FormsOK
  BY <1>3, FormElsewhere DEF Finish, Blank
<1>4. ASSUME NEW c \in Call,
             CreateRead(c) \/ Register(c) \/ PinFetch(c) \/ EditPush(c)
      PROVE  FormsOK
  <2>1. calls[c] \in CallState
    BY DEF ToolsInv, ToolsTypeOK
  <2> DEFINE read(p, s) == [calls[c] EXCEPT !.at = s, !.pin = p, !.tries = 1]
             again == [calls[c] EXCEPT !.tries = @ + 1]
             pinned(p) == [calls[c] EXCEPT !.at = "RowWrite", !.pin = p]
             sent == [calls[c] EXCEPT !.at = "RowWrite", !.keep = {}, !.add = FALSE]
  <2>2. /\ \A p, s : read(p, s).at = s /\ pinned(p).at = "RowWrite"
        /\ again.at = calls[c].at /\ sent.at = "RowWrite" /\ Blank.at = "idle"
    BY <2>1 DEF Blank, CallState
  <2>3. \E k : Goto(c, k) /\ k.at # "EditPush"
    <3>1. ASSUME CreateRead(c)
          PROVE  \/ Goto(c, Blank)
                 \/ \E p : Goto(c, read(p, "Register")) \/ Goto(c, read(p, "WebRegister"))
      BY <3>1 DEF CreateRead, Finish
    <3>2. ASSUME Register(c)
          PROVE  calls[c].at = "Register" /\ (Goto(c, Blank) \/ Goto(c, again))
      BY <3>2 DEF Register, Finish, At
    <3>3. ASSUME PinFetch(c)
          PROVE  \E p : Goto(c, pinned(p))
      BY <3>3 DEF PinFetch
    <3>4. ASSUME EditPush(c)
          PROVE  Goto(c, Blank) \/ Goto(c, sent)
      BY <3>4 DEF EditPush, Finish
    <3> HIDE DEF read, again, pinned, sent
    <3>5. QED
      BY <1>4, <2>2, <3>1, <3>2, <3>3, <3>4
  <2>4. QED
    BY <2>3, FormElsewhere
<1>5. ASSUME NEW c \in Call,
             \/ JoinInsert(c) \/ WebRegister(c) \/ LeaveDelete(c) \/ PinFetchFails(c)
             \/ RowWrite(c) \/ SetDefault(c) \/ Crash(c)
      PROVE  Finish(c)
  BY <1>5 DEF JoinInsert, WebRegister, LeaveDelete, PinFetchFails, RowWrite,
              SetDefault, Crash
<1>6. ASSUME NEW u \in User,
             \/ \E n \in Name : SignUp(u, n)
             \/ ClearDefault(u)
             \/ \E id \in RowId : WebDelete(u, id) \/ WebSetDefault(u, id)
      PROVE  UNCHANGED calls
  BY <1>6 DEF SignUp, ClearDefault, WebDelete, WebSetDefault, toolVars
<1>7. ASSUME NEW g \in Group, SpliitEdit(g)
      PROVE  UNCHANGED calls
  BY <1>7 DEF SpliitEdit
<1>8. QED
  BY <1>1, <1>2, <1>3, <1>4, <1>5, <1>6, <1>7, FormMade DEF Next

LEMMA EditInvStep ==
  ASSUME ToolsInv, EditInv, Next
  PROVE  EditInv'
<1> SUFFICES ASSUME NEW c \in Call, calls'[c].at = "EditPush"
             PROVE  Spared(calls[c])'
  BY DEF EditInv, Spared
<1>1. PICK k : k = calls'[c]
  OBVIOUS
<1>2. Spared(k)
  BY <1>1, FormNext DEF FormsOK, EditInv
<1>3. k \in CallState /\ CallShape(k)
  BY <1>1, EveryStepOK, StepInv DEF ToolsInv, ToolsTypeOK
<1>4. k.group \in Group /\ (k.pin = None \/ k.pin \in Pid)
  BY <1>1, <1>3 DEF CallShape, Pin
<1>5. Spared(k)'
  BY <1>2, <1>4, GoneNext DEF Spared, GoneStays
<1>6. QED
  BY <1>1, <1>5 DEF Spared

LEMMA EditInvariance == Spec => []EditInv
<1>1. Init => EditInv
  BY DEF Init, Blank, EditInv, Spared
<1>2. EditInv /\ UNCHANGED vars => EditInv'
  BY DEF vars, EditInv, Spared
<1>3. QED
  BY <1>1, <1>2, EditInvStep, ToolsInvariance, PTL DEF Spec

-----------------------------------------------------------------------------

\* Only sending the form both takes a call on from there and changes who is in
\* a group.
LEMMA DroppedByPush ==
  ASSUME ToolsInv, [Next]_vars, NEW c \in Call, NEW p \in Dropped(c)
  PROVE  EditPush(c)
<1>1. calls[c].at = "EditPush" /\ calls'[c].at # "EditPush" /\ spliit' # spliit
  BY DEF Dropped, At
<1>2. Next
  BY <1>1 DEF vars
\* Every other step of a call that has reached the form leaves Spliit alone.
<1>3. ASSUME NEW d \in Call, NEW u \in User, NEW g \in Group, NEW q \in Pid,
             NEW a \in Alias, Create(d, u, g, q, a)
      PROVE  FALSE
  <2>1. d # c
    BY <1>1, <1>3 DEF Create, Starts, At
  <2>2. calls'[c] = calls[c]
    BY <1>3, <2>1 DEF Create, Finish, Goto, ToolsInv, ToolsTypeOK
  <2>3. QED
    BY <1>1, <2>2
<1>4. ASSUME NEW d \in Call, d # c, EditPush(d)
      PROVE  FALSE
  <2>1. calls'[c] = calls[c]
    BY <1>4 DEF EditPush, Finish, Goto, ToolsInv, ToolsTypeOK
  <2>2. QED
    BY <1>1, <2>1
<1>5. ASSUME NEW g \in Group, SpliitEdit(g)
      PROVE  FALSE
  BY <1>1, <1>5 DEF SpliitEdit
<1>6. ASSUME NEW d \in Call, NEW u \in User, NEW ref,
             \/ LeaveResolve(d, u, ref) \/ RepinResolve(d, u, ref)
             \/ EditResolve(d, u, ref) \/ DefaultResolve(d, u, ref)
             \/ WebUpdateLoad(d, u, ref)
             \/ \E g \in Group, q \in Pid, a \in Alias : JoinFetch(d, u, g, q, a)
      PROVE  FALSE
  BY <1>1, <1>6 DEF LeaveResolve, RepinResolve, EditResolve, DefaultResolve,
                    WebUpdateLoad, JoinFetch
<1>7. ASSUME NEW d \in Call,
             \/ JoinInsert(d) \/ CreateRead(d) \/ Register(d) \/ WebRegister(d)
             \/ LeaveDelete(d) \/ PinFetch(d) \/ PinFetchFails(d) \/ RowWrite(d)
             \/ EditDetails(d) \/ SetDefault(d) \/ Crash(d)
      PROVE  FALSE
  BY <1>1, <1>7 DEF JoinInsert, CreateRead, Register, WebRegister, LeaveDelete,
                    PinFetch, PinFetchFails, RowWrite, EditDetails, SetDefault, Crash
<1>8. ASSUME NEW u \in User,
             \/ \E n \in Name : SignUp(u, n)
             \/ ClearDefault(u)
             \/ \E id \in RowId : WebDelete(u, id) \/ WebSetDefault(u, id)
      PROVE  FALSE
  BY <1>1, <1>8 DEF SignUp, ClearDefault, WebDelete, WebSetDefault, toolVars
<1>9. QED
  BY <1>2, <1>3, <1>4, <1>5, <1>6, <1>7, <1>8 DEF Next

LEMMA DroppedNotKept ==
  ASSUME ToolsInv, [Next]_vars, NEW c \in Call, NEW p \in Dropped(c)
  PROVE  /\ At(c, "EditPush") /\ p \notin calls[c].keep
         /\ calls[c].group \in Group /\ p \in Pid /\ spliit[calls[c].group][p] # "gone"
<1>1. EditPush(c)
  BY DroppedByPush
<1>2. calls[c].at = "EditPush" /\ calls[c].group \in Group
  BY <1>1 DEF EditPush, At, ToolsInv, CallShape
<1>3. p \in Live(calls[c].group) /\ spliit'[calls[c].group][p] = "gone"
  BY DEF Dropped
<1>4. PICK new : spliit' = Replaced(calls[c].group, calls[c].keep, new)
  BY <1>1 DEF EditPush, Dropped
<1>5. p \notin calls[c].keep
  BY <1>2, <1>3, <1>4 DEF Replaced, Live, ToolsInv, ToolsTypeOK
<1>6. QED
  BY <1>2, <1>3, <1>5 DEF At, Live

\* update_group never removes the participant its caller was pinned to when the
\* call began, whatever people in Spliit and other calls, of the same user or of
\* others, do between its reads and its write (the guard in buildGroupForm).
THEOREM CallerAlwaysStays == Spec => CallerStays
<1> DEFINE Stays == \A c \in Call : calls[c].pin \notin Dropped(c)
<1>1. ToolsInv /\ EditInv /\ [Next]_vars => Stays
  <2> SUFFICES ASSUME ToolsInv, EditInv, [Next]_vars, NEW c \in Call,
                      calls[c].pin \in Dropped(c)
               PROVE  FALSE
    OBVIOUS
  <2>1. /\ At(c, "EditPush") /\ calls[c].pin \notin calls[c].keep
        /\ calls[c].pin \in Pid /\ spliit[calls[c].group][calls[c].pin] # "gone"
    BY DroppedNotKept
  <2>2. QED
    BY <2>1, NoneAssumption DEF EditInv, Spared, At
<1>2. ToolsInv /\ EditInv /\ [Next]_vars => [Stays]_vars
  BY <1>1
<1>3. QED
  BY <1>2, ToolsInvariance, EditInvariance, PTL DEF Spec, CallerStays

-----------------------------------------------------------------------------
(* Every handler runs down *)

\* How many steps a call still has to take at most.
StepsLeft(k) ==
    CASE k.at = "idle" -> 0
      [] k.at = "Register" -> Len(Candidates[k.alias]) - k.tries + 1
      [] k.at = "CreateRead" -> Len(Candidates[k.alias]) + 1
      [] k.at \in {"PinFetch", "EditPush"} -> 2
      [] k.at = "EditDetails" -> 3
      [] OTHER -> 1

Lower(c) == StepsLeft(calls'[c]) \in 0 .. StepsLeft(calls[c]) - 1

\* Whatever a call in progress does next, and whatever others have done to the
\* tables and groups meanwhile, brings it nearer to its end: the attempts of
\* registerGroup are counted, and no handler begins anything again.
HandlersRunDown ==
    [][\A c \in Call : ~At(c, "idle") /\ calls'[c] # calls[c] => Lower(c)]_vars

LEMMA CandidatesCount ==
  ASSUME ToolsInv, NEW c \in Call,
         calls[c].at \in {"CreateRead", "Register"}
  PROVE  /\ Len(Candidates[calls[c].alias]) \in Nat
         /\ Len(Candidates[calls[c].alias]) >= 1
         /\ calls[c].at = "Register" =>
               calls[c].tries \in 1 .. Len(Candidates[calls[c].alias])
<1>1. calls[c].alias \in Alias
  BY DEF ToolsInv, CallShape
<1>2. Candidates[calls[c].alias] \in Seq(Alias) /\ Candidates[calls[c].alias] # <<>>
  BY <1>1, CandidatesAssumption
<1>3. QED
  BY <1>2 DEF ToolsInv, CallShape

LEMMA LeftInProgress ==
  ASSUME ToolsInv, NEW c \in Call, ~At(c, "idle")
  PROVE  StepsLeft(calls[c]) \in Nat /\ StepsLeft(calls[c]) >= 1
<1> DEFINE n == Len(Candidates[calls[c].alias])
<1>1. CASE calls[c].at = "CreateRead"
  <2>1. n \in Nat
    BY <1>1, CandidatesCount
  <2>2. StepsLeft(calls[c]) = n + 1
    BY <1>1 DEF StepsLeft
  <2> HIDE DEF n
  <2>3. QED
    BY <2>1, <2>2
<1>2. CASE calls[c].at = "Register"
  <2>1. n \in Nat /\ calls[c].tries \in 1 .. n
    BY <1>2, CandidatesCount
  <2>2. StepsLeft(calls[c]) = n - calls[c].tries + 1
    BY <1>2 DEF StepsLeft
  <2> HIDE DEF n
  <2>3. QED
    BY <2>1, <2>2
<1>3. CASE calls[c].at \notin {"CreateRead", "Register"}
  BY <1>3 DEF StepsLeft, At
<1>4. QED
  BY <1>1, <1>2, <1>3

LEMMA LowerAtEnd ==
  ASSUME ToolsInv, NEW c \in Call, ~At(c, "idle"), Finish(c)
  PROVE  Lower(c)
<1>1. calls'[c] = Blank
  BY DEF Finish, Goto, ToolsInv, ToolsTypeOK
<1>2. StepsLeft(calls'[c]) = 0
  BY <1>1 DEF StepsLeft, Blank
<1>3. QED
  BY <1>2, LeftInProgress DEF Lower

LEMMA LowerOnTheWay ==
  ASSUME ToolsInv, NEW c \in Call,
         CreateRead(c) \/ Register(c) \/ PinFetch(c) \/ EditDetails(c) \/ EditPush(c)
  PROVE  Lower(c)
<1>1. calls[c] \in CallState /\ ~At(c, "idle") /\ \A k : Goto(c, k) => calls'[c] = k
  BY DEF CreateRead, Register, PinFetch, EditDetails, EditPush, At, Goto,
         ToolsInv, ToolsTypeOK
<1>2. CASE Finish(c)
  BY <1>1, <1>2, LowerAtEnd
<1>3. CASE CreateRead(c)
  <2>1. SUFFICES ASSUME NEW p, NEW s \in {"Register", "WebRegister"},
                        Goto(c, [calls[c] EXCEPT !.at = s, !.pin = p, !.tries = 1])
                 PROVE  Lower(c)
    BY <1>2, <1>3 DEF CreateRead
  <2>2. /\ calls'[c].at = s /\ calls'[c].alias = calls[c].alias
        /\ calls'[c].tries = 1 /\ calls[c].at = "CreateRead"
    BY <1>1, <1>3, <2>1 DEF CreateRead, At, CallState
  <2>3. QED
    BY <2>2, CandidatesCount DEF StepsLeft, Lower
<1>4. CASE Register(c)
  <2>1. SUFFICES ASSUME calls[c].tries < Len(Candidates[calls[c].alias]),
                        Goto(c, [calls[c] EXCEPT !.tries = @ + 1])
                 PROVE  Lower(c)
    BY <1>2, <1>4 DEF Register
  <2>2. /\ calls'[c].at = "Register" /\ calls'[c].alias = calls[c].alias
        /\ calls'[c].tries = calls[c].tries + 1 /\ calls[c].at = "Register"
    BY <1>1, <1>4, <2>1 DEF Register, At, CallState
  <2> DEFINE n == Len(Candidates[calls[c].alias])
  <2>3. n \in Nat /\ calls[c].tries \in 1 .. n /\ calls[c].tries < n
    BY <2>1, <2>2, CandidatesCount
  <2>4. StepsLeft(calls[c]) = n - calls[c].tries + 1
    BY <2>2 DEF StepsLeft
  <2>5. StepsLeft(calls'[c]) = n - (calls[c].tries + 1) + 1
    BY <2>2 DEF StepsLeft
  <2> HIDE DEF n
  <2>6. QED
    BY <2>3, <2>4, <2>5 DEF Lower
<1>5. CASE PinFetch(c)
  <2>1. calls[c].at = "PinFetch" /\ calls'[c].at = "RowWrite"
    BY <1>1, <1>5 DEF PinFetch, At, CallState
  <2>2. QED
    BY <2>1 DEF StepsLeft, Lower
<1>6. CASE EditDetails(c) /\ ~Finish(c)
  <2>1. calls[c].at = "EditDetails" /\ calls'[c].at = "EditPush"
    BY <1>1, <1>6 DEF EditDetails, At, CallState
  <2>2. QED
    BY <2>1 DEF StepsLeft, Lower
<1>7. CASE EditPush(c) /\ ~Finish(c)
  <2>1. /\ At(c, "EditPush")
        /\ Goto(c, [calls[c] EXCEPT !.at = "RowWrite", !.keep = {}, !.add = FALSE])
    BY <1>7 DEF EditPush
  <2>2. calls[c].at = "EditPush" /\ calls'[c].at = "RowWrite"
    BY <1>1, <2>1 DEF At, CallState
  <2>3. QED
    BY <2>2 DEF StepsLeft, Lower
<1>8. QED
  BY <1>2, <1>3, <1>4, <1>5, <1>6, <1>7

LEMMA LowerNext ==
  ASSUME ToolsInv, [Next]_vars, NEW c \in Call, ~At(c, "idle"), calls'[c] # calls[c]
  PROVE  Lower(c)
<1>1. Next
  BY DEF vars
<1>2. ASSUME NEW d \in Call, NEW k, Goto(d, k)
      PROVE  d = c
  BY <1>2 DEF Goto, ToolsInv, ToolsTypeOK
<1>3. ASSUME NEW d \in Call, NEW u \in User, NEW ref,
             \/ LeaveResolve(d, u, ref) \/ RepinResolve(d, u, ref)
             \/ EditResolve(d, u, ref) \/ DefaultResolve(d, u, ref)
             \/ WebUpdateLoad(d, u, ref)
             \/ \E g \in Group, q \in Pid, a \in Alias :
                   JoinFetch(d, u, g, q, a) \/ Create(d, u, g, q, a)
      PROVE  FALSE
  <2>1. (\E k : Goto(d, k)) /\ At(d, "idle")
    BY <1>3 DEF LeaveResolve, RepinResolve, EditResolve, DefaultResolve,
                WebUpdateLoad, JoinFetch, Create, Finish, Starts
  <2>2. QED
    BY <1>2, <2>1
<1>4. ASSUME NEW d \in Call,
             \/ JoinInsert(d) \/ WebRegister(d) \/ LeaveDelete(d) \/ PinFetchFails(d)
             \/ RowWrite(d) \/ SetDefault(d) \/ Crash(d)
      PROVE  Lower(c)
  <2>1. Finish(d)
    BY <1>4 DEF JoinInsert, WebRegister, LeaveDelete, PinFetchFails, RowWrite,
                SetDefault, Crash
  <2>2. QED
    BY <1>2, <2>1, LowerAtEnd DEF Finish
<1>5. ASSUME NEW d \in Call,
             \/ CreateRead(d) \/ Register(d) \/ PinFetch(d)
             \/ EditDetails(d) \/ EditPush(d)
      PROVE  Lower(c)
  <2>1. \E k : Goto(d, k)
    BY <1>5 DEF CreateRead, Register, PinFetch, EditDetails, EditPush, Finish
  <2>2. QED
    BY <1>2, <1>5, <2>1, LowerOnTheWay
<1>6. ASSUME NEW u \in User,
             \/ \E n \in Name : SignUp(u, n)
             \/ ClearDefault(u)
             \/ \E id \in RowId : WebDelete(u, id) \/ WebSetDefault(u, id)
      PROVE  FALSE
  BY <1>6 DEF SignUp, ClearDefault, WebDelete, WebSetDefault, toolVars
<1>7. ASSUME NEW g \in Group, SpliitEdit(g)
      PROVE  FALSE
  BY <1>7 DEF SpliitEdit
<1>8. QED
  BY <1>1, <1>3, <1>4, <1>5, <1>6, <1>7 DEF Next

\* Once it has begun, a handler takes at most as many further steps as
\* StepsLeft says: one more than the alias candidates when it creates a group,
\* and three otherwise.
THEOREM HandlersAlwaysRunDown == Spec => HandlersRunDown
<1>1. ToolsInv /\ [Next]_vars =>
        [\A c \in Call : ~At(c, "idle") /\ calls'[c] # calls[c] => Lower(c)]_vars
  BY LowerNext
<1>2. QED
  BY <1>1, ToolsInvariance, PTL DEF Spec, HandlersRunDown
=============================================================================
