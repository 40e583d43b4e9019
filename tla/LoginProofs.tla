---------------------------- MODULE LoginProofs ----------------------------
(***************************************************************************)
(* Theorems about module Login, for any number of users, browsers,         *)
(* replicas and requests, any clock skew and any lifetimes.  The invariant *)
(* is LoginInv; what its store part needs comes from StoreProofs, because  *)
(* every step of Login is one statement of the store or none.              *)
(***************************************************************************)
EXTENDS Login, StoreProofs

-----------------------------------------------------------------------------
(* Requests, and what a step may do to one. *)

LEMMA Facts ==
  ASSUME LoginInv, NEW c \in Call, ~IsIdle(c)
  PROVE  /\ calls[c] \in Requests /\ calls[c].who \in Browser
         /\ calls[c].on \in Replica /\ Subject(c) \in User
<1>1. calls[c] \in Requests
  BY DEF LoginInv, LoginTypeOK, IsIdle, Idle
<1>2. QED
  BY <1>1, OwnerAssumption DEF Requests, Subject

LEMMA ClockFacts ==
  ASSUME LoginInv, NEW r \in Replica
  PROVE  now \in Nat /\ Clock(r) \in Nat /\ now <= Clock(r) /\ Clock(r) <= now + Skew
  BY ClockAssumption DEF LoginInv, LoginTypeOK, Clock

\* A request's next form: the same, over, new, or one step further.
Begins(c) ==
    \/ \E f \in Flow, r \in Replica, n \in Claims :
          /\ Out(f) /\ Understood(f, r) /\ flows'[f] = None
          /\ calls'[c] = [Idle EXCEPT !.at = "read", !.who = flows[f].who,
                                      !.on = r, !.name = n]
    \/ \E b \in Browser, r \in Replica, w \in Wishes :
          /\ cookie[b] # None
          /\ calls'[c] = [Idle EXCEPT !.at = "enter", !.who = b, !.on = r,
                             !.sid = cookie[b], !.name = w[1], !.default = w[2]]
Goes(c, from, to) == calls[c].at = from /\ calls'[c] = [calls[c] EXCEPT !.at = to]
IsAdmitted(c) == Live(calls[c].sid, calls[c].on)
Moves(c) ==
    \/ calls'[c] \in {calls[c], Idle}
    \/ IsIdle(c) /\ Begins(c)
    \/ Goes(c, "read", "refresh") \/ Goes(c, "read", "insert")
    \/ Goes(c, "refresh", "session") \/ Goes(c, "insert", "session")
    \/ IsAdmitted(c) /\ Goes(c, "enter", FirstWrite(c))
    \/ /\ calls[c].at = "default" /\ calls[c].name # None
       /\ calls'[c] = [calls[c] EXCEPT !.at = "name", !.did = @ \cup {"default"}]

LEMMA StepMoves ==
  ASSUME LoginInv, [Next]_vars, NEW c \in Call
  PROVE  Moves(c)
<1> USE DEF LoginInv, Goto, End
<1>0. calls \in [Call -> Requests \cup {Idle}]
  BY DEF LoginTypeOK
<1>1. CASE UNCHANGED calls
  BY <1>1 DEF Moves
<1>2. ASSUME NEW k \in Call, NEW f \in Flow, NEW r \in Replica, NEW n \in Claims,
             Callback(k, f, r, n)
      PROVE  Moves(c)
  <2>1. calls' = [calls EXCEPT ![k] = [Idle EXCEPT
          !.at = "read", !.who = flows[f].who, !.on = r, !.name = n]]
        /\ IsIdle(k) /\ Out(f) /\ Understood(f, r) /\ flows'[f] = None
    BY <1>2 DEF Callback, Back, LoginTypeOK
  <2>2. CASE k = c
    BY <1>0, <2>1, <2>2 DEF Moves, Begins
  <2>3. QED
    BY <1>0, <2>1, <2>2 DEF Moves
<1>3. ASSUME NEW k \in Call, NEW b \in Browser, NEW r \in Replica, NEW w \in Wishes,
             SendSettings(k, b, r, w[1], w[2])
      PROVE  Moves(c)
  <2>1. calls' = [calls EXCEPT ![k] = [Idle EXCEPT
          !.at = "enter", !.who = b, !.on = r, !.sid = cookie[b],
          !.name = w[1], !.default = w[2]]]
        /\ IsIdle(k) /\ cookie[b] # None
    BY <1>3 DEF SendSettings
  <2>2. CASE k = c
    BY <1>0, <2>1, <2>2 DEF Moves, Begins
  <2>3. QED
    BY <1>0, <2>1, <2>2 DEF Moves
<1>4. ASSUME NEW k \in Call, UpsertRead(k) \/ UpsertRefresh(k) \/ UpsertInsert(k)
      PROVE  Moves(c)
  BY <1>0, <1>4 DEF UpsertRead, UpsertRefresh, UpsertInsert, Moves, Goes
<1>5. ASSUME NEW k \in Call, NewSession(k) \/ DbFails(k)
      PROVE  Moves(c)
  BY <1>0, <1>5 DEF NewSession, DbFails, Moves
<1>6. ASSUME NEW k \in Call, Enter(k)
      PROVE  Moves(c)
  BY <1>0, <1>6 DEF Enter, Moves, Goes, IsAdmitted
<1>7. ASSUME NEW k \in Call, WriteDefault(k)
      PROVE  Moves(c)
  <2>1. /\ calls[k].at = "default"
        /\ \/ calls' = [calls EXCEPT ![k] = Idle]
           \/ GoOn(k, "default", "name", calls[k].name # None)
    BY <1>7 DEF WriteDefault
  <2>2. CASE GoOn(k, "default", "name", calls[k].name # None)
    BY <1>0, <2>1, <2>2 DEF GoOn, Moves
  <2>3. QED
    BY <1>0, <2>1, <2>2 DEF Moves
<1>8. ASSUME NEW k \in Call, WriteName(k)
      PROVE  Moves(c)
  <2>1. /\ calls[k].at = "name"
        /\ GoOn(k, "name", "default", calls[k].default # Keep)
    BY <1>8 DEF WriteName
  <2>2. calls' = [calls EXCEPT ![k] = Idle]
    BY <2>1 DEF GoOn, CallsOK
  <2>3. QED
    BY <1>0, <2>2 DEF Moves
<1>9. ASSUME NEW r \in Replica, Restart(r)
      PROVE  Moves(c)
  BY <1>9 DEF Restart, Moves
<1>10. ASSUME Next
       PROVE  Moves(c)
  <2>1. ASSUME NEW b \in Browser, Logout(b) \/ LogoutFails(b)
               \/ \E r \in Replica : StartLogin(b, r)
        PROVE  UNCHANGED calls
    BY <2>1 DEF Logout, LogoutFails, StartLogin
  <2>2. ASSUME NEW f \in Flow, NEW r \in Replica,
               CallbackRefused(f, r) \/ ExchangeFails(f, r)
        PROVE  UNCHANGED calls
    BY <2>2 DEF CallbackRefused, ExchangeFails
  <2>3. ASSUME NEW r \in Replica, Purge(r)
        PROVE  UNCHANGED calls
    BY <2>3 DEF Purge
  <2>4. CASE OtherHandler \/ Tick
    BY <1>1, <2>4 DEF OtherHandler, Tick, loginVars
  <2>5. QED
    BY <1>1, <1>2, <1>3, <1>4, <1>5, <1>6, <1>7, <1>8, <1>9, <1>10,
       <2>1, <2>2, <2>3, <2>4 DEF Next
<1>11. QED
  BY <1>1, <1>10 DEF vars, loginVars

LEMMA CallsFunction ==
  ASSUME LoginInv, Next
  PROVE  calls' = [c \in Call |-> calls'[c]]
<1> USE DEF LoginInv, LoginTypeOK, Goto, End, GoOn
<1>1. CASE UNCHANGED calls
  BY <1>1
<1>2. ASSUME NEW c \in Call, NEW f \in Flow, NEW r \in Replica, NEW n \in Claims,
             Callback(c, f, r, n)
      PROVE  calls' = [k \in Call |-> calls'[k]]
  BY <1>2 DEF Callback
<1>3. ASSUME NEW c \in Call, NEW b \in Browser, NEW r \in Replica, NEW w \in Wishes,
             SendSettings(c, b, r, w[1], w[2])
      PROVE  calls' = [k \in Call |-> calls'[k]]
  BY <1>3 DEF SendSettings
<1>4. ASSUME NEW c \in Call, UpsertRead(c) \/ UpsertRefresh(c) \/ UpsertInsert(c)
      PROVE  calls' = [k \in Call |-> calls'[k]]
  BY <1>4 DEF UpsertRead, UpsertRefresh, UpsertInsert
<1>5. ASSUME NEW c \in Call, NewSession(c) \/ DbFails(c)
      PROVE  calls' = [k \in Call |-> calls'[k]]
  BY <1>5 DEF NewSession, DbFails
<1>6. ASSUME NEW c \in Call, Enter(c) \/ WriteName(c)
      PROVE  calls' = [k \in Call |-> calls'[k]]
  BY <1>6 DEF Enter, WriteName
<1>7. ASSUME NEW c \in Call, WriteDefault(c)
      PROVE  calls' = [k \in Call |-> calls'[k]]
  BY <1>7 DEF WriteDefault
<1>8. ASSUME NEW r \in Replica, Restart(r)
      PROVE  calls' = [k \in Call |-> calls'[k]]
  BY <1>8 DEF Restart
<1>9. ASSUME NEW b \in Browser, Logout(b) \/ LogoutFails(b)
             \/ \E r \in Replica : StartLogin(b, r)
      PROVE  UNCHANGED calls
  BY <1>9 DEF Logout, LogoutFails, StartLogin
<1>10. ASSUME NEW f \in Flow, NEW r \in Replica,
              CallbackRefused(f, r) \/ ExchangeFails(f, r)
       PROVE  UNCHANGED calls
  BY <1>10 DEF CallbackRefused, ExchangeFails
<1>11. ASSUME NEW r \in Replica, Purge(r)
       PROVE  UNCHANGED calls
  BY <1>11 DEF Purge
<1>12. CASE OtherHandler \/ Tick
  BY <1>1, <1>12 DEF OtherHandler, Tick, loginVars
<1>13. QED
  BY <1>1, <1>2, <1>3, <1>4, <1>5, <1>6, <1>7, <1>8, <1>9, <1>10, <1>11, <1>12 DEF Next

\* A request that goes on changes only its step, and what it has done.
Same(c) ==
    /\ calls[c] \in Requests /\ calls'[c] \in Requests
    /\ calls'[c].who = calls[c].who /\ calls'[c].on = calls[c].on
    /\ calls'[c].sid = calls[c].sid /\ calls'[c].name = calls[c].name
    /\ calls'[c].default = calls[c].default
Proceeds(c, from, to) ==
    /\ Same(c) /\ calls[c].at \in from /\ calls'[c].at \in to
    /\ calls'[c].did = calls[c].did
Further(c) ==
    \/ Proceeds(c, {"read"}, {"refresh", "insert"})
    \/ Proceeds(c, {"refresh", "insert"}, {"session"})
    \/ /\ IsAdmitted(c)
       /\ \/ calls[c].default # Keep /\ Proceeds(c, {"enter"}, {"default"})
          \/ calls[c].default = Keep /\ Proceeds(c, {"enter"}, {"name"})
    \/ /\ Same(c) /\ calls[c].at = "default" /\ calls'[c].at = "name"
       /\ calls[c].name # None /\ calls'[c].did = calls[c].did \cup {"default"}

LEMMA GoesOn ==
  ASSUME LoginInv, [Next]_vars, NEW c \in Call
  PROVE  \/ calls'[c] \in {calls[c], Idle}
         \/ IsIdle(c) /\ Begins(c)
         \/ ~IsIdle(c) /\ Further(c)
<1>0. Moves(c)
  BY StepMoves
<1>1. ASSUME NEW from, NEW to \in LoginSteps \cup SettingsSteps,
             Goes(c, from, to), from # "idle"
      PROVE  Proceeds(c, {from}, {to}) /\ ~IsIdle(c)
  <2>1. calls[c] \in Requests
    BY <1>1 DEF LoginInv, LoginTypeOK, Goes, Idle
  <2>2. calls'[c] \in Requests
    BY <1>1, <2>1 DEF Goes, Requests
  <2>3. Same(c) /\ calls'[c].did = calls[c].did /\ calls'[c].at = to
    BY <1>1, <2>1, <2>2 DEF Goes, Same, Requests
  <2>4. QED
    BY <1>1, <2>3 DEF Goes, Proceeds, IsIdle
<1>2. CASE \/ Goes(c, "read", "refresh") \/ Goes(c, "read", "insert")
           \/ Goes(c, "refresh", "session") \/ Goes(c, "insert", "session")
  <2>1. /\ Goes(c, "read", "refresh") => Proceeds(c, {"read"}, {"refresh"}) /\ ~IsIdle(c)
        /\ Goes(c, "read", "insert") => Proceeds(c, {"read"}, {"insert"}) /\ ~IsIdle(c)
        /\ Goes(c, "refresh", "session") => Proceeds(c, {"refresh"}, {"session"}) /\ ~IsIdle(c)
        /\ Goes(c, "insert", "session") => Proceeds(c, {"insert"}, {"session"}) /\ ~IsIdle(c)
    <3>1. {"refresh", "insert", "session"} \subseteq LoginSteps \cup SettingsSteps
      BY DEF LoginSteps
    <3>2. QED
      BY <1>1, <3>1
  <2>2. QED
    BY <1>2, <2>1 DEF Further, Proceeds
<1>3. CASE IsAdmitted(c) /\ Goes(c, "enter", FirstWrite(c))
  <2>1. /\ Goes(c, "enter", "default") => Proceeds(c, {"enter"}, {"default"}) /\ ~IsIdle(c)
        /\ Goes(c, "enter", "name") => Proceeds(c, {"enter"}, {"name"}) /\ ~IsIdle(c)
    BY <1>1 DEF SettingsSteps
  <2>2. CASE calls[c].default # Keep
    BY <1>3, <2>1, <2>2 DEF Further, FirstWrite
  <2>3. CASE calls[c].default = Keep
    BY <1>3, <2>1, <2>3 DEF Further, FirstWrite
  <2>4. QED
    BY <2>2, <2>3
<1>4. CASE /\ calls[c].at = "default" /\ calls[c].name # None
           /\ calls'[c] = [calls[c] EXCEPT !.at = "name", !.did = @ \cup {"default"}]
  <2>1. calls[c] \in Requests
    BY <1>4 DEF LoginInv, LoginTypeOK, Idle
  <2>2. calls'[c] \in Requests
    BY <1>4, <2>1 DEF Requests, SettingsSteps
  <2>3. QED
    BY <1>4, <2>1, <2>2 DEF Further, Same, Requests, IsIdle
<1>5. QED
  BY <1>0, <1>2, <1>3, <1>4 DEF Moves

\* Every form a step can give a request is one of the types.
LEMMA CallTypes ==
  ASSUME LoginInv, [Next]_vars, NEW c \in Call
  PROVE  calls'[c] \in Requests \cup {Idle}
<1>0. calls[c] \in Requests \cup {Idle}
  BY DEF LoginInv, LoginTypeOK
<1>2. CASE Begins(c)
  <2>1. ASSUME NEW f \in Flow, NEW r \in Replica, NEW n \in Claims, Out(f),
               calls'[c] = [Idle EXCEPT !.at = "read", !.who = flows[f].who,
                                        !.on = r, !.name = n]
        PROVE  calls'[c] \in Requests
    <3>1. flows[f].who \in Browser /\ n \in Name
      BY <2>1, InputsAssumption DEF LoginInv, LoginTypeOK, Out, Flows
    <3>2. QED
      BY <2>1, <3>1 DEF Idle, Requests, LoginSteps
  <2>2. ASSUME NEW b \in Browser, NEW r \in Replica, NEW w \in Wishes,
               cookie[b] # None,
               calls'[c] = [Idle EXCEPT !.at = "enter", !.who = b, !.on = r,
                               !.sid = cookie[b], !.name = w[1], !.default = w[2]]
        PROVE  calls'[c] \in Requests
    <3>1. cookie[b] \in Sid /\ w[1] \in Name \cup {None}
          /\ w[2] \in RowId \cup {None, Keep}
      BY <2>2, InputsAssumption DEF LoginInv, LoginTypeOK
    <3>2. QED
      BY <2>2, <3>1 DEF Idle, Requests, SettingsSteps
  <2>3. QED
    BY <1>2, <2>1, <2>2 DEF Begins
<1>3. QED
  BY <1>0, <1>2, GoesOn DEF Further, Proceeds, Same

LEMMA CallsOKNext ==
  ASSUME LoginInv, [Next]_vars
  PROVE  CallsOK'
<1> SUFFICES ASSUME NEW c \in Call
    PROVE  /\ calls'[c].at = "enter" =>
                 /\ calls'[c].sid \in Sid
                 /\ calls'[c].default = Keep => calls'[c].name # None
           /\ calls'[c].at = "default" => calls'[c].default # Keep
           /\ calls'[c].at \in LoginSteps \cup {"name"} => calls'[c].name # None
           /\ calls'[c].at \in {"enter", "default"} => calls'[c].did = {}
           /\ calls'[c].at = "name" =>
                 calls'[c].default = Keep \/ "default" \in calls'[c].did
  BY DEF CallsOK
<1>0. calls[c] \in Requests \cup {Idle}
  BY DEF LoginInv, LoginTypeOK
<1>2. ASSUME NEW f \in Flow, NEW r \in Replica, NEW n \in Claims,
             calls'[c] = [Idle EXCEPT !.at = "read", !.who = flows[f].who,
                                      !.on = r, !.name = n]
      PROVE  calls'[c].at = "read" /\ calls'[c].name # None
  BY <1>2, InputsAssumption, LoginNoneAssumption DEF Idle
<1>3. ASSUME NEW b \in Browser, NEW r \in Replica, NEW w \in Wishes, cookie[b] # None,
             calls'[c] = [Idle EXCEPT !.at = "enter", !.who = b, !.on = r,
                             !.sid = cookie[b], !.name = w[1], !.default = w[2]]
      PROVE  /\ calls'[c].at = "enter" /\ calls'[c].sid \in Sid /\ calls'[c].did = {}
             /\ calls'[c].default = Keep => calls'[c].name # None
  <2>1. cookie[b] \in Sid
    BY <1>3 DEF LoginInv, LoginTypeOK
  <2>2. w[2] = Keep => w[1] # None
    BY InputsAssumption
  <2>3. QED
    BY <1>3, <2>1, <2>2 DEF Idle
<1>4. CASE Begins(c)
  <2>1. \/ calls'[c].at = "read" /\ calls'[c].name # None
        \/ /\ calls'[c].at = "enter" /\ calls'[c].sid \in Sid /\ calls'[c].did = {}
           /\ calls'[c].default = Keep => calls'[c].name # None
    BY <1>2, <1>3, <1>4 DEF Begins
  <2>2. QED
    BY <2>1 DEF LoginSteps
<1>5. CASE calls'[c] \in {calls[c], Idle}
  BY <1>5 DEF LoginInv, CallsOK, Idle, LoginSteps
<1>6. CASE ~IsIdle(c) /\ Further(c)
  BY <1>6 DEF LoginInv, CallsOK, Further, Proceeds, Same, LoginSteps
<1>7. QED
  BY <1>4, <1>5, <1>6, GoesOn

\* Whoever logs in after a step did so before it, or is just back with the
\* flow its cookie is of.
LEMMA LoggingInStep ==
  ASSUME LoginInv, [Next]_vars, NEW b \in Browser, LoggingIn(b)'
  PROVE  \/ LoggingIn(b)
         \/ \E f \in Flow : /\ Out(f) /\ flows'[f] = None
                             /\ flows[f].who = b /\ jar[b] # None /\ jar[b].flow = f
<1>1. PICK c \in Call : calls'[c].at \in LoginSteps /\ calls'[c].who = b
  BY DEF LoggingIn
<1>2. CASE Begins(c)
  BY <1>1, <1>2 DEF Begins, Idle, LoginSteps, Understood
<1>3. CASE calls'[c] \in {calls[c], Idle} \/ Further(c)
  <2>1. calls[c].at \in LoginSteps /\ calls[c].who = b
    BY <1>1, <1>3 DEF Further, Proceeds, Same, Idle, LoginSteps
  <2>2. QED
    BY <2>1 DEF LoggingIn
<1>4. QED
  BY <1>2, <1>3, GoesOn

-----------------------------------------------------------------------------
(* The tables: every step is one statement of the store, or none. *)

\* The steps that touch the tables.
TouchesTables ==
    \/ \E c \in Call : UpsertInsert(c) \/ WriteDefault(c) \/ WriteName(c)
    \/ OtherHandler

LEMMA Tables ==
  ASSUME [Next]_vars
  PROVE  UNCHANGED storeVars \/ TouchesTables
<1>1. ASSUME NEW b \in Browser, Logout(b) \/ LogoutFails(b)
             \/ \E r \in Replica : StartLogin(b, r)
      PROVE  UNCHANGED storeVars
  BY <1>1 DEF Logout, LogoutFails, StartLogin
<1>2. ASSUME NEW f \in Flow, NEW r \in Replica,
             CallbackRefused(f, r) \/ ExchangeFails(f, r)
      PROVE  UNCHANGED storeVars
  BY <1>2 DEF CallbackRefused, ExchangeFails
<1>3. ASSUME NEW c \in Call, NEW r \in Replica,
             \/ \E f \in Flow, n \in Claims : Callback(c, f, r, n)
             \/ \E b \in Browser, w \in Wishes : SendSettings(c, b, r, w[1], w[2])
      PROVE  UNCHANGED storeVars
  BY <1>3 DEF Callback, SendSettings
<1>4. ASSUME NEW c \in Call, \/ UpsertRead(c) \/ UpsertRefresh(c) \/ NewSession(c)
                             \/ Enter(c) \/ DbFails(c)
      PROVE  UNCHANGED storeVars
  BY <1>4 DEF UpsertRead, UpsertRefresh, NewSession, Enter, DbFails
<1>5. ASSUME NEW r \in Replica, Purge(r) \/ Restart(r)
      PROVE  UNCHANGED storeVars
  BY <1>5 DEF Purge, Restart
<1>6. CASE Tick \/ UNCHANGED vars
  BY <1>6 DEF Tick, vars
<1>7. QED
  BY <1>1, <1>2, <1>3, <1>4, <1>5, <1>6 DEF Next, TouchesTables

LEMMA StoreStep ==
  ASSUME LoginInv, [Next]_vars
  PROVE  [StoreNext]_storeVars
<1>1. ASSUME NEW c \in Call, UpsertInsert(c)
      PROVE  [StoreNext]_storeVars
  <2>1. Subject(c) \in User /\ calls[c].name \in Name
    BY <1>1, Facts DEF UpsertInsert, IsIdle, LoginInv, CallsOK, LoginSteps, Requests
  <2>2. InsertUser(Subject(c), calls[c].name) \/ UNCHANGED storeVars
    BY <1>1 DEF UpsertInsert
  <2>3. QED
    BY <2>1, <2>2 DEF StoreNext
<1>2. ASSUME NEW c \in Call, WriteDefault(c)
      PROVE  [StoreNext]_storeVars
  <2>1. Subject(c) \in User
    BY <1>2, Facts DEF WriteDefault, IsIdle
  <2>2. \/ UNCHANGED storeVars \/ ClearDefaultGroup(Subject(c))
        \/ SetDefaultGroup(Subject(c), calls[c].default)
    BY <1>2 DEF WriteDefault
  <2>3. SetDefaultGroup(Subject(c), calls[c].default) => calls[c].default \in RowId
    BY DEF SetDefaultGroup, CanSetDefault, RowsOf
  <2>4. QED
    BY <2>1, <2>2, <2>3 DEF StoreNext
<1>3. ASSUME NEW c \in Call, WriteName(c)
      PROVE  [StoreNext]_storeVars
  <2>1. Subject(c) \in User /\ calls[c].name \in Name
    BY <1>3, Facts DEF WriteName, IsIdle, LoginInv, CallsOK, Requests
  <2>2. QED
    BY <1>3, <2>1 DEF StoreNext, WriteName
<1>4. CASE OtherHandler
  BY <1>4 DEF OtherHandler, StoreNext
<1>5. QED
  BY <1>1, <1>2, <1>3, <1>4, Tables DEF TouchesTables

LEMMA StoreKept ==
  ASSUME LoginInv, [Next]_vars
  PROVE  StoreInv'
  BY StoreStep, NextInv DEF LoginInv

LEMMA SettingsNext ==
  ASSUME LoginInv, [Next]_vars
  PROVE  SettingsStep
<1> SUFFICES ASSUME NEW u \in User, HasUser(u), users'[u] # users[u]
    PROVE \/ \E c \in Call : /\ calls[c].at \in {"default", "name"} /\ Subject(c) = u
                             /\ users'[u] \in {[users[u] EXCEPT !.name = calls[c].name],
                                               [users[u] EXCEPT !.default = calls[c].default]}
          \/ /\ users'[u] = [users[u] EXCEPT !.default = None]
             /\ rows'[users[u].default] = None
  BY DEF SettingsStep
<1> USE DEF LoginInv, StoreInv, StoreTypeOK
<1>1. CASE UNCHANGED storeVars
  BY <1>1 DEF storeVars
<1>2. ASSUME NEW c \in Call, UpsertInsert(c)
      PROVE  FALSE
  BY <1>2 DEF UpsertInsert, InsertUser, storeVars
<1>3. ASSUME NEW c \in Call, WriteDefault(c)
      PROVE  /\ calls[c].at = "default" /\ Subject(c) = u
             /\ users'[u] = [users[u] EXCEPT !.default = calls[c].default]
  BY <1>3 DEF WriteDefault, ClearDefaultGroup, SetDefaultGroup, storeVars
<1>4. ASSUME NEW c \in Call, WriteName(c)
      PROVE  /\ calls[c].at = "name" /\ Subject(c) = u
             /\ users'[u] = [users[u] EXCEPT !.name = calls[c].name]
  BY <1>4 DEF WriteName, SetDisplayName
<1>5. CASE OtherHandler
  <2>1. ASSUME NEW v \in User, NEW id \in RowId, DeleteGroup(v, id)
        PROVE  /\ users'[u] = [users[u] EXCEPT !.default = None]
               /\ rows'[users[u].default] = None
    <3>1. /\ users' = DefaultsWithout(id) /\ rows'[id] = None
      BY <2>1 DEF DeleteGroup
    <3>2. users[u].default = id /\ users'[u] = [users[u] EXCEPT !.default = None]
      BY <3>1 DEF DefaultsWithout
    <3>3. QED
      BY <3>1, <3>2
  <2>2. ASSUME NEW v \in User, NEW b \in Instance, NEW g \in Gid, NEW a \in Alias,
               NEW p \in Pin, NEW id \in RowId, InsertGroup(v, b, g, a, p, id)
        PROVE  FALSE
    BY <2>2 DEF InsertGroup
  <2>3. QED
    BY <1>5, <2>1, <2>2 DEF OtherHandler
<1>6. QED
  BY <1>1, <1>2, <1>3, <1>4, <1>5, Tables DEF TouchesTables

-----------------------------------------------------------------------------
(* Sessions and the browsers' session cookies. *)

LEMMA SessionSteps ==
  ASSUME [Next]_vars
  PROVE  \/ UNCHANGED <<sessions, made, cookie, ended>>
         \/ \E c \in Call : NewSession(c)
         \/ \E b \in Browser : Logout(b) \/ LogoutFails(b)
         \/ \E r \in Replica : Purge(r)
<1>1. ASSUME NEW b \in Browser, NEW r \in Replica, StartLogin(b, r)
      PROVE  UNCHANGED <<sessions, made, cookie, ended>>
  BY <1>1 DEF StartLogin
<1>2. ASSUME NEW f \in Flow, NEW r \in Replica,
             CallbackRefused(f, r) \/ ExchangeFails(f, r)
      PROVE  UNCHANGED <<sessions, made, cookie, ended>>
  BY <1>2 DEF CallbackRefused, ExchangeFails
<1>3. ASSUME NEW c \in Call, NEW r \in Replica,
             \/ \E f \in Flow, n \in Claims : Callback(c, f, r, n)
             \/ \E b \in Browser, w \in Wishes : SendSettings(c, b, r, w[1], w[2])
      PROVE  UNCHANGED <<sessions, made, cookie, ended>>
  BY <1>3 DEF Callback, SendSettings
<1>4. ASSUME NEW c \in Call, \/ UpsertRead(c) \/ UpsertRefresh(c) \/ UpsertInsert(c)
                             \/ Enter(c) \/ DbFails(c) \/ WriteDefault(c) \/ WriteName(c)
      PROVE  UNCHANGED <<sessions, made, cookie, ended>>
  BY <1>4 DEF UpsertRead, UpsertRefresh, UpsertInsert, Enter, DbFails, WriteDefault, WriteName
<1>5. ASSUME NEW r \in Replica, Restart(r)
      PROVE  UNCHANGED <<sessions, made, cookie, ended>>
  BY <1>5 DEF Restart
<1>6. CASE OtherHandler \/ Tick \/ UNCHANGED vars
  BY <1>6 DEF OtherHandler, Tick, vars, loginVars
<1>7. QED
  BY <1>1, <1>2, <1>3, <1>4, <1>5, <1>6 DEF Next

\* The row a new session gets.
LEMMA NewSessionRow ==
  ASSUME LoginInv, NEW c \in Call, NewSession(c)
  PROVE  /\ made' \in Sid /\ sessions'[made'] \in Sessions /\ sessions'[made'] # None
         /\ sessions'[made'].expires \in
               sessions'[made'].born + TTL .. sessions'[made'].born + TTL + Skew
         /\ \A s \in Sid : s # made' => sessions'[s] = sessions[s]
         /\ sessions' \in [Sid -> Sessions \cup {None}]
         /\ calls[c].who \in Browser /\ made' = made + 1
         /\ cookie' = [cookie EXCEPT ![calls[c].who] = made']
         /\ UNCHANGED ended
<1>1. /\ made < MaxSessions /\ made' = made + 1
      /\ sessions' = [sessions EXCEPT ![made'] =
            [user |-> Subject(c), born |-> now, expires |-> Clock(calls[c].on) + TTL]]
      /\ cookie' = [cookie EXCEPT ![calls[c].who] = made'] /\ UNCHANGED ended
      /\ ~IsIdle(c)
  BY DEF NewSession, IsIdle
<1>2. calls[c].on \in Replica /\ Subject(c) \in User /\ calls[c].who \in Browser
  BY <1>1, Facts
<1>3. /\ now \in Nat /\ Clock(calls[c].on) \in Nat /\ now <= Clock(calls[c].on)
      /\ Clock(calls[c].on) <= now + Skew /\ TTL \in Nat /\ Skew \in Nat
  BY <1>2, ClockFacts, ClockAssumption
<1>4. made' \in Sid
  BY <1>1, BoundsAssumption DEF LoginInv, LoginTypeOK, Sid
<1>5. sessions'[made'] = [user |-> Subject(c), born |-> now,
                          expires |-> Clock(calls[c].on) + TTL]
  BY <1>1, <1>4 DEF LoginInv, LoginTypeOK
<1>6. sessions'[made'] \in Sessions
  BY <1>2, <1>3, <1>5 DEF Sessions
<1>7. sessions'[made'].expires \in
         sessions'[made'].born + TTL .. sessions'[made'].born + TTL + Skew
  BY <1>3, <1>5
<1>8. QED
  BY <1>1, <1>2, <1>4, <1>5, <1>6, <1>7, LoginNoneAssumption DEF LoginInv, LoginTypeOK

SessionTypes ==
    /\ made \in 0 .. MaxSessions
    /\ sessions \in [Sid -> Sessions \cup {None}]
    /\ cookie \in [Browser -> Sid \cup {None}]
    /\ ended \in SUBSET Sid

LEMMA SessionsNext ==
  ASSUME LoginInv, [Next]_vars
  PROVE  SessionTypes' /\ SessionsOK' /\ EndedOK'
<1> USE DEF LoginInv, LoginTypeOK
<1>1. CASE UNCHANGED <<sessions, made, cookie, ended>>
  BY <1>1 DEF SessionTypes, SessionsOK, EndedOK
<1>2. ASSUME NEW c \in Call, NewSession(c)
      PROVE  SessionTypes' /\ SessionsOK' /\ EndedOK'
  <2>0. /\ made' \in Sid /\ made' = made + 1
        /\ sessions' \in [Sid -> Sessions \cup {None}]
        /\ \A s \in Sid : s # made' => sessions'[s] = sessions[s]
        /\ calls[c].who \in Browser
        /\ cookie' = [cookie EXCEPT ![calls[c].who] = made'] /\ UNCHANGED ended
    BY <1>2, NewSessionRow
  <2>1. SessionTypes'
    <3>1. made' \in 0 .. MaxSessions
      BY <2>0, BoundsAssumption DEF Sid
    <3>2. QED
      BY <2>0, <3>1 DEF SessionTypes
  <2>2. SessionsOK'
    BY <1>2, NewSessionRow DEF SessionsOK
  <2>3. EndedOK'
    <3>1. \A b \in Browser : cookie'[b] = cookie[b] \/ cookie'[b] = made'
      BY <2>0
    <3>2. \A b \in Browser : cookie'[b] # None => cookie'[b] <= made'
      BY <2>0, <3>1, LoginNoneAssumption DEF EndedOK, Sid
    <3>3. \A s \in ended : s <= made' /\ s # made' /\ sessions'[s] = None
      BY <2>0 DEF EndedOK, Sid
    <3>4. QED
      BY <2>0, <3>2, <3>3 DEF EndedOK
  <2>4. QED
    BY <2>1, <2>2, <2>3
<1>3. ASSUME NEW b \in Browser, Logout(b) \/ LogoutFails(b)
      PROVE  SessionTypes' /\ SessionsOK' /\ EndedOK'
  <2>1. /\ cookie[b] \in Sid /\ UNCHANGED made
        /\ cookie' = [cookie EXCEPT ![b] = None]
        /\ \/ UNCHANGED <<sessions, ended>>
           \/ /\ sessions' = [sessions EXCEPT ![cookie[b]] = None]
              /\ ended' = ended \cup {cookie[b]}
    BY <1>3 DEF Logout, LogoutFails
  <2>2. SessionTypes'
    BY <2>1 DEF SessionTypes
  <2>3. SessionsOK'
    BY <2>1 DEF SessionsOK
  <2>4. EndedOK'
    <3>1. cookie[b] <= made /\ cookie[b] \in Nat /\ cookie[b] # None
      BY <2>1, LoginNoneAssumption DEF EndedOK, Sid
    <3>2. \A s \in ended' : s <= made /\ sessions'[s] = None
      BY <2>1, <3>1 DEF EndedOK
    <3>3. \A k \in Browser : cookie'[k] # None => cookie'[k] <= made
      BY <2>1 DEF EndedOK
    <3>4. QED
      BY <2>1, <3>2, <3>3 DEF EndedOK
  <2>5. QED
    BY <2>2, <2>3, <2>4
<1>4. ASSUME NEW r \in Replica, Purge(r)
      PROVE  SessionTypes' /\ SessionsOK' /\ EndedOK'
  BY <1>4 DEF Purge, SessionTypes, SessionsOK, EndedOK
<1>5. QED
  BY <1>1, <1>2, <1>3, <1>4, SessionSteps

LEMMA KeptNext ==
  ASSUME LoginInv, [Next]_vars, NEW s \in Sid,
         sessions[s] # None, sessions'[s] = None
  PROVE  s \in ended' \/ now + Skew >= sessions[s].born + TTL
<1> USE DEF LoginInv, LoginTypeOK
<1>1. ASSUME NEW b \in Browser, Logout(b) \/ LogoutFails(b)
      PROVE  s \in ended'
  BY <1>1 DEF Logout, LogoutFails
<1>2. ASSUME NEW r \in Replica, Purge(r)
      PROVE  now + Skew >= sessions[s].born + TTL
  <2>1. sessions[s].expires <= Clock(r)
    BY <1>2 DEF Purge, Expired
  <2>2. /\ sessions[s] \in Sessions
        /\ sessions[s].expires \in sessions[s].born + TTL .. sessions[s].born + TTL + Skew
    BY DEF SessionsOK
  <2>3. /\ now \in Nat /\ Clock(r) \in Nat /\ Clock(r) <= now + Skew
        /\ TTL \in Nat /\ Skew \in Nat
    BY ClockFacts, ClockAssumption
  <2>4. QED
    BY <2>1, <2>2, <2>3 DEF Sessions
<1>3. ASSUME NEW c \in Call, NewSession(c)
      PROVE  FALSE
  BY <1>3, NewSessionRow
<1>4. QED
  BY <1>1, <1>2, <1>3, SessionSteps

LEMMA AdmittedNext ==
  ASSUME LoginInv, [Next]_vars, NEW c \in Call, Admitted(c)
  PROVE  calls[c].sid \notin ended /\ now < sessions[calls[c].sid].born + TTL + Skew
<1>1. calls[c].at = "enter" /\ calls'[c].at \in {"default", "name"}
  BY DEF Admitted
<1>2. IsAdmitted(c) /\ ~IsIdle(c)
  BY <1>1, GoesOn DEF Further, Proceeds, Idle, IsIdle
<1>3. calls[c].sid \in Sid /\ calls[c].on \in Replica
  BY <1>1, <1>2, Facts DEF LoginInv, CallsOK
<1>4. /\ sessions[calls[c].sid] # None
      /\ sessions[calls[c].sid].expires > Clock(calls[c].on)
  BY <1>2 DEF IsAdmitted, Live
<1>5. /\ sessions[calls[c].sid] \in Sessions
      /\ sessions[calls[c].sid].expires \in sessions[calls[c].sid].born + TTL ..
                                            sessions[calls[c].sid].born + TTL + Skew
  BY <1>3, <1>4 DEF LoginInv, LoginTypeOK, SessionsOK
<1>6. /\ now \in Nat /\ Clock(calls[c].on) \in Nat /\ now <= Clock(calls[c].on)
      /\ TTL \in Nat /\ Skew \in Nat
  BY <1>3, ClockFacts, ClockAssumption
<1>7. calls[c].sid \notin ended
  BY <1>4 DEF LoginInv, EndedOK
<1>8. QED
  BY <1>4, <1>5, <1>6, <1>7 DEF Sessions

-----------------------------------------------------------------------------
(* Flows and the browsers' state cookies. *)

\* A login's request ends, and its browser's state cookie goes with it.
LoginOver(c) ==
    /\ calls[c].at \in LoginSteps
    /\ jar' = [jar EXCEPT ![calls[c].who] = None]
    /\ UNCHANGED <<now, flows, begun>>
\* A flow comes back.
Returns(f) ==
    /\ Back(f)
    /\ \/ UNCHANGED jar
       \/ /\ jar[flows[f].who] # None /\ jar[flows[f].who].flow = f
          /\ jar' = [jar EXCEPT ![flows[f].who] = None]
    /\ UNCHANGED <<now, begun>>

LEMMA FlowSteps ==
  ASSUME [Next]_vars
  PROVE  \/ UNCHANGED <<now, flows, begun, jar>>
         \/ \E b \in Browser, r \in Replica : StartLogin(b, r)
         \/ \E f \in Flow : Returns(f)
         \/ \E c \in Call : LoginOver(c)
         \/ Tick
<1>1. ASSUME NEW b \in Browser, Logout(b) \/ LogoutFails(b)
      PROVE  UNCHANGED <<now, flows, begun, jar>>
  BY <1>1 DEF Logout, LogoutFails
<1>2. ASSUME NEW f \in Flow, NEW r \in Replica,
             \/ CallbackRefused(f, r) \/ ExchangeFails(f, r)
             \/ \E c \in Call, n \in Claims : Callback(c, f, r, n)
      PROVE  Returns(f)
  BY <1>2 DEF CallbackRefused, ExchangeFails, Callback, Returns, Understood
<1>3. ASSUME NEW c \in Call, NEW b \in Browser, NEW r \in Replica, NEW w \in Wishes,
             SendSettings(c, b, r, w[1], w[2])
      PROVE  UNCHANGED <<now, flows, begun, jar>>
  BY <1>3 DEF SendSettings
<1>4. ASSUME NEW c \in Call, \/ UpsertRead(c) \/ UpsertRefresh(c)
                             \/ Enter(c) \/ WriteDefault(c) \/ WriteName(c)
      PROVE  UNCHANGED <<now, flows, begun, jar>>
  BY <1>4 DEF UpsertRead, UpsertRefresh, Enter, WriteDefault, WriteName
<1>5. ASSUME NEW c \in Call, UpsertInsert(c) \/ NewSession(c) \/ DbFails(c)
      PROVE  LoginOver(c) \/ UNCHANGED <<now, flows, begun, jar>>
  BY <1>5 DEF UpsertInsert, NewSession, DbFails, LoginOver, LoginSteps
<1>6. ASSUME NEW r \in Replica, Purge(r) \/ Restart(r)
      PROVE  UNCHANGED <<now, flows, begun, jar>>
  BY <1>6 DEF Purge, Restart
<1>7. CASE OtherHandler \/ UNCHANGED vars
  BY <1>7 DEF OtherHandler, vars, loginVars
<1>8. QED
  BY <1>1, <1>2, <1>3, <1>4, <1>5, <1>6, <1>7 DEF Next

\* What StartLogin(b, r) leaves behind.
LEMMA StartedFlow ==
  ASSUME LoginInv, NEW b \in Browser, NEW r \in Replica, StartLogin(b, r)
  PROVE  /\ begun' = begun + 1 /\ begun' \in Flow /\ UNCHANGED <<now, calls>>
         /\ flows'[begun'] = [who |-> b, since |-> now, alone |-> ~LoggingIn(b)]
         /\ \A f \in Flow : f # begun' =>
               flows'[f] = IF Out(f) /\ flows[f].who = b
                           THEN [flows[f] EXCEPT !.alone = FALSE] ELSE flows[f]
         /\ jar' = [jar EXCEPT ![b] = [flow |-> begun', key |-> Key(r),
                                       since |-> now, written |-> Clock(r)]]
         /\ flows'[begun'] \in Flows /\ jar'[b] \in Cookies
         /\ flows' \in [Flow -> Flows \cup {None}]
         /\ jar' \in [Browser -> Cookies \cup {None}]
<1> USE DEF LoginInv, LoginTypeOK
<1>1. /\ begun < MaxFlows /\ begun' = begun + 1 /\ UNCHANGED <<now, calls>>
      /\ flows' = [g \in Flow |->
          IF g = begun' THEN [who |-> b, since |-> now, alone |-> ~LoggingIn(b)]
          ELSE IF Out(g) /\ flows[g].who = b
               THEN [flows[g] EXCEPT !.alone = FALSE] ELSE flows[g]]
      /\ jar' = [jar EXCEPT ![b] = [flow |-> begun', key |-> Key(r),
                                    since |-> now, written |-> Clock(r)]]
  BY DEF StartLogin
<1>2. begun' \in Flow
  BY <1>1, BoundsAssumption DEF Flow
<1>3. flows'[begun'] = [who |-> b, since |-> now, alone |-> ~LoggingIn(b)]
  BY <1>1, <1>2
<1>4. flows'[begun'] \in Flows
  <2>1. LoggingIn(b) \in BOOLEAN
    BY DEF LoggingIn
  <2>2. QED
    BY <1>3, <2>1 DEF Flows
<1>5. \A f \in Flow : f # begun' =>
         flows'[f] = IF Out(f) /\ flows[f].who = b
                     THEN [flows[f] EXCEPT !.alone = FALSE] ELSE flows[f]
  BY <1>1
<1>6. \A f \in Flow : f # begun' => flows'[f] \in Flows \cup {None}
  BY <1>5 DEF Flows, Out
<1>7. flows' \in [Flow -> Flows \cup {None}]
  <2>1. flows' = [f \in Flow |-> flows'[f]]
    BY <1>1
  <2>2. QED
    BY <1>4, <1>6, <2>1
<1>8. Key(r) \in {<<>>} \cup (Replica \X Nat)
  BY DEF Key
<1>9. Clock(r) \in Nat /\ now \in Nat
  BY ClockFacts
<1>10. [flow |-> begun', key |-> Key(r), since |-> now, written |-> Clock(r)] \in Cookies
  BY <1>2, <1>8, <1>9 DEF Cookies
<1>11. QED
  BY <1>1, <1>2, <1>3, <1>4, <1>5, <1>7, <1>10

FlowTypes ==
    /\ now \in Nat /\ begun \in 0 .. MaxFlows
    /\ flows \in [Flow -> Flows \cup {None}]
    /\ jar \in [Browser -> Cookies \cup {None}]

LEMMA FlowTypesNext ==
  ASSUME LoginInv, [Next]_vars
  PROVE  FlowTypes' /\ BegunOK'
<1> USE DEF LoginInv, LoginTypeOK
<1>1. CASE UNCHANGED <<now, flows, begun, jar>>
  BY <1>1 DEF FlowTypes, BegunOK, Out
<1>2. ASSUME NEW b \in Browser, NEW r \in Replica, StartLogin(b, r)
      PROVE  FlowTypes' /\ BegunOK'
  <2>1. /\ begun' = begun + 1 /\ begun' \in Flow /\ UNCHANGED now
        /\ \A f \in Flow : f # begun' =>
               flows'[f] = IF Out(f) /\ flows[f].who = b
                           THEN [flows[f] EXCEPT !.alone = FALSE] ELSE flows[f]
        /\ flows' \in [Flow -> Flows \cup {None}]
        /\ jar' \in [Browser -> Cookies \cup {None}]
    BY <1>2, StartedFlow
  <2>2. \A f \in Flow : f # begun' /\ flows'[f] # None => Out(f)
    BY <2>1 DEF Out
  <2>3. FlowTypes'
    BY <2>1, BoundsAssumption DEF FlowTypes, Flow
  <2>4. BegunOK'
    BY <2>1, <2>2 DEF BegunOK, Out, Flow
  <2>5. QED
    BY <2>3, <2>4
<1>3. ASSUME NEW f \in Flow, Returns(f)
      PROVE  FlowTypes' /\ BegunOK'
  BY <1>3 DEF Returns, Back, FlowTypes, BegunOK, Out
<1>4. ASSUME NEW c \in Call, LoginOver(c)
      PROVE  FlowTypes' /\ BegunOK'
  BY <1>4 DEF LoginOver, FlowTypes, BegunOK, Out
<1>5. CASE Tick
  BY <1>5 DEF Tick, FlowTypes, BegunOK, Out
<1>6. QED
  BY <1>1, <1>2, <1>3, <1>4, <1>5, FlowSteps

\* JarOK's two halves for one flow that is out and alone.
Holds(f) ==
    LET k == jar[flows[f].who] IN
    /\ k = None => flows[f].since + CookieTTL <= now
    /\ k # None => /\ k.flow = f /\ (Secret => k.key = <<>>)
                   /\ k.written <= flows[f].since + Skew
                   /\ flows[f].since <= k.written
                   /\ k.since = flows[f].since
Alone(f) == Out(f) /\ flows[f].alone
Clean(f) == ~\E c \in Call : calls[c].at \in LoginSteps /\ calls[c].who = flows[f].who

LEMMA JarHolds ==
  ASSUME JarOK, NEW f \in Flow, Alone(f)
  PROVE  Clean(f) /\ Holds(f)
  BY DEF JarOK, Alone, Holds, Clean, LoggingIn

LEMMA AloneField ==
  ASSUME NEW w, NEW t, NEW x \in BOOLEAN, NEW f,
         f = [who |-> w, since |-> t, alone |-> x], f.alone
  PROVE  x
  OBVIOUS

LEMMA HoldsFlow ==
  ASSUME NEW f \in Flow, Holds(f), jar[flows[f].who] # None
  PROVE  jar[flows[f].who].flow = f
  BY DEF Holds

\* A flow that stays out and alone keeps its browser free of other logins.
LEMMA AloneStill ==
  ASSUME LoginInv, [Next]_vars, NEW f \in Flow, Alone(f), flows'[f] = flows[f]
  PROVE  Clean(f)'
<1>1. PICK b \in Browser : b = flows[f].who
  BY DEF LoginInv, LoginTypeOK, Alone, Out, Flows
<1>2. ~LoggingIn(b) /\ (jar[b] # None => jar[b].flow = f)
  <2>1. Clean(f) /\ Holds(f)
    BY JarHolds DEF LoginInv
  <2>2. QED
    BY <1>1, <2>1, HoldsFlow DEF Clean, LoggingIn
<1>3. ~LoggingIn(b)'
  BY <1>2, LoggingInStep DEF Alone, Out
<1>4. QED
  BY <1>1, <1>3 DEF LoggingIn, Clean

LEMMA JarNext ==
  ASSUME LoginInv, [Next]_vars
  PROVE  JarOK'
<1> USE DEF LoginInv, LoginTypeOK
<1>0. ASSUME \A f \in Flow : Alone(f)' => Clean(f)' /\ Holds(f)'
      PROVE  JarOK'
  BY <1>0 DEF JarOK, Holds, Alone, Clean, LoggingIn
<1>1. ASSUME NEW f \in Flow, Alone(f)', flows'[f] = flows[f],
             jar'[flows[f].who] = jar[flows[f].who], UNCHANGED now
      PROVE  Clean(f)' /\ Holds(f)'
  <2>1. Alone(f)
    BY <1>1 DEF Alone, Out
  <2>2. Holds(f)
    BY <2>1, JarHolds
  <2>3. QED
    BY <1>1, <2>1, <2>2, AloneStill DEF Holds
<1>2. CASE UNCHANGED <<now, flows, begun, jar>>
  BY <1>0, <1>1, <1>2
<1>3. ASSUME NEW b \in Browser, NEW r \in Replica, StartLogin(b, r)
      PROVE  JarOK'
  <2>1. /\ begun' = begun + 1 /\ begun' \in Flow /\ UNCHANGED <<now, calls>>
        /\ flows'[begun'] = [who |-> b, since |-> now, alone |-> ~LoggingIn(b)]
        /\ \A f \in Flow : f # begun' =>
              flows'[f] = IF Out(f) /\ flows[f].who = b
                          THEN [flows[f] EXCEPT !.alone = FALSE] ELSE flows[f]
        /\ jar' = [jar EXCEPT ![b] = [flow |-> begun', key |-> Key(r),
                                      since |-> now, written |-> Clock(r)]]
        /\ jar'[b] \in Cookies
    BY <1>3, StartedFlow
  <2>2. ASSUME NEW f \in Flow, f = begun', Alone(f)'
        PROVE  Clean(f)' /\ Holds(f)'
    <3>1. flows'[f].who = b /\ flows'[f].since = now /\ ~LoggingIn(b)
      <4>1. flows'[f] = [who |-> b, since |-> now, alone |-> ~LoggingIn(b)]
        BY <2>1, <2>2
      <4>2. flows'[f].alone
        BY <2>2 DEF Alone
      <4>3. LoggingIn(b) \in BOOLEAN
        BY DEF LoggingIn
      <4>4. (~LoggingIn(b)) \in BOOLEAN
        BY <4>3
      <4>5. ~LoggingIn(b)
        BY <4>1, <4>2, <4>4, AloneField
      <4>6. QED
        BY <4>1, <4>5
    <3>2. Clean(f)'
      BY <2>1, <3>1 DEF LoggingIn, Clean
    <3>3. /\ jar'[b] # None /\ jar'[b].flow = f /\ jar'[b].key = Key(r)
          /\ jar'[b].since = now /\ jar'[b].written = Clock(r)
      BY <2>1, <2>2, LoginNoneAssumption
    <3>4. now \in Nat /\ Clock(r) \in Nat /\ now <= Clock(r) /\ Clock(r) <= now + Skew
      BY ClockFacts
    <3>5. Secret => Key(r) = <<>>
      BY DEF Key
    <3>6. Holds(f)'
      BY <2>1, <3>1, <3>3, <3>4, <3>5 DEF Holds
    <3>7. QED
      BY <3>2, <3>6
  <2>3. ASSUME NEW f \in Flow, f # begun', Alone(f)'
        PROVE  Clean(f)' /\ Holds(f)'
    <3>1. flows'[f] = flows[f]
      BY <2>1, <2>3 DEF Alone, Out, Flows
    <3>2. Out(f) /\ flows[f].who # b
      <4>1. Out(f) /\ flows'[f].alone /\ flows[f] \in Flows
        BY <2>3, <3>1 DEF Alone, Out
      <4>2. flows[f].who = b => ~flows'[f].alone
        BY <2>1, <2>3, <4>1 DEF Flows
      <4>3. QED
        BY <4>1, <4>2
    <3>3. flows[f].who \in Browser
      BY <3>2 DEF Out, Flows
    <3>4. jar'[flows[f].who] = jar[flows[f].who]
      BY <2>1, <3>2, <3>3
    <3>5. QED
      BY <1>1, <2>1, <2>3, <3>1, <3>4
  <2>4. QED
    BY <1>0, <2>2, <2>3
<1>4. ASSUME NEW g \in Flow, Returns(g)
      PROVE  JarOK'
  <2>1. ASSUME NEW f \in Flow, Alone(f)'
        PROVE  Clean(f)' /\ Holds(f)'
    <3>1. f # g /\ flows'[f] = flows[f]
      BY <1>4, <2>1 DEF Returns, Back, Alone, Out
    <3>2. Alone(f) /\ flows[f].who \in Browser
      BY <2>1, <3>1 DEF Alone, Out, Flows
    <3>3. Holds(f)
      BY <3>2, JarHolds
    <3>4. jar'[flows[f].who] = jar[flows[f].who]
      <4>1. CASE flows[f].who = flows[g].who
        BY <1>4, <3>1, <3>3, <4>1, HoldsFlow DEF Returns
      <4>2. CASE flows[f].who # flows[g].who
        BY <1>4, <3>2, <4>2 DEF Returns
      <4>3. QED
        BY <4>1, <4>2
    <3>5. QED
      BY <1>1, <1>4, <2>1, <3>1, <3>4 DEF Returns
  <2>2. QED
    BY <1>0, <2>1
<1>5. ASSUME NEW c \in Call, LoginOver(c)
      PROVE  JarOK'
  <2>1. ASSUME NEW f \in Flow, Alone(f)'
        PROVE  Clean(f)' /\ Holds(f)'
    <3>1. flows'[f] = flows[f]
      BY <1>5 DEF LoginOver
    <3>2. Alone(f) /\ flows[f].who \in Browser
      BY <2>1, <3>1 DEF Alone, Out, Flows
    <3>3. Clean(f)
      BY <3>2, JarHolds
    <3>4. jar'[flows[f].who] = jar[flows[f].who]
      BY <1>5, <3>2, <3>3 DEF LoginOver, Clean
    <3>5. QED
      BY <1>1, <1>5, <2>1, <3>1, <3>4 DEF LoginOver
  <2>2. QED
    BY <1>0, <2>1
<1>6. CASE Tick
  <2>1. /\ now' = now + 1 /\ UNCHANGED <<flows, calls>>
        /\ jar' = [b \in Browser |->
              IF jar[b] # None /\ jar[b].since + CookieTTL <= now' THEN None ELSE jar[b]]
    BY <1>6 DEF Tick
  <2>2. ASSUME NEW f \in Flow, Alone(f)'
        PROVE  Clean(f)' /\ Holds(f)'
    <3>1. Alone(f) /\ flows[f].who \in Browser /\ flows[f].since \in Nat
      BY <2>1, <2>2 DEF Alone, Out, Flows
    <3>2. Holds(f)
      BY <3>1, JarHolds
    <3>3. \/ jar'[flows[f].who] = jar[flows[f].who]
          \/ jar'[flows[f].who] = None /\ flows[f].since + CookieTTL <= now'
      BY <2>1, <3>1, <3>2 DEF Holds
    <3>4. Holds(f)'
      BY <2>1, <3>1, <3>2, <3>3, ClockAssumption DEF Holds
    <3>5. QED
      BY <2>1, <3>1, <3>4, AloneStill
  <2>3. QED
    BY <1>0, <2>2
<1>7. QED
  BY <1>2, <1>3, <1>4, <1>5, <1>6, FlowSteps

-----------------------------------------------------------------------------
(* The invariant, and what follows from it. *)

LEMMA KeysNext ==
  ASSUME LoginInv, [Next]_vars
  PROVE  keys' \in [Replica -> Nat]
<1>0. keys \in [Replica -> Nat]
  BY DEF LoginInv, LoginTypeOK
<1>1. ASSUME NEW r \in Replica, Restart(r)
      PROVE  keys' \in [Replica -> Nat]
  BY <1>0, <1>1 DEF Restart
<1>2. ASSUME NEW b \in Browser, \/ Logout(b) \/ LogoutFails(b)
                                \/ \E r \in Replica : StartLogin(b, r)
      PROVE  UNCHANGED keys
  BY <1>2 DEF Logout, LogoutFails, StartLogin
<1>3. ASSUME NEW f \in Flow, NEW r \in Replica,
             \/ CallbackRefused(f, r) \/ ExchangeFails(f, r)
             \/ \E c \in Call, n \in Claims : Callback(c, f, r, n)
      PROVE  UNCHANGED keys
  BY <1>3 DEF CallbackRefused, ExchangeFails, Callback
<1>4. ASSUME NEW c \in Call,
             \/ \E b \in Browser, r \in Replica, w \in Wishes :
                   SendSettings(c, b, r, w[1], w[2])
             \/ UpsertRead(c) \/ UpsertRefresh(c) \/ UpsertInsert(c) \/ NewSession(c)
             \/ Enter(c) \/ WriteDefault(c) \/ WriteName(c) \/ DbFails(c)
      PROVE  UNCHANGED keys
  BY <1>4 DEF SendSettings, UpsertRead, UpsertRefresh, UpsertInsert, NewSession,
              Enter, WriteDefault, WriteName, DbFails
<1>5. ASSUME NEW r \in Replica, Purge(r)
      PROVE  UNCHANGED keys
  BY <1>5 DEF Purge
<1>6. CASE OtherHandler \/ Tick \/ UNCHANGED vars
  BY <1>0, <1>6 DEF OtherHandler, Tick, vars
<1>7. QED
  BY <1>0, <1>1, <1>2, <1>3, <1>4, <1>5, <1>6 DEF Next

LEMMA TypesNext ==
  ASSUME LoginInv, [Next]_vars
  PROVE  LoginTypeOK'
<1>1. calls' = [c \in Call |-> calls'[c]]
  <2>1. CASE UNCHANGED vars
    BY <2>1 DEF LoginInv, LoginTypeOK, vars, loginVars
  <2>2. QED
    BY <2>1, CallsFunction
<1>2. calls' \in [Call -> Requests \cup {Idle}]
  BY <1>1, CallTypes
<1>3. StoreTypeOK'
  BY StoreKept DEF StoreInv
<1>4. QED
  BY <1>2, <1>3, KeysNext, SessionsNext, FlowTypesNext
     DEF LoginTypeOK, SessionTypes, FlowTypes, Idle

LEMMA LoginInit == Init => LoginInv
<1> SUFFICES ASSUME Init PROVE LoginInv
  OBVIOUS
<1>1. StoreInv
  BY InitInv DEF Init
<1>2. LoginTypeOK
  BY <1>1, BoundsAssumption DEF Init, LoginTypeOK, StoreInv
<1>3. SessionsOK /\ EndedOK /\ JarOK /\ BegunOK
  BY DEF Init, SessionsOK, EndedOK, JarOK, BegunOK, Out
<1>4. CallsOK
  BY DEF Init, CallsOK, Idle, LoginSteps
<1>5. QED
  BY <1>1, <1>2, <1>3, <1>4 DEF LoginInv

LEMMA LoginInvariance == Spec => []LoginInv
<1>1. LoginInv /\ [Next]_vars => LoginInv'
  BY StoreKept, TypesNext, CallsOKNext, SessionsNext, FlowTypesNext, JarNext
     DEF LoginInv
<1>2. QED
  BY <1>1, LoginInit, PTL DEF Spec

\* Users, groups, sessions, cookies and requests keep their types.
THEOREM LoginTypesHold == Spec => []LoginTypeOK
<1>1. LoginInv => LoginTypeOK
  BY DEF LoginInv
<1>2. QED
  BY <1>1, LoginInvariance, PTL

\* With a state secret any replica understands the callback of a login its
\* browser runs alone and in time, whatever has restarted since it began
\* (stateCookieKeys, stateCookieTTL).
THEOREM LoginAlwaysUnderstood == Spec => []LoginUnderstood
<1>1. LoginInv => LoginUnderstood
  <2> SUFFICES ASSUME LoginInv, Secret, NEW f \in Flow, NEW r \in Replica,
                      Out(f), flows[f].alone, ~Late(f)
               PROVE  Understood(f, r)
    BY DEF LoginUnderstood
  <2>1. Alone(f) /\ flows[f] \in Flows
    BY DEF Alone, Out, LoginInv, LoginTypeOK
  <2>2. Holds(f)
    BY <2>1, JarHolds DEF LoginInv
  <2>3. /\ now \in Nat /\ Clock(r) \in Nat /\ now <= Clock(r) /\ Clock(r) <= now + Skew
        /\ CookieTTL \in Nat /\ Skew \in Nat
    BY ClockFacts, ClockAssumption
  <2>4. now + Skew < flows[f].since + CookieTTL
    BY <2>1, <2>3 DEF Late, Flows
  <2>5. jar[flows[f].who] # None
    BY <2>1, <2>2, <2>3, <2>4 DEF Holds, Flows
  <2>6. jar[flows[f].who] \in Cookies
    BY <2>1, <2>5 DEF LoginInv, LoginTypeOK, Flows
  <2>7. Clock(r) - jar[flows[f].who].written <= CookieTTL
    BY <2>1, <2>2, <2>3, <2>4, <2>5, <2>6 DEF Holds, Flows, Cookies
  <2>8. jar[flows[f].who].key = Key(r) /\ jar[flows[f].who].flow = f
    BY <2>2, <2>5 DEF Holds, Key
  <2>9. QED
    BY <2>5, <2>7, <2>8 DEF Understood
<1>2. QED
  BY <1>1, LoginInvariance, PTL

\* A login never changes the name or the default group the user chose: these
\* change by the user's own admitted request or with the group (UpsertUser's
\* two branches, UpdateMe, the foreign key's ON DELETE SET NULL).
THEOREM SettingsAlwaysKept == Spec => SettingsKept
<1>1. LoginInv /\ [Next]_vars => [SettingsStep]_vars
  BY SettingsNext
<1>2. QED
  BY <1>1, LoginInvariance, PTL DEF Spec, SettingsKept

\* No request is admitted on a session that a logout deleted or that is older
\* than its lifetime and the clocks' difference (RequireSession, GetSession).
THEOREM RequestsAdmittedRightly == Spec => AdmittedRightly
<1> DEFINE Step == \A c \in Call : Admitted(c) =>
                      /\ calls[c].sid \notin ended
                      /\ now < sessions[calls[c].sid].born + TTL + Skew
<1>1. LoginInv /\ [Next]_vars => [Step]_vars
  BY AdmittedNext
<1>2. QED
  BY <1>1, LoginInvariance, PTL DEF Spec, AdmittedRightly

\* A session goes only by its own logout or when its lifetime is over up to the
\* clocks' difference (DeleteSession, DeleteExpiredSessions).
THEOREM SessionsKeptInTime == Spec => KeptInTime
<1> DEFINE Step == \A s \in Sid :
                      sessions[s] # None /\ sessions'[s] = None =>
                         s \in ended' \/ now + Skew >= sessions[s].born + TTL
<1>1. LoginInv /\ [Next]_vars => [Step]_vars
  BY KeptNext
<1>2. QED
  BY <1>1, LoginInvariance, PTL DEF Spec, KeptInTime

\* A settings request refused for its default group has written nothing, since
\* that group is written before the name (UpdateMe).
THEOREM RefusedChangeNothing == Spec => RefusedChangesNothing
<1> DEFINE Step == \A c \in Call :
                      calls[c].at = "default" /\ MissingDefault(c) /\ calls'[c] = Idle
                         => calls[c].did = {}
<1>1. LoginInv /\ [Next]_vars => [Step]_vars
  BY DEF LoginInv, CallsOK
<1>2. QED
  BY <1>1, LoginInvariance, PTL DEF Spec, RefusedChangesNothing

\* Logins and settings requests, interleaved in any order, use the tables as
\* the store allows: the refinement of StoreSpec.
THEOREM LoginImplementsStore == Spec => StoreSpec
<1>1. Init => StoreInit
  BY DEF Init
<1>2. LoginInv /\ [Next]_vars => [StoreNext]_storeVars
  BY StoreStep
<1>3. QED
  BY <1>1, <1>2, LoginInvariance, PTL DEF Spec, StoreSpec

\* And so they keep the access contract of module Access.
THEOREM LoginImplementsAccess == Spec => AccessSpec
  BY LoginImplementsStore, StoreImplementsAccess
=============================================================================
