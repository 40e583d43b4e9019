------------------------------- MODULE Login -------------------------------
(***************************************************************************)
(* Signing in to the config page: internal/handlers/auth.go, the sessions  *)
(* and UpsertUser of internal/store, the settings handler UpdateMe, and    *)
(* the hourly purge of cmd/spliit-mcp, on several replicas over one        *)
(* database whose clocks disagree and which restart at any time.           *)
(*                                                                         *)
(* A flow is one login: the OAuth state handed to the provider and kept in *)
(* the browser's state cookie, of which a browser has one however many     *)
(* tabs log in.  A call is one request being handled: `at' names the step  *)
(* it takes next.  One action is one SQL statement or one exchange with    *)
(* the provider, with the decision taken on its result.                    *)
(***************************************************************************)
EXTENDS Store, Integers, FiniteSets

CONSTANTS Browser, Owner,    \* browsers, and who uses each
          Replica, Offset,   \* processes, and how far each clock is ahead
          Skew,              \* the most two of those clocks differ by
          Call,              \* requests being handled at one time
          Keep,              \* a settings field left out of the request
          Claims,            \* names the provider states
          Wishes,            \* settings requests, as name and default group
          Secret,            \* oidc.state_secret is configured
          TTL, CookieTTL,    \* lifetimes of a session and a state cookie
          MaxFlows, MaxSessions, MaxSettings, MaxRestarts, Horizon \* bounds

ASSUME OwnerAssumption == Owner \in [Browser -> User]
ASSUME ClockAssumption ==
    /\ {TTL, CookieTTL, Skew} \subseteq Nat
    /\ Offset \in [Replica -> 0 .. Skew]
ASSUME InputsAssumption ==
    /\ Claims \subseteq Name
    /\ Wishes \subseteq ((Name \cup {None}) \X (RowId \cup {None, Keep})) \ {<<None, Keep>>}
ASSUME BoundsAssumption ==
    {MaxFlows, MaxSessions, MaxSettings, MaxRestarts, Horizon} \subseteq Nat
Flow == 1 .. MaxFlows
Sid  == 1 .. MaxSessions

LoginSteps    == {"read", "refresh", "insert", "session"}
SettingsSteps == {"enter", "default", "name"}

Cookies  == [flow : Flow, key : {<<>>} \cup (Replica \X Nat),
             since : Nat, written : Nat]
Flows    == [who : Browser, since : Nat, alone : BOOLEAN]
Sessions == [user : User, born : Nat, expires : Nat]
Requests == [at : LoginSteps \cup SettingsSteps, who : Browser, on : Replica,
             sid : Sid \cup {None}, name : Name \cup {None},
             default : RowId \cup {None, Keep}, did : SUBSET {"name", "default"}]

ASSUME LoginNoneAssumption ==
    /\ None \notin Nat \cup Name \cup {Keep} /\ Keep \notin RowId
    /\ None \notin Cookies /\ None \notin Flows /\ None \notin Sessions

VARIABLES now,       \* true time
          keys,      \* [Replica -> Nat]: the cookie keys each process drew
          flows,     \* [Flow -> a login that has not come back yet, or None]
          begun,     \* logins begun so far; state values do not repeat
          jar,       \* [Browser -> its state cookie, or None]
          sessions,  \* [Sid -> a row of the sessions table, or None]
          made,      \* sessions inserted so far; session IDs do not repeat
          cookie,    \* [Browser -> its session cookie, or None]
          calls,     \* [Call -> the request being handled]
          ended      \* sessions whose row a logout deleted

loginVars == <<flows, begun, jar, sessions, made, cookie, calls, ended>>
vars == <<now, keys, loginVars, storeVars>>

Clock(r) == now + Offset[r]

Key_PerProcess(r) == <<r, keys[r]>>
\* stateCookieKeys: derived from the secret, or random in each process.
Key(r) == IF Secret THEN <<>> ELSE <<r, keys[r]>>

Idle == [at |-> "idle", who |-> None, on |-> None, sid |-> None,
         name |-> None, default |-> Keep, did |-> {}]
IsIdle(c) == calls[c].at = "idle"

Out(f) == flows[f] # None
LoggingIn(b)  == \E c \in Call : calls[c].at \in LoginSteps /\ calls[c].who = b
Subject(c)    == Owner[calls[c].who]

Init ==
    /\ StoreInit
    /\ now = 0
    /\ keys = [r \in Replica |-> 0]
    /\ flows = [f \in Flow |-> None]
    /\ begun = 0
    /\ jar = [b \in Browser |-> None]
    /\ sessions = [s \in Sid |-> None]
    /\ made = 0
    /\ cookie = [b \in Browser |-> None]
    /\ calls = [c \in Call |-> Idle]
    /\ ended = {}

Goto(c, at) == calls' = [calls EXCEPT ![c].at = at]
End(c)      == calls' = [calls EXCEPT ![c] = Idle]

-----------------------------------------------------------------------------
(* The redirect to the provider and back (the OIDC library's handlers).    *)

\* LoginHandler, on the public host: a browser elsewhere is sent there first.
\* A second login of the browser overwrites the first one's cookie; `alone'
\* remembers whether a login was spared that, and spared the answer to an
\* earlier one, which deletes whatever state cookie the browser then has.
StartLogin(b, r) ==
    /\ begun < MaxFlows
    /\ begun' = begun + 1
    /\ flows' = [g \in Flow |->
          IF g = begun' THEN [who |-> b, since |-> now, alone |-> ~LoggingIn(b)]
          ELSE IF Out(g) /\ flows[g].who = b
               THEN [flows[g] EXCEPT !.alone = FALSE] ELSE flows[g]]
    /\ jar' = [jar EXCEPT ![b] = [flow |-> begun', key |-> Key(r),
                                  since |-> now, written |-> Clock(r)]]
    /\ UNCHANGED <<now, keys, sessions, made, cookie, calls, ended, storeVars>>

\* The browser has a cookie, the replica can read it and thinks it fresh, and
\* it is the one of this flow.
Understood(f, r) ==
    LET k == jar[flows[f].who] IN
    /\ k # None
    /\ k.key = Key(r)
    /\ Clock(r) - k.written <= CookieTTL
    /\ k.flow = f

\* A code is exchanged once, and a login that failed is begun anew.
Back(f) == Out(f) /\ flows' = [flows EXCEPT ![f] = None]

CallbackRefused(f, r) ==
    /\ Back(f) /\ ~Understood(f, r)
    /\ UNCHANGED <<now, keys, begun, jar, sessions, made, cookie, calls, ended, storeVars>>

\* The exchange succeeds; n is the name the provider states.
Callback(c, f, r, n) ==
    /\ IsIdle(c) /\ Back(f) /\ Understood(f, r)
    /\ calls' = [calls EXCEPT ![c] = [Idle EXCEPT
          !.at = "read", !.who = flows[f].who, !.on = r, !.name = n]]
    /\ UNCHANGED <<now, keys, begun, jar, sessions, made, cookie, ended, storeVars>>

ExchangeFails(f, r) ==
    /\ Back(f) /\ Understood(f, r)
    /\ jar'   = [jar EXCEPT ![flows[f].who] = None]
    /\ UNCHANGED <<now, keys, begun, sessions, made, cookie, calls, ended, storeVars>>

\* UpsertUser's SELECT.
UpsertRead(c) ==
    /\ calls[c].at = "read"
    /\ Goto(c, IF HasUser(Subject(c)) THEN "refresh" ELSE "insert")
    /\ UNCHANGED <<now, keys, flows, begun, jar, sessions, made, cookie, ended, storeVars>>

UpsertRefresh_Name(c) ==
    /\ calls[c].at = "refresh"
    /\ SetDisplayName(Subject(c), calls[c].name)
    /\ Goto(c, "session")
    /\ UNCHANGED <<now, keys, flows, begun, jar, sessions, made, cookie, ended>>

\* Its UPDATE: issuer and e-mail, never the name.
UpsertRefresh(c) ==
    /\ calls[c].at = "refresh"
    /\ Goto(c, "session")
    /\ UNCHANGED <<now, keys, flows, begun, jar, sessions, made, cookie, ended, storeVars>>

UpsertInsert_Replace(c) ==
    /\ calls[c].at = "insert"
    /\ users' = [users EXCEPT ![Subject(c)] = [name |-> calls[c].name, default |-> None]]
    /\ Goto(c, "session")
    /\ UNCHANGED <<now, keys, flows, begun, jar, sessions, made, cookie, ended, rows, issued>>

\* Its INSERT; another first login may have been faster, and then this one
\* ends with an internal error.
UpsertInsert(c) ==
    /\ calls[c].at = "insert"
    /\ \/ /\ InsertUser(Subject(c), calls[c].name)
          /\ Goto(c, "session")
          /\ UNCHANGED jar
       \/ /\ HasUser(Subject(c))
          /\ End(c)
          /\ jar' = [jar EXCEPT ![calls[c].who] = None]
          /\ UNCHANGED storeVars
    /\ UNCHANGED <<now, keys, flows, begun, sessions, made, cookie, ended>>

NewSession_Forever(c) ==
    /\ calls[c].at = "session" /\ HasUser(Subject(c)) /\ made < MaxSessions
    /\ made' = made + 1
    /\ sessions' = [sessions EXCEPT ![made'] = [user |-> Subject(c), born |-> now]]
    /\ End(c)
    /\ cookie' = [cookie EXCEPT ![calls[c].who] = made']
    /\ jar'    = [jar EXCEPT ![calls[c].who] = None]
    /\ UNCHANGED <<now, keys, flows, begun, ended, storeVars>>

\* CreateSession and the answer, which sets the session cookie and deletes
\* the state cookie.  A lost answer leaves what a failed logout leaves: a row
\* whose ID no browser has.
NewSession(c) ==
    /\ calls[c].at = "session" /\ HasUser(Subject(c)) /\ made < MaxSessions
    /\ made' = made + 1
    /\ sessions' = [sessions EXCEPT ![made'] =
          [user |-> Subject(c), born |-> now, expires |-> Clock(calls[c].on) + TTL]]
    /\ End(c)
    /\ cookie' = [cookie EXCEPT ![calls[c].who] = made']
    /\ jar'    = [jar EXCEPT ![calls[c].who] = None]
    /\ UNCHANGED <<now, keys, flows, begun, ended, storeVars>>

-----------------------------------------------------------------------------
(* Sessions *)

Live_Any(s, r) == sessions[s] # None
\* GetSession: WHERE expires_at > now, by the clock of the replica asked.
Live(s, r) == sessions[s] # None /\ sessions[s].expires > Clock(r)

Expired_Early(s, r) == sessions[s] # None /\ sessions[s].expires <= Clock(r) + 1
Expired_Swapped(s, r) == sessions[s] # None /\ sessions[s].expires > Clock(r)
\* DeleteExpiredSessions: WHERE expires_at <= now.
Expired(s, r) == sessions[s] # None /\ sessions[s].expires <= Clock(r)

\* PUT /api/me leaves the browser with its session cookie.  At least one of
\* name and default is given; default None asks for it to be cleared.
SendSettings(c, b, r, n, d) ==
    /\ IsIdle(c) /\ cookie[b] # None
    /\ Cardinality({k \in Call : calls[k].at \in SettingsSteps}) < MaxSettings
    /\ calls' = [calls EXCEPT ![c] = [Idle EXCEPT
          !.at = "enter", !.who = b, !.on = r, !.sid = cookie[b],
          !.name = n, !.default = d]]
    /\ UNCHANGED <<now, keys, flows, begun, jar, sessions, made, cookie, ended, storeVars>>

FirstWrite_NameFirst(c) == IF calls[c].name # None THEN "name" ELSE "default"
FirstWrite(c) == IF calls[c].default # Keep THEN "default" ELSE "name"

\* RequireSession; the user's row is found because users are never deleted.
Enter(c) ==
    /\ calls[c].at = "enter"
    /\ IF Live(calls[c].sid, calls[c].on) /\ HasUser(sessions[calls[c].sid].user)
       THEN Goto(c, FirstWrite(c)) ELSE End(c)
    /\ UNCHANGED <<now, keys, flows, begun, jar, sessions, made, cookie, ended, storeVars>>

\* What is left after a write, for a call that still has one to make.
GoOn(c, did, next, wanted) ==
    IF wanted /\ next \notin calls[c].did
    THEN calls' = [calls EXCEPT ![c].at = next, ![c].did = @ \cup {did}]
    ELSE End(c)

MissingDefault(c) ==
    calls[c].default # None /\ ~CanSetDefault(Subject(c), calls[c].default)

\* UpdateMe's two statements, the default group before the name.
WriteDefault(c) ==
    /\ calls[c].at = "default"
    /\ \/ /\ MissingDefault(c)                          \* 404
          /\ End(c)
          /\ UNCHANGED storeVars
       \/ /\ \/ calls[c].default = None /\ ClearDefaultGroup(Subject(c))
             \/ calls[c].default # None /\ SetDefaultGroup(Subject(c), calls[c].default)
          /\ GoOn(c, "default", "name", calls[c].name # None)
    /\ UNCHANGED <<now, keys, flows, begun, jar, sessions, made, cookie, ended>>

WriteName(c) ==
    /\ calls[c].at = "name"
    /\ SetDisplayName(Subject(c), calls[c].name)
    /\ GoOn(c, "name", "default", calls[c].default # Keep)
    /\ UNCHANGED <<now, keys, flows, begun, jar, sessions, made, cookie, ended>>

Logout(b) ==
    /\ cookie[b] # None
    /\ sessions' = [sessions EXCEPT ![cookie[b]] = None]
    /\ ended' = ended \cup {cookie[b]}
    /\ cookie' = [cookie EXCEPT ![b] = None]
    /\ UNCHANGED <<now, keys, flows, begun, jar, made, calls, storeVars>>

\* The DELETE fails: logged, and answered like a logout all the same.
LogoutFails(b) ==
    /\ cookie[b] # None
    /\ cookie' = [cookie EXCEPT ![b] = None]
    /\ UNCHANGED <<now, keys, flows, begun, jar, sessions, made, calls, ended, storeVars>>

\* purgeExpiredSessions, at the tick of one replica's hourly ticker.
Purge(r) ==
    /\ \E s \in Sid : Expired(s, r)
    /\ sessions' = [s \in Sid |-> IF Expired(s, r) THEN None ELSE sessions[s]]
    /\ UNCHANGED <<now, keys, flows, begun, jar, made, cookie, calls, ended, storeVars>>

-----------------------------------------------------------------------------
(* Failures and the rest of the world *)

\* A statement of a call fails; the answer is an internal error, which after
\* a callback takes the state cookie with it.
DbFails(c) ==
    /\ ~IsIdle(c)
    /\ End(c)
    /\ jar' = IF calls[c].at \in LoginSteps
              THEN [jar EXCEPT ![calls[c].who] = None] ELSE jar
    /\ UNCHANGED <<now, keys, flows, begun, sessions, made, cookie, ended, storeVars>>

\* A replica stops, its calls unanswered, and comes back.
Restart(r) ==
    /\ IF Secret THEN UNCHANGED keys
                 ELSE keys[r] < MaxRestarts /\ keys' = [keys EXCEPT ![r] = @ + 1]
    /\ calls' = [c \in Call |-> IF calls[c].on = r THEN Idle ELSE calls[c]]
    /\ UNCHANGED <<now, flows, begun, jar, sessions, made, cookie, ended, storeVars>>

\* The groups a user may choose a default from come and go meanwhile.
OtherHandler ==
    /\ \E u \in User, id \in RowId :
          \/ DeleteGroup(u, id)
          \/ \E b \in Instance, g \in Gid, a \in Alias, p \in Pin :
                InsertGroup(u, b, g, a, p, id)
    /\ UNCHANGED <<now, keys, loginVars>>

\* Browsers drop a state cookie when its Max-Age is over.
Tick ==
    /\ now < Horizon
    /\ now' = now + 1
    /\ jar' = [b \in Browser |-> IF jar[b] # None /\ jar[b].since + CookieTTL <= now'
                                 THEN None ELSE jar[b]]
    /\ UNCHANGED <<keys, flows, begun, sessions, made, cookie, calls, ended, storeVars>>

Next ==
    \/ \E b \in Browser : \/ Logout(b) \/ LogoutFails(b)
                          \/ \E r \in Replica : StartLogin(b, r)
    \/ \E f \in Flow, r \in Replica : CallbackRefused(f, r) \/ ExchangeFails(f, r)
    \/ \E c \in Call :
          \/ \E f \in Flow, r \in Replica, n \in Claims : Callback(c, f, r, n)
          \/ \E b \in Browser, r \in Replica, w \in Wishes :
                SendSettings(c, b, r, w[1], w[2])
          \/ UpsertRead(c) \/ UpsertRefresh(c) \/ UpsertInsert(c)
          \/ NewSession(c) \/ Enter(c) \/ WriteDefault(c) \/ WriteName(c) \/ DbFails(c)
    \/ \E r \in Replica : Purge(r) \/ Restart(r)
    \/ OtherHandler
    \/ Tick

Spec == Init /\ [][Next]_vars

\* The ticker goroutine of a running process keeps firing.
FairSpec == Spec /\ \A r \in Replica : WF_vars(Purge(r))

-----------------------------------------------------------------------------
(* Properties *)

\* Type invariant.
LoginTypeOK ==
    /\ StoreTypeOK
    /\ now \in Nat /\ made \in 0 .. MaxSessions /\ begun \in 0 .. MaxFlows
    /\ keys \in [Replica -> Nat]
    /\ flows \in [Flow -> Flows \cup {None}]
    /\ jar \in [Browser -> Cookies \cup {None}]
    /\ sessions \in [Sid -> Sessions \cup {None}]
    /\ cookie \in [Browser -> Sid \cup {None}]
    /\ calls \in [Call -> Requests \cup {Idle}]
    /\ ended \in SUBSET Sid

\* With a state secret, a login that its browser runs alone and finishes in
\* time would be understood by whichever replica the callback reaches now, and
\* whatever has restarted since: what stateCookieKeys has the secret for.
Late(f) == now + Skew >= flows[f].since + CookieTTL
LoginUnderstood ==
    Secret => \A f \in Flow, r \in Replica :
                 Out(f) /\ flows[f].alone /\ ~Late(f) => Understood(f, r)

\* A login never changes a name or a default group: after the first one these
\* change only by the user's own settings request, which was admitted, or with
\* the group itself ("must not be clobbered by the provider on every login").
SettingsStep ==
    \A u \in User : HasUser(u) /\ users'[u] # users[u] =>
        \/ \E c \in Call : /\ calls[c].at \in {"default", "name"} /\ Subject(c) = u
                           /\ users'[u] \in {[users[u] EXCEPT !.name = calls[c].name],
                                             [users[u] EXCEPT !.default = calls[c].default]}
        \/ /\ users'[u] = [users[u] EXCEPT !.default = None]
           /\ rows'[users[u].default] = None
SettingsKept == [][SettingsStep]_vars

\* A request is admitted on a session that no logout has deleted, not even
\* while the request was on its way, and that is no older than the lifetime
\* plus what the clocks of two replicas differ by.
Admitted(c) == calls[c].at = "enter" /\ calls'[c].at \in {"default", "name"}
AdmittedRightly ==
    [][\A c \in Call : Admitted(c) =>
          /\ calls[c].sid \notin ended
          /\ now < sessions[calls[c].sid].born + TTL + Skew]_vars

\* A session goes only by its own logout or when its lifetime is over, again
\* up to the difference of two clocks: the purge and the check of requests
\* agree on the boundary.
KeptInTime ==
    [][\A s \in Sid :
          sessions[s] # None /\ sessions'[s] = None =>
             s \in ended' \/ now + Skew >= sessions[s].born + TTL]_vars

\* A settings request answered "group not found" has changed nothing, although
\* it may have named both fields.
RefusedChangesNothing ==
    [][\A c \in Call :
          calls[c].at = "default" /\ MissingDefault(c) /\ calls'[c] = Idle
             => calls[c].did = {}]_vars

\* A session past its expiry by every clock does not stay in the table, one
\* whose logout failed included (the purge of every hour).
EventuallyPurged ==
    \A s \in Sid :
        sessions[s] # None /\ sessions[s].expires <= now ~> sessions[s] = None

-----------------------------------------------------------------------------
(* What makes these inductive. *)

\* A row's expiry is its lifetime away, by some replica's clock; a session is
\* deleted once and for all, since IDs do not repeat.
SessionsOK ==
    \A s \in Sid : sessions[s] # None =>
        sessions[s].expires \in sessions[s].born + TTL .. sessions[s].born + TTL + Skew
EndedOK ==
    /\ \A s \in ended : s <= made /\ sessions[s] = None
    /\ \A b \in Browser : cookie[b] # None => cookie[b] <= made

\* A settings request asks for something, and writes the default group before
\* the name; a login has a name to insert.
CallsOK ==
    \A c \in Call :
        /\ calls[c].at = "enter" =>
              calls[c].sid \in Sid /\ (calls[c].default = Keep => calls[c].name # None)
        /\ calls[c].at = "default" => calls[c].default # Keep
        /\ calls[c].at \in LoginSteps \cup {"name"} => calls[c].name # None
        /\ calls[c].at \in {"enter", "default"} => calls[c].did = {}
        /\ calls[c].at = "name" => calls[c].default = Keep \/ "default" \in calls[c].did

\* A login left alone still has its cookie, unless its time is over, and no
\* answer to an earlier one is on its way.
JarOK ==
    \A f \in Flow : Out(f) /\ flows[f].alone =>
        LET k == jar[flows[f].who] IN
        /\ ~LoggingIn(flows[f].who)
        /\ k = None => flows[f].since + CookieTTL <= now
        /\ k # None => /\ k.flow = f /\ (Secret => k.key = <<>>)
                       /\ k.written <= flows[f].since + Skew
                       /\ flows[f].since <= k.written
                       /\ k.since = flows[f].since
BegunOK == \A f \in Flow : Out(f) => f <= begun

LoginInv ==
    StoreInv /\ LoginTypeOK /\ SessionsOK /\ EndedOK /\ CallsOK /\ JarOK /\ BegunOK
=============================================================================
