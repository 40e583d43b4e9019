----------------------------- MODULE VerifyCache -----------------------------
(***************************************************************************)
(* Verification of the bearer tokens MCP clients send, internal/oidc: JWTs *)
(* are checked against the issuer's keys, other tokens by asking the       *)
(* provider, and what was verified is cached for a while.  Requests run    *)
(* concurrently; the provider revokes tokens, answers late or not at all.  *)
(*                                                                         *)
(* Time is counted in ticks.  `by' remembers how a token was vouched for;  *)
(* nothing the code does depends on it.                                    *)
(* Definitions named Operation_Bug are mutants, as in module Store.        *)
(***************************************************************************)
EXTENDS Naturals, FiniteSets

CONSTANTS Token, Request,
          Jwt,              \* tokens signed by the issuer; the others are opaque
          Fit,              \* tokens with the right audience and scopes
          Expiry,           \* [Token -> when it expires, or None if not stated]
          HasJwks,          \* the provider publishes keys
          HasIntrospection, \* it can be asked, and a client secret is configured
          KeysFail,         \* may fetching the keys fail?
          Cap,              \* maxVerifyCacheTTL
          Timeout,          \* of one request to the provider
          MaxEntries,       \* 1024 in the code
          Horizon,          \* bound on the clock
          None

ASSUME TokensAssumption ==
    /\ Jwt \subseteq Token /\ Fit \subseteq Token
    /\ Expiry \in [Token -> Nat \cup {None}]
ASSUME ProviderAssumption ==
    /\ HasJwks \in BOOLEAN /\ HasIntrospection \in BOOLEAN /\ KeysFail \in BOOLEAN
    /\ HasJwks \/ HasIntrospection
ASSUME LimitsAssumption ==
    /\ Cap \in Nat \ {0} /\ Timeout \in Nat /\ MaxEntries \in Nat /\ Horizon \in Nat

Means == {"jwt", "introspection"}
Entry == [until: Nat, exp: Nat, by: Means]

ASSUME NoneAssumption == None \notin Nat /\ None \notin Entry

VARIABLES now, revoked, entries, requests

vars == <<now, revoked, entries, requests>>

Pending  == {"verify", "asked", "active", "inactive"}
Verdicts == {"accepted", "rejected", "failed"}

\* What a request knows: its token, when it asked the provider, and by what
\* means it was answered.
RequestState == [at: {"idle"} \cup Pending \cup Verdicts, token: Token \cup {None},
                 since: Nat, by: Means]

Idle == [at |-> "idle", token |-> None, since |-> 0, by |-> "jwt"]

-----------------------------------------------------------------------------
(* The cache *)

Cached(t) == entries[t] # None /\ now <= entries[t].until
Held == {t \in Token : entries[t] # None}

Until_NoCap(exp) == exp
\* Never beyond the token's own life, nor beyond the cap.
Until(exp) == IF exp < now + Cap THEN exp ELSE now + Cap

Swept_SweepOnly ==
    IF Cardinality(Held) > MaxEntries
    THEN [t \in Token |-> IF Cached(t) THEN entries[t] ELSE None]
    ELSE entries
\* Room is made by dropping lapsed entries, or all if that is not enough.
Swept ==
    LET live == {t \in Token : Cached(t)} IN
    IF Cardinality(Held) > MaxEntries
    THEN [t \in Token |-> IF t \in live /\ Cardinality(live) <= MaxEntries
                          THEN entries[t] ELSE None]
    ELSE entries

Put(t, exp, by) ==
    entries' = IF now >= Until(exp) THEN entries
               ELSE [Swept EXCEPT ![t] = [until |-> Until(exp), exp |-> exp,
                                          by |-> by]]

-----------------------------------------------------------------------------
(* Requests *)

Goto(r, k) == requests' = [requests EXCEPT ![r] = k]
At(r, s)   == requests[r].at = s

\* The middleware turns a verified token away once it has expired.
Answer(r, t, exp, by) ==
    Goto(r, [Idle EXCEPT !.token = t, !.by = by,
                !.at = IF exp < now THEN "rejected" ELSE "accepted"])
Reject(r) == Goto(r, [Idle EXCEPT !.at = "rejected", !.token = requests[r].token])
Fail(r)   == Goto(r, [Idle EXCEPT !.at = "failed", !.token = requests[r].token])

\* A hit answers at once; a miss drops a lapsed entry.
Arrive(r, t) ==
    /\ At(r, "idle")
    /\ \/ /\ Cached(t)
          /\ Answer(r, t, entries[t].exp, entries[t].by)
          /\ UNCHANGED entries
       \/ /\ ~Cached(t)
          /\ entries' = [entries EXCEPT ![t] = None]
          /\ Goto(r, [Idle EXCEPT !.at = "verify", !.token = t])
    /\ UNCHANGED <<now, revoked>>

\* verifyJWT: signature, expiry, audience and scopes.
Signed(t) == HasJwks /\ t \in Jwt /\ t \in Fit /\ Expiry[t] # None /\ now < Expiry[t]

VerifyJwt(r) ==
    LET t == requests[r].token IN
    /\ At(r, "verify") /\ Signed(t)
    /\ Put(t, Expiry[t], "jwt")
    /\ Answer(r, t, Expiry[t], "jwt")
    /\ UNCHANGED <<now, revoked>>

JwtFails_Final(r) ==
    /\ At(r, "verify") /\ (Signed(requests[r].token) => KeysFail)
    /\ Reject(r)
    /\ UNCHANGED <<now, revoked, entries>>

\* A token that is no valid JWT, or whose keys cannot be had, is asked about,
\* if the provider can be asked; otherwise that is the answer.
JwtFails(r) ==
    /\ At(r, "verify") /\ (Signed(requests[r].token) => KeysFail)
    /\ IF HasIntrospection
       THEN Goto(r, [requests[r] EXCEPT !.at = "asked", !.since = now])
       ELSE Reject(r)
    /\ UNCHANGED <<now, revoked, entries>>

Introspected_AlwaysCap(t) == now + Cap
\* A provider that states no expiry makes the token last as long as the cache.
Introspected(t) == IF Expiry[t] = None THEN now + Cap ELSE Expiry[t]

\* introspect, once the answer is in.
Hear(r) ==
    LET t == requests[r].token IN
    /\ \/ /\ At(r, "active") /\ t \in Fit
          /\ Put(t, Introspected(t), "introspection")
          /\ Answer(r, t, Introspected(t), "introspection")
       \/ /\ At(r, "inactive") \/ (At(r, "active") /\ t \notin Fit)
          /\ Reject(r)
          /\ UNCHANGED entries
    /\ UNCHANGED <<now, revoked>>

Break_Retry(r) ==
    /\ requests[r].at \in {"asked", "active", "inactive"}
    /\ Goto(r, [requests[r] EXCEPT !.at = "retry"])
    /\ UNCHANGED <<now, revoked, entries>>

\* The request to the provider fails or times out: no fault of the token.
Break(r) ==
    /\ requests[r].at \in {"asked", "active", "inactive"}
    /\ Fail(r)
    /\ UNCHANGED <<now, revoked, entries>>

\* The client has its answer.
Leave(r) ==
    /\ requests[r].at \in Verdicts
    /\ Goto(r, Idle)
    /\ UNCHANGED <<now, revoked, entries>>

-----------------------------------------------------------------------------
(* The provider, and time *)

Expired(t) == Expiry[t] # None /\ now >= Expiry[t]

\* It makes up its mind some time before the answer is heard.
Say(r) ==
    /\ At(r, "asked")
    /\ Goto(r, [requests[r] EXCEPT !.at =
                   IF revoked[requests[r].token] = None
                      /\ ~Expired(requests[r].token)
                   THEN "active" ELSE "inactive"])
    /\ UNCHANGED <<now, revoked, entries>>

Revoke(t) ==
    /\ t \in Fit /\ revoked[t] = None
    /\ revoked' = [revoked EXCEPT ![t] = now]
    /\ UNCHANGED <<now, entries, requests>>

\* No request to the provider outlives its timeout, and an answer given is
\* delivered.
Tick ==
    /\ now < Horizon
    /\ \A r \in Request : requests[r].at \notin Verdicts
    /\ \A r \in Request : requests[r].at \in {"asked", "active", "inactive"}
                             => now < requests[r].since + Timeout
    /\ now' = now + 1
    /\ UNCHANGED <<revoked, entries, requests>>

-----------------------------------------------------------------------------

Init ==
    /\ now = 0
    /\ revoked  = [t \in Token |-> None]
    /\ entries  = [t \in Token |-> None]
    /\ requests = [r \in Request |-> Idle]

Next ==
    \/ \E r \in Request :
          \/ \E t \in Token : Arrive(r, t)
          \/ VerifyJwt(r) \/ JwtFails(r) \/ Say(r) \/ Hear(r) \/ Break(r) \/ Leave(r)
    \/ \E t \in Token : Revoke(t)
    \/ Tick

Spec == Init /\ [][Next]_vars

-----------------------------------------------------------------------------
(* Properties *)

\* Type invariant.
TypeOK ==
    /\ now \in Nat
    /\ revoked \in [Token -> Nat \cup {None}]
    /\ entries \in [Token -> Entry \cup {None}]
    /\ requests \in [Request -> RequestState]

\* No request is let in on a token that had expired by then, though the token
\* was cached, or vouched for while the answer was on its way (put's cap).
NoExpiredAccepted ==
    \A r \in Request :
        LET k == requests[r] IN
        At(r, "accepted") /\ Expiry[k.token] # None => now <= Expiry[k.token]

\* "It bounds how stale a revocation can be": what the provider vouched for is
\* accepted for at most the cap and one request's timeout after it was revoked,
\* however often it is used meanwhile and whoever else asks.
RevocationNoticed ==
    \A r \in Request :
        LET k == requests[r] IN
        At(r, "accepted") /\ k.by = "introspection" /\ revoked[k.token] # None =>
            now <= revoked[k.token] + Timeout + Cap

\* The cache stays bounded under a flood of distinct tokens.
CacheBounded == Cardinality(Held) <= MaxEntries + 1

\* A token is answered "invalid", which sends its user through a new login, only
\* for a cause of its own: "a transient upstream failure must not read as an
\* invalid token".  Where nothing but a signature can be checked, a token without
\* one is a cause.
RejectedForOwnCause ==
    \A r \in Request :
        LET k == requests[r] IN
        At(r, "rejected") =>
            \/ k.token \notin Fit
            \/ revoked[k.token] # None
            \/ Expiry[k.token] # None /\ Expiry[k.token] <= now
            \/ ~HasIntrospection /\ (k.token \notin Jwt \/ Expiry[k.token] = None)

\* With introspection to fall back on, so it is: keys that cannot be fetched, or
\* a provider that does not answer, never look like a bad token.
RejectedForCause == HasIntrospection => RejectedForOwnCause
=============================================================================
