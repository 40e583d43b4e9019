-------------------------- MODULE VerifyCacheProofs --------------------------
(***************************************************************************)
(* Theorems about module VerifyCache, for any tokens and requests, any     *)
(* cap, timeout and size of the cache, and a clock without bound: no       *)
(* expired token is accepted, a revocation is noticed in time, the cache   *)
(* stays bounded, and nobody is turned away without a cause.               *)
(***************************************************************************)
EXTENDS VerifyCache, FiniteSetTheorems, TLAPS

-----------------------------------------------------------------------------
(* The inductive invariant *)

Asking == {"asked", "active", "inactive"}

\* Reasons to turn a token away.
Cause(t) ==
    \/ t \notin Fit
    \/ revoked[t] # None
    \/ Expiry[t] # None /\ Expiry[t] <= now

\* An entry is no older than the cap and lapses with its token, if the token's
\* expiry is known.  One that rests on the provider's word was written at most a
\* timeout after the word was given, which was before any revocation.
EntryOK(t) ==
    entries[t] # None =>
        /\ entries[t].until <= entries[t].exp
        /\ entries[t].until <= now + Cap
        /\ Expiry[t] # None => entries[t].exp = Expiry[t]
        /\ entries[t].by = "introspection" /\ revoked[t] # None =>
              entries[t].until <= revoked[t] + Timeout + Cap

\* An answer on its way was true when the provider gave it, and a request for
\* one is still within its timeout.
AskingOK(k) ==
    k.at \in Asking =>
        /\ k.since <= now
        /\ now <= k.since + Timeout
        /\ k.at = "active" /\ revoked[k.token] # None => k.since <= revoked[k.token]
        /\ k.at = "inactive" => Cause(k.token)

AcceptedOK(k) ==
    k.at = "accepted" =>
        /\ Expiry[k.token] # None => now <= Expiry[k.token]
        /\ k.by = "introspection" /\ revoked[k.token] # None =>
              now <= revoked[k.token] + Timeout + Cap

RequestOK(k) ==
    /\ k.at # "idle" => k.token \in Token
    /\ AskingOK(k)
    /\ AcceptedOK(k)
    /\ k.at = "rejected" /\ HasIntrospection => Cause(k.token)

HeldOK == IsFiniteSet(Held) /\ Cardinality(Held) <= MaxEntries + 1

RequestsOK == \A r \in Request : RequestOK(requests[r])
EntriesOK  == \A t \in Token : EntryOK(t)

VerifyInv == TypeOK /\ RequestsOK /\ EntriesOK /\ HeldOK

-----------------------------------------------------------------------------
(* The cache *)

LEMMA UntilBounds ==
  ASSUME now \in Nat, NEW exp \in Nat
  PROVE  Until(exp) \in Nat /\ Until(exp) <= exp /\ Until(exp) <= now + Cap
  BY LimitsAssumption DEF Until

\* Writing an entry for t leaves each other entry alone or drops it.
LEMMA PutEntries ==
  ASSUME TypeOK, NEW t \in Token, NEW exp \in Nat, NEW by \in Means, Put(t, exp, by)
  PROVE  /\ entries' \in [Token -> Entry \cup {None}]
         /\ \A u \in Token :
               \/ entries'[u] \in {entries[u], None}
               \/ u = t /\ entries'[u] = [until |-> Until(exp), exp |-> exp, by |-> by]
<1> DEFINE e == [until |-> Until(exp), exp |-> exp, by |-> by]
<1>1. e \in Entry
  BY UntilBounds DEF TypeOK, Entry
<1>2. Swept \in [Token -> Entry \cup {None}]
  BY DEF Swept, TypeOK
<1>3. \A u \in Token : Swept[u] \in {entries[u], None}
  BY DEF Swept
<1>4. CASE now >= Until(exp)
  BY <1>4 DEF Put, TypeOK
<1>5. CASE ~(now >= Until(exp))
  <2>1. entries' = [Swept EXCEPT ![t] = e]
    BY <1>5 DEF Put
  <2> HIDE DEF e
  <2>2. entries' \in [Token -> Entry \cup {None}]
    BY <2>1, <1>1, <1>2
  <2>3. entries'[t] = e /\ \A u \in Token : u # t => entries'[u] = Swept[u]
    BY <2>1, <1>2
  <2>4. QED
    BY <2>2, <2>3, <1>3 DEF e
<1>6. QED
  BY <1>4, <1>5

\* The cache is swept before it grows.
LEMMA PutHeld ==
  ASSUME TypeOK, HeldOK, NEW t \in Token, NEW exp \in Nat, NEW by \in Means,
         Put(t, exp, by)
  PROVE  HeldOK'
<1> DEFINE kept == {u \in Token : Swept[u] # None}
<1>1. kept \in SUBSET Held
  BY DEF Swept, Held, Cached
<1>2. IsFiniteSet(kept) /\ Cardinality(kept) \in Nat
  BY <1>1, FS_Subset, FS_CardinalityType DEF HeldOK
<1>3. Cardinality(kept) <= MaxEntries
  <2>1. CASE ~(Cardinality(Held) > MaxEntries)
    BY <2>1, <1>1, <1>2, FS_Subset, FS_CardinalityType, LimitsAssumption DEF HeldOK
  <2>2. CASE Cardinality(Held) > MaxEntries
    <3> DEFINE live == {u \in Token : Cached(u)}
    <3>1. live \in SUBSET Held
      BY DEF Cached, Held
    <3>2. CASE Cardinality(live) <= MaxEntries
      <4>1. kept = live
        BY <2>2, <3>2 DEF Swept, Cached
      <4>2. QED
        BY <4>1, <3>2
    <3>3. CASE ~(Cardinality(live) <= MaxEntries)
      <4>1. kept = {}
        BY <2>2, <3>3 DEF Swept
      <4>2. QED
        BY <4>1, FS_EmptySet, LimitsAssumption
    <3>4. QED
      BY <3>2, <3>3
  <2>3. QED
    BY <2>1, <2>2
<1>4. Held' \in SUBSET Held \/ Held' \in SUBSET (kept \cup {t})
  <2>1. CASE now >= Until(exp)
    BY <2>1 DEF Put, Held
  <2>2. CASE ~(now >= Until(exp))
    <3>1. Swept \in [Token -> Entry \cup {None}]
      BY DEF Swept, TypeOK
    <3>2. \A u \in Token : u # t => entries'[u] = Swept[u]
      BY <2>2, <3>1 DEF Put
    <3>3. QED
      BY <3>2 DEF Held
  <2>3. QED
    BY <2>1, <2>2
<1> HIDE DEF kept
<1>5. IsFiniteSet(kept \cup {t}) /\ Cardinality(kept \cup {t}) <= MaxEntries + 1
  <2>1. /\ IsFiniteSet(kept \cup {t})
        /\ Cardinality(kept \cup {t}) \in {Cardinality(kept), Cardinality(kept) + 1}
    BY <1>2, FS_AddElement, Zenon
  <2>2. QED
    BY <2>1, <1>2, <1>3, LimitsAssumption
<1>6. CASE Held' \in SUBSET Held
  <2>1. IsFiniteSet(Held') /\ Cardinality(Held') <= Cardinality(Held)
    BY <1>6, FS_Subset DEF HeldOK
  <2>2. Cardinality(Held) \in Nat /\ Cardinality(Held') \in Nat
    BY <2>1, FS_CardinalityType DEF HeldOK
  <2>3. QED
    BY <2>1, <2>2, LimitsAssumption DEF HeldOK
<1>7. CASE Held' \in SUBSET (kept \cup {t})
  <2>1. IsFiniteSet(Held') /\ Cardinality(Held') <= Cardinality(kept \cup {t})
    BY <1>5, <1>7, FS_Subset
  <2>2. Cardinality(Held') \in Nat /\ Cardinality(kept \cup {t}) \in Nat
    BY <2>1, <1>5, FS_CardinalityType
  <2>3. QED
    BY <2>1, <2>2, <1>5, LimitsAssumption DEF HeldOK
<1>8. QED
  BY <1>4, <1>6, <1>7

\* What is written rests on the token's expiry, if it is known, and on a word
\* given no longer ago than the timeout.
LEMMA PutEntriesOK ==
  ASSUME TypeOK, EntriesOK, NEW t \in Token, NEW exp \in Nat, NEW by \in Means,
         Put(t, exp, by), UNCHANGED <<now, revoked>>,
         Expiry[t] # None => exp = Expiry[t],
         by = "introspection" /\ revoked[t] # None => now <= revoked[t] + Timeout
  PROVE  EntriesOK'
<1> SUFFICES ASSUME NEW u \in Token, entries'[u] # None
             PROVE  EntryOK(u)'
  BY DEF EntriesOK, EntryOK
<1>1. CASE entries'[u] = entries[u]
  BY <1>1 DEF EntriesOK, EntryOK
<1>2. CASE u = t /\ entries'[u] = [until |-> Until(exp), exp |-> exp, by |-> by]
  <2>1. Until(exp) \in Nat /\ Until(exp) <= exp /\ Until(exp) <= now + Cap
    BY UntilBounds DEF TypeOK
  <2>2. revoked[t] # None => revoked[t] \in Nat
    BY DEF TypeOK
  <2>3. entries'[u].until = Until(exp) /\ entries'[u].exp = exp /\ entries'[u].by = by
    BY <1>2
  <2>4. by = "introspection" /\ revoked[t] # None =>
           Until(exp) <= revoked[t] + Timeout + Cap
    BY <2>1, <2>2, LimitsAssumption DEF TypeOK
  <2>5. QED
    BY <1>2, <2>1, <2>3, <2>4 DEF EntryOK
<1>3. QED
  BY <1>1, <1>2, PutEntries

-----------------------------------------------------------------------------
(* Requests *)

\* A step of one request leaves the others as they are.
LEMMA GotoOK ==
  ASSUME TypeOK, RequestsOK, NEW r \in Request, NEW k \in RequestState,
         RequestOK(k), Goto(r, k), UNCHANGED <<now, revoked>>
  PROVE  requests' \in [Request -> RequestState] /\ RequestsOK'
<1>1. requests' \in [Request -> RequestState]
  BY DEF Goto, TypeOK
<1>2. requests'[r] = k /\ \A q \in Request : q # r => requests'[q] = requests[q]
  BY DEF Goto, TypeOK
<1>3. ASSUME NEW q \in Request
      PROVE  RequestOK(requests'[q])
  BY <1>2, <1>3 DEF RequestsOK
<1>4. RequestsOK'
  BY <1>3 DEF RequestsOK, RequestOK, AskingOK, AcceptedOK, Cause
<1>5. QED
  BY <1>1, <1>4

LEMMA VerdictTypes ==
  ASSUME NEW t \in Token, NEW by \in Means, NEW at \in Verdicts
  PROVE  [Idle EXCEPT !.token = t, !.by = by, !.at = at] \in RequestState
  BY DEF Idle, RequestState, Means, Verdicts

\* An answer on a verified token is in order.
LEMMA AnswerOK ==
  ASSUME TypeOK, RequestsOK, NEW r \in Request, NEW t \in Token, NEW exp \in Nat,
         NEW by \in Means, Answer(r, t, exp, by), UNCHANGED <<now, revoked>>,
         Expiry[t] # None => exp = Expiry[t],
         Expiry[t] = None => now <= exp,
         by = "introspection" /\ revoked[t] # None =>
            now <= revoked[t] + Timeout + Cap
  PROVE  requests' \in [Request -> RequestState] /\ RequestsOK'
<1> DEFINE k == [Idle EXCEPT !.token = t, !.by = by,
                    !.at = IF exp < now THEN "rejected" ELSE "accepted"]
<1>1. k \in RequestState
  BY VerdictTypes DEF Verdicts
<1>2. /\ k.token = t /\ k.by = by
      /\ k.at = IF exp < now THEN "rejected" ELSE "accepted"
  BY DEF Idle
<1>3. Goto(r, k)
  BY DEF Answer
<1>4. exp < now => Cause(t)
  BY DEF Cause, TypeOK
<1> HIDE DEF k
<1>5. RequestOK(k)
  BY <1>2, <1>4 DEF RequestOK, AskingOK, Asking, AcceptedOK, TypeOK
<1>6. QED
  BY <1>1, <1>3, <1>5, GotoOK

\* Turning a request away for a cause, or failing it, is in order.
LEMMA RejectOK ==
  ASSUME TypeOK, RequestsOK, NEW r \in Request, requests[r].token \in Token,
         HasIntrospection => Cause(requests[r].token), Reject(r),
         UNCHANGED <<now, revoked>>
  PROVE  requests' \in [Request -> RequestState] /\ RequestsOK'
<1> DEFINE k == [Idle EXCEPT !.at = "rejected", !.token = requests[r].token]
<1>1. k \in RequestState /\ k.at = "rejected" /\ k.token = requests[r].token
  BY DEF Idle, RequestState, Verdicts, Means
<1>2. Goto(r, k)
  BY DEF Reject
<1> HIDE DEF k
<1>3. RequestOK(k)
  BY <1>1 DEF RequestOK, AskingOK, Asking, AcceptedOK
<1>4. QED
  BY <1>1, <1>2, <1>3, GotoOK

LEMMA FailOK ==
  ASSUME TypeOK, RequestsOK, NEW r \in Request, requests[r].token \in Token, Fail(r),
         UNCHANGED <<now, revoked>>
  PROVE  requests' \in [Request -> RequestState] /\ RequestsOK'
<1> DEFINE k == [Idle EXCEPT !.at = "failed", !.token = requests[r].token]
<1>1. k \in RequestState /\ k.at = "failed" /\ k.token = requests[r].token
  BY DEF Idle, RequestState, Verdicts, Means
<1>2. Goto(r, k)
  BY DEF Fail
<1> HIDE DEF k
<1>3. RequestOK(k)
  BY <1>1 DEF RequestOK, AskingOK, Asking, AcceptedOK
<1>4. QED
  BY <1>1, <1>2, <1>3, GotoOK

-----------------------------------------------------------------------------
(* Every step preserves the invariant. *)

LEMMA InitVerifyInv == Init => VerifyInv
<1> SUFFICES ASSUME Init PROVE VerifyInv
  OBVIOUS
<1>1. TypeOK
  BY DEF Init, TypeOK, Idle, RequestState, Means
<1>2. RequestsOK
  BY DEF Init, RequestsOK, RequestOK, AskingOK, Asking, AcceptedOK, Idle
<1>3. EntriesOK
  BY DEF Init, EntriesOK, EntryOK
<1>4. Held = {}
  BY DEF Init, Held
<1>5. HeldOK
  BY <1>4, FS_EmptySet, LimitsAssumption DEF HeldOK
<1>6. QED
  BY <1>1, <1>2, <1>3, <1>5 DEF VerifyInv

\* What a step need not show if it leaves the cache alone.
LEMMA CacheUnchanged ==
  ASSUME VerifyInv, UNCHANGED <<now, revoked, entries>>,
         requests' \in [Request -> RequestState], RequestsOK'
  PROVE  VerifyInv'
<1>1. TypeOK'
  BY DEF VerifyInv, TypeOK
<1>2. EntriesOK'
  BY DEF VerifyInv, EntriesOK, EntryOK
<1>3. HeldOK'
  BY DEF VerifyInv, HeldOK, Held
<1>4. QED
  BY <1>1, <1>2, <1>3 DEF VerifyInv

LEMMA ArriveInv ==
  ASSUME VerifyInv, NEW r \in Request, NEW t \in Token, Arrive(r, t)
  PROVE  VerifyInv'
<1> USE DEF VerifyInv
<1>1. UNCHANGED <<now, revoked>>
  BY DEF Arrive
<1>2. CASE /\ Cached(t)
           /\ Answer(r, t, entries[t].exp, entries[t].by)
           /\ UNCHANGED entries
  <2>1. /\ entries[t] \in Entry /\ EntryOK(t) /\ entries[t] # None
        /\ now <= entries[t].until
    BY <1>2 DEF Cached, EntriesOK, TypeOK
  <2>2. entries[t].exp \in Nat /\ entries[t].until \in Nat /\ entries[t].by \in Means
    BY <2>1 DEF Entry
  <2>3. revoked[t] # None => revoked[t] \in Nat
    BY DEF TypeOK
  <2>4. /\ Expiry[t] # None => entries[t].exp = Expiry[t]
        /\ now <= entries[t].exp
        /\ entries[t].by = "introspection" /\ revoked[t] # None =>
              now <= revoked[t] + Timeout + Cap
    BY <2>1, <2>2, <2>3, LimitsAssumption DEF EntryOK, TypeOK
  <2>5. requests' \in [Request -> RequestState] /\ RequestsOK'
    BY <1>1, <1>2, <2>2, <2>4, AnswerOK
  <2>6. QED
    BY <1>1, <1>2, <2>5, CacheUnchanged
<1>3. CASE /\ entries' = [entries EXCEPT ![t] = None]
           /\ Goto(r, [Idle EXCEPT !.at = "verify", !.token = t])
  <2> DEFINE k == [Idle EXCEPT !.at = "verify", !.token = t]
  <2>1. k \in RequestState /\ k.at = "verify" /\ k.token = t
    BY DEF Idle, RequestState, Pending, Means
  <2> HIDE DEF k
  <2>2. RequestOK(k)
    BY <2>1 DEF RequestOK, AskingOK, Asking, AcceptedOK
  <2>3. requests' \in [Request -> RequestState] /\ RequestsOK'
    BY <1>1, <1>3, <2>1, <2>2, GotoOK DEF k
  <2>4. /\ entries' \in [Token -> Entry \cup {None}]
        /\ \A u \in Token : entries'[u] \in {entries[u], None}
    BY <1>3 DEF TypeOK
  <2>5. EntriesOK'
    BY <1>1, <2>4 DEF EntriesOK, EntryOK
  <2>6. Held' \in SUBSET Held
    BY <2>4 DEF Held
  <2>7. HeldOK'
    <3>1. IsFiniteSet(Held') /\ Cardinality(Held') <= Cardinality(Held)
      BY <2>6, FS_Subset DEF HeldOK
    <3>2. Cardinality(Held) \in Nat /\ Cardinality(Held') \in Nat
      BY <3>1, FS_CardinalityType DEF HeldOK
    <3>3. QED
      BY <3>1, <3>2, LimitsAssumption DEF HeldOK
  <2>8. QED
    BY <1>1, <2>3, <2>4, <2>5, <2>7 DEF TypeOK
<1>4. QED
  BY <1>2, <1>3 DEF Arrive

LEMMA VerifyJwtInv ==
  ASSUME VerifyInv, NEW r \in Request, VerifyJwt(r)
  PROVE  VerifyInv'
<1> DEFINE t == requests[r].token
<1> USE DEF VerifyInv
<1>1. /\ t \in Token /\ Expiry[t] \in Nat /\ now < Expiry[t]
      /\ Put(t, Expiry[t], "jwt") /\ Answer(r, t, Expiry[t], "jwt")
      /\ UNCHANGED <<now, revoked>>
  BY TokensAssumption DEF VerifyJwt, Signed, At, RequestsOK, RequestOK
<1> HIDE DEF t
<1>2. "jwt" \in Means /\ Expiry[t] # None
  BY <1>1, NoneAssumption DEF Means
<1>3. requests' \in [Request -> RequestState] /\ RequestsOK'
  BY <1>1, <1>2, AnswerOK
<1>4. EntriesOK'
  BY <1>1, <1>2, PutEntriesOK
<1>5. entries' \in [Token -> Entry \cup {None}]
  BY <1>1, <1>2, PutEntries
<1>6. HeldOK'
  BY <1>1, <1>2, PutHeld
<1>7. QED
  BY <1>1, <1>3, <1>4, <1>5, <1>6 DEF TypeOK

LEMMA JwtFailsInv ==
  ASSUME VerifyInv, NEW r \in Request, JwtFails(r)
  PROVE  VerifyInv'
<1> USE DEF VerifyInv
<1>1. /\ requests[r].at = "verify" /\ requests[r].token \in Token
      /\ UNCHANGED <<now, revoked, entries>>
  BY DEF JwtFails, At, RequestsOK, RequestOK
<1>2. CASE HasIntrospection
  <2> DEFINE k == [requests[r] EXCEPT !.at = "asked", !.since = now]
  <2>1. Goto(r, k)
    BY <1>2 DEF JwtFails
  <2>2. /\ k \in RequestState /\ k.at = "asked" /\ k.token = requests[r].token
        /\ k.since = now
    BY DEF TypeOK, RequestState, Pending
  <2> HIDE DEF k
  <2>3. RequestOK(k)
    BY <1>1, <2>2, LimitsAssumption
       DEF RequestOK, AskingOK, Asking, AcceptedOK, TypeOK
  <2>4. QED
    BY <1>1, <2>1, <2>2, <2>3, GotoOK, CacheUnchanged
<1>3. CASE ~HasIntrospection
  BY <1>1, <1>3, RejectOK, CacheUnchanged DEF JwtFails
<1>4. QED
  BY <1>2, <1>3

LEMMA HearInv ==
  ASSUME VerifyInv, NEW r \in Request, Hear(r)
  PROVE  VerifyInv'
<1> DEFINE t == requests[r].token
           exp == Introspected(t)
<1> USE DEF VerifyInv
<1>1. /\ t \in Token /\ requests[r].at \in {"active", "inactive"}
      /\ RequestOK(requests[r]) /\ requests[r].since \in Nat
      /\ UNCHANGED <<now, revoked>>
  BY DEF Hear, At, RequestsOK, RequestOK, TypeOK, RequestState
<1>2. CASE /\ At(r, "active") /\ t \in Fit
           /\ Put(t, exp, "introspection")
           /\ Answer(r, t, exp, "introspection")
  <2>1. exp \in Nat /\ "introspection" \in Means
    BY <1>1, TokensAssumption, LimitsAssumption DEF Introspected, TypeOK, Means
  <2>2. /\ Expiry[t] # None => exp = Expiry[t]
        /\ Expiry[t] = None => now <= exp
    BY LimitsAssumption DEF Introspected, TypeOK
  <2>3. revoked[t] # None => now <= revoked[t] + Timeout
    <3>1. revoked[t] # None => revoked[t] \in Nat
      BY <1>1 DEF TypeOK
    <3>2. /\ now <= requests[r].since + Timeout
          /\ revoked[t] # None => requests[r].since <= revoked[t]
      BY <1>1, <1>2 DEF At, RequestOK, AskingOK, Asking
    <3>3. QED
      BY <1>1, <3>1, <3>2, LimitsAssumption DEF TypeOK
  <2>4. revoked[t] # None => now <= revoked[t] + Timeout + Cap
    BY <1>1, <2>3, LimitsAssumption DEF TypeOK
  <2> HIDE DEF t, exp
  <2>5. requests' \in [Request -> RequestState] /\ RequestsOK'
    BY <1>1, <1>2, <2>1, <2>2, <2>4, AnswerOK
  <2>6. EntriesOK'
    BY <1>1, <1>2, <2>1, <2>2, <2>3, PutEntriesOK
  <2>7. entries' \in [Token -> Entry \cup {None}]
    BY <1>1, <1>2, <2>1, PutEntries
  <2>8. HeldOK'
    BY <1>1, <1>2, <2>1, PutHeld
  <2>9. QED
    BY <1>1, <2>5, <2>6, <2>7, <2>8 DEF TypeOK
<1>3. CASE /\ At(r, "inactive") \/ (At(r, "active") /\ t \notin Fit)
           /\ Reject(r)
           /\ UNCHANGED entries
  <2>1. Cause(t)
    BY <1>1, <1>3 DEF At, RequestOK, AskingOK, Asking, Cause
  <2>2. QED
    BY <1>1, <1>3, <2>1, RejectOK, CacheUnchanged
<1>4. QED
  BY <1>2, <1>3 DEF Hear

LEMMA SayInv ==
  ASSUME VerifyInv, NEW r \in Request, Say(r)
  PROVE  VerifyInv'
<1> DEFINE t == requests[r].token
           at == IF revoked[t] = None /\ ~Expired(t) THEN "active" ELSE "inactive"
           k == [requests[r] EXCEPT !.at = at]
<1> USE DEF VerifyInv
<1>1. /\ t \in Token /\ requests[r].at = "asked" /\ RequestOK(requests[r])
      /\ requests[r] \in RequestState /\ Goto(r, k)
      /\ UNCHANGED <<now, revoked, entries>>
  BY DEF Say, At, RequestsOK, RequestOK, TypeOK
<1>2. k \in RequestState /\ k.at = at /\ k.token = t /\ k.since = requests[r].since
  BY <1>1 DEF RequestState, Pending
<1>3. at = "inactive" => Cause(t)
  BY DEF Cause, Expired, TypeOK
<1>4. at = "active" => revoked[t] = None
  OBVIOUS
<1>5. at \in {"active", "inactive"}
  OBVIOUS
<1> HIDE DEF k, at
<1>6. RequestOK(k)
  BY <1>1, <1>2, <1>3, <1>4, <1>5 DEF RequestOK, AskingOK, Asking, AcceptedOK
<1>7. QED
  BY <1>1, <1>2, <1>6, GotoOK, CacheUnchanged

LEMMA BreakInv ==
  ASSUME VerifyInv, NEW r \in Request, Break(r)
  PROVE  VerifyInv'
<1> USE DEF VerifyInv
<1>1. /\ requests[r].token \in Token /\ Fail(r)
      /\ UNCHANGED <<now, revoked, entries>>
  BY DEF Break, RequestsOK, RequestOK
<1>2. QED
  BY <1>1, FailOK, CacheUnchanged

LEMMA LeaveInv ==
  ASSUME VerifyInv, NEW r \in Request, Leave(r)
  PROVE  VerifyInv'
<1> USE DEF VerifyInv
<1>1. Idle \in RequestState /\ RequestOK(Idle)
  BY DEF Idle, RequestState, Means, RequestOK, AskingOK, Asking, AcceptedOK
<1>2. QED
  BY <1>1, GotoOK, CacheUnchanged DEF Leave

LEMMA RevokeInv ==
  ASSUME VerifyInv, NEW t \in Token, Revoke(t)
  PROVE  VerifyInv'
<1> USE DEF VerifyInv
<1>1. /\ revoked[t] = None /\ UNCHANGED <<now, entries, requests>>
      /\ revoked' \in [Token -> Nat \cup {None}]
      /\ \A u \in Token : revoked'[u] # None =>
            revoked'[u] = revoked[u] \/ (u = t /\ revoked'[u] = now)
      /\ \A u \in Token : revoked[u] # None => revoked'[u] = revoked[u]
  BY DEF Revoke, TypeOK
<1>2. TypeOK'
  BY <1>1 DEF TypeOK
<1>3. EntriesOK'
  <2> SUFFICES ASSUME NEW u \in Token, entries[u] # None, revoked'[u] # None
               PROVE  EntryOK(u)'
    BY <1>1 DEF EntriesOK, EntryOK
  <2>1. CASE revoked'[u] = revoked[u]
    BY <1>1, <2>1 DEF EntriesOK, EntryOK
  <2>2. CASE u = t /\ revoked'[u] = now
    <3>1. entries[u].until \in Nat /\ EntryOK(u)
      BY DEF TypeOK, Entry, EntriesOK
    <3>2. entries[u].until <= now + Timeout + Cap
      BY <3>1, LimitsAssumption DEF EntryOK, TypeOK
    <3>3. QED
      BY <1>1, <2>2, <3>1, <3>2 DEF EntryOK
  <2>3. QED
    BY <1>1, <2>1, <2>2
<1>4. RequestsOK'
  <2> SUFFICES ASSUME NEW r \in Request PROVE RequestOK(requests[r])'
    BY <1>1 DEF RequestsOK
  <2>1. RequestOK(requests[r]) /\ requests[r].since \in Nat
    BY DEF RequestsOK, TypeOK, RequestState
  <2>2. requests[r].at # "idle" /\ Cause(requests[r].token) => Cause(requests[r].token)'
    BY <1>1, <2>1 DEF Cause, RequestOK
  <2>3. AskingOK(requests[r])'
    BY <1>1, <2>1, <2>2 DEF RequestOK, AskingOK, Asking
  <2>4. AcceptedOK(requests[r])'
    BY <1>1, <2>1, LimitsAssumption DEF RequestOK, AcceptedOK, TypeOK
  <2>5. QED
    BY <1>1, <2>1, <2>2, <2>3, <2>4 DEF RequestOK
<1>5. HeldOK'
  BY <1>1 DEF HeldOK, Held
<1>6. QED
  BY <1>2, <1>3, <1>4, <1>5

LEMMA TickInv ==
  ASSUME VerifyInv, Tick
  PROVE  VerifyInv'
<1> USE DEF VerifyInv
<1>1. now \in Nat /\ now' = now + 1 /\ UNCHANGED <<revoked, entries, requests>>
  BY DEF Tick, TypeOK
<1>2. TypeOK'
  BY <1>1 DEF TypeOK
<1>3. EntriesOK'
  <2> SUFFICES ASSUME NEW u \in Token, entries[u] # None PROVE EntryOK(u)'
    BY <1>1 DEF EntriesOK, EntryOK
  <2>1. entries[u].until \in Nat /\ EntryOK(u)
    BY DEF TypeOK, Entry, EntriesOK
  <2>2. QED
    BY <1>1, <2>1, LimitsAssumption DEF EntryOK
<1>4. RequestsOK'
  <2> SUFFICES ASSUME NEW r \in Request PROVE RequestOK(requests[r])'
    BY <1>1 DEF RequestsOK
  <2>1. RequestOK(requests[r]) /\ requests[r].since \in Nat
    BY DEF RequestsOK, TypeOK, RequestState
  <2>2. requests[r].at \notin Verdicts
    BY DEF Tick
  <2>3. requests[r].at \in Asking => now < requests[r].since + Timeout
    BY DEF Tick, Asking
  <2>4. requests[r].at # "idle" /\ Cause(requests[r].token) => Cause(requests[r].token)'
    BY <1>1, <2>1, TokensAssumption DEF Cause, RequestOK
  <2>5. AskingOK(requests[r])'
    BY <1>1, <2>1, <2>3, <2>4, LimitsAssumption DEF RequestOK, AskingOK, Asking
  <2>6. QED
    BY <1>1, <2>1, <2>2, <2>5 DEF RequestOK, AcceptedOK, Verdicts
<1>5. HeldOK'
  BY <1>1 DEF HeldOK, Held
<1>6. QED
  BY <1>2, <1>3, <1>4, <1>5

LEMMA NextVerifyInv ==
  ASSUME VerifyInv, [Next]_vars
  PROVE  VerifyInv'
<1>1. CASE Next
  BY <1>1, ArriveInv, VerifyJwtInv, JwtFailsInv, SayInv, HearInv, BreakInv, LeaveInv,
     RevokeInv, TickInv
     DEF Next
<1>2. CASE UNCHANGED vars
  BY <1>2 DEF vars, VerifyInv, TypeOK, RequestsOK, RequestOK, AskingOK, AcceptedOK,
              Cause, EntriesOK, EntryOK, HeldOK, Held
<1>3. QED
  BY <1>1, <1>2

LEMMA VerifyInvariance == Spec => []VerifyInv
<1>1. VerifyInv /\ [Next]_vars => VerifyInv'
  BY NextVerifyInv
<1>2. QED
  BY InitVerifyInv, <1>1, PTL DEF Spec

-----------------------------------------------------------------------------
(* Theorems *)

\* The state of the cache and of the requests is always well formed.
THEOREM VerifyTypesHold == Spec => []TypeOK
<1>1. VerifyInv => TypeOK
  BY DEF VerifyInv
<1>2. QED
  BY <1>1, VerifyInvariance, PTL

\* No request is let in on a token that had expired by then.
THEOREM ExpiredNeverAccepted == Spec => []NoExpiredAccepted
<1>1. VerifyInv => NoExpiredAccepted
  BY DEF VerifyInv, NoExpiredAccepted, RequestsOK, RequestOK, AcceptedOK, At
<1>2. QED
  BY <1>1, VerifyInvariance, PTL

\* A token the provider vouched for is accepted for at most the cap and one
\* request's timeout after its revocation.
THEOREM RevocationAlwaysNoticed == Spec => []RevocationNoticed
<1>1. VerifyInv => RevocationNoticed
  BY DEF VerifyInv, RevocationNoticed, RequestsOK, RequestOK, AcceptedOK, At
<1>2. QED
  BY <1>1, VerifyInvariance, PTL

\* The cache never holds more than one entry above its limit.
THEOREM CacheAlwaysBounded == Spec => []CacheBounded
<1>1. VerifyInv => CacheBounded
  BY DEF VerifyInv, CacheBounded, HeldOK
<1>2. QED
  BY <1>1, VerifyInvariance, PTL

\* Where the provider can be asked, a token is turned away only for a cause of
\* its own, never for a fault upstream.
THEOREM RejectedOnlyForCause == Spec => []RejectedForCause
<1>1. VerifyInv => RejectedForCause
  BY DEF VerifyInv, RejectedForCause, RejectedForOwnCause, RequestsOK, RequestOK, Cause, At
<1>2. QED
  BY <1>1, VerifyInvariance, PTL
=============================================================================
