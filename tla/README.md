# spliit-mcp in TLA+

spliit-mcp puts a login and an MCP server in front of Spliit instances. A user
registers the Spliit groups they belong to, pins the participant they are in
each, and from then on tools called by a language model act on those groups as
that participant. Paths below are relative to the repository.

This directory specifies the parts of the program whose correctness depends on
the order of steps: what several requests, other people in Spliit, a slow
provider, a second replica or a failure can do between two steps of one request.
One module is about functions rather than steps: what a pasted link or a
participant's name is taken to mean.

Contents: [inventory](#inventory) - [modules](#modules) -
[correspondence](#correspondence-to-the-code) - [runs](#runs) -
[fairness](#fairness) - [proofs](#proofs) - [findings](#what-does-not-hold) -
[limits](#what-is-not-modelled-and-why) - [what is left](#what-is-left)

## Inventory

One process serves an MCP endpoint (bearer tokens), a config page with a JSON API
(session cookies), and talks to two kinds of outside service: the OIDC provider
and the Spliit instances. Several replicas may share one database. Handlers are
goroutines; **nothing is locked between two statements or two upstream requests
of a handler**, there is no transaction outside migrations, and the only
mutex-protected state is the verification cache and the map of upstream clients.

| component | state | operations | modelled in |
|---|---|---|---|
| Store (`internal/store`, `internal/db/migrations`) | tables users, groups | UpsertUser, SetDisplayName, Set/ClearDefaultGroup, DefaultGroup, ListGroups, ResolveGroup, Insert/Update/DeleteGroup | Store |
| Membership and setup tools (`internal/mcp`) | none of their own; the row each call resolved | create_group, join_group, leave_group, set_active_participant, set_default_group, update_group, inspect_group | GroupTools |
| Config-page API (`internal/handlers/api.go`) | none | the same from a browser, by internal ID | GroupTools |
| Expense tools (`internal/mcp`) | none; the expense or page each call read | create_, update_, delete_, list_expenses, and tools that read one answer | ExpenseTools |
| Bearer token verification (`internal/oidc`) | the cache of verified tokens | TokenVerifier: verifyJWT, introspect, get, put | VerifyCache |
| Login, sessions, settings (`internal/handlers/auth.go`) | tables users, sessions; cookies | login callback, RequireSession, logout, hourly purge, UpdateMe | Login |
| Schema migrations (`internal/db/db.go`) | schema_migrations | Open, Migrate, applyMigration | Migrate |
| Spliit client, URL helpers (`internal/spliit`) | a map of clients | one request each; links, IDs, names, amounts | Inputs (links, IDs and names) |
| OIDC discovery and state cookies (`internal/oidc`) | start-up configuration; cookie keys | discovery; redirect flow of the library | Login (the state cookie) |
| Process life cycle (`cmd/spliit-mcp`) | none | serve, migrate, purge, shutdown | Migrate, Login (start, purge, restart) |
| HTTP server, metadata; configuration; web front end | none the server depends on | routing; reading a file once | no |

How they interact. A tool call passes token verification, finds its user by the
subject, resolves a group of *that user* in the store (by alias, internal ID,
Spliit ID, or the default), sends one or more requests to the Spliit instance the
row names, and writes to the store. The config page does the same behind a
session. Spliit is shared with people who use it directly.

What is hard, and what correctness means, per component:

- **Store.** Uniqueness is enforced by two constraints and ownership by WHERE
  clauses; the default group is a foreign key without the owner in it. Correct
  means: unique keys per user, a default that is always the user's own row, rows
  that keep their identity for life, a reference by alias that means one group;
  in short, the access contract of module Access.
- **Membership tools and page.** A row read at the start of a call is written back
  at its end, every column of it; a participant list read in one request is
  replaced in the next; a group exists in Spliit before it is recorded. Correct
  means: what a call holds stays its caller's, pins stay within their group,
  nothing made is lost, an edit changes what it was asked to and drops nobody it
  should keep.
- **Expense tools.** Duplicate check and list page by offset while others insert
  and delete; an update replaces an expense built from an earlier read. Correct
  means: what stood still throughout is not overlooked, and what was not named is
  not changed.
- **Token verification.** The cache trusts an answer that was true some time ago.
  Correct means: no expired token accepted, bounded staleness of a revocation,
  bounded memory, and no upstream fault presented as a bad credential.
- **Login, sessions.** First logins race on a primary key; a login may begin on one
  replica and end on another, or on the same one after a restart; replicas decide by
  their own clocks when a session is over. Correct means: a login in time is
  understood wherever it arrives, it leaves the user's settings alone, no session is
  accepted after its end nor purged before it, none stays for ever, and a refused
  settings request has changed nothing.
- **Migrations.** Replicas of several builds start together; a process dies between
  two migrations or inside one; losing a race is an error. Correct means: every
  migration applied once and in order, nobody serves over a schema older than its
  build, and restarts finish the work.
- **Links and names.** A group is named by a link, an ID and a server URL; a participant
  by a name whose case is ignored by the service and not by Spliit. Correct means: a
  shown link leads back to its group, a pasted one to no other, an edit does to each
  participant what was asked of the name they went by, and the caller's own pin is
  the caller.

`PROJECT.json` lists every hazard at its line, with the properties that cover it.

## Modules

```
Access                      what membership promises
  ^ implements
Store        <- StoreProofs       one action per SQL statement
  ^ EXTENDS, implements
  |- GroupTools <- GroupToolsProofs  handlers: statements and upstream requests
  |- Login      <- LoginProofs       logins, sessions, settings, replicas

Schema                      one version, moving up by one
  ^ implements
Migrate      <- MigrateProofs     processes that start over one database

VerifyCache  <- VerifyCacheProofs bearer tokens, cache, provider, clock
ExpenseTools <- ExpenseProofs     calls that page through or rewrite expenses
Inputs       <- InputsProofs      what links and names mean
```

The `MC*` modules extend a specification and give values to its constants; each
`.cfg` is one question. A definition whose name has an underscore
(`Operation_Bug`) is a mutated form of the definition before the underscore: a
bug that code could have. No specification uses these; replacing the definition
by its mutant must break the property `PROJECT.json` pairs it with, which shows
that the property depends on the code and not on the shape of the model.

## Correspondence to the code

`PROJECT.json` maps every definition to its lines; this is the reading guide.

**Store.** `users` is the users table reduced to display name and
default_group_id; `rows` the groups table reduced to owner, instance, Spliit ID,
alias and participant, `None` where the row names nobody (the column's empty text);
`issued` remembers row IDs handed out (uuid.NewString does not repeat). An action is one statement and is enabled exactly when the
statement succeeds. `ResolveGroup` and `DefaultGroup` return the *set* of rows the
query may return: with LIMIT 1 and several rows by ID, either one. Deleting a row
clears the defaults that point at it (ON DELETE SET NULL).

**GroupTools.** `calls[c]` is one request being handled: which step comes next
(`at`, named for the step that will be taken), the user, the row ID, the group it
talks to, the alias and pin it will write, and for update_group the participants it
keeps, and whether it adds one. One action is one SQL statement or one upstream request,
with the decision the code takes on its answer; a call that fails returns to
`Blank`, and only what it had already done stays. `asked` is what the caller asked
to change. `spliit` is the outside world: in each group a participant is unborn,
idle, spent (has expenses) or gone. `told` are the groups made through the service
whose ID a call returned to its user, in an answer or an error message.
Handlers that touch the store once (page: delete, default) are one action.
Reading a group back only for its names is merged with the request before it,
since nothing but the names depends on it; that it may fail is kept (`readback`).

**Login.** Extends Store, whose `users` and `rows` it shares with `OtherHandler`, the
rest of the service coming and going with groups. `flows` are logins that have not
come back from the provider, `jar` the one state cookie each browser has, `keys` the
number of times a process has drawn its own cookie keys. A call is one callback or
one settings request: `read`, then `refresh` or `insert`, then `session` for a
callback (GetUser, the UPDATE or INSERT of UpsertUser, CreateSession); `enter`, `default`,
`name` for UpdateMe behind RequireSession. `now` is true time and `Clock(r)` that of a
replica, at most `Skew` ahead; which comparison is strict is kept as the SQL has it
(`Live`, `Expired`). `alone`, `born`, `since`, `did` and `ended` only remember. A failing
statement ends a call anywhere (`DbFails`), and takes the state cookie along when the
call was a callback, because the library deletes it with its answer. A logout
whose DELETE fails is answered like any other (`LogoutFails`).

**Migrate.** `proc[p]` is one process: `down`, at one of Migrate's statements, or serving;
`ships` is how many migrations its build has, numbered without gaps as the files are.
`applied` are the rows of schema_migrations and `changed` counts how often each
migration's SQL was really committed, which the table alone could not tell. A transaction is
`record`, `commit`: nobody sees it before `Commit`, and another process applying the
same migration waits (`Blocked`) or gives up. A commit may succeed
unheard. Every error ends the process, and starting it again, perhaps with
another build, is `Start`.

**Inputs.** A text is a scheme, a host and a path of segments; `DeriveBaseURL`,
`ExtractGroupID`, `WebURL`, `BaseFor` and the lookups by name are the functions of that name
on such texts. `rosters` are the groups in Spliit, each a set of participants; the order in which
Spliit lists them only decides which of several equal names a lookup finds, and a request looks
up everything in one answer, so a request picks one of the lookups of `Finds`. The loop of
renames is kept as a loop (`Renamed`), over the lookups in the group as it was. One action is one
whole request of one caller, since what may happen inside it is GroupTools' matter: that a
participant with expenses may not be removed is there, and which participant a name
means is here.

**ExpenseTools.** `ledger` is one group's expenses in Spliit: date, amount, payer,
way of sharing, whether repeated. IDs grow in the order of recording; Spliit lists
by date and then by recording, newest first (`Ahead`, and `Place` for the offset),
which the duplicate check's early stop relies on. `calls[c]` holds the form, the cursor and number of pages, what was
read, and what the client has been given. `stood` is a history variable: the
expenses a call could count on seeing, taken when it begins and reduced by
whatever changes an expense or moves it forward. The group's resolution is left to
GroupTools. The check's failure lets the expense through, as the code does.

**VerifyCache.** `now` ticks; `entries` is the map with `until` (the cache's
deadline) and `exp` (the token's); `requests[r]` is one bearer request: verifying,
waiting for the provider, holding an answer that is still travelling (`active`,
`inactive`), or answered. `Say` is when the provider makes up its mind, `Hear` when
the answer arrives and is cached, so anything may happen between them. `Tick` is
disabled while a provider request is at its timeout and while a verdict is being
delivered. The Go code compares times in three ways (a hit is good *until and at*
its deadline, put refuses a deadline that is *not after* now, the middleware rejects
*after* expiry); the model keeps each comparison as written.

## Runs

| run | instance | shows |
|---|---|---|
| store | 2 users, 2 instances, 2 group IDs, 2 aliases (one equal to a group ID), 3 row IDs | the tables stay consistent, an alias always wins, rows keep their identity, and the tables implement Access |
| membership | 2 users, 2 calls side by side even of one user, all tools but update_group, an alias equal to a group ID, every failure | every handler step is one store statement or none; what a call holds is its caller's; pins stay inside their group |
| create | 1 user, 2 calls, alias a1 then a2 as candidates, other joins and leaves, no failures, fairness | a group that was made is recorded or its ID told, and the call ends |
| edit | 2 users, 2 calls, also both of one user, who join, leave, re-pin and edit; edits made in Spliit, failed read-backs | what a call holds is its caller's; no edit removes the participant its caller was when it began |
| tokens | 4 tokens (signed, opaque, without stated expiry, for another service), 2 requests, cap = timeout = 1 tick, 3 ticks, cache limit 1 | no expired token accepted, revocation noticed in time, cache bounded, rejection only for cause |
| expenses | 3 expenses on 3 dates, 2 calls, window 1, pages of 1, at most 2 pages, failures | the duplicate check and an unfiltered list overlook nothing that stood; splits are not flattened |
| login | 1 user, 1 browser, 2 logins, 2 sessions, 2 replicas one tick apart, 2 calls, lifetimes of 2 ticks, a secret, failures and restarts, fairness of the purge | logins are understood, leave settings alone and use the tables as the store allows; sessions are admitted and kept in time and in the end purged; a refused request changes nothing |
| migrate | 3 processes, builds of 1 to 3 migrations, the second repeatable, 3 failures beside the races, fairness | every migration once and in order, nobody serves over an older schema, and all serve in the end |
| inputs | 3 instances, two of them under one host, one ID on all of them, links with and without scheme and tail, names equal up to case and one with a blank before it, edits of up to 3 changes, 2 requests | links lead back, names mean whom they should, the caller's pin is the caller |
| stranded, spent, pages | the smallest that shows it | a counterexample each, [below](#what-does-not-hold) |

Why the bounds are enough:

- Every store constraint relates two rows, and every query one user's rows. Two users with
  three rows between them give a pair for each constraint, a row of somebody else,
  and a fresh row ID after a delete. Row IDs are consumed and never reused, so
  `IdLeft` starts an inserting call only while an ID is left for it.
- Every race the handlers have is between one call's two steps and *one* other
  action, so two concurrent calls with people in Spliit beside them produce it.
  No run serializes a user's calls, because nothing in the code does.
- `HeldRowsAreOwn` is a property of two runs: `membership` has every tool but
  update_group, `edit` has that one, and together their steps are all of `Next`.
- Ten alias attempts are two here: the loop's first, next and last attempt differ,
  and with two candidates each of them occurs.
- The cache limit of one is exceeded by two tokens and swept or cleared by a third.
  Three ticks with a cap and a timeout of one let a token be vouched for, revoked, lapse
  and be asked about again, and let a stale answer arrive as late as it can.
- Three expenses on three dates with a page of one give a first, a middle and a
  last page and one on either side of the window. Two pages as the limit make
  both ends of the check (list exhausted, pages exhausted) occur. An amount or
  person more would only multiply states: neither tool compares more than equality.
- A session or cookie with a lifetime of two ticks, three ticks and clocks one tick apart
  gives each comparison a value before, at and after its boundary by either
  clock; a login is surely in time if its callback comes within the first. Two calls are enough for two first logins to race and for a login, a
  logout or a purge to run beside a settings request, of which there is one at a
  time. Replicas, browsers and sessions never meet more than in pairs; the
  theorems say the same for any number.
- Three processes make one win, one lose and one arrive late; three migrations a first,
  one in the middle and a last, and a build behind and one ahead of the schema.
  Losing a race is not a failure that counts against `MaxStops`.
- Two requests are a join or creation and an edit of its group, or two joins whose
  targets could be confused. Three changes are needed for two names to be swapped
  while a third is added.

Deadlock is not checked: with row IDs, expense IDs or ticks used up and no call
running, these instances really stop, and so does the program when no client calls.

## Fairness

Three runs have liveness properties. In GroupTools `FairSpec` gives weak fairness to each
call's own next step: goroutines are scheduled, SQL statements end, and every
upstream request has the client's timeout. Clients, people in Spliit and failures
owe nothing. `CreateEnds` is checked without failures, where it says that however
aliases are taken meanwhile the attempts end with the ID in the user's hands.

In Login only `Purge` is fair: every running process has a ticker that fires every
hour, and a purge that fails is tried again at the next. `EventuallyPurged` says that
this alone clears the table, of sessions whose logout failed too; calls, browsers and
logins owe nothing.

In Migrate a process goes on to its next statement (statements end: a lock wait is
bounded by the engine or by the holder's own progress) and one that is down is started
again, which is what an orchestrator does and what `AllServe` needs: a process that loses
a race exits with an error by design. Failures of other kinds are bounded by `MaxStops`;
`AllServe` is about what happens after the last.

## Proofs

Theorems hold for every value of the constants under the named assumptions of the
modules: None is no row, ID or number; groups made outside the service share no
participant IDs; every alias has at least one candidate; limits, lifetimes and
differences of clocks are natural numbers, the cap, page sizes and the answer's limit
positive; an expense need not be repeated; a build ships a prefix of the migrations; an instance's
path ends in `/api/trpc` and has no segment `groups`;
a name's form without case and blanks is its own such form, and no name that a request lists
has blanks around it.

**StoreProofs.** `StoreInv` is inductive: types, unique keys, default is own, rows
have an issued ID and an existing owner. The last part is what makes the others
stable: an insert takes an unissued ID, so no default can already point at it.
From it: `StoreInvariance` with each of its parts, `RowIdentityHolds`, `FallbackAlwaysOwn`, and
`StoreImplementsAccess` with the refinement mapping `Reach`/`Fallback`. There,
deleting a row is a `Leave` only because no second row of the user links the same
group (`RowsUnique`), and inserting one is a `Register` for the same reason.

**GroupToolsProofs.** `ToolsInv` adds to `StoreInv`: types; `CallShape`, which says
what a call at each step carries; `HeldRowsAreOwn`; and that a pin a call is about
to write, like one that is stored, is a participant its group has had. The
argument has two halves. `EveryStepOK` goes through the actions once and shows that
each is one store statement or none, changes at most one call, to a state fit for
its step, and only adds participants. `StepInv` shows that any such step keeps the
invariant, with `HeldStays`: a row may vanish under a call, but `RowIdentity` and
never-reused IDs keep it from becoming somebody else's. From it
`ToolsImplementStore`, hence by the store's theorems `ToolsKeepRowIdentity` and
`ToolsImplementAccess`, and `HeldRowsAlwaysOwn`, `PinsAlwaysBelong`,
`ToolsTypesHold`. `NothingStrandedWithoutFaults` assumes `Faults = {}`, which is
what the run `stranded` shows to be needed.

About an edit, `CallerAlwaysStays`: no update_group removes the participant its row named when
the call resolved it. The guard in buildGroupForm is not enough for that, because `Replaced` drops
everybody who is neither carried nor added, and a caller who is not among those read is not
carried. `EditInv` closes the gap: at `EditPush` the caller is carried by ID, or pinned to nobody,
or gone already (`Spared`), and who is gone stays gone (`GoneStays`), whatever people in Spliit
do. That the pinned participant had been born when the form was made is `RowsBorn`, for stored rows and for held
ones. It says nothing of the pin *stored* by then, which another call of the user may have
changed, nor of those who get expenses in between: both fail (`StoredPinKept`, and `SpentStay` in the run `spent`).

**VerifyCacheProofs.** `VerifyInv` strengthens the four properties by what is on
its way to them: an answer still travelling was true when given, and a request has
not outlived its timeout (`RequestsOK`); an entry's deadline is neither beyond the
token's expiry nor beyond now + Cap, and one vouched for by the provider not beyond
revocation + Timeout + Cap (`EntriesOK`); the entries number at most MaxEntries + 1
(`HeldOK`). Without the first part an entry written from a late answer would be
unconstrained; with it, one cap and one timeout add up to the bound.
`RevocationAlwaysNoticed` is about tokens the provider was *asked* about; a JWT is
trusted to its expiry by design, and `RejectedOnlyForCause` needs introspection to
be available.

**LoginProofs.** `LoginInv` adds to `StoreInv` and the types: a session's expiry is its
lifetime away by some replica's clock (`SessionsOK`); a session that a logout deleted
never returns, because IDs are not reused (`EndedOK`); a settings request has done
nothing before its default group (`CallsOK`); and a login left alone still has its own
cookie, written when it began, unless its time is over (`JarOK`, with `BegunOK` for the
freshness of flows). A second tab's login takes the cookie of the first, so a login that is not
alone is outside it. `AdmittedRightly` and `KeptInTime` are the two sides of
`SessionsOK`, each off by at most `Skew`; `LoginUnderstood` is `JarOK` read with a secret.
`LoginImplementsStore` goes through the actions once, like `ToolsImplementStore`.

**MigrateProofs.** `MigrateInv`: the recorded versions have no gap (`NoGap`), so the
largest says which they are; a process about to apply a migration finds all earlier ones
applied (`InOrder`); two open transactions are of different migrations (`OneTx`), and one
about to commit is of a migration not recorded yet (`Uncommitted`), because its own
INSERT checked the key and nobody else could commit it since. `AppliedOnce` needs all four.
`MigrateImplementsSchema` maps the largest recorded version to Schema's.

**ExpenseProofs.** First what offsets in a list are, from cardinalities of what is listed ahead: places
are the numbers from 0 without a gap (`EveryPlace`), a page that is not the last is full
(`PageFull`), and one page fits an answer (`PageFits`). Then `ExpensesInv`: what a call
counts on is still listed, at its cursor or beyond, unless a page has shown it
(`CheckSound`, `ListSound`). Adding an expense moves nothing forward, and whatever a
removal moves forward the call no longer counts on (`StillPlace`, `OthersStill`). A check that
stops past its window may do so because what it seeks is listed ahead of what it
saw (`PlaceGrows`). `UnfilteredListsComplete` rests on the page of an unfiltered list
filling the answer exactly, which is why a filtered one is different (run `pages`).

**InputsProofs.** A link is a base's prefix, `groups`, an ID and a rest. The prefix contains no
`groups`, so the marker the code searches for is the one the link was built with
(`MarkerAfter`), and base and ID are read off around it (`LinkMeansItsGroup`): that is all of
`LinksLeadBack`, whatever Spliit's pages append. For edits, `After` writes down what
a loop of renames comes to: everybody has the name the last rename of them gives.
`RenamedIsAfter` shows that this satisfies the loop's recursion, and that nothing else does, because
two solutions would first differ somewhere: the least number of a set (`LeastNat`, from
the library's `WFMin`) stands in for the induction rule. `EditDoes` then compares what
was kept, renamed and added with what was asked. `InputsInv`, the inductive invariant, is that
IDs tell the participants of a group apart and none is beyond `minted` (otherwise a new participant
could be mistaken for an old one), that pins are in their roster, and that a pasted text
was answered with the group it means. `EditsDoAsAsked` is about groups whose names
differ beyond case: in others, Spliit's order decides, and the property says nothing.
`CallerAlwaysStands` needs no such condition, only that the caller's name has no blanks around it; that the pin is
somebody of the roster needs not even that.

Only model-checked: the three liveness properties, `CreateEnds`, `EventuallyPurged` and
`AllServe`, because the prover knows neither ENABLED nor fairness. Every invariant and
action property of the passing runs is also a theorem. Of `CreateEnds` the part that
needs no fairness is proved: by `HandlersAlwaysRunDown` each step of a call lowers a
number that nothing else changes (`StepsLeft`, the attempts left in registerGroup among
it), so a handler that is scheduled comes to its end however many others it meets.

## What does not hold

Each run named here ends in a counterexample to something the repository says.

- `stranded`: a failed read-back right after create_group loses the group's ID,
  which registerGroup's own comment says must not happen. The same for a database
  failure that is not a conflict.
- `spent`: update_group refuses to remove whoever had expenses when it read the group; one
  who gets an expense before the form is sent is removed, although the tool and the
  repository's README say that a participant with expenses cannot be.
- `pages`: a filtered list that fills up in the middle of a page hands out the cursor
  of the whole page; what matched in the rest of it is never returned.

More of what the repository says fails to hold. Each is stated as a formula where
the code it is about is modelled, and added to the instance named it gives a short
counterexample; none is checked by a run.

- update_group refuses to remove the participant its caller was when it began, but a caller who
  becomes somebody else meanwhile can be removed, and is left pinned to nobody in the group,
  which the test of the refusal gives as its reason (`StoredPinKept`, in `MCEdit.cfg`).
- It writes its row back whole, so that an alias or a participant changed meanwhile returns
  to what it was, although "only the fields you pass change" (`OnlyPassedChange`, in `MCEdit.cfg`).
- inspect_group's already_joined is looked up by the group's ID alone, so the same ID on another instance,
  or an alias equal to it, answers for a group that is not joined (`JoinedIsTrue`, in
  `MCMembership.cfg`).
- With JWKS only, a failed fetch of the provider's keys is answered like a bad token, which the code of
  introspection and the tests keep apart (`RejectedForOwnCause`, in `MCVerifyCache.cfg` with
  `HasIntrospection = FALSE`).
- An update that names one field ends an expense's repetition, makes the caller its payer when
  Spliit's answer does not nest one, and puts back what it read before somebody else's update,
  although "everything else is kept exactly as it is" (`RestKept`, in `VPages.cfg` with
  `Tools <- OnlyUpdate` and `Repeats = {TRUE, FALSE}`).

Seen while modelling, and promised nowhere:

- Two create_expense calls at once both pass the duplicate check (Spliit has no
  conditional create). The check also misses what lies beyond its ten pages, which its
  comment admits, and what a removal meanwhile moves onto a page it has read.
- Two first logins at once: one ends with an internal error, and the next try works.
- A second tab's login makes the first one fail, and a logout whose DELETE fails leaves
  a session that lives until it expires.
- Without a state secret a login does not survive a restart or a change of
  replica, as the code's comment says.
- A link pasted without its scheme is looked for on the default instance; an
  instance that lives under a path segment `groups` cannot be linked to.
- A display name taken from the provider may have blanks around it. The names listed beside it are
  trimmed before they are compared with it, so somebody listed by the same name is added
  too, and the pin is whichever of the two Spliit lists first.
- The version of a schema is the largest number recorded; that numbers have no gap is a
  property of the files shipped, which Migrate takes as given.

## What is not modelled, and why

- Titles, notes, categories, names, currencies, timestamps, formatting and answers'
  wording: no property here depends on them.
- The parsing of amounts and their rounding: a decimal library's; amounts are
  uninterpreted here, and shares of an expense with them. Blanks around links,
  ports and escapes in URLs: trimmed or carried along, never decided on.
- Tools that read one answer and change nothing (get_expense, balances, stats,
  activities, categories, list_groups, get_group, get_server_info) and read-only
  endpoints.
- OIDC discovery, PKCE and the code exchange: the library's, present in Login as a
  callback that is understood or not and an exchange that may fail. The userinfo
  request: its failure costs a name.
- The configuration, metadata documents, routing and the web front end: no state, or one
  computed once from a file.
- SQL engines beneath one statement, a clock that is set back, and what an old build
  makes of a newer schema's columns.

## What is left

The order of work was: the store and its access contract, the handlers over it, tokens,
expenses, logins, migrations, links and names. What would add to it:

1. The form of an expense: amounts as integers of a smaller unit, rounding after the
   zero check, and shares against a reference definition.
2. The composition of Login and GroupTools over one store, in place of `OtherHandler`
   and `SignUp`, in which each now stands for the other.
