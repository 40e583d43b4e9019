------------------------------- MODULE Inputs -------------------------------
(***************************************************************************)
(* What the service takes a text to mean: the links, IDs and server URLs   *)
(* that name a group (internal/spliit/client.go, baseURLFor and            *)
(* resolveBaseURL), and the names by which callers speak of participants   *)
(* when they join, create and edit a group (internal/mcp/tools.go and the  *)
(* config page's buildGroupForm).                                          *)
(*                                                                         *)
(* A text is a scheme, a host and the segments of a path; one without      *)
(* "://" has neither scheme nor host, and a bare ID is a single segment.   *)
(* Every name of a request is trimmed; only a display name that the login  *)
(* took from the provider can have blanks around it.  One caller, whose    *)
(* requests end before the next begins: what happens in the middle of one  *)
(* is module GroupTools'.  `last' remembers the request just answered;     *)
(* nothing the code does depends on it.                                    *)
(* Definitions named Operation_Bug are mutants, as in module Store.        *)
(***************************************************************************)
EXTENDS Naturals, SequencesExt

CONSTANTS Instances,   \* base URLs at which a Spliit answers, as texts
          Default,     \* spliit.default_url, one of them
          Segment,     \* what may stand between two slashes of a path
          Gid,         \* group IDs, which are segments
          Founded,     \* groups made outside, by base and ID
          Name, Fold,  \* names, and each one's form without case and blanks
          Blanks,      \* names with blanks around them
          Residents,   \* the names in each founded group
          Texts,       \* what callers paste for a group
          Rests,       \* what Spliit's pages append to a group's link
          Guests,      \* lists of participants a group is created with
          Edits,       \* requests to update_group
          None,
          MaxRequests  \* bound: requests in a run

Group == [base : Instances, id : Gid]
Api == <<"api", "trpc">>
IsText(t) == /\ t = [scheme |-> t.scheme, host |-> t.host, path |-> t.path]
             /\ t.path \in Seq(Segment)

\* No instance lives under a path segment "groups".
ASSUME InstancesAssumption ==
    /\ Default \in Instances
    /\ \A b \in Instances : /\ IsText(b) /\ b # None
                            /\ "groups" \notin Range(b.path)
                            /\ IsSuffix(Api, b.path)
                            /\ b.scheme \in {"http", "https"}
ASSUME NamesAssumption ==
    /\ Fold \in [Name -> Name] /\ Blanks \subseteq Name
    /\ \A n \in Name : Fold[Fold[n]] = Fold[n]
    /\ Residents \in Seq(Name) /\ Residents # <<>> /\ IsInjective(Residents)
ASSUME TextsAssumption ==
    /\ \A t \in Texts : IsText(t)
    /\ Gid \cup {"groups", "api", "trpc"} \subseteq Segment
    /\ Rests \subseteq Seq(Segment)
    /\ None \notin {"http", "https"}
ASSUME InputsAssumption ==
    /\ Founded \subseteq Group
    /\ Guests \subseteq Seq(Name)
    /\ \A e \in Edits : /\ e.rename \in Seq([from : Name, to : Name])
                        /\ e.remove \subseteq Name /\ e.add \in Seq(Name)
                        /\ Blanks \cap Range(e.add) = {}
                        /\ \A q \in Range(e.rename) : q.to \notin Blanks
    /\ \A others \in Guests : Blanks \cap Range(others) = {}
    /\ MaxRequests \in Nat

VARIABLES rosters,   \* [Group -> set of participants, as id and name]
          joined,    \* groups the caller has a row for
          me,        \* [Group -> whom the row pins, or None]
          minted,    \* no participant's ID is beyond it
          requests,  \* answered so far
          last       \* the request just answered

vars == <<rosters, joined, me, minted, requests, last>>

-----------------------------------------------------------------------------
(* Links *)

\* The place of the first "groups", or 0.
Marker(t) == SelectInSeq(t.path, LAMBDA s : s = "groups")

DeriveBaseURL_Origin(t) ==
    IF t.scheme \in {"http", "https"} /\ Marker(t) # 0
    THEN [t EXCEPT !.path = Api] ELSE None
DeriveBaseURL(t) ==
    IF t.scheme \in {"http", "https"} /\ Marker(t) # 0
    THEN [t EXCEPT !.path = SubSeq(t.path, 1, Marker(t) - 1) \o Api] ELSE None

\* A text in which nothing follows "groups" is returned whole, and no group has
\* that for an ID.
ExtractGroupID(t) ==
    IF t.scheme = None /\ Len(t.path) = 1 THEN t.path[1]
    ELSE IF Marker(t) \in 1 .. Len(t.path) - 1 THEN t.path[Marker(t) + 1] ELSE None

\* baseURLFor, resolveBaseURL: an explicit server wins over the link's.
BaseFor(server, t) ==
    IF server # None THEN server
    ELSE IF DeriveBaseURL(t) # None THEN DeriveBaseURL(t) ELSE Default

WebURL(g) ==
    LET p == g.base.path
        prefix == IF IsSuffix(Api, p) THEN SubSeq(p, 1, Len(p) - 2) ELSE p
    IN  [g.base EXCEPT !.path = prefix \o <<"groups", g.id>>]

\* The group a paste names.
Meant(server, t) == [base |-> BaseFor(server, t), id |-> ExtractGroupID(t)]

-----------------------------------------------------------------------------
(* Names *)

Ids(r)    == {p.id : p \in r}
Exists(g) == g \in Group /\ rosters[g] # {}

\* Whoever carries a name in r, up to case and the blanks around it.
Called(r, n) == {p.id : p \in {q \in r : Fold[q.name] = Fold[n]}}

\* findByName, FindParticipantByName: the first whose name is equal so far.
\* Spliit lists participants in an order of its own, which decides between those
\* whose names are equal, and for one request decides it once.
Finds(r) ==
    {f \in [Range(Fold) -> Ids(r) \cup {None}] :
        \A n \in Range(Fold) : IF Called(r, n) = {} THEN f[n] = None
                                ELSE f[n] \in Called(r, n)}

ToolOthers_All(own, others) == DOMAIN others
\* The lists' names are trimmed and the caller's is not.
SameAsOwn(own, name) == own \notin Blanks /\ Fold[name] = Fold[own]
\* create_group leaves out the caller's own name.
ToolOthers(own, others) == {i \in DOMAIN others : ~SameAsOwn(own, others[i])}

\* The config page leaves out every name it has had already.
WebOthers(own, others) ==
    {i \in DOMAIN others :
        /\ ~SameAsOwn(own, others[i])
        /\ \A j \in 1 .. i - 1 : Fold[others[j]] # Fold[others[i]]}

\* Participants for some of a list of names, with the IDs Spliit gives them.
Made(names, which) == {[id |-> minted + i, name |-> names[i]] : i \in which}

\* Spliit refuses a group in which two names are the same to the letter.
Accepted(form) ==
    form # {} /\ \A p, q \in form : p.name = q.name => p = q

Rename(r, id, to) ==
    {[p EXCEPT !.name = IF p.id = id THEN to ELSE @] : p \in r}

Renamed_InTurn(r, f, asked) ==
    LET now[i \in 0 .. Len(asked)] ==
            IF i = 0 THEN r
            ELSE Rename(now[i - 1],
                        CHOOSE id \in Called(now[i - 1], asked[i].from) \cup {None} :
                            id # None \/ Called(now[i - 1], asked[i].from) = {},
                        asked[i].to)
    IN  now[Len(asked)]
\* Whom each rename speaks of is looked up in the group as it was.
Renamed(r, f, asked) ==
    LET now[i \in 0 .. Len(asked)] ==
            IF i = 0 THEN r
            ELSE Rename(now[i - 1], f[Fold[asked[i].from]], asked[i].to)
    IN  now[Len(asked)]

\* The removals too; neither may miss, and nobody removes themselves.
Cut(f, asked) == {f[Fold[n]] : n \in asked.remove}
Unknown(f, asked) ==
    \E n \in asked.remove \cup {q.from : q \in Range(asked.rename)} :
        f[Fold[n]] = None

Kept(r, f, asked) ==
    {p \in Renamed(r, f, asked.rename) : p.id \notin Cut(f, asked)}

\* An added name may not be there already, as an addition before it included.
Clash(kept, add) ==
    \E i \in DOMAIN add :
        Fold[add[i]] \in {Fold[p.name] : p \in kept}
                            \cup {Fold[add[j]] : j \in 1 .. i - 1}

-----------------------------------------------------------------------------

Answered(kind, g) == [kind |-> kind, group |-> g]

Init ==
    /\ rosters = [g \in Group |->
          IF g \in Founded
          THEN {[id |-> i, name |-> Residents[i]] : i \in DOMAIN Residents}
          ELSE {}]
    /\ joined = {}
    /\ me = [g \in Group |-> None]
    /\ minted = Len(Residents)
    /\ requests = 0
    /\ last = Answered("none", None)

\* join_group names the participant, the config page sends the ID it was shown;
\* inspect_group and the page's preview read a text in the same way.
Join(server, t, id) ==
    LET g == Meant(server, t) IN
    /\ Exists(g) /\ g \notin joined
    /\ id \in Ids(rosters[g])
    /\ joined' = joined \cup {g}
    /\ me' = [me EXCEPT ![g] = id]
    /\ last' = [kind |-> IF server = None THEN "paste" ELSE "join",
                group |-> g, text |-> t]
    /\ UNCHANGED <<rosters, minted>>

JoinByName(server, t, you) ==
    /\ Exists(Meant(server, t))
    /\ \E id \in Called(rosters[Meant(server, t)], you) : Join(server, t, id)

\* The new group's row pins whom the caller's name then finds.
Create(g, own, others, which) ==
    LET self == [id |-> minted + Len(others) + 1, name |-> own]
        form == {self} \cup Made(others, which)
    IN
    /\ ~Exists(g) /\ Accepted(form)
    /\ rosters' = [rosters EXCEPT ![g] = form]
    /\ \E f \in Finds(form) : me' = [me EXCEPT ![g] = f[Fold[own]]]
    /\ joined' = joined \cup {g}
    /\ minted' = self.id
    /\ last' = [kind |-> "create", group |-> g, own |-> self]

Nothing == [scheme |-> None, host |-> None, path |-> <<>>]
\* The caller goes by their display name, or on the page by a name typed there.
ToolCreate(server, id, own, others) ==
    Create([base |-> BaseFor(server, Nothing), id |-> id],
           own, others, ToolOthers(own, others))
WebCreate(server, id, own, others) ==
    Create([base |-> BaseFor(server, Nothing), id |-> id],
           own, others, WebOthers(own, others))

\* update_group with the form of buildGroupForm; a request that it or Spliit
\* refuses changes nothing.
Update(g, asked) ==
    LET r == rosters[g] IN
    /\ \E f \in Finds(r) :
          LET form == Kept(r, f, asked) \cup Made(asked.add, DOMAIN asked.add) IN
          /\ ~Unknown(f, asked) /\ me[g] \notin Cut(f, asked)
          /\ ~Clash(Kept(r, f, asked), asked.add)
          /\ Accepted(form)
          /\ rosters' = [rosters EXCEPT ![g] = form]
    /\ minted' = minted + Len(asked.add)
    /\ last' = [kind |-> "edit", group |-> g, before |-> r, asked |-> asked]
    /\ UNCHANGED <<joined, me>>

Next ==
    /\ requests < MaxRequests
    /\ requests' = requests + 1
    /\ \/ \E server \in Instances \cup {None} :
             \/ \E t \in Texts :
                   \/ \E you \in Name : JoinByName(server, t, you)
                   \/ \E id \in 1 .. minted : Join(server, t, id)
             \/ \E id \in Gid, own \in Name, others \in Guests :
                   \/ ToolCreate(server, id, own, others)
                   \/ WebCreate(server, id, own, others)
       \/ \E g \in joined, asked \in Edits : Update(g, asked)

Spec == Init /\ [][Next]_vars

-----------------------------------------------------------------------------
(* Properties *)

\* Spliit's own addresses: the pages of a group are under it.
Opens(t, g) ==
    /\ t.scheme = g.base.scheme /\ t.host = g.base.host
    /\ IsPrefix(SubSeq(g.base.path, 1, Len(g.base.path) - 2) \o <<"groups", g.id>>,
                t.path)

\* The link shown for a group opens that group, and pasting it, or the address
\* of any page reached from it, names the same group of the same instance; and
\* a pasted address of a group's page is taken for no other group ("The two
\* must be inverses, or a link derived from a stored group would not reach the
\* group it came from").
LinkLeadsBack ==
    /\ \A g \in joined, rest \in Rests :
          LET t == [WebURL(g) EXCEPT !.path = @ \o rest]
          IN  Opens(t, g) /\ Meant(None, t) = g
    /\ last.kind = "paste" =>
          \A g \in Group : Opens(last.text, g) => last.group = g

Unambiguous(r) == \A p, q \in r : Fold[p.name] = Fold[q.name] => p = q
DoneAsAsked(r, asked, now) ==
    LET To(p)   == {i \in DOMAIN asked.rename : p.id \in Called(r, asked.rename[i].from)}
        Gone(p) == \E n \in asked.remove : p.id \in Called(r, n)
    IN  /\ \A p \in r :
              {q.name : q \in {k \in now : k.id = p.id}} =
                 IF Gone(p) THEN {}
                 ELSE {IF To(p) = {} THEN p.name ELSE asked.rename[Max(To(p))].to}
        /\ \A q \in now : q.id \notin Ids(r) => q.name \in Range(asked.add)
        /\ \A n \in Range(asked.add) :
              \E q \in now : q.id \notin Ids(r) /\ Called(now, n) = {q.id}

\* update_group does to each participant what was asked of the name that they
\* went by when it was asked, in whatever order the changes are listed and
\* whatever the other changes do to the names; those not named stay as they
\* are, and an added name means the added participant from then on.
EditAsAsked ==
    last.kind = "edit" /\ Unambiguous(last.before) =>
        DoneAsAsked(last.before, last.asked, rosters[last.group])

\* The row of a group its caller made pins the participant made for them,
\* whatever other names are listed (not so where the display name has blanks
\* around it: somebody listed by the same name is then not left out); and no
\* edit takes the pinned participant away.
CallerStands ==
    /\ last.kind = "create" /\ last.own.name \notin Blanks =>
          me[last.group] = last.own.id
    /\ \A g \in joined : me[g] \in Ids(rosters[g])
=============================================================================
