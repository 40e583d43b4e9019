---------------------------- MODULE InputsProofs ----------------------------
(***************************************************************************)
(* Theorems about module Inputs, for any instances, names, pastes and      *)
(* requests: a group's link leads back to it, an edit does what was asked  *)
(* of the names as they were, and the caller's row pins the caller.        *)
(*                                                                         *)
(* A path is its base's prefix, "groups", an ID and a rest; the prefix has *)
(* no "groups" (InstancesAssumption), so the first one is the marker       *)
(* (MarkerAfter) and the base and the ID are read off around it            *)
(* (LinkMeansItsGroup).  The loop of renames is a recursive function: what *)
(* it comes to is written down (After), shown to satisfy the recursion,    *)
(* and shown to be all that does, since two solutions would first differ   *)
(* somewhere (LeastNat).  The rest is the inductive invariant InputsInv    *)
(* and one lemma for each action.                                          *)
(***************************************************************************)
EXTENDS Inputs, WellFoundedInduction, TLAPS

-----------------------------------------------------------------------------
(* Sequences and paths *)

LEMMA Appended ==
    ASSUME NEW S, NEW s \in Seq(S), NEW t \in Seq(S)
    PROVE  /\ s \o t \in Seq(S) /\ Len(s \o t) = Len(s) + Len(t)
           /\ Len(s) \in Nat /\ Len(t) \in Nat
           /\ \A i \in 1 .. Len(s) : (s \o t)[i] = s[i]
           /\ \A i \in 1 .. Len(t) : (s \o t)[Len(s) + i] = t[i]
OBVIOUS

LEMMA AppendedTwo ==
    ASSUME NEW S, NEW s \in Seq(S), NEW t \in Seq(S), Len(t) = 2
    PROVE  /\ s \o t \in Seq(S) /\ Len(s \o t) = Len(s) + 2
           /\ \A i \in 1 .. Len(s) : (s \o t)[i] = s[i]
           /\ (s \o t)[Len(s) + 1] = t[1] /\ (s \o t)[Len(s) + 2] = t[2]
<1>1. 1 \in 1 .. Len(t) /\ 2 \in 1 .. Len(t)
  OBVIOUS
<1> QED
  BY <1>1, Appended

LEMMA WithPath ==
    ASSUME NEW t, NEW x,
           t = [scheme |-> t.scheme, host |-> t.host, path |-> t.path]
    PROVE  [t EXCEPT !.path = x] =
               [scheme |-> t.scheme, host |-> t.host, path |-> x]
<1>1. \A a, b, c : [[scheme |-> a, host |-> b, path |-> c] EXCEPT !.path = x] =
                     [scheme |-> a, host |-> b, path |-> x]
  OBVIOUS
<1> DEFINE E(r) == [r EXCEPT !.path = x]
<1>2. \A a, b, c : E([scheme |-> a, host |-> b, path |-> c]) =
                     [scheme |-> a, host |-> b, path |-> x]
  BY <1>1
<1>3. E(t) = E([scheme |-> t.scheme, host |-> t.host, path |-> t.path])
  OBVIOUS
<1> QED
  BY <1>2, <1>3

LEMMA Shortened ==
    ASSUME NEW S, NEW s \in Seq(S), NEW n \in 0 .. Len(s)
    PROVE  /\ SubSeq(s, 1, n) \in Seq(S) /\ Len(SubSeq(s, 1, n)) = n
           /\ \A i \in 1 .. n : SubSeq(s, 1, n)[i] = s[i]
OBVIOUS

LEMMA SameSequence ==
    ASSUME NEW S, NEW s \in Seq(S), NEW t \in Seq(S), Len(s) = Len(t),
           \A i \in 1 .. Len(s) : s[i] = t[i]
    PROVE  s = t
OBVIOUS

LEMMA ApiIsPath ==
    Api \in Seq(Segment) /\ Len(Api) = 2 /\ Api[1] = "api" /\ Api[2] = "trpc"
<1>1. "api" \in Segment /\ "trpc" \in Segment
  BY TextsAssumption
<1> QED
  BY <1>1 DEF Api

\* The path of a base URL ends in /api/trpc.
LEMMA ApiEnds ==
    ASSUME NEW p \in Seq(Segment), IsSuffix(Api, p)
    PROVE  Len(p) \in Nat /\ Len(p) >= 2 /\ p = SubSeq(p, 1, Len(p) - 2) \o Api
<1>1. Len(p) \in Nat
  OBVIOUS
<1>2. /\ Len(Reverse(Api)) = 2 /\ Reverse(Api)[1] = "trpc" /\ Reverse(Api)[2] = "api"
      /\ Reverse(Api) \in Seq(Segment)
  <2> DEFINE e == Reverse(Api)
  <2>1. e = [i \in 1 .. 2 |-> Api[(2 - i) + 1]]
    BY ApiIsPath DEF Reverse
  <2>2. e[1] = "trpc" /\ e[2] = "api"
    BY ApiIsPath, <2>1
  <2>3. "api" \in Segment /\ "trpc" \in Segment
    BY TextsAssumption
  <2>4. \A i \in 1 .. 2 : e[i] \in Segment
    <3>1. \A i \in 1 .. 2 : i = 1 \/ i = 2
      OBVIOUS
    <3> QED
      BY ApiIsPath, <2>2, <2>3, <3>1
  <2>5. e \in [1 .. 2 -> Segment]
    BY <2>1, <2>4
  <2> HIDE DEF e
  <2>6. e \in Seq(Segment) /\ Len(e) = 2
    BY <2>1, <2>5
  <2> QED
    BY <2>2, <2>6 DEF e
<1>3. /\ Len(Reverse(p)) = Len(p) /\ Reverse(p) \in Seq(Segment)
      /\ \A i \in 1 .. Len(p) : Reverse(p)[i] = p[Len(p) - i + 1]
  BY <1>1 DEF Reverse
<1>4. Len(p) >= 2 /\ SubSeq(Reverse(Api), 1, 2) = SubSeq(Reverse(p), 1, 2)
  BY <1>1, <1>2, <1>3 DEF IsSuffix, IsPrefix
<1>5. Reverse(p)[1] = "trpc" /\ Reverse(p)[2] = "api"
  <2>1. /\ SubSeq(Reverse(Api), 1, 2)[1] = "trpc"
        /\ SubSeq(Reverse(Api), 1, 2)[2] = "api"
    BY <1>2
  <2>2. /\ SubSeq(Reverse(p), 1, 2)[1] = Reverse(p)[1]
        /\ SubSeq(Reverse(p), 1, 2)[2] = Reverse(p)[2]
    BY <1>1, <1>3, <1>4
  <2> QED
    BY <1>4, <2>1, <2>2
<1>6. p[Len(p)] = "trpc" /\ p[Len(p) - 1] = "api"
  BY <1>1, <1>3, <1>4, <1>5
<1>7. p = SubSeq(p, 1, Len(p) - 2) \o Api
  <2> DEFINE n == Len(p) - 2
             q == SubSeq(p, 1, n)
  <2>1. n \in 0 .. Len(p) /\ Len(p) = n + 2 /\ n \in Nat
    BY <1>1, <1>4
  <2>2. q \in Seq(Segment) /\ Len(q) = n /\ \A i \in 1 .. n : q[i] = p[i]
    BY <2>1, Shortened
  <2> HIDE DEF n, q
  <2>3. /\ q \o Api \in Seq(Segment) /\ Len(q \o Api) = n + 2
        /\ \A i \in 1 .. n : (q \o Api)[i] = q[i]
        /\ (q \o Api)[n + 1] = "api" /\ (q \o Api)[n + 2] = "trpc"
    BY <2>2, ApiIsPath, AppendedTwo
  <2>4. p[n + 1] = "api" /\ p[n + 2] = "trpc"
    <3>1. n + 2 = Len(p) /\ n + 1 = Len(p) - 1
      BY <1>1 DEF n
    <3> QED
      BY <1>6, <3>1
  <2>5. \A i \in 1 .. Len(p) : p[i] = (q \o Api)[i]
    <3> SUFFICES ASSUME NEW i \in 1 .. Len(p) PROVE p[i] = (q \o Api)[i]
      OBVIOUS
    <3>1. i \in 1 .. n \/ i = n + 1 \/ i = n + 2
      BY <2>1
    <3> QED
      BY <2>2, <2>3, <2>4, <3>1
  <2>6. p = q \o Api
    BY <2>1, <2>3, <2>5, SameSequence
  <2> QED
    BY <2>6 DEF q, n
<1> QED
  BY <1>1, <1>4, <1>7

\* The marker of a link to a group is the first segment after its base.
LEMMA MarkerAfter ==
    ASSUME NEW q \in Seq(Segment), "groups" \notin Range(q),
           NEW t, t.path \in Seq(Segment),
           Len(t.path) > Len(q), t.path[Len(q) + 1] = "groups",
           \A i \in 1 .. Len(q) : t.path[i] = q[i]
    PROVE  Marker(t) = Len(q) + 1
<1> DEFINE I == {i \in 1 .. Len(t.path) : t.path[i] = "groups"}
           m == Len(q) + 1
<1>1. Len(q) \in Nat /\ Len(t.path) \in Nat
  OBVIOUS
<1>2. m \in I
  BY <1>1
<1>3. \A i \in 1 .. Len(q) : q[i] # "groups"
  BY DEF Range
<1>4. \A i \in I : m <= i
  BY <1>1, <1>3
<1>5. I \subseteq Nat
  BY <1>1
<1>6. Min(I) = m
  <2> HIDE DEF m, I
  <2>1. \A x \in I : x \in Nat
    BY <1>5
  <2> QED
  BY <1>2, <1>4, <2>1 DEF Min
<1>7. Marker(t) = IF I # {} THEN Min(I) ELSE 0
  BY DEF Marker, SelectInSeq
<1> QED
  BY <1>2, <1>6, <1>7

-----------------------------------------------------------------------------
(* A link to a group, whatever follows it, means that group. *)

LEMMA LinkMeansItsGroup ==
    ASSUME NEW g \in Group, NEW t, IsText(t), Opens(t, g)
    PROVE  Meant(None, t) = g
<1> DEFINE p == g.base.path
           q == SubSeq(p, 1, Len(p) - 2)
           n == Len(q)
<1>1. /\ g = [base |-> g.base, id |-> g.id]
      /\ g.base \in Instances /\ g.id \in Gid /\ g.id \in Segment
  BY TextsAssumption DEF Group
<1>2. /\ p \in Seq(Segment) /\ IsSuffix(Api, p) /\ "groups" \notin Range(p)
      /\ g.base = [scheme |-> g.base.scheme, host |-> g.base.host, path |-> p]
      /\ g.base # None /\ g.base.scheme \in {"http", "https"}
  BY <1>1, InstancesAssumption DEF IsText
<1>3. Len(p) \in Nat /\ Len(p) >= 2 /\ p = q \o Api
  BY <1>2, ApiEnds
<1>4. /\ q \in Seq(Segment) /\ n \in Nat
      /\ \A i \in 1 .. n : q[i] = p[i] /\ i \in DOMAIN p
  <2>1. Len(p) - 2 \in 0 .. Len(p)
    BY <1>3
  <2> QED
    BY <1>2, <1>3, <2>1, Shortened
<1>5. "groups" \notin Range(q)
  <2>1. \A i \in 1 .. n : q[i] # "groups"
    BY <1>2, <1>4 DEF Range
  <2> QED
    BY <1>4, <2>1 DEF Range
<1> HIDE DEF q
<1>6. /\ t.path \in Seq(Segment) /\ t.scheme = g.base.scheme /\ t.host = g.base.host
      /\ t = [scheme |-> t.scheme, host |-> t.host, path |-> t.path]
      /\ IsPrefix(q \o <<"groups", g.id>>, t.path)
  BY DEF IsText, Opens, q
<1>7. /\ Len(t.path) \in Nat /\ Len(t.path) >= n + 2
      /\ t.path[n + 1] = "groups" /\ t.path[n + 2] = g.id
      /\ \A i \in 1 .. n : t.path[i] = q[i]
  <2> DEFINE tail == <<"groups", g.id>>
             w == q \o tail
  <2>1. /\ tail \in Seq(Segment) /\ Len(tail) = 2
        /\ tail[1] = "groups" /\ tail[2] = g.id
    <3>1. "groups" \in Segment
      BY TextsAssumption
    <3> QED
      BY <1>1, <3>1
  <2> HIDE DEF tail
  <2>2. /\ w \in Seq(Segment) /\ Len(w) = n + 2
        /\ \A i \in 1 .. n : w[i] = q[i]
        /\ \A i \in 1 .. 2 : w[n + i] = tail[i]
    BY <1>4, <2>1, Appended
  <2> HIDE DEF w
  <2>3. Len(w) <= Len(t.path) /\ SubSeq(w, 1, Len(w)) = SubSeq(t.path, 1, Len(w))
    BY <1>6 DEF IsPrefix, w, tail
  <2>4. Len(t.path) \in Nat
    BY <1>6
  <2>5. Len(w) \in 0 .. Len(t.path) /\ Len(w) \in 0 .. Len(w)
    BY <1>4, <2>2, <2>3, <2>4
  <2>6. \A i \in 1 .. n + 2 : w[i] = t.path[i]
    BY <1>6, <2>2, <2>3, <2>5, Shortened
  <2>7. n + 1 \in 1 .. n + 2 /\ n + 2 \in 1 .. n + 2 /\ 1 .. n \subseteq 1 .. n + 2
    BY <1>4
  <2> QED
    BY <1>4, <2>1, <2>2, <2>3, <2>4, <2>6, <2>7
<1>8. Marker(t) = n + 1
  BY <1>4, <1>5, <1>6, <1>7, MarkerAfter
<1>9. SubSeq(t.path, 1, Marker(t) - 1) = q
  <2>1. n \in 0 .. Len(t.path) /\ Marker(t) - 1 = n
    BY <1>4, <1>7, <1>8
  <2> DEFINE w == SubSeq(t.path, 1, n)
  <2>2. w \in Seq(Segment) /\ Len(w) = n /\ \A i \in 1 .. n : w[i] = t.path[i]
    BY <1>6, <2>1, Shortened
  <2> HIDE DEF w
  <2>3. \A i \in 1 .. n : w[i] = q[i]
    BY <1>7, <2>2
  <2>4. w = q
    BY <1>4, <2>2, <2>3, SameSequence
  <2> QED
    BY <2>1, <2>4 DEF w
<1>10. DeriveBaseURL(t) = g.base
  <2>1. t.scheme \in {"http", "https"} /\ Marker(t) # 0
    BY <1>2, <1>4, <1>6, <1>8
  <2>2. DeriveBaseURL(t) = [t EXCEPT !.path = q \o Api]
    BY <1>9, <2>1 DEF DeriveBaseURL
  <2>3. [t EXCEPT !.path = q \o Api] =
            [scheme |-> t.scheme, host |-> t.host, path |-> q \o Api]
    BY <1>6, WithPath
  <2> QED
    BY <1>2, <1>3, <1>6, <2>2, <2>3
<1>11. ExtractGroupID(t) = g.id
  <2>1. t.scheme # None
    BY <1>2, <1>6, TextsAssumption
  <2>2. Marker(t) \in 1 .. Len(t.path) - 1 /\ Marker(t) + 1 = n + 2
    BY <1>4, <1>7, <1>8
  <2> QED
    BY <1>7, <2>1, <2>2 DEF ExtractGroupID
<1> QED
  BY <1>1, <1>2, <1>10, <1>11 DEF Meant, BaseFor
-----------------------------------------------------------------------------
(* Induction: a set of numbers that is not empty has a least one. *)

LEMMA LeastNat ==
    ASSUME NEW T, T \subseteq Nat, T # {}
    PROVE  \E m \in T : \A n \in T : m <= n
<1> DEFINE less == {ss \in Nat \X Nat : ss[1] < ss[2]}
<1>1. IsWellFoundedOn(less, Nat)
  BY NatLessThanWellFounded, Zenon DEF OpToRel
<1>2. \E m \in T : \A n \in T : ~ (<<n, m>> \in less)
  <2> HIDE DEF less
  <2> QED
    BY <1>1, WFMin
<1>3. PICK m \in T : \A n \in T : ~ (<<n, m>> \in less)
  BY <1>2
<1>4. \A a, b \in Nat : ~ (<<a, b>> \in less) => b <= a
  OBVIOUS
<1> HIDE DEF less
<1>5. \A n \in T : m <= n
  BY <1>3, <1>4
<1> QED
  BY <1>5

-----------------------------------------------------------------------------
(* What renaming in turn comes to: everybody has the name that the last     *)
(* rename of them gives.                                                    *)

Participant == [id : Nat, name : Name]
Renaming    == [from : Name, to : Name]

\* Those of the first i renames that are of p, and p's name after them.
Hits(f, asked, p, i) == {j \in 1 .. i : f[Fold[asked[j].from]] = p.id}
NameAfter(f, asked, p, i) ==
    IF Hits(f, asked, p, i) = {} THEN p.name
    ELSE asked[Max(Hits(f, asked, p, i))].to
After(r, f, asked, i) ==
    {[id |-> p.id, name |-> NameAfter(f, asked, p, i)] : p \in r}

LEMMA MaxIs ==
    ASSUME NEW J, NEW m \in J, m \in Nat, \A j \in J : j \in Nat /\ j <= m
    PROVE  Max(J) = m
<1> DEFINE c == CHOOSE x \in J : \A y \in J : x >= y
<1>1. \A y \in J : m >= y
  OBVIOUS
<1>2. c \in J /\ \A y \in J : c >= y
  BY <1>1
<1> HIDE DEF c
<1>3. c \in Nat /\ c <= m /\ c >= m
  BY <1>2
<1>4. c = m
  BY <1>3
<1> QED
  BY <1>4 DEF Max, c

LEMMA MaxIsOne ==
    ASSUME NEW n \in Nat, NEW J, J \subseteq 1 .. n, J # {}
    PROVE  Max(J) \in J
<1> DEFINE U == {n - j : j \in J}
<1>1. U \subseteq Nat /\ U # {}
  <2>1. \A j \in J : n - j \in Nat
    OBVIOUS
  <2> QED
    BY <2>1
<1>2. PICK u \in U : \A v \in U : u <= v
  <2> HIDE DEF U
  <2> QED
    BY <1>1, LeastNat
<1>3. PICK m \in J : u = n - m
  BY <1>2
<1>4. \A j \in J : j \in Nat /\ j <= m
  <2> SUFFICES ASSUME NEW j \in J PROVE j \in Nat /\ j <= m
    OBVIOUS
  <2>1. n - m <= n - j
    BY <1>2, <1>3
  <2> QED
    BY <2>1
<1>5. m \in Nat
  OBVIOUS
<1>6. Max(J) = m
  BY <1>4, <1>5, MaxIs
<1> QED
  BY <1>6

LEMMA RenameOne ==
    ASSUME NEW f, NEW asked \in Seq(Renaming), NEW p \in Participant,
           NEW i \in 1 .. Len(asked)
    PROVE  NameAfter(f, asked, p, i) =
               IF p.id = f[Fold[asked[i].from]] THEN asked[i].to
               ELSE NameAfter(f, asked, p, i - 1)
<1> DEFINE J == Hits(f, asked, p, i)
           K == Hits(f, asked, p, i - 1)
<1>1. i \in Nat /\ i >= 1
  OBVIOUS
<1>2. CASE p.id = f[Fold[asked[i].from]]
  <2>1. i \in J /\ \A j \in J : j \in Nat /\ j <= i
    BY <1>1, <1>2 DEF Hits
  <2> HIDE DEF J
  <2>2. Max(J) = i
    BY <1>1, <2>1, MaxIs
  <2>3. J # {}
    BY <2>1
  <2> QED
    BY <1>2, <2>2, <2>3 DEF NameAfter, J
<1>3. CASE p.id # f[Fold[asked[i].from]]
  <2>1. \A j : j \in 1 .. i <=> j \in 1 .. i - 1 \/ j = i
    BY <1>1
  <2>2. J = K
    BY <1>3, <2>1 DEF Hits
  <2> QED
    BY <1>3, <2>2 DEF NameAfter
<1> QED
  BY <1>2, <1>3

LEMMA RenameAfter ==
    ASSUME NEW r \in SUBSET Participant, NEW f, NEW asked \in Seq(Renaming),
           NEW i \in 1 .. Len(asked)
    PROVE  Rename(After(r, f, asked, i - 1), f[Fold[asked[i].from]], asked[i].to)
               = After(r, f, asked, i)
<1> DEFINE id == f[Fold[asked[i].from]]
           to == asked[i].to
           M(p) == [id |-> p.id, name |-> NameAfter(f, asked, p, i - 1)]
           C(q) == [q EXCEPT !.name = IF q.id = id THEN to ELSE @]
<1>1. \A p \in r : C(M(p)) = [id |-> p.id, name |-> NameAfter(f, asked, p, i)]
  <2> SUFFICES ASSUME NEW p \in r
               PROVE  C(M(p)) = [id |-> p.id, name |-> NameAfter(f, asked, p, i)]
    OBVIOUS
  <2>1. C(M(p)) = [id |-> p.id,
                   name |-> IF p.id = id THEN to ELSE NameAfter(f, asked, p, i - 1)]
    OBVIOUS
  <2> QED
    BY <2>1, RenameOne
<1>2. Rename(After(r, f, asked, i - 1), id, to) = {C(q) : q \in {M(p) : p \in r}}
  BY DEF Rename, After
<1>3. {C(q) : q \in {M(p) : p \in r}} = {C(M(p)) : p \in r}
  <2> HIDE DEF C, M
  <2> QED
    OBVIOUS
<1> HIDE DEF C, M
<1>4. {C(M(p)) : p \in r} = After(r, f, asked, i)
  BY <1>1 DEF After
<1> QED
  BY <1>2, <1>3, <1>4

\* A recursive function that a function satisfies is that function.
LEMMA RenamedIsAfter ==
    ASSUME NEW r \in SUBSET Participant, NEW f, NEW asked \in Seq(Renaming)
    PROVE  Renamed(r, f, asked) = After(r, f, asked, Len(asked))
<1> DEFINE n == Len(asked)
           Step(g) == [i \in 0 .. n |->
                         IF i = 0 THEN r
                         ELSE Rename(g[i - 1], f[Fold[asked[i].from]], asked[i].to)]
           a == [i \in 0 .. n |-> After(r, f, asked, i)]
           now == CHOOSE g : g = Step(g)
<1>1. n \in Nat
  OBVIOUS
<1>2. After(r, f, asked, 0) = r
  <2>1. \A p : Hits(f, asked, p, 0) = {}
    BY DEF Hits
  <2>2. \A p \in r : [id |-> p.id, name |-> NameAfter(f, asked, p, 0)] = p
    BY <2>1 DEF NameAfter, Participant
  <2> QED
    BY <2>2 DEF After
<1>3. \A i \in 1 .. n : Rename(a[i - 1], f[Fold[asked[i].from]], asked[i].to) = a[i]
  <2> SUFFICES ASSUME NEW i \in 1 .. n
               PROVE  Rename(a[i - 1], f[Fold[asked[i].from]], asked[i].to) = a[i]
    OBVIOUS
  <2>1. a[i - 1] = After(r, f, asked, i - 1) /\ a[i] = After(r, f, asked, i)
    BY <1>1
  <2> QED
    BY <2>1, RenameAfter
<1>4. a = Step(a)
  BY <1>1, <1>2, <1>3
<1>5. now = Step(now)
  BY <1>4
<1> HIDE DEF now
<1>6. \A i \in 0 .. n : now[i] = a[i]
  <2> DEFINE T == {i \in 0 .. n : now[i] # a[i]}
  <2> SUFFICES T = {}
    OBVIOUS
  <2>1. SUFFICES ASSUME T # {} PROVE FALSE
    OBVIOUS
  <2>2. T \subseteq Nat
    BY <1>1
  <2>3. PICK m \in T : \A k \in T : m <= k
    <3> HIDE DEF T
    <3> QED
      BY <2>1, <2>2, LeastNat
  <2>4. m \in 0 .. n /\ now[m] # a[m]
    BY <2>3
  <2>5. m # 0
    BY <1>4, <1>5, <2>4
  <2>6. m \in 1 .. n /\ m - 1 \in 0 .. n /\ m - 1 \notin T
    BY <1>1, <2>3, <2>4, <2>5
  <2>7. now[m - 1] = a[m - 1]
    BY <2>6
  <2>8. now[m] = Rename(now[m - 1], f[Fold[asked[m].from]], asked[m].to)
    BY <1>5, <2>4, <2>5
  <2> QED
    BY <1>3, <2>4, <2>6, <2>7, <2>8
<1>7. Renamed(r, f, asked) = now[n]
  BY DEF Renamed, now
<1>8. a[n] = After(r, f, asked, n) /\ n \in 0 .. n
  BY <1>1
<1> QED
  BY <1>6, <1>7, <1>8

-----------------------------------------------------------------------------
(* The inductive invariant *)

\* Participants are told apart by their IDs, none of them yet to be made.
IsRoster(r, bound) ==
    /\ r \in SUBSET Participant
    /\ \A p \in r : p.id <= bound
    /\ \A p, q \in r : p.id = q.id => p = q

RostersInv ==
    /\ minted \in Nat
    /\ DOMAIN rosters = Group /\ DOMAIN me = Group /\ joined \subseteq Group
    /\ \A g \in Group : IsRoster(rosters[g], minted)

AnswerInv ==
    last.kind = "paste" =>
        last.text \in Texts /\ last.group = Meant(None, last.text)

InputsInv == RostersInv /\ AnswerInv /\ CallerStands

-----------------------------------------------------------------------------
(* What names find *)

LEMMA Folded ==
    ASSUME NEW n \in Name
    PROVE  /\ Fold[n] \in Name /\ Fold[n] \in Range(Fold)
           /\ \A r : Called(r, Fold[n]) = Called(r, n)
<1>1. Fold[n] \in Name /\ Fold[Fold[n]] = Fold[n]
  BY NamesAssumption
<1>2. Fold[n] \in Range(Fold)
  BY NamesAssumption DEF Range
<1> QED
  BY <1>1, <1>2 DEF Called

LEMMA Found ==
    ASSUME NEW r, NEW f \in Finds(r), NEW n \in Name
    PROVE  IF Called(r, n) = {} THEN f[Fold[n]] = None
           ELSE f[Fold[n]] \in Called(r, n)
<1>1. \A m \in Range(Fold) : IF Called(r, m) = {} THEN f[m] = None
                               ELSE f[m] \in Called(r, m)
  BY DEF Finds
<1>2. IF Called(r, Fold[n]) = {} THEN f[Fold[n]] = None
      ELSE f[Fold[n]] \in Called(r, Fold[n])
  BY <1>1, Folded
<1> QED
  BY <1>2, Folded

\* Where no two names are equal up to case, a lookup that finds somebody finds
\* whoever carries the name.
LEMMA FindsTheOne ==
    ASSUME NEW r, NEW f \in Finds(r), NEW n \in Name,
           Unambiguous(r), f[Fold[n]] # None
    PROVE  Called(r, n) = {f[Fold[n]]}
<1>1. f[Fold[n]] \in Called(r, n)
  BY Found
<1>2. \A x, y \in Called(r, n) : x = y
  BY DEF Called, Unambiguous
<1> QED
  BY <1>1, <1>2

\* Nobody else in a form for a new group carries the caller's name, trimmed.
LEMMA OnlyTheCaller ==
    ASSUME NEW own, own \notin Blanks, NEW k, NEW others,
           NEW which, which \subseteq ToolOthers(own, others)
    PROVE  Called({[id |-> k, name |-> own]} \cup Made(others, which), own) = {k}
<1> DEFINE self  == [id |-> k, name |-> own]
           form == {self} \cup Made(others, which)
<1>1. self.id = k /\ self.name = own
  OBVIOUS
<1>2. \A q \in Made(others, which) : Fold[q.name] # Fold[own]
  <2>1. \A i \in which : [id |-> minted + i, name |-> others[i]].name = others[i]
    OBVIOUS
  <2>2. \A i \in which : Fold[others[i]] # Fold[own]
    BY DEF ToolOthers, SameAsOwn
  <2> QED
    BY <2>1, <2>2 DEF Made
<1>3. {q \in form : Fold[q.name] = Fold[own]} = {self}
  BY <1>1, <1>2
<1>4. Called(form, own) = {k}
  BY <1>1, <1>3 DEF Called
<1> QED
  BY <1>4

LEMMA CreateLeavesOut ==
    ASSUME NEW own, NEW others
    PROVE  /\ ToolOthers(own, others) \in SUBSET DOMAIN others
           /\ WebOthers(own, others) \in SUBSET ToolOthers(own, others)
BY DEF ToolOthers, WebOthers, SameAsOwn

-----------------------------------------------------------------------------
(* What an edit leaves *)

LEMMA AskedTypes ==
    ASSUME NEW asked \in Edits
    PROVE  /\ asked.rename \in Seq(Renaming) /\ Len(asked.rename) \in Nat
           /\ DOMAIN asked.rename = 1 .. Len(asked.rename)
           /\ asked.remove \in SUBSET Name
           /\ asked.add \in Seq(Name) /\ Len(asked.add) \in Nat
           /\ DOMAIN asked.add = 1 .. Len(asked.add)
<1>1. /\ asked.rename \in Seq(Renaming)
      /\ asked.remove \in SUBSET Name /\ asked.add \in Seq(Name)
  BY InputsAssumption DEF Renaming
<1> QED
  BY <1>1

\* A new name is a name.
LEMMA NameAfterTypes ==
    ASSUME NEW f, NEW asked \in Seq(Renaming), NEW p \in Participant
    PROVE  NameAfter(f, asked, p, Len(asked)) \in Name
<1> DEFINE J == Hits(f, asked, p, Len(asked))
<1>1. CASE J = {}
  BY <1>1 DEF NameAfter, Participant
<1>2. CASE J # {}
  <2>1. J \subseteq 1 .. Len(asked) /\ Len(asked) \in Nat
    BY DEF Hits
  <2> HIDE DEF J
  <2>2. Max(J) \in 1 .. Len(asked)
    BY <1>2, <2>1, MaxIsOne
  <2>3. asked[Max(J)] \in Renaming
    BY <2>2
  <2>4. asked[Max(J)].to \in Name
    BY <2>3 DEF Renaming
  <2> QED
    BY <1>2, <2>4 DEF NameAfter, J
<1> QED
  BY <1>1, <1>2

\* Those kept are those of r who are not removed, by the names they then have.
NewName(f, asked, p) == NameAfter(f, asked.rename, p, Len(asked.rename))
LEMMA KeptAre ==
    ASSUME NEW r \in SUBSET Participant, NEW f, NEW asked \in Edits
    PROVE  /\ Kept(r, f, asked) =
                  {[id |-> p.id, name |-> NewName(f, asked, p)] :
                      p \in {q \in r : q.id \notin Cut(f, asked)}}
           /\ Kept(r, f, asked) \in SUBSET Participant
<1> DEFINE M(p) == [id |-> p.id, name |-> NewName(f, asked, p)]
           L == {q \in r : q.id \notin Cut(f, asked)}
<1>1. Renamed(r, f, asked.rename) = {M(p) : p \in r}
  <2>1. Renamed(r, f, asked.rename) = After(r, f, asked.rename, Len(asked.rename))
    BY AskedTypes, RenamedIsAfter
  <2> QED
    BY <2>1 DEF After, NewName
<1>2. Kept(r, f, asked) = {k \in {M(p) : p \in r} : k.id \notin Cut(f, asked)}
  BY <1>1 DEF Kept
<1>3. \A p \in r : M(p).id = p.id /\ M(p) \in Participant
  <2> SUFFICES ASSUME NEW p \in r PROVE M(p).id = p.id /\ M(p) \in Participant
    OBVIOUS
  <2>1. p \in Participant /\ p.id \in Nat /\ NewName(f, asked, p) \in Name
    BY AskedTypes, NameAfterTypes DEF NewName, Participant
  <2> QED
    BY <2>1 DEF Participant
<1> HIDE DEF M
<1>4. {k \in {M(p) : p \in r} : k.id \notin Cut(f, asked)} = {M(p) : p \in L}
  BY <1>3
<1>5. Kept(r, f, asked) = {M(p) : p \in L}
  BY <1>2, <1>4
<1>6. {M(p) : p \in L} \in SUBSET Participant
  BY <1>3
<1> QED
  BY <1>5, <1>6 DEF M

LEMMA MadeAre ==
    ASSUME minted \in Nat, NEW names \in Seq(Name), NEW which \in SUBSET DOMAIN names
    PROVE  /\ Made(names, which) \in SUBSET Participant
           /\ \A p \in Made(names, which) :
                 \E i \in which : p.id = minted + i /\ p.name = names[i]
           /\ \A p \in Made(names, which) :
                 p.id > minted /\ p.id <= minted + Len(names)
           /\ \A p, q \in Made(names, which) : p.id = q.id => p = q
<1> DEFINE M(i) == [id |-> minted + i, name |-> names[i]]
<1>1. \A i \in which : i \in Nat /\ i > 0 /\ i <= Len(names) /\ names[i] \in Name
  OBVIOUS
<1>2. \A i \in which : M(i).id = minted + i /\ M(i).name = names[i]
  OBVIOUS
<1>3. \A i \in which : M(i) \in Participant
  BY <1>1 DEF Participant
<1>4. Made(names, which) = {M(i) : i \in which}
  BY DEF Made
<1>5. \A i, j \in which : M(i).id = M(j).id => i = j
  BY <1>1, <1>2
<1> HIDE DEF M
<1>6. Made(names, which) \in SUBSET Participant
  BY <1>3, <1>4
<1>7. \A p \in Made(names, which) :
          \E i \in which : p.id = minted + i /\ p.name = names[i]
  BY <1>2, <1>4
<1>8. \A p \in Made(names, which) : p.id > minted /\ p.id <= minted + Len(names)
  <2> SUFFICES ASSUME NEW p \in Made(names, which)
               PROVE  p.id > minted /\ p.id <= minted + Len(names)
    OBVIOUS
  <2>1. PICK i \in which : p.id = minted + i
    BY <1>7
  <2>2. i \in Nat /\ i > 0 /\ i <= Len(names) /\ Len(names) \in Nat
    BY <1>1
  <2> QED
    BY <2>1, <2>2
<1>9. \A p, q \in Made(names, which) : p.id = q.id => p = q
  BY <1>4, <1>5
<1> QED
  BY <1>6, <1>7, <1>8, <1>9

\* What was asked of a participant is found in the group as it was.
LEMMA AskedOf ==
    ASSUME NEW r, NEW asked \in Edits, NEW f \in Finds(r),
           ~ Unknown(f, asked), Unambiguous(r), NEW p \in r
    PROVE  /\ Hits(f, asked.rename, p, Len(asked.rename)) =
                  {i \in DOMAIN asked.rename : p.id \in Called(r, asked.rename[i].from)}
           /\ p.id \in Cut(f, asked) <=> \E n \in asked.remove : p.id \in Called(r, n)
<1>1. \A i \in DOMAIN asked.rename :
          /\ asked.rename[i].from \in Name
          /\ f[Fold[asked.rename[i].from]] # None
  <2> SUFFICES ASSUME NEW i \in DOMAIN asked.rename
               PROVE  /\ asked.rename[i].from \in Name
                      /\ f[Fold[asked.rename[i].from]] # None
    OBVIOUS
  <2>1. asked.rename[i] \in Renaming
    BY AskedTypes
  <2>2. asked.rename[i].from \in Name
    BY <2>1 DEF Renaming
  <2>3. asked.rename[i] \in Range(asked.rename)
    BY DEF Range
  <2>4. f[Fold[asked.rename[i].from]] # None
    BY <2>3 DEF Unknown
  <2> QED
    BY <2>2, <2>4
<1>2. \A i \in DOMAIN asked.rename :
          f[Fold[asked.rename[i].from]] = p.id
              <=> p.id \in Called(r, asked.rename[i].from)
  BY <1>1, FindsTheOne
<1>3. Hits(f, asked.rename, p, Len(asked.rename)) =
          {i \in DOMAIN asked.rename : p.id \in Called(r, asked.rename[i].from)}
  BY <1>2, AskedTypes DEF Hits
<1>4. \A n \in asked.remove : n \in Name /\ f[Fold[n]] # None
  BY AskedTypes DEF Unknown
<1>5. \A n \in asked.remove : f[Fold[n]] = p.id <=> p.id \in Called(r, n)
  BY <1>4, FindsTheOne
<1>6. p.id \in Cut(f, asked) <=> \E n \in asked.remove : p.id \in Called(r, n)
  BY <1>5 DEF Cut
<1> QED
  BY <1>3, <1>6

LEMMA EditDoes ==
    ASSUME minted \in Nat, NEW r, IsRoster(r, minted), NEW asked \in Edits,
           NEW f \in Finds(r), ~ Unknown(f, asked), Unambiguous(r),
           ~ Clash(Kept(r, f, asked), asked.add),
           NEW now, now = Kept(r, f, asked) \cup Made(asked.add, DOMAIN asked.add)
    PROVE  DoneAsAsked(r, asked, now)
<1> DEFINE add     == asked.add
           kept    == Kept(r, f, asked)
           made    == Made(add, DOMAIN add)
           M(p)    == [id |-> p.id, name |-> NewName(f, asked, p)]
           To(p)   == {i \in DOMAIN asked.rename :
                          p.id \in Called(r, asked.rename[i].from)}
           Gone(p) == \E n \in asked.remove : p.id \in Called(r, n)
<1>1. /\ r \in SUBSET Participant
      /\ \A p \in r : p.id \in Nat /\ p.id <= minted
      /\ \A p, q \in r : p.id = q.id => p = q
  BY DEF IsRoster, Participant
<1>2. /\ kept = {M(p) : p \in {q \in r : q.id \notin Cut(f, asked)}}
      /\ \A p \in r : M(p).id = p.id /\ M(p).name = NewName(f, asked, p)
  BY <1>1, KeptAre
<1>3. /\ \A q \in made : q.id \in Nat /\ q.id > minted
      /\ \A q \in made : \E i \in DOMAIN add : q.id = minted + i /\ q.name = add[i]
      /\ \A p, q \in made : p.id = q.id => p = q
  BY AskedTypes, MadeAre DEF Participant
<1>4. \A p \in r : /\ NewName(f, asked, p) = IF To(p) = {} THEN p.name
                                              ELSE asked.rename[Max(To(p))].to
                   /\ p.id \in Cut(f, asked) <=> Gone(p)
  <2> SUFFICES ASSUME NEW p \in r
               PROVE  /\ NewName(f, asked, p) = IF To(p) = {} THEN p.name
                                                 ELSE asked.rename[Max(To(p))].to
                      /\ p.id \in Cut(f, asked) <=> Gone(p)
    OBVIOUS
  <2>1. /\ Hits(f, asked.rename, p, Len(asked.rename)) = To(p)
        /\ p.id \in Cut(f, asked) <=> Gone(p)
    BY AskedOf
  <2> HIDE DEF To, Gone
  <2> QED
    BY <2>1 DEF NewName, NameAfter
<1> HIDE DEF M, To, Gone, kept, made
<1>5. now = kept \cup made
  BY DEF kept, made
<1>6. ASSUME NEW p \in r
      PROVE  {q.name : q \in {k \in now : k.id = p.id}} =
                 IF Gone(p) THEN {}
                 ELSE {IF To(p) = {} THEN p.name ELSE asked.rename[Max(To(p))].to}
  <2>1. \A k \in made : k.id # p.id
    BY <1>1, <1>3
  <2>2. {k \in kept : k.id = p.id} = IF Gone(p) THEN {} ELSE {M(p)}
    <3>1. \A k \in kept : k.id = p.id => k = M(p) /\ ~ Gone(p)
      BY <1>1, <1>2, <1>4
    <3>2. ~ Gone(p) => M(p) \in kept /\ M(p).id = p.id
      BY <1>2, <1>4
    <3> QED
      BY <3>1, <3>2
  <2>3. {k \in now : k.id = p.id} = IF Gone(p) THEN {} ELSE {M(p)}
    BY <1>5, <2>1, <2>2
  <2> QED
    BY <1>2, <1>4, <2>3
<1>7. \A q \in kept : q.id \in Ids(r)
  BY <1>2 DEF Ids
<1>8. \A q \in made : q.id \notin Ids(r)
  BY <1>1, <1>3 DEF Ids
<1>9. ASSUME NEW q \in now, q.id \notin Ids(r)
      PROVE  q.name \in Range(add)
  <2>1. q \in made
    BY <1>5, <1>7, <1>9
  <2> QED
    BY <1>3, <2>1 DEF Range
<1>10. ASSUME NEW n \in Range(add)
       PROVE  \E q \in now : q.id \notin Ids(r) /\ Called(now, n) = {q.id}
  <2>1. PICK i \in DOMAIN add : n = add[i]
    BY DEF Range
  <2> DEFINE q == [id |-> minted + i, name |-> add[i]]
  <2>2. q \in made /\ q.id = minted + i /\ q.name = add[i]
    BY DEF made, Made
  <2> HIDE DEF q
  <2>3. \A k \in kept : Fold[k.name] # Fold[n]
    <3>1. Fold[add[i]] \notin {Fold[k.name] : k \in kept}
      BY DEF Clash, kept
    <3> QED
      BY <2>1, <3>1
  <2>4. \A j \in DOMAIN add : Fold[add[j]] = Fold[add[i]] => j = i
    <3>1. \A j, k \in DOMAIN add : j \in 1 .. k - 1 => Fold[add[k]] # Fold[add[j]]
      BY DEF Clash
    <3>2. \A j, k \in DOMAIN add : j < k => Fold[add[k]] # Fold[add[j]]
      BY <3>1, AskedTypes
    <3>3. \A j \in DOMAIN add : j \in Nat
      BY AskedTypes
    <3> QED
      BY <3>2, <3>3
  <2>5. \A k \in made : Fold[k.name] = Fold[n] => k = q
    BY <1>3, <2>1, <2>2, <2>4
  <2>6. {k \in now : Fold[k.name] = Fold[n]} = {q}
    BY <1>5, <2>1, <2>2, <2>3, <2>5
  <2>7. Called(now, n) = {q.id}
    BY <2>6 DEF Called
  <2> QED
    BY <1>5, <1>8, <2>2, <2>7
<1> QED
  BY <1>6, <1>9, <1>10 DEF DoneAsAsked, To, Gone

-----------------------------------------------------------------------------
(* The steps *)

LEMMA JoinStep ==
    ASSUME InputsInv, NEW server \in Instances \cup {None}, NEW t \in Texts, NEW id,
           Join(server, t, id)
    PROVE  InputsInv' /\ EditAsAsked'
<1> DEFINE g == Meant(server, t)
<1>1. /\ g \in Group /\ id \in Ids(rosters[g])
      /\ joined' = joined \cup {g} /\ me' = [me EXCEPT ![g] = id]
      /\ rosters' = rosters /\ minted' = minted
      /\ last'.kind = IF server = None THEN "paste" ELSE "join"
      /\ last'.group = g /\ last'.text = t
  BY DEF Join, Exists
<1> HIDE DEF g
<1>2. RostersInv'
  <2>1. \A h \in Group : IsRoster(rosters[h], minted)'
    BY <1>1 DEF InputsInv, RostersInv, IsRoster
  <2> QED
    BY <1>1, <2>1 DEF InputsInv, RostersInv
<1>3. AnswerInv'
  <2>1. server = None => last'.group = Meant(None, t)
    BY <1>1 DEF g
  <2>2. last'.kind = "paste" => server = None
    BY <1>1
  <2> QED
    BY <1>1, <2>1, <2>2 DEF AnswerInv, Meant, BaseFor
<1>4. CallerStands'
  <2>1. \A h \in joined' : me'[h] \in Ids(rosters[h])
    BY <1>1 DEF InputsInv, RostersInv, CallerStands
  <2>2. last'.kind # "create"
    BY <1>1
  <2> QED
    BY <1>1, <2>1, <2>2 DEF CallerStands, Ids
<1>5. EditAsAsked'
  BY <1>1 DEF EditAsAsked
<1> QED
  BY <1>2, <1>3, <1>4, <1>5 DEF InputsInv

LEMMA CreateStep ==
    ASSUME InputsInv, NEW g \in Group, NEW own \in Name, NEW others \in Seq(Name),
           NEW which, which \subseteq ToolOthers(own, others),
           Create(g, own, others, which)
    PROVE  InputsInv' /\ EditAsAsked'
<1> DEFINE n    == minted + Len(others) + 1
           self == [id |-> n, name |-> own]
           made == Made(others, which)
           form == {self} \cup made
<1>1. /\ minted \in Nat /\ Len(others) \in Nat /\ n \in Nat
      /\ n > minted + Len(others) /\ self \in Participant /\ self.id = n
  BY DEF InputsInv, RostersInv, Participant
<1>2. PICK f \in Finds(form) : me' = [me EXCEPT ![g] = f[Fold[own]]]
  BY DEF Create
<1>3. /\ rosters' = [rosters EXCEPT ![g] = form] /\ joined' = joined \cup {g}
      /\ minted' = n
      /\ last'.kind = "create" /\ last'.group = g
      /\ last'.own.id = n /\ last'.own.name = own
  BY <1>1 DEF Create
<1>4. ASSUME own \notin Blanks PROVE f[Fold[own]] = n
  <2> HIDE DEF n
  <2>1. Called({[id |-> n, name |-> own]} \cup Made(others, which), own) = {n}
    BY <1>4, OnlyTheCaller
  <2>2. Called(form, own) = {n}
    BY <2>1
  <2> QED
    BY <2>2, Found
<1>5. /\ made \in SUBSET Participant
      /\ \A p \in made : p.id \in Nat /\ p.id <= minted + Len(others)
      /\ \A p, q \in made : p.id = q.id => p = q
  <2>1. which \in SUBSET DOMAIN others
    BY CreateLeavesOut
  <2> QED
    BY <1>1, <2>1, MadeAre DEF Participant
<1> HIDE DEF made
<1>6. IsRoster(form, n)
  BY <1>1, <1>5 DEF IsRoster
<1>7. f[Fold[own]] \in Ids(form)
  <2>1. self \in form /\ self.name = own
    OBVIOUS
  <2> HIDE DEF form, self
  <2>2. Called(form, own) # {}
    BY <2>1 DEF Called
  <2>3. Called(form, own) \subseteq Ids(form)
    BY DEF Called, Ids
  <2> QED
    BY <2>2, <2>3, Found
<1> HIDE DEF form, self, n
<1>8. RostersInv'
  <2>1. ASSUME NEW h \in Group PROVE IsRoster(rosters'[h], n)
    <3>1. CASE h = g
      BY <1>3, <1>6, <3>1 DEF InputsInv, RostersInv
    <3>2. CASE h # g
      <4>1. rosters'[h] = rosters[h] /\ minted < n
        BY <1>1, <1>3, <3>2 DEF InputsInv, RostersInv
      <4>2. IsRoster(rosters[h], minted)
        BY DEF InputsInv, RostersInv
      <4> QED
        BY <1>1, <4>1, <4>2 DEF IsRoster, Participant
    <3> QED
      BY <3>1, <3>2
  <2>2. /\ minted' \in Nat /\ DOMAIN rosters' = Group /\ DOMAIN me' = Group
        /\ joined' \subseteq Group
    BY <1>1, <1>2, <1>3 DEF InputsInv, RostersInv
  <2> QED
    BY <1>3, <2>1, <2>2 DEF RostersInv, IsRoster
<1>9. AnswerInv' /\ EditAsAsked'
  BY <1>3 DEF AnswerInv, EditAsAsked
<1>10. CallerStands'
  <2>1. \A h \in joined' : me'[h] \in Ids(rosters'[h])
    BY <1>2, <1>3, <1>7 DEF InputsInv, RostersInv, CallerStands
  <2>2. own \notin Blanks => me'[g] = n
    BY <1>2, <1>4 DEF InputsInv, RostersInv
  <2> QED
    BY <1>3, <2>1, <2>2 DEF CallerStands, Ids
<1> QED
  BY <1>8, <1>9, <1>10 DEF InputsInv

LEMMA UpdateStep ==
    ASSUME InputsInv, NEW g \in joined, NEW asked \in Edits, Update(g, asked)
    PROVE  InputsInv' /\ EditAsAsked'
<1> DEFINE r    == rosters[g]
           add  == asked.add
           made == Made(add, DOMAIN add)
           n    == minted + Len(add)
<1>1. /\ g \in Group /\ IsRoster(r, minted) /\ minted \in Nat
      /\ Len(add) \in Nat /\ n \in Nat
  BY AskedTypes DEF InputsInv, RostersInv
<1>2. PICK f \in Finds(r) :
          /\ ~ Unknown(f, asked) /\ me[g] \notin Cut(f, asked)
          /\ ~ Clash(Kept(r, f, asked), add)
          /\ rosters' = [rosters EXCEPT ![g] = Kept(r, f, asked) \cup made]
  BY DEF Update
<1> DEFINE kept == Kept(r, f, asked)
           form == kept \cup made
<1>3. /\ rosters' = [rosters EXCEPT ![g] = form] /\ minted' = n
      /\ joined' = joined /\ me' = me
      /\ last'.kind = "edit" /\ last'.group = g /\ last'.before = r
      /\ last'.asked = asked
  BY <1>2 DEF Update
<1>4. /\ kept = {[id |-> p.id, name |-> NewName(f, asked, p)] :
                     p \in {q \in r : q.id \notin Cut(f, asked)}}
      /\ kept \in SUBSET Participant
  BY <1>1, KeptAre DEF IsRoster
<1>5. /\ \A k \in kept : k.id \in Nat /\ k.id <= minted
      /\ \A k, l \in kept : k.id = l.id => k = l
      /\ Ids(kept) = Ids(r) \ Cut(f, asked)
  <2> DEFINE M(p) == [id |-> p.id, name |-> NewName(f, asked, p)]
             L    == {q \in r : q.id \notin Cut(f, asked)}
  <2>1. \A p \in r : M(p).id = p.id /\ p.id \in Nat /\ p.id <= minted
    BY <1>1 DEF IsRoster, Participant
  <2>2. \A p, q \in L : M(p).id = M(q).id => p = q
    BY <1>1, <2>1 DEF IsRoster
  <2>3. kept = {M(p) : p \in L}
    BY <1>4
  <2> HIDE DEF M, kept
  <2> QED
    BY <2>1, <2>2, <2>3 DEF Ids
<1>6. /\ made \in SUBSET Participant
      /\ \A p \in made : p.id \in Nat /\ p.id > minted /\ p.id <= n
      /\ \A p, q \in made : p.id = q.id => p = q
  BY <1>1, AskedTypes, MadeAre DEF Participant
<1>7. DoneAsAsked(r, asked, form) \/ ~ Unambiguous(r)
  BY <1>1, <1>2, EditDoes
<1> HIDE DEF made, kept
<1>8. IsRoster(form, n)
  <2>1. \A p \in form : p.id \in Nat /\ p.id <= n
    BY <1>1, <1>5, <1>6
  <2>2. \A p, q \in form : p.id = q.id => p = q
    BY <1>1, <1>5, <1>6
  <2> QED
    BY <1>4, <1>6, <2>1, <2>2 DEF IsRoster
<1>9. me[g] \in Ids(form)
  <2>1. me[g] \in Ids(r)
    BY DEF InputsInv, CallerStands
  <2>2. me[g] \in Ids(kept)
    BY <1>2, <1>5, <2>1
  <2> QED
    BY <2>2 DEF Ids
<1>10. rosters'[g] = form
  BY <1>1, <1>3 DEF InputsInv, RostersInv
<1> HIDE DEF form, r, n
<1>11. RostersInv'
  <2>1. ASSUME NEW h \in Group PROVE IsRoster(rosters'[h], n)
    <3>1. CASE h = g
      BY <1>8, <1>10, <3>1
    <3>2. CASE h # g
      <4>1. rosters'[h] = rosters[h] /\ minted <= n
        BY <1>1, <1>3, <3>2 DEF InputsInv, RostersInv, n
      <4>2. IsRoster(rosters[h], minted)
        BY DEF InputsInv, RostersInv
      <4> QED
        BY <1>1, <4>1, <4>2 DEF IsRoster, Participant
    <3> QED
      BY <3>1, <3>2
  <2> QED
    BY <1>1, <1>3, <2>1 DEF InputsInv, RostersInv, IsRoster
<1>12. AnswerInv'
  BY <1>3 DEF AnswerInv
<1>13. EditAsAsked'
  <2>1. /\ Unambiguous(last'.before) = Unambiguous(r)
        /\ DoneAsAsked(last'.before, last'.asked, rosters'[last'.group])
               = DoneAsAsked(r, asked, form)
    BY <1>3, <1>10
  <2> QED
    BY <1>3, <1>7, <2>1 DEF EditAsAsked
<1>14. CallerStands'
  <2>1. \A h \in joined : me[h] \in Ids(rosters'[h])
    BY <1>1, <1>3, <1>9, <1>10 DEF InputsInv, RostersInv, CallerStands
  <2> QED
    BY <1>3, <2>1 DEF CallerStands, Ids
<1> QED
  BY <1>11, <1>12, <1>13, <1>14 DEF InputsInv

LEMMA BaseIsInstance ==
    ASSUME NEW server \in Instances \cup {None}, NEW id \in Gid
    PROVE  [base |-> BaseFor(server, Nothing), id |-> id] \in Group
<1>1. DeriveBaseURL(Nothing) = None
  <2>1. Nothing.scheme = None
    BY DEF Nothing
  <2> QED
    BY <2>1, TextsAssumption DEF DeriveBaseURL
<1>2. BaseFor(server, Nothing) \in Instances
  BY <1>1, InstancesAssumption DEF BaseFor
<1> QED
  BY <1>2 DEF Group

LEMMA InputsInit == Init => InputsInv /\ EditAsAsked
<1> SUFFICES ASSUME Init PROVE InputsInv /\ EditAsAsked
  OBVIOUS
<1>1. last.kind = "none"
  BY DEF Init, Answered
<1>2. Len(Residents) \in Nat /\ DOMAIN Residents = 1 .. Len(Residents)
  BY NamesAssumption
<1> DEFINE M(i) == [id |-> i, name |-> Residents[i]]
           home == {M(i) : i \in DOMAIN Residents}
<1>3. IsRoster(home, Len(Residents))
  <2>1. \A i \in DOMAIN Residents :
            M(i).id = i /\ i \in Nat /\ i <= Len(Residents) /\ Residents[i] \in Name
    BY <1>2, NamesAssumption
  <2>2. \A i \in DOMAIN Residents : M(i) \in Participant
    BY <2>1 DEF Participant
  <2> HIDE DEF M
  <2> QED
    BY <2>1, <2>2 DEF IsRoster
<1>4. IsRoster({}, Len(Residents))
  BY DEF IsRoster
<1>5. rosters = [g \in Group |-> IF g \in Founded THEN home ELSE {}]
  BY DEF Init
<1> HIDE DEF home
<1>6. \A g \in Group : IsRoster(rosters[g], Len(Residents))
  BY <1>3, <1>4, <1>5
<1>7. RostersInv
  BY <1>2, <1>5, <1>6 DEF Init, RostersInv
<1> QED
  BY <1>1, <1>7 DEF Init, InputsInv, AnswerInv, CallerStands, EditAsAsked

LEMMA InputsNext ==
    ASSUME InputsInv, EditAsAsked, [Next]_vars
    PROVE  InputsInv' /\ EditAsAsked'
<1>1. ASSUME NEW server \in Instances \cup {None}, NEW t \in Texts, NEW you \in Name,
             JoinByName(server, t, you)
      PROVE  InputsInv' /\ EditAsAsked'
  <2>1. PICK id : Join(server, t, id)
    BY <1>1 DEF JoinByName
  <2> QED
    BY <2>1, JoinStep
<1>2. ASSUME NEW server \in Instances \cup {None}, NEW t \in Texts,
             NEW id \in 1 .. minted, Join(server, t, id)
      PROVE  InputsInv' /\ EditAsAsked'
  BY <1>2, JoinStep
<1>3. ASSUME NEW server \in Instances \cup {None}, NEW id \in Gid, NEW own \in Name,
             NEW others \in Guests, ToolCreate(server, id, own, others)
      PROVE  InputsInv' /\ EditAsAsked'
  <2> DEFINE g == [base |-> BaseFor(server, Nothing), id |-> id]
  <2>1. g \in Group /\ others \in Seq(Name)
    BY BaseIsInstance, InputsAssumption
  <2>2. Create(g, own, others, ToolOthers(own, others))
    BY <1>3 DEF ToolCreate
  <2> HIDE DEF g
  <2> QED
    BY <2>1, <2>2, CreateStep
<1>4. ASSUME NEW server \in Instances \cup {None}, NEW id \in Gid, NEW own \in Name,
             NEW others \in Guests, WebCreate(server, id, own, others)
      PROVE  InputsInv' /\ EditAsAsked'
  <2> DEFINE g == [base |-> BaseFor(server, Nothing), id |-> id]
             w == WebOthers(own, others)
  <2>1. g \in Group /\ others \in Seq(Name)
    BY BaseIsInstance, InputsAssumption
  <2>2. Create(g, own, others, w)
    BY <1>4 DEF WebCreate
  <2>3. w \subseteq ToolOthers(own, others)
    BY CreateLeavesOut
  <2> HIDE DEF g, w
  <2> QED
    BY <2>1, <2>2, <2>3, CreateStep
<1>5. ASSUME NEW g \in joined, NEW asked \in Edits, Update(g, asked)
      PROVE  InputsInv' /\ EditAsAsked'
  BY <1>5, UpdateStep
<1>6. CASE UNCHANGED vars
  <2>1. /\ rosters' = rosters /\ joined' = joined /\ me' = me
        /\ minted' = minted /\ last' = last
    BY <1>6 DEF vars
  <2>2. RostersInv'
    BY <2>1 DEF InputsInv, RostersInv, IsRoster
  <2>3. AnswerInv' /\ CallerStands'
    BY <2>1 DEF InputsInv, AnswerInv, CallerStands, Meant, BaseFor, Ids
  <2>4. EditAsAsked'
    <3>1. /\ Unambiguous(last'.before) = Unambiguous(last.before)
          /\ DoneAsAsked(last'.before, last'.asked, rosters'[last'.group])
                 = DoneAsAsked(last.before, last.asked, rosters[last.group])
      BY <2>1
    <3> QED
      BY <2>1, <3>1 DEF EditAsAsked
  <2> QED
    BY <2>2, <2>3, <2>4 DEF InputsInv
<1> QED
  BY <1>1, <1>2, <1>3, <1>4, <1>5, <1>6 DEF Next

-----------------------------------------------------------------------------
(* The theorems *)

\* Every roster tells its participants apart, and what the last request was
\* answered with is what it asked for.
THEOREM InputsInvariance == Spec => [](InputsInv /\ EditAsAsked)
<1>1. Init => InputsInv /\ EditAsAsked
  BY InputsInit
<1>2. InputsInv /\ EditAsAsked /\ [Next]_vars => (InputsInv /\ EditAsAsked)'
  BY InputsNext
<1> QED
  BY <1>1, <1>2, PTL DEF Spec

\* An update_group, of any number of renames, removals and additions, does what
\* was asked of the names as they were: the renames are looked up before any of
\* them is done, so none can steal the name of another.
THEOREM EditsDoAsAsked == Spec => []EditAsAsked
BY InputsInvariance, PTL

\* Whoever else is listed for it, the row of a new group pins the participant
\* made for its caller, under a name without blanks around it; and no edit, of
\* whichever caller's names, takes a pinned participant away.
THEOREM CallerAlwaysStands == Spec => []CallerStands
<1>1. InputsInv => CallerStands
  BY DEF InputsInv
<1> QED
  BY <1>1, InputsInvariance, PTL

LEMMA LinksFromInv == InputsInv => LinkLeadsBack
<1> SUFFICES ASSUME InputsInv PROVE LinkLeadsBack
  OBVIOUS
<1>1. ASSUME NEW g \in joined, NEW rest \in Rests,
             NEW t, t = [WebURL(g) EXCEPT !.path = @ \o rest]
      PROVE  Opens(t, g) /\ Meant(None, t) = g
  <2> DEFINE p    == g.base.path
             q    == SubSeq(p, 1, Len(p) - 2)
             tail == <<"groups", g.id>>
             link == q \o tail
  <2>1. g \in Group /\ g.base \in Instances /\ g.id \in Segment
    BY TextsAssumption DEF InputsInv, RostersInv, Group
  <2>2. /\ p \in Seq(Segment) /\ IsSuffix(Api, p)
        /\ g.base = [scheme |-> g.base.scheme, host |-> g.base.host, path |-> p]
    BY <2>1, InstancesAssumption DEF IsText
  <2>3. Len(p) - 2 \in 0 .. Len(p)
    BY <2>2, ApiEnds
  <2>4. q \in Seq(Segment)
    BY <2>2, <2>3, Shortened
  <2>5. "groups" \in Segment
    BY TextsAssumption
  <2>6. tail \in Seq(Segment)
    BY <2>1, <2>5
  <2>7. link \in Seq(Segment)
    BY <2>4, <2>6, Appended
  <2>8. rest \in Seq(Segment)
    BY TextsAssumption
  <2>9. /\ link \o rest \in Seq(Segment)
        /\ IsPrefix(link, link \o rest)
    <3> HIDE DEF link
    <3> DEFINE all == link \o rest
    <3>1. /\ all \in Seq(Segment) /\ Len(all) = Len(link) + Len(rest)
          /\ Len(link) \in Nat /\ Len(rest) \in Nat
          /\ \A i \in 1 .. Len(link) : all[i] = link[i]
      BY <2>7, <2>8, Appended
    <3> HIDE DEF all
    <3>2. Len(link) \in 0 .. Len(all) /\ Len(link) \in 0 .. Len(link)
      BY <3>1
    <3> DEFINE a == SubSeq(link, 1, Len(link))
               b == SubSeq(all, 1, Len(link))
    <3>3. /\ a \in Seq(Segment) /\ Len(a) = Len(link)
          /\ \A i \in 1 .. Len(link) : a[i] = link[i]
      BY <2>7, <3>2, Shortened
    <3>4. /\ b \in Seq(Segment) /\ Len(b) = Len(link)
          /\ \A i \in 1 .. Len(link) : b[i] = all[i]
      BY <3>1, <3>2, Shortened
    <3> HIDE DEF a, b
    <3>5. a = b
      <4>1. \A i \in 1 .. Len(a) : a[i] = b[i]
        BY <3>1, <3>3, <3>4
      <4> QED
        BY <3>3, <3>4, <4>1, SameSequence
    <3>6. IsPrefix(link, all)
      BY <3>1, <3>5 DEF IsPrefix, a, b
    <3> QED
      BY <3>1, <3>6 DEF all
  <2> HIDE DEF link, q
  <2>10. WebURL(g) = [g.base EXCEPT !.path = link]
    BY <2>2 DEF WebURL, link, q
  <2>11. WebURL(g) = [scheme |-> g.base.scheme, host |-> g.base.host, path |-> link]
    BY <2>2, <2>10, WithPath
  <2>12. t = [scheme |-> g.base.scheme, host |-> g.base.host, path |-> link \o rest]
    <3> DEFINE u == WebURL(g)
    <3>1. u.scheme = g.base.scheme /\ u.host = g.base.host /\ u.path = link
      BY <2>11
    <3>2. t = [u EXCEPT !.path = link \o rest]
      BY <1>1, <3>1
    <3>3. u = [scheme |-> u.scheme, host |-> u.host, path |-> u.path]
      BY <2>11, <3>1
    <3> HIDE DEF u
    <3>4. [u EXCEPT !.path = link \o rest] =
              [scheme |-> u.scheme, host |-> u.host, path |-> link \o rest]
      BY <3>3, WithPath
    <3> QED
      BY <3>1, <3>2, <3>4
  <2>13. IsText(t)
    BY <2>9, <2>12 DEF IsText
  <2>14. Opens(t, g)
    BY <2>9, <2>12 DEF Opens, link, q
  <2> QED
    BY <2>1, <2>13, <2>14, LinkMeansItsGroup
<1>2. ASSUME last.kind = "paste", NEW g \in Group, Opens(last.text, g)
      PROVE  last.group = g
  <2>1. IsText(last.text) /\ last.group = Meant(None, last.text)
    BY <1>2, TextsAssumption DEF InputsInv, AnswerInv
  <2> QED
    BY <1>2, <2>1, LinkMeansItsGroup
<1> QED
  BY <1>1, <1>2 DEF LinkLeadsBack

\* For instances under any paths, and whatever Spliit's pages append: a group's
\* link opens it and means it, and a pasted address means the group it opens.
THEOREM LinksLeadBack == Spec => []LinkLeadsBack
BY LinksFromInv, InputsInvariance, PTL

=============================================================================
