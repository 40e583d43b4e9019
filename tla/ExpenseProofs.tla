---------------------------- MODULE ExpenseProofs ----------------------------
(***************************************************************************)
(* Theorems about module ExpenseTools, for any number of calls, people and *)
(* expenses and any page size: what a duplicate check and an unfiltered    *)
(* list promise while others change the list they page through, and that   *)
(* splits are kept.                                                        *)
(***************************************************************************)
EXTENDS ExpenseTools, FiniteSetTheorems, FunctionTheorems, TLAPS

USE BoundsAssumption

LedgerOK == ledger \in [Id -> Expense \cup {None}]

-----------------------------------------------------------------------------
(* Places in the list. *)

LEMMA IdFinite == IsFiniteSet(Id)
BY FS_Interval DEF Id

LEMMA LiveFinite == IsFiniteSet(Live)
BY IdFinite, FS_Subset DEF Live

\* Being listed ahead is a strict linear order on the expenses there are.
LEMMA AheadOrder ==
  ASSUME LedgerOK
  PROVE  /\ \A i \in Live : ~Ahead(i, i)
         /\ \A i, j \in Live : i # j => Ahead(i, j) \/ Ahead(j, i)
         /\ \A i, j, k \in Live : Ahead(i, j) /\ Ahead(j, k) => Ahead(i, k)
<1>1. \A i \in Live : i \in Nat /\ ledger[i].date \in Nat
  BY DEF Live, LedgerOK, Expense, Id
<1>2. QED
  BY <1>1 DEF Ahead

\* Within any set of listed expenses, those ahead of an expense are fewer than
\* those ahead of one it precedes.
LEMMA RankGrows ==
  ASSUME LedgerOK, NEW H \in SUBSET Live, NEW i \in H, NEW j \in H, Ahead(i, j)
  PROVE  /\ Cardinality(H \cap Before(i)) \in Nat
         /\ Cardinality(H \cap Before(j)) \in Nat
         /\ Cardinality(H \cap Before(i)) < Cardinality(H \cap Before(j))
<1>1. /\ IsFiniteSet(H \cap Before(i)) /\ IsFiniteSet(H \cap Before(j))
  BY LiveFinite, FS_Subset DEF Before
<1>2. H \cap Before(i) \subseteq H \cap Before(j)
  BY AheadOrder DEF Before
<1>3. i \in H \cap Before(j) /\ i \notin H \cap Before(i)
  BY AheadOrder DEF Before
<1>4. Cardinality(H \cap Before(i)) # Cardinality(H \cap Before(j))
  BY <1>1, <1>2, <1>3, FS_Subset
<1>5. Cardinality(H \cap Before(i)) <= Cardinality(H \cap Before(j))
  BY <1>1, <1>2, FS_Subset
<1>6. QED
  BY <1>1, <1>4, <1>5, FS_CardinalityType

LEMMA RanksDiffer ==
  ASSUME LedgerOK, NEW H \in SUBSET Live, NEW i \in H, NEW j \in H, i # j
  PROVE  Cardinality(H \cap Before(i)) # Cardinality(H \cap Before(j))
<1> DEFINE m == Cardinality(H \cap Before(i))
           n == Cardinality(H \cap Before(j))
<1>1. CASE Ahead(i, j)
  <2>1. m \in Nat /\ n \in Nat /\ m < n
    BY <1>1, RankGrows
  <2> HIDE DEF m, n
  <2>2. m # n
    BY <2>1
  <2>3. QED
    BY <2>2 DEF m, n
<1>2. CASE Ahead(j, i)
  <2>1. m \in Nat /\ n \in Nat /\ n < m
    BY <1>2, RankGrows
  <2> HIDE DEF m, n
  <2>2. m # n
    BY <2>1
  <2>3. QED
    BY <2>2 DEF m, n
<1>3. Ahead(i, j) \/ Ahead(j, i)
  BY AheadOrder
<1>4. QED
  BY <1>1, <1>2, <1>3

LEMMA PlaceGrows ==
  ASSUME LedgerOK, NEW i \in Live, NEW j \in Live, Ahead(i, j)
  PROVE  Place(i) < Place(j)
<1>1. Live \cap Before(i) = Before(i) /\ Live \cap Before(j) = Before(j)
  BY DEF Before
<1>2. QED
  BY <1>1, RankGrows DEF Place

LEMMA PlaceBounds ==
  ASSUME LedgerOK, NEW i \in Live
  PROVE  Place(i) \in 0 .. Cardinality(Live) - 1
<1>1. IsFiniteSet(Before(i)) /\ Before(i) \subseteq Live
  BY LiveFinite, FS_Subset DEF Before
<1>2. i \notin Before(i)
  BY AheadOrder DEF Before
<1>3. Cardinality(Before(i)) # Cardinality(Live)
  BY <1>1, <1>2, LiveFinite, FS_Subset
<1>4. Cardinality(Before(i)) <= Cardinality(Live)
  BY <1>1, LiveFinite, FS_Subset
<1>5. QED
  BY <1>1, <1>3, <1>4, LiveFinite, FS_CardinalityType DEF Place

LEMMA PlacesDiffer ==
  ASSUME LedgerOK, NEW i \in Live, NEW j \in Live, Place(i) = Place(j)
  PROVE  i = j
<1>1. Place(i) \in Nat
  BY PlaceBounds, LiveFinite, FS_CardinalityType
<1>2. QED
  BY <1>1, AheadOrder, PlaceGrows

\* The places are the offsets from 0, without a gap.
LEMMA EveryPlace ==
  ASSUME LedgerOK, NEW n \in 0 .. Cardinality(Live) - 1
  PROVE  \E i \in Live : Place(i) = n
<1> DEFINE T == 0 .. Cardinality(Live) - 1
           f == [i \in Live |-> Place(i)]
<1>1. Cardinality(Live) \in Nat
  BY LiveFinite, FS_CardinalityType
<1>2. IsFiniteSet(T) /\ Cardinality(T) = Cardinality(Live)
  BY <1>1, FS_Interval
<1>3. f \in Injection(Live, T)
  <2>1. f \in [Live -> T] /\ \A i, j \in Live : f[i] = f[j] => i = j
    BY PlaceBounds, PlacesDiffer
  <2>2. QED
    BY <2>1 DEF Injection, IsInjective
<1>4. f \in Surjection(Live, T)
  BY <1>2, <1>3, FS_Injection
<1>5. QED
  BY <1>4 DEF Surjection

LEMMA PageFinite ==
  ASSUME NEW m, NEW size
  PROVE  IsFiniteSet(Page(m, size)) /\ Page(m, size) \subseteq Live
BY LiveFinite, FS_Subset DEF Page

\* A page that is not the last is full.
LEMMA PageFull ==
  ASSUME LedgerOK, NEW m \in Nat, NEW size \in Nat \ {0}, HasMore(m, size)
  PROVE  Cardinality(Page(m, size)) = size
<1> DEFINE P == Page(m, size)
           T == m .. m + size - 1
           f == [i \in P |-> Place(i)]
<1>1. Cardinality(Live) \in Nat /\ m + size < Cardinality(Live)
  BY LiveFinite, FS_CardinalityType DEF HasMore
<1>2. IsFiniteSet(T) /\ Cardinality(T) = size
  BY FS_Interval
<1>3. f \in Injection(P, T)
  <2>1. f \in [P -> T] /\ \A i, j \in P : f[i] = f[j] => i = j
    BY PlacesDiffer DEF Page
  <2>2. QED
    BY <2>1 DEF Injection, IsInjective
<1>4. f \in Surjection(P, T)
  <2>1. \A n \in T : \E i \in P : f[i] = n
    <3>1. SUFFICES ASSUME NEW n \in T
                   PROVE  \E i \in P : f[i] = n
      OBVIOUS
    <3>2. n \in 0 .. Cardinality(Live) - 1
      BY <1>1
    <3>3. PICK i \in Live : Place(i) = n
      BY <3>2, EveryPlace
    <3>4. QED
      BY <3>3 DEF Page
  <2>2. QED
    BY <1>3, <2>1 DEF Surjection, Injection
<1>5. QED
  BY <1>2, <1>3, <1>4, FS_Injection

\* A page has room for everything on it.
LEMMA PageFits ==
  ASSUME LedgerOK, NEW m \in Nat, NEW size \in Nat \ {0}, NEW i \in Page(m, size)
  PROVE  Cardinality(Page(m, size) \cap Before(i)) < size
<1> DEFINE P == Page(m, size) \cap Before(i)
           T == m .. Place(i) - 1
           f == [j \in P |-> Place(j)]
<1>1. i \in Live /\ Place(i) \in m .. m + size - 1
  BY DEF Page
<1>2. /\ IsFiniteSet(T)
      /\ Cardinality(T) = IF m > Place(i) - 1 THEN 0 ELSE Place(i) - 1 - m + 1
  <2>1. Place(i) - 1 \in Int /\ m \in Int
    BY <1>1
  <2>2. QED
    BY <2>1, FS_Interval
<1>3. f \in Injection(P, T)
  <2>1. \A j \in P : Place(j) \in T
    <3>1. SUFFICES ASSUME NEW j \in P
                   PROVE  Place(j) \in T
      OBVIOUS
    <3>2. j \in Live /\ Place(j) \in m .. m + size - 1 /\ Ahead(j, i)
      BY DEF Page, Before
    <3>3. QED
      BY <1>1, <3>2, PlaceGrows
  <2>2. f \in [P -> T] /\ \A j, k \in P : f[j] = f[k] => j = k
    BY <2>1, PlacesDiffer DEF Page
  <2>3. QED
    BY <2>2 DEF Injection, IsInjective
<1>4. IsFiniteSet(P) /\ Cardinality(P) <= Cardinality(T)
  BY <1>2, <1>3, FS_Injection
<1>5. Cardinality(P) \in Nat
  BY <1>4, FS_CardinalityType
<1>6. QED
  BY <1>1, <1>2, <1>4, <1>5

\* Of any listed expenses, at most n have fewer than n of them ahead.
LEMMA FirstFew ==
  ASSUME LedgerOK, NEW H \in SUBSET Live, NEW n \in Nat
  PROVE  LET F == {i \in H : Cardinality(H \cap Before(i)) < n}
         IN  IsFiniteSet(F) /\ Cardinality(F) \in 0 .. n
<1> DEFINE F == {i \in H : Cardinality(H \cap Before(i)) < n}
           T == 0 .. n - 1
           f == [i \in F |-> Cardinality(H \cap Before(i))]
<1>1. IsFiniteSet(T) /\ Cardinality(T) = n
  BY FS_Interval
<1>2. \A i \in F : Cardinality(H \cap Before(i)) \in T
  <2>1. SUFFICES ASSUME NEW i \in F
                 PROVE  Cardinality(H \cap Before(i)) \in Nat
    OBVIOUS
  <2>2. QED
    BY LiveFinite, FS_Subset, FS_CardinalityType DEF Before
<1>3. \A i, j \in F : f[i] = f[j] => i = j
  <2>1. SUFFICES ASSUME NEW i \in F, NEW j \in F, i # j
                 PROVE  Cardinality(H \cap Before(i)) # Cardinality(H \cap Before(j))
    OBVIOUS
  <2>2. QED
    BY <2>1, RanksDiffer
<1>4. f \in Injection(F, T)
  BY <1>2, <1>3 DEF Injection, IsInjective
<1>5. IsFiniteSet(F) /\ Cardinality(F) <= n
  BY <1>1, <1>4, FS_Injection
<1>6. QED
  BY <1>5, FS_CardinalityType

-----------------------------------------------------------------------------
(* One call's share of the invariant. *)

Fits(k) ==
    /\ k \in CallState
    /\ k.at \in {"checking", "recording"} => k.form \in Expense
    /\ k.at \in {"updating", "fetched", "deleting", "found"} => k.target \in Id
    /\ k.at \in {"updating", "fetched"} => k.named \in Change
    /\ k.at = "fetched" => k.read \in Expense

Sound(k) ==
    /\ k.at = "checking" =>
          /\ k.stood \subseteq Live
          /\ \A i \in k.stood :
                Duplicate(i, k.form) /\ (k.match \/ Place(i) >= k.cursor)
    /\ k.at \in {"listing", "listed"} /\ k.payer = None =>
          /\ k.stood \subseteq Live
          /\ \A i \in k.stood : i \in k.got \/ Place(i) >= k.cursor
          /\ k.at = "listing" => k.room = Limit
    /\ k.at = "recording" /\ k.full => k.stood = {}
    /\ k.at = "complete" /\ k.payer = None => k.stood \subseteq k.got

PartsInv ==
    /\ made \in 0..MaxExpenses /\ LedgerOK /\ Unmade
    /\ calls \in [Caller -> CallState]
    /\ \A c \in Caller : Fits(calls[c]) /\ Sound(calls[c])

LEMMA InvParts == ExpensesInv <=> PartsInv
<1>1. ASSUME calls \in [Caller -> CallState]
      PROVE  CallsCarry <=> \A c \in Caller : Fits(calls[c])
  BY <1>1, Zenon DEF CallsCarry, Fits, At
<1>2. (CheckSound /\ ListSound /\ CheckCatches /\ UnfilteredComplete)
         <=> \A c \in Caller : Sound(calls[c])
  BY Zenon DEF CheckSound, ListSound, CheckCatches, UnfilteredComplete, Sound, At
<1>3. QED
  BY <1>1, <1>2 DEF ExpensesInv, PartsInv, ExpensesTypeOK, LedgerOK

LEMMA IdleFits == Fits(Idle) /\ Sound(Idle)
BY DEF Fits, Sound, Idle, CallState

\* A step of one call that leaves the ledger alone.
LEMMA QuietStep ==
  ASSUME PartsInv, NEW c \in Caller, NEW k, Goto(c, k), UNCHANGED <<ledger, made>>,
         Fits(k), Sound(k)
  PROVE  PartsInv'
<1>1. /\ made \in 0..MaxExpenses /\ LedgerOK /\ Unmade
      /\ calls \in [Caller -> CallState]
      /\ \A d \in Caller : Fits(calls[d]) /\ Sound(calls[d])
  BY DEF PartsInv
<1>2. k \in CallState
  BY DEF Fits
<1>3. calls' \in [Caller -> CallState]
  BY <1>1, <1>2 DEF Goto
<1>4. \A d \in Caller : calls'[d] = IF d = c THEN k ELSE calls[d]
  BY <1>1 DEF Goto
<1>5. (made \in 0..MaxExpenses /\ LedgerOK /\ Unmade)'
  BY <1>1 DEF LedgerOK, Unmade
<1>6. Live' = Live /\ \A i : Place(i)' = Place(i)
  BY DEF Live, Place, Before, Ahead
<1>7. ASSUME NEW d \in Caller
      PROVE  (Fits(calls[d]) /\ Sound(calls[d]))'
  <2>1. PICK r : r = calls'[d] /\ Fits(r) /\ Sound(r)
    BY <1>1, <1>4
  <2>2. Fits(calls[d])'
    BY <2>1 DEF Fits
  <2>3. \A i, f : Duplicate(i, f)' <=> Duplicate(i, f)
    BY DEF Duplicate
  <2>4. Sound(calls[d])'
    BY <2>1, <2>3, <1>6, Zenon DEF Sound
  <2>5. QED
    BY <2>2, <2>4
<1>8. QED
  BY <1>3, <1>5, <1>7 DEF PartsInv

-----------------------------------------------------------------------------
(* Steps that leave the ledger alone. *)

LEMMA CallFields ==
  ASSUME PartsInv, NEW c \in Caller
  PROVE  calls[c] \in CallState /\ Fits(calls[c]) /\ Sound(calls[c])
BY DEF PartsInv, Fits

LEMMA PlaceNat == ASSUME LedgerOK, NEW i \in Live PROVE Place(i) \in Nat
BY PlaceBounds, LiveFinite, FS_CardinalityType

LEMMA CreateStep ==
  ASSUME PartsInv, NEW c \in Caller, Create(c)
  PROVE  PartsInv'
<1>1. PICK form \in Expense, allow \in BOOLEAN :
         Goto(c, IF allow THEN [Idle EXCEPT !.at = "recording", !.form = form]
                 ELSE [Idle EXCEPT !.at = "checking", !.form = form,
                                   !.stood = {i \in Live : Duplicate(i, form)}])
  BY DEF Create
<1>2. CASE allow
  <2> DEFINE k == [Idle EXCEPT !.at = "recording", !.form = form]
  <2>1. Fits(k) /\ Sound(k)
    BY DEF Fits, Sound, Idle, CallState
  <2>2. QED
    BY <1>1, <1>2, <2>1, QuietStep DEF Create
<1>3. CASE ~allow
  <2> DEFINE S == {i \in Live : Duplicate(i, form)}
             k == [Idle EXCEPT !.at = "checking", !.form = form, !.stood = S]
  <2>1. S \subseteq Live /\ S \subseteq Id /\ \A i \in S : Duplicate(i, form) /\ Place(i) >= 0
    BY PlaceNat DEF Live, PartsInv
  <2> HIDE DEF S
  <2>2. Fits(k)
    BY <2>1 DEF Fits, Idle, CallState
  <2>3. Sound(k)
    BY <2>1 DEF Sound, Idle
  <2>4. QED
    BY <1>1, <1>3, <2>2, <2>3, QuietStep DEF Create, S
<1>4. QED
  BY <1>2, <1>3

LEMMA CheckPageStep ==
  ASSUME PartsInv, NEW c \in Caller, CheckPage(c)
  PROVE  PartsInv'
<1> DEFINE k    == calls[c]
           ids  == Page(k.cursor, PageSize)
           met  == k.match \/ \E i \in ids : Duplicate(i, k.form)
           full == (\E i \in ids : Past(i, k.form)) \/ ~HasMore(k.cursor, PageSize)
           rec  == [k EXCEPT !.at = "recording", !.full = full]
           next == [k EXCEPT !.match = met, !.page = @ + 1, !.cursor = @ + PageSize]
<1>1. /\ k \in CallState /\ k.at = "checking" /\ k.form \in Expense /\ LedgerOK
      /\ k.stood \subseteq Live
      /\ \A i \in k.stood : Duplicate(i, k.form) /\ (k.match \/ Place(i) >= k.cursor)
  BY CallFields DEF CheckPage, At, Fits, Sound, PartsInv
<1>2. k.cursor \in Nat /\ k.match \in BOOLEAN /\ met \in BOOLEAN /\ full \in BOOLEAN
  BY <1>1 DEF CallState
\* What stood is on this page or beyond it, or a duplicate has been met.
<1>3. ASSUME NEW i \in k.stood, ~met
      PROVE  Place(i) \in Nat /\ Place(i) >= k.cursor + PageSize
  <2>1. i \in Live /\ Place(i) \in Nat /\ Place(i) >= k.cursor /\ Duplicate(i, k.form)
    BY <1>1, <1>3, PlaceNat
  <2>2. i \notin ids
    BY <1>3, <2>1
  <2>3. QED
    BY <1>2, <2>1, <2>2 DEF Page
\* If no duplicate was met, then a full check leaves none that stood.
<1>4. ASSUME ~met, full
      PROVE  k.stood = {}
  <2>1. SUFFICES ASSUME NEW i \in k.stood PROVE FALSE
    OBVIOUS
  <2>2. i \in Live /\ Duplicate(i, k.form) /\ Place(i) \in Nat /\ Place(i) >= k.cursor + PageSize
    BY <1>1, <1>3, <1>4
  <2>3. CASE \E p \in ids : Past(p, k.form)
    <3>1. PICK p \in ids : Past(p, k.form)
      BY <2>3
    <3>2. p \in Live /\ Place(p) \in k.cursor .. k.cursor + PageSize - 1
      BY DEF Page
    <3>3. ledger[i].date \in Nat /\ ledger[p].date \in Nat /\ k.form.date \in Nat
      BY <1>1, <2>2, <3>2 DEF LedgerOK, Expense, Live
    <3>4. Ahead(i, p)
      BY <2>2, <3>1, <3>3 DEF Past, Duplicate, Ahead
    <3>5. Place(i) < Place(p)
      BY <1>1, <2>2, <3>2, <3>4, PlaceGrows
    <3>6. QED
      BY <1>2, <2>2, <3>2, <3>5
  <2>4. CASE ~HasMore(k.cursor, PageSize)
    BY <1>1, <1>2, <2>2, <2>4, PlaceBounds, LiveFinite, FS_CardinalityType DEF HasMore
  <2>5. QED
    BY <1>4, <2>3, <2>4
<1>5. \/ Goto(c, Idle)
      \/ ~met /\ Goto(c, rec)
      \/ Goto(c, next)
  BY DEF CheckPage
<1>6. CASE Goto(c, Idle)
  BY <1>6, IdleFits, QuietStep DEF CheckPage
<1>7. CASE ~met /\ Goto(c, rec)
  <2> HIDE DEF met, full
  <2>1. Fits(rec)
    BY <1>1, <1>2 DEF Fits, CallState
  <2>2. Sound(rec)
    BY <1>1, <1>2, <1>4, <1>7 DEF Sound, CallState
  <2>3. QED
    BY <1>7, <2>1, <2>2, QuietStep DEF CheckPage
<1>8. CASE Goto(c, next)
  <2> HIDE DEF met, full
  <2>2. next.at = "checking" /\ next.stood = k.stood /\ next.form = k.form
        /\ next.match = met /\ next.cursor = k.cursor + PageSize
    BY <1>1 DEF CallState
  <2>5. k.page + 1 \in Nat /\ k.cursor + PageSize \in Nat
    BY <1>1 DEF CallState
  <2>6. next \in CallState
    BY <1>1, <1>2, <2>5 DEF CallState
  <2>1. Fits(next)
    BY <1>1, <2>2, <2>6 DEF Fits
  <2>3. Sound(next)
    BY <1>1, <1>3, <2>2 DEF Sound
  <2>4. QED
    BY <1>8, <2>1, <2>3, QuietStep DEF CheckPage
<1>9. QED
  BY <1>5, <1>6, <1>7, <1>8

\* The expense is recorded without more ado.
LEMMA CheckFailsStep ==
  ASSUME PartsInv, NEW c \in Caller, CheckFails(c)
  PROVE  PartsInv'
<1> DEFINE k == [Idle EXCEPT !.at = "recording", !.form = calls[c].form]
<1>1. calls[c].form \in Expense
  BY CallFields DEF CheckFails, At, Fits
<1>2. Fits(k) /\ Sound(k)
  BY <1>1 DEF Fits, Sound, Idle, CallState
<1>3. QED
  BY <1>2, QuietStep DEF CheckFails

\* Steps after which the call is over.
LEMMA EndStep ==
  ASSUME PartsInv, NEW c \in Caller, Missing(c) \/ Close(c) \/ Abort(c)
  PROVE  PartsInv'
BY IdleFits, QuietStep DEF Missing, Close, Abort

LEMMA UpdateStep ==
  ASSUME PartsInv, NEW c \in Caller, Update(c)
  PROVE  PartsInv'
<1>1. PICK i \in Live, named \in Changes :
         Goto(c, [Idle EXCEPT !.at = "updating", !.target = i, !.named = named])
  BY DEF Update
<1> DEFINE k == [Idle EXCEPT !.at = "updating", !.target = i, !.named = named]
<1>2. i \in Id /\ named \in Change
  BY ChangesAssumption DEF Live
<1>3. Fits(k) /\ Sound(k)
  BY <1>2 DEF Fits, Sound, Idle, CallState
<1>4. QED
  BY <1>1, <1>3, QuietStep DEF Update

LEMMA FetchStep ==
  ASSUME PartsInv, NEW c \in Caller, Fetch(c)
  PROVE  PartsInv'
<1>1. PICK payer \in {ledger[calls[c].target].payer, Me[c]} :
         Goto(c, [calls[c] EXCEPT !.at = "fetched",
                    !.read = [ledger[calls[c].target] EXCEPT !.payer = payer]])
  BY DEF Fetch
<1> DEFINE e == [ledger[calls[c].target] EXCEPT !.payer = payer]
           k == [calls[c] EXCEPT !.at = "fetched", !.read = e]
<1>2. /\ calls[c] \in CallState /\ calls[c].named \in Change /\ calls[c].target \in Id
  BY CallFields DEF Fetch, At, Fits
<1>3. ledger[calls[c].target] \in Expense
  BY DEF Fetch, Live, PartsInv, LedgerOK
<1>4. payer \in Person
  BY <1>3, GroupAssumption DEF Expense
<1>5. e \in Expense
  BY <1>3, <1>4 DEF Expense
<1> HIDE DEF e
<1>6. k.at = "fetched" /\ k.named = calls[c].named /\ k.target = calls[c].target /\ k.read = e
  BY <1>2 DEF CallState
<1>7. k \in CallState
  BY <1>2, <1>5 DEF CallState
<1>8. Fits(k) /\ Sound(k)
  BY <1>2, <1>5, <1>6, <1>7 DEF Fits, Sound
<1>9. QED
  BY <1>1, <1>8, QuietStep DEF Fetch, e

LEMMA DeleteStep ==
  ASSUME PartsInv, NEW c \in Caller, Delete(c)
  PROVE  PartsInv'
<1>1. PICK i \in Live : Goto(c, [Idle EXCEPT !.at = "deleting", !.target = i])
  BY DEF Delete
<1> DEFINE k == [Idle EXCEPT !.at = "deleting", !.target = i]
<1>2. Fits(k) /\ Sound(k)
  BY DEF Fits, Sound, Idle, CallState, Live
<1>3. QED
  BY <1>1, <1>2, QuietStep DEF Delete

LEMMA FindStep ==
  ASSUME PartsInv, NEW c \in Caller, Find(c)
  PROVE  PartsInv'
<1> DEFINE k == [calls[c] EXCEPT !.at = "found"]
<1>1. calls[c] \in CallState /\ calls[c].target \in Id
  BY CallFields DEF Find, At, Fits
<1>2. Fits(k) /\ Sound(k)
  BY <1>1 DEF Fits, Sound, CallState
<1>3. QED
  BY <1>2, QuietStep DEF Find

LEMMA ListStep ==
  ASSUME PartsInv, NEW c \in Caller, List(c)
  PROVE  PartsInv'
<1>1. PICK payer \in Filters :
         Goto(c, [Idle EXCEPT !.at = "listing", !.payer = payer, !.room = Limit,
                              !.stood = {i \in Live : Wanted(i, payer)}])
  BY DEF List
<1> DEFINE S == {i \in Live : Wanted(i, payer)}
           k == [Idle EXCEPT !.at = "listing", !.payer = payer, !.room = Limit, !.stood = S]
<1>2. S \subseteq Live /\ S \subseteq Id /\ \A i \in S : Place(i) >= 0
  BY PlaceNat DEF Live, PartsInv
<1>3. payer \in Person \cup {None} /\ Limit \in Nat
  BY GroupAssumption
<1> HIDE DEF S
<1>4. Fits(k)
  BY <1>2, <1>3 DEF Fits, Idle, CallState
<1>5. Sound(k)
  BY <1>2 DEF Sound, Idle
<1>6. QED
  BY <1>1, <1>4, <1>5, QuietStep DEF List, S

LEMMA ContinueStep ==
  ASSUME PartsInv, NEW c \in Caller, Continue(c)
  PROVE  PartsInv'
<1> DEFINE k == [calls[c] EXCEPT !.at = "listing", !.room = Limit, !.page = 0]
<1>1. calls[c] \in CallState /\ Sound(calls[c]) /\ calls[c].at = "listed"
  BY CallFields DEF Continue, At
<1>2. /\ k.at = "listing" /\ k.room = Limit /\ k.stood = calls[c].stood
      /\ k.got = calls[c].got /\ k.cursor = calls[c].cursor /\ k.payer = calls[c].payer
  BY <1>1 DEF CallState
<1>3. k \in CallState
  BY <1>1 DEF CallState
<1>4. Fits(k) /\ Sound(k)
  BY <1>1, <1>2, <1>3 DEF Fits, Sound
<1>5. QED
  BY <1>4, QuietStep DEF Continue

LEMMA ListPageStep ==
  ASSUME PartsInv, NEW c \in Caller, ListPage(c)
  PROVE  PartsInv'
<1> DEFINE k     == calls[c]
           hits  == {i \in Page(k.cursor, Fetched) : Wanted(i, k.payer)}
           taken == {i \in hits : Cardinality(hits \cap Before(i)) < k.room}
           more  == HasMore(k.cursor, Fetched)
           next  == [k EXCEPT !.got = @ \cup taken, !.room = @ - Cardinality(taken),
                              !.cursor = @ + Fetched, !.page = @ + 1]
           at    == IF ~more THEN "complete"
                    ELSE IF next.room = 0 \/ next.page = MaxPages THEN "listed"
                    ELSE "listing"
           r     == [next EXCEPT !.at = at]
<1>1. /\ k \in CallState /\ Fits(k) /\ Sound(k) /\ k.at = "listing" /\ LedgerOK
  BY CallFields DEF ListPage, At, PartsInv
<1>2. k.cursor \in Nat /\ k.page \in Nat /\ k.room \in Nat /\ k.got \subseteq Id
  BY <1>1 DEF CallState
<1>3. hits \subseteq Live /\ taken \subseteq Id /\ taken \subseteq hits
  BY PageFinite DEF Live
<1>4. Cardinality(taken) \in 0 .. k.room
  BY <1>1, <1>2, <1>3, FirstFew
\* An unfiltered page is taken whole, and fills the answer if there is more.
<1>5. ASSUME k.payer = None
      PROVE  /\ taken = Page(k.cursor, Limit)
             /\ more => k.room - Cardinality(taken) = 0
  <2>1. hits = Page(k.cursor, Limit)
    BY <1>5 DEF Wanted, Fetched
  <2>2. k.room = Limit
    BY <1>1, <1>5 DEF Sound
  <2>3. \A i \in Page(k.cursor, Limit) :
           Cardinality(Page(k.cursor, Limit) \cap Before(i)) < Limit
    BY <1>1, <1>2, PageFits
  <2>4. taken = Page(k.cursor, Limit)
    BY <2>1, <2>2, <2>3
  <2>5. more => Cardinality(Page(k.cursor, Limit)) = Limit
    BY <1>1, <1>2, PageFull DEF Fetched
  <2>6. more => Cardinality(taken) = Limit
    BY <2>4, <2>5
  <2> HIDE DEF taken, more
  <2>7. QED
    BY <2>2, <2>4, <2>6
<1> DEFINE n == Cardinality(taken)
<1>6. n \in Nat /\ k.room - n \in Nat /\ k.cursor + Fetched \in Nat /\ k.page + 1 \in Nat
  BY <1>2, <1>4 DEF Fetched
<1>7. at \in {"complete", "listed", "listing"}
  OBVIOUS
<1>8. /\ at = "complete" <=> ~more
      /\ at = "listing" => k.room - n # 0
  <2>1. next.room = k.room - n
    BY <1>1 DEF CallState
  <2>2. QED
    BY <2>1
<1> HIDE DEF taken, n, more, at
<1>9. /\ r.at = at /\ r.payer = k.payer /\ r.stood = k.stood /\ r.full = k.full
      /\ r.got = k.got \cup taken /\ r.room = k.room - n /\ r.cursor = k.cursor + Fetched
  BY <1>1 DEF CallState, n
<1>10. r \in CallState
  BY <1>1, <1>2, <1>3, <1>6, <1>7 DEF CallState, n
<1>11. Fits(r)
  BY <1>7, <1>9, <1>10 DEF Fits
<1>12. Sound(r)
  <2>1. ASSUME k.payer = None, NEW i \in k.stood
        PROVE  /\ i \in Live /\ Place(i) \in Nat
               /\ i \in k.got \cup taken \/ Place(i) >= k.cursor + Fetched
    <3>1. i \in Live /\ (i \in k.got \/ Place(i) >= k.cursor)
      BY <1>1, <2>1 DEF Sound
    <3>2. Place(i) \in Nat
      BY <1>1, <3>1, PlaceNat
    <3>3. taken = Page(k.cursor, Limit)
      BY <1>5, <2>1
    <3>4. QED
      BY <1>2, <3>1, <3>2, <3>3 DEF Page, Fetched
  <2>2. ASSUME k.payer = None, ~more, NEW i \in k.stood
        PROVE  i \in k.got \cup taken
    <3>1. Place(i) < Cardinality(Live) /\ Cardinality(Live) \in Nat
      BY <1>1, <2>1, <2>2, PlaceBounds, LiveFinite, FS_CardinalityType
    <3>2. ~(k.cursor + Fetched < Cardinality(Live))
      BY <2>2 DEF HasMore, more
    <3>3. QED
      BY <1>6, <2>1, <2>2, <3>1, <3>2
  <2>3. r.at \in {"listing", "listed"} /\ r.payer = None =>
           /\ r.stood \subseteq Live
           /\ \A i \in r.stood : i \in r.got \/ Place(i) >= r.cursor
           /\ r.at = "listing" => r.room = Limit
    BY <1>5, <1>8, <1>9, <2>1 DEF n
  <2>4. r.at = "complete" /\ r.payer = None => r.stood \subseteq r.got
    BY <1>8, <1>9, <2>2
  <2>5. r.at \notin {"checking", "recording"}
    BY <1>7, <1>9
  <2>6. QED
    BY <2>3, <2>4, <2>5 DEF Sound
<1>13. Goto(c, r) /\ UNCHANGED <<ledger, made>>
  BY DEF ListPage, taken, n, more, at
<1>14. QED
  BY <1>11, <1>12, <1>13, QuietStep

-----------------------------------------------------------------------------
(* Steps that change the ledger. *)

\* i is listed as before, and no nearer to the front.
Still(i) ==
    /\ i \in Live' /\ ledger'[i].date = ledger[i].date /\ ledger'[i].amount = ledger[i].amount
    /\ Place(i) \in Nat /\ Place(i)' \in Nat /\ Place(i)' >= Place(i)

LEMMA StillPlace ==
  ASSUME LedgerOK, LedgerOK', NEW i \in Live,
         \A j \in Before(i) \cup {i} : j \in Live' /\ ledger'[j].date = ledger[j].date,
         ledger'[i].amount = ledger[i].amount
  PROVE  Still(i)
<1>1. Before(i) \subseteq Before(i)'
  BY DEF Before, Ahead
<1>2. IsFiniteSet(Live')
  BY IdFinite, FS_Subset DEF Live
<1>3. IsFiniteSet(Before(i)) /\ IsFiniteSet(Before(i)')
  BY <1>2, LiveFinite, FS_Subset DEF Before
<1>4. Cardinality(Before(i)) <= Cardinality(Before(i)')
  BY <1>1, <1>3, FS_Subset
<1>5. QED
  BY <1>3, <1>4, FS_CardinalityType DEF Still, Place

\* What a call counts on may shrink, and what is left is as it was.
LEMMA KeepsSound ==
  ASSUME NEW k \in CallState, Sound(k), NEW S \in SUBSET k.stood,
         \A i \in S : i \in Live => Still(i),
         NEW d \in Caller, calls'[d] = [k EXCEPT !.stood = S]
  PROVE  Sound(calls[d])'
<1> DEFINE r == [k EXCEPT !.stood = S]
<1>1. /\ r.at = k.at /\ r.form = k.form /\ r.match = k.match /\ r.cursor = k.cursor
      /\ r.payer = k.payer /\ r.got = k.got /\ r.room = k.room /\ r.full = k.full
      /\ r.stood = S
  BY DEF CallState
<1>2. k.cursor \in Nat
  BY DEF CallState
<1>3. \A i \in S : i \in Live => /\ i \in Live' /\ Place(i)' >= Place(i)
                                /\ Place(i) \in Nat /\ Place(i)' \in Nat
                                /\ \A f : Duplicate(i, f)' <=> Duplicate(i, f)
  BY DEF Still, Duplicate
<1> HIDE DEF r
<1>4. r.at = "checking" =>
         /\ r.stood \subseteq Live'
         /\ \A i \in r.stood :
               Duplicate(i, r.form)' /\ (r.match \/ Place(i)' >= r.cursor)
  BY <1>1, <1>2, <1>3 DEF Sound
<1>5. r.at \in {"listing", "listed"} /\ r.payer = None =>
         /\ r.stood \subseteq Live'
         /\ \A i \in r.stood : i \in r.got \/ Place(i)' >= r.cursor
         /\ r.at = "listing" => r.room = Limit
  BY <1>1, <1>2, <1>3 DEF Sound
<1>6. /\ r.at = "recording" /\ r.full => r.stood = {}
      /\ r.at = "complete" /\ r.payer = None => r.stood \subseteq r.got
  BY <1>1 DEF Sound
<1>7. calls'[d] = r
  BY DEF r
<1>8. QED
  BY <1>4, <1>5, <1>6, <1>7, Zenon DEF Sound

LEMMA LedgerStep ==
  ASSUME PartsInv, LedgerOK', Unmade', made' \in 0..MaxExpenses,
         calls' \in [Caller -> CallState],
         \A d \in Caller :
            \/ calls'[d] = Idle
            \/ \E S \in SUBSET calls[d].stood :
                  /\ calls'[d] = [calls[d] EXCEPT !.stood = S]
                  /\ \A i \in S : i \in Live => Still(i)
  PROVE  PartsInv'
<1>1. ASSUME NEW d \in Caller
      PROVE  (Fits(calls[d]) /\ Sound(calls[d]))'
  <2>1. CASE calls'[d] = Idle
    <3>1. /\ Idle \in CallState /\ Idle.at = "idle"
      BY DEF Idle, CallState
    <3>2. Fits(calls[d])'
      BY <2>1, <3>1 DEF Fits
    <3>3. Sound(calls[d])'
      BY <2>1, <3>1 DEF Sound
    <3>4. QED
      BY <3>2, <3>3
  <2>2. CASE calls'[d] # Idle
    <3>1. PICK S \in SUBSET calls[d].stood :
             /\ calls'[d] = [calls[d] EXCEPT !.stood = S]
             /\ \A i \in S : i \in Live => Still(i)
      BY <2>2
    <3>2. PICK k : k = calls[d] /\ k \in CallState /\ Fits(k) /\ Sound(k)
      BY CallFields
    <3>3. calls'[d] = [k EXCEPT !.stood = S] /\ S \in SUBSET k.stood
      BY <3>1, <3>2
    <3>4. Sound(calls[d])'
      BY <3>1, <3>2, <3>3, KeepsSound
    <3>5. calls'[d] \in CallState
      OBVIOUS
    <3>6. /\ calls'[d].at = k.at /\ calls'[d].form = k.form /\ calls'[d].target = k.target
          /\ calls'[d].named = k.named /\ calls'[d].read = k.read
      BY <3>2, <3>3 DEF CallState
    <3>7. Fits(calls[d])'
      BY <3>2, <3>5, <3>6 DEF Fits
    <3>8. QED
      BY <3>4, <3>7
  <2>3. QED
    BY <2>1, <2>2
<1>2. QED
  BY <1>1 DEF PartsInv

\* A new expense takes an ID of its own and moves nothing towards the front.
LEMMA AddKeeps ==
  ASSUME PartsInv, NEW form \in Expense, Add(form)
  PROVE  /\ LedgerOK' /\ Unmade' /\ made' \in 0..MaxExpenses
         /\ \A i \in Live : ledger'[i] = ledger[i] /\ Still(i)
<1>1. /\ made \in Nat /\ made < MaxExpenses /\ made' = made + 1 /\ made' \in Id
      /\ ledger' = [ledger EXCEPT ![made'] = form]
      /\ ledger \in [Id -> Expense \cup {None}]
  BY DEF PartsInv, Add, Id, LedgerOK
<1>2. LedgerOK'
  BY <1>1 DEF LedgerOK
<1>3. Unmade'
  BY <1>1 DEF Unmade, PartsInv, Id
<1>4. ASSUME NEW i \in Live
      PROVE  ledger'[i] = ledger[i] /\ i \in Live'
  BY <1>1, <1>4 DEF Live, Unmade, PartsInv, Id
<1>5. ASSUME NEW i \in Live
      PROVE  Still(i)
  <2>1. \A j \in Before(i) \cup {i} : j \in Live' /\ ledger'[j].date = ledger[j].date
    BY <1>4 DEF Before
  <2>2. QED
    BY <1>2, <1>4, <2>1, StillPlace DEF PartsInv
<1>6. QED
  BY <1>1, <1>2, <1>3, <1>4, <1>5

LEMMA RecordStep ==
  ASSUME PartsInv, NEW c \in Caller, Record(c)
  PROVE  PartsInv'
<1>1. calls[c].form \in Expense
  BY CallFields DEF Record, At, Fits
<1>2. /\ LedgerOK' /\ Unmade' /\ made' \in 0..MaxExpenses
      /\ \A i \in Live : Still(i)
  BY <1>1, AddKeeps DEF Record
<1>3. calls \in [Caller -> CallState] /\ Idle \in CallState
  BY DEF PartsInv, Idle, CallState
<1>4. calls' \in [Caller -> CallState]
  BY <1>3 DEF Record, Goto
<1>5. ASSUME NEW d \in Caller
      PROVE  calls'[d] = Idle \/ calls'[d] = [calls[d] EXCEPT !.stood = calls[d].stood]
  <2>1. calls'[d] = Idle \/ calls'[d] = calls[d]
    BY <1>3 DEF Record, Goto
  <2>2. calls[d] = [calls[d] EXCEPT !.stood = calls[d].stood]
    BY <1>3 DEF CallState
  <2>3. QED
    BY <2>1, <2>2
<1>6. QED
  BY <1>2, <1>4, <1>5, LedgerStep

LEMMA SpliitAddStep ==
  ASSUME PartsInv, SpliitAdd
  PROVE  PartsInv'
<1>1. PICK form \in Expense : Add(form)
  BY DEF SpliitAdd
<1>2. /\ LedgerOK' /\ Unmade' /\ made' \in 0..MaxExpenses
      /\ \A i \in Live : Still(i)
  BY <1>1, AddKeeps
<1>3. calls \in [Caller -> CallState] /\ calls' = calls
  BY DEF PartsInv, SpliitAdd
<1>4. \A d \in Caller : calls'[d] = [calls[d] EXCEPT !.stood = calls[d].stood]
  BY <1>3 DEF CallState
<1>5. QED
  BY <1>2, <1>3, <1>4, LedgerStep

\* What a change of expense i does to the calls.
Shrunk(i, leaves) ==
    /\ calls' \in [Caller -> CallState]
    /\ \A d \in Caller :
          \/ calls'[d] = Idle
          \/ \E S \in SUBSET calls[d].stood :
                /\ calls'[d] = [calls[d] EXCEPT !.stood = S]
                /\ \A j \in S : j # i /\ (leaves => Ahead(j, i))

LEMMA DisturbedCalls ==
  ASSUME PartsInv, NEW c \in Caller, NEW i, NEW leaves \in BOOLEAN,
         calls' = [Disturbed(i, leaves) EXCEPT ![c] = Idle]
  PROVE  Shrunk(i, leaves)
<1> DEFINE S(d) == {j \in calls[d].stood : j # i /\ (leaves => Ahead(j, i))}
<1>1. calls \in [Caller -> CallState] /\ Idle \in CallState
  BY DEF PartsInv, Idle, CallState
<1>2. \A d \in Caller : calls'[d] = IF d = c THEN Idle ELSE [calls[d] EXCEPT !.stood = S(d)]
  BY DEF Disturbed
<1>3. \A d \in Caller : S(d) \subseteq calls[d].stood /\ calls[d].stood \subseteq Id
  BY <1>1 DEF CallState
<1>4. \A d \in Caller : \A j \in S(d) : j # i /\ (leaves => Ahead(j, i))
  OBVIOUS
<1> HIDE DEF S
<1>5. \A d \in Caller : [calls[d] EXCEPT !.stood = S(d)] \in CallState
  BY <1>1, <1>3 DEF CallState
<1>6. calls' \in [Caller -> CallState]
  <2>1. calls' = [d \in Caller |-> calls'[d]]
    BY DEF Disturbed
  <2>2. \A d \in Caller : calls'[d] \in CallState
    BY <1>1, <1>2, <1>5
  <2>3. QED
    BY <2>1, <2>2
<1>7. QED
  BY <1>2, <1>3, <1>4, <1>6 DEF Shrunk

\* An expense other than i stays where it was if i does, or if it is ahead of i.
LEMMA OthersStill ==
  ASSUME PartsInv, LedgerOK', NEW i \in Live, NEW leaves \in BOOLEAN,
         \A j \in Live : j # i => ledger'[j] = ledger[j],
         ~leaves => i \in Live' /\ ledger'[i].date = ledger[i].date,
         NEW j \in Live, j # i, leaves => Ahead(j, i)
  PROVE  Still(j)
<1>1. LedgerOK
  BY DEF PartsInv
<1>2. \A h \in Live : h # i => h \in Live' /\ ledger'[h].date = ledger[h].date
  BY DEF Live
<1>3. leaves => i \notin Before(j)
  BY <1>1, AheadOrder DEF Before
<1>4. \A h \in Before(j) \cup {j} : h \in Live' /\ ledger'[h].date = ledger[h].date
  BY <1>2, <1>3 DEF Before
<1>5. ledger'[j].amount = ledger[j].amount
  OBVIOUS
<1>6. QED
  BY <1>1, <1>4, <1>5, StillPlace

LEMMA FilledOK ==
  ASSUME NEW k, k.named \in Change, k.read \in Expense
  PROVE  Filled(k) \in Expense
<1>1. /\ Or(k.named.date, k.read.date) \in 0..LastDate
      /\ Or(k.named.amount, k.read.amount) \in Amount
      /\ Or(k.named.payer, k.read.payer) \in Person
  BY DEF Or, Change, Expense
<1>2. Sharing(k) \in Split
  BY GroupAssumption DEF Sharing, Expense
<1>3. QED
  BY <1>1, <1>2, GroupAssumption DEF Filled, Expense

LEMMA ReplaceStep ==
  ASSUME PartsInv, NEW c \in Caller, Replace(c)
  PROVE  PartsInv'
<1> DEFINE i == calls[c].target
           e == Filled(calls[c])
           leaves == e.date # ledger[i].date
<1>1. e \in Expense
  BY CallFields, FilledOK DEF Replace, At, Fits
<1>2. i \in Live /\ i \in Id /\ ledger' = [ledger EXCEPT ![i] = e] /\ made' = made
  BY DEF Replace, Live
<1>3. calls' = [Disturbed(i, leaves) EXCEPT ![c] = Idle]
  BY DEF Replace
<1> HIDE DEF i, e
<1>4. ledger \in [Id -> Expense \cup {None}] /\ e # None
  BY <1>1, NoneAssumption DEF PartsInv, LedgerOK
<1>5. LedgerOK' /\ Unmade' /\ made' \in 0..MaxExpenses
  BY <1>1, <1>2, <1>4 DEF PartsInv, LedgerOK, Unmade, Live
<1>6. /\ \A j \in Live : j # i => ledger'[j] = ledger[j]
      /\ ~leaves => i \in Live' /\ ledger'[i].date = ledger[i].date
  BY <1>2, <1>4 DEF Live
<1>7. leaves \in BOOLEAN
  OBVIOUS
<1> HIDE DEF leaves
<1>8. \A j \in Live : j # i /\ (leaves => Ahead(j, i)) => Still(j)
  BY <1>2, <1>5, <1>6, <1>7, OthersStill
<1>9. Shrunk(i, leaves)
  BY <1>3, <1>7, DisturbedCalls, Zenon
<1>10. QED
  BY <1>5, <1>8, <1>9, LedgerStep DEF Shrunk

LEMMA DeleteFoundStep ==
  ASSUME PartsInv, NEW c \in Caller, DeleteFound(c)
  PROVE  PartsInv'
<1> DEFINE i == calls[c].target
<1>1. i \in Live /\ i \in Id /\ ledger' = [ledger EXCEPT ![i] = None] /\ made' = made
  BY DEF DeleteFound, Live
<1>2. calls' = [Disturbed(i, TRUE) EXCEPT ![c] = Idle]
  BY DEF DeleteFound
<1> HIDE DEF i
<1>3. ledger \in [Id -> Expense \cup {None}]
  BY DEF PartsInv, LedgerOK
<1>4. LedgerOK' /\ Unmade' /\ made' \in 0..MaxExpenses
  BY <1>1, <1>3 DEF PartsInv, LedgerOK, Unmade
<1>5. \A j \in Live : j # i => ledger'[j] = ledger[j]
  BY <1>1, <1>3 DEF Live
<1>6. \A j \in Live : j # i /\ Ahead(j, i) => Still(j)
  BY <1>1, <1>4, <1>5, OthersStill
<1>7. Shrunk(i, TRUE)
  BY <1>2, DisturbedCalls, Zenon
<1>8. QED
  BY <1>4, <1>6, <1>7, LedgerStep DEF Shrunk

-----------------------------------------------------------------------------
(* The theorems. *)

LEMMA PartsInit == Init => PartsInv
<1>1. Init => made \in 0..MaxExpenses /\ LedgerOK /\ Unmade
  BY DEF Init, LedgerOK, Unmade
<1>2. Idle \in CallState
  BY DEF Idle, CallState
<1>3. ASSUME Init
      PROVE  \A c \in Caller : calls[c] = Idle
  BY <1>3 DEF Init
<1>4. QED
  BY <1>1, <1>2, <1>3, IdleFits DEF PartsInv, Init

LEMMA PartsNext == PartsInv /\ [Next]_vars => PartsInv'
<1> SUFFICES ASSUME PartsInv, [Next]_vars
             PROVE  PartsInv'
  OBVIOUS
<1>1. CASE SpliitAdd
  BY <1>1, SpliitAddStep
<1>2. ASSUME NEW c \in Caller, Create(c) \/ CheckPage(c) \/ CheckFails(c) \/ Record(c)
      PROVE  PartsInv'
  BY <1>2, CreateStep, CheckPageStep, CheckFailsStep, RecordStep
<1>3. ASSUME NEW c \in Caller, Update(c) \/ Fetch(c) \/ Replace(c)
      PROVE  PartsInv'
  BY <1>3, UpdateStep, FetchStep, ReplaceStep
<1>4. ASSUME NEW c \in Caller, Delete(c) \/ Find(c) \/ DeleteFound(c)
      PROVE  PartsInv'
  BY <1>4, DeleteStep, FindStep, DeleteFoundStep
<1>5. ASSUME NEW c \in Caller, List(c) \/ ListPage(c) \/ Continue(c)
      PROVE  PartsInv'
  BY <1>5, ListStep, ListPageStep, ContinueStep
<1>6. ASSUME NEW c \in Caller, Missing(c) \/ Close(c) \/ Abort(c)
      PROVE  PartsInv'
  BY <1>6, EndStep
<1>7. CASE UNCHANGED vars
  <2>1. /\ Live' = Live /\ \A i : Place(i)' = Place(i)
        /\ \A i, f : Duplicate(i, f)' <=> Duplicate(i, f)
    BY <1>7 DEF vars, Live, Place, Before, Ahead, Duplicate
  <2>2. calls' = calls /\ made' = made /\ (LedgerOK' <=> LedgerOK) /\ (Unmade' <=> Unmade)
    BY <1>7 DEF vars, LedgerOK, Unmade
  <2>3. \A c \in Caller : (Fits(calls[c]) <=> Fits(calls[c])') /\ (Sound(calls[c]) => Sound(calls[c])')
    <3>1. SUFFICES ASSUME NEW c \in Caller, NEW k, k = calls[c]
                   PROVE  (Fits(k) <=> Fits(calls[c])') /\ (Sound(k) => Sound(calls[c])')
      OBVIOUS
    <3>2. calls'[c] = k
      BY <2>2, <3>1
    <3>3. Fits(k) <=> Fits(calls[c])'
      BY <3>2 DEF Fits
    <3>4. Sound(k) => Sound(calls[c])'
      BY <2>1, <3>2, Zenon DEF Sound
    <3>5. QED
      BY <3>3, <3>4
  <2>4. QED
    BY <2>2, <2>3 DEF PartsInv
<1>8. QED
  BY <1>1, <1>2, <1>3, <1>4, <1>5, <1>6, <1>7 DEF Next

LEMMA ExpensesInvariance == Spec => []ExpensesInv
<1>1. PartsInv => ExpensesInv
  BY InvParts
<1>2. QED
  BY <1>1, PartsInit, PartsNext, PTL DEF Spec

\* The type invariant: whatever calls do side by side, each keeps what its next
\* request needs, and no page leaves an answer less than no room.
THEOREM ExpenseTypesHold == Spec => []ExpensesTypeOK
<1>1. ExpensesInv => ExpensesTypeOK
  BY DEF ExpensesInv
<1>2. QED
  BY <1>1, ExpensesInvariance, PTL

\* likelyDuplicates, for any window, page size and number of calls: a check that
\* ran to its end has let nothing through that stood while it paged.
THEOREM DuplicatesCaught == Spec => []CheckCatches
<1>1. ExpensesInv => CheckCatches
  BY DEF ExpensesInv
<1>2. QED
  BY <1>1, ExpensesInvariance, PTL

\* list_expenses, for any limit and number of pages: followed to its end without
\* a filter, the list has shown every expense that stood throughout.
THEOREM UnfilteredListsComplete == Spec => []UnfilteredComplete
<1>1. ExpensesInv => UnfilteredComplete
  BY DEF ExpensesInv
<1>2. QED
  BY <1>1, ExpensesInvariance, PTL

\* keepSplit: no update flattens a split it was not asked to change, unless it
\* puts back the one it read.
THEOREM SplitsKept == Spec => SplitKept
<1> DEFINE Kept == \A i \in Live : i \in Live' /\ ledger'[i].split # ledger[i].split =>
                      \E c \in Caller :
                         /\ At(c, "fetched") /\ calls[c].target = i /\ calls'[c].at = "idle"
                         /\ calls[c].named.shared \/ ledger'[i].split = calls[c].read.split
<1>1. ASSUME ExpensesInv, [Next]_vars
      PROVE  [Kept]_vars
  <2>1. PartsInv
    BY <1>1, InvParts
  <2>2. SUFFICES ASSUME NEW i \in Live, i \in Live', ledger'[i].split # ledger[i].split
                 PROVE  \E c \in Caller :
                           /\ At(c, "fetched") /\ calls[c].target = i /\ calls'[c].at = "idle"
                           /\ calls[c].named.shared \/ ledger'[i].split = calls[c].read.split
    OBVIOUS
  <2>3. ~(\E form \in Expense : Add(form))
    BY <2>1, <2>2, AddKeeps
  <2>4. \A c \in Caller : ~Record(c)
    BY <2>1, <2>3, CallFields DEF Record, At, Fits
  <2>5. \A c \in Caller : ~DeleteFound(c)
    BY <2>1, <2>2 DEF DeleteFound, Live, PartsInv, LedgerOK
  <2>6. ledger' # ledger
    BY <2>2
  <2>7. PICK c \in Caller : Replace(c)
    BY <1>1, <2>3, <2>4, <2>5, <2>6
       DEF Next, vars, SpliitAdd, Create, CheckPage, CheckFails, Update, Fetch, Missing,
           Delete, Find, List, ListPage, Continue, Close, Abort
  <2>8. calls[c].target = i /\ ledger'[i] = Filled(calls[c])
    BY <2>1, <2>2, <2>7 DEF Replace, Live, PartsInv, LedgerOK
  <2>9. calls[c].named.shared \/ ledger'[i].split = calls[c].read.split
    BY <2>8 DEF Filled, Sharing
  <2>10. calls'[c].at = "idle"
    BY <2>7 DEF Replace, Disturbed, Idle
  <2>11. QED
    BY <2>7, <2>8, <2>9, <2>10 DEF Replace
<1>2. QED
  BY <1>1, ExpensesInvariance, PTL DEF Spec, SplitKept
=============================================================================
