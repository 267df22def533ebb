------------------------- MODULE FolderListings_proofs -------------------------
(***************************************************************************)
(* Listings are whole, true and open, for any library, dates and settings, *)
(* and any changes of them: what a folder has is under a name of it, what  *)
(* was never in it is not, every name has its member, and while nothing    *)
(* changes every name opens.                                               *)
(***************************************************************************)
EXTENDS Folders_proofs, WellFoundedInduction

-----------------------------------------------------------------------------
(***************************************************************************)
(* The invariant.                                                          *)
(***************************************************************************)
\* What the history says of the library and the settings of a request.
HistoryInv ==
    /\ \A l \in past \cup {lib} : always \subseteq l
    /\ stage = "idle" => memo = <<>> /\ page = 1 /\ paged = FALSE
    /\ stage # "idle" /\ ~stirred => past = {} /\ ever = lib
    /\ stage # "idle" /\ ~edited => used = settings
    /\ fresh => past = {} /\ ever = lib /\ ~edited /\ (stage # "idle" => ~stirred)

InSpan(q, a) == q.from <= Taken[a] /\ Taken[a] < q.to

\* A question was answered from one library, that may have been an earlier one,
\* unless the library changed between the pages of a search.
AnsweredFrom(l, q) ==
    IF q.kind \in Searches
    THEN (paged /\ stirred) \/ (memo[q].got = Matching(l, q) /\ memo[q].twice = {})
    ELSE memo[q].got = Said(l, q)
Answered(q) ==
    /\ \A a \in memo[q].got : InSpan(q, a)
    /\ memo[q].failed => q.kind = "months"
    /\ ~memo[q].failed =>
          \E l \in SUBSET ever :
              always \subseteq l /\ (~stirred => l = lib) /\ AnsweredFrom(l, q)
AnswerInv == \A q \in DOMAIN memo : Answered(q)

\* The pages of a search that is under way.
UpTo(S, q, n) == {a \in S : Place(S, q, a) <= n * PageSize}
SearchInv ==
    /\ page = 1 => got = {}
    /\ page # 1 => paged /\ \E q \in Question :
          /\ q.kind \in Searches
          /\ \A a \in got : InSpan(q, a)
          /\ ~stirred => got = UpTo(Matching(lib, q), q, page - 1) /\ twice = {}

\* The day, or what is known of it, under which a path is.
Dates(p) == DateRange(SubSeq(p, 1, Smaller(Len(p), 3)))

\* How the path of a folder was resolved.
IsFolderOf(t, p) ==
    /\ t \in used.trees
    /\ t = "Album" => Known(AlbumQuery) /\ (p # <<>> => AlbumIsSplit)
    /\ t = "View" => used.view /\ (p # <<>> => ~used.flat)
    /\ p # <<>> =>
          /\ Len(p) <= 4 /\ Dates(p) # NoSpan /\ Has(t, Dates(p))
          /\ Len(p) = 4 =>
                /\ HourRange(p) # NoSpan
                /\ Known(SplitQuery(t, Dates(p))) /\ IsSplit(t, Dates(p))
FolderInv == stage \in {"listing", "members"} /\ ~edited => IsFolderOf(tree, path)

\* The names are what the answers say, and nothing is left to ask.
NamesInv ==
    stage = "members" /\ ~edited =>
        names = Listing(tree, path).entries /\ Question = {}

\* The queries of a request that reads the settings as they are.
Asked(kind, t, r) ==
    [kind |-> kind,
     from |-> IF t = "View" THEN Larger(r.from, settings.after) ELSE r.from,
     to   |-> IF t = "View" THEN Smaller(r.to, settings.before) ELSE r.to]
Inhabited(t, r) == Matching(lib, Asked("has", t, r)) # {}
Large(t, r) == Cardinality(Matching(lib, Asked("split", t, r))) > settings.daySplit
FileOf(S, e) ==
    \E a \in S : \/ IsFirst(a, S) /\ e = Entry("file", DisplayName(a), a)
                 \/ ~IsFirst(a, S) /\ e = Entry("file12", a, a)
FileAt(t, r, e) == FileOf(Matching(lib, Asked("files", t, r)), e)

\* An entry that was listed under a path opens, as the library is now: in a
\* folder that is not split, ...
Flat(t) ==
    CASE t = "Timeline" -> FALSE
      [] t = "Album" -> ~(Cardinality(Matching(lib, AlbumQuery)) > settings.albumSplit)
      [] t = "View" -> settings.flat
\* ... and in one that is split by date.
OpensByDate(t, p, e) ==
    \/ /\ Len(p) < 3 /\ e.name[1] \in {"year", "month", "day"}
       /\ DateRange(Append(p, e.name)) # NoSpan
       /\ Inhabited(t, DateRange(Append(p, e.name)))
    \/ /\ Len(p) \in {3, 4} /\ Dates(p) # NoSpan /\ Inhabited(t, Dates(p))
       /\ \/ Len(p) = 3 /\ e.name[1] = "hour" /\ Large(t, Dates(p))
          \/ Len(p) = 3 /\ FileAt(t, Dates(p), e)
          \/ /\ Len(p) = 4 /\ HourRange(p) # NoSpan /\ Large(t, Dates(p))
             /\ FileAt(t, HourRange(p), e)
Opens(t, p, e) ==
    /\ t \in settings.trees
    /\ t = "View" => settings.view
    /\ IF Flat(t) THEN p = <<>> /\ FileAt(t, Everything, e) ELSE OpensByDate(t, p, e)

OpenInv ==
    fresh =>
        /\ (\A a \in lib : Agrees(a)) => \A e \in seen.entries : Opens(seen.tree, seen.path, e)
        /\ stage # "idle" /\ target # None =>
              target \in seen.entries /\ tree = seen.tree /\ path = Append(seen.path, target.name)

LInv == /\ IInv /\ HistoryInv /\ AnswerInv /\ SearchInv /\ FolderInv /\ NamesInv
        /\ OpenInv /\ EveryNameHasItsMember /\ ListedOpens

-----------------------------------------------------------------------------
(***************************************************************************)
(* What Immich says: the order of assets and the pages of a search.        *)
(***************************************************************************)
\* Assets are in a strict order.
LEMMA BeforeIsAnOrder ==
    ASSUME NEW a \in Assets, NEW b \in Assets, NEW c \in Assets
    PROVE  /\ ~Before(a, a)
           /\ Before(a, b) /\ Before(b, c) => Before(a, c)
           /\ a # b => Before(a, b) \/ Before(b, a)
           /\ Before(a, b) => Taken[a] <= Taken[b]
<1>1. /\ Taken[a] \in Nat /\ Taken[b] \in Nat /\ Taken[c] \in Nat
      /\ a \in Nat /\ b \in Nat /\ c \in Nat
  BY AssetsAreTyped
<1>2. QED
  BY <1>1 DEF Before

\* A rank is a place in the set.
LEMMA Ranks ==
    ASSUME NEW S \in SUBSET Assets, NEW a \in S
    PROVE  /\ IsFiniteSet(S) /\ Cardinality(S) \in Nat
           /\ Rank(S, a) \in 1..Cardinality(S)
           /\ Rank(S, a) = 1 => \A b \in S : ~Before(b, a)
           /\ (\A b \in S : ~Before(b, a)) => Rank(S, a) = 1
           /\ Rank(S, a) = Cardinality(S) => \A b \in S : ~Before(a, b)
           /\ (\A b \in S : ~Before(a, b)) => Rank(S, a) = Cardinality(S)
<1> DEFINE under == {b \in S : Before(b, a)}
<1>1. IsFiniteSet(S) /\ IsFiniteSet(S \ {a})
  BY ConstantsAssumption, FS_Subset
<1>2. Cardinality(S \ {a}) = Cardinality(S) - 1
  BY <1>1, FS_RemoveElement
<1>3. under \subseteq S \ {a}
  BY BeforeIsAnOrder
<1>4. IsFiniteSet(under) /\ Cardinality(under) <= Cardinality(S \ {a})
  BY <1>1, <1>3, FS_Subset
<1>5. Cardinality(under) \in Nat /\ Cardinality(S) \in Nat
  BY <1>1, <1>4, FS_CardinalityType
<1>6. Rank(S, a) = Cardinality(under) + 1
  BY DEF Rank
<1>7. Cardinality(under) = 0 <=> under = {}
  BY <1>4, FS_EmptySet
<1>8. Cardinality(under) = Cardinality(S \ {a}) => under = S \ {a}
  BY <1>1, <1>3, FS_Subset
<1>9. under = S \ {a} <=> \A b \in S : ~Before(a, b)
  <2>1. ASSUME NEW b \in S, under = S \ {a} PROVE ~Before(a, b)
    <3>1. b # a => Before(b, a)
      BY <2>1
    <3>2. QED
      BY <3>1, BeforeIsAnOrder
  <2>2. ASSUME \A b \in S : ~Before(a, b) PROVE S \ {a} \subseteq under
    BY <2>2, BeforeIsAnOrder
  <2>3. QED
    BY <1>3, <2>1, <2>2
<1>10. under = {} <=> \A b \in S : ~Before(b, a)
  OBVIOUS
<1>11. Rank(S, a) \in 1..Cardinality(S) /\ (Rank(S, a) = 1 <=> under = {})
  <2> HIDE DEF under
  <2>1. QED
    BY <1>2, <1>4, <1>5, <1>6, <1>7
<1>12. Rank(S, a) = Cardinality(S) <=> under = S \ {a}
  <2> HIDE DEF under
  <2>1. under = S \ {a} => Cardinality(under) = Cardinality(S \ {a})
    OBVIOUS
  <2>2. under = S \ {a} <=> Cardinality(under) = Cardinality(S) - 1
    BY <1>2, <1>8, <2>1
  <2>3. QED
    BY <1>5, <1>6, <2>2
<1> HIDE DEF under
<1>13. QED
  BY <1>1, <1>5, <1>9, <1>10, <1>11, <1>12

\* A set of assets has a first and a last one.
LEMMA FirstAndLast ==
    ASSUME NEW S \in SUBSET Assets, S # {}
    PROVE  /\ \E a \in S : \A b \in S : ~Before(b, a)
           /\ \E a \in S : \A b \in S : ~Before(a, b)
<1> DEFINE under(a) == {b \in S : Before(b, a)}
           over(a) == {b \in S : Before(a, b)}
<1>1. IsFiniteSet(S)
  BY ConstantsAssumption, FS_Subset
<1>2. \A T \in SUBSET SUBSET S : T # {} =>
          \E X \in T : \A Y \in T : ~(Y \subseteq X /\ Y # X)
  <2>1. IsWellFoundedOn(StrictSubsetOrdering(S), SUBSET S)
    BY <1>1, FS_FiniteSubsetsOfFinite, FS_StrictSubsetOrderingWellFounded
  <2>2. ASSUME NEW T \in SUBSET SUBSET S, T # {}
        PROVE  \E X \in T : \A Y \in T : ~(<<Y, X>> \in StrictSubsetOrdering(S))
    BY <2>1, <2>2, WFMin
  <2>3. \A X, Y \in SUBSET S :
            Y \subseteq X /\ Y # X => <<Y, X>> \in StrictSubsetOrdering(S)
    BY DEF StrictSubsetOrdering
  <2>4. QED
    BY <2>2, <2>3
<1>3. \E a \in S : \A b \in S : ~Before(b, a)
  <2> DEFINE sets == {under(a) : a \in S}
  <2>1. sets \in SUBSET SUBSET S /\ sets # {}
    OBVIOUS
  <2>2. PICK a \in S : \A c \in S : ~(under(c) \subseteq under(a) /\ under(c) # under(a))
    <3> HIDE DEF under
    <3>1. \E X \in sets : \A Y \in sets : ~(Y \subseteq X /\ Y # X)
      <4> HIDE DEF sets
      <4>1. QED
        BY <1>2, <2>1
    <3>2. QED
      BY <3>1
  <2>3. ASSUME NEW b \in S, Before(b, a) PROVE FALSE
    <3>1. b \in under(a) /\ b \notin under(b)
      BY <2>3, BeforeIsAnOrder
    <3>2. under(b) \subseteq under(a)
      BY <2>3, BeforeIsAnOrder
    <3> HIDE DEF under
    <3>3. QED
      BY <2>2, <3>1, <3>2
  <2>4. QED
    BY <2>3
<1>4. \E a \in S : \A b \in S : ~Before(a, b)
  <2> DEFINE sets == {over(a) : a \in S}
  <2>1. sets \in SUBSET SUBSET S /\ sets # {}
    OBVIOUS
  <2>2. PICK a \in S : \A c \in S : ~(over(c) \subseteq over(a) /\ over(c) # over(a))
    <3> HIDE DEF over
    <3>1. \E X \in sets : \A Y \in sets : ~(Y \subseteq X /\ Y # X)
      <4> HIDE DEF sets
      <4>1. QED
        BY <1>2, <2>1
    <3>2. QED
      BY <3>1
  <2>3. ASSUME NEW b \in S, Before(a, b) PROVE FALSE
    <3>1. b \in over(a) /\ b \notin over(b)
      BY <2>3, BeforeIsAnOrder
    <3>2. over(b) \subseteq over(a)
      BY <2>3, BeforeIsAnOrder
    <3> HIDE DEF over
    <3>3. QED
      BY <2>2, <3>1, <3>2
  <2>4. QED
    BY <2>3
<1>5. QED
  BY <1>3, <1>4

\* A question that is not a search is answered with all assets of its span, or
\* with the first or the last of them, and with none only if there are none.
LEMMA WhatIsSaid ==
    ASSUME NEW l \in SUBSET Assets, NEW q
    PROVE  /\ Said(l, q) \subseteq Matching(l, q)
           /\ q.kind \in {"months", "split", "album"} => Said(l, q) = Matching(l, q)
           /\ Matching(l, q) # {} => Said(l, q) # {}
           /\ q.kind = "oldest" => \A a \in Said(l, q) : \A b \in Matching(l, q) :
                                       Taken[a] <= Taken[b]
           /\ q.kind = "newest" => \A a \in Said(l, q) : \A b \in Matching(l, q) :
                                       Taken[b] <= Taken[a]
<1> DEFINE S == Matching(l, q)
<1>1. S \in SUBSET Assets
  BY DEF Matching
<1>2. /\ q.kind \in {"months", "split", "album"} => Said(l, q) = S
      /\ q.kind = "newest" => Said(l, q) = {a \in S : Rank(S, a) = Cardinality(S)}
      /\ q.kind \notin {"months", "split", "album", "newest"} =>
            Said(l, q) = {a \in S : Rank(S, a) = 1}
  BY DEF Said
<1> HIDE DEF S
<1>3. ASSUME S # {}
      PROVE  (\E a \in S : Rank(S, a) = 1) /\ (\E a \in S : Rank(S, a) = Cardinality(S))
  BY <1>1, <1>3, FirstAndLast, Ranks
<1>4. ASSUME q.kind = "oldest", NEW a \in Said(l, q), NEW b \in S
      PROVE  Taken[a] <= Taken[b]
  <2>1. a \in S /\ Rank(S, a) = 1
    BY <1>2, <1>4
  <2>2. ~Before(b, a)
    BY <1>1, <2>1, Ranks
  <2>3. a = b \/ Before(a, b)
    BY <1>1, <2>1, <2>2, BeforeIsAnOrder
  <2>4. a \in Assets /\ b \in Assets /\ Taken[a] \in Nat
    BY <1>1, <2>1, AssetsAreTyped
  <2>5. QED
    BY <2>3, <2>4, BeforeIsAnOrder
<1>5. ASSUME q.kind = "newest", NEW a \in Said(l, q), NEW b \in S
      PROVE  Taken[b] <= Taken[a]
  <2>1. a \in S /\ Rank(S, a) = Cardinality(S)
    BY <1>2, <1>5
  <2>2. ~Before(a, b)
    BY <1>1, <2>1, Ranks
  <2>3. a = b \/ Before(b, a)
    BY <1>1, <2>1, <2>2, BeforeIsAnOrder
  <2>4. a \in Assets /\ b \in Assets /\ Taken[a] \in Nat
    BY <1>1, <2>1, AssetsAreTyped
  <2>5. QED
    BY <2>3, <2>4, BeforeIsAnOrder
<1>6. Said(l, q) \subseteq S
  BY <1>2
<1>7. S # {} => Said(l, q) # {}
  BY <1>2, <1>3
<1>8. QED
  BY <1>2, <1>4, <1>5, <1>6, <1>7 DEF S

\* A place in a search counts from one to the number of assets.
LEMMA Places ==
    ASSUME NEW S \in SUBSET Assets, NEW q, NEW a \in S
    PROVE  Place(S, q, a) \in 1..Cardinality(S) /\ Cardinality(S) \in Nat
BY Ranks DEF Place

\* The pages of a search, up to one of them and the next.
LEMMA Pages ==
    ASSUME NEW l \in SUBSET Assets, NEW q, NEW n \in Nat \ {0}
    PROVE  /\ UpTo(Matching(l, q), q, 0) = {}
           /\ UpTo(Matching(l, q), q, n)
                 = UpTo(Matching(l, q), q, n - 1) \cup PageOf(l, q, n)
           /\ UpTo(Matching(l, q), q, n - 1) \cap PageOf(l, q, n) = {}
           /\ ~More(l, q, n) => UpTo(Matching(l, q), q, n) = Matching(l, q)
           /\ \A a \in PageOf(l, q, n) : a \in l /\ InSpan(q, a)
<1> DEFINE S == Matching(l, q)
<1>1. S \in SUBSET Assets /\ \A a \in S : a \in l /\ InSpan(q, a)
  BY DEF Matching, InSpan
<1>2. PageOf(l, q, n) = {a \in S : (n - 1) * PageSize < Place(S, q, a)
                                   /\ Place(S, q, a) <= n * PageSize}
  BY DEF PageOf
<1>3. ~More(l, q, n) => ~(Cardinality(S) > n * PageSize)
  BY DEF More
<1> HIDE DEF S
<1>4. /\ PageSize \in Nat \ {0} /\ (n - 1) * PageSize \in Nat /\ n * PageSize \in Nat
      /\ (n - 1) * PageSize <= n * PageSize /\ 0 * PageSize = 0
  BY ConstantsAssumption
<1>5. \A a \in S : Place(S, q, a) \in Nat /\ Place(S, q, a) > 0
                   /\ Place(S, q, a) <= Cardinality(S) /\ Cardinality(S) \in Nat
  BY <1>1, Places
<1>6. UpTo(S, q, 0) = {}
  BY <1>4, <1>5 DEF UpTo
<1>7. UpTo(S, q, n) = UpTo(S, q, n - 1) \cup PageOf(l, q, n)
  BY <1>2, <1>4, <1>5 DEF UpTo
<1>8. UpTo(S, q, n - 1) \cap PageOf(l, q, n) = {}
  BY <1>2, <1>4, <1>5 DEF UpTo
<1>9. ~More(l, q, n) => UpTo(S, q, n) = S
  BY <1>3, <1>4, <1>5 DEF UpTo
<1>10. QED
  BY <1>1, <1>2, <1>6, <1>7, <1>8, <1>9 DEF S

-----------------------------------------------------------------------------
(***************************************************************************)
(* Questions.                                                              *)
(***************************************************************************)
Spans == [from : Int, to : Int]
QueryKinds == {"has", "oldest", "newest", "days", "hours", "files", "months", "split", "album"}
Queries == [kind : QueryKinds, from : Int, to : Int]

AllKnown(asks) == \A i \in DOMAIN asks : Known(asks[i])

\* A set of places in a sequence has a least one.
LEMMA LeastPlace ==
    ASSUME NEW n \in Nat, NEW U \in SUBSET (1..n), U # {}
    PROVE  \E i \in U : \A k \in U : i <= k
<1> DEFINE under(i) == {k \in U : k < i}
           sets == {under(i) : i \in U}
<1>1. IsFiniteSet(U)
  BY FS_Interval, FS_Subset, 1 \in Int, n \in Int
<1>2. \A T \in SUBSET SUBSET U : T # {} =>
          \E X \in T : \A Y \in T : ~(Y \subseteq X /\ Y # X)
  <2>1. IsWellFoundedOn(StrictSubsetOrdering(U), SUBSET U)
    BY <1>1, FS_FiniteSubsetsOfFinite, FS_StrictSubsetOrderingWellFounded
  <2>2. ASSUME NEW T \in SUBSET SUBSET U, T # {}
        PROVE  \E X \in T : \A Y \in T : ~(<<Y, X>> \in StrictSubsetOrdering(U))
    BY <2>1, <2>2, WFMin
  <2>3. \A X, Y \in SUBSET U :
            Y \subseteq X /\ Y # X => <<Y, X>> \in StrictSubsetOrdering(U)
    BY DEF StrictSubsetOrdering
  <2>4. QED
    BY <2>2, <2>3
<1>3. sets \in SUBSET SUBSET U /\ sets # {}
  OBVIOUS
<1>4. PICK i \in U : \A k \in U : ~(under(k) \subseteq under(i) /\ under(k) # under(i))
  <2> HIDE DEF under
  <2>1. \E X \in sets : \A Y \in sets : ~(Y \subseteq X /\ Y # X)
    <3> HIDE DEF sets
    <3>1. QED
      BY <1>2, <1>3
  <2>2. QED
    BY <2>1
<1>5. ASSUME NEW k \in U PROVE i <= k
  <2>1. i \in Int /\ k \in Int
    OBVIOUS
  <2>2. ASSUME k < i PROVE FALSE
    <3>1. k \in under(i) /\ k \notin under(k)
      BY <2>1, <2>2
    <3>2. under(k) \subseteq under(i)
      <4>1. \A j \in U : j \in Int
        OBVIOUS
      <4>2. \A j \in U : j < k => j < i
        BY <2>1, <2>2, <4>1
      <4>3. QED
        BY <4>2
    <3> HIDE DEF under
    <3>3. QED
      BY <1>4, <3>1, <3>2
  <2>3. QED
    BY <2>1, <2>2
<1>6. QED
  BY <1>5

\* A request asks one question at a time, until all have an answer.
LEMMA OneQuestion ==
    ASSUME NEW plan \in Seq(Queries)
    PROVE  /\ \A q, r \in FirstUnknown(plan) : q = r
           /\ \A q \in FirstUnknown(plan) : q \in Queries /\ ~Known(q)
           /\ FirstUnknown(plan) = {} <=> AllKnown(plan)
<1> DEFINE unknown == {i \in DOMAIN plan : ~Known(plan[i])}
           first == {j \in unknown : \A k \in unknown : j <= k}
<1>1. FirstUnknown(plan) = {plan[i] : i \in first}
  BY DEF FirstUnknown
<1>2. DOMAIN plan = 1..Len(plan) /\ Len(plan) \in Nat
  OBVIOUS
<1>3. unknown # {} => first # {}
  <2>1. unknown \in SUBSET (1..Len(plan))
    BY <1>2
  <2> HIDE DEF unknown
  <2>2. QED
    BY <1>2, <2>1, LeastPlace
<1>4. \A i, j \in first : i = j
  <2>1. \A i, j \in first : i <= j /\ j <= i /\ i \in Int /\ j \in Int
    BY <1>2
  <2>2. QED
    BY <2>1
<1>5. \A i \in first : plan[i] \in Queries /\ ~Known(plan[i])
  BY <1>2
<1>6. unknown = {} <=> AllKnown(plan)
  BY DEF AllKnown
<1>7. first # {} => unknown # {}
  OBVIOUS
<1> HIDE DEF unknown, first
<1>8. QED
  BY <1>1, <1>3, <1>4, <1>5, <1>6, <1>7

\* One plan behind another.
LEMMA KnownTogether ==
    ASSUME NEW s \in Seq(Queries), NEW u \in Seq(Queries)
    PROVE  s \o u \in Seq(Queries) /\ (AllKnown(s \o u) <=> AllKnown(s) /\ AllKnown(u))
<1>1. s \o u \in Seq(Queries) /\ Len(s \o u) = Len(s) + Len(u)
      /\ DOMAIN s = 1..Len(s) /\ DOMAIN u = 1..Len(u) /\ DOMAIN (s \o u) = 1..Len(s) + Len(u)
      /\ Len(s) \in Nat /\ Len(u) \in Nat
  OBVIOUS
<1>2. \A i \in 1..Len(s) : (s \o u)[i] = s[i]
  OBVIOUS
<1>3. \A i \in 1..Len(u) : (s \o u)[Len(s) + i] = u[i]
  OBVIOUS
<1>4. ASSUME AllKnown(s \o u) PROVE AllKnown(s) /\ AllKnown(u)
  <2>1. \A i \in 1..Len(s) : i \in 1..Len(s) + Len(u)
    BY <1>1
  <2>2. \A i \in 1..Len(u) : Len(s) + i \in 1..Len(s) + Len(u)
    BY <1>1
  <2>3. QED
    BY <1>1, <1>2, <1>3, <1>4, <2>1, <2>2 DEF AllKnown
<1>5. ASSUME AllKnown(s), AllKnown(u) PROVE AllKnown(s \o u)
  <2>1. ASSUME NEW i \in 1..Len(s) + Len(u) PROVE Known((s \o u)[i])
    <3>1. CASE i <= Len(s)
      <4>1. i \in 1..Len(s)
        BY <1>1, <3>1
      <4>2. QED
        BY <1>1, <1>2, <1>5, <4>1 DEF AllKnown
    <3>2. CASE i > Len(s)
      <4>1. PICK j \in 1..Len(u) : i = Len(s) + j
        <5>1. i - Len(s) \in 1..Len(u) /\ i = Len(s) + (i - Len(s))
          BY <1>1, <3>2
        <5>2. QED
          BY <5>1
      <4>2. (s \o u)[i] = u[j]
        BY <1>3, <4>1
      <4>3. QED
        BY <1>1, <1>5, <4>1, <4>2 DEF AllKnown
    <3>3. QED
      BY <1>1, <3>1, <3>2
  <2>2. QED
    BY <1>1, <2>1 DEF AllKnown
<1>6. QED
  BY <1>1, <1>4, <1>5

LEMMA KnownSingly ==
    ASSUME NEW q \in Queries
    PROVE  <<q>> \in Seq(Queries) /\ (AllKnown(<<q>>) <=> Known(q))
BY DEF AllKnown

\* A query has bounds, also when a saved view narrows them.
LEMMA QueriesAreTyped ==
    ASSUME used \in Row, NEW kind \in QueryKinds, NEW t, NEW r \in Spans
    PROVE  Query(kind, t, r) \in Queries
<1>1. r.from \in Int /\ r.to \in Int /\ used.after \in Int /\ used.before \in Int
  BY DEF Spans, Row
<1>2. Larger(r.from, used.after) \in Int /\ Smaller(r.to, used.before) \in Int
  BY <1>1 DEF Larger, Smaller
<1>3. QED
  BY <1>1, <1>2 DEF Query, Queries

-----------------------------------------------------------------------------
(***************************************************************************)
(* Dates of paths.                                                         *)
(***************************************************************************)
IsYear(p) == Len(p) = 1 /\ p[1][1] = "year"
IsMonth(p) ==
    /\ Len(p) = 2 /\ p[1][1] = "year" /\ p[2][1] = "month"
    /\ p[2][2] \div MonthsPerYear = p[1][2]
IsDay(p) ==
    /\ Len(p) = 3 /\ p[1][1] = "year" /\ p[2][1] = "month" /\ p[3][1] = "day"
    /\ p[3][2] \div DaysPerMonth = p[2][2]

\* A bucket is a span of hours, and never empty.
LEMMA BucketSpans ==
    ASSUME NEW kind, NEW n \in Nat
    PROVE  /\ Bucket(kind, n) \in Spans /\ Bucket(kind, n) # NoSpan
           /\ Bucket(kind, n).from = n * Length(kind)
           /\ Bucket(kind, n).to = (n + 1) * Length(kind)
           /\ Bucket(kind, n).from \in Nat /\ Bucket(kind, n).to \in Nat
<1>1. Length(kind) \in Nat \ {0}
  BY Lengths
<1>2. /\ n * Length(kind) \in Nat /\ (n + 1) * Length(kind) \in Nat
      /\ (n + 1) * Length(kind) # 0
  BY <1>1
<1>3. Bucket(kind, n) = [from |-> n * Length(kind), to |-> (n + 1) * Length(kind)]
  BY DEF Bucket, Span
<1>4. Bucket(kind, n) # NoSpan
  <2>1. NoSpan.to = 0 /\ Bucket(kind, n).to = (n + 1) * Length(kind)
    BY <1>3 DEF NoSpan, Span
  <2>2. QED
    BY <1>2, <2>1
<1>5. QED
  BY <1>2, <1>3, <1>4 DEF Spans

\* What the parts of a path are.
LEMMA Parts ==
    ASSUME NEW p \in Paths
    PROVE  /\ Len(p) \in Nat /\ DOMAIN p = 1..Len(p)
           /\ (p = <<>> <=> Len(p) = 0)
           /\ \A i \in 1..Len(p) : p[i] \in Kinds \X Nat /\ p[i] = <<p[i][1], p[i][2]>>
                                   /\ p[i][1] \in Kinds /\ p[i][2] \in Nat
           /\ DOMAIN KindsOf(p) = 1..Len(p) /\ \A i \in 1..Len(p) : KindsOf(p)[i] = p[i][1]
BY DEF Paths, KindsOf

\* Only the dates have a span.
LEMMA DateRanges ==
    ASSUME NEW p \in Paths
    PROVE  /\ IsYear(p) => DateRange(p) = Bucket("year", p[1][2])
           /\ IsMonth(p) => DateRange(p) = Bucket("month", p[2][2])
           /\ IsDay(p) => DateRange(p) = Bucket("day", p[3][2])
           /\ DateRange(p) # NoSpan => IsYear(p) \/ IsMonth(p) \/ IsDay(p)
           /\ DateRange(p) \in Spans
<1>1. KindsOf(p) = <<"year">> <=> IsYear(p)
  <2>1. ASSUME KindsOf(p) = <<"year">> PROVE IsYear(p)
    <3>1. DOMAIN KindsOf(p) = 1..1 /\ KindsOf(p)[1] = "year"
      BY <2>1
    <3>2. Len(p) = 1
      BY <3>1, Parts
    <3>3. QED
      BY <3>1, <3>2, Parts DEF IsYear
  <2>2. ASSUME IsYear(p) PROVE KindsOf(p) = <<"year">>
    BY <2>2, Parts DEF IsYear, KindsOf
  <2>3. QED
    BY <2>1, <2>2
<1>2. KindsOf(p) = <<"year", "month">> <=>
          Len(p) = 2 /\ p[1][1] = "year" /\ p[2][1] = "month"
  <2>1. ASSUME KindsOf(p) = <<"year", "month">>
        PROVE  Len(p) = 2 /\ p[1][1] = "year" /\ p[2][1] = "month"
    <3>1. DOMAIN KindsOf(p) = 1..2 /\ KindsOf(p)[1] = "year" /\ KindsOf(p)[2] = "month"
      BY <2>1
    <3>2. Len(p) = 2
      BY <3>1, Parts
    <3>3. QED
      BY <3>1, <3>2, Parts
  <2>2. ASSUME Len(p) = 2, p[1][1] = "year", p[2][1] = "month"
        PROVE  KindsOf(p) = <<"year", "month">>
    BY <2>2 DEF KindsOf
  <2>3. QED
    BY <2>1, <2>2
<1>3. KindsOf(p) = <<"year", "month", "day">> <=>
          Len(p) = 3 /\ p[1][1] = "year" /\ p[2][1] = "month" /\ p[3][1] = "day"
  <2>1. ASSUME KindsOf(p) = <<"year", "month", "day">>
        PROVE  Len(p) = 3 /\ p[1][1] = "year" /\ p[2][1] = "month" /\ p[3][1] = "day"
    <3>1. /\ DOMAIN KindsOf(p) = 1..3 /\ KindsOf(p)[1] = "year" /\ KindsOf(p)[2] = "month"
          /\ KindsOf(p)[3] = "day"
      BY <2>1
    <3>2. Len(p) = 3
      BY <3>1, Parts
    <3>3. QED
      BY <3>1, <3>2, Parts
  <2>2. ASSUME Len(p) = 3, p[1][1] = "year", p[2][1] = "month", p[3][1] = "day"
        PROVE  KindsOf(p) = <<"year", "month", "day">>
    BY <2>2 DEF KindsOf
  <2>3. QED
    BY <2>1, <2>2
<1>4. CASE IsYear(p)
  <2>1. ~IsMonth(p) /\ ~IsDay(p) /\ p[1][2] \in Nat
    <3>1. 1 \in 1..Len(p)
      BY <1>4 DEF IsYear
    <3>2. QED
      BY <1>4, <3>1, Parts DEF IsYear, IsMonth, IsDay
  <2>2. /\ KindsOf(p) = <<"year">> /\ KindsOf(p) # <<"year", "month">>
        /\ KindsOf(p) # <<"year", "month", "day">>
    BY <1>1, <1>2, <1>3, <1>4 DEF IsYear, IsMonth, IsDay
  <2>3. DateRange(p) = Bucket("year", p[1][2])
    BY <1>4, <2>2 DEF DateRange, IsYear
  <2>4. QED
    BY <1>4, <2>1, <2>3, BucketSpans
<1>5. CASE IsMonth(p)
  <2>1. ~IsYear(p) /\ ~IsDay(p) /\ p[2][2] \in Nat
    <3>1. 2 \in 1..Len(p)
      BY <1>5 DEF IsMonth
    <3>2. QED
      BY <1>5, <3>1, Parts DEF IsYear, IsMonth, IsDay
  <2>2. /\ KindsOf(p) = <<"year", "month">> /\ KindsOf(p) # <<"year">>
        /\ KindsOf(p) # <<"year", "month", "day">>
    BY <1>1, <1>2, <1>3, <1>5 DEF IsYear, IsMonth, IsDay
  <2>3. DateRange(p) = Bucket("month", p[2][2])
    BY <1>5, <2>2 DEF DateRange, IsMonth
  <2>4. QED
    BY <1>5, <2>1, <2>3, BucketSpans
<1>6. CASE IsDay(p)
  <2>1. ~IsYear(p) /\ ~IsMonth(p) /\ p[3][2] \in Nat
    <3>1. 3 \in 1..Len(p)
      BY <1>6 DEF IsDay
    <3>2. QED
      BY <1>6, <3>1, Parts DEF IsYear, IsMonth, IsDay
  <2>2. /\ KindsOf(p) = <<"year", "month", "day">> /\ KindsOf(p) # <<"year">>
        /\ KindsOf(p) # <<"year", "month">>
    BY <1>1, <1>2, <1>3, <1>6 DEF IsYear, IsMonth, IsDay
  <2>3. DateRange(p) = Bucket("day", p[3][2])
    BY <1>6, <2>2 DEF DateRange, IsDay
  <2>4. QED
    BY <1>6, <2>1, <2>3, BucketSpans
<1>7. CASE ~IsYear(p) /\ ~IsMonth(p) /\ ~IsDay(p)
  <2>1. DateRange(p) = NoSpan
    BY <1>1, <1>2, <1>3, <1>7 DEF DateRange, IsYear, IsMonth, IsDay
  <2>2. NoSpan \in Spans
    BY DEF NoSpan, Span, Spans
  <2>3. QED
    BY <1>7, <2>1, <2>2
<1>8. QED
  BY <1>4, <1>5, <1>6, <1>7

\* The beginning of a path is a path.
LEMMA Beginnings ==
    ASSUME NEW p \in Paths, NEW n \in Nat, n <= Len(p)
    PROVE  /\ SubSeq(p, 1, n) \in Paths /\ Len(SubSeq(p, 1, n)) = n
           /\ \A i \in 1..n : SubSeq(p, 1, n)[i] = p[i]
           /\ n = Len(p) => SubSeq(p, 1, n) = p
BY DEF Paths

\* The dates of a path are those of its first three parts.
LEMMA DatesOfPaths ==
    ASSUME NEW p \in Paths
    PROVE  /\ Dates(p) \in Spans
           /\ Len(p) <= 3 => Dates(p) = DateRange(p)
           /\ Len(p) > 3 => Dates(p) = DateRange(SubSeq(p, 1, 3))
           /\ HourRange(p) \in Spans
<1>1. Len(p) \in Nat
  BY Parts
<1>2. Smaller(Len(p), 3) \in Nat /\ Smaller(Len(p), 3) <= Len(p)
      /\ (Len(p) <= 3 => Smaller(Len(p), 3) = Len(p))
      /\ (Len(p) > 3 => Smaller(Len(p), 3) = 3)
  <2>1. \A n \in Nat : /\ Smaller(n, 3) \in Nat /\ Smaller(n, 3) <= n
                       /\ (n <= 3 => Smaller(n, 3) = n) /\ (n > 3 => Smaller(n, 3) = 3)
    BY DEF Smaller
  <2>2. QED
    BY <1>1, <2>1
<1>3. Dates(p) \in Spans
  BY <1>2, Beginnings, DateRanges DEF Dates
<1>4. Len(p) <= 3 => Dates(p) = DateRange(p)
  BY <1>2, Beginnings DEF Dates
<1>5. Len(p) > 3 => Dates(p) = DateRange(SubSeq(p, 1, 3))
  BY <1>2 DEF Dates
<1>6. HourRange(p) \in Spans
  <2>1. CASE Len(p) = 4 /\ p[4][1] = "hour" /\ DateRange(SubSeq(p, 1, 3)) # NoSpan
    <3>1. DateRange(SubSeq(p, 1, 3)) \in Spans
      <4>1. SubSeq(p, 1, 3) \in Paths
        BY <2>1, Beginnings, 3 \in Nat, 3 <= 4
      <4>2. QED
        BY <4>1, DateRanges
    <3>2. p[4][2] \in Nat
      BY <2>1, Parts
    <3>3. DateRange(SubSeq(p, 1, 3)).from + p[4][2] \in Int
      BY <3>1, <3>2 DEF Spans
    <3>4. QED
      BY <2>1, <3>3 DEF HourRange, Span, Spans
  <2>2. CASE ~(Len(p) = 4 /\ p[4][1] = "hour" /\ DateRange(SubSeq(p, 1, 3)) # NoSpan)
    BY <2>2 DEF HourRange, NoSpan, Span, Spans
  <2>3. QED
    BY <2>1, <2>2
<1>7. QED
  BY <1>3, <1>4, <1>5, <1>6

-----------------------------------------------------------------------------
(***************************************************************************)
(* What handlers ask.                                                      *)
(***************************************************************************)
Typed(reply) == reply.asks \in Seq(Queries)

LEMMA SomeQueries ==
    ASSUME Reading, NEW t
    PROVE  /\ Everything \in Spans
           /\ \A kind \in QueryKinds, r \in Spans : Query(kind, t, r) \in Queries
           /\ \A r \in Spans : SplitQuery(t, r) \in Queries
           /\ IndexQuery \in Queries /\ AlbumQuery \in Queries
           /\ Bounds(t) \in Seq(Queries)
           /\ AllKnown(Bounds(t)) <=> \A i \in {1, 2} : Known(Bounds(t)[i])
<1>1. used \in Row
  BY DEF Reading
<1>2. Everything \in Spans
  BY ConstantsAssumption DEF Everything, Span, Spans
<1>3. \A s : \A kind \in QueryKinds, r \in Spans : Query(kind, s, r) \in Queries
  BY <1>1, QueriesAreTyped
<1>4. {"has", "split", "months", "album", "oldest", "newest"} \subseteq QueryKinds
  BY DEF QueryKinds
<1>5. \A r \in Spans : SplitQuery(t, r) \in Queries
  BY <1>3, <1>4 DEF SplitQuery
<1>6. IndexQuery \in Queries /\ AlbumQuery \in Queries
  BY <1>2, <1>3, <1>4 DEF IndexQuery, AlbumQuery
<1>7. Query("oldest", t, Everything) \in Queries /\ Query("newest", t, Everything) \in Queries
  BY <1>2, <1>3, <1>4
<1>8. Bounds(t) \in Seq(Queries) /\ DOMAIN Bounds(t) = {1, 2}
  BY <1>7 DEF Bounds
<1>9. QED
  BY <1>2, <1>3, <1>5, <1>6, <1>8 DEF AllKnown

LEMMA RepliesAreTyped ==
    ASSUME NEW entries
    PROVE  /\ Typed(Reply(<<>>, entries))
           /\ \A q \in Queries : Typed(Reply(<<q>>, entries))
BY DEF Typed, Reply

LEMMA BehindIsTyped ==
    ASSUME NEW asks \in Seq(Queries), NEW reply, Typed(reply)
    PROVE  Typed(Behind(asks, reply))
BY KnownTogether DEF Typed, Behind, Reply

LEMMA FoundIsTyped ==
    ASSUME NEW kind, NEW q \in Queries
    PROVE  Typed(Found(kind, q)) /\ Typed(FilesOf(q))
BY RepliesAreTyped DEF Found, FilesOf

\* A sweep asks about each of its buckets.
LEMMA SweepAsks ==
    ASSUME Reading, NEW t, NEW kind, NEW first \in Nat, NEW last \in Int
    PROVE  /\ Typed(Sweep(t, kind, first, last))
           /\ AllKnown(Sweep(t, kind, first, last).asks) =>
                  \A n \in first..last : Known(Query("has", t, Bucket(kind, n)))
<1> DEFINE ask(n) == Query("has", t, Bucket(kind, n))
           count == last + 1 - first
           asks == [i \in 1..count |-> ask(last + 1 - i)]
<1>1. Sweep(t, kind, first, last).asks = asks
  BY DEF Sweep, Reply
<1>2. ASSUME NEW i \in 1..count PROVE ask(last + 1 - i) \in Queries
  <2>1. last + 1 - i \in Nat
    BY <1>2
  <2>2. Bucket(kind, last + 1 - i) \in Spans
    BY <2>1, BucketSpans
  <2>3. "has" \in QueryKinds /\ used \in Row
    BY DEF QueryKinds, Reading
  <2>4. QED
    BY <2>2, <2>3, QueriesAreTyped
<1>3. asks \in Seq(Queries)
  <2> HIDE DEF ask
  <2>1. CASE count \in Nat
    BY <1>2, <2>1
  <2>2. CASE count \notin Nat
    <3>1. count \in Int /\ count < 0
      BY <2>2
    <3>2. 1..count = {}
      BY <3>1
    <3>3. asks = <<>>
      BY <3>2
    <3> HIDE DEF asks
    <3>4. QED
      BY <3>3
  <2>3. QED
    BY <2>1, <2>2
<1>4. ASSUME AllKnown(asks), NEW n \in first..last PROVE Known(ask(n))
  <2>1. last + 1 - n \in 1..count /\ last + 1 - (last + 1 - n) = n
    OBVIOUS
  <2>2. asks[last + 1 - n] = ask(last + 1 - (last + 1 - n))
    BY <2>1
  <2>3. asks[last + 1 - n] = ask(n)
    BY <2>1, <2>2
  <2>4. last + 1 - n \in DOMAIN asks
    BY <2>1
  <2> HIDE DEF ask, asks
  <2>5. QED
    BY <1>4, <2>3, <2>4 DEF AllKnown
<1>5. QED
  BY <1>1, <1>3, <1>4 DEF Typed

LEMMA SweptIsTyped ==
    ASSUME Reading, NEW t, NEW p \in Paths, p = <<>> => Bounded(t)
    PROVE  Typed(Swept(t, p))
<1>1. CASE p = <<>>
  <2>1. YearOf(t, 1) \in Nat /\ YearOf(t, 2) \in Int
    BY <1>1, YearsAreTyped
  <2>2. Typed(Sweep(t, "year", YearOf(t, 1), YearOf(t, 2)))
    BY <2>1, SweepAsks
  <2>3. QED
    BY <1>1, <2>2 DEF Swept
<1>2. CASE p # <<>>
  <2>1. p[1][2] \in Nat
    <3>1. 1 \in 1..Len(p)
      BY <1>2, Parts
    <3>2. QED
      BY <3>1, Parts
  <2>2. MonthsPerYear \in Nat
    BY ConstantsAssumption
  <2>3. p[1][2] * MonthsPerYear \in Nat /\ (p[1][2] + 1) * MonthsPerYear - 1 \in Int
    BY <2>1, <2>2
  <2>4. QED
    BY <1>2, <2>3, SweepAsks DEF Swept
<1>3. QED
  BY <1>1, <1>2

LEMMA TreeBucketsAreTyped ==
    ASSUME Reading, NEW p \in Paths
    PROVE  Typed(TimelineBuckets(p)) /\ Typed(AlbumBuckets(p)) /\ Typed(ViewBuckets(p))
<1>1. \A t : Typed(Days(t, p))
  <2>1. "days" \in QueryKinds
    BY DEF QueryKinds
  <2>2. QED
    BY <2>1, DateRanges, SomeQueries, FoundIsTyped DEF Days
<1>2. \A t : Bounded(t) \/ p # <<>> => Typed(Swept(t, p))
  BY SweptIsTyped
<1>3. Typed(Reply(<<>>, {}))
  BY RepliesAreTyped
<1>4. \A t : Bounds(t) \in Seq(Queries) /\ <<IndexQuery>> \o Bounds(t) \in Seq(Queries)
  BY SomeQueries, KnownTogether, KnownSingly
<1>5. Typed(TimelineBuckets(p))
  <2> DEFINE bounded == IF Bounded("Timeline") THEN Swept("Timeline", p) ELSE Reply(<<>>, {})
  <2>1. Typed(bounded)
    BY <1>2, <1>3
  <2>2. Typed(Behind(<<IndexQuery>> \o Bounds("Timeline"), bounded))
    BY <1>4, <2>1, BehindIsTyped
  <2>3. Typed(Indexed(p))
    BY SomeQueries, FoundIsTyped, RepliesAreTyped DEF Indexed
  <2>4. QED
    BY <1>1, <2>2, <2>3 DEF TimelineBuckets
<1>6. Typed(AlbumBuckets(p))
  <2> DEFINE bounded == IF Bounded("Album") THEN Swept("Album", p) ELSE Reply(<<>>, {})
  <2>1. Typed(bounded)
    BY <1>2, <1>3
  <2>2. Typed(Behind(Bounds("Album"), bounded))
    BY <1>4, <2>1, BehindIsTyped
  <2>3. Len(p) = 1 => Typed(Swept("Album", p))
    BY <1>2, Parts
  <2>4. QED
    BY <1>1, <2>2, <2>3 DEF AlbumBuckets
<1>7. Typed(ViewBuckets(p))
  <2> DEFINE inner == CASE ~Bounded("View") -> Reply(<<>>, {})
                        [] Bounded("View") /\ Len(p) = 2 -> Days("View", p)
                        [] OTHER -> Swept("View", p)
  <2>1. Typed(inner)
    BY <1>1, <1>2, <1>3
  <2>2. QED
    BY <1>4, <2>1, BehindIsTyped DEF ViewBuckets
<1>8. QED
  BY <1>5, <1>6, <1>7

LEMMA FoldersAreTyped ==
    ASSUME Reading, NEW t, NEW r \in Spans
    PROVE  Typed(FilesIn(t, r)) /\ Typed(DayFolder(t, r)) /\ Typed(Hours(t, r))
<1>1. {"files", "hours"} \subseteq QueryKinds
  BY DEF QueryKinds
<1>2. Typed(FilesIn(t, r)) /\ Typed(Hours(t, r))
  BY <1>1, SomeQueries, FoundIsTyped DEF FilesIn, Hours
<1> DEFINE inner == CASE ~Known(SplitQuery(t, r)) -> Reply(<<>>, {})
                      [] Known(SplitQuery(t, r)) /\ IsSplit(t, r) -> Hours(t, r)
                      [] OTHER -> FilesIn(t, r)
<1>3. Typed(inner)
  BY <1>2, RepliesAreTyped
<1>4. <<SplitQuery(t, r)>> \in Seq(Queries)
  BY SomeQueries, KnownSingly
<1>5. Typed(DayFolder(t, r))
  BY <1>3, <1>4, BehindIsTyped DEF DayFolder
<1>6. QED
  BY <1>2, <1>5

\* What a listing asks are questions.
LEMMA ListingIsTyped ==
    ASSUME Reading, NEW t \in Trees, NEW p \in Paths
    PROVE  Typed(Listing(t, p))
<1>1. Typed(TimelineBuckets(p)) /\ Typed(AlbumBuckets(p)) /\ Typed(ViewBuckets(p))
  BY TreeBucketsAreTyped
<1>2. \A s : \A r \in Spans : Typed(FilesIn(s, r)) /\ Typed(DayFolder(s, r))
  BY FoldersAreTyped
<1>3. DateRange(p) \in Spans /\ HourRange(p) \in Spans /\ Everything \in Spans
  BY DateRanges, DatesOfPaths, SomeQueries
<1>4. Typed(Reply(<<>>, {}))
  BY RepliesAreTyped
<1>5. Typed(DateFolder(p))
  BY <1>1, <1>2, <1>3 DEF DateFolder, HourFolder
<1>6. Typed(AlbumFolder(p)) /\ Typed(AlbumDateFolder(p))
  BY <1>1, <1>2, <1>3 DEF AlbumFolder, AlbumDateFolder, AlbumHourFolder
<1>7. Typed(ViewFolder(p))
  BY <1>1, <1>2, <1>3, <1>4 DEF ViewFolder
<1>8. Typed(ViewDateFolder(p))
  <2>1. Typed(ViewHourFolder(p))
    BY <1>2, <1>3, <1>4 DEF ViewHourFolder
  <2>2. QED
    BY <1>1, <1>2, <1>3, <1>4, <2>1 DEF ViewDateFolder
<1>9. QED
  BY <1>5, <1>6, <1>7, <1>8 DEF Listing, Trees

-----------------------------------------------------------------------------
(***************************************************************************)
(* What a path is resolved to.                                             *)
(***************************************************************************)
LEMMA OutcomesAreTyped ==
    ASSUME NEW asks \in Seq(Queries)
    PROVE  /\ Typed(IsFolder(asks)) /\ Typed(Missing(asks))
           /\ \A name, reply : Typed(reply) => Typed(Named(asks, name, reply))
           /\ \A name, reply : Named(asks, name, reply).what # "folder"
<1>1. Typed(IsFolder(asks)) /\ Typed(Missing(asks))
  BY DEF Typed, IsFolder, Missing, Outcome
<1>2. ASSUME NEW name, NEW reply
      PROVE  /\ Typed(reply) => Typed(Named(asks, name, reply))
             /\ Named(asks, name, reply).what # "folder"
  <2>1. /\ Named(asks, name, reply).asks = asks \o reply.asks
        /\ Named(asks, name, reply).what \in {"missing", "file"}
    BY DEF Named, Missing, Outcome
  <2>2. QED
    BY <2>1, KnownTogether DEF Typed
<1>3. QED
  BY <1>1, <1>2

LEMMA FileInIsTyped ==
    ASSUME Reading, NEW t, NEW asks \in Seq(Queries), NEW r \in Spans, NEW name
    PROVE  /\ Typed(FileIn(asks, t, r, name)) /\ FileIn(asks, t, r, name).what # "folder"
           /\ FileIn(asks, t, r, name).asks = asks \o <<Query("files", t, r)>>
<1>1. Typed(FilesIn(t, r)) /\ FilesIn(t, r).asks = <<Query("files", t, r)>>
  BY FoldersAreTyped DEF FilesIn, FilesOf, Reply
<1>2. FileIn(asks, t, r, name).asks = asks \o FilesIn(t, r).asks
  BY DEF FileIn, Named, Missing, Outcome
<1>3. QED
  BY <1>1, <1>2, OutcomesAreTyped DEF FileIn

\* The questions of a path below a root.
LEMMA DatePathIsTyped ==
    ASSUME Reading, NEW t, NEW p \in Paths, NEW r \in Spans, NEW hour \in Spans
    PROVE  /\ Typed(DatePath(t, p, r, hour))
           /\ DatePath(t, p, r, hour).what = "folder" =>
                 /\ Len(p) <= 4 /\ r # NoSpan /\ Has(t, r)
                 /\ Len(p) = 4 =>
                       hour # NoSpan /\ Known(SplitQuery(t, r)) /\ IsSplit(t, r)
<1> DEFINE has == Query("has", t, r)
           split == SplitQuery(t, r)
           known == Known(split) /\ IsSplit(t, r) = (Len(p) = 4)
<1>1. has \in Queries /\ split \in Queries
  BY SomeQueries, "has" \in QueryKinds DEF QueryKinds
<1>2. <<>> \in Seq(Queries) /\ <<has>> \in Seq(Queries) /\ <<has, split>> \in Seq(Queries)
  BY <1>1
<1>3. /\ \A asks \in {<<>>, <<has>>, <<has, split>>} :
            /\ Typed(IsFolder(asks)) /\ Typed(Missing(asks))
            /\ \A s \in Spans : \A name :
                  /\ Typed(FileIn(asks, t, s, name))
                  /\ FileIn(asks, t, s, name).what # "folder"
      /\ \A asks : Missing(asks).what # "folder"
  <2>1. ASSUME NEW asks \in {<<>>, <<has>>, <<has, split>>}
        PROVE  /\ Typed(IsFolder(asks)) /\ Typed(Missing(asks))
               /\ \A s \in Spans : \A name :
                     /\ Typed(FileIn(asks, t, s, name))
                     /\ FileIn(asks, t, s, name).what # "folder"
    <3>1. asks \in Seq(Queries)
      <4> HIDE DEF has, split
      <4>1. QED
        BY <1>2, <2>1
    <3>2. QED
      BY <3>1, OutcomesAreTyped, FileInIsTyped
  <2>2. QED
    BY <2>1 DEF Missing, Outcome
<1>4. Len(p) \in Nat
  BY Parts
<1>5. /\ Typed(HourPath(t, p, r, hour))
      /\ HourPath(t, p, r, hour).what = "folder" =>
            Len(p) = 4 /\ Known(split) /\ IsSplit(t, r)
  <2>1. CASE known /\ Len(p) = 4
    <3>1. HourPath(t, p, r, hour) = IsFolder(<<has, split>>)
      BY <2>1 DEF HourPath
    <3>2. QED
      BY <1>3, <2>1, <3>1
  <2>2. CASE known /\ Len(p) # 4
    <3>1. HourPath(t, p, r, hour) = Missing(<<has, split>>)
      BY <2>2 DEF HourPath
    <3>2. QED
      BY <1>3, <3>1
  <2>3. CASE ~known
    <3>1. HourPath(t, p, r, hour)
             = FileIn(<<has, split>>, t, IF Len(p) = 4 THEN r ELSE hour, p[Len(p)])
      BY <2>3 DEF HourPath
    <3>2. (IF Len(p) = 4 THEN r ELSE hour) \in Spans
      OBVIOUS
    <3>3. QED
      BY <1>3, <3>1, <3>2
  <2>4. QED
    BY <2>1, <2>2, <2>3
<1> HIDE DEF has, split, known
<1>6. CASE r = NoSpan
  <2>1. DatePath(t, p, r, hour) = Missing(<<>>)
    BY <1>6 DEF DatePath
  <2>2. QED
    BY <1>3, <2>1
<1>7. CASE r # NoSpan /\ ~Has(t, r)
  <2>1. DatePath(t, p, r, hour) = Missing(<<has>>)
    BY <1>7 DEF DatePath, has
  <2>2. QED
    BY <1>3, <2>1
<1>8. CASE r # NoSpan /\ Has(t, r) /\ Len(p) <= 3
  <2>1. Len(p) \notin {4, 5} /\ Len(p) # 4 /\ Len(p) <= 4
    BY <1>4, <1>8
  <2>2. DatePath(t, p, r, hour) = IsFolder(<<has>>)
    BY <1>8, <2>1 DEF DatePath, has
  <2>3. QED
    BY <1>3, <1>8, <2>1, <2>2
<1>9. CASE r # NoSpan /\ Has(t, r) /\ Len(p) \in {4, 5} /\ hour # NoSpan
  <2>1. DatePath(t, p, r, hour) = HourPath(t, p, r, hour)
    BY <1>9 DEF DatePath
  <2>2. Len(p) = 4 => Len(p) <= 4
    OBVIOUS
  <2>3. QED
    BY <1>5, <1>9, <2>1, <2>2, Zenon DEF split
<1>10. CASE r # NoSpan /\ Has(t, r) /\ Len(p) = 4 /\ hour = NoSpan
  <2>1. DatePath(t, p, r, hour) = FileIn(<<has>>, t, r, p[4])
    BY <1>10 DEF DatePath, has
  <2>2. QED
    BY <1>3, <2>1
<1>11. CASE /\ r # NoSpan /\ Has(t, r) /\ ~(Len(p) <= 3)
            /\ ~(Len(p) \in {4, 5} /\ hour # NoSpan) /\ ~(Len(p) = 4 /\ hour = NoSpan)
  <2>1. DatePath(t, p, r, hour) = Missing(<<has>>)
    BY <1>11 DEF DatePath, has
  <2>2. QED
    BY <1>3, <2>1
<1>12. QED
  BY <1>6, <1>7, <1>8, <1>9, <1>10, <1>11
\* What resolving a path asks, and how the path of a folder was resolved.
LEMMA ResolveDatesIsTyped ==
    ASSUME Reading, NEW t, NEW p \in Paths
    PROVE  /\ Typed(ResolveDates(t, p))
           /\ ResolveDates(t, p).what = "folder" =>
                 /\ Len(p) <= 4 /\ Dates(p) # NoSpan /\ Has(t, Dates(p))
                 /\ Len(p) = 4 =>
                       /\ HourRange(p) # NoSpan
                       /\ Known(SplitQuery(t, Dates(p))) /\ IsSplit(t, Dates(p))
<1> DEFINE begin == SubSeq(p, 1, Smaller(Len(p), 4))
<1>1. Len(p) \in Nat
  BY Parts
<1>2. /\ Smaller(Len(p), 4) \in Nat /\ Smaller(Len(p), 4) <= Len(p)
      /\ Len(p) = 4 => Smaller(Len(p), 4) = Len(p)
  <2>1. \A n \in Nat : Smaller(n, 4) \in Nat /\ Smaller(n, 4) <= n
                       /\ (n = 4 => Smaller(n, 4) = n)
    BY DEF Smaller
  <2>2. QED
    BY <1>1, <2>1
<1>3. begin \in Paths /\ (Len(p) = 4 => begin = p)
  BY <1>2, Beginnings
<1>4. HourRange(begin) \in Spans /\ Dates(p) \in Spans
  BY <1>3, DatesOfPaths
<1>5. ResolveDates(t, p) = DatePath(t, p, Dates(p), HourRange(begin))
  BY DEF ResolveDates, Dates
<1> HIDE DEF begin
<1>6. QED
  BY <1>3, <1>4, <1>5, DatePathIsTyped

LEMMA ResolvedIsTyped ==
    ASSUME Reading, NEW t \in Trees, NEW p \in Paths
    PROVE  /\ Typed(Resolved(t, p))
           /\ AllKnown(Resolved(t, p).asks) /\ Resolved(t, p).what = "folder"
                => IsFolderOf(t, p)
<1> DEFINE o == Resolved(t, p)
           dates == ResolveDates(t, p)
<1>1. /\ Typed(dates)
      /\ dates.what = "folder" =>
            /\ Len(p) <= 4 /\ Dates(p) # NoSpan /\ Has(t, Dates(p))
            /\ Len(p) = 4 =>
                  /\ HourRange(p) # NoSpan
                  /\ Known(SplitQuery(t, Dates(p))) /\ IsSplit(t, Dates(p))
  BY ResolveDatesIsTyped
<1> HIDE DEF dates
<1>2. <<>> \in Seq(Queries) /\ AlbumQuery \in Queries /\ <<AlbumQuery>> \in Seq(Queries)
  BY SomeQueries
<1>3. /\ \A asks \in {<<>>, <<AlbumQuery>>} :
            Typed(IsFolder(asks)) /\ Typed(Missing(asks))
      /\ \A asks : IsFolder(asks).asks = asks /\ Missing(asks).what # "folder"
      /\ \A asks \in {<<>>, <<AlbumQuery>>} : \A name :
            /\ Typed(FileIn(asks, t, Everything, name))
            /\ FileIn(asks, t, Everything, name).what # "folder"
  <2>1. \A asks \in {<<>>, <<AlbumQuery>>} : asks \in Seq(Queries)
    <3> DEFINE a == AlbumQuery
    <3>1. a \in Queries
      BY <1>2
    <3> HIDE DEF a
    <3>2. <<>> \in Seq(Queries) /\ <<a>> \in Seq(Queries)
      BY <3>1
    <3>3. QED
      BY <3>2 DEF a
  <2>2. QED
    BY <2>1, OutcomesAreTyped, FileInIsTyped, SomeQueries DEF IsFolder, Missing, Outcome
<1>4. CASE t \notin used.trees
  <2>1. o = Missing(<<>>)
    BY <1>4 DEF Resolved
  <2>2. QED
    BY <1>3, <2>1
<1>5. CASE t \in used.trees /\ t = "Timeline"
  <2>1. o = IF p = <<>> THEN IsFolder(<<>>) ELSE dates
    BY <1>5 DEF Resolved, ResolveTimeline, dates
  <2>2. Typed(o)
    BY <1>1, <1>3, <2>1
  <2>3. o.what = "folder" /\ p # <<>> => dates.what = "folder"
    BY <2>1
  <2>4. QED
    BY <1>1, <1>5, <2>2, <2>3 DEF IsFolderOf
<1>6. CASE t \in used.trees /\ t = "Album"
  <2> DEFINE behind == Outcome(<<AlbumQuery>> \o dates.asks, dates.what, dates.asset)
  <2>1. /\ p = <<>> => o = IsFolder(<<AlbumQuery>>)
        /\ p # <<>> /\ ~AlbumIsSplit /\ Len(p) = 1 =>
              o = FileIn(<<AlbumQuery>>, "Album", Everything, p[1])
        /\ p # <<>> /\ ~AlbumIsSplit /\ Len(p) # 1 => o = Missing(<<AlbumQuery>>)
        /\ p # <<>> /\ AlbumIsSplit => o = behind
    BY <1>6 DEF Resolved, ResolveAlbum, dates
  <2>2. behind.asks = <<AlbumQuery>> \o dates.asks /\ behind.what = dates.what
    BY DEF Outcome
  <2> HIDE DEF behind
  <2>3. Typed(behind) /\ (AllKnown(behind.asks) => Known(AlbumQuery))
    BY <1>1, <1>2, <2>2, KnownTogether, KnownSingly DEF Typed
  <2>4. Typed(o)
    BY <1>3, <1>6, <2>1, <2>3
  <2>5. CASE p = <<>>
    <3>1. o.asks = <<AlbumQuery>>
      BY <1>3, <2>1, <2>5
    <3>2. QED
      BY <1>2, <1>6, <2>4, <2>5, <3>1, KnownSingly DEF IsFolderOf
  <2>6. CASE p # <<>> /\ o.what = "folder"
    <3>1. AlbumIsSplit /\ o = behind
      BY <1>3, <1>6, <2>1, <2>6
    <3>2. QED
      BY <1>1, <1>6, <2>2, <2>3, <2>4, <2>6, <3>1 DEF IsFolderOf
  <2>7. QED
    BY <2>4, <2>5, <2>6
<1>7. CASE t \in used.trees /\ t = "View"
  <2>1. /\ ~used.view => o = Missing(<<>>)
        /\ used.view /\ p = <<>> => o = IsFolder(<<>>)
        /\ used.view /\ p # <<>> /\ used.flat /\ Len(p) = 1 =>
              o = FileIn(<<>>, "View", Everything, p[1])
        /\ used.view /\ p # <<>> /\ used.flat /\ Len(p) # 1 => o = Missing(<<>>)
        /\ used.view /\ p # <<>> /\ ~used.flat => o = dates
    BY <1>7 DEF Resolved, ResolveView, dates
  <2>2. Typed(o)
    BY <1>1, <1>3, <1>7, <2>1
  <2>3. o.what = "folder" => used.view /\ (p # <<>> => ~used.flat /\ dates.what = "folder")
    BY <1>3, <1>7, <2>1
  <2>4. QED
    BY <1>1, <1>7, <2>2, <2>3 DEF IsFolderOf
<1>8. QED
  BY <1>4, <1>5, <1>6, <1>7 DEF Trees

-----------------------------------------------------------------------------
(***************************************************************************)
(* Times and buckets.                                                      *)
(***************************************************************************)
\* A multiple that is less than another one is of a smaller number.
LEMMA Multiples ==
    ASSUME NEW i \in Int, NEW j \in Int, NEW n \in Nat \ {0}, i * n < j * n
    PROVE  i < j
<1>1. SUFFICES ASSUME j <= i PROVE FALSE
  OBVIOUS
<1>2. j * n <= i * n
  BY <1>1
<1>3. i * n \in Int /\ j * n \in Int
  OBVIOUS
<1>4. QED
  BY <1>2, <1>3

\* A time is between the multiples around it, ...
LEMMA QuotientsAround ==
    ASSUME NEW t \in Nat, NEW n \in Nat \ {0}
    PROVE  /\ (t \div n) * n <= t /\ t < (t \div n + 1) * n
           /\ t % n = t - (t \div n) * n
           /\ t \div n \in Nat /\ t % n \in Nat /\ t % n < n
<1>1. (t \div n) * n <= t /\ t < (t \div n + 1) * n
  OBVIOUS
<1>2. t % n = t - (t \div n) * n
  OBVIOUS
<1>3. t \div n \in Nat /\ t % n \in Nat /\ t % n < n
  OBVIOUS
<1>4. QED
  BY <1>1, <1>2, <1>3

\* ... later times have later quotients, ...
LEMMA QuotientsGrow ==
    ASSUME NEW t \in Nat, NEW u \in Nat, NEW n \in Nat \ {0}, t <= u
    PROVE  t \div n <= u \div n
<1>1. (t \div n) * n <= t /\ u < (u \div n + 1) * n /\ t \div n \in Nat /\ u \div n \in Nat
  BY QuotientsAround
<1>2. (t \div n) * n < (u \div n + 1) * n
  <2>1. (t \div n) * n \in Int /\ (u \div n + 1) * n \in Int
    BY <1>1
  <2>2. QED
    BY <1>1, <2>1
<1>3. t \div n < u \div n + 1
  BY <1>1, <1>2, Multiples
<1>4. QED
  BY <1>1, <1>3

\* ... and a quotient may be taken in two steps.
LEMMA QuotientsNest ==
    ASSUME NEW t \in Nat, NEW n \in Nat \ {0}, NEW m \in Nat \ {0}
    PROVE  m * n \in Nat \ {0} /\ (t \div n) \div m = t \div (m * n)
<1> DEFINE few == t \div n
           big == t \div (m * n)
<1>1. m * n \in Nat \ {0}
  OBVIOUS
<1>2. /\ few * n <= t /\ t < (few + 1) * n /\ few \in Nat
      /\ big * (m * n) <= t /\ t < (big + 1) * (m * n) /\ big \in Nat
  BY <1>1, QuotientsAround
<1> HIDE DEF few, big
<1>3. big * (m * n) = (big * m) * n /\ (big + 1) * (m * n) = ((big + 1) * m) * n
  BY <1>2
<1>4. big * m \in Nat /\ (big + 1) * m \in Nat
  BY <1>2
<1>5. (big * m) * n < (few + 1) * n
  <2>1. (big * m) * n \in Int /\ (few + 1) * n \in Int
    BY <1>2, <1>4
  <2>2. QED
    BY <1>2, <1>3, <2>1
<1>6. few * n < ((big + 1) * m) * n
  <2>1. few * n \in Int /\ ((big + 1) * m) * n \in Int
    BY <1>2, <1>4
  <2>2. QED
    BY <1>2, <1>3, <2>1
<1>7. big * m < few + 1 /\ few < (big + 1) * m
  BY <1>2, <1>4, <1>5, <1>6, Multiples
<1>8. big * m <= few
  BY <1>2, <1>4, <1>7
<1>9. few \div m = big
  BY <1>2, <1>7, <1>8, Quotients
<1>10. QED
  BY <1>1, <1>9 DEF few, big

\* The number of a date is that of the bucket that the time is in.
LEMMA NumberOfBucket ==
    ASSUME NEW kind \in {"year", "month", "day"}, NEW t \in Nat, NEW n \in Nat
    PROVE  Number(kind, t) = n <=> Bucket(kind, n).from <= t /\ t < Bucket(kind, n).to
<1>1. Length(kind) \in Nat \ {0}
  BY Lengths
<1>2. Number(kind, t) = t \div Length(kind)
  BY DEF Number
<1>3. Bucket(kind, n).from = n * Length(kind) /\ Bucket(kind, n).to = (n + 1) * Length(kind)
  BY BucketSpans
<1> DEFINE L == Length(kind)
<1> HIDE DEF L
<1>4. t \div L = n <=> n * L <= t /\ t < (n + 1) * L
  <2>1. L \in Nat \ {0}
    BY <1>1 DEF L
  <2>2. t \div L = n => n * L <= t /\ t < (n + 1) * L
    BY <2>1, QuotientsAround
  <2>3. QED
    BY <2>1, <2>2, Quotients
<1>5. QED
  BY <1>2, <1>3, <1>4 DEF L

\* The months of a year and the days of a month.
LEMMA NumbersNest ==
    ASSUME NEW t \in Nat
    PROVE  /\ Number("month", t) \div MonthsPerYear = Number("year", t)
           /\ Number("day", t) \div DaysPerMonth = Number("month", t)
           /\ Number("month", t) \in Nat /\ Number("year", t) \in Nat /\ Number("day", t) \in Nat
<1>1. /\ HoursPerDay \in Nat \ {0} /\ DaysPerMonth \in Nat \ {0}
      /\ MonthsPerYear \in Nat \ {0} /\ DaysPerMonth * HoursPerDay \in Nat \ {0}
  BY ConstantsAssumption
<1>2. /\ Number("day", t) = t \div HoursPerDay
      /\ Number("month", t) = t \div (DaysPerMonth * HoursPerDay)
      /\ Number("year", t) = t \div ((MonthsPerYear * DaysPerMonth) * HoursPerDay)
  BY DEF Number, Length, DaysPerYear
<1>3. (MonthsPerYear * DaysPerMonth) * HoursPerDay
         = MonthsPerYear * (DaysPerMonth * HoursPerDay)
  BY <1>1
<1>4. QED
  BY <1>1, <1>2, <1>3, QuotientsNest, Numbers

\* The months of a year are between its first and its last one.
LEMMA MonthsOfYear ==
    ASSUME NEW n \in Nat, NEW y \in Nat
    PROVE  n \div MonthsPerYear = y <=>
               n \in y * MonthsPerYear .. (y + 1) * MonthsPerYear - 1
<1> DEFINE M == MonthsPerYear
<1>1. M \in Nat \ {0}
  BY ConstantsAssumption
<1> HIDE DEF M
<1>2. n \div M = y => y * M <= n /\ n < (y + 1) * M
  BY <1>1, QuotientsAround
<1>3. y * M <= n /\ n < (y + 1) * M => n \div M = y
  BY <1>1, Quotients
<1>4. y * M \in Nat /\ (y + 1) * M \in Nat
  BY <1>1
<1>5. n \in y * M .. (y + 1) * M - 1 <=> y * M <= n /\ n < (y + 1) * M
  BY <1>4
<1>6. QED
  BY <1>2, <1>3, <1>5 DEF M

-----------------------------------------------------------------------------
(***************************************************************************)
(* What a listing is made of, once nothing is left to ask.                 *)
(***************************************************************************)
\* A folder that is not split by date, as the request sees it.
FlatNow(t) == (t = "Album" /\ ~AlbumIsSplit) \/ (t = "View" /\ used.flat)

KnownBounds(t) == \A i \in {1, 2} : Known(Bounds(t)[i])
NumbersOf(kind, q) == {Number(kind, Local[a]) : a \in Told(q).got}
\* The assets of a search, the numbers of its dates, or the numbers of the
\* buckets that have any.
FilesForm(q, entries) == Known(q) /\ entries = Files(Told(q))
FoundForm(kind, q, entries) == Known(q) /\ entries = Buckets(kind, NumbersOf(kind, q))
HasForm(t, kind, numbers, entries) ==
    /\ entries = Buckets(kind, {n \in numbers : Has(t, Bucket(kind, n))})
    /\ \A n \in numbers : Known(Query("has", t, Bucket(kind, n)))

FlatForm(t, p, entries) ==
    FlatNow(t) /\ p = <<>> /\ FilesForm(Query("files", t, Everything), entries)
HourForm(t, p, entries) ==
    /\ ~FlatNow(t) /\ Len(p) = 4 /\ HourRange(p) # NoSpan
    /\ FilesForm(Query("files", t, HourRange(p)), entries)
DayForm(t, p, entries) ==
    /\ ~FlatNow(t) /\ IsDay(p) /\ Known(SplitQuery(t, DateRange(p)))
    /\ IF IsSplit(t, DateRange(p))
       THEN FoundForm("hour", Query("hours", t, DateRange(p)), entries)
       ELSE FilesForm(Query("files", t, DateRange(p)), entries)
MonthForm(t, p, entries) ==
    ~FlatNow(t) /\ IsMonth(p) /\ FoundForm("day", Query("days", t, DateRange(p)), entries)
YearForm(t, p, entries) ==
    /\ ~FlatNow(t) /\ IsYear(p)
    /\ HasForm(t, "month", p[1][2] * MonthsPerYear .. (p[1][2] + 1) * MonthsPerYear - 1, entries)
RootForm(t, p, entries) ==
    /\ ~FlatNow(t) /\ p = <<>> /\ KnownBounds(t) /\ Bounded(t)
    /\ HasForm(t, "year", YearOf(t, 1)..YearOf(t, 2), entries)
IndexForm(t, p, entries) ==
    /\ t = "Timeline" /\ (p = <<>> \/ IsYear(p)) /\ Known(IndexQuery) /\ ~Told(IndexQuery).failed
    /\ entries = Indexed(p).entries
EmptyForm(t, entries) == ~FlatNow(t) /\ KnownBounds(t) /\ ~Bounded(t) /\ entries = {}

Form(t, p, entries) ==
    \/ FlatForm(t, p, entries) \/ HourForm(t, p, entries) \/ DayForm(t, p, entries)
    \/ MonthForm(t, p, entries) \/ YearForm(t, p, entries) \/ RootForm(t, p, entries)
    \/ IndexForm(t, p, entries) \/ EmptyForm(t, entries)

LEMMA SweepIsOfForm ==
    ASSUME Reading, NEW t, NEW p \in Paths, ~FlatNow(t),
           IsYear(p) \/ (p = <<>> /\ KnownBounds(t) /\ Bounded(t)),
           AllKnown(Swept(t, p).asks)
    PROVE  Form(t, p, Swept(t, p).entries)
<1>1. \A kind, first, last :
          Sweep(t, kind, first, last).entries
             = Buckets(kind, {n \in first..last : Has(t, Bucket(kind, n))})
  BY DEF Sweep, Reply
<1>2. CASE p = <<>> /\ KnownBounds(t) /\ Bounded(t)
  <2>1. YearOf(t, 1) \in Nat /\ YearOf(t, 2) \in Int
    BY <1>2, YearsAreTyped
  <2>2. Swept(t, p) = Sweep(t, "year", YearOf(t, 1), YearOf(t, 2))
    BY <1>2 DEF Swept
  <2>3. HasForm(t, "year", YearOf(t, 1)..YearOf(t, 2), Swept(t, p).entries)
    BY <1>1, <2>1, <2>2, SweepAsks DEF HasForm
  <2>4. QED
    BY <1>2, <2>3 DEF Form, RootForm
<1>3. CASE IsYear(p)
  <2> DEFINE first == p[1][2] * MonthsPerYear
             last == (p[1][2] + 1) * MonthsPerYear - 1
  <2>1. p # <<>> /\ p[1][2] \in Nat
    <3>1. Len(p) = 1 /\ 1 \in 1..Len(p)
      BY <1>3 DEF IsYear
    <3>2. QED
      BY <3>1, Parts
  <2>2. first \in Nat /\ last \in Int
    <3>1. MonthsPerYear \in Nat
      BY ConstantsAssumption
    <3>2. QED
      BY <2>1, <3>1
  <2>3. Swept(t, p) = Sweep(t, "month", first, last)
    BY <2>1 DEF Swept
  <2> HIDE DEF first, last
  <2>4. HasForm(t, "month", first..last, Swept(t, p).entries)
    BY <1>1, <2>2, <2>3, SweepAsks DEF HasForm
  <2>5. QED
    BY <1>3, <2>4 DEF Form, YearForm, first, last
<1>4. QED
  BY <1>2, <1>3

\* A listing of days.
LEMMA DaysAreOfForm ==
    ASSUME Reading, NEW t, NEW p \in Paths, ~FlatNow(t), IsMonth(p), AllKnown(Days(t, p).asks)
    PROVE  Form(t, p, Days(t, p).entries)
<1> DEFINE q == Query("days", t, DateRange(p))
<1>1. q \in Queries
  BY DateRanges, SomeQueries, "days" \in QueryKinds DEF QueryKinds
<1>2. Days(t, p).asks = <<q>> /\ Days(t, p).entries = Buckets("day", NumbersOf("day", q))
  BY DEF Days, Found, Reply, NumbersOf
<1> HIDE DEF q
<1>3. FoundForm("day", q, Days(t, p).entries)
  BY <1>1, <1>2, KnownSingly DEF FoundForm
<1>4. QED
  BY <1>3 DEF Form, MonthForm, q

\* A listing that asks for the bounds of a tree first.
LEMMA BehindBoundsIsOfForm ==
    ASSUME Reading, NEW t, NEW p \in Paths, ~FlatNow(t), NEW reply, Typed(reply),
           NEW asks \in Seq(Queries), AllKnown(Behind(asks, reply).asks),
           AllKnown(asks) => KnownBounds(t),
           ~Bounded(t) => reply = Reply(<<>>, {}),
           Bounded(t) /\ KnownBounds(t) /\ AllKnown(reply.asks) => Form(t, p, reply.entries)
    PROVE  Form(t, p, Behind(asks, reply).entries)
<1>1. Behind(asks, reply).asks = asks \o reply.asks /\ Behind(asks, reply).entries = reply.entries
  BY DEF Behind, Reply
<1>2. KnownBounds(t) /\ AllKnown(reply.asks)
  BY <1>1, KnownTogether DEF Typed
<1>3. CASE ~Bounded(t)
  <2>1. reply.entries = {}
    BY <1>3 DEF Reply
  <2>2. QED
    BY <1>1, <1>2, <1>3, <2>1 DEF Form, EmptyForm
<1>4. QED
  BY <1>1, <1>2, <1>3

\* The buckets of a tree, down to the days.
LEMMA BucketsAreOfForm ==
    ASSUME Reading, NEW p \in Paths, p = <<>> \/ IsYear(p) \/ IsMonth(p)
    PROVE  /\ AllKnown(TimelineBuckets(p).asks) => Form("Timeline", p, TimelineBuckets(p).entries)
           /\ ~FlatNow("Album") /\ AllKnown(AlbumBuckets(p).asks)
                 => Form("Album", p, AlbumBuckets(p).entries)
           /\ ~FlatNow("View") /\ AllKnown(ViewBuckets(p).asks)
                 => Form("View", p, ViewBuckets(p).entries)
<1>1. /\ Len(p) \in Nat /\ Len(p) \in {0, 1, 2}
      /\ (Len(p) = 2 <=> IsMonth(p)) /\ (Len(p) = 1 <=> IsYear(p)) /\ (Len(p) = 0 <=> p = <<>>)
  BY Parts DEF IsYear, IsMonth
<1>2. \A t : ~FlatNow(t) /\ IsMonth(p) /\ AllKnown(Days(t, p).asks)
                => Form(t, p, Days(t, p).entries)
  BY DaysAreOfForm
<1>3. \A t : ~FlatNow(t) /\ (IsYear(p) \/ (p = <<>> /\ KnownBounds(t) /\ Bounded(t)))
                /\ AllKnown(Swept(t, p).asks) => Form(t, p, Swept(t, p).entries)
  <2>1. ASSUME NEW t, ~FlatNow(t), IsYear(p) \/ (p = <<>> /\ KnownBounds(t) /\ Bounded(t)),
               AllKnown(Swept(t, p).asks)
        PROVE  Form(t, p, Swept(t, p).entries)
    BY <2>1, SweepIsOfForm
  <2>2. QED
    BY <2>1
<1>4. \A t : /\ Bounds(t) \in Seq(Queries)
             /\ AllKnown(Bounds(t)) => KnownBounds(t)
             /\ <<IndexQuery>> \o Bounds(t) \in Seq(Queries)
             /\ AllKnown(<<IndexQuery>> \o Bounds(t)) => KnownBounds(t)
  BY SomeQueries, KnownTogether, KnownSingly DEF KnownBounds
<1>5. Typed(Reply(<<>>, {})) /\ \A t : Typed(Days(t, p)) /\ (Bounded(t) \/ p # <<>> => Typed(Swept(t, p)))
  <2>1. \A t : Typed(Days(t, p))
    BY DateRanges, SomeQueries, FoundIsTyped, "days" \in QueryKinds DEF Days, QueryKinds
  <2>2. QED
    BY <2>1, RepliesAreTyped, SweptIsTyped
<1>6. ASSUME AllKnown(TimelineBuckets(p).asks)
      PROVE  Form("Timeline", p, TimelineBuckets(p).entries)
  <2> DEFINE bounded == IF Bounded("Timeline") THEN Swept("Timeline", p) ELSE Reply(<<>>, {})
             asks == <<IndexQuery>> \o Bounds("Timeline")
  <2>1. ~FlatNow("Timeline")
    BY DEF FlatNow
  <2>2. CASE Len(p) = 2
    <3>1. TimelineBuckets(p) = Days("Timeline", p)
      BY <2>2 DEF TimelineBuckets
    <3>2. QED
      BY <1>1, <1>2, <1>6, <2>1, <2>2, <3>1
  <2>3. CASE Len(p) # 2 /\ Told(IndexQuery).failed
    <3>1. TimelineBuckets(p) = Behind(asks, bounded)
      BY <2>3 DEF TimelineBuckets
    <3>2. Typed(bounded) /\ (~Bounded("Timeline") => bounded = Reply(<<>>, {}))
      BY <1>5
    <3>3. Bounded("Timeline") /\ KnownBounds("Timeline") /\ AllKnown(bounded.asks)
             => Form("Timeline", p, bounded.entries)
      BY <1>1, <1>3, <2>1, <2>3
    <3>4. asks \in Seq(Queries) /\ (AllKnown(asks) => KnownBounds("Timeline"))
      BY <1>4
    <3> HIDE DEF asks, bounded
    <3>5. QED
      BY <1>6, <2>1, <3>1, <3>2, <3>3, <3>4, BehindBoundsIsOfForm
  <2>4. CASE Len(p) # 2 /\ ~Told(IndexQuery).failed
    <3>1. TimelineBuckets(p) = Indexed(p)
      BY <2>4 DEF TimelineBuckets
    <3>2. Indexed(p).asks = <<IndexQuery>>
      BY DEF Indexed, Found, Reply
    <3>3. Known(IndexQuery)
      BY <1>6, <3>1, <3>2, SomeQueries, KnownSingly
    <3>4. QED
      BY <1>1, <2>4, <3>1, <3>3 DEF Form, IndexForm
  <2>5. QED
    BY <2>2, <2>3, <2>4
<1>7. ASSUME ~FlatNow("Album"), AllKnown(AlbumBuckets(p).asks)
      PROVE  Form("Album", p, AlbumBuckets(p).entries)
  <2> DEFINE bounded == IF Bounded("Album") THEN Swept("Album", p) ELSE Reply(<<>>, {})
  <2>1. CASE Len(p) = 2
    <3>1. AlbumBuckets(p) = Days("Album", p)
      BY <2>1 DEF AlbumBuckets
    <3>2. QED
      BY <1>1, <1>2, <1>7, <2>1, <3>1
  <2>2. CASE Len(p) = 1
    <3>1. AlbumBuckets(p) = Swept("Album", p)
      BY <2>2 DEF AlbumBuckets
    <3>2. QED
      BY <1>1, <1>3, <1>7, <2>2, <3>1
  <2>3. CASE Len(p) = 0
    <3>1. AlbumBuckets(p) = Behind(Bounds("Album"), bounded)
      BY <2>3 DEF AlbumBuckets
    <3>2. Typed(bounded) /\ (~Bounded("Album") => bounded = Reply(<<>>, {}))
      BY <1>5
    <3>3. Bounded("Album") /\ KnownBounds("Album") /\ AllKnown(bounded.asks)
             => Form("Album", p, bounded.entries)
      BY <1>1, <1>3, <1>7, <2>3
    <3> HIDE DEF bounded
    <3>4. QED
      BY <1>4, <1>7, <3>1, <3>2, <3>3, BehindBoundsIsOfForm
  <2>4. QED
    BY <1>1, <2>1, <2>2, <2>3
<1>8. ASSUME ~FlatNow("View"), AllKnown(ViewBuckets(p).asks)
      PROVE  Form("View", p, ViewBuckets(p).entries)
  <2> DEFINE inner == CASE ~Bounded("View") -> Reply(<<>>, {})
                        [] Bounded("View") /\ Len(p) = 2 -> Days("View", p)
                        [] OTHER -> Swept("View", p)
  <2>1. ViewBuckets(p) = Behind(Bounds("View"), inner)
    BY DEF ViewBuckets
  <2>2. /\ ~Bounded("View") => inner = Reply(<<>>, {})
        /\ Bounded("View") /\ Len(p) = 2 => inner = Days("View", p)
        /\ Bounded("View") /\ Len(p) # 2 => inner = Swept("View", p)
    OBVIOUS
  <2> HIDE DEF inner
  <2>3. Typed(inner)
    BY <1>5, <2>2
  <2>4. Bounded("View") /\ KnownBounds("View") /\ AllKnown(inner.asks)
           => Form("View", p, inner.entries)
    BY <1>1, <1>2, <1>3, <1>8, <2>2
  <2>5. QED
    BY <1>4, <1>8, <2>1, <2>2, <2>3, <2>4, BehindBoundsIsOfForm
<1>9. QED
  BY <1>6, <1>7, <1>8

\* The listing of a day and of files.
LEMMA FilesAreOfForm ==
    ASSUME Reading, NEW t, NEW r \in Spans, AllKnown(FilesIn(t, r).asks)
    PROVE  FilesForm(Query("files", t, r), FilesIn(t, r).entries)
<1> DEFINE q == Query("files", t, r)
<1>1. q \in Queries
  BY SomeQueries, "files" \in QueryKinds DEF QueryKinds
<1>2. FilesIn(t, r).asks = <<q>> /\ FilesIn(t, r).entries = Files(Told(q))
  BY DEF FilesIn, FilesOf, Reply
<1> HIDE DEF q
<1>3. FilesForm(q, FilesIn(t, r).entries)
  BY <1>1, <1>2, KnownSingly DEF FilesForm
<1>4. QED
  BY <1>3 DEF q

LEMMA DayFolderIsOfForm ==
    ASSUME Reading, NEW t, NEW p \in Paths, ~FlatNow(t), IsDay(p),
           AllKnown(DayFolder(t, DateRange(p)).asks)
    PROVE  Form(t, p, DayFolder(t, DateRange(p)).entries)
<1> DEFINE r == DateRange(p)
           q == Query("hours", t, r)
           split == SplitQuery(t, r)
           inner == CASE ~Known(split) -> Reply(<<>>, {})
                      [] Known(split) /\ IsSplit(t, r) -> Hours(t, r)
                      [] OTHER -> FilesIn(t, r)
<1>1. r \in Spans
  BY DateRanges
<1>2. q \in Queries /\ split \in Queries
  BY <1>1, SomeQueries, "hours" \in QueryKinds DEF QueryKinds
<1>3. DayFolder(t, r) = Behind(<<split>>, inner)
  BY DEF DayFolder
<1>4. /\ ~Known(split) => inner = Reply(<<>>, {})
      /\ Known(split) /\ IsSplit(t, r) => inner = Hours(t, r)
      /\ Known(split) /\ ~IsSplit(t, r) => inner = FilesIn(t, r)
  OBVIOUS
<1>5. Hours(t, r).asks = <<q>> /\ Hours(t, r).entries = Buckets("hour", NumbersOf("hour", q))
  BY DEF Hours, Found, Reply, NumbersOf
<1> HIDE DEF q, split, inner, r
<1>6. /\ DayFolder(t, r).asks = <<split>> \o inner.asks
      /\ DayFolder(t, r).entries = inner.entries
  BY <1>3 DEF Behind, Reply
<1>7. Typed(inner)
  BY <1>1, <1>4, FoldersAreTyped, RepliesAreTyped
<1>8. AllKnown(<<split>> \o inner.asks)
  BY <1>6 DEF r
<1>9. Known(split) /\ AllKnown(inner.asks)
  BY <1>2, <1>7, <1>8, KnownTogether, KnownSingly DEF Typed
<1>10. CASE IsSplit(t, r)
  <2>1. FoundForm("hour", q, inner.entries)
    BY <1>2, <1>4, <1>5, <1>9, <1>10, KnownSingly DEF FoundForm
  <2>2. DayForm(t, p, inner.entries)
    BY <1>9, <1>10, <2>1 DEF DayForm, r, q, split
  <2>3. QED
    BY <1>6, <2>2 DEF Form, r
<1>11. CASE ~IsSplit(t, r)
  <2>1. FilesForm(Query("files", t, r), inner.entries)
    BY <1>1, <1>4, <1>9, <1>11, FilesAreOfForm
  <2>2. DayForm(t, p, inner.entries)
    BY <1>9, <1>11, <2>1 DEF DayForm, r, split
  <2>3. QED
    BY <1>6, <2>2 DEF Form, r
<1>12. QED
  BY <1>10, <1>11

\* The paths of folders.
LEMMA FolderPaths ==
    ASSUME Reading, NEW t \in Trees, NEW p \in Paths, IsFolderOf(t, p)
    PROVE  /\ p = <<>> \/ IsYear(p) \/ IsMonth(p) \/ IsDay(p) \/ (Len(p) = 4 /\ HourRange(p) # NoSpan)
           /\ p # <<>> => ~FlatNow(t) /\ Dates(p) # NoSpan /\ Has(t, Dates(p))
           /\ IsYear(p) \/ IsMonth(p) \/ IsDay(p) => Dates(p) = DateRange(p)
           /\ (Len(p) = 0 <=> p = <<>>) /\ (IsYear(p) => Len(p) = 1) /\ (IsMonth(p) => Len(p) = 2)
           /\ (IsDay(p) => Len(p) = 3)
<1>1. Len(p) \in Nat /\ (p = <<>> <=> Len(p) = 0)
  BY Parts
<1>2. p # <<>> => /\ Len(p) <= 4 /\ Dates(p) # NoSpan /\ Has(t, Dates(p))
                  /\ Len(p) = 4 => HourRange(p) # NoSpan
  BY DEF IsFolderOf
<1>3. p # <<>> => ~FlatNow(t)
  BY DEF IsFolderOf, FlatNow
<1>4. Len(p) <= 3 => Dates(p) = DateRange(p)
  BY DatesOfPaths
<1>5. DateRange(p) # NoSpan => IsYear(p) \/ IsMonth(p) \/ IsDay(p)
  BY DateRanges
<1>6. (IsYear(p) => Len(p) = 1) /\ (IsMonth(p) => Len(p) = 2) /\ (IsDay(p) => Len(p) = 3)
  BY DEF IsYear, IsMonth, IsDay
<1>7. Len(p) <= 4 => Len(p) <= 3 \/ Len(p) = 4
  <2>1. \A n \in Nat : n <= 4 => n <= 3 \/ n = 4
    OBVIOUS
  <2>2. QED
    BY <1>1, <2>1
<1>8. IsYear(p) \/ IsMonth(p) \/ IsDay(p) => Dates(p) = DateRange(p)
  <2>1. 1 <= 3 /\ 2 <= 3 /\ 3 <= 3
    OBVIOUS
  <2>2. QED
    BY <1>4, <1>6, <2>1
<1>9. p = <<>> \/ IsYear(p) \/ IsMonth(p) \/ IsDay(p) \/ (Len(p) = 4 /\ HourRange(p) # NoSpan)
  BY <1>2, <1>4, <1>5, <1>7
<1>10. QED
  BY <1>1, <1>2, <1>3, <1>6, <1>8, <1>9

\* A listing has one of these forms.
LEMMA ListingIsOfForm ==
    ASSUME Reading, NEW t \in Trees, NEW p \in Paths, IsFolderOf(t, p),
           AllKnown(Listing(t, p).asks)
    PROVE  Form(t, p, Listing(t, p).entries)
<1>1. t = "Timeline" \/ t = "Album" \/ t = "View"
  BY DEF Trees
<1>2. Len(p) \in Nat
  BY Parts
<1>3. CASE p = <<>> /\ FlatNow(t)
  <2>1. Listing(t, p) = FilesIn(t, Everything)
    <3>1. CASE t = "Album"
      <4>1. ~AlbumIsSplit
        BY <1>3, <3>1 DEF FlatNow
      <4>2. QED
        BY <1>3, <3>1, <4>1 DEF Listing, AlbumFolder
    <3>2. CASE t = "View"
      <4>1. used.view /\ used.flat
        BY <1>3, <3>2 DEF FlatNow, IsFolderOf
      <4>2. QED
        BY <1>3, <3>2, <4>1 DEF Listing, ViewFolder
    <3>3. QED
      BY <1>3, <3>1, <3>2 DEF FlatNow
  <2>2. FilesForm(Query("files", t, Everything), Listing(t, p).entries)
    BY <2>1, FilesAreOfForm, SomeQueries
  <2>3. QED
    BY <1>3, <2>2 DEF Form, FlatForm
<1>4. CASE ~FlatNow(t) /\ (p = <<>> \/ IsYear(p) \/ IsMonth(p))
  <2>1. Len(p) <= 2 /\ Len(p) # 3 /\ Len(p) # 4
    <3>1. Len(p) = 0 \/ Len(p) = 1 \/ Len(p) = 2
      BY <1>4, FolderPaths
    <3>2. \A n \in {0, 1, 2} : n <= 2 /\ n # 3 /\ n # 4
      OBVIOUS
    <3>3. QED
      BY <3>1, <3>2
  <2>2. CASE t = "Timeline"
    <3>1. Listing(t, p) = TimelineBuckets(p)
      BY <2>1, <2>2 DEF Listing, DateFolder
    <3>2. QED
      BY <1>4, <2>2, <3>1, BucketsAreOfForm
  <2>3. CASE t = "Album"
    <3>1. AlbumIsSplit
      BY <1>4, <2>3 DEF FlatNow
    <3>2. Listing(t, p) = AlbumBuckets(p)
      BY <2>1, <2>3, <3>1 DEF Listing, AlbumFolder, AlbumDateFolder
    <3>3. QED
      BY <1>4, <2>3, <3>2, BucketsAreOfForm
  <2>4. CASE t = "View"
    <3>1. used.view /\ ~used.flat
      BY <1>4, <2>4 DEF FlatNow, IsFolderOf
    <3>2. Listing(t, p) = ViewBuckets(p)
      BY <2>1, <2>4, <3>1 DEF Listing, ViewFolder, ViewDateFolder
    <3>3. QED
      BY <1>4, <2>4, <3>2, BucketsAreOfForm
  <2>5. QED
    BY <1>1, <2>2, <2>3, <2>4
<1>5. CASE IsDay(p)
  <2>1. Len(p) = 3 /\ p # <<>> /\ ~FlatNow(t)
    BY <1>5, FolderPaths
  <2>2. Listing(t, p) = DayFolder(t, DateRange(p))
    <3>1. CASE t = "View"
      <4>1. used.view /\ ~used.flat
        BY <2>1, <3>1 DEF FlatNow, IsFolderOf
      <4>2. QED
        BY <2>1, <3>1, <4>1 DEF Listing, ViewDateFolder
    <3>2. CASE t = "Album"
      BY <2>1, <3>2 DEF Listing, AlbumDateFolder
    <3>3. CASE t = "Timeline"
      BY <2>1, <3>3 DEF Listing, DateFolder
    <3>4. QED
      BY <1>1, <3>1, <3>2, <3>3
  <2>3. QED
    BY <1>5, <2>1, <2>2, DayFolderIsOfForm
<1>6. CASE Len(p) = 4
  <2>1. /\ p # <<>> /\ ~FlatNow(t) /\ HourRange(p) # NoSpan
        /\ ~(Len(p) <= 2) /\ Len(p) # 3
    <3>1. ~(4 <= 2) /\ 4 # 3 /\ 4 # 0
      OBVIOUS
    <3>2. p # <<>>
      BY <1>6, <3>1, FolderPaths
    <3>3. HourRange(p) # NoSpan
      BY <1>6, <3>2 DEF IsFolderOf
    <3>4. QED
      BY <1>6, <3>1, <3>2, <3>3, FolderPaths
  <2>2. Listing(t, p) = FilesIn(t, HourRange(p))
    <3>1. CASE t = "View"
      <4>1. used.view /\ ~used.flat
        BY <2>1, <3>1 DEF FlatNow, IsFolderOf
      <4>2. QED
        BY <1>6, <2>1, <3>1, <4>1 DEF Listing, ViewDateFolder, ViewHourFolder
    <3>2. CASE t = "Album"
      BY <1>6, <2>1, <3>2 DEF Listing, AlbumDateFolder, AlbumHourFolder
    <3>3. CASE t = "Timeline"
      BY <1>6, <2>1, <3>3 DEF Listing, DateFolder, HourFolder
    <3>4. QED
      BY <1>1, <3>1, <3>2, <3>3
  <2>3. FilesForm(Query("files", t, HourRange(p)), Listing(t, p).entries)
    BY <2>2, FilesAreOfForm, DatesOfPaths
  <2>4. QED
    BY <1>6, <2>1, <2>3 DEF Form, HourForm
<1>7. QED
  BY <1>3, <1>4, <1>5, <1>6, FolderPaths

-----------------------------------------------------------------------------
(***************************************************************************)
(* The entries of a listing and the paths below it.                        *)
(***************************************************************************)
\* The dates of a path with one more part.
LEMMA DatesBelow ==
    ASSUME NEW p \in Paths, NEW kind \in Kinds, NEW n \in Nat
    PROVE  /\ Append(p, <<kind, n>>) \in Paths
           /\ Len(Append(p, <<kind, n>>)) = Len(p) + 1
           /\ Append(p, <<kind, n>>)[Len(p) + 1] = <<kind, n>>
           /\ \A k \in Nat : k <= Len(p) =>
                  SubSeq(Append(p, <<kind, n>>), 1, k) = SubSeq(p, 1, k)
           /\ p = <<>> /\ kind = "year" => DateRange(Append(p, <<kind, n>>)) = Bucket(kind, n)
           /\ IsYear(p) /\ kind = "month" /\ n \div MonthsPerYear = p[1][2]
                 => DateRange(Append(p, <<kind, n>>)) = Bucket(kind, n)
           /\ IsMonth(p) /\ kind = "day" /\ n \div DaysPerMonth = p[2][2]
                 => DateRange(Append(p, <<kind, n>>)) = Bucket(kind, n)
           /\ IsDay(p) /\ kind = "hour" => HourRange(Append(p, <<kind, n>>)) # NoSpan
<1> DEFINE P == Append(p, <<kind, n>>)
<1>1. <<kind, n>> \in Kinds \X Nat /\ Len(p) \in Nat /\ p \in Seq(Kinds \X Nat)
  BY Parts DEF Paths
<1>2. /\ P \in Seq(Kinds \X Nat) /\ Len(P) = Len(p) + 1 /\ P[Len(p) + 1] = <<kind, n>>
      /\ \A i \in 1..Len(p) : P[i] = p[i]
  BY <1>1
<1>3. P \in Paths
  BY <1>2 DEF Paths
<1>4. ASSUME NEW k \in Nat, k <= Len(p)
      PROVE  SubSeq(P, 1, k) = SubSeq(p, 1, k)
  BY <1>1, <1>4
<1>5. p = <<>> => Len(p) = 0
  OBVIOUS
<1> HIDE DEF P
<1>6. p = <<>> /\ kind = "year" => DateRange(P) = Bucket(kind, n)
  <2>1. SUFFICES ASSUME p = <<>>, kind = "year" PROVE DateRange(P) = Bucket(kind, n)
    OBVIOUS
  <2>2. Len(P) = 1 /\ P[1] = <<kind, n>>
    BY <1>2, <1>5, <2>1
  <2>3. IsYear(P) /\ P[1][2] = n
    BY <2>1, <2>2 DEF IsYear
  <2>4. QED
    BY <1>3, <2>1, <2>3, DateRanges
<1>7. IsYear(p) /\ kind = "month" /\ n \div MonthsPerYear = p[1][2]
         => DateRange(P) = Bucket(kind, n)
  <2>1. SUFFICES ASSUME IsYear(p), kind = "month", n \div MonthsPerYear = p[1][2]
                 PROVE  DateRange(P) = Bucket(kind, n)
    OBVIOUS
  <2>2. Len(P) = 2 /\ P[2] = <<kind, n>> /\ P[1] = p[1] /\ p[1][1] = "year"
    BY <1>2, <2>1 DEF IsYear
  <2>3. IsMonth(P) /\ P[2][2] = n
    BY <2>1, <2>2 DEF IsMonth
  <2>4. QED
    BY <1>3, <2>1, <2>3, DateRanges
<1>8. IsMonth(p) /\ kind = "day" /\ n \div DaysPerMonth = p[2][2]
         => DateRange(P) = Bucket(kind, n)
  <2>1. SUFFICES ASSUME IsMonth(p), kind = "day", n \div DaysPerMonth = p[2][2]
                 PROVE  DateRange(P) = Bucket(kind, n)
    OBVIOUS
  <2>2. /\ Len(P) = 3 /\ P[3] = <<kind, n>> /\ P[1] = p[1] /\ P[2] = p[2]
        /\ p[1][1] = "year" /\ p[2][1] = "month"
    BY <1>2, <2>1 DEF IsMonth
  <2>3. IsDay(P) /\ P[3][2] = n
    BY <2>1, <2>2 DEF IsDay
  <2>4. QED
    BY <1>3, <2>1, <2>3, DateRanges
<1>9. IsDay(p) /\ kind = "hour" => HourRange(P) # NoSpan
  <2>1. SUFFICES ASSUME IsDay(p), kind = "hour" PROVE HourRange(P) # NoSpan
    OBVIOUS
  <2>2. Len(p) = 3 /\ Len(P) = 4 /\ P[4] = <<kind, n>>
    BY <1>2, <2>1 DEF IsDay
  <2>3. SubSeq(P, 1, 3) = p
    BY <1>4, <2>2, Beginnings, 3 \in Nat, 3 <= 3 DEF P
  <2>4. p[3][2] \in Nat /\ DateRange(p) = Bucket("day", p[3][2])
    <3>1. 3 \in 1..Len(p)
      BY <2>2
    <3>2. QED
      BY <2>1, <3>1, Parts, DateRanges
  <2>5. DateRange(p) # NoSpan /\ DateRange(p).from \in Nat
    BY <2>4, BucketSpans
  <2>6. HourRange(P) = Span(DateRange(p).from + n, DateRange(p).from + n + 1)
    <3>1. Len(P) = 4 /\ P[4][1] = "hour" /\ P[4][2] = n
      BY <2>1, <2>2
    <3>2. QED
      BY <2>3, <2>5, <3>1, Zenon DEF HourRange
  <2>7. HourRange(P).to = DateRange(p).from + n + 1 /\ NoSpan.to = 0
    BY <2>6 DEF Span, NoSpan
  <2>8. DateRange(p).from + n + 1 # 0
    BY <2>5
  <2>9. QED
    BY <2>7, <2>8
<1>10. QED
  BY <1>2, <1>3, <1>4, <1>6, <1>7, <1>8, <1>9 DEF P

\* A file of a listing has the name of its asset.
LEMMA FileEntries ==
    ASSUME NEW found, NEW e \in Files(found)
    PROVE  /\ e.name[1] \in {"file", "file12"} /\ e.asset \in found.got
           /\ \/ IsFirst(e.asset, found.got) /\ e = Entry("file", DisplayName(e.asset), e.asset)
              \/ /\ ~IsFirst(e.asset, found.got) \/ e.asset \in found.twice
                 /\ e = Entry("file12", e.asset, e.asset)
<1>1. CASE e \in FirstFiles(found)
  <2>1. PICK a \in found.got : IsFirst(a, found.got) /\ e = Entry("file", DisplayName(a), a)
    BY <1>1 DEF FirstFiles
  <2>2. e.asset = a /\ e.name[1] = "file"
    BY <2>1 DEF Entry
  <2>3. QED
    BY <2>1, <2>2
<1>2. CASE e \notin FirstFiles(found)
  <2>1. PICK a \in found.got : /\ ~IsFirst(a, found.got) \/ a \in found.twice
                               /\ e = Entry("file12", a, a)
    BY <1>2 DEF Files
  <2>2. e.asset = a /\ e.name[1] = "file12"
    BY <2>1 DEF Entry
  <2>3. QED
    BY <2>1, <2>2
<1>3. QED
  BY <1>1, <1>2

\* The span of a query, narrowed by a saved view.
LEMMA QuerySpans ==
    ASSUME used \in Row, NEW kind, NEW t, NEW r \in Spans, NEW a \in Assets
    PROVE  /\ Query(kind, t, r).kind = kind
           /\ InSpan(Query(kind, t, r), a) <=>
                 /\ r.from <= Taken[a] /\ Taken[a] < r.to
                 /\ t = "View" => used.after <= Taken[a] /\ Taken[a] < used.before
<1>1. /\ r.from \in Int /\ r.to \in Int /\ used.after \in Int /\ used.before \in Int
      /\ Taken[a] \in Int
  BY AssetsAreTyped DEF Spans, Row
<1>2. \A i, j, k \in Int : /\ Larger(i, j) <= k <=> i <= k /\ j <= k
                           /\ k < Smaller(i, j) <=> k < i /\ k < j
  BY DEF Larger, Smaller
<1>3. /\ Query(kind, t, r).kind = kind
      /\ Query(kind, t, r).from = IF t = "View" THEN Larger(r.from, used.after) ELSE r.from
      /\ Query(kind, t, r).to = IF t = "View" THEN Smaller(r.to, used.before) ELSE r.to
  BY DEF Query
<1>4. QED
  BY <1>1, <1>2, <1>3 DEF InSpan

\* An asset that an answer names is in the span of the question.
LEMMA ToldInSpan ==
    ASSUME IInv, AnswerInv, NEW q, NEW a \in Told(q).got
    PROVE  a \in ever /\ a \in Assets /\ Known(q) /\ InSpan(q, a)
<1>1. a \in ever /\ a \in Assets
  <2>1. Told(q).got \in SUBSET ever /\ ever \in SUBSET Assets
    BY ToldIsSeen, ReadingHolds DEF Reading
  <2>2. QED
    BY <2>1
<1>2. Known(q)
  BY DEF Told, Nothing
<1>3. InSpan(q, a)
  BY <1>2 DEF AnswerInv, Answered, Told, Known
<1>4. QED
  BY <1>1, <1>2, <1>3

\* An entry of a listing is of a date, ...
DateEntry(t, p, e) ==
    /\ Len(p) < 3 /\ ~FlatNow(t) /\ e.name[1] \in {"year", "month", "day"}
    /\ e.name[2] \in Nat /\ DateRange(Append(p, e.name)) = Bucket(e.name[1], e.name[2])
    /\ \/ Has(t, Bucket(e.name[1], e.name[2]))
       \/ \E q : /\ \/ q = IndexQuery /\ t = "Timeline" /\ ~Told(q).failed
                    \/ q = Query("days", t, DateRange(p))
                 /\ e.name[2] \in NumbersOf(e.name[1], q)
\* ... of an hour, ...
HourEntry(t, p, e) ==
    /\ IsDay(p) /\ ~FlatNow(t) /\ e.name[1] = "hour"
    /\ Known(SplitQuery(t, DateRange(p))) /\ IsSplit(t, DateRange(p))
    /\ HourRange(Append(p, e.name)) # NoSpan
\* ... or a file of the folder.
FileSpan(t, p, r) ==
    \/ FlatNow(t) /\ p = <<>> /\ r = Everything
    \/ ~FlatNow(t) /\ IsDay(p) /\ r = DateRange(p)
    \/ ~FlatNow(t) /\ Len(p) = 4 /\ HourRange(p) # NoSpan /\ r = HourRange(p)
OneFile(t, p, e) ==
    \E r \in Spans : /\ FileSpan(t, p, r) /\ Known(Query("files", t, r))
                     /\ e \in Files(Told(Query("files", t, r)))

LEMMA BucketEntries ==
    ASSUME NEW kind, NEW numbers, NEW e \in Buckets(kind, numbers)
    PROVE  \E n \in numbers : e.name = <<kind, n>> /\ e.name[1] = kind /\ e.name[2] = n
BY DEF Buckets, Entry

LEMMA IndexedEntries ==
    ASSUME IInv, AnswerInv, NEW p \in Paths, IndexForm("Timeline", p, Indexed(p).entries),
           NEW e \in Indexed(p).entries
    PROVE  DateEntry("Timeline", p, e)
<1>1. ~FlatNow("Timeline") /\ Known(IndexQuery) /\ ~Told(IndexQuery).failed
  BY DEF FlatNow, IndexForm
<1>2. {"year", "month"} \subseteq Kinds
  BY DEF Kinds
<1>3. CASE p = <<>>
  <2>1. Indexed(p).entries = Buckets("year", NumbersOf("year", IndexQuery))
    BY <1>3 DEF Indexed, Found, Reply, NumbersOf
  <2>2. PICK n \in NumbersOf("year", IndexQuery) :
            e.name = <<"year", n>> /\ e.name[1] = "year" /\ e.name[2] = n
    BY <2>1, BucketEntries
  <2>3. n \in Nat
    <3>1. PICK a \in Told(IndexQuery).got : n = Number("year", Local[a])
      BY <2>2 DEF NumbersOf
    <3>2. QED
      BY <3>1, ToldInSpan, AssetsAreTyped, Numbers
  <2>4. DateRange(Append(p, e.name)) = Bucket("year", n)
    <3>1. "year" \in Kinds /\ n \in Nat /\ p = <<>>
      BY <1>2, <1>3, <2>3
    <3>2. DateRange(Append(p, <<"year", n>>)) = Bucket("year", n)
      BY <3>1, DatesBelow, Zenon
    <3>3. QED
      BY <2>2, <3>2, Zenon
  <2>5. Len(p) < 3
    <3>1. Len(p) = 0
      BY <1>3
    <3>2. QED
      BY <3>1
  <2>6. QED
    BY <1>1, <2>2, <2>3, <2>4, <2>5 DEF DateEntry
<1>4. CASE IsYear(p)
  <2> DEFINE inYear == {b \in Told(IndexQuery).got : Number("year", Local[b]) = p[1][2]}
  <2>1. p # <<>> /\ Len(p) < 3
    BY <1>4 DEF IsYear
  <2>2. Indexed(p).entries = Buckets("month", {Number("month", Local[a]) : a \in inYear})
    BY <2>1 DEF Indexed, Reply
  <2>3. PICK n \in {Number("month", Local[a]) : a \in inYear} :
            e.name = <<"month", n>> /\ e.name[1] = "month" /\ e.name[2] = n
    <3> HIDE DEF inYear
    <3>1. QED
      BY <2>2, BucketEntries
  <2>4. PICK a \in Told(IndexQuery).got :
            n = Number("month", Local[a]) /\ Number("year", Local[a]) = p[1][2]
    BY <2>3
  <2>5. n \in Nat /\ n \div MonthsPerYear = p[1][2]
    <3>1. Local[a] \in Nat
      BY <2>4, ToldInSpan, AssetsAreTyped
    <3>2. QED
      BY <2>4, <3>1, NumbersNest
  <2>6. DateRange(Append(p, e.name)) = Bucket("month", n)
    BY <1>2, <1>4, <2>3, <2>5, DatesBelow
  <2>7. n \in NumbersOf("month", IndexQuery)
    BY <2>4 DEF NumbersOf
  <2>8. QED
    BY <1>1, <2>1, <2>3, <2>5, <2>6, <2>7 DEF DateEntry
<1>5. QED
  BY <1>3, <1>4 DEF IndexForm

LEMMA EntriesOfForm ==
    ASSUME IInv, AnswerInv, \A a \in ever : Agrees(a),
           NEW t, NEW p \in Paths, NEW entries, Form(t, p, entries), NEW e \in entries
    PROVE  DateEntry(t, p, e) \/ HourEntry(t, p, e) \/ OneFile(t, p, e)
<1>1. used \in Row
  BY DEF IInv, RequestInv
<1>2. {"year", "month", "day", "hour"} \subseteq Kinds
  BY DEF Kinds
<1>3. CASE FlatForm(t, p, entries)
  BY <1>3, ReadingHolds, SomeQueries DEF FlatForm, FilesForm, OneFile, FileSpan
<1>4. CASE HourForm(t, p, entries)
  BY <1>4, DatesOfPaths DEF HourForm, FilesForm, OneFile, FileSpan
<1>5. CASE DayForm(t, p, entries)
  <2>1. CASE IsSplit(t, DateRange(p))
    <3> DEFINE q == Query("hours", t, DateRange(p))
    <3>1. entries = Buckets("hour", NumbersOf("hour", q))
      BY <1>5, <2>1 DEF DayForm, FoundForm
    <3> HIDE DEF q
    <3>2. PICK n \in NumbersOf("hour", q) :
              e.name = <<"hour", n>> /\ e.name[1] = "hour" /\ e.name[2] = n
      BY <3>1, BucketEntries
    <3>3. n \in Nat
      <4>1. PICK a \in Told(q).got : n = Number("hour", Local[a])
        BY <3>2 DEF NumbersOf
      <4>2. QED
        BY <4>1, ToldInSpan, AssetsAreTyped, Numbers
    <3>4. HourRange(Append(p, e.name)) # NoSpan
      BY <1>2, <1>5, <3>2, <3>3, DatesBelow DEF DayForm
    <3>5. QED
      BY <1>5, <2>1, <3>2, <3>4 DEF DayForm, HourEntry
  <2>2. CASE ~IsSplit(t, DateRange(p))
    BY <1>5, <2>2, DateRanges DEF DayForm, FilesForm, OneFile, FileSpan
  <2>3. QED
    BY <2>1, <2>2
<1>6. CASE MonthForm(t, p, entries)
  <2> DEFINE q == Query("days", t, DateRange(p))
  <2>1. entries = Buckets("day", NumbersOf("day", q)) /\ IsMonth(p) /\ ~FlatNow(t)
    BY <1>6 DEF MonthForm, FoundForm
  <2>2. PICK n \in NumbersOf("day", q) :
            e.name = <<"day", n>> /\ e.name[1] = "day" /\ e.name[2] = n
    <3> HIDE DEF q
    <3>1. QED
      BY <2>1, BucketEntries
  <2>3. PICK a \in Told(q).got : n = Number("day", Local[a])
    BY <2>2 DEF NumbersOf
  <2>4. a \in ever /\ a \in Assets /\ InSpan(q, a) /\ Local[a] \in Nat /\ Taken[a] = Local[a]
    <3> HIDE DEF q
    <3>1. QED
      BY <2>3, ToldInSpan, AssetsAreTyped DEF Agrees
  <2>5. p[2][2] \in Nat /\ DateRange(p) = Bucket("month", p[2][2]) /\ DateRange(p) \in Spans
    <3>1. 2 \in 1..Len(p)
      BY <2>1 DEF IsMonth
    <3>2. QED
      BY <2>1, <3>1, Parts, DateRanges
  <2>6. DateRange(p).from <= Taken[a] /\ Taken[a] < DateRange(p).to
    BY <1>1, <2>4, <2>5, QuerySpans
  <2>7. Number("month", Local[a]) = p[2][2]
    BY <2>4, <2>5, <2>6, NumberOfBucket
  <2>8. n \in Nat /\ n \div DaysPerMonth = p[2][2]
    BY <2>3, <2>4, <2>7, NumbersNest
  <2>9. DateRange(Append(p, e.name)) = Bucket("day", n)
    BY <1>2, <2>1, <2>2, <2>8, DatesBelow
  <2>10. Len(p) < 3
    BY <2>1 DEF IsMonth
  <2>11. QED
    BY <2>1, <2>2, <2>8, <2>9, <2>10 DEF DateEntry
<1>7. CASE YearForm(t, p, entries)
  <2> DEFINE months == p[1][2] * MonthsPerYear .. (p[1][2] + 1) * MonthsPerYear - 1
             found == {n \in months : Has(t, Bucket("month", n))}
  <2>1. entries = Buckets("month", found) /\ IsYear(p) /\ ~FlatNow(t)
    BY <1>7 DEF YearForm, HasForm
  <2>2. PICK n \in months : /\ e.name = <<"month", n>> /\ e.name[1] = "month" /\ e.name[2] = n
                            /\ Has(t, Bucket("month", n))
    <3>1. PICK n \in found : e.name = <<"month", n>> /\ e.name[1] = "month" /\ e.name[2] = n
      <4> HIDE DEF found
      <4>1. QED
        BY <2>1, BucketEntries
    <3>2. QED
      BY <3>1
  <2>3. p[1][2] \in Nat
    <3>1. 1 \in 1..Len(p)
      BY <2>1 DEF IsYear
    <3>2. QED
      BY <3>1, Parts
  <2>4. n \in Nat
    <3>1. p[1][2] * MonthsPerYear \in Nat
      BY <2>3, ConstantsAssumption
    <3>2. n \in Int /\ p[1][2] * MonthsPerYear <= n
      BY <2>2, <3>1
    <3>3. QED
      BY <3>1, <3>2
  <2>5. n \div MonthsPerYear = p[1][2]
    BY <2>2, <2>3, <2>4, MonthsOfYear
  <2>6. DateRange(Append(p, e.name)) = Bucket("month", n)
    BY <1>2, <2>1, <2>2, <2>4, <2>5, DatesBelow
  <2>7. Len(p) < 3
    BY <2>1 DEF IsYear
  <2> HIDE DEF months, found
  <2>8. QED
    BY <2>1, <2>2, <2>4, <2>6, <2>7 DEF DateEntry
<1>8. CASE RootForm(t, p, entries)
  <2> DEFINE years == YearOf(t, 1)..YearOf(t, 2)
             found == {n \in years : Has(t, Bucket("year", n))}
  <2>1. entries = Buckets("year", found) /\ p = <<>> /\ ~FlatNow(t) /\ Bounded(t)
    BY <1>8 DEF RootForm, HasForm
  <2>2. PICK n \in years : /\ e.name = <<"year", n>> /\ e.name[1] = "year" /\ e.name[2] = n
                           /\ Has(t, Bucket("year", n))
    <3>1. PICK n \in found : e.name = <<"year", n>> /\ e.name[1] = "year" /\ e.name[2] = n
      <4> HIDE DEF found
      <4>1. QED
        BY <2>1, BucketEntries
    <3>2. QED
      BY <3>1
  <2>3. YearOf(t, 1) \in Nat
    BY <2>1, ReadingHolds, YearsAreTyped
  <2>4. n \in Nat
    BY <2>2, <2>3
  <2>5. DateRange(Append(p, e.name)) = Bucket("year", n)
    <3>1. "year" \in Kinds /\ n \in Nat /\ p = <<>>
      BY <1>2, <2>1, <2>4
    <3>2. DateRange(Append(p, <<"year", n>>)) = Bucket("year", n)
      BY <3>1, DatesBelow, Zenon
    <3>3. QED
      BY <2>2, <3>2, Zenon
  <2>6. Len(p) < 3
    <3>1. Len(p) = 0
      BY <2>1
    <3>2. QED
      BY <3>1
  <2> HIDE DEF years, found
  <2>7. QED
    BY <2>1, <2>2, <2>4, <2>5, <2>6 DEF DateEntry
<1>9. CASE IndexForm(t, p, entries)
  BY <1>9, IndexedEntries DEF IndexForm
<1>10. CASE EmptyForm(t, entries)
  BY <1>10 DEF EmptyForm
<1>11. QED
  BY <1>3, <1>4, <1>5, <1>6, <1>7, <1>8, <1>9, <1>10 DEF Form

-----------------------------------------------------------------------------
(***************************************************************************)
(* While nothing changes, what is told is so.                              *)
(***************************************************************************)
\* The files of a search that met no asset twice, each under one name.
LEMMA FilesOfSets ==
    ASSUME NEW found, found.twice = {}, found.got \subseteq Assets
    PROVE  /\ \A e : e \in Files(found) <=> FileOf(found.got, e)
           /\ \A e, f \in Files(found) : e.name = f.name => e.asset = f.asset
<1>1. ASSUME NEW e PROVE e \in Files(found) <=> FileOf(found.got, e)
  <2>1. ASSUME e \in Files(found) PROVE FileOf(found.got, e)
    BY <2>1, FileEntries DEF FileOf
  <2>2. ASSUME FileOf(found.got, e) PROVE e \in Files(found)
    BY <2>2 DEF FileOf, Files, FirstFiles
  <2>3. QED
    BY <2>1, <2>2
<1>2. ASSUME NEW e \in Files(found), NEW f \in Files(found), e.name = f.name
      PROVE  e.asset = f.asset
  <2>1. /\ e.asset \in found.got /\ f.asset \in found.got
        /\ e.asset \in Nat /\ f.asset \in Nat
    BY FileEntries, AssetsAreTyped
  <2>2. CASE /\ IsFirst(e.asset, found.got) /\ e = Entry("file", DisplayName(e.asset), e.asset)
             /\ IsFirst(f.asset, found.got) /\ f = Entry("file", DisplayName(f.asset), f.asset)
    <3>1. /\ Entry("file", DisplayName(e.asset), e.asset).name = <<"file", DisplayName(e.asset)>>
          /\ Entry("file", DisplayName(f.asset), f.asset).name = <<"file", DisplayName(f.asset)>>
      BY DEF Entry
    <3>2. DisplayName(e.asset) = DisplayName(f.asset)
      <4>1. <<"file", DisplayName(e.asset)>> = <<"file", DisplayName(f.asset)>>
        BY <1>2, <2>2, <3>1, Zenon
      <4>2. QED
        BY <4>1
    <3>3. e.asset <= f.asset /\ f.asset <= e.asset
      BY <2>1, <2>2, <3>2 DEF IsFirst
    <3>4. QED
      BY <2>1, <3>3
  <2>3. CASE e = Entry("file12", e.asset, e.asset) /\ f = Entry("file12", f.asset, f.asset)
    <3>1. /\ Entry("file12", e.asset, e.asset).name = <<"file12", e.asset>>
          /\ Entry("file12", f.asset, f.asset).name = <<"file12", f.asset>>
      BY DEF Entry
    <3>2. <<"file12", e.asset>> = <<"file12", f.asset>>
      BY <1>2, <2>3, <3>1, Zenon
    <3>3. QED
      BY <3>2
  <2>4. ASSUME NEW c, NEW d, c.name = d.name, c = Entry("file", DisplayName(c.asset), c.asset),
               d = Entry("file12", d.asset, d.asset)
        PROVE  FALSE
    <3>1. c.name[1] = "file" /\ d.name[1] = "file12"
      BY <2>4 DEF Entry
    <3>2. QED
      BY <2>4, <3>1
  <2>5. QED
    BY <1>2, <2>2, <2>3, <2>4, FileEntries
<1>3. QED
  BY <1>1, <1>2

\* Answers while the library is as it was.
LEMMA ToldTruly ==
    ASSUME IInv, AnswerInv, ~stirred, NEW q, Known(q), ~memo[q].failed
    PROVE  /\ q.kind \in Searches => Told(q).got = Matching(lib, q) /\ Told(q).twice = {}
           /\ q.kind \in {"months", "split", "album"} => Told(q).got = Matching(lib, q)
           /\ q.kind = "has" => (Told(q).got # {} <=> Matching(lib, q) # {})
<1>1. Told(q) = memo[q] /\ lib \in SUBSET Assets
  BY DEF Told, IInv, LibraryInv
<1>2. AnsweredFrom(lib, q)
  BY DEF AnswerInv, Answered, Known
<1>3. q.kind \in Searches => Told(q).got = Matching(lib, q) /\ Told(q).twice = {}
  BY <1>1, <1>2 DEF AnsweredFrom
<1>4. q.kind \in {"has", "months", "split", "album"} => Told(q).got = Said(lib, q)
  BY <1>1, <1>2 DEF AnsweredFrom, Searches
<1>5. QED
  BY <1>1, <1>3, <1>4, WhatIsSaid

LEMMA SeenTruly ==
    ASSUME IInv, HistoryInv, AnswerInv, stage # "idle", ~stirred, ~edited, NEW t, NEW r
    PROVE  /\ used = settings /\ \A kind : Query(kind, t, r) = Asked(kind, t, r)
           /\ Known(Query("has", t, r)) => (Has(t, r) <=> Inhabited(t, r))
           /\ Known(SplitQuery(t, r)) => (IsSplit(t, r) <=> Large(t, r))
           /\ Known(Query("files", t, r)) =>
                 /\ Told(Query("files", t, r)).twice = {}
                 /\ Told(Query("files", t, r)).got \subseteq Assets
                 /\ \A e : e \in Files(Told(Query("files", t, r))) <=> FileAt(t, r, e)
           /\ t \in Trees /\ (t = "Album" => Known(AlbumQuery)) => (FlatNow(t) <=> Flat(t))
<1>1. used = settings
  BY DEF HistoryInv
<1>2. \A kind : Query(kind, t, r) = Asked(kind, t, r) /\ Query(kind, t, r).kind = kind
  BY <1>1 DEF Query, Asked
<1>3. AlbumQuery.kind = "album"
  BY DEF AlbumQuery, Query
<1>4. \A q : Known(q) /\ q.kind # "months" => ~memo[q].failed
  BY DEF AnswerInv, Answered, Known
<1>5. ASSUME Known(Query("has", t, r)) PROVE Has(t, r) <=> Inhabited(t, r)
  <2>1. Told(Query("has", t, r)).got # {} <=> Matching(lib, Query("has", t, r)) # {}
    BY <1>2, <1>4, <1>5, ToldTruly
  <2>2. QED
    BY <1>2, <2>1 DEF Has, Inhabited
<1>6. ASSUME Known(SplitQuery(t, r)) PROVE IsSplit(t, r) <=> Large(t, r)
  <2>1. SplitQuery(t, r) = Asked("split", t, r) /\ SplitQuery(t, r).kind = "split"
    BY <1>2 DEF SplitQuery
  <2>2. Told(SplitQuery(t, r)).got = Matching(lib, Asked("split", t, r))
    BY <1>4, <1>6, <2>1, ToldTruly
  <2>3. QED
    BY <1>1, <2>2 DEF IsSplit, Large
<1>7. ASSUME Known(Query("files", t, r))
      PROVE  /\ Told(Query("files", t, r)).twice = {}
             /\ Told(Query("files", t, r)).got \subseteq Assets
             /\ \A e : e \in Files(Told(Query("files", t, r))) <=> FileAt(t, r, e)
  <2> DEFINE q == Query("files", t, r)
  <2>1. q.kind = "files" /\ Known(q) /\ q = Asked("files", t, r)
    BY <1>2, <1>7
  <2> HIDE DEF q
  <2>2. Told(q).got = Matching(lib, q) /\ Told(q).twice = {}
    BY <1>4, <2>1, ToldTruly DEF Searches
  <2>3. Matching(lib, q) \subseteq Assets
    BY DEF Matching, IInv, LibraryInv
  <2>4. \A e : e \in Files(Told(q)) <=> FileOf(Told(q).got, e)
    BY <2>2, <2>3, FilesOfSets
  <2>5. \A e : e \in Files(Told(q)) <=> FileAt(t, r, e)
    BY <2>1, <2>2, <2>4 DEF FileAt
  <2>6. QED
    BY <2>2, <2>3, <2>5 DEF q
<1>8. ASSUME t \in Trees, t = "Album" => Known(AlbumQuery) PROVE FlatNow(t) <=> Flat(t)
  <2>1. CASE t = "Timeline"
    BY <2>1 DEF FlatNow, Flat
  <2>2. CASE t = "Album"
    <3>1. Told(AlbumQuery).got = Matching(lib, AlbumQuery)
      BY <1>3, <1>4, <1>8, <2>2, ToldTruly
    <3>2. QED
      BY <1>1, <2>2, <3>1 DEF FlatNow, Flat, AlbumIsSplit
  <2>3. CASE t = "View"
    BY <1>1, <2>3 DEF FlatNow, Flat
  <2>4. QED
    BY <1>8, <2>1, <2>2, <2>3 DEF Trees
<1>9. QED
  BY <1>1, <1>2, <1>5, <1>6, <1>7, <1>8

\* What is listed opens.
LEMMA NamesOpen ==
    ASSUME IInv, HistoryInv, AnswerInv, stage # "idle", ~stirred, ~edited,
           NEW t \in Trees, NEW p \in Paths, IsFolderOf(t, p), \A a \in lib : Agrees(a),
           NEW entries, Form(t, p, entries), NEW e \in entries
    PROVE  Opens(t, p, e)
<1>1. ever = lib /\ used = settings /\ used \in Row
  BY DEF HistoryInv, IInv, RequestInv
<1>2. t \in settings.trees /\ (t = "View" => settings.view)
  BY <1>1 DEF IsFolderOf
<1>3. FlatNow(t) <=> Flat(t)
  BY SeenTruly DEF IsFolderOf
<1>4. CASE DateEntry(t, p, e)
  <2> DEFINE r == Bucket(e.name[1], e.name[2])
             has == Query("has", t, r)
  <2>1. /\ r \in Spans /\ r # NoSpan /\ DateRange(Append(p, e.name)) = r
        /\ e.name[1] \in {"year", "month", "day"} /\ e.name[2] \in Nat
    BY <1>4, BucketSpans DEF DateEntry
  <2>2. Inhabited(t, r)
    <3>1. CASE Has(t, r)
      <4>1. Known(has)
        BY <3>1 DEF Has, Told, Nothing
      <4>2. QED
        BY <3>1, <4>1, SeenTruly
    <3>2. ASSUME NEW q, \/ q = IndexQuery /\ t = "Timeline" /\ ~Told(q).failed
                        \/ q = Query("days", t, DateRange(p)),
                 e.name[2] \in NumbersOf(e.name[1], q)
          PROVE  Inhabited(t, r)
      <4>1. PICK a \in Told(q).got : e.name[2] = Number(e.name[1], Local[a])
        BY <3>2 DEF NumbersOf
      <4>2. a \in lib /\ a \in Assets /\ InSpan(q, a) /\ Taken[a] = Local[a] /\ Taken[a] \in Nat
        BY <1>1, <4>1, ToldInSpan, AssetsAreTyped DEF Agrees
      <4>3. r.from <= Taken[a] /\ Taken[a] < r.to
        BY <2>1, <4>1, <4>2, NumberOfBucket
      <4>4. t = "View" => used.after <= Taken[a] /\ Taken[a] < used.before
        BY <1>1, <3>2, <4>2, QuerySpans, DateRanges
      <4>5. InSpan(has, a)
        BY <1>1, <2>1, <4>2, <4>3, <4>4, QuerySpans
      <4>6. a \in Matching(lib, Asked("has", t, r))
        BY <4>2, <4>5, SeenTruly DEF Matching, InSpan
      <4>7. QED
        BY <4>6 DEF Inhabited
    <3>3. QED
      BY <1>4, <3>1, <3>2 DEF DateEntry
  <2>3. OpensByDate(t, p, e)
    BY <1>4, <2>1, <2>2 DEF DateEntry, OpensByDate
  <2>4. QED
    BY <1>2, <1>3, <1>4, <2>3 DEF DateEntry, Opens
<1>5. p # <<>> => Dates(p) # NoSpan /\ Inhabited(t, Dates(p))
  <2>1. SUFFICES ASSUME p # <<>> PROVE Dates(p) # NoSpan /\ Inhabited(t, Dates(p))
    OBVIOUS
  <2>2. Dates(p) # NoSpan /\ Has(t, Dates(p))
    BY <2>1 DEF IsFolderOf
  <2>3. Known(Query("has", t, Dates(p)))
    BY <2>2 DEF Has, Told, Nothing
  <2>4. QED
    BY <2>2, <2>3, SeenTruly
<1>6. ASSUME IsDay(p) PROVE Len(p) = 3 /\ p # <<>> /\ Dates(p) = DateRange(p)
  <2>1. Len(p) = 3
    BY <1>6 DEF IsDay
  <2>2. Len(p) <= 3
    BY <2>1
  <2>3. Len(p) # 0
    BY <2>1
  <2>4. QED
    BY <2>1, <2>2, <2>3, DatesOfPaths, Parts
<1>7. CASE HourEntry(t, p, e)
  <2>1. Large(t, Dates(p))
    BY <1>6, <1>7, SeenTruly DEF HourEntry
  <2>2. OpensByDate(t, p, e)
    BY <1>5, <1>6, <1>7, <2>1 DEF HourEntry, OpensByDate
  <2>3. QED
    BY <1>2, <1>3, <1>7, <2>2 DEF HourEntry, Opens
<1>8. CASE OneFile(t, p, e)
  <2>1. PICK r \in Spans : /\ FileSpan(t, p, r) /\ Known(Query("files", t, r))
                           /\ e \in Files(Told(Query("files", t, r)))
    BY <1>8 DEF OneFile
  <2>2. FileAt(t, r, e)
    BY <2>1, SeenTruly
  <2>3. CASE FlatNow(t) /\ p = <<>> /\ r = Everything
    BY <1>2, <1>3, <2>2, <2>3 DEF Opens
  <2>4. CASE ~FlatNow(t) /\ IsDay(p) /\ r = DateRange(p)
    <3>1. OpensByDate(t, p, e)
      BY <1>5, <1>6, <2>2, <2>4 DEF OpensByDate
    <3>2. QED
      BY <1>2, <1>3, <2>4, <3>1 DEF Opens
  <2>5. CASE ~FlatNow(t) /\ Len(p) = 4 /\ HourRange(p) # NoSpan /\ r = HourRange(p)
    <3>1. p # <<>>
      <4>1. Len(p) # 0
        BY <2>5
      <4>2. QED
        BY <4>1, Parts
    <3>2. Known(SplitQuery(t, Dates(p))) /\ IsSplit(t, Dates(p))
      BY <2>5, <3>1 DEF IsFolderOf
    <3>3. Large(t, Dates(p))
      BY <3>2, SeenTruly
    <3>4. OpensByDate(t, p, e)
      BY <1>5, <2>2, <2>5, <3>1, <3>3 DEF OpensByDate
    <3>5. QED
      BY <1>2, <1>3, <2>5, <3>4 DEF Opens
  <2>6. QED
    BY <2>1, <2>3, <2>4, <2>5 DEF FileSpan
<1>9. \A a \in ever : Agrees(a)
  BY <1>1
<1>10. QED
  BY <1>4, <1>7, <1>8, <1>9, EntriesOfForm

-----------------------------------------------------------------------------
(***************************************************************************)
(* While nothing changes, what was listed is found.                        *)
(***************************************************************************)
Finds(o, e) == o.what # "missing" /\ (o.what = "file" => o.asset = e.asset)

LEMMA FilesAreFound ==
    ASSUME IInv, HistoryInv, AnswerInv, stage # "idle", ~stirred, ~edited,
           NEW t, NEW r \in Spans, NEW e, FileAt(t, r, e),
           NEW asks \in Seq(Queries), AllKnown(FileIn(asks, t, r, e.name).asks)
    PROVE  Finds(FileIn(asks, t, r, e.name), e)
<1> DEFINE q == Query("files", t, r)
           named == {f \in FilesIn(t, r).entries : f.name = e.name}
<1>1. FilesIn(t, r).entries = Files(Told(q))
  BY DEF FilesIn, FilesOf, Reply
<1>2. Known(q)
  <2>1. q \in Queries
    BY SomeQueries, ReadingHolds, "files" \in QueryKinds DEF QueryKinds
  <2>2. AllKnown(asks \o <<q>>)
    BY FileInIsTyped, ReadingHolds
  <2> HIDE DEF q
  <2>3. QED
    BY <2>1, <2>2, KnownTogether, KnownSingly
<1>3. e \in Files(Told(q)) /\ \A f, g \in Files(Told(q)) : f.name = g.name => f.asset = g.asset
  BY <1>2, SeenTruly, FilesOfSets
<1>4. named # {} /\ \A f \in named : f.asset = e.asset
  BY <1>1, <1>3
<1>5. /\ FileIn(asks, t, r, e.name).what = "file"
      /\ FileIn(asks, t, r, e.name).asset = (CHOOSE f \in named : TRUE).asset
  BY <1>4 DEF FileIn, Named, Outcome
<1>6. (CHOOSE f \in named : TRUE) \in named
  BY <1>4
<1> HIDE DEF named
<1>7. QED
  BY <1>4, <1>5, <1>6 DEF Finds

\* A path by date, below a listing that showed it.
LEMMA DatesAreFound ==
    ASSUME IInv, HistoryInv, AnswerInv, stage # "idle", ~stirred, ~edited,
           NEW t, NEW p \in Paths, NEW e, e.name \in Kinds \X Nat, OpensByDate(t, p, e),
           AllKnown(ResolveDates(t, Append(p, e.name)).asks)
    PROVE  Finds(ResolveDates(t, Append(p, e.name)), e)
<1> DEFINE P == Append(p, e.name)
           r == Dates(P)
           hour == HourRange(SubSeq(P, 1, Smaller(Len(P), 4)))
           has == Query("has", t, r)
           split == SplitQuery(t, r)
           o == ResolveDates(t, P)
<1>1. Reading /\ Len(p) \in Nat
  BY ReadingHolds, Parts
<1>2. /\ e.name = <<e.name[1], e.name[2]>> /\ e.name[1] \in Kinds /\ e.name[2] \in Nat
  OBVIOUS
<1>3. /\ P \in Paths /\ Len(P) = Len(p) + 1 /\ P[Len(p) + 1] = e.name
      /\ \A k \in Nat : k <= Len(p) => SubSeq(P, 1, k) = SubSeq(p, 1, k)
      /\ IsDay(p) /\ e.name[1] = "hour" => HourRange(P) # NoSpan
  <2> DEFINE kind == e.name[1]
             n == e.name[2]
  <2>1. kind \in Kinds /\ n \in Nat /\ e.name = <<kind, n>>
    BY <1>2
  <2> HIDE DEF kind, n
  <2>2. QED
    BY <2>1, DatesBelow DEF kind
<1> HIDE DEF P
<1>4. o = DatePath(t, P, r, hour)
  BY DEF ResolveDates, Dates
<1>5. r \in Spans
  BY <1>3, DatesOfPaths
<1>6. Len(p) \in {3, 4} => r = Dates(p)
  <2>1. SUFFICES ASSUME Len(p) \in {3, 4} PROVE r = Dates(p)
    OBVIOUS
  <2>2. Len(P) > 3 /\ 3 \in Nat /\ 3 <= Len(p)
    <3>1. \A n \in {3, 4} : n + 1 > 3 /\ 3 \in Nat /\ 3 <= n
      OBVIOUS
    <3>2. QED
      BY <1>3, <2>1, <3>1
  <2>3. r = DateRange(SubSeq(p, 1, 3))
    BY <1>3, <2>2, DatesOfPaths
  <2>4. CASE Len(p) = 3
    <3>1. SubSeq(p, 1, 3) = p /\ Dates(p) = DateRange(p)
      BY <2>4, Beginnings, DatesOfPaths, 3 \in Nat, 3 <= 3
    <3>2. QED
      BY <2>3, <3>1
  <2>5. CASE Len(p) = 4
    <3>1. Len(p) > 3
      BY <2>5
    <3>2. QED
      BY <2>3, <3>1, DatesOfPaths
  <2>6. QED
    BY <2>1, <2>4, <2>5
<1>7. Len(p) < 3 => r = DateRange(P) /\ Len(P) <= 3
  <2>1. \A n \in Nat : n < 3 => n + 1 <= 3
    OBVIOUS
  <2>2. QED
    BY <1>1, <1>3, <2>1, DatesOfPaths
<1>8. r # NoSpan /\ Inhabited(t, r)
  <2>1. CASE Len(p) < 3
    <3>1. Len(p) \notin {3, 4}
      <4>1. \A n \in {3, 4} : ~(n < 3)
        OBVIOUS
      <4>2. QED
        BY <2>1, <4>1
    <3>2. DateRange(P) # NoSpan /\ Inhabited(t, DateRange(P))
      BY <3>1 DEF OpensByDate, P
    <3>3. QED
      BY <1>7, <2>1, <3>2
  <2>2. CASE Len(p) \in {3, 4}
    <3>1. ~(Len(p) < 3)
      <4>1. \A n \in {3, 4} : ~(n < 3)
        OBVIOUS
      <4>2. QED
        BY <2>2, <4>1
    <3>2. QED
      BY <1>6, <2>2, <3>1 DEF OpensByDate
  <2>3. QED
    BY <2>1, <2>2 DEF OpensByDate
<1>9. AllKnown(o.asks)
  BY DEF P
<1>10. has \in Queries /\ split \in Queries
  BY <1>1, <1>5, SomeQueries, "has" \in QueryKinds DEF QueryKinds
<1>11. <<has>> \in Seq(Queries) /\ <<has, split>> \in Seq(Queries)
       /\ (AllKnown(<<has, split>>) => Known(split))
  <2> HIDE DEF has, split
  <2>1. QED
    BY <1>10 DEF AllKnown
<1>12. Has(t, r)
  <2>1. SUFFICES ASSUME ~Has(t, r) PROVE FALSE
    OBVIOUS
  <2>2. o = Missing(<<has>>)
    BY <1>4, <1>8, <2>1 DEF DatePath
  <2>3. AllKnown(<<has>>)
    BY <1>9, <2>2 DEF Missing, Outcome
  <2>4. Known(has)
    <3> HIDE DEF has
    <3>1. QED
      BY <1>10, <2>3, KnownSingly
  <2>5. QED
    BY <1>8, <2>1, <2>4, SeenTruly
<1> HIDE DEF o
<1>13. CASE Len(p) < 3
  <2>1. Len(P) <= 3 /\ Len(P) \notin {4, 5} /\ Len(P) # 4
    <3>1. \A n \in Nat : n < 3 => n + 1 <= 3 /\ n + 1 \notin {4, 5} /\ n + 1 # 4
      OBVIOUS
    <3>2. QED
      BY <1>1, <1>3, <1>13, <3>1
  <2>2. o = IsFolder(<<has>>)
    BY <1>4, <1>8, <1>12, <2>1 DEF DatePath
  <2>3. o.what = "folder"
    BY <2>2 DEF IsFolder, Outcome
  <2>4. QED
    BY <2>3 DEF Finds, o, P
<1>14. ASSUME Len(P) \in {4, 5}, hour # NoSpan
       PROVE  o = HourPath(t, P, r, hour) /\ Known(split) /\ hour \in Spans
  <2>1. ~(Len(P) <= 3)
    <3>1. \A n \in {4, 5} : ~(n <= 3)
      OBVIOUS
    <3>2. QED
      BY <1>14, <3>1
  <2>2. o = HourPath(t, P, r, hour)
    BY <1>4, <1>8, <1>12, <1>14, <2>1 DEF DatePath
  <2>3. Known(split)
    <3>1. CASE Known(split) /\ IsSplit(t, r) = (Len(P) = 4)
      BY <3>1
    <3>2. CASE ~(Known(split) /\ IsSplit(t, r) = (Len(P) = 4))
      <4> DEFINE s == IF Len(P) = 4 THEN r ELSE hour
                 f == FileIn(<<has, split>>, t, s, P[Len(P)])
      <4>1. o = f
        BY <2>2, <3>2 DEF HourPath
      <4>2. s \in Spans
        <5>1. hour \in Spans
          <6>1. \A n \in {4, 5} : Smaller(n, 4) = 4 /\ 4 <= n
            BY DEF Smaller
          <6>2. SubSeq(P, 1, Smaller(Len(P), 4)) \in Paths
            BY <1>3, <1>14, <6>1, Beginnings, 4 \in Nat
          <6>3. QED
            BY <6>2, DatesOfPaths
        <5>2. QED
          BY <1>5, <5>1
      <4> HIDE DEF s
      <4>3. f.asks = <<has, split>> \o <<Query("files", t, s)>>
        BY <1>1, <1>11, <4>2, FileInIsTyped
      <4>4. Query("files", t, s) \in Queries
        BY <1>1, <4>2, SomeQueries, "files" \in QueryKinds DEF QueryKinds
      <4>5. <<Query("files", t, s)>> \in Seq(Queries)
        BY <4>4, KnownSingly
      <4>6. AllKnown(<<has, split>> \o <<Query("files", t, s)>>)
        BY <1>9, <4>1, <4>3
      <4>7. AllKnown(<<has, split>>)
        BY <1>11, <4>5, <4>6, KnownTogether
      <4>8. QED
        BY <1>11, <4>7
    <3>3. QED
      BY <3>1, <3>2
  <2>4. hour \in Spans
    <3>1. \A n \in {4, 5} : Smaller(n, 4) = 4 /\ 4 <= n
      BY DEF Smaller
    <3>2. SubSeq(P, 1, Smaller(Len(P), 4)) \in Paths
      BY <1>3, <1>14, <3>1, Beginnings, 4 \in Nat
    <3>3. QED
      BY <3>2, DatesOfPaths
  <2>5. QED
    BY <2>2, <2>3, <2>4
<1>15. CASE Len(p) = 3
  <2>1. Len(P) = 4 /\ P[4] = e.name
    BY <1>3, <1>15
  <2>2. hour = HourRange(P)
    <3>1. Smaller(4, 4) = 4
      BY DEF Smaller
    <3>2. SubSeq(P, 1, 4) = P
      BY <1>3, <2>1, Beginnings, 4 \in Nat, 4 <= 4
    <3>3. QED
      BY <2>1, <3>1, <3>2
  <2>3. IsDay(p)
    <3>1. Dates(p) = DateRange(p)
      BY <1>15, DatesOfPaths, 3 <= 3
    <3>2. DateRange(p) # NoSpan
      BY <1>6, <1>8, <1>15, <3>1
    <3>3. ~IsYear(p) /\ ~IsMonth(p)
      BY <1>15 DEF IsYear, IsMonth
    <3>4. QED
      BY <3>2, <3>3, DateRanges
  <2>4. CASE e.name[1] = "hour" /\ Large(t, Dates(p))
    <3>1. hour # NoSpan
      BY <1>3, <2>2, <2>3, <2>4
    <3>2. o = HourPath(t, P, r, hour) /\ Known(split)
      BY <1>14, <2>1, <3>1
    <3>3. IsSplit(t, r)
      BY <1>6, <1>15, <2>4, <3>2, SeenTruly
    <3>4. o = IsFolder(<<has, split>>)
      BY <2>1, <3>2, <3>3 DEF HourPath, IsSplit
    <3>5. o.what = "folder"
      BY <3>4 DEF IsFolder, Outcome
    <3>6. QED
      BY <3>5 DEF Finds, o, P
  <2>5. CASE FileAt(t, Dates(p), e)
    <3>1. e.name[1] # "hour"
      BY <2>5 DEF FileAt, FileOf, Entry
    <3>2. hour = NoSpan
      BY <2>1, <2>2, <3>1 DEF HourRange
    <3>3. ~(Len(P) <= 3)
      BY <2>1
    <3>4. o = FileIn(<<has>>, t, r, e.name)
      BY <1>4, <1>8, <1>12, <2>1, <3>2, <3>3 DEF DatePath
    <3>5. FileAt(t, r, e)
      BY <1>6, <1>15, <2>5
    <3>6. Finds(FileIn(<<has>>, t, r, e.name), e)
      <4>1. <<has>> \in Seq(Queries) /\ AllKnown(FileIn(<<has>>, t, r, e.name).asks)
        BY <1>9, <1>11, <3>4
      <4> HIDE DEF has
      <4>2. QED
        BY <1>5, <3>5, <4>1, FilesAreFound
    <3>7. QED
      BY <3>4, <3>6 DEF o, P
  <2>6. ~(Len(p) < 3) /\ Len(p) # 4
    BY <1>15
  <2>7. QED
    BY <2>4, <2>5, <2>6 DEF OpensByDate
<1>16. CASE Len(p) = 4
  <2>1. Len(P) = 5 /\ P[5] = e.name /\ Len(P) # 4
    BY <1>3, <1>16
  <2>2. hour = HourRange(p)
    <3>1. Smaller(5, 4) = 4
      BY DEF Smaller
    <3>2. SubSeq(P, 1, 4) = SubSeq(p, 1, 4) /\ SubSeq(p, 1, 4) = p
      BY <1>3, <1>16, Beginnings, 4 \in Nat, 4 <= 4
    <3>3. QED
      BY <2>1, <3>1, <3>2
  <2>3. HourRange(p) # NoSpan /\ Large(t, Dates(p)) /\ FileAt(t, HourRange(p), e)
    <3>1. ~(Len(p) < 3) /\ Len(p) # 3
      BY <1>16
    <3>2. QED
      BY <3>1 DEF OpensByDate
  <2>4. o = HourPath(t, P, r, hour) /\ Known(split) /\ hour \in Spans
    BY <1>14, <2>1, <2>2, <2>3
  <2>5. IsSplit(t, r)
    BY <1>6, <1>16, <2>3, <2>4, SeenTruly
  <2>6. o = FileIn(<<has, split>>, t, hour, e.name)
    BY <2>1, <2>4, <2>5 DEF HourPath, IsSplit
  <2>7. Finds(FileIn(<<has, split>>, t, hour, e.name), e)
    <3>1. AllKnown(FileIn(<<has, split>>, t, hour, e.name).asks) /\ FileAt(t, hour, e)
      BY <1>9, <2>2, <2>3, <2>6
    <3> HIDE DEF has, split, hour
    <3>2. QED
      BY <1>11, <2>4, <3>1, FilesAreFound
  <2>8. QED
    BY <2>6, <2>7 DEF o, P
<1>17. QED
  BY <1>13, <1>15, <1>16 DEF OpensByDate

LEMMA ListedIsFound ==
    ASSUME IInv, HistoryInv, AnswerInv, stage # "idle", ~stirred, ~edited,
           NEW t \in Trees, NEW p \in Paths, NEW e, e.name \in Kinds \X Nat, Opens(t, p, e),
           AllKnown(Resolved(t, Append(p, e.name)).asks)
    PROVE  Finds(Resolved(t, Append(p, e.name)), e)
<1> DEFINE P == Append(p, e.name)
           o == Resolved(t, P)
           dates == ResolveDates(t, P)
<1>1. Reading /\ used = settings
  BY ReadingHolds, SeenTruly
<1>2. /\ P \in Paths /\ Len(P) = Len(p) + 1 /\ P[Len(p) + 1] = e.name
      /\ Len(p) \in Nat /\ (p = <<>> => Len(p) = 0)
  <2>1. e.name = <<e.name[1], e.name[2]>> /\ e.name[1] \in Kinds /\ e.name[2] \in Nat
    OBVIOUS
  <2> DEFINE kind == e.name[1]
             n == e.name[2]
  <2>2. kind \in Kinds /\ n \in Nat /\ e.name = <<kind, n>>
    BY <2>1
  <2> HIDE DEF kind, n
  <2>3. QED
    BY <2>2, DatesBelow, Parts
<1>3. P # <<>>
  <2>1. Len(P) # 0
    BY <1>2
  <2>2. QED
    BY <1>2, <2>1, Parts
<1>4. p = <<>> => Len(P) = 1 /\ P[1] = e.name
  BY <1>2
<1>5. OpensByDate(t, p, e) /\ AllKnown(dates.asks) => Finds(dates, e)
  BY DatesAreFound
<1>6. Typed(dates)
  BY <1>1, <1>2, ResolveDatesIsTyped
<1>7. t \in used.trees /\ (t = "View" => used.view) /\ AllKnown(o.asks)
  BY <1>1 DEF Opens
<1>8. Everything \in Spans /\ AlbumQuery \in Queries /\ <<AlbumQuery>> \in Seq(Queries)
      /\ <<>> \in Seq(Queries)
  BY <1>1, SomeQueries
<1>9. ASSUME NEW u \in Seq(Queries), AllKnown(<<AlbumQuery>> \o u)
       PROVE  Known(AlbumQuery) /\ AllKnown(u)
  <2> DEFINE first == <<AlbumQuery>>
  <2>1. first \in Seq(Queries) /\ (AllKnown(first) => Known(AlbumQuery))
    BY <1>8, KnownSingly
  <2>2. AllKnown(first \o u)
    BY <1>9
  <2> HIDE DEF first
  <2>3. QED
    BY <2>1, <2>2, KnownTogether
<1> HIDE DEF P, dates
<1>10. CASE t = "Timeline"
  <2>1. o = dates
    BY <1>3, <1>7, <1>10 DEF Resolved, ResolveTimeline, dates
  <2>2. OpensByDate(t, p, e)
    BY <1>10 DEF Opens, Flat
  <2>3. QED
    BY <1>5, <1>7, <2>1, <2>2 DEF P
<1>11. CASE t = "Album"
  <2> DEFINE behind == Outcome(<<AlbumQuery>> \o dates.asks, dates.what, dates.asset)
             inside == FileIn(<<AlbumQuery>>, "Album", Everything, P[1])
  <2>1. /\ ~AlbumIsSplit /\ Len(P) = 1 => o = inside
        /\ ~AlbumIsSplit /\ Len(P) # 1 => o = Missing(<<AlbumQuery>>)
        /\ AlbumIsSplit => o = behind
    BY <1>3, <1>7, <1>11 DEF Resolved, ResolveAlbum, dates
  <2>2. /\ behind.asks = <<AlbumQuery>> \o dates.asks
        /\ behind.what = dates.what /\ behind.asset = dates.asset
    BY DEF Outcome
  <2>3. inside.asks = <<AlbumQuery>> \o <<Query("files", "Album", Everything)>>
    BY <1>1, <1>8, FileInIsTyped
  <2>4. <<Query("files", "Album", Everything)>> \in Seq(Queries)
    BY <1>1, <1>8, SomeQueries, KnownSingly, "files" \in QueryKinds DEF QueryKinds
  <2>5. Missing(<<AlbumQuery>>).asks = <<AlbumQuery>>
    BY DEF Missing, Outcome
  <2> HIDE DEF behind, inside, o
  <2>6. Known(AlbumQuery)
    <3>1. CASE AlbumIsSplit
      <4>1. AllKnown(<<AlbumQuery>> \o dates.asks)
        BY <1>7, <2>1, <2>2, <3>1
      <4>2. QED
        BY <1>6, <1>9, <4>1 DEF Typed
    <3>2. CASE ~AlbumIsSplit /\ Len(P) = 1
      <4>1. AllKnown(<<AlbumQuery>> \o <<Query("files", "Album", Everything)>>)
        BY <1>7, <2>1, <2>3, <3>2
      <4>2. QED
        BY <1>9, <2>4, <4>1
    <3>3. CASE ~AlbumIsSplit /\ Len(P) # 1
      BY <1>7, <1>8, <2>1, <2>5, <3>3, KnownSingly
    <3>4. QED
      BY <3>1, <3>2, <3>3
  <2>7. Flat(t) <=> ~AlbumIsSplit
    BY <1>11, <2>6, SeenTruly DEF FlatNow
  <2>8. CASE Flat(t)
    <3>1. p = <<>> /\ FileAt(t, Everything, e)
      BY <2>8 DEF Opens
    <3>2. o = FileIn(<<AlbumQuery>>, t, Everything, e.name)
      BY <1>4, <1>11, <2>1, <2>7, <2>8, <3>1 DEF inside
    <3>3. QED
      BY <1>7, <1>8, <3>1, <3>2, FilesAreFound DEF o, P
  <2>9. CASE ~Flat(t)
    <3>1. OpensByDate(t, p, e)
      BY <2>9 DEF Opens
    <3>2. o = behind
      BY <2>1, <2>7, <2>9
    <3>3. AllKnown(dates.asks)
      <4>1. AllKnown(<<AlbumQuery>> \o dates.asks)
        BY <1>7, <2>2, <3>2
      <4>2. QED
        BY <1>6, <1>9, <4>1 DEF Typed
    <3>4. Finds(dates, e)
      BY <1>5, <3>1, <3>3
    <3>5. Finds(o, e)
      BY <2>2, <3>2, <3>4 DEF Finds
    <3>6. QED
      BY <3>5 DEF o, P
  <2>10. QED
    BY <2>8, <2>9
<1>12. CASE t = "View"
  <2>1. /\ used.flat /\ Len(P) = 1 => o = FileIn(<<>>, "View", Everything, P[1])
        /\ ~used.flat => o = dates
    BY <1>3, <1>7, <1>12 DEF Resolved, ResolveView, dates
  <2>2. Flat(t) <=> used.flat
    BY <1>1, <1>12 DEF Flat
  <2> HIDE DEF o
  <2>3. CASE Flat(t)
    <3>1. p = <<>> /\ FileAt(t, Everything, e)
      BY <2>3 DEF Opens
    <3>2. o = FileIn(<<>>, t, Everything, e.name)
      BY <1>4, <1>12, <2>1, <2>2, <2>3, <3>1
    <3>3. QED
      BY <1>7, <1>8, <3>1, <3>2, FilesAreFound DEF o, P
  <2>4. CASE ~Flat(t)
    <3>1. OpensByDate(t, p, e)
      BY <2>4 DEF Opens
    <3>2. o = dates
      BY <2>1, <2>2, <2>4
    <3>3. QED
      BY <1>5, <1>7, <3>1, <3>2 DEF o, P
  <2>5. QED
    BY <2>3, <2>4
<1>13. QED
  BY <1>10, <1>11, <1>12 DEF Trees

-----------------------------------------------------------------------------
(***************************************************************************)
(* Nothing that was there all the time is missing.                         *)
(***************************************************************************)
\* What an answer says of an asset that was in every library.
LEMMA ToldOfAlways ==
    ASSUME IInv, AnswerInv, ~(paged /\ stirred), NEW q, Known(q), ~memo[q].failed,
           NEW a \in always, InSpan(q, a)
    PROVE  /\ q.kind \in Searches \cup {"months", "split", "album"} => a \in Told(q).got
           /\ Told(q).got # {}
           /\ q.kind = "oldest" => \A b \in Told(q).got : Taken[b] <= Taken[a]
           /\ q.kind = "newest" => \A b \in Told(q).got : Taken[a] <= Taken[b]
<1>1. PICK l \in SUBSET ever : always \subseteq l /\ AnsweredFrom(l, q)
  BY DEF AnswerInv, Answered, Known
<1>2. l \in SUBSET Assets /\ a \in Matching(l, q)
  BY <1>1 DEF IInv, LibraryInv, Matching, InSpan
<1>3. Told(q) = memo[q]
  BY DEF Told
<1>4. CASE q.kind \in Searches
  <2>1. Told(q).got = Matching(l, q) /\ q.kind \notin {"oldest", "newest"}
    BY <1>1, <1>3, <1>4 DEF AnsweredFrom, Searches
  <2>2. QED
    BY <1>2, <2>1
<1>5. CASE q.kind \notin Searches
  <2>1. Told(q).got = Said(l, q)
    BY <1>1, <1>3, <1>5 DEF AnsweredFrom
  <2>2. QED
    BY <1>2, <1>5, <2>1, WhatIsSaid
<1>6. QED
  BY <1>4, <1>5

\* The names that cover an asset.
LEMMA CoveredByBucket ==
    ASSUME NEW a, NEW kind \in {"year", "month", "day", "hour"}, NEW numbers,
           Number(kind, Local[a]) \in numbers
    PROVE  \E e \in Buckets(kind, numbers) : Covers(e, a)
<1> DEFINE n == Number(kind, Local[a])
           e == Entry(kind, n, 0)
<1>1. e \in Buckets(kind, numbers)
  BY DEF Buckets
<1>2. e.name = <<kind, n>> /\ e.name[1] = kind /\ e.name[2] = n
  BY DEF Entry
<1>3. Covers(e, a)
  BY <1>2 DEF Covers, IsBucket, InBucket
<1>4. QED
  BY <1>1, <1>3

LEMMA CoveredByFile ==
    ASSUME NEW found, NEW a \in found.got
    PROVE  \E e \in Files(found) : Covers(e, a)
<1>1. \A kind, n : Entry(kind, n, a).name = <<kind, n>> /\ Entry(kind, n, a).asset = a
  BY DEF Entry
<1>2. /\ Covers(Entry("file", DisplayName(a), a), a)
      /\ Covers(Entry("file12", a, a), a)
  BY <1>1 DEF Covers, IsBucket
<1>3. CASE IsFirst(a, found.got)
  <2>1. Entry("file", DisplayName(a), a) \in Files(found)
    BY <1>3 DEF Files, FirstFiles
  <2>2. QED
    BY <1>2, <2>1
<1>4. CASE ~IsFirst(a, found.got)
  <2>1. Entry("file12", a, a) \in Files(found)
    BY <1>4 DEF Files
  <2>2. QED
    BY <1>2, <2>1
<1>5. QED
  BY <1>3, <1>4

\* The span of an hour.
LEMMA HourSpans ==
    ASSUME NEW p \in Paths, HourRange(p) # NoSpan, NEW t \in Nat, Below(p, t)
    PROVE  HourRange(p).from <= t /\ t < HourRange(p).to
<1> DEFINE day == SubSeq(p, 1, 3)
           R == DateRange(day)
<1>1. Len(p) = 4 /\ p[4][1] = "hour" /\ R # NoSpan
  BY DEF HourRange
<1>2. HourRange(p) = Span(R.from + p[4][2], R.from + p[4][2] + 1)
  BY <1>1 DEF HourRange
<1>3. 3 \in Nat /\ 3 <= Len(p) /\ DOMAIN p = {1, 2, 3, 4} /\ 3 \in 1..Len(p)
  <2>1. 3 \in 1..4 /\ 3 <= 4 /\ 1..4 = {1, 2, 3, 4}
    OBVIOUS
  <2>2. QED
    BY <1>1, <2>1, Parts
<1>4. day \in Paths /\ Len(day) = 3 /\ day[3] = p[3]
  BY <1>3, Beginnings
<1> HIDE DEF day
<1>5. IsDay(day)
  <2>1. ~IsYear(day) /\ ~IsMonth(day)
    BY <1>4 DEF IsYear, IsMonth
  <2>2. QED
    BY <1>1, <1>4, <2>1, DateRanges
<1>6. p[3][1] = "day" /\ p[3][2] \in Nat /\ R = Bucket("day", p[3][2])
  BY <1>3, <1>4, <1>5, Parts, DateRanges DEF IsDay
<1>7. R.from = p[3][2] * HoursPerDay
  BY <1>6, BucketSpans DEF Length
<1>8. t % HoursPerDay = p[4][2] /\ t \div HoursPerDay = p[3][2]
  BY <1>1, <1>3, <1>6 DEF Below, InBucket, Number, Length
<1>9. t % HoursPerDay = t - (t \div HoursPerDay) * HoursPerDay
  BY QuotientsAround, ConstantsAssumption
<1> DEFINE start == p[3][2] * HoursPerDay
<1>10. start \in Nat
  BY <1>6, ConstantsAssumption
<1>11. p[4][2] = t - start
  BY <1>8, <1>9
<1> HIDE DEF start
<1>12. start + p[4][2] = t
  BY <1>10, <1>11
<1>13. HourRange(p).from = t /\ HourRange(p).to = t + 1
  BY <1>2, <1>7, <1>12 DEF Span, start
<1>14. QED
  BY <1>13

\* An asset of a folder is under one of the names of its listing.
LEMMA ListingCovers ==
    ASSUME IInv, HistoryInv, AnswerInv, stage # "idle", ~edited, ~(paged /\ stirred),
           NEW t \in Trees, NEW p \in Paths, IsFolderOf(t, p), NEW entries, Form(t, p, entries),
           NEW a \in always, Below(p, Local[a]), InFilter(t, a),
           IF p = <<>> THEN \A b \in ever : Agrees(b) ELSE Agrees(a)
    PROVE  \E e \in entries : Covers(e, a)
<1> DEFINE time == Local[a]
<1>1. /\ used \in Row /\ used = settings /\ a \in Assets /\ a \in ever
      /\ ever \in SUBSET Assets /\ Reading
  <2>1. a \in lib /\ lib \in SUBSET ever /\ ever \in SUBSET Assets
    BY DEF HistoryInv, IInv, LibraryInv
  <2>2. QED
    BY <2>1, ReadingHolds DEF HistoryInv, Reading
<1>2. Taken[a] = time /\ time \in Nat /\ time < Horizon
  <2>1. Agrees(a)
    BY <1>1
  <2>2. Taken[a] < Horizon
    BY <1>1, ConstantsAssumption
  <2>3. QED
    BY <1>1, <2>1, <2>2, AssetsAreTyped DEF Agrees
<1> HIDE DEF time
<1>3. \A kind : \A r \in Spans : r.from <= time /\ time < r.to =>
          InSpan(Query(kind, t, r), a) /\ Query(kind, t, r).kind = kind
  BY <1>1, <1>2, QuerySpans DEF InFilter
<1>4. Everything \in Spans /\ Everything.from <= time /\ time < Everything.to
  BY <1>2, ConstantsAssumption DEF Everything, Span, Spans
<1>5. \A q : Known(q) /\ q.kind # "months" => ~memo[q].failed
  BY DEF AnswerInv, Answered, Known
<1>6. ASSUME NEW r \in Spans, r.from <= time, time < r.to,
             FilesForm(Query("files", t, r), entries)
      PROVE  \E e \in entries : Covers(e, a)
  <2> DEFINE q == Query("files", t, r)
  <2>1. InSpan(q, a) /\ q.kind = "files" /\ Known(q) /\ entries = Files(Told(q))
    BY <1>3, <1>6 DEF FilesForm
  <2> HIDE DEF q
  <2>2. a \in Told(q).got
    BY <1>5, <2>1, ToldOfAlways DEF Searches
  <2>3. QED
    BY <2>1, <2>2, CoveredByFile
<1>7. ASSUME NEW kind \in {"day", "hour"}, NEW r \in Spans, r.from <= time, time < r.to,
             NEW search \in {"days", "hours"}, FoundForm(kind, Query(search, t, r), entries)
      PROVE  \E e \in entries : Covers(e, a)
  <2> DEFINE q == Query(search, t, r)
  <2>1. InSpan(q, a) /\ q.kind = search /\ Known(q) /\ entries = Buckets(kind, NumbersOf(kind, q))
    BY <1>3, <1>7 DEF FoundForm
  <2> HIDE DEF q
  <2>2. a \in Told(q).got
    BY <1>5, <2>1, ToldOfAlways DEF Searches
  <2>3. Number(kind, Local[a]) \in NumbersOf(kind, q)
    BY <2>2 DEF NumbersOf
  <2>4. QED
    BY <2>1, <2>3, CoveredByBucket
<1>8. ASSUME NEW kind \in {"year", "month"}, NEW numbers, HasForm(t, kind, numbers, entries),
             Number(kind, time) \in numbers
      PROVE  \E e \in entries : Covers(e, a)
  <2> DEFINE n == Number(kind, time)
             r == Bucket(kind, n)
             q == Query("has", t, r)
             found == {m \in numbers : Has(t, Bucket(kind, m))}
  <2>1. n \in Nat
    BY <1>2, Numbers
  <2>2. r \in Spans /\ r.from <= time /\ time < r.to
    BY <1>2, <2>1, BucketSpans, NumberOfBucket
  <2>3. InSpan(q, a) /\ q.kind = "has" /\ Known(q) /\ entries = Buckets(kind, found)
    BY <1>3, <1>8, <2>2 DEF HasForm
  <2>4. Told(q).got # {}
    <3> HIDE DEF q
    <3>1. QED
      BY <1>5, <2>3, ToldOfAlways
  <2>5. n \in found
    BY <1>8, <2>4 DEF Has
  <2> HIDE DEF found
  <2>6. QED
    BY <2>3, <2>5, CoveredByBucket DEF time
<1>9. Len(p) \in Nat /\ DOMAIN p = 1..Len(p) /\ \A i \in 1..Len(p) : p[i][2] \in Nat
  BY Parts
<1>10. \A i \in 1..Len(p) : Number(p[i][1], time) = p[i][2]
  BY <1>9 DEF Below, InBucket, time
<1>11. CASE FlatForm(t, p, entries)
  BY <1>4, <1>6, <1>11 DEF FlatForm
<1>12. CASE HourForm(t, p, entries)
  <2>1. HourRange(p).from <= time /\ time < HourRange(p).to /\ HourRange(p) \in Spans
    BY <1>2, <1>12, HourSpans, DatesOfPaths DEF HourForm, time
  <2>2. QED
    BY <1>6, <1>12, <2>1 DEF HourForm
<1>13. CASE DayForm(t, p, entries)
  <2>1. DateRange(p).from <= time /\ time < DateRange(p).to /\ DateRange(p) \in Spans
    <3>1. IsDay(p) /\ 3 \in 1..Len(p)
      BY <1>13 DEF DayForm, IsDay
    <3>2. p[3][2] \in Nat /\ DateRange(p) = Bucket("day", p[3][2]) /\ Number("day", time) = p[3][2]
      BY <1>9, <1>10, <3>1, DateRanges DEF IsDay
    <3>3. QED
      BY <1>2, <3>2, NumberOfBucket, DateRanges
  <2>2. QED
    BY <1>6, <1>7, <1>13, <2>1 DEF DayForm
<1>14. CASE MonthForm(t, p, entries)
  <2>1. DateRange(p).from <= time /\ time < DateRange(p).to /\ DateRange(p) \in Spans
    <3>1. IsMonth(p) /\ 2 \in 1..Len(p)
      BY <1>14 DEF MonthForm, IsMonth
    <3>2. p[2][2] \in Nat /\ DateRange(p) = Bucket("month", p[2][2]) /\ Number("month", time) = p[2][2]
      BY <1>9, <1>10, <3>1, DateRanges DEF IsMonth
    <3>3. QED
      BY <1>2, <3>2, NumberOfBucket, DateRanges
  <2>2. QED
    BY <1>7, <1>14, <2>1 DEF MonthForm
<1>15. IsYear(p) => Number("year", time) = p[1][2] /\ p[1][2] \in Nat /\ p # <<>>
  <2>1. SUFFICES ASSUME IsYear(p)
                 PROVE  Number("year", time) = p[1][2] /\ p[1][2] \in Nat /\ p # <<>>
    OBVIOUS
  <2>2. 1 \in 1..Len(p) /\ Len(p) # 0
    BY <2>1 DEF IsYear
  <2>3. QED
    BY <1>9, <1>10, <2>1, <2>2, Parts DEF IsYear
<1>16. CASE YearForm(t, p, entries)
  <2>1. Number("month", time) \div MonthsPerYear = p[1][2] /\ Number("month", time) \in Nat
    BY <1>2, <1>15, <1>16, NumbersNest DEF YearForm
  <2>2. Number("month", time) \in
            p[1][2] * MonthsPerYear .. (p[1][2] + 1) * MonthsPerYear - 1
    BY <1>15, <1>16, <2>1, MonthsOfYear DEF YearForm
  <2>3. QED
    BY <1>8, <1>16, <2>2 DEF YearForm
<1>17. CASE RootForm(t, p, entries)
  <2>1. \A i \in {1, 2} : /\ Known(Bounds(t)[i]) /\ Told(Bounds(t)[i]).got # {}
                          /\ InSpan(Bounds(t)[i], a)
                          /\ Bounds(t)[i].kind = IF i = 1 THEN "oldest" ELSE "newest"
    <3>1. Bounds(t)[1] = Query("oldest", t, Everything) /\ Bounds(t)[2] = Query("newest", t, Everything)
      BY DEF Bounds
    <3>2. \A i \in {1, 2} : Known(Bounds(t)[i]) /\ Told(Bounds(t)[i]).got # {}
      BY <1>17 DEF RootForm, KnownBounds, Bounded
    <3>3. \A kind : InSpan(Query(kind, t, Everything), a) /\ Query(kind, t, Everything).kind = kind
      BY <1>3, <1>4
    <3>4. QED
      BY <3>1, <3>2, <3>3
  <2>2. \A i \in {1, 2} : \E b \in Told(Bounds(t)[i]).got :
            YearOf(t, i) = Number("year", Local[b])
    BY <2>1 DEF YearOf
  <2>3. \A b \in ever : Taken[b] = Local[b] /\ Local[b] \in Nat
    <3>1. \A b \in ever : Agrees(b)
      BY <1>17 DEF RootForm
    <3>2. QED
      BY <1>1, <3>1, AssetsAreTyped DEF Agrees
  <2>4. \A i \in {1, 2} : Told(Bounds(t)[i]).got \subseteq ever
    BY <1>1, ToldIsSeen
  <2>5. \A u \in Nat, v \in Nat : u <= v => Number("year", u) <= Number("year", v)
    BY QuotientsGrow, Lengths DEF Number
  <2>6. YearOf(t, 1) <= Number("year", time)
    <3>1. PICK b \in Told(Bounds(t)[1]).got : YearOf(t, 1) = Number("year", Local[b])
      BY <2>2
    <3>2. Taken[b] <= Taken[a]
      BY <1>5, <2>1, ToldOfAlways
    <3>3. QED
      BY <1>2, <2>3, <2>4, <2>5, <3>1, <3>2
  <2>7. Number("year", time) <= YearOf(t, 2)
    <3>1. PICK b \in Told(Bounds(t)[2]).got : YearOf(t, 2) = Number("year", Local[b])
      BY <2>2
    <3>2. Taken[a] <= Taken[b]
      BY <1>5, <2>1, ToldOfAlways
    <3>3. QED
      BY <1>2, <2>3, <2>4, <2>5, <3>1, <3>2
  <2>8. YearOf(t, 1) \in Nat /\ YearOf(t, 2) \in Nat /\ Number("year", time) \in Nat
    BY <1>1, <1>2, <1>17, YearsAreTyped, Numbers DEF RootForm
  <2>9. Number("year", time) \in YearOf(t, 1)..YearOf(t, 2)
    BY <2>6, <2>7, <2>8
  <2>10. QED
    BY <1>8, <1>17, <2>9 DEF RootForm
<1>18. CASE IndexForm(t, p, entries)
  <2> DEFINE q == IndexQuery
  <2>1. InSpan(q, a) /\ q.kind = "months" /\ Known(q) /\ ~memo[q].failed
    BY <1>3, <1>4, <1>18 DEF IndexForm, IndexQuery, Told
  <2> HIDE DEF q
  <2>2. a \in Told(q).got
    BY <2>1, ToldOfAlways
  <2>3. CASE p = <<>>
    <3>1. entries = Buckets("year", NumbersOf("year", q))
      BY <1>18, <2>3 DEF IndexForm, Indexed, Found, Reply, NumbersOf, q
    <3>2. Number("year", Local[a]) \in NumbersOf("year", q)
      BY <2>2 DEF NumbersOf
    <3>3. QED
      BY <3>1, <3>2, CoveredByBucket
  <2>4. CASE IsYear(p)
    <3> DEFINE inYear == {b \in Told(q).got : Number("year", Local[b]) = p[1][2]}
               months == {Number("month", Local[b]) : b \in inYear}
    <3>1. entries = Buckets("month", months)
      BY <1>15, <1>18, <2>4 DEF IndexForm, Indexed, Reply, q
    <3>2. Number("month", Local[a]) \in months
      BY <1>15, <2>2, <2>4 DEF time
    <3> HIDE DEF months
    <3>3. QED
      BY <3>1, <3>2, CoveredByBucket
  <2>5. QED
    BY <1>18, <2>3, <2>4 DEF IndexForm
<1>19. CASE EmptyForm(t, entries)
  <2>1. PICK i \in {1, 2} : Told(Bounds(t)[i]).got = {}
    BY <1>19 DEF EmptyForm, Bounded
  <2>2. Known(Bounds(t)[i])
    BY <1>19 DEF EmptyForm, KnownBounds
  <2>3. Bounds(t)[i] = Query(IF i = 1 THEN "oldest" ELSE "newest", t, Everything)
    BY DEF Bounds
  <2>4. InSpan(Bounds(t)[i], a) /\ Bounds(t)[i].kind # "months"
    BY <1>3, <1>4, <2>3
  <2>5. QED
    BY <1>5, <2>1, <2>2, <2>4, ToldOfAlways
<1>20. QED
  BY <1>11, <1>12, <1>13, <1>14, <1>16, <1>17, <1>18, <1>19 DEF Form

-----------------------------------------------------------------------------
(***************************************************************************)
(* What a request asks depends on its path, its memory and its settings.   *)
(***************************************************************************)
LEMMA SameAnswers ==
    ASSUME memo' = memo, used' = used
    PROVE  /\ \A q : (Known(q)' <=> Known(q)) /\ Told(q)' = Told(q)
           /\ \A kind, t, r : Query(kind, t, r)' = Query(kind, t, r)
           /\ \A t, r : SplitQuery(t, r)' = SplitQuery(t, r) /\ (IsSplit(t, r)' <=> IsSplit(t, r))
           /\ \A t, r : Has(t, r)' <=> Has(t, r)
           /\ \A t : Bounds(t)' = Bounds(t) /\ (Bounded(t)' <=> Bounded(t))
           /\ AlbumQuery' = AlbumQuery /\ (AlbumIsSplit' <=> AlbumIsSplit)
           /\ IndexQuery' = IndexQuery
<1>1. \A q : (Known(q)' <=> Known(q)) /\ Told(q)' = Told(q)
  BY DEF Told, Known
<1>2. \A kind, t, r : Query(kind, t, r)' = Query(kind, t, r)
  BY DEF Query
<1>3. \A t, r : SplitQuery(t, r)' = SplitQuery(t, r)
  BY <1>2 DEF SplitQuery
<1>4. \A t, r : IsSplit(t, r)' <=> IsSplit(t, r)
  BY <1>1, <1>3 DEF IsSplit
<1>5. \A t, r : Has(t, r)' <=> Has(t, r)
  BY <1>1, <1>2 DEF Has
<1>6. \A t : Bounds(t)' = Bounds(t)
  BY <1>2 DEF Bounds
<1>7. \A t : Bounded(t)' <=> Bounded(t)
  BY <1>1, <1>6 DEF Bounded
<1>8. AlbumQuery' = AlbumQuery /\ IndexQuery' = IndexQuery
  BY <1>2 DEF AlbumQuery, IndexQuery
<1>9. AlbumIsSplit' <=> AlbumIsSplit
  BY <1>1, <1>8 DEF AlbumIsSplit
<1>10. QED
  BY <1>1, <1>2, <1>3, <1>4, <1>5, <1>6, <1>7, <1>8, <1>9

LEMMA SameListing ==
    ASSUME memo' = memo, used' = used
    PROVE  /\ \A t, p : Listing(t, p)' = Listing(t, p)
           /\ \A t, r : FilesIn(t, r)' = FilesIn(t, r)
<1>1. \A q : FilesOf(q)' = FilesOf(q) /\ \A kind : Found(kind, q)' = Found(kind, q)
  BY SameAnswers DEF FilesOf, Found
<1>2. \A t, r : FilesIn(t, r)' = FilesIn(t, r) /\ Hours(t, r)' = Hours(t, r)
  BY <1>1, SameAnswers DEF FilesIn, Hours
<1>3. \A t, p : Days(t, p)' = Days(t, p)
  BY <1>1, SameAnswers DEF Days
<1>4. \A t, i : YearOf(t, i)' = YearOf(t, i)
  BY SameAnswers DEF YearOf
<1>5. \A t, kind, first, last : Sweep(t, kind, first, last)' = Sweep(t, kind, first, last)
  BY SameAnswers DEF Sweep
<1>6. \A t, p : Swept(t, p)' = Swept(t, p)
  BY <1>4, <1>5 DEF Swept
<1>7. \A p : Indexed(p)' = Indexed(p)
  BY <1>1, SameAnswers DEF Indexed
<1>8. \A p : TimelineBuckets(p)' = TimelineBuckets(p)
  BY <1>3, <1>6, <1>7, SameAnswers DEF TimelineBuckets
<1>9. \A p : AlbumBuckets(p)' = AlbumBuckets(p)
  BY <1>3, <1>6, SameAnswers DEF AlbumBuckets
<1>10. \A p : ViewBuckets(p)' = ViewBuckets(p)
  BY <1>3, <1>6, SameAnswers DEF ViewBuckets
<1>11. \A t, r : DayFolder(t, r)' = DayFolder(t, r)
  BY <1>2, SameAnswers DEF DayFolder
<1>12. \A p : DateFolder(p)' = DateFolder(p)
  BY <1>2, <1>8, <1>11 DEF DateFolder, HourFolder
<1>13. \A p : AlbumFolder(p)' = AlbumFolder(p) /\ AlbumDateFolder(p)' = AlbumDateFolder(p)
  BY <1>2, <1>9, <1>11, SameAnswers DEF AlbumFolder, AlbumDateFolder, AlbumHourFolder
<1>14. \A p : ViewFolder(p)' = ViewFolder(p) /\ ViewDateFolder(p)' = ViewDateFolder(p)
  BY <1>2, <1>10, <1>11 DEF ViewFolder, ViewDateFolder, ViewHourFolder
<1>15. \A t, p : Listing(t, p)' = Listing(t, p)
  BY <1>12, <1>13, <1>14 DEF Listing
<1>16. QED
  BY <1>2, <1>15

LEMMA SameResolution ==
    ASSUME memo' = memo, used' = used
    PROVE  \A t \in Trees : \A p : Resolved(t, p)' = Resolved(t, p)
<1>1. \A asks, t, r, name : FileIn(asks, t, r, name)' = FileIn(asks, t, r, name)
  BY SameListing DEF FileIn
<1>2. \A t, p, r, hour : HourPath(t, p, r, hour)' = HourPath(t, p, r, hour)
  <2>1. ASSUME NEW t, NEW p, NEW r, NEW hour
        PROVE  HourPath(t, p, r, hour)' = HourPath(t, p, r, hour)
    <3>1. /\ Known(SplitQuery(t, r))' <=> Known(SplitQuery(t, r))
          /\ IsSplit(t, r)' = IsSplit(t, r)
          /\ Query("has", t, r)' = Query("has", t, r)
          /\ SplitQuery(t, r)' = SplitQuery(t, r)
      <4>1. SplitQuery(t, r)' = SplitQuery(t, r) /\ Query("has", t, r)' = Query("has", t, r)
        BY SameAnswers
      <4>2. Known(SplitQuery(t, r))' <=> Known(SplitQuery(t, r))
        BY <4>1 DEF Known
      <4>3. IsSplit(t, r)' \in BOOLEAN /\ IsSplit(t, r) \in BOOLEAN
        BY DEF IsSplit
      <4>4. QED
        BY <4>1, <4>2, <4>3, SameAnswers
    <3>2. QED
      BY <1>1, <3>1 DEF HourPath
  <2>2. QED
    BY <2>1
<1>3. \A t, p, r, hour : DatePath(t, p, r, hour)' = DatePath(t, p, r, hour)
  BY <1>1, <1>2, SameAnswers DEF DatePath
<1>4. \A t, p : ResolveDates(t, p)' = ResolveDates(t, p)
  BY <1>3 DEF ResolveDates
<1>5. \A p : ResolveTimeline(p)' = ResolveTimeline(p)
  BY <1>4 DEF ResolveTimeline
<1>6. \A p : ResolveAlbum(p)' = ResolveAlbum(p)
  BY <1>1, <1>4, SameAnswers DEF ResolveAlbum
<1>7. \A p : ResolveView(p)' = ResolveView(p)
  BY <1>1, <1>4 DEF ResolveView
<1>8. ASSUME NEW t \in Trees, NEW p PROVE Resolved(t, p)' = Resolved(t, p)
  <2>1. t \notin used'.trees <=> t \notin used.trees
    OBVIOUS
  <2>2. CASE t = "Timeline"
    BY <1>5, <2>1, <2>2 DEF Resolved
  <2>3. CASE t = "Album"
    BY <1>6, <2>1, <2>3 DEF Resolved
  <2>4. CASE t = "View"
    BY <1>7, <2>1, <2>4 DEF Resolved
  <2>5. QED
    BY <2>2, <2>3, <2>4 DEF Trees
<1>9. QED
  BY <1>8

\* The question stays until it is answered.
LEMMA SameQuestion ==
    ASSUME tree \in Trees, UNCHANGED <<stage, tree, path, used, memo>>
    PROVE  Question' = Question
<1>1. \A t \in Trees : \A p : Resolved(t, p)' = Resolved(t, p) /\ Listing(t, p)' = Listing(t, p)
  BY SameListing, SameResolution
<1>2. QED
  BY <1>1 DEF Question, Plan, FirstUnknown, Known

\* There is one question at a time, until all have an answer.
LEMMA TheQuestion ==
    ASSUME IInv
    PROVE  /\ \A q, r \in Question : q = r
           /\ \A q \in Question : q \in Queries /\ ~Known(q) /\ stage # "idle"
           /\ stage = "resolving" => (Question = {} <=> AllKnown(Resolved(tree, path).asks))
           /\ stage \in {"listing", "members"} =>
                 (Question = {} <=> AllKnown(Listing(tree, path).asks))
<1> DEFINE plan == Plan(Resolved(tree, path), Listing(tree, path))
<1>1. /\ stage = "resolving" => plan = Resolved(tree, path).asks
      /\ stage \in {"listing", "members"} => plan = Listing(tree, path).asks
      /\ stage \notin {"resolving", "listing", "members"} => plan = <<>>
  <2>1. {"listing", "members"} \cap {"resolving"} = {}
    OBVIOUS
  <2>2. QED
    BY <2>1 DEF Plan
<1>2. Typed(Resolved(tree, path)) /\ Typed(Listing(tree, path))
  BY ReadingHolds, ResolvedIsTyped, ListingIsTyped DEF IInv, RequestInv
<1>3. plan \in Seq(Queries)
  <2>1. <<>> \in Seq(Queries)
    OBVIOUS
  <2> HIDE DEF plan
  <2>2. QED
    BY <1>1, <1>2, <2>1 DEF Typed
<1>4. Question = FirstUnknown(plan)
  BY DEF Question
<1> HIDE DEF plan
<1>5. QED
  BY <1>1, <1>3, <1>4, OneQuestion, QuestionsAreOfRequests

-----------------------------------------------------------------------------
(***************************************************************************)
(* What keeps each part of the invariant.                                  *)
(***************************************************************************)
\* Whether an entry opens is a matter of the library and the settings.
LEMMA SameOpens ==
    ASSUME lib' = lib, settings' = settings
    PROVE  \A t, p, e : Opens(t, p, e)' <=> Opens(t, p, e)
<1>1. \A kind, t, r : Asked(kind, t, r)' = Asked(kind, t, r)
  BY DEF Asked
<1>2. AlbumQuery' = AlbumQuery
  BY DEF AlbumQuery, Query
<1>3. \A t, r : (Inhabited(t, r)' <=> Inhabited(t, r)) /\ (Large(t, r)' <=> Large(t, r))
  BY <1>1 DEF Inhabited, Large
<1>4. \A t, r, e : FileAt(t, r, e)' <=> FileAt(t, r, e)
  BY <1>1 DEF FileAt
<1>5. \A t, p, e : OpensByDate(t, p, e)' <=> OpensByDate(t, p, e)
  BY <1>3, <1>4 DEF OpensByDate
<1>6. Cardinality(Matching(lib, AlbumQuery))' = Cardinality(Matching(lib, AlbumQuery))
  BY <1>2
<1>7. \A t : Flat(t)' <=> Flat(t)
  <2>1. (settings.flat)' = settings.flat /\ (settings.albumSplit)' = settings.albumSplit
    OBVIOUS
  <2>2. QED
    BY <1>6, <2>1, Zenon DEF Flat
<1>8. QED
  BY <1>4, <1>5, <1>7 DEF Opens

LEMMA OpenKept ==
    ASSUME OpenInv, UNCHANGED <<lib, settings, seen, target, fresh>>,
           stage' = "idle" \/ (stage # "idle" /\ UNCHANGED <<tree, path>>)
    PROVE  OpenInv'
<1>1. \A t, p, e : Opens(t, p, e)' <=> Opens(t, p, e)
  BY SameOpens
<1>2. SUFFICES ASSUME fresh
      PROVE  /\ (\A a \in lib : Agrees(a)) =>
                    \A e \in seen.entries : Opens(seen.tree, seen.path, e)'
             /\ stage' # "idle" /\ target # None =>
                    /\ target \in seen.entries /\ tree' = seen.tree
                    /\ path' = Append(seen.path, target.name)
  BY DEF OpenInv, Agrees
<1>3. QED
  BY <1>1, <1>2 DEF OpenInv

\* A step of a request that goes on leaves its history as it is.
LEMMA HistoryKept ==
    ASSUME HistoryInv, stage # "idle", stage' # "idle",
           UNCHANGED <<lib, past, settings, always, ever, stirred, edited, fresh>>,
           ~edited => used' = used
    PROVE  HistoryInv'
BY DEF HistoryInv

LEMMA AnswersKept ==
    ASSUME AnswerInv, memo' = memo, always' \subseteq always, ever \subseteq ever',
           ~stirred' => ~stirred /\ lib' = lib,
           paged /\ stirred => paged' /\ stirred'
    PROVE  AnswerInv'
<1>1. ASSUME NEW q \in DOMAIN memo PROVE Answered(q)'
  <2>1. Answered(q)
    BY <1>1 DEF AnswerInv
  <2>2. \A l : AnsweredFrom(l, q) => AnsweredFrom(l, q)'
    BY DEF AnsweredFrom
  <2>3. QED
    BY <2>1, <2>2 DEF Answered
<1>2. QED
  BY <1>1 DEF AnswerInv

LEMMA AnswersGrow ==
    ASSUME AnswerInv, NEW q, NEW assets, NEW again, NEW failed,
           Remember(q, assets, again, failed),
           UNCHANGED <<lib, always, ever, stirred, paged>>,
           \A a \in assets : InSpan(q, a), failed => q.kind = "months",
           ~failed => \E l \in SUBSET ever :
              /\ always \subseteq l /\ (~stirred => l = lib)
              /\ IF q.kind \in Searches
                 THEN (paged /\ stirred) \/ (assets = Matching(l, q) /\ again = {})
                 ELSE assets = Said(l, q)
    PROVE  AnswerInv'
<1>1. ASSUME NEW x \in DOMAIN memo, x # q PROVE Answered(x)'
  <2>1. Answered(x) /\ memo'[x] = memo[x]
    BY <1>1 DEF AnswerInv, Remember
  <2>2. \A l : AnsweredFrom(l, x) => AnsweredFrom(l, x)'
    BY <2>1 DEF AnsweredFrom
  <2>3. QED
    BY <2>1, <2>2 DEF Answered
<1>2. Answered(q)'
  <2>1. memo'[q] = [got |-> assets, twice |-> again, failed |-> failed]
    BY DEF Remember
  <2>2. memo'[q].got = assets /\ memo'[q].twice = again /\ memo'[q].failed = failed
    BY <2>1
  <2>3. \A l : AnsweredFrom(l, q)' <=>
                  IF q.kind \in Searches
                  THEN (paged /\ stirred) \/ (assets = Matching(l, q) /\ again = {})
                  ELSE assets = Said(l, q)
    BY <2>2 DEF AnsweredFrom
  <2>4. QED
    BY <2>2, <2>3 DEF Answered
<1>3. \A x \in DOMAIN memo' : x \in DOMAIN memo \/ x = q
  BY DEF Remember
<1>4. QED
  BY <1>1, <1>2, <1>3 DEF AnswerInv

LEMMA SearchKept ==
    ASSUME SearchInv, tree \in Trees,
           UNCHANGED <<stage, tree, path, used, memo, got, twice, page, paged>>,
           ~stirred' => ~stirred /\ lib' = lib
    PROVE  SearchInv'
<1>1. Question' = Question
  BY SameQuestion
<1>2. QED
  BY <1>1 DEF SearchInv

\* Only a search has read pages.
LEMMA NoSearch ==
    ASSUME IInv, SearchInv, \A q \in Question : q.kind \notin Searches
    PROVE  page = 1 /\ got = {}
BY DEF SearchInv

\* What has been answered stays so, and so does the kind of a folder.
LEMMA FolderStays ==
    ASSUME NEW t, NEW p, IsFolderOf(t, p), used' = used,
           \A q \in DOMAIN memo : q \in DOMAIN memo' /\ memo'[q] = memo[q]
    PROVE  IsFolderOf(t, p)'
<1>1. \A kind, r : Query(kind, t, r)' = Query(kind, t, r)
  BY DEF Query
<1>2. AlbumQuery' = AlbumQuery /\ \A r : SplitQuery(t, r)' = SplitQuery(t, r)
  BY <1>1 DEF AlbumQuery, SplitQuery, Query
<1>3. \A q : Known(q) => Known(q)' /\ Told(q)' = Told(q)
  BY DEF Known, Told
<1>4. \A r : Has(t, r) => Has(t, r)'
  <2>1. ASSUME NEW r, Has(t, r) PROVE Has(t, r)'
    <3>1. Known(Query("has", t, r))
      BY <2>1 DEF Has, Told, Nothing
    <3>2. QED
      BY <1>1, <1>3, <2>1, <3>1 DEF Has
  <2>2. QED
    BY <2>1
<1>5. \A r : Known(SplitQuery(t, r)) /\ IsSplit(t, r) =>
                Known(SplitQuery(t, r))' /\ IsSplit(t, r)'
  <2>1. ASSUME NEW r, Known(SplitQuery(t, r)) PROVE Told(SplitQuery(t, r))' = Told(SplitQuery(t, r))
    BY <1>2, <1>3, <2>1
  <2>2. \A r : Known(SplitQuery(t, r)) => Known(SplitQuery(t, r))'
    BY <1>2, <1>3 DEF Known
  <2>3. QED
    BY <2>1, <2>2 DEF IsSplit
<1>6. Known(AlbumQuery) => Known(AlbumQuery)' /\ (AlbumIsSplit => AlbumIsSplit')
  BY <1>2, <1>3 DEF AlbumIsSplit, Known
<1>7. QED
  BY <1>4, <1>5, <1>6 DEF IsFolderOf

-----------------------------------------------------------------------------
(***************************************************************************)
(* Every step keeps the invariant (...KeepsIt of LInv, as ...Keeps of IInv)*)
(***************************************************************************)
LEMMA BeginKeeps ==
    ASSUME LInv, IInv', NEW t, NEW p, NEW e, Start(t, p, e),
           e # None => e \in seen.entries /\ t = seen.tree /\ p = Append(seen.path, e.name)
    PROVE  LInv'
<1>1. /\ stage = "idle" /\ stage' = "resolving" /\ tree' = t /\ path' = p /\ target' = e
      /\ used' = settings /\ memo' = <<>> /\ got' = {} /\ twice' = {} /\ page' = 1
      /\ answer' = "none"
      /\ always' = {a \in lib : \A l \in past : a \in l}
      /\ ever' = lib \cup UNION past
      /\ stirred' = (past # {}) /\ edited' = FALSE /\ paged' = FALSE
      /\ UNCHANGED <<lib, past, settings, seen, fresh>>
  BY DEF Start, world
<1>2. HistoryInv'
  <2>1. \A l \in past \cup {lib} : always' \subseteq l
    BY <1>1
  <2>2. past = {} => ever' = lib
    BY <1>1
  <2>3. HistoryInv
    BY DEF LInv
  <2>4. QED
    BY <1>1, <2>1, <2>2, <2>3 DEF HistoryInv
<1>3. AnswerInv'
  BY <1>1 DEF AnswerInv
<1>4. SearchInv' /\ FolderInv' /\ NamesInv'
  BY <1>1 DEF SearchInv, FolderInv, NamesInv
<1>5. OpenInv'
  <2>1. \A u, r, x : Opens(u, r, x)' <=> Opens(u, r, x)
    BY <1>1, SameOpens
  <2>2. OpenInv
    BY DEF LInv
  <2>3. SUFFICES ASSUME fresh
        PROVE  /\ (\A a \in lib : Agrees(a)) =>
                      \A x \in seen.entries : Opens(seen.tree, seen.path, x)'
               /\ e # None =>
                      e \in seen.entries /\ t = seen.tree /\ p = Append(seen.path, e.name)
    BY <1>1 DEF OpenInv, Agrees
  <2>4. (\A a \in lib : Agrees(a)) => \A x \in seen.entries : Opens(seen.tree, seen.path, x)
    BY <2>2, <2>3 DEF OpenInv
  <2>5. QED
    BY <1>1, <2>1, <2>4
<1>6. EveryNameHasItsMember' /\ ListedOpens'
  BY <1>1 DEF EveryNameHasItsMember, ListedOpens
<1>7. QED
  BY <1>2, <1>3, <1>4, <1>5, <1>6 DEF LInv

LEMMA BeginAtRootKeeps ==
    ASSUME LInv, NEW t \in Trees, StartAtRoot(t)
    PROVE  LInv'
<1>1. IInv'
  BY StartAtRootKeeps DEF LInv
<1>2. QED
  BY <1>1, BeginKeeps DEF StartAtRoot

LEMMA BeginByOpeningKeeps ==
    ASSUME LInv, NEW e \in seen.entries, Open(e)
    PROVE  LInv'
<1>1. IInv'
  BY OpenKeeps DEF LInv
<1>2. QED
  BY <1>1, BeginKeeps DEF Open

\* What a request holds of its folder and its names, while neither its memory
\* nor its settings change.
LEMMA FolderKept ==
    ASSUME LInv, UNCHANGED <<stage, tree, path, used, memo, names>>, ~edited' => ~edited
    PROVE  FolderInv' /\ NamesInv'
<1>1. tree \in Trees
  BY DEF LInv, IInv, RequestInv
<1>2. IsFolderOf(tree, path) => IsFolderOf(tree, path)'
  <2>1. \A q \in DOMAIN memo : q \in DOMAIN memo' /\ memo'[q] = memo[q]
    OBVIOUS
  <2>2. ASSUME IsFolderOf(tree, path) PROVE IsFolderOf(tree, path)'
    <3>1. \A t, p : IsFolderOf(t, p) => IsFolderOf(t, p)'
      BY <2>1, FolderStays
    <3>2. QED
      BY <2>2, <3>1
  <2>3. QED
    BY <2>2
<1>3. Question' = Question
  BY <1>1, SameQuestion
<1>4. Listing(tree, path)' = Listing(tree, path)
  BY SameListing
<1>5. FolderInv /\ NamesInv
  BY DEF LInv
<1>6. QED
  BY <1>2, <1>3, <1>4, <1>5 DEF FolderInv, NamesInv

LEMMA ChangeKeepsIt ==
    ASSUME LInv, NEW a \in Assets, Change(a)
    PROVE  LInv'
<1>1. /\ past' = past \cup {lib} /\ always' = always \cap lib'
      /\ ever' = (IF stage = "idle" THEN ever ELSE ever \cup lib')
      /\ stirred' = (stage # "idle") /\ fresh' = FALSE
      /\ UNCHANGED <<settings, stage, tree, path, used, memo, got, twice, page, paged, names,
                     left, answer, file, seen, target, edited>>
  BY DEF Change, asked
<1>2. IInv' /\ tree \in Trees
  BY ChangeKeeps DEF LInv, IInv, RequestInv
<1>3. HistoryInv'
  BY <1>1 DEF LInv, HistoryInv
<1>4. AnswerInv' /\ SearchInv'
  <2>1. CASE stage = "idle"
    BY <1>1, <2>1 DEF LInv, HistoryInv, AnswerInv, SearchInv
  <2>2. CASE stage # "idle"
    <3>1. always' \subseteq always /\ ever \subseteq ever' /\ stirred'
      BY <1>1, <2>2
    <3>2. AnswerInv /\ SearchInv
      BY DEF LInv
    <3>3. AnswerInv'
      BY <1>1, <3>1, <3>2, AnswersKept
    <3>4. SearchInv'
      BY <1>1, <1>2, <3>1, <3>2, SearchKept
    <3>5. QED
      BY <3>3, <3>4
  <2>3. QED
    BY <2>1, <2>2
<1>5. FolderInv' /\ NamesInv'
  BY <1>1, FolderKept
<1>6. OpenInv' /\ ListedOpens'
  BY <1>1 DEF OpenInv, ListedOpens
<1>7. EveryNameHasItsMember'
  <2>1. EveryNameHasItsMember /\ (stage # "idle" => answer = "none")
    BY DEF LInv, IInv, RequestInv
  <2>2. QED
    BY <1>1, <2>1 DEF EveryNameHasItsMember, Agrees
<1>8. QED
  BY <1>2, <1>3, <1>4, <1>5, <1>6, <1>7 DEF LInv

LEMMA ExpireKeepsIt ==
    ASSUME LInv, past' \subseteq past,
           UNCHANGED <<lib, settings, stage, tree, path, used, memo, got, twice, page, paged,
                       names, answer, file, seen, target, always, ever, stirred, edited,
                       fresh>>
    PROVE  HistoryInv' /\ AnswerInv' /\ SearchInv' /\ FolderInv' /\ NamesInv' /\ OpenInv'
           /\ EveryNameHasItsMember' /\ ListedOpens'
<1>1. HistoryInv /\ AnswerInv /\ SearchInv /\ OpenInv /\ tree \in Trees
  BY DEF LInv, IInv, RequestInv
<1>2. HistoryInv'
  BY <1>1 DEF HistoryInv
<1>3. AnswerInv'
  BY <1>1, AnswersKept
<1>4. SearchInv'
  BY <1>1, SearchKept
<1>5. FolderInv' /\ NamesInv'
  BY FolderKept
<1>6. OpenInv'
  BY <1>1, OpenKept
<1>7. EveryNameHasItsMember' /\ ListedOpens'
  BY DEF LInv, EveryNameHasItsMember, ListedOpens, Agrees
<1>8. QED
  BY <1>2, <1>3, <1>4, <1>5, <1>6, <1>7

LEMMA EditKeepsIt ==
    ASSUME LInv, NEW s \in Settings, Edit(s)
    PROVE  LInv'
<1>1. /\ edited' = (edited \/ stage # "idle") /\ fresh' = FALSE
      /\ UNCHANGED <<lib, past, stage, tree, path, used, memo, got, twice, page, paged, names,
                     left, answer, file, seen, target, always, ever, stirred>>
  BY DEF Edit, asked
<1>2. IInv' /\ tree \in Trees
  BY EditKeeps DEF LInv, IInv, RequestInv
<1>3. HistoryInv'
  BY <1>1 DEF LInv, HistoryInv
<1>4. AnswerInv' /\ SearchInv'
  <2>1. AnswerInv /\ SearchInv
    BY DEF LInv
  <2>2. AnswerInv'
    BY <1>1, <2>1, AnswersKept
  <2>3. SearchInv'
    BY <1>1, <1>2, <2>1, SearchKept
  <2>4. QED
    BY <2>2, <2>3
<1>5. FolderInv' /\ NamesInv'
  BY <1>1, FolderKept
<1>6. OpenInv' /\ ListedOpens'
  BY <1>1 DEF OpenInv, ListedOpens
<1>7. EveryNameHasItsMember'
  BY <1>1 DEF LInv, EveryNameHasItsMember, Agrees
<1>8. QED
  BY <1>2, <1>3, <1>4, <1>5, <1>6, <1>7 DEF LInv

\* Settings that have not been changed are read as they were.
LEMMA ReadAsBefore ==
    ASSUME IInv, HistoryInv, stage # "idle", ~edited
    PROVE  ReadAnew = used
<1>1. used = settings
  BY DEF HistoryInv
<1>2. used \in Row
  BY DEF IInv, RequestInv
<1>3. \A r \in Row : [r EXCEPT !.daySplit = r.daySplit] = r
  BY DEF Row
<1>4. QED
  BY <1>1, <1>2, <1>3 DEF ReadAnew

\* An answer is given.
LEMMA AnswerKeeps ==
    ASSUME LInv, IInv', NEW q \in Question, NEW assets, NEW again, NEW failed,
           Remember(q, assets, again, failed), page' = 1, got' = {},
           ~edited => used' = used, AnswerInv',
           UNCHANGED <<lib, past, settings, stage, tree, path, paged, names, answer, file, seen,
                       target, always, ever, stirred, edited, fresh>>
    PROVE  LInv'
<1>1. /\ IInv /\ HistoryInv /\ FolderInv /\ NamesInv /\ OpenInv
      /\ EveryNameHasItsMember /\ ListedOpens
  BY DEF LInv
<1>2. ~Known(q) /\ stage # "idle"
  BY <1>1, TheQuestion
<1>3. HistoryInv'
  BY <1>1, <1>2, HistoryKept
<1>4. SearchInv'
  BY DEF SearchInv
<1>5. FolderInv'
  <2>1. \A x \in DOMAIN memo : x \in DOMAIN memo' /\ memo'[x] = memo[x]
    BY <1>2 DEF Remember, Known
  <2>2. ASSUME ~edited, IsFolderOf(tree, path) PROVE IsFolderOf(tree, path)'
    <3>1. used' = used
      BY <2>2
    <3>2. \A t, p : IsFolderOf(t, p) => IsFolderOf(t, p)'
      BY <2>1, <3>1, FolderStays
    <3>3. QED
      BY <2>2, <3>2
  <2>3. QED
    BY <1>1, <2>2 DEF FolderInv
<1>6. NamesInv'
  BY <1>1 DEF NamesInv
<1>7. OpenInv'
  BY <1>1, <1>2, OpenKept
<1>8. EveryNameHasItsMember' /\ ListedOpens'
  BY <1>1 DEF EveryNameHasItsMember, ListedOpens, Agrees
<1>9. QED
  BY <1>3, <1>4, <1>5, <1>6, <1>7, <1>8 DEF LInv

\* What a request may be told of: a library that has always what was in all,
\* and is the one there is if nothing has changed.
LEMMA ToldOfLibrary ==
    ASSUME IInv, HistoryInv, stage # "idle", NEW l \in past \cup {lib}
    PROVE  /\ l \in SUBSET ever /\ l \in SUBSET Assets
           /\ always \subseteq l /\ (~stirred => l = lib)
BY DEF IInv, LibraryInv, HistoryInv

LEMMA AskKeepsIt ==
    ASSUME LInv, NEW q \in Question, NEW l \in past \cup {lib}, Ask(q, l)
    PROVE  LInv'
<1>1. IInv /\ HistoryInv /\ AnswerInv /\ SearchInv
  BY DEF LInv
<1>2. stage # "idle" /\ \A r \in Question : r = q
  BY <1>1, TheQuestion
<1>3. IInv'
  BY <1>1, <1>2, AskKeeps
<1>4. /\ q.kind \notin Searches /\ Remember(q, Said(l, q), {}, FALSE)
      /\ used' = (IF q.kind = "album" THEN ReadAnew ELSE used)
      /\ UNCHANGED <<lib, past, settings, stage, tree, path, got, page, paged, names, answer,
                     file, seen, target, always, ever, stirred, edited, fresh>>
  BY DEF Ask, world
<1>5. page' = 1 /\ got' = {}
  BY <1>1, <1>2, <1>4, NoSearch
<1>6. ~edited => used' = used
  BY <1>1, <1>2, <1>4, ReadAsBefore
<1>7. AnswerInv'
  <2>1. \A a \in Said(l, q) : InSpan(q, a)
    BY <1>1, <1>2, SaidIsSeen DEF Matching, InSpan
  <2>2. l \in SUBSET ever /\ always \subseteq l /\ (~stirred => l = lib)
    BY <1>1, <1>2, ToldOfLibrary
  <2>3. \E k \in SUBSET ever :
           /\ always \subseteq k /\ (~stirred => k = lib)
           /\ IF q.kind \in Searches
              THEN (paged /\ stirred) \/ (Said(l, q) = Matching(k, q) /\ {} = {})
              ELSE Said(l, q) = Said(k, q)
    BY <1>4, <2>2
  <2>4. QED
    BY <1>1, <1>4, <2>1, <2>3, AnswersGrow
<1>8. QED
  BY <1>3, <1>4, <1>5, <1>6, <1>7, AnswerKeeps

LEMMA IndexFailsKeepsIt ==
    ASSUME LInv, NEW q \in Question, IndexFails(q)
    PROVE  LInv'
<1>1. IInv /\ HistoryInv /\ AnswerInv /\ SearchInv
  BY DEF LInv
<1>2. \A r \in Question : r = q
  BY <1>1, TheQuestion
<1>3. IInv'
  BY <1>1, IndexFailsKeeps
<1>4. /\ q.kind = "months" /\ Remember(q, {}, {}, TRUE)
      /\ UNCHANGED <<lib, past, settings, stage, tree, path, used, got, page, paged, names,
                     answer, file, seen, target, always, ever, stirred, edited, fresh>>
  BY DEF IndexFails, world
<1>5. page' = 1 /\ got' = {}
  BY <1>1, <1>2, <1>4, NoSearch DEF Searches
<1>6. AnswerInv'
  <2>1. /\ \A a \in {} : InSpan(q, a)
        /\ UNCHANGED <<lib, always, ever, stirred, paged>>
    BY <1>4
  <2>2. ~TRUE => \E l \in SUBSET ever :
           /\ always \subseteq l /\ (~stirred => l = lib)
           /\ IF q.kind \in Searches
              THEN (paged /\ stirred) \/ ({} = Matching(l, q) /\ {} = {})
              ELSE {} = Said(l, q)
    OBVIOUS
  <2>3. QED
    BY <1>1, <1>4, <2>1, <2>2, AnswersGrow
<1>7. QED
  BY <1>3, <1>4, <1>5, <1>6, AnswerKeeps

\* Nothing that was listed is lost or opened by a request that ends.
LEMMA EndKeepsIt ==
    ASSUME LInv, IInv', NEW how, End(how), UNCHANGED <<lib, past, settings, ever, edited>>,
           OpenInv', EveryNameHasItsMember', ListedOpens',
           fresh' => fresh \/ (stage # "idle" /\ ~stirred /\ ~edited)
    PROVE  LInv'
<1>1. /\ stage' = "idle" /\ always' = {} /\ stirred' = FALSE
      /\ memo' = <<>> /\ got' = {} /\ page' = 1 /\ paged' = FALSE
  BY DEF End
<1>2. HistoryInv'
  BY <1>1 DEF LInv, HistoryInv
<1>3. AnswerInv' /\ SearchInv' /\ FolderInv' /\ NamesInv'
  BY <1>1 DEF AnswerInv, SearchInv, FolderInv, NamesInv
<1>4. QED
  BY <1>2, <1>3 DEF LInv

\* The asset is not found, or something failed.
LEMMA StopKeeps ==
    ASSUME LInv, IInv', NEW how \in {"refused", "error"}, End(how),
           UNCHANGED <<lib, past, settings, seen, target, ever, edited, fresh>>
    PROVE  LInv'
<1>1. stage' = "idle" /\ answer' = how
  BY DEF End
<1>2. OpenInv'
  BY <1>1, OpenKept DEF LInv
<1>3. EveryNameHasItsMember' /\ ListedOpens'
  BY <1>1 DEF EveryNameHasItsMember, ListedOpens
<1>4. QED
  BY <1>2, <1>3, EndKeepsIt

\* The next page of a search is behind the pages read so far, unless the
\* library has changed between them.
LEMMA PagesSoFar ==
    ASSUME LInv, NEW q \in Question, NEW l \in past \cup {lib}, q.kind \in Searches
    PROVE  LET all == got \cup PageOf(l, q, page)
               again == twice \cup (got \cap PageOf(l, q, page))
           IN  /\ \A a \in all : InSpan(q, a)
               /\ ~(paged /\ stirred) =>
                     /\ all = UpTo(Matching(l, q), q, page) /\ again = {}
                     /\ ~More(l, q, page) => all = Matching(l, q)
<1>1. IInv /\ HistoryInv /\ SearchInv /\ stage # "idle" /\ \A r \in Question : r = q
  BY TheQuestion DEF LInv
<1>2. /\ l \in SUBSET Assets /\ (~stirred => l = lib)
      /\ page \in Nat \ {0} /\ twice \subseteq got
  <2>1. page \in 1..MaxPages /\ MaxPages \in Nat /\ twice \subseteq got
    BY <1>1, ConstantsAssumption DEF IInv, RequestInv, ToldInv
  <2>2. QED
    BY <1>1, <2>1, ToldOfLibrary
<1>3. /\ \A a \in got : InSpan(q, a)
      /\ ~(paged /\ stirred) => got = UpTo(Matching(l, q), q, page - 1) /\ twice = {}
  <2>1. CASE page = 1
    <3>1. got = {} /\ twice = {}
      BY <1>1, <1>2, <2>1 DEF SearchInv
    <3>2. UpTo(Matching(l, q), q, 0) = {} /\ page - 1 = 0
      BY <1>2, <2>1, Pages
    <3>3. QED
      BY <3>1, <3>2
  <2>2. CASE page # 1
    BY <1>1, <1>2, <2>2 DEF SearchInv
  <2>3. QED
    BY <2>1, <2>2
<1>4. /\ UpTo(Matching(l, q), q, page)
            = UpTo(Matching(l, q), q, page - 1) \cup PageOf(l, q, page)
      /\ UpTo(Matching(l, q), q, page - 1) \cap PageOf(l, q, page) = {}
      /\ ~More(l, q, page) => UpTo(Matching(l, q), q, page) = Matching(l, q)
      /\ \A a \in PageOf(l, q, page) : InSpan(q, a)
  BY <1>2, Pages
<1>5. QED
  BY <1>3, <1>4

LEMMA ReadPageKeepsIt ==
    ASSUME LInv, NEW q \in Question, NEW l \in past \cup {lib}, ReadPage(q, l)
    PROVE  LInv'
<1> DEFINE all == got \cup PageOf(l, q, page)
           again == twice \cup (got \cap PageOf(l, q, page))
           more == More(l, q, page)
<1>1. /\ IInv /\ HistoryInv /\ AnswerInv /\ FolderInv /\ NamesInv /\ OpenInv
      /\ EveryNameHasItsMember /\ ListedOpens
  BY DEF LInv
<1>2. stage # "idle" /\ tree \in Trees /\ page \in Nat \ {0}
  <2>1. stage # "idle" /\ tree \in Trees /\ page \in 1..MaxPages /\ MaxPages \in Nat
    BY <1>1, TheQuestion, ConstantsAssumption DEF IInv, RequestInv
  <2>2. QED
    BY <2>1
<1>3. IInv'
  BY <1>1, <1>2, ReadPageKeeps
<1>4. /\ q.kind \in Searches
      /\ UNCHANGED <<lib, past, settings, file, seen, target, ever, edited, fresh>>
      /\ \/ /\ got' = all /\ twice' = again /\ page' = page + 1 /\ paged' = TRUE
            /\ UNCHANGED <<memo, going>>
         \/ /\ ~more /\ Remember(q, all, again, FALSE)
            /\ got' = {} /\ twice' = {} /\ page' = 1
            /\ UNCHANGED <<paged, going>>
         \/ End("refused")
  BY DEF ReadPage, ReadUpTo, world
<1>5. /\ \A a \in all : InSpan(q, a)
      /\ ~(paged /\ stirred) =>
            /\ all = UpTo(Matching(l, q), q, page) /\ again = {}
            /\ ~more => all = Matching(l, q)
  BY <1>4, PagesSoFar
<1>6. l \in SUBSET ever /\ always \subseteq l /\ (~stirred => l = lib)
  BY <1>1, <1>2, ToldOfLibrary
<1> HIDE DEF all, again, more
<1>7. CASE /\ got' = all /\ twice' = again /\ page' = page + 1 /\ paged' = TRUE
           /\ UNCHANGED <<memo, going>>
  <2>1. UNCHANGED <<memo, stage, tree, path, used, names, left, answer, always, stirred>>
    BY <1>7 DEF going
  <2>2. HistoryInv'
    BY <1>1, <1>2, <1>4, <2>1, HistoryKept
  <2>3. AnswerInv'
    BY <1>1, <1>4, <1>7, <2>1, AnswersKept
  <2>4. SearchInv'
    <3>1. Question' = Question
      BY <1>2, <2>1, SameQuestion
    <3>2. page' # 1 /\ page' - 1 = page
      BY <1>2, <1>7
    <3>3. ~stirred => got' = UpTo(Matching(lib, q), q, page' - 1) /\ twice' = {}
      BY <1>5, <1>6, <1>7, <3>2
    <3>4. QED
      BY <1>4, <1>5, <1>7, <2>1, <3>1, <3>2, <3>3 DEF SearchInv
  <2>5. FolderInv' /\ NamesInv'
    BY <1>4, <2>1, FolderKept
  <2>6. OpenInv'
    BY <1>1, <1>2, <1>4, <2>1, OpenKept
  <2>7. EveryNameHasItsMember' /\ ListedOpens'
    BY <1>1, <1>4, <2>1 DEF EveryNameHasItsMember, ListedOpens, Agrees
  <2>8. QED
    BY <1>3, <2>2, <2>3, <2>4, <2>5, <2>6, <2>7 DEF LInv
<1>8. CASE /\ ~more /\ Remember(q, all, again, FALSE)
           /\ got' = {} /\ twice' = {} /\ page' = 1
           /\ UNCHANGED <<paged, going>>
  <2>1. UNCHANGED <<paged, stage, tree, path, used, names, left, answer, always, stirred>>
    BY <1>8 DEF going
  <2>2. \E k \in SUBSET ever :
           /\ always \subseteq k /\ (~stirred => k = lib)
           /\ IF q.kind \in Searches
              THEN (paged /\ stirred) \/ (all = Matching(k, q) /\ again = {})
              ELSE all = Said(k, q)
    BY <1>4, <1>5, <1>6, <1>8
  <2>3. AnswerInv'
    BY <1>1, <1>4, <1>5, <1>8, <2>1, <2>2, AnswersGrow
  <2>4. QED
    BY <1>3, <1>4, <1>8, <2>1, <2>3, AnswerKeeps
<1>9. CASE End("refused")
  BY <1>3, <1>4, <1>9, StopKeeps
<1>10. QED
  BY <1>4, <1>7, <1>8, <1>9

LEMMA FailKeepsIt ==
    ASSUME LInv, NEW q \in Question, Fail(q)
    PROVE  LInv'
<1>1. IInv'
  BY FailKeeps DEF LInv
<1>2. End("error") /\ UNCHANGED <<lib, past, settings, seen, target, ever, edited, fresh>>
  BY DEF Fail, world
<1>3. QED
  BY <1>1, <1>2, StopKeeps

\* The names of a listing are what the answers make of its folder.
LEMMA NamesAreOfForm ==
    ASSUME LInv, stage = "members", ~edited
    PROVE  /\ Reading /\ tree \in Trees /\ path \in Paths
           /\ IsFolderOf(tree, path) /\ names = Listing(tree, path).entries
           /\ Form(tree, path, names)
<1>1. IInv /\ FolderInv /\ NamesInv
  BY DEF LInv
<1>2. Reading /\ tree \in Trees /\ path \in Paths
  BY <1>1, ReadingHolds DEF IInv, RequestInv
<1>3. IsFolderOf(tree, path) /\ names = Listing(tree, path).entries /\ Question = {}
  BY <1>1 DEF FolderInv, NamesInv
<1>4. AllKnown(Listing(tree, path).asks)
  BY <1>1, <1>3, TheQuestion
<1>5. QED
  BY <1>2, <1>3, <1>4, ListingIsOfForm

\* Every name is a member, if the times of all assets agree.
LEMMA NamesAreMembers ==
    ASSUME LInv, stage = "members", ~edited, \A a \in ever : Agrees(a)
    PROVE  AllMembers(NamesOf(Listing(tree, path).entries))
<1>1. IInv /\ AnswerInv /\ left \subseteq names
  BY DEF LInv, IInv, SeenInv
<1>2. path \in Paths /\ names = Listing(tree, path).entries /\ Form(tree, path, names)
  BY NamesAreOfForm
<1>3. ASSUME NEW e \in names PROVE IsMember(e, NamesOf(names))
  <2>1. e.name \in NamesOf(names)
    BY DEF NamesOf
  <2>2. CASE DateEntry(tree, path, e)
    <3>1. Bucket(e.name[1], e.name[2]) # NoSpan
      BY <2>2, BucketSpans DEF DateEntry
    <3>2. QED
      BY <2>1, <2>2, <3>1 DEF DateEntry, IsMember
  <2>3. CASE HourEntry(tree, path, e)
    BY <2>1, <2>3 DEF HourEntry, IsMember
  <2>4. CASE OneFile(tree, path, e)
    <3>1. e.name[1] \in {"file", "file12"}
      BY <2>4, FileEntries DEF OneFile
    <3>2. QED
      BY <2>1, <3>1 DEF IsMember
  <2>5. QED
    BY <1>1, <1>2, <2>2, <2>3, <2>4, EntriesOfForm
<1>4. QED
  BY <1>1, <1>2, <1>3 DEF AllMembers

LEMMA MembersKeepsIt ==
    ASSUME LInv, Members(AllMembers(NamesOf(Listing(tree, path).entries)))
    PROVE  LInv'
<1> DEFINE all == AllMembers(NamesOf(Listing(tree, path).entries))
<1>1. /\ IInv /\ HistoryInv /\ AnswerInv /\ OpenInv /\ EveryNameHasItsMember
  BY DEF LInv
<1>2. IInv'
  BY <1>1, MembersKeeps
<1>3. /\ stage = "members"
      /\ UNCHANGED <<lib, past, settings, target, ever, edited>>
      /\ \/ /\ End("folder") /\ seen' = [tree |-> tree, path |-> path, entries |-> names]
            /\ fresh' = (~stirred /\ ~edited)
         \/ ~all /\ End("broken") /\ UNCHANGED <<seen, fresh>>
  BY DEF Members, world
<1> HIDE DEF all
<1>4. CASE /\ End("folder") /\ seen' = [tree |-> tree, path |-> path, entries |-> names]
           /\ fresh' = (~stirred /\ ~edited)
  <2>1. stage' = "idle" /\ answer' = "folder"
    BY <1>4 DEF End
  <2>2. OpenInv'
    <3>1. SUFFICES ASSUME ~stirred, ~edited, \A a \in lib : Agrees(a), NEW e \in names
                   PROVE  Opens(tree, path, e)
      <4>1. \A t, p, e : Opens(t, p, e)' <=> Opens(t, p, e)
        BY <1>3, SameOpens
      <4>2. seen'.tree = tree /\ seen'.path = path /\ seen'.entries = names
        BY <1>4
      <4>3. ~stirred /\ ~edited /\ (\A a \in lib : Agrees(a)) =>
               \A e \in names : Opens(tree, path, e)
        BY <3>1
      <4>4. SUFFICES ASSUME fresh', \A a \in lib : Agrees(a), NEW e \in seen'.entries
                     PROVE  Opens(seen.tree, seen.path, e)'
        BY <1>3, <2>1 DEF OpenInv, Agrees
      <4>5. Opens(seen'.tree, seen'.path, e)
        BY <1>4, <4>2, <4>3, <4>4
      <4>6. QED
        BY <4>1, <4>5
    <3>2. tree \in Trees /\ path \in Paths /\ IsFolderOf(tree, path) /\ Form(tree, path, names)
      BY <1>3, <3>1, NamesAreOfForm
    <3>3. stage # "idle"
      BY <1>3
    <3>4. QED
      BY <1>1, <3>1, <3>2, <3>3, NamesOpen
  <2>3. EveryNameHasItsMember'
    BY <2>1 DEF EveryNameHasItsMember
  <2>4. ListedOpens'
    BY <2>1 DEF ListedOpens
  <2>5. fresh' => stage # "idle" /\ ~stirred /\ ~edited
    BY <1>3, <1>4
  <2>6. QED
    BY <1>2, <1>3, <1>4, <2>2, <2>3, <2>4, <2>5, EndKeepsIt
<1>5. CASE ~all /\ End("broken") /\ UNCHANGED <<seen, fresh>>
  <2>1. stage' = "idle" /\ answer' = "broken"
    BY <1>5 DEF End
  <2>2. edited \/ \E a \in ever : ~Agrees(a)
    BY <1>3, <1>5, NamesAreMembers DEF all
  <2>3. EveryNameHasItsMember'
    BY <1>3, <2>2 DEF EveryNameHasItsMember, Agrees
  <2>4. ListedOpens'
    BY <1>1, <1>3, <1>5, <2>2 DEF ListedOpens, HistoryInv, Agrees
  <2>5. OpenInv'
    BY <1>1, <1>3, <1>5, <2>1, OpenKept
  <2>6. QED
    BY <1>2, <1>3, <1>5, <2>3, <2>4, <2>5, EndKeepsIt
<1>6. QED
  BY <1>3, <1>4, <1>5

\* What a request opens of the last listing is found, while nothing changes.
LEMMA TargetIsFound ==
    ASSUME LInv, stage = "resolving", Question = {}, fresh, target # None,
           \A a \in ever : Agrees(a)
    PROVE  Finds(Resolved(tree, path), target)
<1>1. IInv /\ HistoryInv /\ AnswerInv /\ OpenInv /\ stage # "idle"
  BY DEF LInv
<1>2. ever = lib /\ ~edited /\ ~stirred
  BY <1>1 DEF HistoryInv
<1>3. /\ target \in seen.entries /\ tree = seen.tree /\ path = Append(seen.path, target.name)
      /\ Opens(seen.tree, seen.path, target)
  BY <1>1, <1>2 DEF OpenInv
<1>4. /\ seen.tree \in Trees /\ seen.path \in Paths /\ target \in Names
  BY <1>1, <1>3 DEF IInv, SeenInv
<1>5. target.name \in Kinds \X Nat
  BY <1>4 DEF Names
<1>6. AllKnown(Resolved(tree, path).asks)
  BY <1>1, TheQuestion
<1>7. QED
  BY <1>1, <1>2, <1>3, <1>4, <1>5, <1>6, ListedIsFound

LEMMA ConcludeKeepsIt ==
    ASSUME LInv, Question = {}, Conclude(Resolved(tree, path))
    PROVE  LInv'
<1> DEFINE o == Resolved(tree, path)
<1>1. IInv /\ HistoryInv /\ AnswerInv /\ SearchInv /\ OpenInv
      /\ EveryNameHasItsMember /\ ListedOpens
  BY DEF LInv
<1>2. IInv'
  BY <1>1, ConcludeKeeps
<1>3. /\ stage = "resolving"
      /\ UNCHANGED <<lib, past, settings, events, seen, target, ever, edited, fresh>>
      /\ \/ /\ o.what = "folder" /\ stage' = "listing" /\ used' = ReadAnew
            /\ UNCHANGED <<asked, tree, path, names, left, answer, file, always, stirred>>
         \/ /\ o.what # "folder" /\ End(o.what) /\ file' = o.asset
  BY DEF Conclude, world
<1>4. /\ tree \in Trees /\ path \in Paths /\ Reading /\ AllKnown(o.asks)
      /\ page = 1 /\ got = {}
  BY <1>1, <1>3, ReadingHolds, TheQuestion, NoSearch DEF IInv, RequestInv
<1>5. o.what = "folder" => IsFolderOf(tree, path)
  BY <1>4, ResolvedIsTyped
<1>6. o.what \in {"folder", "file", "missing"}
  BY <1>4, ResolvedIsSound DEF Sound
<1>7. fresh /\ target # None /\ (\A a \in ever : Agrees(a)) => Finds(o, target)
  BY <1>3, TargetIsFound
<1> HIDE DEF o
<1>8. CASE /\ o.what = "folder" /\ stage' = "listing" /\ used' = ReadAnew
           /\ UNCHANGED <<asked, tree, path, names, left, answer, file, always, stirred>>
  <2>1. /\ UNCHANGED <<memo, got, twice, page, paged>>
        /\ ~edited => used' = used
    BY <1>1, <1>3, <1>8, ReadAsBefore DEF asked
  <2>2. HistoryInv'
    BY <1>1, <1>3, <1>8, <2>1, HistoryKept
  <2>3. AnswerInv'
    BY <1>1, <1>3, <1>8, <2>1, AnswersKept
  <2>4. SearchInv'
    BY <1>4, <2>1 DEF SearchInv
  <2>5. FolderInv'
    <3>1. ASSUME ~edited PROVE IsFolderOf(tree, path)'
      <4>1. used' = used
        BY <2>1, <3>1
      <4>2. \A q \in DOMAIN memo : q \in DOMAIN memo' /\ memo'[q] = memo[q]
        BY <2>1
      <4>3. \A t, p : IsFolderOf(t, p) => IsFolderOf(t, p)'
        BY <4>1, <4>2, FolderStays
      <4>4. QED
        BY <1>5, <1>8, <4>3
    <3>2. QED
      BY <1>3, <3>1 DEF FolderInv
  <2>6. NamesInv'
    BY <1>8 DEF NamesInv
  <2>7. OpenInv'
    BY <1>1, <1>3, <1>8, OpenKept
  <2>8. EveryNameHasItsMember' /\ ListedOpens'
    BY <1>1, <1>3, <1>8 DEF EveryNameHasItsMember, ListedOpens, Agrees
  <2>9. QED
    BY <1>2, <2>2, <2>3, <2>4, <2>5, <2>6, <2>7, <2>8 DEF LInv
<1>9. CASE o.what # "folder" /\ End(o.what) /\ file' = o.asset
  <2>1. stage' = "idle" /\ answer' = o.what /\ o.what \in {"file", "missing"}
    BY <1>6, <1>9 DEF End
  <2>2. OpenInv'
    BY <1>1, <1>3, <2>1, OpenKept
  <2>3. EveryNameHasItsMember'
    BY <2>1 DEF EveryNameHasItsMember
  <2>4. ListedOpens'
    BY <1>3, <1>7, <1>9, <2>1 DEF ListedOpens, Finds, Agrees, None
  <2>5. QED
    BY <1>2, <1>3, <1>9, <2>2, <2>3, <2>4, EndKeepsIt
<1>10. QED
  BY <1>3, <1>8, <1>9

LEMMA NameKeepsIt ==
    ASSUME LInv, Question = {}, Name(Listing(tree, path).entries)
    PROVE  LInv'
<1> DEFINE entries == Listing(tree, path).entries
<1>1. IInv /\ HistoryInv /\ AnswerInv /\ SearchInv /\ FolderInv /\ OpenInv
      /\ EveryNameHasItsMember /\ ListedOpens
  BY DEF LInv
<1>2. IInv'
  BY <1>1, NameKeeps
<1>3. /\ stage = "listing" /\ stage' = "members" /\ names' = entries
      /\ used' = ReadAnew /\ memo' = memo
      /\ UNCHANGED <<lib, past, settings, got, twice, page, paged, tree, path, answer, file,
                     seen, target, always, ever, stirred, edited, fresh>>
  BY DEF Name, NameWith, world
<1>4. page = 1 /\ got = {}
  BY <1>1, NoSearch
<1>5. ~edited => used' = used
  BY <1>1, <1>3, ReadAsBefore
<1>6. HistoryInv'
  BY <1>1, <1>3, <1>5, HistoryKept
<1>7. AnswerInv'
  BY <1>1, <1>3, AnswersKept
<1>8. SearchInv'
  BY <1>3, <1>4 DEF SearchInv
<1>9. ASSUME ~edited
      PROVE  IsFolderOf(tree, path)' /\ Listing(tree, path)' = Listing(tree, path)
             /\ Question' = {}
  <2>1. used' = used /\ \A q \in DOMAIN memo : q \in DOMAIN memo' /\ memo'[q] = memo[q]
    BY <1>3, <1>5, <1>9
  <2>2. \A t, p : IsFolderOf(t, p) => IsFolderOf(t, p)'
    BY <2>1, FolderStays
  <2>3. IsFolderOf(tree, path)
    BY <1>1, <1>3, <1>9 DEF FolderInv
  <2>4. Listing(tree, path)' = Listing(tree, path)
    BY <1>3, <2>1, SameListing
  <2>5. Question = FirstUnknown(Listing(tree, path).asks)
    BY <1>3 DEF Question, Plan
  <2>6. Question' = FirstUnknown(Listing(tree, path).asks)'
    BY <1>3 DEF Question, Plan
  <2>7. FirstUnknown(Listing(tree, path).asks)' = FirstUnknown(Listing(tree, path).asks)
    BY <1>3, <2>4 DEF FirstUnknown, Known
  <2>8. QED
    BY <1>3, <2>2, <2>3, <2>4, <2>5, <2>6, <2>7
<1>10. FolderInv' /\ NamesInv'
  BY <1>3, <1>9 DEF FolderInv, NamesInv
<1>11. OpenInv'
  BY <1>1, <1>3, OpenKept
<1>12. EveryNameHasItsMember' /\ ListedOpens'
  BY <1>1, <1>3 DEF EveryNameHasItsMember, ListedOpens, Agrees
<1>13. QED
  BY <1>2, <1>6, <1>7, <1>8, <1>10, <1>11, <1>12 DEF LInv

LEMMA NextMemberKeepsIt ==
    ASSUME LInv, Question = {}, NEW now, NextMember(now)
    PROVE  LInv'
<1>1. IInv /\ HistoryInv /\ AnswerInv /\ SearchInv /\ OpenInv
      /\ EveryNameHasItsMember /\ ListedOpens
  BY DEF LInv
<1>2. IInv'
  BY <1>1, NextMemberKeeps
<1>3. /\ stage = "members" /\ used # ReadAnew
      /\ UNCHANGED <<lib, past, settings, memo, got, twice, page, paged, stage, tree, path,
                     names, answer, file, seen, target, always, ever, stirred, edited, fresh>>
  BY DEF NextMember, world, asked
<1>4. edited /\ page = 1 /\ got = {}
  BY <1>1, <1>3, ReadAsBefore, NoSearch
<1>5. HistoryInv'
  BY <1>1, <1>3, <1>4, HistoryKept
<1>6. AnswerInv'
  BY <1>1, <1>3, AnswersKept
<1>7. SearchInv' /\ FolderInv' /\ NamesInv'
  BY <1>3, <1>4 DEF SearchInv, FolderInv, NamesInv
<1>8. OpenInv'
  BY <1>1, <1>3, OpenKept
<1>9. EveryNameHasItsMember' /\ ListedOpens'
  BY <1>1, <1>3 DEF EveryNameHasItsMember, ListedOpens, Agrees
<1>10. QED
  BY <1>2, <1>5, <1>6, <1>7, <1>8, <1>9 DEF LInv

LEMMA InitEstablishesIt == Init => LInv
<1> SUFFICES ASSUME Init PROVE LInv
  OBVIOUS
<1>1. /\ past = {} /\ stage = "idle" /\ memo = <<>> /\ got = {} /\ page = 1 /\ always = {}
      /\ paged = FALSE /\ fresh = FALSE /\ answer = "none"
  BY DEF Init
<1>2. IInv
  BY InitEstablishes
<1>3. HistoryInv /\ AnswerInv /\ SearchInv /\ FolderInv /\ NamesInv /\ OpenInv
  BY <1>1 DEF HistoryInv, AnswerInv, SearchInv, FolderInv, NamesInv, OpenInv
<1>4. EveryNameHasItsMember /\ ListedOpens
  BY <1>1 DEF EveryNameHasItsMember, ListedOpens
<1>5. QED
  BY <1>2, <1>3, <1>4 DEF LInv

LEMMA RequestStepKeepsIt ==
    ASSUME LInv, RequestStep
    PROVE  LInv'
<1> DEFINE entries == Listing(tree, path).entries
<1>1. ASSUME NEW q \in Question, NEW l \in past \cup {lib}, Ask(q, l) \/ ReadPage(q, l)
      PROVE  LInv'
  BY <1>1, AskKeepsIt, ReadPageKeepsIt
<1>2. ASSUME NEW q \in Question, IndexFails(q) \/ Fail(q)
      PROVE  LInv'
  BY <1>2, IndexFailsKeepsIt, FailKeepsIt
<1>3. CASE Question = {} /\ Conclude(Resolved(tree, path))
  BY <1>3, ConcludeKeepsIt
<1>4. CASE Question = {} /\ Name(entries)
  BY <1>4, NameKeepsIt
<1>5. CASE Question = {} /\ NextMember(NamesOf(entries))
  BY <1>5, NextMemberKeepsIt
<1>6. CASE Members(AllMembers(NamesOf(entries)))
  BY <1>6, MembersKeepsIt
<1>7. QED
  BY <1>1, <1>2, <1>3, <1>4, <1>5, <1>6 DEF RequestStep, Proceed

LEMMA NextKeepsIt == LInv /\ [Next]_vars => LInv'
<1> SUFFICES ASSUME LInv, [Next]_vars PROVE LInv'
  OBVIOUS
<1>1. CASE RequestStep
  BY <1>1, RequestStepKeepsIt
<1>2. ASSUME NEW t \in Trees, StartAtRoot(t) PROVE LInv'
  BY <1>2, BeginAtRootKeeps
<1>3. ASSUME NEW e \in seen.entries, Open(e) PROVE LInv'
  BY <1>3, BeginByOpeningKeeps
<1>4. ASSUME NEW a \in Assets, Change(a) PROVE LInv'
  BY <1>4, ChangeKeepsIt
<1>5. ASSUME NEW l \in past, Expire(l) PROVE LInv'
  <2>1. IInv'
    BY <1>5, ExpireKeeps DEF LInv
  <2>2. /\ past' \subseteq past
        /\ UNCHANGED <<lib, settings, stage, tree, path, used, memo, got, twice, page, paged,
                       names, answer, file, seen, target, always, ever, stirred, edited,
                       fresh>>
    BY <1>5 DEF Expire, asked
  <2>3. QED
    BY <2>1, <2>2, ExpireKeepsIt DEF LInv
<1>6. ASSUME NEW s \in Settings, Edit(s) PROVE LInv'
  BY <1>6, EditKeepsIt
<1>7. CASE UNCHANGED vars
  <2>1. IInv'
    BY <1>7, NextKeeps DEF LInv
  <2>2. /\ past' \subseteq past
        /\ UNCHANGED <<lib, settings, stage, tree, path, used, memo, got, twice, page, paged,
                       names, answer, file, seen, target, always, ever, stirred, edited,
                       fresh>>
    BY <1>7 DEF vars, world, asked
  <2>3. QED
    BY <2>1, <2>2, ExpireKeepsIt DEF LInv
<1>8. QED
  BY <1>1, <1>2, <1>3, <1>4, <1>5, <1>6, <1>7 DEF Next

LEMMA TheInvariantHolds == Spec => []LInv
BY InitEstablishesIt, NextKeepsIt, PTL DEF Spec

-----------------------------------------------------------------------------
(***************************************************************************)
(* Nothing is listed that was never in the folder.                         *)
(***************************************************************************)
\* The paths of folders, each date within the one before.
FolderPath(p) ==
    \/ p = <<>> \/ IsYear(p) \/ IsMonth(p) \/ IsDay(p)
    \/ Len(p) = 4 /\ HourRange(p) # NoSpan
Nested(p) ==
    /\ Len(p) >= 2 /\ p[2][1] = "month" => p[2][2] \div MonthsPerYear = p[1][2]
    /\ Len(p) = 4 /\ p[4][1] = "hour" => p[4][2] < HoursPerDay

\* An asset of the span of a date is below its path.
LEMMA DatesHold ==
    ASSUME NEW p \in Paths, Nested(p), IsYear(p) \/ IsMonth(p) \/ IsDay(p),
           NEW t \in Nat, DateRange(p).from <= t, t < DateRange(p).to
    PROVE  Below(p, t)
<1>1. /\ Number("month", t) \div MonthsPerYear = Number("year", t)
      /\ Number("day", t) \div DaysPerMonth = Number("month", t)
  BY NumbersNest
<1>2. CASE IsYear(p)
  <2>1. Len(p) = 1 /\ p[1][1] = "year" /\ 1 \in 1..Len(p)
    BY <1>2 DEF IsYear
  <2>2. p[1][2] \in Nat /\ DOMAIN p = 1..Len(p) /\ DateRange(p) = Bucket("year", p[1][2])
    BY <1>2, <2>1, Parts, DateRanges
  <2>3. Number("year", t) = p[1][2]
    BY <2>2, NumberOfBucket
  <2>4. \A i \in DOMAIN p : i = 1
    BY <2>1, <2>2
  <2>5. QED
    BY <2>1, <2>3, <2>4 DEF Below, InBucket
<1>3. CASE IsMonth(p)
  <2>1. /\ Len(p) = 2 /\ p[1][1] = "year" /\ p[2][1] = "month" /\ 2 \in 1..Len(p)
        /\ p[2][2] \div MonthsPerYear = p[1][2]
    BY <1>3 DEF IsMonth
  <2>2. p[2][2] \in Nat /\ DOMAIN p = 1..Len(p) /\ DateRange(p) = Bucket("month", p[2][2])
    BY <1>3, <2>1, Parts, DateRanges
  <2>3. Number("month", t) = p[2][2]
    BY <2>2, NumberOfBucket
  <2>4. \A i \in DOMAIN p : i = 1 \/ i = 2
    BY <2>1, <2>2
  <2>5. QED
    BY <1>1, <2>1, <2>3, <2>4 DEF Below, InBucket
<1>4. CASE IsDay(p)
  <2>1. /\ Len(p) = 3 /\ p[1][1] = "year" /\ p[2][1] = "month" /\ p[3][1] = "day"
        /\ p[3][2] \div DaysPerMonth = p[2][2] /\ 3 \in 1..Len(p) /\ Len(p) >= 2
    BY <1>4 DEF IsDay
  <2>2. p[3][2] \in Nat /\ DOMAIN p = 1..Len(p) /\ DateRange(p) = Bucket("day", p[3][2])
    BY <1>4, <2>1, Parts, DateRanges
  <2>3. Number("day", t) = p[3][2]
    BY <2>2, NumberOfBucket
  <2>4. p[2][2] \div MonthsPerYear = p[1][2]
    BY <2>1 DEF Nested
  <2>5. \A i \in DOMAIN p : i = 1 \/ i = 2 \/ i = 3
    BY <2>1, <2>2
  <2>6. QED
    BY <1>1, <2>1, <2>3, <2>4, <2>5 DEF Below, InBucket
<1>5. QED
  BY <1>2, <1>3, <1>4

\* So is one of the span of an hour.
LEMMA HoursHold ==
    ASSUME NEW p \in Paths, Nested(p), HourRange(p) # NoSpan,
           NEW t \in Nat, HourRange(p).from <= t, t < HourRange(p).to
    PROVE  Below(p, t)
<1> DEFINE day == SubSeq(p, 1, 3)
           R == DateRange(day)
<1>1. Len(p) = 4 /\ p[4][1] = "hour" /\ R # NoSpan
  BY DEF HourRange
<1>2. HourRange(p) = Span(R.from + p[4][2], R.from + p[4][2] + 1)
  BY <1>1 DEF HourRange
<1>3. /\ 3 \in Nat /\ 3 <= Len(p) /\ DOMAIN p = {1, 2, 3, 4} /\ 4 \in 1..Len(p)
      /\ p[4][2] \in Nat
  <2>1. 4 \in 1..4 /\ 3 <= 4 /\ 1..4 = {1, 2, 3, 4}
    OBVIOUS
  <2>2. QED
    BY <1>1, <2>1, Parts
<1>4. /\ day \in Paths /\ Len(day) = 3
      /\ day[1] = p[1] /\ day[2] = p[2] /\ day[3] = p[3]
  <2>1. 1 \in 1..3 /\ 2 \in 1..3 /\ 3 \in 1..3
    OBVIOUS
  <2>2. QED
    BY <1>3, <2>1, Beginnings
<1> HIDE DEF day
<1>5. IsDay(day)
  <2>1. ~IsYear(day) /\ ~IsMonth(day)
    BY <1>4 DEF IsYear, IsMonth
  <2>2. QED
    BY <1>1, <1>4, <2>1, DateRanges
<1>6. Nested(day)
  BY <1>1, <1>4 DEF Nested
<1>7. day[3][2] \in Nat /\ R = Bucket("day", day[3][2])
  <2>1. 3 \in 1..3
    OBVIOUS
  <2>2. QED
    BY <1>4, <1>5, <2>1, Parts, DateRanges
<1> DEFINE n == p[3][2]
           H == HoursPerDay
           start == n * H
<1>8. H \in Nat \ {0} /\ n \in Nat /\ start \in Nat
  BY <1>4, <1>7, ConstantsAssumption
<1>9. R.from = start /\ R.to = (n + 1) * H
  <2>1. /\ Bucket("day", n).from = n * Length("day") /\ Bucket("day", n).to = (n + 1) * Length("day")
        /\ Length("day") = H
    BY <1>8, BucketSpans DEF Length
  <2>2. R = Bucket("day", n)
    BY <1>4, <1>7
  <2> HIDE DEF R, n, H
  <2>3. QED
    BY <2>1, <2>2
<1>10. p[4][2] < H
  BY <1>1 DEF Nested
<1> HIDE DEF n, H, R
<1>11. (n + 1) * H = start + H
  BY <1>8
<1> HIDE DEF start
<1>12. HourRange(p).from = start + p[4][2] /\ HourRange(p).to = start + p[4][2] + 1
  BY <1>2, <1>9 DEF Span
<1>13. t = start + p[4][2]
  <2>1. \A i, k, u \in Nat : i + k <= u /\ u < i + k + 1 => u = i + k
    OBVIOUS
  <2>2. start + p[4][2] <= t /\ t < start + p[4][2] + 1
    BY <1>12, Zenon
  <2>3. QED
    BY <1>3, <1>8, <2>1, <2>2
<1>14. R.from <= t /\ t < R.to
  BY <1>3, <1>8, <1>9, <1>10, <1>11, <1>13
<1>15. Below(day, t)
  BY <1>4, <1>5, <1>6, <1>14, DatesHold DEF R
<1>16. t % H = p[4][2]
  <2>1. t \div H = n
    BY <1>8, <1>9, <1>14, Quotients DEF start
  <2>2. t % H = t - start
    BY <1>8, <2>1, QuotientsAround DEF start
  <2>3. QED
    BY <1>3, <1>8, <1>13, <2>2
<1>17. InBucket(p[4], t)
  BY <1>1, <1>16 DEF InBucket, Number, H
<1>18. DOMAIN day = {1, 2, 3}
  <2>1. 1..3 = {1, 2, 3}
    OBVIOUS
  <2>2. QED
    BY <1>4, <2>1, Parts
<1>19. QED
  BY <1>3, <1>4, <1>15, <1>17, <1>18 DEF Below

\* The asset behind an entry of a listing.
Backs(a, t, p, e) ==
    /\ Below(p, Taken[a]) \/ Below(p, Local[a])
    /\ t = "View" => used.after <= Taken[a] /\ Taken[a] < used.before
    /\ IF IsBucket(e.name) THEN InBucket(e.name, Local[a]) \/ InBucket(e.name, Taken[a])
                           ELSE e.asset = a
Backed(t, p, e) == \E a \in ever : Backs(a, t, p, e)
\* The path of a span: whatever was taken in it is below the path.
IsPathOf(p, r) == \A a \in Assets : r.from <= Taken[a] /\ Taken[a] < r.to => Below(p, Taken[a])

LEMMA FilesAreBacked ==
    ASSUME IInv, AnswerInv, NEW t, NEW p, NEW r \in Spans, IsPathOf(p, r),
           NEW e \in FilesIn(t, r).entries
    PROVE  Backed(t, p, e)
<1> DEFINE q == Query("files", t, r)
           a == e.asset
<1>1. e \in Files(Told(q))
  BY DEF FilesIn, FilesOf, Reply
<1>2. e.name[1] \in {"file", "file12"} /\ a \in Told(q).got
  BY <1>1, FileEntries
<1>3. a \in ever /\ a \in Assets /\ InSpan(q, a)
  <2> HIDE DEF q
  <2>1. QED
    BY <1>2, ToldInSpan
<1>4. used \in Row
  BY DEF IInv, RequestInv
<1>5. /\ r.from <= Taken[a] /\ Taken[a] < r.to
      /\ t = "View" => used.after <= Taken[a] /\ Taken[a] < used.before
  BY <1>3, <1>4, QuerySpans
<1>6. Below(p, Taken[a])
  BY <1>3, <1>5 DEF IsPathOf
<1>7. ~IsBucket(e.name)
  BY <1>2 DEF IsBucket
<1>8. QED
  BY <1>3, <1>5, <1>6, <1>7 DEF Backed, Backs

LEMMA FoundIsBacked ==
    ASSUME IInv, AnswerInv, NEW t, NEW p, NEW r \in Spans, IsPathOf(p, r), NEW ask,
           NEW kind \in {"year", "month", "day", "hour"},
           NEW e \in Found(kind, Query(ask, t, r)).entries
    PROVE  Backed(t, p, e)
<1> DEFINE q == Query(ask, t, r)
           numbers == {Number(kind, Local[a]) : a \in Told(q).got}
<1>1. e \in Buckets(kind, numbers)
  BY DEF Found, Reply
<1>2. PICK n \in numbers : e.name = <<kind, n>> /\ e.name[1] = kind /\ e.name[2] = n
  <2> HIDE DEF numbers
  <2>1. QED
    BY <1>1, BucketEntries
<1>3. PICK a \in Told(q).got : n = Number(kind, Local[a])
  BY <1>2
<1>4. a \in ever /\ a \in Assets /\ InSpan(q, a)
  <2> HIDE DEF q
  <2>1. QED
    BY <1>3, ToldInSpan
<1>5. used \in Row
  BY DEF IInv, RequestInv
<1>6. /\ r.from <= Taken[a] /\ Taken[a] < r.to
      /\ t = "View" => used.after <= Taken[a] /\ Taken[a] < used.before
  BY <1>4, <1>5, QuerySpans
<1>7. Below(p, Taken[a])
  BY <1>4, <1>6 DEF IsPathOf
<1>8. IsBucket(e.name) /\ InBucket(e.name, Local[a])
  BY <1>2, <1>3 DEF IsBucket, InBucket
<1>9. QED
  BY <1>4, <1>6, <1>7, <1>8 DEF Backed, Backs

\* A bucket that has any.
LEMMA BucketIsBacked ==
    ASSUME IInv, AnswerInv, NEW t, NEW p, NEW kind \in {"year", "month"}, NEW n \in Nat,
           \A u \in Nat : Number(kind, u) = n => Below(p, u),
           Has(t, Bucket(kind, n)), NEW e, e.name = <<kind, n>>
    PROVE  Backed(t, p, e)
<1> DEFINE r == Bucket(kind, n)
           q == Query("has", t, r)
<1>1. r \in Spans
  BY BucketSpans
<1>2. PICK a \in Told(q).got : TRUE
  BY DEF Has
<1>3. a \in ever /\ a \in Assets /\ InSpan(q, a)
  <2> HIDE DEF q
  <2>1. QED
    BY <1>2, ToldInSpan
<1>4. used \in Row
  BY DEF IInv, RequestInv
<1>5. /\ r.from <= Taken[a] /\ Taken[a] < r.to
      /\ t = "View" => used.after <= Taken[a] /\ Taken[a] < used.before
  <2> HIDE DEF r
  <2>1. QED
    BY <1>1, <1>3, <1>4, QuerySpans
<1>6. Taken[a] \in Nat
  BY <1>3, AssetsAreTyped
<1>7. Number(kind, Taken[a]) = n
  BY <1>5, <1>6, NumberOfBucket
<1>8. Below(p, Taken[a])
  BY <1>6, <1>7
<1>9. e.name[1] = kind /\ e.name[2] = n
  OBVIOUS
<1>10. IsBucket(e.name) /\ InBucket(e.name, Taken[a])
  BY <1>7, <1>9 DEF IsBucket, InBucket
<1>11. QED
  BY <1>3, <1>5, <1>8, <1>10 DEF Backed, Backs

\* All is below a root.
LEMMA RootHolds == \A t : Below(<<>>, t)
BY DEF Below

\* A month of a year is below it.
LEMMA YearHolds ==
    ASSUME NEW p \in Paths, IsYear(p), NEW t \in Nat, Number("year", t) = p[1][2]
    PROVE  Below(p, t)
<1>1. Len(p) = 1 /\ p[1][1] = "year" /\ DOMAIN p = 1..Len(p)
  BY Parts DEF IsYear
<1>2. \A i \in DOMAIN p : i = 1
  BY <1>1
<1>3. QED
  BY <1>1, <1>2 DEF Below, InBucket

LEMMA SweptIsBacked ==
    ASSUME IInv, AnswerInv, NEW t, NEW p \in Paths,
           (p = <<>> /\ Bounded(t)) \/ IsYear(p), NEW e \in Swept(t, p).entries
    PROVE  Backed(t, p, e)
<1>1. CASE p = <<>>
  <2> DEFINE years == YearOf(t, 1)..YearOf(t, 2)
             found == {n \in years : Has(t, Bucket("year", n))}
  <2>1. Bounded(t) /\ Swept(t, p) = Sweep(t, "year", YearOf(t, 1), YearOf(t, 2))
    <3>1. Len(<<>>) = 0
      OBVIOUS
    <3>2. ~IsYear(p)
      BY <1>1, <3>1 DEF IsYear
    <3>3. QED
      BY <1>1, <3>2 DEF Swept
  <2>2. e \in Buckets("year", found)
    BY <2>1 DEF Sweep, Reply
  <2>3. PICK n \in found : e.name = <<"year", n>>
    <3> HIDE DEF found
    <3>1. QED
      BY <2>2, BucketEntries
  <2>4. YearOf(t, 1) \in Nat
    BY <2>1, ReadingHolds, YearsAreTyped
  <2>5. n \in Nat /\ Has(t, Bucket("year", n))
    BY <2>3, <2>4
  <2> HIDE DEF found, years
  <2>6. \A u \in Nat : Number("year", u) = n => Below(p, u)
    BY <1>1, RootHolds
  <2>7. QED
    BY <2>3, <2>5, <2>6, BucketIsBacked
<1>2. CASE IsYear(p)
  <2> DEFINE y == p[1][2]
             months == y * MonthsPerYear .. (y + 1) * MonthsPerYear - 1
             found == {n \in months : Has(t, Bucket("month", n))}
  <2>1. Swept(t, p) = Sweep(t, "month", y * MonthsPerYear, (y + 1) * MonthsPerYear - 1)
    <3>1. Len(<<>>) = 0
      OBVIOUS
    <3>2. p # <<>>
      BY <1>2, <3>1 DEF IsYear
    <3>3. QED
      BY <3>2 DEF Swept
  <2>2. e \in Buckets("month", found)
    BY <2>1 DEF Sweep, Reply
  <2>3. PICK n \in found : e.name = <<"month", n>>
    <3> HIDE DEF found
    <3>1. QED
      BY <2>2, BucketEntries
  <2>4. y \in Nat
    <3>1. 1 \in 1..Len(p)
      BY <1>2 DEF IsYear
    <3>2. QED
      BY <3>1, Parts
  <2>5. n \in Nat
    <3>1. MonthsPerYear \in Nat
      BY ConstantsAssumption
    <3>2. \A i, k \in Nat : i * k \in Nat
      OBVIOUS
    <3>3. y * MonthsPerYear \in Nat
      BY <2>4, <3>1, <3>2
    <3>4. n \in Int /\ y * MonthsPerYear <= n
      BY <2>3, <3>3
    <3>5. QED
      BY <3>3, <3>4
  <2>6. Has(t, Bucket("month", n)) /\ n \div MonthsPerYear = y
    BY <2>3, <2>4, <2>5, MonthsOfYear
  <2> HIDE DEF found, months
  <2>7. ASSUME NEW u \in Nat, Number("month", u) = n PROVE Below(p, u)
    <3>1. Number("year", u) = y
      BY <2>6, <2>7, NumbersNest
    <3>2. QED
      BY <1>2, <3>1, YearHolds
  <2>8. QED
    BY <2>3, <2>5, <2>6, <2>7, BucketIsBacked
<1>3. QED
  BY <1>1, <1>2

LEMMA YearIsBelow == \A p \in Paths : IsYear(p) => p # <<>>
<1>1. SUFFICES ASSUME NEW p \in Paths, Len(p) = 1 PROVE p # <<>>
  BY DEF IsYear
<1>2. p = <<>> <=> Len(p) = 0
  BY Parts
<1>3. QED
  BY <1>1, <1>2

LEMMA IndexedIsBacked ==
    ASSUME IInv, AnswerInv, NEW p \in Paths, p = <<>> \/ IsYear(p), NEW e \in Indexed(p).entries
    PROVE  Backed("Timeline", p, e)
<1>1. CASE p = <<>>
  <2>1. e \in Found("year", Query("months", "Timeline", Everything)).entries
    BY <1>1 DEF Indexed, IndexQuery
  <2>2. IsPathOf(p, Everything)
    BY <1>1, RootHolds DEF IsPathOf
  <2>3. Everything \in Spans
    BY ReadingHolds, SomeQueries
  <2>4. QED
    BY <2>1, <2>2, <2>3, FoundIsBacked
<1>2. CASE IsYear(p)
  <2>1. p # <<>>
    BY <1>2, YearIsBelow
  <2> DEFINE inYear == {b \in Told(IndexQuery).got : Number("year", Local[b]) = p[1][2]}
             numbers == {Number("month", Local[a]) : a \in inYear}
  <2>2. e \in Buckets("month", numbers)
    BY <2>1 DEF Indexed, Reply
  <2>3. PICK n \in numbers : e.name = <<"month", n>> /\ e.name[1] = "month" /\ e.name[2] = n
    <3> HIDE DEF numbers
    <3>1. QED
      BY <2>2, BucketEntries
  <2>4. PICK a \in Told(IndexQuery).got :
            n = Number("month", Local[a]) /\ Number("year", Local[a]) = p[1][2]
    BY <2>3
  <2>5. a \in ever /\ Local[a] \in Nat
    BY <2>4, ToldInSpan, AssetsAreTyped
  <2>6. Below(p, Local[a])
    BY <1>2, <2>4, <2>5, YearHolds
  <2>7. IsBucket(e.name) /\ InBucket(e.name, Local[a])
    BY <2>3, <2>4 DEF IsBucket, InBucket
  <2>8. QED
    BY <2>5, <2>6, <2>7 DEF Backed, Backs
<1>3. QED
  BY <1>1, <1>2

\* The spans of paths.
LEMMA PathsOfSpans ==
    ASSUME NEW p \in Paths, Nested(p)
    PROVE  /\ DateRange(p) \in Spans /\ HourRange(p) \in Spans
           /\ IsYear(p) \/ IsMonth(p) \/ IsDay(p) => IsPathOf(p, DateRange(p))
           /\ HourRange(p) # NoSpan => IsPathOf(p, HourRange(p))
<1>1. DateRange(p) \in Spans /\ HourRange(p) \in Spans
  BY DateRanges, DatesOfPaths
<1>2. QED
  BY <1>1, DatesHold, HoursHold, AssetsAreTyped DEF IsPathOf

LEMMA TreeBucketsAreBacked ==
    ASSUME IInv, AnswerInv, NEW p \in Paths, Nested(p), p = <<>> \/ IsYear(p) \/ IsMonth(p), NEW e
    PROVE  /\ e \in TimelineBuckets(p).entries => Backed("Timeline", p, e)
           /\ e \in AlbumBuckets(p).entries => Backed("Album", p, e)
           /\ e \in ViewBuckets(p).entries => Backed("View", p, e)
<1>1. /\ \A asks, reply : Behind(asks, reply).entries = reply.entries
      /\ Reply(<<>>, {}).entries = {}
  BY DEF Behind, Reply
<1>2. /\ (p = <<>> => Len(p) = 0) /\ (IsYear(p) => Len(p) = 1 /\ p # <<>>)
      /\ (IsMonth(p) => Len(p) = 2)
  <2>1. Len(<<>>) = 0
    OBVIOUS
  <2>2. QED
    BY <2>1 DEF IsYear, IsMonth
<1>3. ASSUME NEW t, IsMonth(p), e \in Days(t, p).entries PROVE Backed(t, p, e)
  <2>1. DateRange(p) \in Spans /\ IsPathOf(p, DateRange(p))
    BY <1>3, PathsOfSpans
  <2>2. e \in Found("day", Query("days", t, DateRange(p))).entries
    BY <1>3 DEF Days
  <2>3. QED
    BY <2>1, <2>2, FoundIsBacked
<1>4. ASSUME e \in TimelineBuckets(p).entries PROVE Backed("Timeline", p, e)
  <2>1. CASE Len(p) = 2
    BY <1>2, <1>3, <1>4, <2>1 DEF TimelineBuckets
  <2>2. CASE Len(p) # 2 /\ Told(IndexQuery).failed
    <3>1. TimelineBuckets(p).entries =
              (IF Bounded("Timeline") THEN Swept("Timeline", p) ELSE Reply(<<>>, {})).entries
      BY <1>1, <2>2 DEF TimelineBuckets
    <3>2. Bounded("Timeline") /\ e \in Swept("Timeline", p).entries
      BY <1>1, <1>4, <3>1
    <3>3. QED
      BY <1>2, <2>2, <3>2, SweptIsBacked
  <2>3. CASE Len(p) # 2 /\ ~Told(IndexQuery).failed
    <3>1. e \in Indexed(p).entries
      BY <1>4, <2>3 DEF TimelineBuckets
    <3>2. QED
      BY <1>2, <2>3, <3>1, IndexedIsBacked
  <2>4. QED
    BY <2>1, <2>2, <2>3
<1>5. ASSUME e \in AlbumBuckets(p).entries PROVE Backed("Album", p, e)
  <2>1. CASE IsMonth(p)
    BY <1>2, <1>3, <1>5, <2>1 DEF AlbumBuckets
  <2>2. CASE IsYear(p)
    <3>1. e \in Swept("Album", p).entries
      BY <1>2, <1>5, <2>2 DEF AlbumBuckets
    <3>2. QED
      BY <2>2, <3>1, SweptIsBacked
  <2>3. CASE p = <<>>
    <3>1. Len(p) # 2 /\ Len(p) # 1
      BY <1>2, <2>3
    <3>2. AlbumBuckets(p).entries =
              (IF Bounded("Album") THEN Swept("Album", p) ELSE Reply(<<>>, {})).entries
      BY <1>1, <3>1 DEF AlbumBuckets
    <3>3. Bounded("Album") /\ e \in Swept("Album", p).entries
      BY <1>1, <1>5, <3>2
    <3>4. QED
      BY <2>3, <3>3, SweptIsBacked
  <2>4. QED
    BY <2>1, <2>2, <2>3
<1>6. ASSUME e \in ViewBuckets(p).entries PROVE Backed("View", p, e)
  <2> DEFINE inner == CASE ~Bounded("View") -> Reply(<<>>, {})
                        [] Bounded("View") /\ Len(p) = 2 -> Days("View", p)
                        [] OTHER -> Swept("View", p)
  <2>1. e \in inner.entries
    BY <1>1, <1>6 DEF ViewBuckets
  <2>2. Bounded("View")
    BY <1>1, <2>1
  <2>3. CASE Len(p) = 2
    <3>1. e \in Days("View", p).entries
      BY <2>1, <2>2, <2>3
    <3>2. QED
      BY <1>2, <1>3, <2>3, <3>1
  <2>4. CASE Len(p) # 2
    <3>1. e \in Swept("View", p).entries
      BY <2>1, <2>2, <2>4
    <3>2. QED
      BY <1>2, <2>2, <2>4, <3>1, SweptIsBacked
  <2>5. QED
    BY <2>3, <2>4
<1>7. QED
  BY <1>4, <1>5, <1>6

LEMMA DayIsBacked ==
    ASSUME IInv, AnswerInv, NEW t, NEW p \in Paths, Nested(p), IsDay(p),
           NEW e \in DayFolder(t, DateRange(p)).entries
    PROVE  Backed(t, p, e)
<1> DEFINE r == DateRange(p)
           split == SplitQuery(t, r)
           inner == CASE ~Known(split) -> Reply(<<>>, {})
                      [] Known(split) /\ IsSplit(t, r) -> Hours(t, r)
                      [] OTHER -> FilesIn(t, r)
<1>1. r \in Spans /\ IsPathOf(p, r)
  BY PathsOfSpans
<1>2. e \in inner.entries
  BY DEF DayFolder, Behind, Reply
<1>3. Known(split)
  BY <1>2 DEF Reply
<1>4. CASE IsSplit(t, r)
  <2>1. e \in Found("hour", Query("hours", t, r)).entries
    BY <1>2, <1>3, <1>4 DEF Hours
  <2> HIDE DEF r
  <2>2. QED
    BY <1>1, <2>1, FoundIsBacked
<1>5. CASE ~IsSplit(t, r)
  <2>1. e \in FilesIn(t, r).entries
    BY <1>2, <1>3, <1>5
  <2> HIDE DEF r
  <2>2. QED
    BY <1>1, <2>1, FilesAreBacked
<1>6. QED
  BY <1>4, <1>5

LEMMA HourIsBacked ==
    ASSUME IInv, AnswerInv, NEW t, NEW p \in Paths, Nested(p), HourRange(p) # NoSpan,
           NEW e \in FilesIn(t, HourRange(p)).entries
    PROVE  Backed(t, p, e)
BY PathsOfSpans, FilesAreBacked

LEMMA RootFilesAreBacked ==
    ASSUME IInv, AnswerInv, NEW t, NEW e \in FilesIn(t, Everything).entries
    PROVE  Backed(t, <<>>, e)
<1>1. Everything \in Spans
  BY ReadingHolds, SomeQueries
<1>2. IsPathOf(<<>>, Everything)
  BY RootHolds DEF IsPathOf
<1>3. QED
  BY <1>1, <1>2, FilesAreBacked

\* Every entry of a folder has an asset behind it that was in the folder.
LEMMA ListingIsBacked ==
    ASSUME IInv, AnswerInv, NEW t \in Trees, NEW p \in Paths, FolderPath(p), Nested(p),
           NEW e \in Listing(t, p).entries
    PROVE  Backed(t, p, e)
<1> DEFINE dates == /\ Len(p) <= 2 /\ Len(p) # 3 /\ Len(p) # 4
                    /\ p = <<>> \/ IsYear(p) \/ IsMonth(p)
           day == /\ ~(Len(p) <= 2) /\ Len(p) = 3 /\ Len(p) # 4
                  /\ IsDay(p)
           hour == /\ ~(Len(p) <= 2) /\ Len(p) # 3 /\ Len(p) = 4
                   /\ HourRange(p) # NoSpan
<1>1. /\ Reply(<<>>, {}).entries = {} /\ Len(<<>>) = 0
      /\ t = "Timeline" \/ t = "Album" \/ t = "View"
  BY DEF Reply, Trees
<1>2. dates \/ day \/ hour
  <2>1. \A n \in {0, 1, 2} : n <= 2 /\ n # 3 /\ n # 4
    OBVIOUS
  <2>2. ~(3 <= 2) /\ ~(4 <= 2) /\ 3 # 4
    OBVIOUS
  <2>3. CASE p = <<>> \/ IsYear(p) \/ IsMonth(p)
    <3>1. Len(p) \in {0, 1, 2}
      BY <1>1, <2>3 DEF IsYear, IsMonth
    <3>2. QED
      BY <2>1, <2>3, <3>1
  <2>4. CASE IsDay(p)
    <3>1. Len(p) = 3
      BY <2>4 DEF IsDay
    <3>2. QED
      BY <2>2, <2>4, <3>1
  <2>5. CASE Len(p) = 4 /\ HourRange(p) # NoSpan
    BY <2>2, <2>5
  <2>6. QED
    BY <2>3, <2>4, <2>5 DEF FolderPath
<1>3. dates => /\ e \in TimelineBuckets(p).entries => Backed("Timeline", p, e)
               /\ e \in AlbumBuckets(p).entries => Backed("Album", p, e)
               /\ e \in ViewBuckets(p).entries => Backed("View", p, e)
  BY TreeBucketsAreBacked
<1>4. day => (e \in DayFolder(t, DateRange(p)).entries => Backed(t, p, e))
  BY DayIsBacked
<1>5. hour => (e \in FilesIn(t, HourRange(p)).entries => Backed(t, p, e))
  BY HourIsBacked
<1>6. CASE t = "Timeline"
  <2>1. e \in DateFolder(p).entries
    BY <1>6 DEF Listing
  <2>2. dates => e \in TimelineBuckets(p).entries
    BY <2>1 DEF DateFolder
  <2>3. day => e \in DayFolder("Timeline", DateRange(p)).entries
    BY <2>1 DEF DateFolder
  <2>4. hour => e \in FilesIn("Timeline", HourRange(p)).entries
    BY <2>1 DEF DateFolder, HourFolder
  <2> HIDE DEF dates, day, hour
  <2>5. QED
    BY <1>2, <1>3, <1>4, <1>5, <1>6, <2>2, <2>3, <2>4
<1>7. CASE t = "Album" /\ p = <<>>
  <2>1. e \in AlbumFolder(p).entries
    BY <1>7 DEF Listing
  <2>2. CASE AlbumIsSplit
    <3>1. e \in AlbumBuckets(p).entries
      BY <2>1, <2>2 DEF AlbumFolder
    <3>2. Nested(p) => Backed("Album", p, e)
      BY <1>7, <3>1, TreeBucketsAreBacked
    <3>3. QED
      BY <1>7, <3>2
  <2>3. CASE ~AlbumIsSplit
    <3>1. e \in FilesIn(t, Everything).entries
      BY <1>7, <2>1, <2>3 DEF AlbumFolder
    <3>2. Backed(t, <<>>, e)
      BY <3>1, RootFilesAreBacked
    <3>3. QED
      BY <1>7, <3>2
  <2>4. QED
    BY <2>2, <2>3
<1>8. CASE t = "Album" /\ p # <<>>
  <2>1. e \in AlbumDateFolder(p).entries
    BY <1>8 DEF Listing
  <2>2. dates => e \in AlbumBuckets(p).entries
    BY <2>1 DEF AlbumDateFolder
  <2>3. day => e \in DayFolder("Album", DateRange(p)).entries
    BY <2>1 DEF AlbumDateFolder
  <2>4. hour => e \in FilesIn("Album", HourRange(p)).entries
    BY <2>1 DEF AlbumDateFolder, AlbumHourFolder
  <2> HIDE DEF dates, day, hour
  <2>5. QED
    BY <1>2, <1>3, <1>4, <1>5, <1>8, <2>2, <2>3, <2>4
<1>9. CASE t = "View" /\ p = <<>>
  <2>1. e \in ViewFolder(p).entries
    BY <1>9 DEF Listing
  <2>2. used.view
    BY <1>1, <2>1 DEF ViewFolder
  <2>3. CASE used.flat
    <3>1. e \in FilesIn(t, Everything).entries
      BY <1>9, <2>1, <2>2, <2>3 DEF ViewFolder
    <3>2. Backed(t, <<>>, e)
      BY <3>1, RootFilesAreBacked
    <3>3. QED
      BY <1>9, <3>2
  <2>4. CASE ~used.flat
    <3>1. e \in ViewBuckets(p).entries
      BY <2>1, <2>2, <2>4 DEF ViewFolder
    <3>2. Nested(p) => Backed("View", p, e)
      BY <1>9, <3>1, TreeBucketsAreBacked
    <3>3. QED
      BY <1>9, <3>2
  <2>5. QED
    BY <2>3, <2>4
<1>10. CASE t = "View" /\ p # <<>>
  <2>1. e \in ViewDateFolder(p).entries
    BY <1>10 DEF Listing
  <2>2. Len(p) # 4 => used.view /\ ~used.flat
    <3>1. SUFFICES ASSUME Len(p) # 4, ~used.view \/ used.flat PROVE FALSE
      OBVIOUS
    <3>2. ViewDateFolder(p) = Reply(<<>>, {})
      BY <3>1 DEF ViewDateFolder
    <3>3. QED
      BY <1>1, <2>1, <3>2
  <2>3. dates => e \in ViewBuckets(p).entries
    BY <2>1, <2>2 DEF ViewDateFolder
  <2>4. day => e \in DayFolder("View", DateRange(p)).entries
    BY <2>1, <2>2 DEF ViewDateFolder
  <2>5. hour => e \in ViewHourFolder(p).entries
    BY <2>1 DEF ViewDateFolder
  <2>6. e \in ViewHourFolder(p).entries => e \in FilesIn("View", HourRange(p)).entries
    BY <1>1 DEF ViewHourFolder
  <2> HIDE DEF dates, day, hour
  <2>7. QED
    BY <1>2, <1>3, <1>4, <1>5, <1>10, <2>3, <2>4, <2>5, <2>6
<1>11. QED
  BY <1>1, <1>6, <1>7, <1>8, <1>9, <1>10

\* A request is for a folder in this sense, and so is what it may open next; the
\* buckets whose get_member has been called are dates of their parent.
PlaceInv ==
    /\ stage \in {"listing", "members"} => FolderPath(path)
    /\ stage # "idle" => Nested(path)
    /\ ListingInventsNothing
    /\ stage = "members" => \A e \in names \ left : Nested(Append(path, e.name))
    /\ \A e \in seen.entries : Nested(Append(seen.path, e.name))

LEMMA AppendIsNested ==
    ASSUME NEW p \in Paths, NEW name \in Kinds \X Nat, Nested(p),
           Len(p) = 1 /\ name[1] = "month" => DateRange(Append(p, name)) # NoSpan,
           Len(p) = 3 /\ name[1] = "hour" => name[2] < HoursPerDay
    PROVE  Nested(Append(p, name))
<1> DEFINE b == Append(p, name)
<1>1. /\ Len(p) \in Nat /\ b \in Paths /\ Len(b) = Len(p) + 1 /\ b[Len(p) + 1] = name
      /\ \A i \in 1..Len(p) : b[i] = p[i]
  BY DEF Paths
<1> HIDE DEF b
<1>2. ASSUME Len(b) >= 2, b[2][1] = "month" PROVE b[2][2] \div MonthsPerYear = b[1][2]
  <2>1. CASE Len(p) = 1
    <3>1. Len(b) = 2 /\ b[2] = name
      BY <1>1, <2>1
    <3>2. DateRange(b) # NoSpan
      BY <1>2, <2>1, <3>1 DEF b
    <3>3. IsYear(b) \/ IsMonth(b) \/ IsDay(b)
      BY <1>1, <3>2, DateRanges
    <3>4. IsMonth(b)
      BY <3>1, <3>3 DEF IsYear, IsDay
    <3>5. QED
      BY <3>4 DEF IsMonth
  <2>2. CASE Len(p) # 1
    <3>1. Len(p) >= 2 /\ 1 \in 1..Len(p) /\ 2 \in 1..Len(p)
      <4>1. \A n \in Nat : n + 1 >= 2 /\ n # 1 => n >= 2 /\ 1 \in 1..n /\ 2 \in 1..n
        OBVIOUS
      <4>2. Len(p) \in Nat /\ Len(p) + 1 >= 2
        BY <1>1, <1>2
      <4>3. QED
        BY <2>2, <4>1, <4>2
    <3>2. b[1] = p[1] /\ b[2] = p[2]
      BY <1>1, <3>1
    <3>3. QED
      BY <1>2, <3>1, <3>2 DEF Nested
  <2>3. QED
    BY <2>1, <2>2
<1>3. ASSUME Len(b) = 4, b[4][1] = "hour" PROVE b[4][2] < HoursPerDay
  <2>1. Len(p) = 3
    <3>1. \A n \in Nat : n + 1 = 4 => n = 3
      OBVIOUS
    <3>2. Len(p) \in Nat /\ Len(p) + 1 = 4
      BY <1>1, <1>3
    <3>3. QED
      BY <3>1, <3>2
  <2>2. b[4] = name
    BY <1>1, <2>1
  <2>3. QED
    BY <1>3, <2>1, <2>2
<1>4. QED
  BY <1>2, <1>3 DEF Nested, b

\* The members of a folder are folders within it, or files.
LEMMA MembersAreNested ==
    ASSUME IInv, PlaceInv, stage = "members", NEW now, NEW e \in names, IsMember(e, now)
    PROVE  Nested(Append(path, e.name))
<1>1. e \in Names /\ e.name \in Kinds \X Nat /\ path \in Paths /\ Shown(e) /\ Nested(path)
  BY DEF IInv, SeenInv, RequestInv, Names, PlaceInv
<1>2. e.name[1] = "month" => DateRange(Append(path, e.name)) # NoSpan
  BY DEF IsMember
<1>3. ASSUME e.name[1] = "hour" PROVE e.name[2] < HoursPerDay
  <2>1. PICK a \in ever : InBucket(e.name, Local[a]) \/ InBucket(e.name, Taken[a])
    BY <1>1, <1>3 DEF Shown, IsBucket
  <2>2. a \in Assets
    BY DEF IInv, LibraryInv
  <2>3. Local[a] \in Nat /\ Taken[a] \in Nat
    BY <2>2, AssetsAreTyped
  <2>4. e.name[2] = Local[a] % HoursPerDay \/ e.name[2] = Taken[a] % HoursPerDay
    BY <1>3, <2>1 DEF InBucket, Number
  <2>5. \A t \in Nat : t % HoursPerDay < HoursPerDay
    BY ConstantsAssumption
  <2>6. QED
    BY <2>3, <2>4, <2>5
<1>4. QED
  BY <1>1, <1>2, <1>3, AppendIsNested

\* A step that leaves the listing alone.
LEMMA PlaceKept ==
    ASSUME PlaceInv, UNCHANGED <<stage, tree, path, names, left, seen>>, ever \subseteq ever',
           edited => edited', stage = "members" => edited' \/ settings' = settings
    PROVE  PlaceInv'
<1>1. ListingInventsNothing'
  <2> SUFFICES ASSUME stage = "members", NEW e \in names
               PROVE  \E a \in ever' :
                        /\ Below(path, Taken[a]) \/ Below(path, Local[a])
                        /\ edited' \/ tree # "View"
                                   \/ (settings'.after <= Taken[a] /\ Taken[a] < settings'.before)
                        /\ IF IsBucket(e.name)
                           THEN InBucket(e.name, Local[a]) \/ InBucket(e.name, Taken[a])
                           ELSE e.asset = a
    BY DEF ListingInventsNothing, InFilter
  <2>1. PICK a \in ever :
          /\ Below(path, Taken[a]) \/ Below(path, Local[a])
          /\ edited \/ tree # "View"
                    \/ (settings.after <= Taken[a] /\ Taken[a] < settings.before)
          /\ IF IsBucket(e.name) THEN InBucket(e.name, Local[a]) \/ InBucket(e.name, Taken[a])
                                 ELSE e.asset = a
    BY DEF PlaceInv, ListingInventsNothing, InFilter
  <2>2. a \in ever'
    BY <2>1
  <2>3. edited' \/ (~edited /\ settings' = settings)
    OBVIOUS
  <2>4. QED
    BY <2>1, <2>2, <2>3
<1>2. /\ stage' \in {"listing", "members"} => FolderPath(path')
      /\ stage' # "idle" => Nested(path')
      /\ stage' = "members" => \A e \in names' \ left' : Nested(Append(path', e.name))
      /\ \A e \in seen'.entries : Nested(Append(seen'.path, e.name))
  BY DEF PlaceInv
<1>3. QED
  BY <1>1, <1>2 DEF PlaceInv, FolderPath, Nested

\* A request begins or ends.
LEMMA PlaceLeft ==
    ASSUME PlaceInv, seen' = seen, stage' = "idle" \/ (stage' = "resolving" /\ Nested(path'))
    PROVE  PlaceInv'
<1>1. /\ stage' # "listing" /\ stage' # "members" /\ (stage' # "idle" => Nested(path'))
  OBVIOUS
<1>2. \A e \in seen'.entries : Nested(Append(seen'.path, e.name))
  BY DEF PlaceInv
<1>3. QED
  BY <1>1, <1>2 DEF PlaceInv, ListingInventsNothing, Nested

LEMMA ConcludeKeepsPlace ==
    ASSUME LInv, PlaceInv, Question = {}, Conclude(Resolved(tree, path))
    PROVE  PlaceInv'
<1> DEFINE o == Resolved(tree, path)
<1>1. /\ stage = "resolving" /\ seen' = seen
      /\ \/ /\ o.what = "folder" /\ stage' = "listing"
            /\ UNCHANGED <<tree, path, names, left>>
         \/ o.what # "folder" /\ End(o.what)
  BY DEF Conclude
<1>2. /\ tree \in Trees /\ path \in Paths /\ Reading /\ AllKnown(o.asks)
  BY <1>1, ReadingHolds, TheQuestion DEF LInv, IInv, RequestInv
<1>3. o.what = "folder" => FolderPath(path)
  <2>1. o.what = "folder" => IsFolderOf(tree, path)
    BY <1>2, ResolvedIsTyped
  <2>2. QED
    BY <1>2, <2>1, FolderPaths DEF FolderPath
<1> HIDE DEF o
<1>4. CASE o.what = "folder" /\ stage' = "listing" /\ UNCHANGED <<tree, path, names, left>>
  <2>1. FolderPath(path) /\ Nested(path)
    BY <1>1, <1>3, <1>4 DEF PlaceInv
  <2>2. \A e \in seen'.entries : Nested(Append(seen'.path, e.name))
    BY <1>1 DEF PlaceInv
  <2>3. ListingInventsNothing'
    BY <1>4 DEF ListingInventsNothing
  <2>4. FolderPath(path)' /\ Nested(path)'
    BY <1>4, <2>1 DEF FolderPath, Nested
  <2>5. QED
    BY <1>4, <2>2, <2>3, <2>4 DEF PlaceInv, Nested
<1>5. CASE o.what # "folder" /\ End(o.what)
  BY <1>1, <1>5, PlaceLeft DEF End
<1>6. QED
  BY <1>1, <1>4, <1>5

LEMMA NameKeepsPlace ==
    ASSUME LInv, PlaceInv, Name(Listing(tree, path).entries)
    PROVE  PlaceInv'
<1>1. /\ stage = "listing" /\ stage' = "members"
      /\ names' = Listing(tree, path).entries /\ left' = Listing(tree, path).entries
      /\ UNCHANGED <<settings, tree, path, seen, ever, edited>>
  BY DEF Name, NameWith, world
<1>2. /\ IInv /\ AnswerInv /\ tree \in Trees /\ path \in Paths
      /\ FolderPath(path) /\ Nested(path) /\ (~edited => used = settings)
  BY <1>1 DEF LInv, IInv, RequestInv, PlaceInv, HistoryInv
<1>3. ListingInventsNothing'
  <2> SUFFICES ASSUME NEW e \in Listing(tree, path).entries
               PROVE  \E a \in ever :
                        /\ Below(path, Taken[a]) \/ Below(path, Local[a])
                        /\ edited \/ tree # "View"
                                  \/ (settings.after <= Taken[a] /\ Taken[a] < settings.before)
                        /\ IF IsBucket(e.name)
                           THEN InBucket(e.name, Local[a]) \/ InBucket(e.name, Taken[a])
                           ELSE e.asset = a
    BY <1>1 DEF ListingInventsNothing, InFilter
  <2>1. Backed(tree, path, e)
    BY <1>2, ListingIsBacked
  <2>2. PICK a \in ever : Backs(a, tree, path, e)
    BY <2>1 DEF Backed
  <2>3. QED
    BY <1>2, <2>2 DEF Backs
<1>4. /\ FolderPath(path)' /\ Nested(path)'
      /\ \A e \in seen'.entries : Nested(Append(seen'.path, e.name))
  <2>1. \A e \in seen'.entries : Nested(Append(seen'.path, e.name))
    BY <1>1 DEF PlaceInv
  <2>2. QED
    BY <1>1, <1>2, <2>1 DEF FolderPath, Nested
<1>5. names' \ left' = {}
  BY <1>1
<1>6. QED
  BY <1>3, <1>4, <1>5 DEF PlaceInv, Nested

LEMMA NextMemberKeepsPlace ==
    ASSUME LInv, PlaceInv, NEW now, NextMember(now)
    PROVE  PlaceInv'
<1>1. /\ stage = "members"
      /\ UNCHANGED <<settings, stage, tree, path, names, seen, ever, edited>>
      /\ \A e \in left \ left' : IsMember(e, now)
  BY DEF NextMember, world
<1>2. IInv /\ left \in SUBSET names
  BY DEF LInv, IInv, SeenInv
<1>3. ASSUME NEW e \in names \ left' PROVE Nested(Append(path, e.name))
  <2>1. CASE e \in left
    BY <1>1, <1>2, <1>3, <2>1, MembersAreNested
  <2>2. CASE e \notin left
    BY <1>1, <1>3, <2>2 DEF PlaceInv
  <2>3. QED
    BY <2>1, <2>2
<1>4. /\ stage \in {"listing", "members"} => FolderPath(path)
      /\ stage # "idle" => Nested(path)
      /\ \A e \in seen.entries : Nested(Append(seen.path, e.name))
  BY DEF PlaceInv
<1>5. ListingInventsNothing'
  BY <1>1 DEF PlaceInv, ListingInventsNothing, InFilter
<1>6. QED
  BY <1>1, <1>3, <1>4, <1>5 DEF PlaceInv, FolderPath, Nested

LEMMA MembersKeepsPlace ==
    ASSUME LInv, PlaceInv, NEW now, Members(AllMembers(now))
    PROVE  PlaceInv'
<1>1. stage = "members" /\ stage' = "idle"
  BY DEF Members, End
<1>2. IInv /\ left \in SUBSET names
  BY DEF LInv, IInv, SeenInv
<1>3. CASE seen' = seen
  BY <1>1, <1>3, PlaceLeft
<1>4. CASE AllMembers(now) /\ seen' = [tree |-> tree, path |-> path, entries |-> names]
  <2>1. ASSUME NEW e \in names PROVE Nested(Append(path, e.name))
    <3>1. CASE e \in left
      BY <1>1, <1>2, <1>4, <3>1, MembersAreNested DEF AllMembers
    <3>2. CASE e \notin left
      BY <1>1, <3>2 DEF PlaceInv
    <3>3. QED
      BY <3>1, <3>2
  <2>2. seen'.path = path /\ seen'.entries = names
    BY <1>4
  <2>3. \A e \in seen'.entries : Nested(Append(seen'.path, e.name))
    BY <2>1, <2>2
  <2>4. QED
    BY <1>1, <2>3 DEF PlaceInv, ListingInventsNothing, Nested
<1>5. QED
  BY <1>3, <1>4 DEF Members

LEMMA PlaceStepKeeps ==
    ASSUME LInv, PlaceInv, [Next]_vars
    PROVE  PlaceInv'
<1> DEFINE entries == Listing(tree, path).entries
<1>1. ASSUME NEW q \in Question, NEW l \in past \cup {lib},
             Ask(q, l) \/ ReadPage(q, l) \/ IndexFails(q) \/ Fail(q)
      PROVE  PlaceInv'
  <2>1. CASE Ask(q, l) \/ IndexFails(q)
    <3>1. UNCHANGED <<settings, stage, tree, path, names, left, seen, ever, edited>>
      BY <2>1 DEF Ask, IndexFails, world
    <3>2. QED
      BY <3>1, PlaceKept
  <2>2. CASE ReadPage(q, l)
    <3>1. UNCHANGED <<settings, seen, ever, edited>>
          /\ (UNCHANGED <<stage, tree, path, names, left>> \/ stage' = "idle")
      BY <2>2 DEF ReadPage, ReadUpTo, world, going, End
    <3>2. QED
      BY <3>1, PlaceKept, PlaceLeft
  <2>3. CASE Fail(q)
    BY <2>3, PlaceLeft DEF Fail, End
  <2>4. QED
    BY <1>1, <2>1, <2>2, <2>3
<1>2. CASE Question = {} /\ Conclude(Resolved(tree, path))
  BY <1>2, ConcludeKeepsPlace
<1>3. CASE Name(entries)
  BY <1>3, NameKeepsPlace
<1>4. CASE NextMember(NamesOf(entries))
  BY <1>4, NextMemberKeepsPlace
<1>5. CASE Members(AllMembers(NamesOf(entries)))
  BY <1>5, MembersKeepsPlace
<1>6. CASE RequestStep
  <2>1. lib \in past \cup {lib}
    OBVIOUS
  <2> HIDE DEF entries
  <2>2. QED
    BY <1>1, <1>2, <1>3, <1>4, <1>5, <1>6, <2>1 DEF RequestStep, Proceed, entries
<1>7. ASSUME NEW t, NEW p, NEW e, Start(t, p, e), Nested(p) PROVE PlaceInv'
  <2>1. stage' = "resolving" /\ path' = p /\ seen' = seen
    BY <1>7 DEF Start
  <2>2. Nested(path')
    BY <1>7, <2>1
  <2>3. QED
    BY <2>1, <2>2, PlaceLeft
<1>8. ASSUME NEW t \in Trees, StartAtRoot(t) PROVE PlaceInv'
  <2>1. Nested(<<>>)
    BY DEF Nested
  <2>2. QED
    BY <1>7, <1>8, <2>1 DEF StartAtRoot
<1>9. ASSUME NEW e \in seen.entries, Open(e) PROVE PlaceInv'
  BY <1>7, <1>9 DEF Open, PlaceInv
<1>10. ASSUME NEW a \in Assets, Change(a) PROVE PlaceInv'
  <2>1. /\ UNCHANGED <<settings, stage, tree, path, names, left, seen, edited>>
        /\ ever \subseteq ever'
    BY <1>10 DEF Change
  <2>2. QED
    BY <2>1, PlaceKept
<1>11. ASSUME NEW l \in past, Expire(l) PROVE PlaceInv'
  <2>1. UNCHANGED <<settings, stage, tree, path, names, left, seen, edited, ever>>
    BY <1>11 DEF Expire
  <2>2. QED
    BY <2>1, PlaceKept
<1>12. ASSUME NEW s \in Settings, Edit(s) PROVE PlaceInv'
  <2>1. /\ UNCHANGED <<stage, tree, path, names, left, seen, ever>>
        /\ edited' = (edited \/ stage # "idle")
    BY <1>12 DEF Edit
  <2>2. /\ edited => edited'
        /\ stage = "members" => edited'
    BY <2>1
  <2>3. QED
    BY <2>1, <2>2, PlaceKept
<1>13. CASE UNCHANGED vars
  <2>1. UNCHANGED <<settings, stage, tree, path, names, left, seen, edited, ever>>
    BY <1>13 DEF vars, world
  <2>2. QED
    BY <2>1, PlaceKept
<1>14. QED
  BY <1>6, <1>8, <1>9, <1>10, <1>11, <1>12, <1>13 DEF Next

LEMMA PlaceBegins == Init => PlaceInv
BY DEF Init, PlaceInv, ListingInventsNothing

LEMMA PlacesHold == Spec => [](LInv /\ PlaceInv)
<1>1. Init => LInv /\ PlaceInv
  BY InitEstablishesIt, PlaceBegins
<1>2. LInv /\ PlaceInv /\ [Next]_vars => (LInv /\ PlaceInv)'
  BY NextKeepsIt, PlaceStepKeeps
<1>3. QED
  BY <1>1, <1>2, PTL DEF Spec

-----------------------------------------------------------------------------
(***************************************************************************)
(* The theorems.                                                           *)
(***************************************************************************)
\* A folder's listing is whole, for any library, dates, settings and page size:
\* an asset that was in the folder all the time that it was read is under one
\* of its names, whether it was found by Immich's index, by a sweep of years or
\* months, by a search of days or hours, or as a file, and whatever the cache
\* answered from earlier libraries (get_member_names of the collections of
\* webdav_provider.py, the date buckets of fs_service.py).  Only if the library
\* changes between the pages of one search may an asset be missed.
THEOREM ListingsAreWhole == Spec => []ListingIsWhole
<1>1. LInv => ListingIsWhole
  <2> SUFFICES ASSUME LInv, stage = "members", ~edited, ~paged \/ ~stirred,
                      NEW a \in always, Below(path, Local[a]), InFilter(tree, a),
                      IF path = <<>> THEN \A b \in ever : Agrees(b) ELSE Agrees(a)
               PROVE  \E e \in names : Covers(e, a)
    BY DEF ListingIsWhole
  <2>1. IInv /\ HistoryInv /\ AnswerInv /\ stage # "idle" /\ ~(paged /\ stirred)
    BY DEF LInv
  <2>2. tree \in Trees /\ path \in Paths /\ IsFolderOf(tree, path) /\ Form(tree, path, names)
    BY NamesAreOfForm
  <2>3. QED
    BY <2>1, <2>2, ListingCovers
<1>2. QED
  BY <1>1, TheInvariantHolds, PTL

\* Every name that a listing returns has its member when the server asks the
\* collection for it, however the library changes between the two calls, as
\* long as the settings stay and the times of the assets agree: the day it is
\* under is a date of its parent, and it is among the names that are made anew
\* from the same answers (get_member of the collections).
THEOREM NamesHaveMembers == Spec => []EveryNameHasItsMember
<1>1. LInv => EveryNameHasItsMember
  BY DEF LInv
<1>2. QED
  BY <1>1, TheInvariantHolds, PTL

\* While nothing changes, what a listing showed can be opened: the path of an
\* entry is resolved to a folder or to that very asset, although resolving asks
\* other questions than listing did (has_assets_in_range, should_split_day, the
\* search of the hour) and in another request (get_resource_inst).
THEOREM ListedNamesOpen == Spec => []ListedOpens
<1>1. LInv => ListedOpens
  BY DEF LInv
<1>2. QED
  BY <1>1, TheInvariantHolds, PTL

\* A listing shows nothing that was never in its folder: behind every name is
\* an asset of a library that the request may see, that the dates of the path
\* cover, that the saved view's own dates cover, and that is the file or is in
\* the bucket of that name, by whichever of the index, the sweeps and the
\* searches it was found (fs_service.py, get_member_names in webdav_provider.py).
THEOREM NothingInvented == Spec => []ListingInventsNothing
<1>1. PlaceInv => ListingInventsNothing
  BY DEF PlaceInv
<1>2. QED
  BY <1>1, PlacesHold, PTL
================================================================================
