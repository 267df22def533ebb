---------------------------- MODULE Folders_proofs ----------------------------
(***************************************************************************)
(* What the folders show and refuse, and what their names stand for, for   *)
(* any library, any dates and settings, and any changes of them.           *)
(***************************************************************************)
EXTENDS Folders, FiniteSetTheorems, TLAPS

-----------------------------------------------------------------------------
(***************************************************************************)
(* Numbers.                                                                *)
(***************************************************************************)
\* A bucket holds the times that its number is made of.
LEMMA Quotients ==
    ASSUME NEW t \in Nat, NEW L \in Nat \ {0}
    PROVE  /\ t \div L \in Nat /\ t % L \in Nat
           /\ \A n \in Nat : n * L <= t /\ t < (n + 1) * L => t \div L = n
<1>1. t \div L \in Nat /\ t % L \in Nat
  OBVIOUS
<1>2. ASSUME NEW n \in Nat, n * L <= t, t < (n + 1) * L
      PROVE  t \div L = n
  BY <1>2
<1>3. QED
  BY <1>1, <1>2

\* Every length is a number of hours.
LEMMA Lengths ==
    ASSUME NEW kind
    PROVE  Length(kind) \in Nat \ {0}
<1>1. /\ HoursPerDay \in Nat \ {0} /\ DaysPerMonth \in Nat \ {0}
      /\ MonthsPerYear \in Nat \ {0}
  BY ConstantsAssumption
<1>2. \A i, j \in Nat \ {0} : i * j \in Nat \ {0}
  OBVIOUS
<1>3. QED
  BY <1>1, <1>2 DEF Length, DaysPerYear

\* The parts of a date are numbers.
LEMMA Numbers ==
    ASSUME NEW kind, NEW t \in Nat
    PROVE  Number(kind, t) \in Nat
BY Lengths, Quotients, ConstantsAssumption DEF Number

-----------------------------------------------------------------------------
(***************************************************************************)
(* The invariant.                                                          *)
(***************************************************************************)
Row == [trees : SUBSET Trees, albumSplit : Int, daySplit : Int,
        view : BOOLEAN, flat : BOOLEAN, after : Int, before : Int]
Paths == Seq(Kinds \X Nat)

\* An entry is named after a date that an asset has, or after its own asset.
Shown(e) ==
    \E a \in ever :
        IF IsBucket(e.name) THEN InBucket(e.name, Local[a]) \/ InBucket(e.name, Taken[a])
                            ELSE e.asset = a
Proper(e) ==
    e.asset \in Assets => e.name = <<"file", Display[e.asset]>> \/ e.name = <<"file12", e.asset>>
Good(e) == e \in Names /\ e.asset \in Assets \cup {0} /\ Proper(e) /\ Shown(e)

\* What the request has been told is of libraries that it may see.
ToldInv ==
    /\ got \in SUBSET ever /\ twice \in SUBSET got
    /\ \A q \in DOMAIN memo :
        /\ memo[q].got \in SUBSET ever /\ memo[q].twice \in SUBSET memo[q].got
        /\ memo[q].failed \in BOOLEAN
        /\ q.kind = "has" => \A a \in memo[q].got : q.from <= Taken[a] /\ Taken[a] < q.to

LibraryInv ==
    /\ lib \in SUBSET Assets /\ past \in SUBSET SUBSET Assets
    /\ always \in SUBSET Assets /\ ever \in SUBSET Assets
    /\ stage # "idle" => lib \cup UNION past \in SUBSET ever

RequestInv ==
    /\ settings \in Settings /\ used \in Row
    /\ stage \in {"idle", "resolving", "listing", "members"}
    /\ tree \in Trees /\ path \in Paths /\ page \in 1..MaxPages
    /\ answer \in {"none", "folder", "file", "missing", "refused", "error", "broken"}
    /\ stage # "idle" => answer = "none"
    /\ file \in Assets \cup {0}

\* What was listed, and what a request opens, is what listings may show.
SeenInv ==
    /\ \A e \in names : e \in Names /\ e.asset \in Assets \cup {0} /\ Proper(e)
    /\ left \in SUBSET names
    /\ stage # "idle" => \A e \in names : Shown(e)
    /\ seen.tree \in Trees /\ seen.path \in Paths
    /\ \A e \in seen.entries : e \in Names /\ e.asset \in Assets \cup {0} /\ Proper(e)
    /\ target # None => target \in Names /\ Proper(target)
    /\ target # None /\ stage # "idle" => path # <<>> /\ path[Len(path)] = target.name

IInv == /\ ToldInv /\ LibraryInv /\ RequestInv /\ SeenInv /\ RefusedOnlyIfLong /\ NamesStick

-----------------------------------------------------------------------------
(***************************************************************************)
(* What listings show.                                                     *)
(***************************************************************************)
\* The times and the names of an asset are numbers.
LEMMA AssetsAreTyped ==
    ASSUME NEW a \in Assets
    PROVE  /\ Taken[a] \in Nat /\ Local[a] \in Nat /\ Display[a] \in Nat
           /\ a \in Nat /\ a # 0
<1>1. Horizon \in Nat \ {0} /\ Assets \subseteq Nat \ {0} /\ Display \in [Assets -> Nat]
  BY ConstantsAssumption
<1>2. Taken \in [Assets -> 0..Horizon - 1] /\ Local \in [Assets -> 0..Horizon - 1]
  BY ConstantsAssumption
<1>3. \A n \in 0..Horizon - 1 : n \in Nat
  BY <1>1
<1>4. QED
  BY <1>1, <1>2, <1>3

\* The name of a bucket of local times is a date that an asset has.
LEMMA LocalBucketIsGood ==
    ASSUME ever \in SUBSET Assets, NEW a \in ever,
           NEW kind \in {"year", "month", "day", "hour"}
    PROVE  Good(Entry(kind, Number(kind, Local[a]), 0))
<1> DEFINE e == Entry(kind, Number(kind, Local[a]), 0)
<1>1. e = [name |-> <<kind, Number(kind, Local[a])>>, asset |-> 0]
  BY DEF Entry
<1>2. Number(kind, Local[a]) \in Nat
  BY AssetsAreTyped, Numbers
<1>3. e.name[1] = kind /\ e.name[2] = Number(kind, Local[a]) /\ e.asset = 0
  BY <1>1
<1>4. e \in Names
  BY <1>1, <1>2 DEF Names, Kinds
<1>5. Shown(e)
  BY <1>3 DEF Shown, IsBucket, InBucket
<1>6. Proper(e)
  BY <1>3, ConstantsAssumption DEF Proper
<1>7. QED
  BY <1>3, <1>4, <1>5, <1>6 DEF Good

\* A bucket is named after the time its asset was searched by.
LEMMA SearchedBucketIsGood ==
    ASSUME ever \in SUBSET Assets, NEW a \in ever, NEW kind \in {"year", "month"},
           NEW n \in Nat, n * Length(kind) <= Taken[a], Taken[a] < (n + 1) * Length(kind)
    PROVE  Good(Entry(kind, n, 0))
<1> DEFINE e == Entry(kind, n, 0)
<1>1. e = [name |-> <<kind, n>>, asset |-> 0]
  BY DEF Entry
<1>2. e.name[1] = kind /\ e.name[2] = n /\ e.asset = 0
  BY <1>1
<1>3. e \in Names
  BY <1>1 DEF Names, Kinds
<1>4. Number(kind, Taken[a]) = n
  <2>1. Taken[a] \in Nat /\ Length(kind) \in Nat \ {0}
    BY AssetsAreTyped, Lengths
  <2>2. Taken[a] \div Length(kind) = n
    BY <2>1, Quotients
  <2>3. QED
    BY <2>2 DEF Number
<1>5. Shown(e)
  BY <1>2, <1>4 DEF Shown, IsBucket, InBucket
<1>6. Proper(e)
  BY <1>2, ConstantsAssumption DEF Proper
<1>7. QED
  BY <1>2, <1>3, <1>5, <1>6 DEF Good

\* A file is named after its asset.
FileEntry(e) == Good(e) /\ e.asset \in Assets
LEMMA FilesAreGood ==
    ASSUME ever \in SUBSET Assets, NEW found, found.got \in SUBSET ever
    PROVE  \A e \in Files(found) : FileEntry(e)
<1>1. SUFFICES ASSUME NEW e \in Files(found)
               PROVE  FileEntry(e)
  OBVIOUS
<1>2. PICK a \in found.got :
          e = Entry("file", DisplayName(a), a) \/ e = Entry("file12", a, a)
  BY <1>1 DEF Files, FirstFiles
<1>3. a \in ever /\ a \in Assets
  BY <1>2
<1>4. \/ e = [name |-> <<"file", Display[a]>>, asset |-> a]
      \/ e = [name |-> <<"file12", a>>, asset |-> a]
  BY <1>2 DEF Entry, DisplayName
<1>5. e.asset = a /\ (e.name = <<"file", Display[a]>> \/ e.name = <<"file12", a>>)
  BY <1>4
<1>6. e \in Names
  BY <1>3, <1>4, AssetsAreTyped DEF Names, Kinds
<1>7. Proper(e)
  BY <1>5 DEF Proper
<1>8. Shown(e)
  BY <1>3, <1>5 DEF Shown, IsBucket
<1>9. QED
  BY <1>3, <1>5, <1>6, <1>7, <1>8 DEF FileEntry, Good

-----------------------------------------------------------------------------
(***************************************************************************)
(* The answers of handlers.                                                *)
(***************************************************************************)
GoodReply(r) == \A e \in r.entries : Good(e)
Reading == ToldInv /\ ever \in SUBSET Assets /\ used \in Row

LEMMA RepliesAreGood ==
    ASSUME NEW asks, NEW entries, \A e \in entries : Good(e)
    PROVE  GoodReply(Reply(asks, entries))
BY DEF GoodReply, Reply

LEMMA EmptyIsGood ==
    ASSUME NEW asks
    PROVE  GoodReply(Reply(asks, {}))
BY DEF GoodReply, Reply

LEMMA BehindIsGood ==
    ASSUME NEW asks, NEW reply, GoodReply(reply)
    PROVE  GoodReply(Behind(asks, reply))
BY DEF GoodReply, Behind, Reply

\* An answer is of assets that the request may see.
LEMMA ToldIsSeen ==
    ASSUME Reading, NEW q
    PROVE  /\ Told(q).got \in SUBSET ever
           /\ q.kind = "has" => \A a \in Told(q).got : q.from <= Taken[a] /\ Taken[a] < q.to
<1>1. CASE Known(q)
  <2>1. Told(q) = memo[q] /\ q \in DOMAIN memo
    BY <1>1 DEF Told, Known
  <2>2. QED
    BY <2>1 DEF Reading, ToldInv
<1>2. CASE ~Known(q)
  <2>1. Told(q).got = {}
    BY <1>2 DEF Told, Nothing
  <2>2. QED
    BY <2>1
<1>3. QED
  BY <1>1, <1>2

LEMMA FoundIsGood ==
    ASSUME Reading, NEW q, NEW kind \in {"year", "month", "day", "hour"}
    PROVE  GoodReply(Found(kind, q))
<1> DEFINE numbers == {Number(kind, Local[a]) : a \in Told(q).got}
<1>1. ASSUME NEW e \in Buckets(kind, numbers)
      PROVE  Good(e)
  <2>1. PICK a \in Told(q).got : e = Entry(kind, Number(kind, Local[a]), 0)
    BY <1>1 DEF Buckets
  <2>2. a \in ever
    BY ToldIsSeen
  <2>3. QED
    BY <2>1, <2>2, LocalBucketIsGood DEF Reading
<1>2. QED
  BY <1>1, RepliesAreGood DEF Found

LEMMA FilesOfIsGood ==
    ASSUME Reading, NEW q
    PROVE  /\ GoodReply(FilesOf(q))
           /\ \A e \in FilesOf(q).entries : FileEntry(e)
<1>1. Told(q).got \in SUBSET ever
  BY ToldIsSeen
<1>2. \A e \in Files(Told(q)) : FileEntry(e)
  BY <1>1, FilesAreGood DEF Reading
<1>3. FilesOf(q).entries = Files(Told(q))
  BY DEF FilesOf, Reply
<1>4. QED
  BY <1>2, <1>3 DEF GoodReply, FileEntry

\* A span that has an asset has one that was taken in it.
LEMMA HasIsTaken ==
    ASSUME Reading, NEW t, NEW r, r.from \in Int, r.to \in Int, Has(t, r)
    PROVE  \E a \in ever : r.from <= Taken[a] /\ Taken[a] < r.to
<1> DEFINE q == Query("has", t, r)
<1>1. /\ q.kind = "has"
      /\ q.from = (IF t = "View" THEN Larger(r.from, used.after) ELSE r.from)
      /\ q.to = (IF t = "View" THEN Smaller(r.to, used.before) ELSE r.to)
  BY DEF Query
<1>2. PICK a \in Told(q).got : TRUE
  BY DEF Has
<1>3. a \in ever /\ q.from <= Taken[a] /\ Taken[a] < q.to
  BY <1>1, ToldIsSeen
<1>4. Taken[a] \in Int
  BY <1>3, AssetsAreTyped DEF Reading
<1>5. used.after \in Int /\ used.before \in Int
  BY DEF Reading, Row
<1>6. q.from \in Int /\ q.to \in Int /\ r.from <= q.from /\ q.to <= r.to
  BY <1>1, <1>5 DEF Larger, Smaller
<1> HIDE DEF q
<1>7. r.from <= Taken[a] /\ Taken[a] < r.to
  BY <1>3, <1>4, <1>6
<1>8. QED
  BY <1>3, <1>7

LEMMA SweepIsGood ==
    ASSUME Reading, NEW t, NEW kind \in {"year", "month"}, NEW first \in Nat, NEW last \in Int
    PROVE  GoodReply(Sweep(t, kind, first, last))
<1> DEFINE some == {n \in first..last : Has(t, Bucket(kind, n))}
<1>1. ASSUME NEW e \in Buckets(kind, some)
      PROVE  Good(e)
  <2>1. PICK n \in some : e = Entry(kind, n, 0)
    BY <1>1 DEF Buckets
  <2>2. n \in Nat /\ Has(t, Bucket(kind, n))
    BY <2>1
  <2>3. Length(kind) \in Nat
    BY Lengths
  <2>4. /\ Bucket(kind, n).from = n * Length(kind)
        /\ Bucket(kind, n).to = (n + 1) * Length(kind)
    BY DEF Bucket, Span
  <2>5. n * Length(kind) \in Int /\ (n + 1) * Length(kind) \in Int
    BY <2>2, <2>3
  <2>6. PICK a \in ever : n * Length(kind) <= Taken[a] /\ Taken[a] < (n + 1) * Length(kind)
    BY <2>2, <2>4, <2>5, HasIsTaken
  <2>7. Good(Entry(kind, n, 0))
    BY <2>2, <2>6, SearchedBucketIsGood DEF Reading
  <2>8. QED
    BY <2>1, <2>7
<1>2. QED
  BY <1>1, RepliesAreGood DEF Sweep

\* The oldest and the newest asset have a year.
LEMMA YearsAreTyped ==
    ASSUME Reading, NEW t, Bounded(t), NEW i \in {1, 2}
    PROVE  YearOf(t, i) \in Nat
<1> DEFINE some == Told(Bounds(t)[i]).got
<1>1. some # {} /\ some \in SUBSET Assets
  BY ToldIsSeen DEF Bounded, Reading
<1>2. (CHOOSE a \in some : TRUE) \in Assets
  BY <1>1
<1>3. Local[CHOOSE a \in some : TRUE] \in Nat
  BY <1>2, AssetsAreTyped
<1>4. QED
  BY <1>3, Numbers DEF YearOf

LEMMA SweptIsGood ==
    ASSUME Reading, NEW t, NEW p \in Paths, p = <<>> => Bounded(t)
    PROVE  GoodReply(Swept(t, p))
<1>1. CASE p = <<>>
  <2>1. YearOf(t, 1) \in Nat /\ YearOf(t, 2) \in Nat
    BY <1>1, YearsAreTyped
  <2>2. QED
    BY <1>1, <2>1, SweepIsGood DEF Swept
<1>2. CASE p # <<>>
  <2>1. p[1] \in Kinds \X Nat
    BY <1>2 DEF Paths
  <2>2. p[1][2] \in Nat
    BY <2>1
  <2>3. MonthsPerYear \in Nat
    BY ConstantsAssumption
  <2>4. p[1][2] * MonthsPerYear \in Nat /\ (p[1][2] + 1) * MonthsPerYear - 1 \in Int
    BY <2>2, <2>3
  <2>5. QED
    BY <1>2, <2>4, SweepIsGood DEF Swept
<1>3. QED
  BY <1>1, <1>2

-----------------------------------------------------------------------------
(***************************************************************************)
(* Listing, tree by tree.                                                  *)
(***************************************************************************)
LEMMA IndexedIsGood ==
    ASSUME Reading, NEW p
    PROVE  GoodReply(Indexed(p))
<1> DEFINE inYear == {b \in Told(IndexQuery).got : Number("year", Local[b]) = p[1][2]}
           numbers == {Number("month", Local[a]) : a \in inYear}
<1>1. ASSUME NEW e \in Buckets("month", numbers)
      PROVE  Good(e)
  <2>1. PICK a \in inYear : e = Entry("month", Number("month", Local[a]), 0)
    BY <1>1 DEF Buckets
  <2>2. a \in ever
    BY ToldIsSeen
  <2>3. QED
    BY <2>1, <2>2, LocalBucketIsGood DEF Reading
<1>2. GoodReply(Found("year", IndexQuery))
  BY FoundIsGood
<1>3. GoodReply(Reply(<<IndexQuery>>, Buckets("month", numbers)))
  BY <1>1, RepliesAreGood
<1>4. QED
  BY <1>2, <1>3 DEF Indexed

\* The buckets of each tree, below its root and at it.
LEMMA TreeBucketsAreGood ==
    ASSUME Reading, NEW p \in Paths
    PROVE  GoodReply(TimelineBuckets(p)) /\ GoodReply(AlbumBuckets(p)) /\ GoodReply(ViewBuckets(p))
<1>1. \A t \in Trees : GoodReply(Days(t, p))
  BY FoundIsGood DEF Days
<1>2. \A t \in Trees : Bounded(t) => GoodReply(Swept(t, p))
  BY SweptIsGood
<1>3. \A asks : GoodReply(Reply(asks, {}))
  BY EmptyIsGood
<1>4. "Timeline" \in Trees /\ "Album" \in Trees /\ "View" \in Trees
  BY DEF Trees
<1>5. GoodReply(TimelineBuckets(p))
  <2> DEFINE bounded == IF Bounded("Timeline") THEN Swept("Timeline", p) ELSE Reply(<<>>, {})
  <2>1. GoodReply(bounded)
    BY <1>2, <1>3, <1>4
  <2>2. GoodReply(Behind(<<IndexQuery>> \o Bounds("Timeline"), bounded))
    BY <2>1, BehindIsGood
  <2>3. QED
    BY <1>1, <1>4, <2>2, IndexedIsGood DEF TimelineBuckets
<1>6. GoodReply(AlbumBuckets(p))
  <2> DEFINE bounded == IF Bounded("Album") THEN Swept("Album", p) ELSE Reply(<<>>, {})
  <2>1. GoodReply(bounded)
    BY <1>2, <1>3, <1>4
  <2>2. GoodReply(Behind(Bounds("Album"), bounded))
    BY <2>1, BehindIsGood
  <2>3. Len(p) = 1 => GoodReply(Swept("Album", p))
    <3>1. Len(p) = 1 => p # <<>>
      OBVIOUS
    <3>2. QED
      BY <3>1, SweptIsGood
  <2>4. QED
    BY <1>1, <1>4, <2>2, <2>3 DEF AlbumBuckets
<1>7. GoodReply(ViewBuckets(p))
  <2> DEFINE inner == CASE ~Bounded("View") -> Reply(<<>>, {})
                        [] Bounded("View") /\ Len(p) = 2 -> Days("View", p)
                        [] OTHER -> Swept("View", p)
  <2>1. GoodReply(inner)
    BY <1>1, <1>2, <1>3, <1>4
  <2>2. QED
    BY <2>1, BehindIsGood DEF ViewBuckets
<1>8. QED
  BY <1>5, <1>6, <1>7

LEMMA FoldersAreGood ==
    ASSUME Reading, NEW t, NEW r
    PROVE  GoodReply(FilesIn(t, r)) /\ GoodReply(DayFolder(t, r))
<1>1. GoodReply(FilesIn(t, r))
  BY FilesOfIsGood DEF FilesIn
<1>2. GoodReply(Hours(t, r))
  BY FoundIsGood DEF Hours
<1> DEFINE inner == CASE ~Known(SplitQuery(t, r)) -> Reply(<<>>, {})
                      [] Known(SplitQuery(t, r)) /\ IsSplit(t, r) -> Hours(t, r)
                      [] OTHER -> FilesIn(t, r)
<1>3. GoodReply(inner)
  <2>1. GoodReply(Reply(<<>>, {}))
    BY EmptyIsGood
  <2>2. QED
    BY <1>1, <1>2, <2>1
<1>4. GoodReply(DayFolder(t, r))
  BY <1>3, BehindIsGood DEF DayFolder
<1>5. QED
  BY <1>1, <1>4

\* Whatever is listed, its names are good.
LEMMA ListingIsGood ==
    ASSUME Reading, NEW t \in Trees, NEW p \in Paths
    PROVE  GoodReply(Listing(t, p))
<1>1. /\ GoodReply(TimelineBuckets(p)) /\ GoodReply(AlbumBuckets(p)) /\ GoodReply(ViewBuckets(p))
  BY TreeBucketsAreGood
<1>2. \A s, r : GoodReply(FilesIn(s, r)) /\ GoodReply(DayFolder(s, r))
  BY FoldersAreGood
<1>3. \A asks : GoodReply(Reply(asks, {}))
  BY EmptyIsGood
<1>4. GoodReply(DateFolder(p))
  BY <1>1, <1>2 DEF DateFolder, HourFolder
<1>5. GoodReply(AlbumFolder(p))
  BY <1>1, <1>2 DEF AlbumFolder
<1>6. GoodReply(AlbumDateFolder(p))
  BY <1>1, <1>2 DEF AlbumDateFolder, AlbumHourFolder
<1>7. GoodReply(ViewFolder(p))
  BY <1>1, <1>2, <1>3 DEF ViewFolder
<1>8. GoodReply(ViewDateFolder(p))
  <2>1. GoodReply(ViewHourFolder(p))
    BY <1>2, <1>3 DEF ViewHourFolder
  <2>2. QED
    BY <1>1, <1>2, <1>3, <2>1 DEF ViewDateFolder
<1>9. QED
  BY <1>4, <1>5, <1>6, <1>7, <1>8 DEF Listing, Trees

-----------------------------------------------------------------------------
(***************************************************************************)
(* What a path stands for.                                                 *)
(***************************************************************************)
\* A file is one of a listing, and has the last name of its path.
Sound(o, p) ==
    /\ o.what \in {"folder", "file", "missing"}
    /\ o.what # "file" => o.asset = 0
    /\ o.what = "file" => \E e : FileEntry(e) /\ e.name = p[Len(p)] /\ e.asset = o.asset

LEMMA FoldersAreSound ==
    ASSUME NEW asks, NEW p
    PROVE  Sound(IsFolder(asks), p) /\ Sound(Missing(asks), p)
BY DEF Sound, IsFolder, Missing, Outcome

LEMMA FilesAreSound ==
    ASSUME Reading, NEW asks, NEW t, NEW r, NEW p
    PROVE  Sound(FileIn(asks, t, r, p[Len(p)]), p)
<1> DEFINE reply == FilesIn(t, r)
           named == {e \in reply.entries : e.name = p[Len(p)]}
<1>1. CASE named = {}
  BY <1>1, FoldersAreSound DEF FileIn, Named
<1>2. CASE named # {}
  <2>1. PICK e \in named : e = (CHOOSE x \in named : TRUE)
    BY <1>2
  <2>2. FileEntry(e) /\ e.name = p[Len(p)]
    BY <2>1, FilesOfIsGood DEF FilesIn
  <2>3. FileIn(asks, t, r, p[Len(p)]) = Outcome(asks \o reply.asks, "file", e.asset)
    BY <1>2, <2>1 DEF FileIn, Named
  <2>4. QED
    BY <2>2, <2>3 DEF Sound, Outcome
<1>3. QED
  BY <1>1, <1>2

LEMMA DatesAreSound ==
    ASSUME Reading, NEW t, NEW p \in Paths
    PROVE  Sound(ResolveDates(t, p), p)
<1>1. \A asks : Sound(IsFolder(asks), p) /\ Sound(Missing(asks), p)
  BY FoldersAreSound
<1>2. \A asks, r : Sound(FileIn(asks, t, r, p[Len(p)]), p)
  BY FilesAreSound
<1>3. \A r, hour : Sound(HourPath(t, p, r, hour), p)
  BY <1>1, <1>2 DEF HourPath
<1>4. \A asks, r : Len(p) = 4 => Sound(FileIn(asks, t, r, p[4]), p)
  <2>1. Len(p) = 4 => p[Len(p)] = p[4]
    OBVIOUS
  <2>2. QED
    BY <1>2, <2>1
<1>5. ASSUME NEW r, NEW hour
      PROVE  Sound(DatePath(t, p, r, hour), p)
  <2>1. CASE r = NoSpan
    BY <1>1, <2>1 DEF DatePath
  <2>2. CASE r # NoSpan /\ ~Has(t, r)
    BY <1>1, <2>2 DEF DatePath
  <2>3. CASE r # NoSpan /\ Has(t, r)
    <3> DEFINE inner ==
              CASE Len(p) <= 3 -> IsFolder(<<Query("has", t, r)>>)
                [] Len(p) \in {4, 5} /\ hour # NoSpan -> HourPath(t, p, r, hour)
                [] Len(p) = 4 /\ hour = NoSpan -> FileIn(<<Query("has", t, r)>>, t, r, p[4])
                [] OTHER -> Missing(<<Query("has", t, r)>>)
    <3>1. DatePath(t, p, r, hour) = inner
      BY <2>3 DEF DatePath
    <3>2. Len(p) \in Nat
      BY DEF Paths
    <3>3. Sound(inner, p)
      BY <1>1, <1>3, <1>4, <3>2
    <3>4. QED
      BY <3>1, <3>3
  <2>4. QED
    BY <2>1, <2>2, <2>3
<1>6. QED
  BY <1>5 DEF ResolveDates

LEMMA ResolvedIsSound ==
    ASSUME Reading, NEW t \in Trees, NEW p \in Paths
    PROVE  Sound(Resolved(t, p), p)
<1>1. \A asks : Sound(IsFolder(asks), p) /\ Sound(Missing(asks), p)
  BY FoldersAreSound
<1>2. \A asks, s, r : Len(p) = 1 => Sound(FileIn(asks, s, r, p[1]), p)
  <2>1. Len(p) = 1 => p[Len(p)] = p[1]
    OBVIOUS
  <2>2. QED
    BY <2>1, FilesAreSound
<1>3. \A s : Sound(ResolveDates(s, p), p)
  BY DatesAreSound
<1>4. Sound(ResolveTimeline(p), p)
  BY <1>1, <1>3 DEF ResolveTimeline
<1>5. Sound(ResolveAlbum(p), p)
  <2> DEFINE dates == ResolveDates("Album", p)
             o == Outcome(<<AlbumQuery>> \o dates.asks, dates.what, dates.asset)
  <2>1. Sound(o, p)
    <3>1. o.what = dates.what /\ o.asset = dates.asset
      BY DEF Outcome
    <3>2. Sound(dates, p)
      BY <1>3
    <3> HIDE DEF o, dates
    <3>3. QED
      BY <3>1, <3>2 DEF Sound
  <2> HIDE DEF o
  <2>2. ResolveAlbum(p) = o => Sound(ResolveAlbum(p), p)
    BY <2>1
  <2>3. CASE p = <<>>
    BY <1>1, <2>3 DEF ResolveAlbum
  <2>4. CASE p # <<>> /\ ~AlbumIsSplit
    BY <1>1, <1>2, <2>4 DEF ResolveAlbum
  <2>5. CASE p # <<>> /\ AlbumIsSplit
    BY <2>2, <2>5 DEF ResolveAlbum, o
  <2>6. QED
    BY <2>3, <2>4, <2>5
<1>6. Sound(ResolveView(p), p)
  <2>1. CASE ~used.view
    BY <1>1, <2>1 DEF ResolveView
  <2>2. CASE used.view /\ p = <<>>
    BY <1>1, <2>2 DEF ResolveView
  <2>3. CASE used.view /\ p # <<>> /\ used.flat
    BY <1>1, <1>2, <2>3 DEF ResolveView
  <2>4. CASE used.view /\ p # <<>> /\ ~used.flat
    BY <1>3, <2>4 DEF ResolveView
  <2>5. QED
    BY <2>1, <2>2, <2>3, <2>4
<1>7. QED
  BY <1>1, <1>4, <1>5, <1>6 DEF Resolved, Trees

-----------------------------------------------------------------------------
(***************************************************************************)
(* Every step keeps the invariant.                                         *)
(***************************************************************************)
LEMMA InitEstablishes == Init => IInv
<1> SUFFICES ASSUME Init PROVE IInv
  OBVIOUS
<1>1. ToldInv
  BY DEF Init, ToldInv
<1>2. LibraryInv
  BY ConstantsAssumption DEF Init, LibraryInv
<1>3. RequestInv
  <2>1. settings \in Settings /\ used \in Row
    BY DEF Init, Row, NotRead
  <2>2. tree \in Trees /\ path \in Paths /\ page \in 1..MaxPages
    BY ConstantsAssumption DEF Init, Trees, Paths
  <2>3. QED
    BY <2>1, <2>2 DEF Init, RequestInv
<1>4. SeenInv
  BY DEF Init, SeenInv, Trees, Paths
<1>5. RefusedOnlyIfLong /\ NamesStick
  BY DEF Init, RefusedOnlyIfLong, NamesStick
<1>6. QED
  BY <1>1, <1>2, <1>3, <1>4, <1>5 DEF IInv

LEMMA SettingsAreRows == Settings \subseteq Row
BY ConstantsAssumption DEF Row

LEMMA StartKeeps ==
    ASSUME IInv, NEW t \in Trees, NEW p \in Paths, NEW e, Start(t, p, e),
           e # None => e \in Names /\ Proper(e) /\ p # <<>> /\ p[Len(p)] = e.name
    PROVE  IInv'
<1>1. ToldInv'
  BY DEF Start, ToldInv
<1>2. LibraryInv'
  BY DEF IInv, LibraryInv, Start, world
<1>3. RequestInv'
  <2>1. settings' \in Settings /\ used' \in Row
    BY SettingsAreRows DEF IInv, RequestInv, Start, world
  <2>2. page' \in 1..MaxPages
    BY ConstantsAssumption DEF Start
  <2>3. QED
    BY <2>1, <2>2 DEF Start, RequestInv
<1>4. SeenInv'
  BY DEF IInv, SeenInv, Start, Proper
<1>5. RefusedOnlyIfLong' /\ NamesStick'
  BY DEF Start, RefusedOnlyIfLong, NamesStick
<1>6. QED
  BY <1>1, <1>2, <1>3, <1>4, <1>5 DEF IInv

LEMMA OpenKeeps ==
    ASSUME IInv, NEW e \in seen.entries, Open(e)
    PROVE  IInv'
<1>1. e \in Names /\ Proper(e) /\ seen.path \in Paths /\ seen.tree \in Trees
  BY DEF IInv, SeenInv
<1>2. e.name \in Kinds \X Nat
  BY <1>1 DEF Names
<1>3. /\ Append(seen.path, e.name) \in Paths /\ Append(seen.path, e.name) # <<>>
      /\ Append(seen.path, e.name)[Len(Append(seen.path, e.name))] = e.name
  BY <1>1, <1>2 DEF Paths
<1>4. QED
  BY <1>1, <1>3, StartKeeps DEF Open

LEMMA StartAtRootKeeps ==
    ASSUME IInv, NEW t \in Trees, StartAtRoot(t)
    PROVE  IInv'
<1>1. <<>> \in Paths
  BY DEF Paths
<1>2. QED
  BY <1>1, StartKeeps DEF StartAtRoot

\* The parts of the invariant that a step of a request leaves as they are.
Steady == UNCHANGED <<world, stage, tree, path, names, left, answer, file, seen, target,
                      always, ever>>

LEMMA SteadyKeeps ==
    ASSUME IInv, Steady, ToldInv', used' \in Row, page' \in 1..MaxPages
    PROVE  IInv'
<1>1. LibraryInv'
  BY DEF IInv, LibraryInv, Steady, world
<1>2. RequestInv'
  BY DEF IInv, RequestInv, Steady, world
<1>3. SeenInv'
  BY DEF IInv, SeenInv, Steady, Proper, Shown
<1>4. RefusedOnlyIfLong' /\ NamesStick'
  BY DEF IInv, RefusedOnlyIfLong, NamesStick, Steady
<1>5. QED
  BY <1>1, <1>2, <1>3, <1>4 DEF IInv

\* What the settings are read to be is settings.
LEMMA ReadAnewIsTyped ==
    ASSUME IInv
    PROVE  ReadAnew \in Row
<1>1. settings \in Row /\ used \in Row
  BY SettingsAreRows DEF IInv, RequestInv
<1>2. QED
  BY <1>1 DEF ReadAnew, Row

\* An answer that is remembered is of what the request may see.
LEMMA RememberKeeps ==
    ASSUME ToldInv, ever' = ever, NEW q, NEW assets \in SUBSET ever,
           NEW again \in SUBSET assets, NEW failed \in BOOLEAN,
           q.kind = "has" => \A a \in assets : q.from <= Taken[a] /\ Taken[a] < q.to,
           Remember(q, assets, again, failed),
           got' \in SUBSET ever, twice' \in SUBSET got'
    PROVE  ToldInv'
<1>1. ASSUME NEW x \in DOMAIN memo'
      PROVE  /\ memo'[x].got \in SUBSET ever /\ memo'[x].twice \in SUBSET memo'[x].got
             /\ memo'[x].failed \in BOOLEAN
             /\ x.kind = "has" =>
                    \A a \in memo'[x].got : x.from <= Taken[a] /\ Taken[a] < x.to
  <2>1. CASE x = q
    <3>1. memo'[x] = [got |-> assets, twice |-> again, failed |-> failed]
      BY <1>1, <2>1 DEF Remember
    <3>2. QED
      BY <2>1, <3>1
  <2>2. CASE x # q
    <3>1. x \in DOMAIN memo /\ memo'[x] = memo[x]
      BY <1>1, <2>2 DEF Remember
    <3>2. QED
      BY <3>1 DEF ToldInv
  <2>3. QED
    BY <2>1, <2>2
<1>2. QED
  BY <1>1 DEF ToldInv

\* Immich tells of the assets of a library that match.
LEMMA SaidIsSeen ==
    ASSUME IInv, stage # "idle", NEW l \in past \cup {lib}, NEW q
    PROVE  /\ Matching(l, q) \in SUBSET ever
           /\ Said(l, q) \in SUBSET Matching(l, q)
           /\ PageOf(l, q, page) \in SUBSET ever
<1>1. l \in SUBSET ever
  BY DEF IInv, LibraryInv
<1>2. Matching(l, q) \in SUBSET ever
  BY <1>1 DEF Matching
<1>3. PageOf(l, q, page) \in SUBSET ever
  BY <1>2 DEF PageOf
<1>4. Said(l, q) \in SUBSET Matching(l, q)
  BY DEF Said
<1>5. QED
  BY <1>2, <1>3, <1>4

LEMMA AskKeeps ==
    ASSUME IInv, stage # "idle", NEW q, NEW l \in past \cup {lib}, Ask(q, l)
    PROVE  IInv'
<1>1. Said(l, q) \in SUBSET ever
  BY SaidIsSeen
<1>2. \A a \in Said(l, q) : q.from <= Taken[a] /\ Taken[a] < q.to
  BY SaidIsSeen DEF Matching
<1>3. ToldInv'
  <2>1. /\ Remember(q, Said(l, q), {}, FALSE) /\ ever' = ever
        /\ got' \in SUBSET ever /\ twice' \in SUBSET got'
    BY DEF Ask, IInv, ToldInv
  <2>2. ToldInv
    BY DEF IInv
  <2>3. QED
    BY <1>1, <1>2, <2>1, <2>2, RememberKeeps
<1>4. used' \in Row /\ page' \in 1..MaxPages
  BY ReadAnewIsTyped DEF Ask, IInv, RequestInv
<1>5. Steady
  BY DEF Ask, Steady
<1>6. QED
  BY <1>3, <1>4, <1>5, SteadyKeeps

LEMMA IndexFailsKeeps ==
    ASSUME IInv, NEW q, IndexFails(q)
    PROVE  IInv'
<1>1. ToldInv'
  <2>1. /\ Remember(q, {}, {}, TRUE) /\ ever' = ever
        /\ got' \in SUBSET ever /\ twice' \in SUBSET got'
    BY DEF IndexFails, IInv, ToldInv
  <2>2. ToldInv
    BY DEF IInv
  <2>3. QED
    BY <2>1, <2>2, RememberKeeps
<1>2. used' \in Row /\ page' \in 1..MaxPages
  BY DEF IndexFails, IInv, RequestInv
<1>3. Steady
  BY DEF IndexFails, Steady
<1>4. QED
  BY <1>1, <1>2, <1>3, SteadyKeeps

\* However a request ends.
LEMMA EndKeeps ==
    ASSUME IInv, NEW how \in {"folder", "file", "missing", "refused", "error", "broken"},
           End(how), UNCHANGED <<world, target, ever>>,
           file' \in Assets \cup {0},
           seen' = seen \/ seen' = [tree |-> tree, path |-> path, entries |-> names],
           how = "refused" => Cardinality(ever) > MaxPages * PageSize,
           how = "file" => NamesStick'
    PROVE  IInv'
<1>1. ToldInv'
  BY DEF End, ToldInv
<1>2. LibraryInv'
  BY DEF IInv, LibraryInv, End, world
<1>3. RequestInv'
  <2>1. settings' \in Settings /\ used' \in Row
    BY DEF IInv, RequestInv, End, world, NotRead, Row
  <2>2. page' \in 1..MaxPages /\ tree' \in Trees /\ path' \in Paths
    BY ConstantsAssumption DEF End, Trees, Paths
  <2>3. QED
    BY <2>1, <2>2 DEF End, RequestInv
<1>4. SeenInv'
  <2>1. /\ seen'.tree \in Trees /\ seen'.path \in Paths
        /\ \A e \in seen'.entries : e \in Names /\ e.asset \in Assets \cup {0} /\ Proper(e)
    BY DEF IInv, SeenInv, RequestInv
  <2>2. names' = {} /\ left' = {} /\ stage' = "idle" /\ target' = target
    BY DEF End
  <2>3. target # None => target \in Names /\ Proper(target)
    BY DEF IInv, SeenInv
  <2>4. QED
    BY <2>1, <2>2, <2>3 DEF SeenInv, Proper
<1>5. RefusedOnlyIfLong'
  BY DEF RefusedOnlyIfLong, End
<1>6. NamesStick'
  BY DEF NamesStick, End
<1>7. QED
  BY <1>1, <1>2, <1>3, <1>4, <1>5, <1>6 DEF IInv

LEMMA ReadPageKeeps ==
    ASSUME IInv, stage # "idle", NEW q, NEW l \in past \cup {lib}, ReadPage(q, l)
    PROVE  IInv'
<1> DEFINE all == got \cup PageOf(l, q, page)
           again == twice \cup (got \cap PageOf(l, q, page))
<1>1. got \in SUBSET ever /\ twice \in SUBSET got
  BY DEF IInv, ToldInv
<1>2. all \in SUBSET ever /\ again \in SUBSET all
  BY <1>1, SaidIsSeen
<1>3. q.kind # "has" /\ UNCHANGED <<world, file, seen, target, ever, edited, fresh>>
  BY DEF ReadPage, ReadUpTo, Searches
<1>4. page \in 1..MaxPages /\ used \in Row /\ MaxPages \in Nat \ {0} /\ file \in Assets \cup {0}
  BY ConstantsAssumption DEF IInv, RequestInv
<1>5. CASE /\ page < MaxPages /\ got' = all /\ twice' = again /\ page' = page + 1
           /\ UNCHANGED <<memo, going>>
  <2>1. ToldInv'
    BY <1>2, <1>3, <1>5 DEF IInv, ToldInv
  <2>2. page' \in 1..MaxPages
    BY <1>4, <1>5
  <2>3. Steady /\ used' = used
    BY <1>3, <1>5 DEF Steady, going
  <2>4. QED
    BY <1>4, <2>1, <2>2, <2>3, SteadyKeeps
<1>6. CASE /\ Remember(q, all, again, FALSE) /\ got' = {} /\ twice' = {} /\ page' = 1
           /\ UNCHANGED <<paged, going>>
  <2>1. got' \in SUBSET ever /\ twice' \in SUBSET got' /\ ever' = ever /\ ToldInv
    BY <1>3, <1>6 DEF IInv
  <2>2. ToldInv'
    BY <1>2, <1>3, <1>6, <2>1, RememberKeeps
  <2>3. page' \in 1..MaxPages
    BY <1>4, <1>6
  <2>4. Steady /\ used' = used
    BY <1>3, <1>6 DEF Steady, going
  <2>5. QED
    BY <1>4, <2>2, <2>3, <2>4, SteadyKeeps
<1>7. CASE More(l, q, page) /\ page = MaxPages /\ End("refused")
  <2>1. Cardinality(ever) > MaxPages * PageSize
    <3>1. Matching(l, q) \in SUBSET ever
      BY SaidIsSeen
    <3>2. IsFiniteSet(ever)
      BY ConstantsAssumption, FS_Subset DEF IInv, LibraryInv
    <3>3. /\ Cardinality(Matching(l, q)) <= Cardinality(ever)
          /\ Cardinality(Matching(l, q)) \in Nat /\ Cardinality(ever) \in Nat
      BY <3>1, <3>2, FS_Subset, FS_CardinalityType
    <3>4. Cardinality(Matching(l, q)) > MaxPages * PageSize
      BY <1>7 DEF More
    <3>5. MaxPages * PageSize \in Nat
      BY ConstantsAssumption
    <3>6. QED
      BY <3>3, <3>4, <3>5
  <2>2. QED
    BY <1>3, <1>4, <1>7, <2>1, EndKeeps
<1>8. QED
  BY <1>5, <1>6, <1>7 DEF ReadPage, ReadUpTo

LEMMA FailKeeps ==
    ASSUME IInv, NEW q, Fail(q)
    PROVE  IInv'
<1>1. End("error") /\ UNCHANGED <<world, file, seen, target, ever>>
  BY DEF Fail
<1>2. file' \in Assets \cup {0}
  BY <1>1 DEF IInv, RequestInv
<1>3. QED
  BY <1>1, <1>2, EndKeeps

LEMMA ReadingHolds == IInv => Reading
BY DEF IInv, LibraryInv, RequestInv, Reading

LEMMA ConcludeKeeps ==
    ASSUME IInv, Conclude(Resolved(tree, path))
    PROVE  IInv'
<1> DEFINE o == Resolved(tree, path)
<1>1. tree \in Trees /\ path \in Paths /\ stage = "resolving"
  BY DEF IInv, RequestInv, Conclude
<1>2. Sound(o, path)
  BY <1>1, ReadingHolds, ResolvedIsSound
<1>3. UNCHANGED <<world, seen, target, ever>>
  BY DEF Conclude
<1> HIDE DEF o
<1>4. CASE /\ stage' = "listing" /\ used' = ReadAnew
           /\ UNCHANGED <<asked, tree, path, names, left, answer, file, always>>
  <2>1. ToldInv'
    BY <1>3, <1>4 DEF IInv, ToldInv, asked
  <2>2. LibraryInv'
    BY <1>1, <1>3, <1>4 DEF IInv, LibraryInv, world
  <2>3. RequestInv'
    BY <1>1, <1>3, <1>4, ReadAnewIsTyped DEF IInv, RequestInv, world, asked
  <2>4. SeenInv'
    BY <1>1, <1>3, <1>4 DEF IInv, SeenInv, Proper, Shown
  <2>5. RefusedOnlyIfLong' /\ NamesStick'
    BY <1>3, <1>4 DEF IInv, RefusedOnlyIfLong, NamesStick
  <2>6. QED
    BY <2>1, <2>2, <2>3, <2>4, <2>5 DEF IInv
<1>5. CASE End(o.what) /\ file' = o.asset /\ o.what # "folder"
  <2>1. o.what \in {"file", "missing"}
    BY <1>2, <1>5 DEF Sound
  <2>2. CASE o.what = "missing"
    <3>1. file' = 0
      BY <1>2, <1>5, <2>2 DEF Sound
    <3>2. QED
      BY <1>3, <1>5, <2>2, <3>1, EndKeeps
  <2>3. CASE o.what = "file"
    <3>1. PICK e : FileEntry(e) /\ e.name = path[Len(path)] /\ e.asset = o.asset
      BY <1>2, <2>3 DEF Sound
    <3>2. file' = e.asset /\ e.asset \in Assets
      BY <1>5, <3>1 DEF FileEntry
    <3>3. e.name = <<"file", Display[file']>> \/ e.name = <<"file12", file'>>
      BY <3>1, <3>2 DEF FileEntry, Good, Proper
    <3>4. ASSUME target.asset \in Assets, file' # target.asset
          PROVE  target.name = <<"file", Display[file']>>
      <4>1. target # None
        <5>1. -1 \notin Assets
          BY ConstantsAssumption
        <5>2. QED
          BY <3>4, <5>1 DEF None
      <4>2. target.name = path[Len(path)] /\ Proper(target)
        BY <1>1, <4>1 DEF IInv, SeenInv
      <4>3. target.name = e.name
        BY <3>1, <4>2
      <4>4. \/ target.name = <<"file", Display[target.asset]>>
            \/ target.name = <<"file12", target.asset>>
        BY <3>4, <4>2 DEF Proper
      <4>5. QED
        BY <3>3, <3>4, <4>3, <4>4
    <3>5. NamesStick'
      BY <1>3, <3>4 DEF NamesStick
    <3>6. QED
      BY <1>3, <1>5, <2>3, <3>2, <3>5, EndKeeps
  <2>4. QED
    BY <2>1, <2>2, <2>3
<1>6. QED
  BY <1>4, <1>5 DEF Conclude, o

LEMMA NameKeeps ==
    ASSUME IInv, Name(Listing(tree, path).entries)
    PROVE  IInv'
<1> DEFINE entries == Listing(tree, path).entries
<1>1. tree \in Trees /\ path \in Paths /\ stage = "listing"
  BY DEF IInv, RequestInv, Name, NameWith
<1>2. \A e \in entries : Good(e)
  BY <1>1, ReadingHolds, ListingIsGood DEF GoodReply
<1> HIDE DEF entries
<1>3. /\ stage' = "members" /\ names' = entries /\ left' = entries
      /\ used' = ReadAnew /\ memo' = memo
      /\ UNCHANGED <<world, got, twice, page, tree, path, answer, file, seen, target,
                     always, ever>>
  BY DEF Name, NameWith, entries
<1>4. ToldInv'
  BY <1>3 DEF IInv, ToldInv
<1>5. LibraryInv'
  BY <1>1, <1>3 DEF IInv, LibraryInv, world
<1>6. RequestInv'
  BY <1>1, <1>3, ReadAnewIsTyped DEF IInv, RequestInv, world
<1>7. SeenInv'
  <2>1. \A e \in names' : /\ e \in Names /\ e.asset \in Assets \cup {0}
                          /\ Proper(e) /\ Shown(e)
    BY <1>2, <1>3 DEF Good
  <2>2. \A e \in names' : Shown(e)'
    BY <1>3, <2>1 DEF Shown
  <2>3. QED
    BY <1>1, <1>3, <2>1, <2>2 DEF IInv, SeenInv, Proper
<1>8. RefusedOnlyIfLong' /\ NamesStick'
  BY <1>3 DEF IInv, RefusedOnlyIfLong, NamesStick
<1>9. QED
  BY <1>4, <1>5, <1>6, <1>7, <1>8 DEF IInv

LEMMA NextMemberKeeps ==
    ASSUME IInv, NEW now, NextMember(now)
    PROVE  IInv'
<1>1. /\ used' = ReadAnew /\ left' \in SUBSET left
      /\ UNCHANGED <<world, asked, stage, tree, path, names, answer, file, seen, target,
                     always, ever>>
  BY DEF NextMember
<1>2. ToldInv'
  BY <1>1 DEF IInv, ToldInv, asked
<1>3. LibraryInv'
  BY <1>1 DEF IInv, LibraryInv, world
<1>4. RequestInv'
  BY <1>1, ReadAnewIsTyped DEF IInv, RequestInv, world, asked
<1>5. SeenInv'
  BY <1>1 DEF IInv, SeenInv, Proper, Shown
<1>6. RefusedOnlyIfLong' /\ NamesStick'
  BY <1>1 DEF IInv, RefusedOnlyIfLong, NamesStick
<1>7. QED
  BY <1>2, <1>3, <1>4, <1>5, <1>6 DEF IInv

LEMMA MembersKeeps ==
    ASSUME IInv, NEW all, Members(all)
    PROVE  IInv'
<1>1. UNCHANGED <<world, file, target, ever>>
  BY DEF Members
<1>2. file' \in Assets \cup {0}
  BY <1>1 DEF IInv, RequestInv
<1>3. CASE End("folder") /\ seen' = [tree |-> tree, path |-> path, entries |-> names]
  BY <1>1, <1>2, <1>3, EndKeeps
<1>4. CASE End("broken") /\ seen' = seen
  BY <1>1, <1>2, <1>4, EndKeeps
<1>5. QED
  BY <1>3, <1>4 DEF Members

\* A request that has not begun asks nothing.
LEMMA QuestionsAreOfRequests ==
    ASSUME IInv, NEW q \in Question
    PROVE  stage # "idle"
<1>1. SUFFICES ASSUME stage = "idle"
               PROVE  FALSE
  OBVIOUS
<1>2. Plan(Resolved(tree, path), Listing(tree, path)) = <<>>
  BY <1>1 DEF Plan
<1>3. Question = {}
  BY <1>2 DEF Question, FirstUnknown
<1>4. QED
  BY <1>3

LEMMA RequestStepKeeps ==
    ASSUME IInv, RequestStep
    PROVE  IInv'
<1> DEFINE entries == Listing(tree, path).entries
<1>1. ASSUME NEW q \in Question, NEW l \in past \cup {lib}, Ask(q, l) \/ ReadPage(q, l)
      PROVE  IInv'
  BY <1>1, QuestionsAreOfRequests, AskKeeps, ReadPageKeeps
<1>2. ASSUME NEW q \in Question, IndexFails(q) \/ Fail(q)
      PROVE  IInv'
  BY <1>2, IndexFailsKeeps, FailKeeps
<1>3. CASE Conclude(Resolved(tree, path))
  BY <1>3, ConcludeKeeps
<1>4. CASE Name(entries)
  BY <1>4, NameKeeps
<1>5. CASE NextMember(NamesOf(entries))
  BY <1>5, NextMemberKeeps
<1>6. CASE Members(AllMembers(NamesOf(entries)))
  BY <1>6, MembersKeeps
<1>7. QED
  BY <1>1, <1>2, <1>3, <1>4, <1>5, <1>6 DEF RequestStep, Proceed

\* The library grows and shrinks, and so does what a request may see: it grows.
LEMMA ChangeKeeps ==
    ASSUME IInv, NEW a \in Assets, Change(a)
    PROVE  IInv'
<1>1. lib' \in SUBSET Assets /\ past' = past \cup {lib} /\ always' \in SUBSET Assets
  BY DEF IInv, LibraryInv, Change
<1>2. /\ ever' = (IF stage = "idle" THEN ever ELSE ever \cup lib')
      /\ UNCHANGED <<settings, stage, tree, path, used, asked, names, left, answer, file,
                     seen, target>>
  BY DEF Change
<1>3. ever \in SUBSET ever' /\ ever' \in SUBSET Assets
  BY <1>1, <1>2 DEF IInv, LibraryInv
<1>4. ToldInv'
  BY <1>2, <1>3 DEF IInv, ToldInv, asked
<1>5. LibraryInv'
  BY <1>1, <1>2, <1>3 DEF IInv, LibraryInv
<1>6. RequestInv'
  BY <1>2 DEF IInv, RequestInv, asked
<1>7. SeenInv'
  <2>1. \A e \in names : Shown(e) => Shown(e)'
    BY <1>3 DEF Shown
  <2>2. QED
    BY <1>2, <2>1 DEF IInv, SeenInv, Proper
<1>8. RefusedOnlyIfLong'
  BY <1>2 DEF IInv, RequestInv, RefusedOnlyIfLong
<1>9. NamesStick'
  BY <1>2 DEF IInv, NamesStick
<1>10. QED
  BY <1>4, <1>5, <1>6, <1>7, <1>8, <1>9 DEF IInv

LEMMA ExpireKeeps ==
    ASSUME IInv, NEW l \in past, Expire(l)
    PROVE  IInv'
<1>1. /\ past' = past \ {l}
      /\ UNCHANGED <<lib, settings, stage, tree, path, used, asked, names, left, answer,
                     file, seen, target, always, ever>>
  BY DEF Expire
<1>2. ToldInv'
  BY <1>1 DEF IInv, ToldInv, asked
<1>3. LibraryInv'
  BY <1>1 DEF IInv, LibraryInv
<1>4. RequestInv'
  BY <1>1 DEF IInv, RequestInv, asked
<1>5. SeenInv'
  BY <1>1 DEF IInv, SeenInv, Proper, Shown
<1>6. RefusedOnlyIfLong' /\ NamesStick'
  BY <1>1 DEF IInv, RefusedOnlyIfLong, NamesStick
<1>7. QED
  BY <1>2, <1>3, <1>4, <1>5, <1>6 DEF IInv

LEMMA EditKeeps ==
    ASSUME IInv, NEW s \in Settings, Edit(s)
    PROVE  IInv'
<1>1. /\ settings' = s
      /\ UNCHANGED <<lib, past, stage, tree, path, used, asked, names, left, answer,
                     file, seen, target, always, ever>>
  BY DEF Edit
<1>2. ToldInv'
  BY <1>1 DEF IInv, ToldInv, asked
<1>3. LibraryInv'
  BY <1>1 DEF IInv, LibraryInv
<1>4. RequestInv'
  BY <1>1 DEF IInv, RequestInv, asked
<1>5. SeenInv'
  BY <1>1 DEF IInv, SeenInv, Proper, Shown
<1>6. RefusedOnlyIfLong' /\ NamesStick'
  BY <1>1 DEF IInv, RefusedOnlyIfLong, NamesStick
<1>7. QED
  BY <1>2, <1>3, <1>4, <1>5, <1>6 DEF IInv

LEMMA NextKeeps == IInv /\ [Next]_vars => IInv'
<1> SUFFICES ASSUME IInv, [Next]_vars PROVE IInv'
  OBVIOUS
<1>1. CASE RequestStep
  BY <1>1, RequestStepKeeps
<1>2. ASSUME NEW t \in Trees, StartAtRoot(t) PROVE IInv'
  BY <1>2, StartAtRootKeeps
<1>3. ASSUME NEW e \in seen.entries, Open(e) PROVE IInv'
  BY <1>3, OpenKeeps
<1>4. ASSUME NEW a \in Assets, Change(a) PROVE IInv'
  BY <1>4, ChangeKeeps
<1>5. ASSUME NEW l \in past, Expire(l) PROVE IInv'
  BY <1>5, ExpireKeeps
<1>6. ASSUME NEW s \in Settings, Edit(s) PROVE IInv'
  BY <1>6, EditKeeps
<1>7. CASE UNCHANGED vars
  <2>1. Steady /\ used' = used /\ UNCHANGED asked
    BY <1>7 DEF vars, Steady
  <2>2. ToldInv' /\ used' \in Row /\ page' \in 1..MaxPages
    BY <2>1 DEF IInv, ToldInv, RequestInv, asked, Steady
  <2>3. QED
    BY <2>1, <2>2, SteadyKeeps
<1>8. QED
  BY <1>1, <1>2, <1>3, <1>4, <1>5, <1>6, <1>7 DEF Next

LEMMA InvariantHolds == Spec => []IInv
BY InitEstablishes, NextKeeps, PTL DEF Spec

-----------------------------------------------------------------------------
(***************************************************************************)
(* Theorems.                                                               *)
(***************************************************************************)
\* Requests, answers and listings have the shapes that the code gives them.
THEOREM TypeCorrect == Spec => []TypeOK
<1>1. IInv => TypeOK
  <2> SUFFICES ASSUME IInv PROVE TypeOK
    OBVIOUS
  <2>1. got \in SUBSET Assets /\ twice \in SUBSET got
    BY DEF IInv, ToldInv, LibraryInv
  <2>2. \A q \in DOMAIN memo :
          /\ memo[q].got \in SUBSET Assets /\ memo[q].twice \in SUBSET memo[q].got
          /\ memo[q].failed \in BOOLEAN
    BY DEF IInv, ToldInv, LibraryInv
  <2>3. names \in SUBSET Names /\ left \in SUBSET names /\ seen.entries \in SUBSET Names
    BY DEF IInv, SeenInv
  <2>4. QED
    BY <2>1, <2>2, <2>3 DEF TypeOK, IInv, LibraryInv, RequestInv, Paths
<1>2. QED
  BY <1>1, InvariantHolds, PTL

\* search_all_assets refuses a folder only if there were more assets than its
\* pages hold.
THEOREM RefusalsAreDue == Spec => []RefusedOnlyIfLong
<1>1. IInv => RefusedOnlyIfLong
  BY DEF IInv
<1>2. QED
  BY <1>1, InvariantHolds, PTL

\* A name of a listing opens the asset it was given to, or, when several share
\* a display name, another of these (asset_entries).
THEOREM NamesKeepTheirAssets == Spec => []NamesStick
<1>1. IInv => NamesStick
  BY DEF IInv
<1>2. QED
  BY <1>1, InvariantHolds, PTL
================================================================================
