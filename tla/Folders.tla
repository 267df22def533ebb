------------------------------ MODULE Folders ------------------------------
(***************************************************************************)
(* The folders that the WebDAV provider makes of an Immich library         *)
(* (fs_service.py, fs_model.py and the collections of webdav_provider.py): *)
(* the timeline by date, an album that is split by date when it is large,  *)
(* and a saved view.                                                       *)
(*                                                                         *)
(* A request resolves a path and then lists it.  On the way it asks Immich *)
(* questions and keeps every answer for the rest of the request (_memo).   *)
(* Between two questions the library changes, a question may be answered   *)
(* by the metadata cache from an earlier library, and an administrator may *)
(* change the settings.  They are read when the path is resolved, when the *)
(* listing begins and for each member of it, and stand until the next time.*)
(*                                                                         *)
(* A handler is written as what it asks, in order, given the answers so    *)
(* far, and what it returns once nothing is left to ask.  Times count      *)
(* hours; a name is a pair <<kind, number>>, and a path a sequence of them.*)
(***************************************************************************)
EXTENDS Integers, FiniteSets, Sequences

CONSTANTS
    Assets,         \* ids of assets, in their order
    Taken,          \* Taken[a]: the time Immich's searches filter and sort by
    Local,          \* Local[a]: the time of asset_datetime
    Display,        \* Display[a]: asset_display_name, with 8 digits of the id
    HoursPerDay, DaysPerMonth, MonthsPerYear, Horizon,
    PageSize,       \* SEARCH_PAGE_SIZE
    MaxPages,       \* SEARCH_MAX_PAGES
    Libraries,      \* the libraries it may begin with
    Settings,       \* the settings an administrator chooses from
    MaxEvents       \* bound: changes of the library and of the settings

Trees == {"Timeline", "Album", "View"}

ASSUME ConstantsAssumption ==
    /\ Assets \subseteq Nat \ {0} /\ IsFiniteSet(Assets)
    /\ Taken \in [Assets -> 0..Horizon - 1] /\ Local \in [Assets -> 0..Horizon - 1]
    /\ Display \in [Assets -> Nat]
    /\ {HoursPerDay, DaysPerMonth, MonthsPerYear, Horizon} \subseteq Nat \ {0}
    /\ {PageSize, MaxPages} \subseteq Nat \ {0}
    /\ Libraries \subseteq SUBSET Assets
    /\ Settings \subseteq [trees : SUBSET Trees, albumSplit : Int, daySplit : Int,
                           view : BOOLEAN, flat : BOOLEAN, after : Int, before : Int]

VARIABLES
    lib,        \* the assets of the folder tree (all, favorites, an album's)
    past,       \* earlier libraries the cache may still answer from
    settings,   \* the rows of the admin store that the provider reads
    stage,      \* "idle", "resolving", "listing", "members" of the listing
    tree, path, \* what the request is for
    used,       \* the settings as the request has last read them
    memo,       \* ImmichFilesystem._memo: the answer to each question
    got, twice, \* search_all_assets: the assets read, those read twice
    page,       \* search_all_assets: page_number
    names,      \* what get_member_names returned
    left,       \* those whose get_member may be under way or to come
    answer,     \* how the last request ended
    file,       \* the asset its path stands for, 0 if none
    seen,       \* the last listing a client received
    target,     \* the entry of it that the request opens, None if none
    always, ever,       \* history: assets in every, in some library it may see
    stirred, edited,    \* history: the library, the settings changed meanwhile
    paged,              \* history: it read more than one page of a search
    fresh,              \* history: nothing has changed since seen was begun
    events

world == <<lib, past, settings, events>>
asked == <<memo, got, twice, page, paged>>
going == <<stage, tree, path, used, names, left, answer, always, stirred>>
vars == <<world, stage, tree, path, used, asked, names, left, answer, file, seen,
          target, always, ever, stirred, edited, fresh>>

Kinds == {"year", "month", "day", "hour", "file", "file12"}
None == [name |-> <<"year", 0>>, asset |-> -1]
NotRead == [trees |-> {}, albumSplit |-> 0, daySplit |-> 0,
            view |-> FALSE, flat |-> FALSE, after |-> 0, before |-> 0]

-----------------------------------------------------------------------------
(***************************************************************************)
(* Dates and names.                                                        *)
(***************************************************************************)
DaysPerYear == MonthsPerYear * DaysPerMonth
Length(kind) ==
    CASE kind = "year"  -> DaysPerYear * HoursPerDay
      [] kind = "month" -> DaysPerMonth * HoursPerDay
      [] kind = "day"   -> HoursPerDay
      [] OTHER          -> 1
Span(lo, hi) == [from |-> lo, to |-> hi]
Bucket(kind, n) == Span(n * Length(kind), (n + 1) * Length(kind))
Number(kind, t) == IF kind = "hour" THEN t % HoursPerDay ELSE t \div Length(kind)
NoSpan == Span(0, 0)
Everything == Span(0, Horizon)

KindsOf(p) == [i \in 1..Len(p) |-> p[i][1]]

\* date_range_from_parts: a month must be of its year and a day of its month.
DateRange(p) ==
    CASE KindsOf(p) = <<"year">> -> Bucket("year", p[1][2])
      [] KindsOf(p) = <<"year", "month">> /\ p[2][2] \div MonthsPerYear = p[1][2]
            -> Bucket("month", p[2][2])
      [] KindsOf(p) = <<"year", "month", "day">> /\ p[3][2] \div DaysPerMonth = p[2][2]
            -> Bucket("day", p[3][2])
      [] OTHER -> NoSpan

\* hour_range_from_parts
HourRange(p) ==
    IF Len(p) = 4 /\ p[4][1] = "hour" /\ DateRange(SubSeq(p, 1, 3)) # NoSpan
    THEN LET start == DateRange(SubSeq(p, 1, 3)).from + p[4][2] IN Span(start, start + 1)
    ELSE NoSpan

Entry(kind, n, a) == [name |-> <<kind, n>>, asset |-> a]
Buckets(kind, numbers) == {Entry(kind, n, 0) : n \in numbers}

DisplayNameOfDay(a) == Number("day", Local[a])
DisplayName(a) == Display[a]
IsFirst(a, S) == \A b \in S : DisplayName(b) = DisplayName(a) => a <= b
FirstFiles(found) ==
    {Entry("file", DisplayName(a), a) : a \in {b \in found.got : IsFirst(b, found.got)}}

\* asset_entries: of several assets with one display name the first keeps it,
\* the others have 12 digits of the id; so has an asset that is listed twice.
Files(found) ==
    FirstFiles(found) \cup
    {Entry("file12", a, a) : a \in
        {b \in found.got : ~IsFirst(b, found.got) \/ b \in found.twice}}

-----------------------------------------------------------------------------
(***************************************************************************)
(* What a request asks Immich, and what it knows so far.                   *)
(***************************************************************************)
Larger(i, j) == IF i < j THEN j ELSE i
Smaller(i, j) == IF i < j THEN i ELSE j

\* _with_date_bounds: a saved view narrows every search by its own dates.
Query(kind, t, r) ==
    [kind |-> kind,
     from |-> IF t = "View" THEN Larger(r.from, used.after) ELSE r.from,
     to   |-> IF t = "View" THEN Smaller(r.to, used.before) ELSE r.to]

\* The searches that read page after page; those that differ in order or in
\* with_exif are remembered apart.
Searches == {"days", "hours", "files"}
Known(q) == q \in DOMAIN memo
Nothing == [got |-> {}, twice |-> {}, failed |-> FALSE]
Told(q) == IF Known(q) THEN memo[q] ELSE Nothing
Has(t, r) == Told(Query("has", t, r)).got # {}
Reply(asks, entries) == [asks |-> asks, entries |-> entries]

\* _load_date_bounds and its two siblings: the oldest asset and the newest.
Bounds(t) == <<Query("oldest", t, Everything), Query("newest", t, Everything)>>
Bounded(t) == \A i \in {1, 2} : Told(Bounds(t)[i]).got # {}
YearOf(t, i) == Number("year", Local[CHOOSE a \in Told(Bounds(t)[i]).got : TRUE])

\* Whether each year, each month of a year, has any asset: from the last down.
Sweep(t, kind, first, last) ==
    Reply([i \in 1..last + 1 - first |-> Query("has", t, Bucket(kind, last + 1 - i))],
          Buckets(kind, {n \in first..last : Has(t, Bucket(kind, n))}))
Swept(t, p) ==
    IF p = <<>> THEN Sweep(t, "year", YearOf(t, 1), YearOf(t, 2))
    ELSE Sweep(t, "month", p[1][2] * MonthsPerYear, (p[1][2] + 1) * MonthsPerYear - 1)
Behind(asks, reply) == Reply(asks \o reply.asks, reply.entries)

Found(kind, q) ==
    Reply(<<q>>, Buckets(kind, {Number(kind, Local[a]) : a \in Told(q).got}))
Days(t, p) == Found("day", Query("days", t, DateRange(p)))

\* list_date_buckets: Immich's index of months, or else a sweep.
IndexQuery == Query("months", "Timeline", Everything)
Indexed(p) ==
    IF p = <<>> THEN Found("year", IndexQuery)
    ELSE Reply(<<IndexQuery>>,
               Buckets("month", {Number("month", Local[a]) : a \in
                    {b \in Told(IndexQuery).got : Number("year", Local[b]) = p[1][2]}}))
TimelineBuckets(p) ==
    CASE Len(p) = 2 -> Days("Timeline", p)
      [] Len(p) # 2 /\ Told(IndexQuery).failed ->
            Behind(<<IndexQuery>> \o Bounds("Timeline"),
                   IF Bounded("Timeline") THEN Swept("Timeline", p) ELSE Reply(<<>>, {}))
      [] OTHER -> Indexed(p)

\* list_album_date_buckets: only the years depend on the bounds.
AlbumBuckets(p) ==
    CASE Len(p) = 2 -> Days("Album", p)
      [] Len(p) = 1 -> Swept("Album", p)
      [] OTHER -> Behind(Bounds("Album"),
                         IF Bounded("Album") THEN Swept("Album", p) ELSE Reply(<<>>, {}))

\* list_view_date_buckets: every level asks for the bounds first.
ViewBuckets(p) ==
    Behind(Bounds("View"),
           CASE ~Bounded("View") -> Reply(<<>>, {})
             [] Bounded("View") /\ Len(p) = 2 -> Days("View", p)
             [] OTHER -> Swept("View", p))

\* should_split_day and its siblings compare a total with the threshold.
SplitQuery(t, day) == Query("split", t, day)
IsSplit(t, day) == Cardinality(Told(SplitQuery(t, day)).got) > used.daySplit
FilesOf(q) == Reply(<<q>>, Files(Told(q)))
FilesIn(t, r) == FilesOf(Query("files", t, r))
Hours(t, day) == Found("hour", Query("hours", t, day))
DayFolder(t, day) ==
    Behind(<<SplitQuery(t, day)>>,
           CASE ~Known(SplitQuery(t, day)) -> Reply(<<>>, {})
             [] Known(SplitQuery(t, day)) /\ IsSplit(t, day) -> Hours(t, day)
             [] OTHER -> FilesIn(t, day))

-----------------------------------------------------------------------------
(***************************************************************************)
(* get_member_names of the collections.                                    *)
(***************************************************************************)
\* Mutated form of HourFolder: the files of the whole day.
WholeDayFolder(p) == FilesIn("Timeline", DateRange(SubSeq(p, 1, 3)))

\* DateRootCollection, DateBucketCollection, HourBucketCollection
HourFolder(p) == FilesIn("Timeline", HourRange(p))
DateFolder(p) ==
    CASE Len(p) <= 2 -> TimelineBuckets(p)
      [] Len(p) = 3 -> DayFolder("Timeline", DateRange(p))
      [] OTHER -> HourFolder(p)

\* should_split_album: by the count of the album's row.
AlbumQuery == Query("album", "Album", Everything)
AlbumIsSplit == Cardinality(Told(AlbumQuery).got) > used.albumSplit

\* AlbumCollection
AlbumFolder(p) ==
    IF AlbumIsSplit THEN AlbumBuckets(p) ELSE FilesIn("Album", Everything)

\* AlbumDateBucketCollection, AlbumHourBucketCollection
AlbumHourFolder(p) == FilesIn("Album", HourRange(p))
AlbumDateFolder(p) ==
    CASE Len(p) <= 2 -> AlbumBuckets(p)
      [] Len(p) = 3 -> DayFolder("Album", DateRange(p))
      [] OTHER -> AlbumHourFolder(p)

\* SavedViewCollection._view: the view is read again, and gone under this name
\* once it is disabled or renamed.
ViewFolder(p) ==
    CASE ~used.view -> Reply(<<>>, {})
      [] used.view /\ used.flat -> FilesIn("View", Everything)
      [] OTHER -> ViewBuckets(p)

\* SavedViewHourBucketCollection, SavedViewDateBucketCollection
ViewHourFolder(p) ==
    IF used.view /\ ~used.flat THEN FilesIn("View", HourRange(p)) ELSE Reply(<<>>, {})
ViewDateFolder(p) ==
    CASE Len(p) = 4 -> ViewHourFolder(p)
      [] Len(p) # 4 /\ (~used.view \/ used.flat) -> Reply(<<>>, {})
      [] Len(p) = 3 /\ used.view /\ ~used.flat -> DayFolder("View", DateRange(p))
      [] OTHER -> ViewBuckets(p)

Listing(t, p) ==
    CASE t = "Timeline" -> DateFolder(p)
      [] t = "Album" -> IF p = <<>> THEN AlbumFolder(p) ELSE AlbumDateFolder(p)
      [] t = "View"  -> IF p = <<>> THEN ViewFolder(p) ELSE ViewDateFolder(p)

-----------------------------------------------------------------------------
(***************************************************************************)
(* get_resource_inst.                                                      *)
(***************************************************************************)
Outcome(asks, what, a) == [asks |-> asks, what |-> what, asset |-> a]
IsFolder(asks) == Outcome(asks, "folder", 0)
Missing(asks) == Outcome(asks, "missing", 0)

\* The file of that name among those of the span, if there is one.
Named(asks, name, reply) ==
    LET named == {e \in reply.entries : e.name = name}
    IN  IF named = {} THEN Missing(asks \o reply.asks)
        ELSE Outcome(asks \o reply.asks, "file", (CHOOSE e \in named : TRUE).asset)
FileIn(asks, t, r, name) == Named(asks, name, FilesIn(t, r))

\* What the three trees have in common: buckets to the day, hours, files.  A
\* file of the day is found under the day even when the day is split.
HourPath(t, p, r, hour) ==
    LET asks == <<Query("has", t, r), SplitQuery(t, r)>>
    IN  IF Known(SplitQuery(t, r)) /\ IsSplit(t, r) = (Len(p) = 4)
        THEN IF Len(p) = 4 THEN IsFolder(asks) ELSE Missing(asks)
        ELSE FileIn(asks, t, IF Len(p) = 4 THEN r ELSE hour, p[Len(p)])
DatePath(t, p, r, hour) ==
    LET has == <<Query("has", t, r)>>
    IN  CASE r = NoSpan -> Missing(<<>>)
          [] r # NoSpan /\ ~Has(t, r) -> Missing(has)
          [] r # NoSpan /\ Has(t, r) ->
                CASE Len(p) <= 3 -> IsFolder(has)
                  [] Len(p) \in {4, 5} /\ hour # NoSpan -> HourPath(t, p, r, hour)
                  [] Len(p) = 4 /\ hour = NoSpan -> FileIn(has, t, r, p[4])
                  [] OTHER -> Missing(has)
ResolveDates(t, p) ==
    DatePath(t, p, DateRange(SubSeq(p, 1, Smaller(Len(p), 3))),
                   HourRange(SubSeq(p, 1, Smaller(Len(p), 4))))

\* _resolve_date_view
ResolveTimeline(p) == IF p = <<>> THEN IsFolder(<<>>) ELSE ResolveDates("Timeline", p)

\* _resolve_albums
ResolveAlbumByDate(p) == IF p = <<>> THEN IsFolder(<<AlbumQuery>>) ELSE ResolveDates("Album", p)
ResolveAlbum(p) ==
    CASE p = <<>> -> IsFolder(<<AlbumQuery>>)
      [] p # <<>> /\ ~AlbumIsSplit ->
            IF Len(p) = 1 THEN FileIn(<<AlbumQuery>>, "Album", Everything, p[1])
            ELSE Missing(<<AlbumQuery>>)
      [] OTHER -> LET dates == ResolveDates("Album", p)
                  IN  Outcome(<<AlbumQuery>> \o dates.asks, dates.what, dates.asset)

\* _resolve_saved_view
ResolveView(p) ==
    CASE ~used.view -> Missing(<<>>)
      [] used.view /\ p = <<>> -> IsFolder(<<>>)
      [] used.view /\ p # <<>> /\ used.flat ->
            IF Len(p) = 1 THEN FileIn(<<>>, "View", Everything, p[1]) ELSE Missing(<<>>)
      [] OTHER -> ResolveDates("View", p)

\* get_resource_inst: a tree that is switched off has no paths.
Resolved(t, p) ==
    IF t \notin used.trees THEN Missing(<<>>)
    ELSE CASE t = "Timeline" -> ResolveTimeline(p)
           [] t = "Album" -> ResolveAlbum(p)
           [] t = "View"  -> ResolveView(p)

-----------------------------------------------------------------------------
(***************************************************************************)
(* A request, step by step.                                                *)
(***************************************************************************)
\* What it is to ask, all told, as far as it knows now.
Plan(resolved, listing) ==
    CASE stage = "resolving" -> resolved.asks
      [] stage \in {"listing", "members"} -> listing.asks
      [] OTHER -> <<>>
\* Its next question: the first of them without an answer, {} if all have one.
FirstUnknown(plan) ==
    LET unknown == {i \in DOMAIN plan : ~Known(plan[i])}
    IN  {plan[i] : i \in {j \in unknown : \A k \in unknown : j <= k}}
Question == FirstUnknown(Plan(Resolved(tree, path), Listing(tree, path)))

\* What Immich has to say about a question, in the library l.
Matching(l, q) == {a \in l : q.from <= Taken[a] /\ Taken[a] < q.to}
Before(a, b) == Taken[a] < Taken[b] \/ (Taken[a] = Taken[b] /\ a < b)
Rank(S, a) == Cardinality({b \in S : Before(b, a)}) + 1
Said(l, q) ==
    LET S == Matching(l, q)
    IN  CASE q.kind \in {"months", "split", "album"} -> S
          [] q.kind = "newest" -> {a \in S : Rank(S, a) = Cardinality(S)}
          [] OTHER -> {a \in S : Rank(S, a) = 1}
\* The days are searched from the last asset down.
Place(S, q, a) == IF q.kind = "days" THEN Cardinality(S) + 1 - Rank(S, a) ELSE Rank(S, a)
PageOf(l, q, n) ==
    LET S == Matching(l, q)
    IN  {a \in S : (n - 1) * PageSize < Place(S, q, a) /\ Place(S, q, a) <= n * PageSize}
More(l, q, n) == Cardinality(Matching(l, q)) > n * PageSize

Remember(q, assets, again, failed) ==
    memo' = [x \in DOMAIN memo \cup {q} |->
                IF x = q THEN [got |-> assets, twice |-> again, failed |-> failed]
                ELSE memo[x]]

Start(t, p, e) ==
    /\ stage = "idle"
    /\ stage' = "resolving" /\ tree' = t /\ path' = p /\ target' = e
    /\ used' = settings
    /\ memo' = <<>> /\ got' = {} /\ twice' = {} /\ page' = 1
    /\ names' = {} /\ left' = {} /\ answer' = "none" /\ file' = 0
    /\ always' = {a \in lib : \A l \in past : a \in l}
    /\ ever' = lib \cup UNION past
    /\ stirred' = (past # {}) /\ edited' = FALSE /\ paged' = FALSE
    /\ UNCHANGED <<world, seen, fresh>>
\* A client begins at a root, or opens what it saw.
StartAtRoot(t) == Start(t, <<>>, None)
Open(e) == Start(seen.tree, Append(seen.path, e.name), e)

\* The settings are read again; the day threshold stays that of the request's
\* ImmichFilesystem.
ReadAnew == [settings EXCEPT !.daySplit = used.daySplit]

\* Every question but a search takes one call.  _resolve_albums reads the
\* threshold of albums once it has the album.
Ask(q, l) ==
    /\ q.kind \notin Searches
    /\ Remember(q, Said(l, q), {}, FALSE)
    /\ used' = IF q.kind = "album" THEN ReadAnew ELSE used
    /\ UNCHANGED <<world, stage, tree, path, got, twice, page, paged, names, left, answer,
                   file, seen, target, always, ever, stirred, edited, fresh>>
\* _timeline_month_buckets: the search is the fallback.
IndexFails(q) ==
    /\ q.kind = "months"
    /\ Remember(q, {}, {}, TRUE)
    /\ UNCHANGED <<world, stage, tree, path, used, got, twice, page, paged, names, left, answer,
                   file, seen, target, always, ever, stirred, edited, fresh>>

\* The answer is given, and the memory of the request is gone.
End(how) ==
    /\ stage' = "idle" /\ answer' = how
    /\ tree' = "Timeline" /\ path' = <<>> /\ used' = NotRead /\ names' = {} /\ left' = {}
    /\ always' = {} /\ stirred' = FALSE
    /\ memo' = <<>> /\ got' = {} /\ twice' = {} /\ page' = 1 /\ paged' = FALSE

\* search_all_assets, one page: there is another, or that was all, or there are
\* more than a listing may have.
ReadUpTo(q, l, last) ==
    LET items == PageOf(l, q, page)
        all == got \cup items
        again == twice \cup (got \cap items)
        more == More(l, q, page)
    IN  /\ q.kind \in Searches
        /\ \/ /\ more /\ page < last
              /\ got' = all /\ twice' = again /\ page' = page + 1 /\ paged' = TRUE
              /\ UNCHANGED <<memo, going>>
           \/ /\ ~more
              /\ Remember(q, all, again, FALSE)
              /\ got' = {} /\ twice' = {} /\ page' = 1
              /\ UNCHANGED <<paged, going>>
           \/ /\ more /\ page = last
              /\ End("refused")
        /\ UNCHANGED <<world, file, seen, target, ever, edited, fresh>>

ReadPageBeyond(q, l) == ReadUpTo(q, l, MaxPages + 1)
ReadPageShort(q, l) == ReadUpTo(q, l, MaxPages - 1)
ReadPage(q, l) == ReadUpTo(q, l, MaxPages)

\* A call fails and nothing in the cache can stand in for its answer.
Fail(q) ==
    /\ q.kind # "months"
    /\ End("error")
    /\ UNCHANGED <<world, file, seen, target, ever, edited, fresh>>

\* The path is resolved, and if it is a folder it is listed.
Conclude(resolved) ==
    /\ stage = "resolving"
    /\ \/ /\ resolved.what = "folder"
          /\ stage' = "listing" /\ used' = ReadAnew
          /\ UNCHANGED <<asked, tree, path, names, left, answer, file, always, stirred>>
       \/ /\ resolved.what # "folder"
          /\ End(resolved.what) /\ file' = resolved.asset
    /\ UNCHANGED <<world, seen, target, ever, edited, fresh>>

\* get_member_names returns.
NameWith(entries, memory) ==
    /\ stage = "listing"
    /\ stage' = "members" /\ names' = entries /\ left' = entries
    /\ used' = ReadAnew /\ memo' = memory
    /\ UNCHANGED <<world, got, twice, page, paged, tree, path, answer, file, seen, target,
                   always, ever, stirred, edited, fresh>>
NameAndForget(entries) == NameWith(entries, <<>>)
Name(entries) == NameWith(entries, memo)

\* The server asks the collection for each member by its name.  A bucket must
\* be a date of its parent, and every name be among the names, read anew.
IsMember(e, now) ==
    LET below == Append(path, e.name)
    IN  /\ e.name \in now
        /\ e.name[1] \in {"year", "month", "day"} => DateRange(below) # NoSpan
        /\ e.name[1] = "hour" => HourRange(below) # NoSpan
Members(all) ==
    /\ stage = "members"
    /\ \/ /\ all
          /\ End("folder")
          /\ seen' = [tree |-> tree, path |-> path, entries |-> names]
          /\ fresh' = (~stirred /\ ~edited)
       \/ /\ ~all
          /\ End("broken")
          /\ UNCHANGED <<seen, fresh>>
    /\ UNCHANGED <<world, file, target, ever, edited>>

AllMembers(now) == \A e \in left : IsMember(e, now)
\* Some members have been asked for; the next one reads the settings anew.
NextMember(now) ==
    /\ stage = "members" /\ used # ReadAnew
    /\ used' = ReadAnew
    /\ left' \in SUBSET left \ {{}} /\ \A e \in left \ left' : IsMember(e, now)
    /\ UNCHANGED <<world, asked, stage, tree, path, names, answer, file, seen, target,
                   always, ever, stirred, edited, fresh>>
NamesOf(entries) == {e.name : e \in entries}
Proceed(question) ==
    \/ \E q \in question : \/ \E l \in past \cup {lib} : Ask(q, l) \/ ReadPage(q, l)
                           \/ IndexFails(q) \/ Fail(q)
    \/ /\ question = {}
       /\ \/ Conclude(Resolved(tree, path))
          \/ LET entries == Listing(tree, path).entries
             IN  \/ Name(entries)
                 \/ NextMember(NamesOf(entries))
                 \/ Members(AllMembers(NamesOf(entries)))
RequestStep == Proceed(Question)

-----------------------------------------------------------------------------
(***************************************************************************)
(* Meanwhile.                                                              *)
(***************************************************************************)
\* Another client of Immich uploads an asset or deletes one.
Change(a) ==
    /\ events < MaxEvents /\ events' = events + 1
    /\ \/ a \in lib /\ lib' = lib \ {a}
       \/ a \notin lib /\ lib' = lib \cup {a}
    /\ past' = past \cup {lib}
    /\ always' = always \cap lib'
    /\ ever' = IF stage = "idle" THEN ever ELSE ever \cup lib'
    /\ stirred' = (stage # "idle") /\ fresh' = FALSE
    /\ UNCHANGED <<settings, stage, tree, path, used, asked, names, left, answer, file, seen,
                   target, edited>>
\* The cache's answers from an earlier library expire.
Expire(l) ==
    /\ past' = past \ {l}
    /\ UNCHANGED <<lib, settings, events, stage, tree, path, used, asked, names, left, answer,
                   file, seen, target, always, ever, stirred, edited, fresh>>
\* An administrator changes the settings of the mount or the saved view.
Edit(s) ==
    /\ events < MaxEvents /\ events' = events + 1
    /\ settings' = s
    /\ edited' = (edited \/ stage # "idle") /\ fresh' = FALSE
    /\ UNCHANGED <<lib, past, stage, tree, path, used, asked, names, left, answer, file, seen,
                   target, always, ever, stirred>>

\* DEFAULT_MOUNT_SETTINGS has every tree.
Init ==
    /\ lib \in Libraries /\ past = {}
    /\ settings \in {s \in Settings : s.trees = Trees}
    /\ stage = "idle" /\ tree = "Timeline" /\ path = <<>> /\ used = NotRead
    /\ memo = <<>> /\ got = {} /\ twice = {} /\ page = 1
    /\ names = {} /\ left = {} /\ answer = "none" /\ file = 0
    /\ seen = [tree |-> "Timeline", path |-> <<>>, entries |-> {}] /\ target = None
    /\ always = {} /\ ever = lib
    /\ stirred = FALSE /\ edited = FALSE /\ paged = FALSE /\ fresh = FALSE
    /\ events = 0

Next ==
    \/ RequestStep
    \/ \E t \in Trees : StartAtRoot(t)
    \/ \E e \in seen.entries : Open(e)
    \/ \E a \in Assets : Change(a)
    \/ \E l \in past : Expire(l)
    \/ \E s \in Settings : Edit(s)

Spec == Init /\ [][Next]_vars

-----------------------------------------------------------------------------
(***************************************************************************)
(* Properties.                                                             *)
(***************************************************************************)
Names == [name : Kinds \X Nat, asset : Nat]

TypeOK ==
    /\ lib \in SUBSET Assets /\ past \in SUBSET SUBSET Assets /\ settings \in Settings
    /\ stage \in {"idle", "resolving", "listing", "members"} /\ tree \in Trees
    /\ path \in Seq(Kinds \X Nat)
    /\ got \in SUBSET Assets /\ twice \in SUBSET got /\ page \in 1..MaxPages
    /\ \A q \in DOMAIN memo :
        /\ memo[q].got \in SUBSET Assets /\ memo[q].twice \in SUBSET memo[q].got
        /\ memo[q].failed \in BOOLEAN
    /\ names \in SUBSET Names /\ left \in SUBSET names /\ seen.entries \in SUBSET Names
    /\ answer \in {"none", "folder", "file", "missing", "refused", "error", "broken"}
    /\ file \in Assets \cup {0}
    /\ always \in SUBSET Assets /\ ever \in SUBSET Assets

\* The two times of an asset agree: it was taken at UTC, or Immich was told so.
Agrees(a) == Taken[a] = Local[a]
InBucket(name, t) == Number(name[1], t) = name[2]
IsBucket(name) == name[1] \in {"year", "month", "day", "hour"}
Below(p, t) == \A i \in DOMAIN p : InBucket(p[i], t)
InFilter(t, a) == t # "View" \/ (settings.after <= Taken[a] /\ Taken[a] < settings.before)
Covers(e, a) == IF IsBucket(e.name) THEN InBucket(e.name, Local[a]) ELSE e.asset = a

\* A listing is whole: whatever was in the folder all the time that it was read
\* is under one of its names.
ListingIsWhole ==
    (stage = "members" /\ ~edited /\ (~paged \/ ~stirred)) =>
        \A a \in always :
            (/\ Below(path, Local[a]) /\ InFilter(tree, a)
             /\ IF path = <<>> THEN \A b \in ever : Agrees(b) ELSE Agrees(a))
            => \E e \in names : Covers(e, a)

\* A listing shows nothing that was never in its folder: behind each name is an
\* asset that one of its two times puts into the folder, that passes the dates
\* of the saved view, and that is the file or, by one of its times, in the bucket.
ListingInventsNothing ==
    stage = "members" =>
        \A e \in names : \E a \in ever :
            /\ Below(path, Taken[a]) \/ Below(path, Local[a])
            /\ edited \/ InFilter(tree, a)
            /\ IF IsBucket(e.name)
               THEN InBucket(e.name, Local[a]) \/ InBucket(e.name, Taken[a])
               ELSE e.asset = a

\* A listing is refused only if there was more than a listing may have.
RefusedOnlyIfLong ==
    answer = "refused" => Cardinality(ever) > MaxPages * PageSize

\* While nothing changes a client can open whatever a listing showed it.
ListedOpens ==
    (stage = "idle" /\ fresh /\ target # None /\ \A a \in ever : Agrees(a)) =>
        /\ answer \notin {"missing", "broken"}
        /\ answer = "file" => file = target.asset

\* Every name of a listing has its member, whatever the library does meanwhile.
EveryNameHasItsMember ==
    answer = "broken" => edited \/ \E a \in ever : ~Agrees(a)

\* A name never comes to stand for another asset, but for one of several that
\* share a display name.
NamesStick ==
    (answer = "file" /\ target.asset \in Assets /\ file # target.asset) =>
        target.name = <<"file", Display[file]>>
=============================================================================
