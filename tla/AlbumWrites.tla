----------------------------- MODULE AlbumWrites -----------------------------
(***************************************************************************)
(* The writes of a WebDAV client: PUT at the root and in an album, MKCOL   *)
(* below Albums, DELETE of an asset in an album (webdav_provider.py), as   *)
(* the calls to Immich they are made of, with upload receipts and staging  *)
(* files.                                                                  *)
(*                                                                         *)
(* A request finds an album in a list of albums that Immich had at some    *)
(* time: that is all LibraryView leaves when the clock is left out, so     *)
(* the invalidations do not show here.  A request that is refused (by the  *)
(* write policy, the kind of file, or the resource its path resolves to)   *)
(* or that Immich fails before it writes changes nothing and is left out.  *)
(***************************************************************************)
EXTENDS Naturals, Sequences

CONSTANTS
    Requests,    \* worker threads
    Names,       \* names of albums
    Assets,      \* contents of files; Immich keeps each content once
    Files,       \* names of files that are uploaded
    Backend,     \* "memory" or "redis": what keeps the receipts
    MaxAttempts, \* MAX_REQUEST_ATTEMPTS
    MaxAlbums    \* bound: the albums that are ever made

ASSUME BackendAssumption == Backend \in {"memory", "redis"}

ASSUME SetsAssumption == Names # {} /\ Assets # {} /\ Files # {}

ASSUME NumbersAssumption == MaxAttempts \in Nat \ {0} /\ MaxAlbums \in Nat

VARIABLES
    albums,    \* the albums of Immich
    members,   \* <<a, x>> for every asset x in album a
    library,   \* the assets of Immich
    receipts,  \* receipts[p]: the asset whose upload to p is remembered
    pc,        \* where each request is
    task,      \* what each request is about
    attempt,   \* the attempt of its call to Immich
    made,      \* history: the albums it has made
    staging,   \* the requests whose temporary file exists, until they start again
    unremoved, \* history: those whose file an unlink that failed, or a kill, left
    lists,     \* history: every list of albums Immich has had
    taken,     \* history: <<a, x>> for every x that was taken out of a
    deleted,   \* history: the assets that were deleted
    confirmed  \* history: <<a, x>> for every upload of x to a that succeeded

immich == <<albums, members, library>>
calls == <<attempt, made>>
files == <<staging, unremoved>>
progress == <<pc, task, calls, files>>
history == <<lists, taken, deleted, confirmed>>
vars == <<immich, receipts, progress, history>>

\* Immich numbers the albums in the order in which they are made.
AlbumIds == 1..MaxAlbums
Album == [id : AlbumIds, name : Names]
Pairs == AlbumIds \X Assets

\* The name of an album's folder: its own, with its id if it is not the only
\* one of that name.  The root is <<>>.
Folders == {<<>>} \cup {<<n>> : n \in Names} \cup (Names \X AlbumIds)
Paths == [folder : Folders, file : Files]

Calling == {"calling", "applied"}
Uploading == {"uploading", "uploaded"}
Places == {"idle", "added"} \cup Uploading \cup Calling

\* `into' is the album a request is about, {} if there is none (yet).
Task ==
    [kind : {"put", "mkcol", "delete"},
     path : Paths, name : Names, into : SUBSET AlbumIds, asset : Assets]

TypeOK ==
    /\ albums \in SUBSET Album
    /\ members \in SUBSET Pairs
    /\ library \in SUBSET Assets
    /\ receipts \in [Paths -> SUBSET Assets]
    /\ pc \in [Requests -> Places]
    /\ task \in [Requests -> Task]
    /\ attempt \in [Requests -> 1..MaxAttempts]
    /\ made \in [Requests -> Nat]
    /\ staging \in SUBSET Requests
    /\ unremoved \in SUBSET Requests
    /\ lists \in SUBSET SUBSET Album
    /\ taken \in SUBSET Pairs
    /\ deleted \in SUBSET Assets
    /\ confirmed \in SUBSET Pairs

NoPath == [folder |-> <<>>, file |-> CHOOSE f \in Files : TRUE]
NoName == CHOOSE n \in Names : TRUE
NoAsset == CHOOSE x \in Assets : TRUE

Put(p, into, x) ==
    [kind |-> "put", path |-> p, name |-> NoName, into |-> into, asset |-> x]
MakeAlbum(n) ==
    [kind |-> "mkcol", path |-> NoPath, name |-> n, into |-> {}, asset |-> NoAsset]
Remove(a, x) ==
    [kind |-> "delete", path |-> NoPath, name |-> NoName, into |-> {a}, asset |-> x]
NoTask == Put(NoPath, {}, NoAsset)

Init ==
    /\ albums = {} /\ members = {} /\ library = {}
    /\ receipts = [p \in Paths |-> {}]
    /\ pc = [r \in Requests |-> "idle"]
    /\ task = [r \in Requests |-> NoTask]
    /\ attempt = [r \in Requests |-> 1]
    /\ made = [r \in Requests |-> 0]
    /\ staging = {} /\ unremoved = {}
    /\ lists = {{}}
    /\ taken = {} /\ deleted = {} /\ confirmed = {}

\* album_entries: the folder of album a in a list of albums.
Folder(list, a) ==
    IF \E b \in list \ {a} : b.name = a.name THEN <<a.name, a.id>> ELSE <<a.name>>

\* The members of albums, now or earlier.
Seen == members \cup taken

Goto(r, place) == pc' = [pc EXCEPT ![r] = place]

Start(r, place, t) ==
    /\ pc[r] = "idle"
    /\ Goto(r, place)
    /\ task' = [task EXCEPT ![r] = t]
    /\ staging' = IF t.kind = "put" THEN staging \cup {r} ELSE staging \ {r}
    /\ unremoved' = unremoved \ {r}

End(r) ==
    /\ Goto(r, "idle")
    /\ task' = [task EXCEPT ![r] = NoTask]
    /\ attempt' = [attempt EXCEPT ![r] = 1]
    /\ made' = [made EXCEPT ![r] = 0]

-----------------------------------------------------------------------------
(***************************************************************************)
(* What a request does before it calls Immich.                             *)
(***************************************************************************)
\* _upload_receipt_resource finds nothing at p, or Redis fails.
NoReceipt(p) == receipts[p] = {} \/ Backend = "redis"

\* The file does not exist and its folder is an album: an UploadResource,
\* whose sink writes the body to a temporary file.
PutInAlbum(r, p, x) ==
    /\ NoReceipt(p)
    /\ \E list \in lists : \E a \in list :
         /\ Folder(list, a) = p.folder
         /\ Start(r, "uploading", Put(p, {a.id}, x))
    /\ UNCHANGED <<immich, receipts, calls, history>>

PutAtRoot(r, p, x) ==
    /\ NoReceipt(p)
    /\ p.folder = <<>>
    /\ Start(r, "uploading", Put(p, {}, x))
    /\ UNCHANGED <<immich, receipts, calls, history>>

\* The name is not that of a folder.
Mkcol(r, n) ==
    /\ \E list \in lists : \A a \in list : Folder(list, a) # <<n>>
    /\ Start(r, "calling", MakeAlbum(n))
    /\ UNCHANGED <<immich, receipts, calls, history>>

\* The path resolves to an asset that was listed in an album (listings may be
\* old).
Delete(r, a, x) ==
    /\ \E list \in lists : \E b \in list : b.id = a
    /\ <<a, x>> \in Seen \/ x \in deleted
    /\ Start(r, "calling", Remove(a, x))
    /\ UNCHANGED <<immich, receipts, calls, history>>

-----------------------------------------------------------------------------
(***************************************************************************)
(* ImmichClient.upload_asset, which asks once.                             *)
(***************************************************************************)
ImmichUploads(r) ==
    /\ pc[r] = "uploading"
    /\ library' = library \cup {task[r].asset}
    /\ Goto(r, "uploaded")
    /\ UNCHANGED <<albums, members, receipts, task, calls, files, history>>

\* Mutated form of UploadIsAnswered: the album is forgotten.
UploadIsEnough(r) ==
    /\ pc[r] = "uploaded"
    /\ Goto(r, "added")
    /\ UNCHANGED <<immich, receipts, task, calls, files, history>>

\* Mutated form of UploadIsAnswered: the upload is remembered at once.
UploadIsRemembered(r) ==
    /\ pc[r] = "uploaded"
    /\ Goto(r, IF task[r].into = {} THEN "added" ELSE "calling")
    /\ receipts' = [receipts EXCEPT ![task[r].path] = {task[r].asset}]
    /\ UNCHANGED <<immich, task, calls, files, history>>

\* The answer has an asset id; a PUT in an album goes on.
UploadIsAnswered(r) ==
    /\ pc[r] = "uploaded"
    /\ Goto(r, IF task[r].into = {} THEN "added" ELSE "calling")
    /\ UNCHANGED <<immich, receipts, task, calls, files, history>>

-----------------------------------------------------------------------------
(***************************************************************************)
(* The calls through _request_json, which repeats them.                    *)
(***************************************************************************)
Apply(r, kind) ==
    /\ pc[r] = "calling"
    /\ task[r].kind = kind
    /\ Goto(r, "applied")
    /\ UNCHANGED <<library, receipts, task, attempt, files, deleted, confirmed>>

\* PUT /albums/{id}/assets, if there still is such an album.
ImmichAdds(r) ==
    /\ Apply(r, "put")
    /\ task[r].asset \in library
    /\ \E a \in albums :
         /\ task[r].into = {a.id}
         /\ members' = members \cup {<<a.id, task[r].asset>>}
         /\ taken' = taken \ {<<a.id, task[r].asset>>}
    /\ UNCHANGED <<albums, made, lists>>

\* The asset was deleted: the call succeeds, and what it says of the asset
\* is not looked at.
ImmichAddsNothing(r) ==
    /\ Apply(r, "put")
    /\ task[r].asset \in deleted
    /\ \E a \in albums : task[r].into = {a.id}
    /\ UNCHANGED <<albums, members, made, lists, taken>>

\* POST /albums makes another album each time.
NewAlbum(n) ==
    /\ \E a \in AlbumIds :
         /\ {b.id : b \in UNION lists} = 1..(a - 1)
         /\ albums' = albums \cup {[id |-> a, name |-> n]}
    /\ lists' = lists \cup {albums'}

ImmichCreates(r) ==
    /\ Apply(r, "mkcol")
    /\ NewAlbum(task[r].name)
    /\ made' = [made EXCEPT ![r] = @ + 1]
    /\ UNCHANGED <<members, taken>>

TakeOut(pairs) ==
    /\ members' = members \ pairs
    /\ taken' = taken \cup (pairs \cap members)

\* DELETE /albums/{id}/assets.
ImmichRemoves(r) ==
    /\ Apply(r, "delete")
    /\ \E a \in albums : task[r].into = {a.id}
    /\ TakeOut(task[r].into \X {task[r].asset})
    /\ UNCHANGED <<albums, made, lists>>

\* Mutated form of Retry: one attempt more.
RetryOnceMore(r) ==
    /\ pc[r] \in Calling
    /\ attempt[r] <= MaxAttempts
    /\ Goto(r, "calling")
    /\ attempt' = [attempt EXCEPT ![r] = @ + 1]
    /\ UNCHANGED <<immich, receipts, task, made, files, history>>

\* A time-out, an error or a status in RETRY_STATUS_CODES, whether or not
\* Immich has done what it was asked.
Retry(r) ==
    /\ pc[r] \in Calling
    /\ attempt[r] < MaxAttempts
    /\ Goto(r, "calling")
    /\ attempt' = [attempt EXCEPT ![r] = @ + 1]
    /\ UNCHANGED <<immich, receipts, task, made, files, history>>

\* The answer arrives: a PUT goes on, MKCOL and DELETE are done.
CallIsAnswered(r) ==
    /\ pc[r] = "applied"
    /\ \/ /\ task[r].kind = "put"
          /\ Goto(r, "added")
          /\ UNCHANGED <<task, calls>>
       \/ task[r].kind # "put" /\ End(r)
    /\ UNCHANGED <<immich, receipts, files, history>>

-----------------------------------------------------------------------------
(***************************************************************************)
(* The end of a request.                                                   *)
(***************************************************************************)
\* The `finally' of end_write: an OSError of the unlink is only logged, and
\* the temporary file stays.
Unstage(r) ==
    \/ staging' = staging \ {r} /\ UNCHANGED unremoved
    \/ unremoved' = unremoved \cup {r} /\ UNCHANGED staging

\* remember_upload_receipt (without a lifetime for receipts, or when Redis
\* fails, nothing is remembered), the end of end_write, and 201.
Finish(r) ==
    /\ pc[r] = "added"
    /\ \/ receipts' = [receipts EXCEPT ![task[r].path] = {task[r].asset}]
       \/ UNCHANGED receipts
    /\ confirmed' = confirmed \cup (task[r].into \X {task[r].asset})
    /\ Unstage(r)
    /\ End(r)
    /\ UNCHANGED <<immich, lists, taken, deleted>>

\* Mutated form of Fail: the temporary file stays.
FailUntidily(r) ==
    /\ pc[r] \in Uploading \cup Calling
    /\ End(r)
    /\ UNCHANGED <<immich, receipts, files, history>>

\* The body cannot be read or stored, or Immich fails for good: end_write
\* deletes the temporary file of a PUT, and the client is given an error.
Fail(r) ==
    /\ pc[r] \in Uploading \cup Calling
    /\ IF task[r].kind = "put" THEN Unstage(r) ELSE UNCHANGED files
    /\ End(r)
    /\ UNCHANGED <<immich, receipts, history>>

-----------------------------------------------------------------------------
(***************************************************************************)
(* The environment: other clients of Immich, time, and the end of the      *)
(* process.                                                                *)
(***************************************************************************)
OtherCreates(n) ==
    /\ NewAlbum(n)
    /\ UNCHANGED <<members, library, receipts, progress, taken, deleted, confirmed>>

OtherDeletesAlbum(a) ==
    /\ a \in albums
    /\ albums' = albums \ {a}
    /\ lists' = lists \cup {albums'}
    /\ TakeOut({a.id} \X Assets)
    /\ UNCHANGED <<library, receipts, progress, deleted, confirmed>>

OtherDeletesAsset(x) ==
    /\ x \in library
    /\ library' = library \ {x}
    /\ deleted' = deleted \cup {x}
    /\ members' = {pair \in members : pair[2] # x}
    /\ taken' = {pair \in taken : pair[2] # x}
    /\ UNCHANGED <<albums, receipts, progress, lists, confirmed>>

ReceiptExpires(p) ==
    /\ receipts[p] # {}
    /\ receipts' = [receipts EXCEPT ![p] = {}]
    /\ UNCHANGED <<immich, progress, history>>

\* The process is killed.  Its temporary files stay; the receipts outlive it
\* if they are in Redis.
Restart ==
    /\ pc' = [r \in Requests |-> "idle"]
    /\ task' = [r \in Requests |-> NoTask]
    /\ attempt' = [r \in Requests |-> 1]
    /\ made' = [r \in Requests |-> 0]
    /\ unremoved' = unremoved \cup staging
    /\ receipts' = IF Backend = "memory" THEN [p \in Paths |-> {}] ELSE receipts
    /\ UNCHANGED <<immich, staging, history>>

Begin(r) ==
    \/ \E p \in Paths, x \in Assets : PutInAlbum(r, p, x) \/ PutAtRoot(r, p, x)
    \/ \E n \in Names : Mkcol(r, n)
    \/ \E a \in AlbumIds, x \in Assets : Delete(r, a, x)

Proceed(r) ==
    \/ ImmichUploads(r) \/ UploadIsAnswered(r)
    \/ ImmichAdds(r) \/ ImmichAddsNothing(r)
    \/ ImmichCreates(r) \/ ImmichRemoves(r)
    \/ Retry(r) \/ CallIsAnswered(r)
    \/ Finish(r) \/ Fail(r)

Next ==
    \/ \E r \in Requests : Begin(r) \/ Proceed(r)
    \/ \E n \in Names : OtherCreates(n)
    \/ \E a \in Album : OtherDeletesAlbum(a)
    \/ \E x \in Assets : OtherDeletesAsset(x)
    \/ \E p \in Paths : ReceiptExpires(p)
    \/ Restart

Spec == Init /\ [][Next]_vars

-----------------------------------------------------------------------------
(***************************************************************************)
(* Properties.                                                             *)
(***************************************************************************)
\* An upload to an album that the client was told has succeeded is in that
\* album, unless it was taken out of it or deleted, although it takes two
\* calls, the second of which may be repeated (README.md, write semantics).
ConfirmedUploadIsInAlbum ==
    \A pair \in confirmed : pair \in Seen \/ pair[2] \in deleted

\* What a receipt answers for has been put where its path says: into an
\* album that had that folder (remember_upload_receipt comes last in
\* upload_asset, so an upload that failed half-way is not found).
ReceiptIsHonest ==
    \A p \in Paths : \A x \in receipts[p] :
        p.folder # <<>> =>
            \E list \in lists : \E a \in list :
                /\ Folder(list, a) = p.folder
                /\ <<a.id, x>> \in Seen \/ x \in deleted

\* The temporary file of a request goes with it, however it ends, unless the
\* unlink itself fails or the process is killed (the `finally' of end_write).
StagingIsCleaned == \A r \in staging : pc[r] # "idle" \/ r \in unremoved

-----------------------------------------------------------------------------
(***************************************************************************)
(* What the documents say and the code does not do.                        *)
(***************************************************************************)
\* README.md: MKCOL creates an Immich album.  So one request makes one.
MkcolCreatesOneAlbum == \A r \in Requests : made[r] <= 1
=============================================================================
