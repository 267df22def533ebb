# Verification of immich-bridge

immich-bridge serves an [Immich](https://immich.app) photo library as a WebDAV
file system and has an admin API beside it. This directory holds TLA+
specifications of its core, TLC configurations that check them on small
instances, and theorems that the TLA+ proof system checks for every value of the
constants. Paths below are relative to the repository; `PROJECT.json` maps
every definition to the lines it models.

## The system

One process (`main.py`) runs a WebDAV server (cheroot, a pool of worker threads)
and an admin API (uvicorn). Deployment is one replica with strategy `Recreate`,
so there is never a second process over the same data. Its parts:

| Part | State it keeps | Operations | What is hard about it | What makes it correct |
|---|---|---|---|---|
| Cache facade, `cache.py` | a dictionary with expiries, or Redis; counters | `get_json`, `set_json`, `delete_prefix`, `incr_with_ttl`, `get_int` | Redis errors are swallowed; a scan is not atomic; Redis survives a restart | nothing expired is returned; `delete_prefix` leaves nothing behind |
| Immich client, `immich_client.py` | a fresh and a stale copy of each query, per user | cached queries; create album, add and remove asset, upload; open a range | a query and a write overlap; writes are repeated after time-outs; outages | an answer is never older than its bound; a write invalidates; an outage is survived |
| Range cache, `blob_cache.py` | two files per byte range, in a directory that outlives the process | `get`, `set`, pruning | `get` deletes without the lock; two renames; kills; full disks | a hit is recent; the size is bounded; temporary files go |
| WebDAV front door, `webdav_server.py`, `webdav_auth.py` | two semaphores; failure counters | admit, reject, stream, end a request; authenticate | a permit is released from three places; check and count are two steps | permits are conserved; limits kept; requests and lock-outs end |
| WebDAV provider, `webdav_provider.py` | upload receipts; staging files | resolve a path; MKCOL, PUT, DELETE; list | decisions from cached lists; a write is several calls to Immich, any of which may fail | what was confirmed is found again; nothing is left behind |
| Filesystem service, `fs_service.py`, `fs_model.py` | what one request has already asked | list albums, buckets, assets; name them | pagination while the library changes; name collisions | a folder is listed in full or refused; a listed name resolves |
| Admin store, `admin_store.py` | SQLite: libraries, settings, views, sessions | upserts, deletes, migrations at start-up | one library is the default; every request repairs the default row | exactly one default; views belong to one library |
| Admin API, `api/admin.py`, `api/auth.py` | keys of sessions in memory and in the cache | log in, log out, attach a shared link, views, libraries | database and memory change one after the other; read, change, write | no key outlives its session; no grant is lost |
| Grants, `authz.py`, `share_auth.py`, `immich_auth.py` | none | parse links, sign and check grants | | checks depend on the grant alone |
| Clients: `frontend`, `macos`; documents: `windows`, `docs` | forms, a mount | call the admin API, mount the address | | |

The provider calls the filesystem service, which calls the client, which calls
the facade for metadata, the range cache for bytes, and Immich. The front door
calls the facade for its counters and, through WsgiDAV, the provider. The admin
API calls the store, the facade and Immich. So the facade is shared by all
threads of all parts, and Immich is changed by others all the time.

## Modules

| Module | What it models |
|---|---|
| `LibraryView` | abstract: what a request is told about the library, and how old that may be |
| `MetadataCache` | `ImmichClient._cached`, the writes, their invalidation, both backends; implements `LibraryView` |
| `MCMetadataCache` | instances: lifetimes, symmetry of readers |
| `MetadataCache_proofs` | theorems about it |
| `BlobCache`, `MCBlobCache`, `BlobCache_proofs` | `BlobCache` of `blob_cache.py` under `_open_cached_range` |
| `FrontDoor`, `FrontDoor_proofs` | `ClientCompatibilityMiddleware` and `ImmichBasicAuthenticator` |
| `AlbumWrites`, `MCAlbumWrites`, `AlbumWrites_proofs` | PUT, MKCOL and DELETE of `webdav_provider.py`, as the calls to Immich they are made of |
| `AdminStore`, `MCAdminStore`, `AdminStore_proofs` | libraries, settings and views of `admin_store.py`, and the requests of `api/admin.py` that change them |
| `Folders`, `MCFolders`, `Folders_proofs`, `FolderListings_proofs` | the folders of the timeline, an album and a saved view: `fs_service.py`, `fs_model.py`, path resolution and collections of `webdav_provider.py` |
| `Sessions`, `MCSessions`, `Sessions_proofs` | sessions, grants and keys: `api/auth.py`, `api/admin.py`, the session rows of `admin_store.py`, `authz.py` |

### MetadataCache

A *key* is one query of one user; its slots `<<k, "fresh">>` and `<<k, "stale">>`
are the cache keys with and without `stale:`. The library is abstracted to its
number of changes, and `writes` holds the time of each, so that the age of a
value is a number: version `v` was superseded at `writes[v+1]`. A reader is a
thread in `_cached`, one action per call it makes: `Hit`/`Miss` (the first
`get_json`), `ImmichAnswers`/`ImmichFails` (the loader, retries included),
`StoreFresh`, `StoreStale` (the two `set_json`), `StaleHit`/`StaleMiss` (the
`except` branch). A writer is a thread in `create_album`, `add_asset_to_album`,
`remove_asset_from_album` or `upload_asset`: `ImmichApplies` may happen without the
answer arriving, after which `RetryWrite` asks again and an album is created
again; `WriteSucceeds` begins the invalidation, which is one step in memory and
one step per slot in Redis. Redis calls fail at any time, silently. `Restart`
drops threads and the in-memory cache, not Redis. History: `barrier` is the
newest version whose invalidation ran to its end, and `late` marks a value that
had been superseded when it was stored.

`LibraryView` is the abstract specification: a clock, changes, and answers that
are *recent*: current, or superseded no longer ago than a bound, which is short in
normal operation and long in an outage. The refinement maps a reader that is
`done` to its answer, and the bounds to `TTL[k] + StoreDelay` and
`StaleTTL(k) + StoreDelay`.

### BlobCache

Bytes are represented by the time Immich served them. Four maps are the four
kinds of files (`.bin`, `.json`, each also as `.tmp`); each `open`, `replace`,
`unlink` is a step of its own, so that `get`, which has no lock, runs between any
two. `set` takes the lock after it has computed the expiry, as in the code.
`StoreFails` is the `except OSError` at any step under the lock. `_delete_pair` passes over an
unlink that fails (`KeepData`, `KeepMeta`, and `StoreFails`, whose temporary files may stay): a
pruning then goes on as if the file were gone, and takes its size off the total. `Restart` is a
kill at any point. Pruning lists the directory once and then looks at each
file, discards, and evicts by last use and size from its list. `total_bytes` is written as
the number of bytes of the listed ranges, each byte a pair of its range and its place in it
(`Content`, `Bytes`): a cardinality, which can be reasoned about without summing up. History:
`unpruned` counts the stores that were interrupted since a pruning last came to its end, `undeleted`
are the ranges that a pruning could not delete, `leftover` those whose last store was killed or
could not clean up, and `faults` counts kills, failed stores and failed unlinks. Not modelled: loss
of power, after which unsynchronised files may have any content.

What this leaves of the promises: `CountedBytesAreBounded` does not count `undeleted` ranges, which
come on top of the bound until they are deleted or stored anew or a pruning ends whose total
includes them, and `TmpFilesAreCleaned` does not count `leftover` ones, until the next store of
the range gets through.

### FrontDoor

A worker is a thread of cheroot with one request. `Admit`, `CallApp` and the
rejections are the non-blocking `acquire` calls; a request ends by `CallFails`
(the application raises before it returns an iterator), or by `StopIteration`
(exhausted, raised or closed) and then the two halves of the `finally` of
`timing_iter`. Authentication is four steps: look at the counter, ask Immich,
count, and, in Redis, set the expiry of a new counter. All requests are of one
address and user, the ones that share a counter. `backend` is chosen in `Init`.

### AlbumWrites

A request is a thread with a `task` (what it writes, where, and into which album) and a
place `pc`. It begins with what its path resolved to: an album folder in some
list of albums that Immich has had (`lists`), since cached lists may be old; this is
what `LibraryView` promises when its clock is left out. A folder has the album's
name, or name and id if two albums share the name (`Folder`, from `album_entries`).
A PUT writes a temporary file, uploads it once, adds the asset to the album with a
call that `_request_json` may repeat, remembers a receipt and answers 201
(`Finish`); every other end is `Fail`. In each call Immich may act and its answer be
lost (`Retry` and `Fail` after `Immich...`). Immich gives equal contents one asset,
makes another album for each POST, and adds nothing, without an error, when the
asset is gone (`ImmichAddsNothing`): the code does not look at that answer. Other
clients make and delete albums and delete assets. A restart loses requests, and
receipts unless Redis keeps them. The `finally` of `end_write` unlinks the temporary file and only
logs a failure (`Unstage`); `unremoved` are the requests whose file such a failure or a kill has
left on disk.

Left out: requests that are refused before they call Immich (write policy, kind of
file, metadata files of macOS), which change nothing; who the user is, since
receipts are kept per user; the contents of listings, so a PUT over a file that is
listed is a refused request.

### AdminStore

Tables are sets and functions: `libraries` and `defaults` are the rows of one table, a
setting of a library is a set of at most one value, `oldSettings` is the table
`settings` of a version that had no libraries. A method of the store is one SQLite
transaction and one step. A handler is one step too: it is an `async def` that never
awaits, so nothing else of the API runs on the event loop in between; its dependency
`_store` is not, since it is run in a thread first (`Ensure`), and other requests
come between it and the handler. `Initialize` is `get_admin_store` at a start, with
the migration of the old settings before the factory settings are filled in;
`Restart` is a stop or a kill at any time, which rolls back what was open. What the
partial unique index refuses is an action of its own (`EnsureFails`,
`InitializeFails`); that it refuses nothing else is the invariant
`DefaultIsUnique`. `chosen` is history: the last value that a user chose.

Left out: sessions (they are `Sessions`), the migration of tables of views that have no library
ids, URLs and other fields of libraries, what a view selects, a locked
database. The WebDAV side only reads, and only the settings of `default`.

### Folders

A request resolves its path and, if that is a folder, lists it. Both are a series of
questions to Immich (has this span an asset? which is the oldest? page 2 of this search?)
whose answers `_memoized` keeps until the request ends. So a handler of the code is
written as an operator that gives, for the answers so far, *what it asks*, in order, and
*what it returns* once nothing is left to ask (`Reply`, `Outcome`): `Listing` is
`get_member_names` of the collections and `Resolved` is `get_resource_inst`, each by tree and
depth. One step of a request gets one answer (`Ask`), one page of a search (`ReadPage`,
`search_all_assets`), or an error (`IndexFails`, `Fail`), and the request goes on with
`Conclude` (the path is resolved), `Name` (`get_member_names` returns) and `Members`, where
WsgiDAV asks the collection for each member by name and the collection computes its names
again. `used` is what the request has last read of the settings: it reads them when it
begins, the album threshold once it has the album, everything but the day threshold when the
listing begins and for each member (`NextMember`; `left` are the members still to come, in
any order). In between a search goes on with the filters it began with. Between two steps an asset comes or goes
(`Change`), the settings change (`Edit`), and an answer may be one of an earlier library,
from the metadata cache, until it expires (`past`). A client starts at a root or opens
what its last listing showed (`Open`).

An asset has two times: `Taken`, by which Immich filters and sorts, and `Local`, from
which `fs_model.py` makes the names of folders. A name is a pair of a kind and a number;
`Files` gives the first asset of a display name that name and the others one with a longer
suffix. Abstracted: Immich names the pages of a search 1, 2, 3 and so on (the code follows whatever
number it names); a client opens only what it was shown, so that a path with the day of another
year, whose parts `date_range_from_parts` compares with the month only, does not occur; twelve
digits of an id tell assets apart; Immich tells the true
number of matches (`total`); years and months have a fixed length; favorites are the
timeline with one more filter and are not a tree of their own; there is one album and one
view. A path that does not resolve may still be answered from a receipt, which is
`AlbumWrites`.

`ListingInventsNothing` asks for an asset behind every name that the dates of the path cover (by
one of its two times), that the dates of the view cover, and that is in the bucket or is the file.
The conditions of the properties say what does not hold. While the settings change a
listing may mix two of them, so that the filter of the view is asked for only if they stay. A listing of several pages may miss an asset when the
library changes between the pages or they come from caches of different age. And an
asset whose two times fall into different folders is searched for in one and named after
the other: it may be missed, and a listing whose names it made may break.

### Sessions

The state is a row per token (`admin_sessions`, with the grants), the keys of shared links
in the process (`_share_keys`), and the API key of an administrator in the process
(`_admin_api_keys`) and in the cache (`cached`), where Redis outlives the process and a
call to it may fail silently (`Answers`, recorded in `cutOff`). A request is admitted with
the session as it was read (`Admit`: the dependencies run in other threads) and is
handled, in one step since the handlers never await, any time later: `AddLink` writes back
the grants it has read and a new one, whatever has become of the row; `DeleteAdminSession`
and `DeleteCurrentSession` are the two log-outs, of which only the second drops the keys
of links. Log-ins prune expired rows. `Restart` loses the process, not the database.
Sessions of an older version, which have a kind and no grants, may be there from the
start.

Libraries are ids. What Immich says of an API key (for each library) or of a link
(what it allows) is chosen; `earned` records it. A link belongs to one library
(`LibraryOf`), whose hosts are not changed while the sessions live. Tokens are drawn once.
Time is counted in whole seconds. The API key of an administrator is cached for what is left of the
session in whole seconds (`Remaining`: all of the lifetime, or a second less, as `int()` finds it),
and not at all if that is none; `AdminKeySurvives` therefore ends a second before the session.
History is cleared at a log-out, since the session is gone then. A request whose effect is
in `AdminStore` is `Answer`. A kill between storing a row and answering leaves a session
whose token nobody knows; it is left out, as are signed grants (`share_auth.py`) and the
parsing of links.

## What is checked

Every property has a mutant in `PROJECT.json`: a plausible bug in a definition
of the code under which TLC finds the property violated.

| Run | Instance | Shows |
|---|---|---|
| `metadata_cache_memory` | 1 key, 2 readers, 1 writer with 2 attempts, 2 changes, clock to 2, lifetimes 0 and 1 | `TypeOK`, `InvalidationIsComplete`, `FreshHasBackup`, and the refinement `BoundedStaleness` |
| `metadata_cache_redis` | the same over Redis, 1 attempt, 1 change, clock to 3, lifetimes 1 and 2 | `InvalidationIsComplete` while the scan is interleaved with stores; `BoundedStaleness` although Redis calls get lost |
| `metadata_cache_writes` | 1 reader, 1 writer | finding: the old listing can be cached after the invalidation |
| `blob_cache` | 2 ranges (one larger than `MaxBytes`), 2 threads, 1 fault (a kill, a failed store or a failed unlink), clock to 2 | `TypeOK`, `CountedBytesAreBounded`, `HitIsRecent`, `TmpFilesAreCleaned` |
| `blob_cache_disk` | no faults, no clock | finding: a `.bin` file without metadata is never pruned |
| `front_door` | 3 workers, 2 request permits, 1 stream permit, failure limit 2, both backends | `TypeOK`, `InFlightIsBounded`, `NoPermitIsLost`, `OvershootIsBounded`, and `RequestsEnd`, `LockoutEnds` |
| `album_writes` | 2 requests, 1 name, 2 albums, 1 asset, 2 attempts, receipts in Redis | `TypeOK`, `ConfirmedUploadIsInAlbum`, `ReceiptIsHonest`, `StagingIsCleaned` |
| `album_writes_mkcol` | 1 request | finding: one MKCOL makes two albums |
| `admin_store` | 2 requests, 2 libraries, 2 settings with 2 values, 2 views, 2 names | `TypeOK`, `SettingsAreKept`, `DefaultIsUnique`, `LibrariesAreConfigured`, `ViewsStayInTheirLibrary` |
| `admin_store_default` | the same | finding: another default library makes every request fail |
| `folders` | 5 assets, 8 first libraries, 3 settings, 1 event, pages of 1, at most 3 pages | `TypeOK`, `ListingIsWhole`, `ListingInventsNothing`, `RefusedOnlyIfLong`, `ListedOpens`, `EveryNameHasItsMember`, `NamesStick` |
| `sessions` | 2 requests, 2 tokens, 2 libraries, 3 links, lifetime 3, clock to 3, both backends | `TypeOK`, `AttachedSharesStay`, `AttachedSharesHaveKeys`, `KeysEndWithTheirSession`, `AdminKeySurvives`, `GrantsAreEarned`, `MountsShowCapabilities`, and `EndedSessionsStayEnded` |

**Bounds.** `MaxTime` ends the clock; the lifetimes are 0, 1 or 2 so that expiry,
a store that is late, and both copies of a key happen before that. Keys do not
interact except that one invalidation covers all: one key and two slots show the
scan between its steps. Two readers are what a store before and one after a write
need; one writer with two attempts is a repeated write. Two ranges make pruning
choose and evict, two threads are a reader without the lock against a holder of it.
Three workers exceed both limits. `MaxFaults`, `MaxVersion`, `MaxAttempts` and
`MaxCount` bound faults, changes, attempts and the counter in Redis. The theorems
below are for all values of these constants. The bound that `BoundedStaleness` gives for an outage
(`OutageBound`) is not reached before `MaxTime`: the runs show the bound of normal operation, and
that of an outage rests on the theorem `CacheImplementsView`. Readers and threads are symmetric in
the two caches and in `AlbumWrites`, where no liveness is checked. Two albums of one
name are what a colliding folder name needs. `album_writes` has a constraint,
`OneReceipt`: one path at a time is remembered (four paths would multiply the states
by sixteen, and no property relates two of them). It checks Redis only: since
receipts expire at any time, every behaviour over the in-memory cache is, for the
receipts, one over Redis. In `admin_store` two requests
are what changes the database between a dependency and its handler; two libraries are
two candidates for the default and two places for a view; two names collide or
not; requests, views and names are symmetric. In `folders` two assets share a display
name, one is of the next hour, one of the last hour of a year, and one was taken in that
hour and is filed under the next year; two hours, days and months per day, month and
year are enough for neighbours at every level. One event falls between any two steps of a
request, or between two requests, and thresholds of 0, 1 and 4 split or do not split.
In `sessions` two links of one library and one of another are what an added link needs to
lose a grant that was added before; lifetime and clock let one session expire under a
request while another has just begun, and a cached key expire a second before its session. No run turns deadlock checking off.

**What two properties leave open.** `AttachedSharesStay` excepts sessions whose requests have
overlapped, since of two links that are added at a time one grant is indeed lost. `LockoutEnds`
would not notice a window that each counted failure renews, because a user who is locked out has
none counted; what it rests on is that the counter keeps an expiry.

**Assumed of time.** `StoreDelay` is the longest time from Immich's answer to the
store: a thread is not stopped for longer. Without such a bound nothing that is
cached after it was fetched has a bounded age; with it the bound of each
property names it.

**Fairness** is assumed in `FrontDoor` only: `WF(CallApp \/ Leave)` for each worker,
because every call to Immich has a time-out of httpx and every socket of cheroot
has one, so a request neither waits nor is written to forever, and both limiters
are acquired without blocking; and `WF(Tick)`, because time passes. Nothing is
assumed of `Admit`: no request need arrive. Requests of `Folders` end because each answers
finitely many questions, and those of `Sessions` are one step: no property needs fairness
there.

## What is proved

`tlapm` proves, for every value of the constants that the named assumptions
allow (numbers are natural, `TTL` is a function of the keys, the workers are a
finite set, names, assets and files are not empty, `Default` is a library and
`Factory` a value):

| Theorem | Says | By |
|---|---|---|
| `MetadataCache_proofs!TypeCorrect` | `[]TypeOK` | one step per action |
| `MetadataCache_proofs!InvalidationComplete` | `[]InvalidationIsComplete` | `SweepInv`: the slots an invalidation has been to hold nothing old but late values; a scan is then complete when it ends |
| `MetadataCache_proofs!BackupForOutages` | `[]FreshHasBackup` | inductive with `TypeOK`: the second store follows the first, and lives as long |
| `MetadataCache_proofs!CacheImplementsView` | the refinement of `LibraryView` | `AgeInv`: an entry expires no later than a lifetime and a `StoreDelay` after its value was superseded; with it each step is a step of `LibraryView` or leaves its variables unchanged |
| `BlobCache_proofs!TypeCorrect` | `[]TypeOK` | one step per action |
| `BlobCache_proofs!HitsAreRecent` | `[]HitIsRecent` | `AgeInv`: what the lock holder has put in which file, and that metadata found beside bytes expires no later than these allow |
| `FrontDoor_proofs!TypeCorrect`, `PermitsAreConserved`, `LimitsAreRespected` | `[]TypeOK`, `[]NoPermitIsLost`, `[]InFlightIsBounded` | `PermitInv`: what a worker has acquired follows from where it is; `TypeOK` is not inductive without it, since a semaphore could then pass its size |
| `FrontDoor_proofs!OvershootBounded` | `[]OvershootIsBounded` | `OvershootInv`: once the limit is reached, counted and pending failures together are below limit + overlap, since nobody passes the check any more |
| `AlbumWrites_proofs!TypeCorrect` | `[]TypeOK` | one step per action |
| `AlbumWrites_proofs!UploadsAreInAlbums`, `ReceiptsAreHonest`, `StagingFollowsRequests` | `[]ConfirmedUploadIsInAlbum`, `[]ReceiptIsHonest`, `[]StagingIsCleaned` | `RequestInv`: a request that has added its asset put it into the album its path was resolved to. `Kept` makes it stable: no step forgets a folder there was or a member there was without recording why |
| `AdminStore_proofs!TypeCorrect`, `DefaultStaysUnique`, `LibrariesStayConfigured` | `[]TypeOK`, `[]DefaultIsUnique`, `[]LibrariesAreConfigured` | inductive with `TypeOK`: `Initialize` and `Ensure` keep the default unique by the guard of the index, `SaveLibrary` by taking the flag from the others |
| `AdminStore_proofs!ChoicesAreKept` | `[]SettingsAreKept` | `ProcessInv` (only an initialized store admits requests) and `ChoiceInv`: while the process is down a choice is in the table or still waits to be migrated, which the order of `initialize` then does before it fills in anything |
| `AdminStore_proofs!ViewsStay` | `ViewsStayInTheirLibrary`, an action property | `ViewInv`: an id is one view |
| `BlobCache_proofs!TmpFilesGo` | `[]TmpFilesAreCleaned` | `TmpInv`: a temporary file of a range that is not `leftover` has a thread that is about to rename it, and by `AgeInv` that thread has the lock |
| `Sessions_proofs!TypeCorrect`, `GrantsEarned`, `MountsAgree` | `[]TypeOK`, `[]GrantsAreEarned`, `[]MountsShowCapabilities` | `EarnInv`: what Immich said covers the grants of a row and those that requests under way have read and may write back |
| `Sessions_proofs!SessionsStayEnded` | `EndedSessionsStayEnded`, an action property | `EndInv`: a live row expires when its client was told; and no step makes a row live: a log-in draws a new token, and grants are written to a live row only |
| `Sessions_proofs!SharesStay`, `SharesHaveKeys` | `[]AttachedSharesStay`, `[]AttachedSharesHaveKeys` | `ShareKeyInv`, with `EndInv`: rows, keys and requests of a token all end when its client was told |
| `Sessions_proofs!KeysEnd`, `AdminKeysSurvive` | `[]KeysEndWithTheirSession`, `[]AdminKeySurvives` | `EndInv`, `LeftInv` (what the log-out leaves) and `AdminKeyInv` (Redis has the key as long as the row) |
| `Folders_proofs!TypeCorrect` | `[]TypeOK` | `ToldInv`: what a request was told is of libraries it may see, and an asset that answers whether a span has any was taken in that span; then one lemma per handler (`ListingIsGood`), down to the quotient of a time and the length of a bucket |
| `FolderListings_proofs!NothingInvented` | `[]ListingInventsNothing` | `PlaceInv`: a request that lists is for a path of dates each within the one before, and what it shows is again of this form; by `ToldInSpan` an answer is of the span that was asked for, so one lemma per handler (`ListingIsBacked`) finds the asset behind a name |
| `Folders_proofs!NamesKeepTheirAssets` | `[]NamesStick` | `SeenInv`: an entry of any listing has one of the two names its asset can have; `ResolvedIsSound`: a path that is a file has the last name of its path |
| `BlobCache_proofs!CacheIsBounded` | `[]CountedBytesAreBounded` | `BoundInv`: the ranges that count, but for the one whose store holds the lock, fit into `MaxBytes` and one range per interrupted store; `PruneInv`: a pruning under way has forgotten none of them, although readers delete files under it |
| `Folders_proofs!RefusalsAreDue` | `[]RefusedOnlyIfLong` | `LibraryInv`: an answer is of a library within `ever`, and the cardinality of a part is at most that of the whole |
| `FolderListings_proofs!ListingsAreWhole` | `[]ListingIsWhole` | `AnswerInv` and `SearchInv` (what an answer says of one library, and the pages of a search), then the form of a listing: see below |
| `FolderListings_proofs!NamesHaveMembers` | `[]EveryNameHasItsMember` | `NamesInv`: the names are still what the answers make of the folder; an entry of any form is a date of its parent, an hour of a split day, or a file |
| `FolderListings_proofs!ListedNamesOpen` | `[]ListedOpens` | `OpenInv`: an entry of the last listing opens in the library as it is, said without any answer, so that it carries over to the next request |

The invariant of `Sessions` is the conjunction `IInv` of these parts; a generic lemma each for
log-ins (`LogInKeeps`), log-outs (`EndSessionKeeps`) and steps that only end a request
(`QuietStepKeeps`) keeps the proofs of the actions short.

The theorems of `FolderListings_proofs` rest on one invariant, `LInv`, which adds to that of
`Folders_proofs`:

- `HistoryInv`: what the history variables say. `always` is in each library that may answer;
  while nothing was stirred or edited there is one library and the settings are those in use.
- `AnswerInv`: an answer is what one library, with all of `always` in it, says of its question,
  unless the library changed between the pages of a search. It is what the properties
  cannot do without: they speak of names, and a name is made from answers given earlier, perhaps
  by the cache. `SearchInv` is the same for the pages read so far (`Pages`: page by page the
  places of a search are covered once).
- `FolderInv`, `NamesInv`: how the folder was resolved, and that its names are still what its
  answers make of it.
- `OpenInv`: for the last listing, that each entry opens (`Opens`).

`NothingInvented` needs `PlaceInv` beside it: that the month of a path is one of its year, which
`date_range_from_parts` checks for the month, but for a day only against the month. A client has its
paths from listings, and the member of a listing was checked when it was made. The other three
properties are not inductive alone. The argument then goes in three steps, each a
lemma. `ListingIsOfForm`: once nothing is left to ask, a listing has one of eight forms (the files
of the folder, of an hour or of a day, the hours of a day, the days of a month, the months or
years that a sweep found, the index, or nothing), whatever the tree; this needs the queries to
be typed, since a plan is a sequence (`ListingIsTyped`). `EntriesOfForm`, `NamesOpen` and
`ListingCovers` say what follows for a name, a name while nothing changes, and an asset of the
folder. `ResolvedIsTyped` and `ListedIsFound` say what a path that is resolved was asked, and that
it is asked the same of an entry as `Opens` says. Below these are facts of dates: that a bucket
holds the times that have its number (`NumberOfBucket`), and that the numbers of year, month and
day nest (`QuotientsNest`, `NumbersNest`).

Only model-checked are `RequestsEnd` and `LockoutEnds`, since liveness under fairness is
beyond the prover. Every invariant and action property of
the passing runs, and the refinement, has a theorem.

## Findings

Each is a run that expects a violation and quotes what the repository says.

1. `metadata_cache_writes`: `DESIGN.md` says that writes invalidate affected keys
   immediately. A read that had asked Immich before the write stores its old
   answer after the invalidation, for the lifetime of the copy.
2. `blob_cache_disk`: the range cache is said to be bounded. A `get` that deletes an
   expired pair while `set` is between its renames leaves a `.bin` file that no
   pruning ever sees.
3. `album_writes_mkcol`: `README.md` says that MKCOL creates an album. When the answer
   of Immich is lost, the POST is repeated and a second album of the name is made; both
   then have names with a suffix, so the folder the client asked for does not exist.
4. `admin_store_default`: a bug. `ensure_default_library` is said to ensure that the
   default library exists. Once a library other than `default` has been saved with
   `is_default`, setting the flag of `default` violates the unique index: every admin
   request answers 500, the one that could undo it included, and the process cannot
   be started again (`app.py:38`).

Beside these: requests that overlap may count more failures in a lock-out window than
`auth_failure_limit`; how many more at most is the theorem `OvershootBounded`.

## Plan

Done: `LibraryView`, `MetadataCache`, `BlobCache`, `FrontDoor`, `AlbumWrites`, `AdminStore`,
`Folders`, `Sessions`, and the proofs named above. What is left, in this order:

1. **RangeStream**: `ImmichOriginalStream`, which reopens a stream after an error and
   continues at its position; what a client gets is then a prefix of one version.
2. **Links**: host matching of shared links against the libraries, with libraries whose hosts are
   changed while sessions live.
3. Composition of `AlbumWrites` and `Folders`: a path that resolves by a receipt until the listing
   has caught up.

## What is not modelled, and why

HTTP, TLS, JSON, SQL and XML as formats; cryptography (grants are signed with HMAC);
log lines and the slow-request report; the health probes, which read only; the web
interface and the macOS app, which are clients of the admin API without a protocol
of their own; deployment files. WsgiDAV, cheroot, Redis, SQLite and Immich are
modelled from how the code uses them. The names of albums and views (their suffixes are in
`AlbumWrites`), the metadata files of macOS, `README.txt` and the redirect for browsers;
streams after they are opened (`ImmichOriginalStream`) outside the range cache; signed grants
and the parsing of links, which are functions of their input. A counter in Redis that lost its expiry
(`incr_with_ttl` counts and sets the expiry in two calls) may lock a user out until it is
deleted: `FrontDoor` has that behaviour, and `LockoutEnds` is therefore claimed
for the in-memory cache only.
