---------------------------- MODULE MetadataCache ----------------------------
(***************************************************************************)
(* The metadata cache of one user (ImmichClient._cached and                *)
(* _invalidate_metadata_cache) over the cache facade (InMemoryCache or     *)
(* RedisCache), with the requests that read through it, the writes that    *)
(* invalidate it, and the Immich library behind both.                      *)
(*                                                                         *)
(* A key is one Immich query; it has a fresh copy and a stale copy, the    *)
(* latter served only when Immich fails.  A value is the version of the    *)
(* library the answer was computed from: version v is the library after v  *)
(* changes, and writes[v+1] is when it was superseded.                     *)
(***************************************************************************)
EXTENDS Naturals, Sequences

CONSTANTS
    Keys,         \* Immich queries of this user
    Readers,      \* threads that read through the cache
    Writers,      \* threads that write to Immich
    Backend,      \* "memory" or "redis"
    TTL,          \* TTL[k]: lifetime of a fresh copy of k
    StaleFactor,  \* the 12 of ImmichClient._cached
    StaleFloor,   \* STALE_CACHE_TTL_SECONDS
    StoreDelay,   \* longest time from Immich's answer to storing it
    MaxAttempts,  \* MAX_REQUEST_ATTEMPTS
    MaxVersion,   \* bound: changes of the library
    MaxTime       \* bound: the clock

ASSUME BackendAssumption == Backend \in {"memory", "redis"}

ASSUME KeysAssumption == Keys # {}

ASSUME NumbersAssumption ==
    /\ TTL \in [Keys -> Nat]
    /\ StaleFactor \in Nat \ {0}
    /\ StaleFloor \in Nat
    /\ StoreDelay \in Nat
    /\ MaxAttempts \in Nat \ {0}
    /\ MaxVersion \in Nat
    /\ MaxTime \in Nat

VARIABLES
    now,      \* the clock
    writes,   \* the times of the library's changes
    cache,    \* cache[s] is {} or {entry}, for a slot s
    reader,   \* the state of each reading thread
    writer,   \* the state of each writing thread
    barrier   \* history: the newest version whose invalidation completed

vars == <<now, writes, cache, reader, writer, barrier>>

Slots == Keys \X {"fresh", "stale"}
Fresh(k) == <<k, "fresh">>
Stale(k) == <<k, "stale">>

StaleTTL(k) ==
    IF TTL[k] * StaleFactor > StaleFloor THEN TTL[k] * StaleFactor ELSE StaleFloor

Lifetime(s) == IF s[2] = "fresh" THEN TTL[s[1]] ELSE StaleTTL(s[1])

\* The version of the library that Immich answers with now.
Current == Len(writes)

\* `late' records whether the value was superseded before it was stored.
Entry == [value : Nat, expires : Nat, late : BOOLEAN]

Kinds == {"create", "member", "upload"}

Reading == [pc : {"idle", "loading", "failed"}, key : Keys]
Holding == [pc : {"loaded", "stored"}, key : Keys, value : Nat, since : Nat]
Answered == [pc : {"done"}, key : Keys, value : Nat, quality : {"normal", "degraded"}]
Writing == [pc : {"idle", "sent", "applied", "invalidating"}, kind : Kinds,
            attempt : 1..MaxAttempts, version : Nat, todo : SUBSET Slots]

TypeOK ==
    /\ now \in Nat
    /\ writes \in Seq(Nat)
    /\ cache \in [Slots -> SUBSET Entry]
    /\ reader \in [Readers -> Reading \cup Holding \cup Answered]
    /\ writer \in [Writers -> Writing]
    /\ barrier \in Nat

IdleReader == [pc |-> "idle", key |-> CHOOSE k \in Keys : TRUE]
IdleWriter == [pc |-> "idle", kind |-> "create", attempt |-> 1,
               version |-> 0, todo |-> {}]

Init ==
    /\ now = 0
    /\ writes = <<>>
    /\ cache = [s \in Slots |-> {}]
    /\ reader = [r \in Readers |-> IdleReader]
    /\ writer = [w \in Writers |-> IdleWriter]
    /\ barrier = 0

-----------------------------------------------------------------------------
(***************************************************************************)
(* The cache facade.  Redis drops an entry when its time to live is over,  *)
(* the in-memory cache when it is next looked up after that; neither       *)
(* returns it any more.  Every Redis error is swallowed: a get misses, a   *)
(* set stores nothing.                                                     *)
(***************************************************************************)
\* Mutated form of Live: the expiry is never looked at.
LiveForever(e) == TRUE

Live(e) == IF Backend = "memory" THEN now <= e.expires ELSE now < e.expires

Unexpired(s) == {e \in cache[s] : Live(e)}

Faulty == Backend = "redis"

\* What get_json(s) may return: the entry, if there is one, or nothing.
GetJson(s) == {Unexpired(s)} \cup (IF Faulty THEN {{}} ELSE {})

\* What s may hold after set_json(s, v).
SetJson(s, v) ==
    {{[value |-> v, expires |-> now + Lifetime(s), late |-> v < Current]}}
        \cup (IF Faulty THEN {cache[s]} ELSE {})

-----------------------------------------------------------------------------
(***************************************************************************)
(* ImmichClient._cached, one action per call it makes.                     *)
(***************************************************************************)
Hit(r, k) ==
    /\ reader[r].pc = "idle"
    /\ \E e \in Unexpired(Fresh(k)) :
         reader' = [reader EXCEPT ![r] =
             [pc |-> "done", key |-> k, value |-> e.value, quality |-> "normal"]]
    /\ UNCHANGED <<now, writes, cache, writer, barrier>>

Miss(r, k) ==
    /\ reader[r].pc = "idle"
    /\ {} \in GetJson(Fresh(k))
    /\ cache' = [cache EXCEPT ![Fresh(k)] = Unexpired(Fresh(k))]
    /\ reader' = [reader EXCEPT ![r] = [pc |-> "loading", key |-> k]]
    /\ UNCHANGED <<now, writes, writer, barrier>>

\* An attempt of the loader succeeds: Immich answers with the current version.
ImmichAnswers(r) ==
    /\ reader[r].pc = "loading"
    /\ reader' = [reader EXCEPT ![r] =
           [pc |-> "loaded", key |-> reader[r].key, value |-> Current, since |-> now]]
    /\ UNCHANGED <<now, writes, cache, writer, barrier>>

\* The loader raises ImmichApiError, after its retries.
ImmichFails(r) ==
    /\ reader[r].pc = "loading"
    /\ reader' = [reader EXCEPT ![r] = [pc |-> "failed", key |-> reader[r].key]]
    /\ UNCHANGED <<now, writes, cache, writer, barrier>>

\* Mutated form of StoreFresh: the stale copy is not stored.
StoreFreshOnly(r) ==
    /\ reader[r].pc = "loaded"
    /\ LET s == Fresh(reader[r].key) IN
       \E held \in SetJson(s, reader[r].value) : cache' = [cache EXCEPT ![s] = held]
    /\ reader' = [reader EXCEPT ![r] =
           [pc |-> "done", key |-> reader[r].key, value |-> reader[r].value,
            quality |-> "normal"]]
    /\ UNCHANGED <<now, writes, writer, barrier>>

StoreFresh(r) ==
    /\ reader[r].pc = "loaded"
    /\ LET s == Fresh(reader[r].key) IN
       \E held \in SetJson(s, reader[r].value) : cache' = [cache EXCEPT ![s] = held]
    /\ reader' = [reader EXCEPT ![r].pc = "stored"]
    /\ UNCHANGED <<now, writes, writer, barrier>>

StoreStale(r) ==
    /\ reader[r].pc = "stored"
    /\ LET s == Stale(reader[r].key) IN
       \E held \in SetJson(s, reader[r].value) : cache' = [cache EXCEPT ![s] = held]
    /\ reader' = [reader EXCEPT ![r] =
           [pc |-> "done", key |-> reader[r].key, value |-> reader[r].value,
            quality |-> "normal"]]
    /\ UNCHANGED <<now, writes, writer, barrier>>

\* Mutated form of StaleHit: the stale value becomes the fresh copy again.
StaleHitRefreshes(r) ==
    /\ reader[r].pc = "failed"
    /\ \E e \in Unexpired(Stale(reader[r].key)) :
         /\ reader' = [reader EXCEPT ![r] =
             [pc |-> "done", key |-> reader[r].key, value |-> e.value, quality |-> "degraded"]]
         /\ LET s == Fresh(reader[r].key) IN
            \E held \in SetJson(s, e.value) : cache' = [cache EXCEPT ![s] = held]
    /\ UNCHANGED <<now, writes, writer, barrier>>

StaleHit(r) ==
    /\ reader[r].pc = "failed"
    /\ \E e \in Unexpired(Stale(reader[r].key)) :
         reader' = [reader EXCEPT ![r] =
             [pc |-> "done", key |-> reader[r].key, value |-> e.value, quality |-> "degraded"]]
    /\ UNCHANGED <<now, writes, cache, writer, barrier>>

\* No stale copy either: the error goes to the caller.
StaleMiss(r) ==
    /\ reader[r].pc = "failed"
    /\ LET s == Stale(reader[r].key) IN
         /\ {} \in GetJson(s)
         /\ cache' = [cache EXCEPT ![s] = Unexpired(s)]
    /\ reader' = [reader EXCEPT ![r] = IdleReader]
    /\ UNCHANGED <<now, writes, writer, barrier>>

Deliver(r) ==
    /\ reader[r].pc = "done"
    /\ reader' = [reader EXCEPT ![r] = IdleReader]
    /\ UNCHANGED <<now, writes, cache, writer, barrier>>

-----------------------------------------------------------------------------
(***************************************************************************)
(* create_album, add_asset_to_album and remove_asset_from_album through    *)
(* _request_json, which repeats a request of any method, and upload_asset, *)
(* which is sent once.  Then _invalidate_metadata_cache.                   *)
(***************************************************************************)
StartWrite(w, kind) ==
    /\ writer[w].pc = "idle"
    /\ writer' = [writer EXCEPT ![w] = [IdleWriter EXCEPT !.pc = "sent", !.kind = kind]]
    /\ UNCHANGED <<now, writes, cache, reader, barrier>>

\* Immich creates another album each time it is asked; an asset is already
\* in the album, out of it, or in the library the second time.
TakesEffect(w) == writer[w].kind = "create" \/ writer[w].version = 0

ImmichApplies(w) ==
    /\ writer[w].pc = "sent"
    /\ TakesEffect(w) => Current < MaxVersion
    /\ writes' = IF TakesEffect(w) THEN Append(writes, now) ELSE writes
    /\ writer' = [writer EXCEPT
           ![w].pc = "applied",
           ![w].version = IF TakesEffect(w) THEN Current + 1 ELSE @]
    /\ UNCHANGED <<now, cache, reader, barrier>>

\* Mutated form of RetryWrite: the attempts are not counted.
RetryWriteForever(w) ==
    /\ writer[w].pc \in {"sent", "applied"}
    /\ writer[w].kind # "upload"
    /\ writer' = [writer EXCEPT ![w].pc = "sent", ![w].attempt = @ + 1]
    /\ UNCHANGED <<now, writes, cache, reader, barrier>>

\* A time-out, a connection error or a status in RETRY_STATUS_CODES, whether
\* or not Immich has done what it was asked.
RetryWrite(w) ==
    /\ writer[w].pc \in {"sent", "applied"}
    /\ writer[w].kind # "upload"
    /\ writer[w].attempt < MaxAttempts
    /\ writer' = [writer EXCEPT ![w].pc = "sent", ![w].attempt = @ + 1]
    /\ UNCHANGED <<now, writes, cache, reader, barrier>>

\* ImmichApiError: the last attempt failed, the status is final, or the
\* answer is unreadable.  Nothing is invalidated.
GiveUpWrite(w) ==
    /\ writer[w].pc \in {"sent", "applied"}
    /\ writer' = [writer EXCEPT ![w] = IdleWriter]
    /\ UNCHANGED <<now, writes, cache, reader, barrier>>

WriteSucceeds(w) ==
    /\ writer[w].pc = "applied"
    /\ writer' = [writer EXCEPT ![w].pc = "invalidating", ![w].todo = Slots]
    /\ UNCHANGED <<now, writes, cache, reader, barrier>>

Invalidated(w) ==
    /\ writer' = [writer EXCEPT ![w] = IdleWriter]
    /\ barrier' = IF writer[w].version > barrier THEN writer[w].version ELSE barrier

\* Mutated form of InvalidateAll: the stale copies are kept.
InvalidateFreshOnly(w) ==
    /\ Backend = "memory"
    /\ writer[w].pc = "invalidating"
    /\ cache' = [s \in Slots |-> IF s[2] = "fresh" THEN {} ELSE cache[s]]
    /\ Invalidated(w)
    /\ UNCHANGED <<now, writes, reader>>

\* InMemoryCache.delete_prefix holds the lock over the whole deletion.
InvalidateAll(w) ==
    /\ Backend = "memory"
    /\ writer[w].pc = "invalidating"
    /\ cache' = [s \in Slots |-> {}]
    /\ Invalidated(w)
    /\ UNCHANGED <<now, writes, reader>>

\* Mutated form of InvalidateNext: one batch of the scan, and no cursor.
InvalidateFirstBatch(w) ==
    /\ Backend = "redis"
    /\ writer[w].pc = "invalidating"
    /\ \E s \in writer[w].todo : cache' = [cache EXCEPT ![s] = {}]
    /\ Invalidated(w)
    /\ UNCHANGED <<now, writes, reader>>

\* RedisCache.delete_prefix scans: the slots are visited in any order, and
\* other threads get their turn in between.
InvalidateNext(w) ==
    /\ Backend = "redis"
    /\ writer[w].pc = "invalidating"
    /\ \E s \in writer[w].todo :
         /\ cache' = [cache EXCEPT ![s] = {}]
         /\ IF writer[w].todo = {s}
            THEN Invalidated(w)
            ELSE /\ writer' = [writer EXCEPT ![w].todo = @ \ {s}]
                 /\ UNCHANGED barrier
    /\ UNCHANGED <<now, writes, reader>>

\* A Redis error ends the scan; delete_prefix swallows it.
InvalidateFails(w) ==
    /\ Backend = "redis"
    /\ writer[w].pc = "invalidating"
    /\ writer' = [writer EXCEPT ![w] = IdleWriter]
    /\ UNCHANGED <<now, writes, cache, reader, barrier>>

-----------------------------------------------------------------------------
(***************************************************************************)
(* The environment.                                                        *)
(***************************************************************************)
\* Another client of Immich changes the library, or a request that timed
\* out at the bridge is carried out after all.
OtherChange ==
    /\ Current < MaxVersion
    /\ writes' = Append(writes, now)
    /\ UNCHANGED <<now, cache, reader, writer, barrier>>

\* The bridge stops and starts: the threads are gone, Redis keeps its data.
Restart ==
    /\ reader' = [r \in Readers |-> IdleReader]
    /\ writer' = [w \in Writers |-> IdleWriter]
    /\ cache' = IF Backend = "memory" THEN [s \in Slots |-> {}] ELSE cache
    /\ UNCHANGED <<now, writes, barrier>>

Tick ==
    /\ now < MaxTime
    /\ \A r \in Readers :
         reader[r].pc \in {"loaded", "stored"} => now < reader[r].since + StoreDelay
    /\ now' = now + 1
    /\ UNCHANGED <<writes, cache, reader, writer, barrier>>

ReadStep(r) ==
    \/ \E k \in Keys : Hit(r, k) \/ Miss(r, k)
    \/ ImmichAnswers(r) \/ ImmichFails(r)
    \/ StoreFresh(r) \/ StoreStale(r)
    \/ StaleHit(r) \/ StaleMiss(r)
    \/ Deliver(r)

WriteStep(w) ==
    \/ \E kind \in Kinds : StartWrite(w, kind)
    \/ ImmichApplies(w) \/ RetryWrite(w) \/ GiveUpWrite(w) \/ WriteSucceeds(w)
    \/ InvalidateAll(w) \/ InvalidateNext(w) \/ InvalidateFails(w)

Next ==
    \/ \E r \in Readers : ReadStep(r)
    \/ \E w \in Writers : WriteStep(w)
    \/ OtherChange \/ Restart \/ Tick

Spec == Init /\ [][Next]_vars

-----------------------------------------------------------------------------
(***************************************************************************)
(* Properties.                                                             *)
(***************************************************************************)

\* A write through the bridge that was confirmed and whose invalidation ran
\* to its end leaves nothing older in the cache, fresh or stale copy, except
\* what a request that had asked Immich before the write stored after it
\* (DESIGN.md, cache invalidation; _invalidate_metadata_cache).
InvalidationIsComplete ==
    \A s \in Slots : \A e \in cache[s] : e.value < barrier => e.late

\* The stale copy of k lives as long as e, or a thread is about to store one.
Backed(k, e) ==
    \/ \E b \in cache[Stale(k)] : b.expires >= e.expires
    \/ \E r \in Readers : reader[r].pc = "stored" /\ reader[r].key = k

\* In one process, whatever the cache answers now it can still answer if
\* Immich fails: every live fresh copy is backed by a stale copy (the order
\* of the two set_json calls in ImmichClient._cached).
FreshHasBackup ==
    Backend = "memory" => \A k \in Keys : \A e \in Unexpired(Fresh(k)) : Backed(k, e)

\* What the requests that are being answered are told.
answers ==
    [r \in Readers |->
        IF reader[r].pc = "done"
        THEN {[key |-> reader[r].key, value |-> reader[r].value,
               quality |-> reader[r].quality]}
        ELSE {}]

NormalBound == [k \in Keys |-> TTL[k] + StoreDelay]
OutageBound == [k \in Keys |-> StaleTTL(k) + StoreDelay]

LV == INSTANCE LibraryView
        WITH Bound <- NormalBound, DegradedBound <- OutageBound, answer <- answers

\* The cache as its clients see it: every answer is current, or was
\* superseded no longer ago than the lifetime of the copy it came from plus
\* the time Immich's answer took to reach the cache, whatever writes,
\* invalidations, restarts, outages and lost Redis calls happen.
BoundedStaleness == LV!Spec

-----------------------------------------------------------------------------
(***************************************************************************)
(* The inductive invariants behind them (see MetadataCache_proofs).        *)
(***************************************************************************)
SlotAge(s) ==
    \A e \in cache[s] :
        /\ e.value <= Current
        /\ e.expires <= now + Lifetime(s)
        /\ e.value < Current =>
              e.expires <= writes[e.value + 1] + StoreDelay + Lifetime(s)

HoldingAge(r) ==
    reader[r].pc \in {"loaded", "stored"} =>
        /\ reader[r].value <= Current
        /\ reader[r].since <= now
        /\ now <= reader[r].since + StoreDelay
        /\ reader[r].value < Current => reader[r].since <= writes[reader[r].value + 1]

\* Nothing is older in the library than it was when Immich answered.
AgeInv ==
    /\ \A s \in Slots : SlotAge(s)
    /\ \A r \in Readers : HoldingAge(r)

\* The slots an invalidation has been to hold nothing old but late entries.
Swept(w) ==
    writer[w].pc = "invalidating" =>
        \A s \in Slots \ writer[w].todo : \A e \in cache[s] :
            e.value < writer[w].version => e.late

SweepInv ==
    /\ barrier <= Current
    /\ \A w \in Writers : writer[w].version <= Current /\ Swept(w)
    /\ InvalidationIsComplete

-----------------------------------------------------------------------------
(***************************************************************************)
(* What the documents say and the code does not do.                        *)
(***************************************************************************)
\* What DESIGN.md says: writes through the bridge invalidate the affected
\* keys immediately, so nothing older than a confirmed write is cached.
WritesInvalidateImmediately ==
    \A s \in Slots : \A e \in cache[s] : e.value >= barrier
=============================================================================
