------------------------------- MODULE BlobCache ------------------------------
(***************************************************************************)
(* The disk cache of byte ranges of original assets (blob_cache.py) under  *)
(* the threads that open ranges (ImmichClient._open_cached_range).         *)
(*                                                                         *)
(* A range is stored as two files, its bytes and its metadata, each first  *)
(* written under a temporary name.  `set' and the pruning at its end hold  *)
(* the lock; `get' reads and deletes files without it.  The directory      *)
(* outlives the process.  Bytes are represented by the time at which       *)
(* Immich served them.                                                     *)
(***************************************************************************)
EXTENDS Naturals, FiniteSets

CONSTANTS
    Ranges,         \* (namespace, user, asset, start, end) tuples: cache keys
    Threads,        \* worker threads of the WebDAV server
    Size,           \* Size[k]: end - start + 1
    MaxBytes,       \* max_bytes
    MaxRangeBytes,  \* max_range_bytes
    TTL,            \* ttl_seconds
    StoreDelay,     \* longest time from Immich's answer to os.replace(data)
    MaxFaults,      \* bound: the kills, failed stores and failed unlinks
    MaxTime         \* bound: the clock

ASSUME RangesAssumption == Ranges # {}

ASSUME SizeAssumption == Size \in [Ranges -> Nat \ {0}]

ASSUME NumbersAssumption ==
    /\ MaxBytes \in Nat
    /\ MaxRangeBytes \in Nat
    /\ TTL \in Nat
    /\ StoreDelay \in Nat
    /\ MaxFaults \in Nat
    /\ MaxTime \in Nat

VARIABLES
    now,       \* the clock
    data,      \* data[k]: the .bin file of k, {} when there is none
    meta,      \* meta[k]: the .json file
    dataTmp,   \* dataTmp[k]: the .bin.tmp file
    metaTmp,   \* metaTmp[k]: the .json.tmp file
    pc,        \* where each thread is
    local,     \* its local variables
    lock,      \* the holder of the lock, {} when it is free
    listed,    \* the ranges _prune_locked has still to look at
    entries,   \* its list `entries'
    unpruned,  \* history: stores interrupted since the last full pruning
    undeleted, \* history: ranges that a pruning could not delete
    leftover,  \* history: ranges a failed or killed store may have left files of
    faults     \* history: the kills, failed stores and failed unlinks there were

files == <<data, meta, dataTmp, metaTmp>>
pruning == <<listed, entries>>
threads == <<pc, local>>
history == <<unpruned, undeleted, leftover, faults>>
vars == <<now, files, threads, lock, pruning, history>>

DataFile == [served : Nat, used : Nat]
MetaFile == [expires : Nat]
Listing == [key : Ranges, used : Nat]

\* The program counter of a thread.  Up to "fetched" it is in
\* _open_cached_range and `get', then in `set'.
Reading == {"idle", "checked", "hit", "missed"}
Deleting == {"dropdata", "dropmeta"}
Storing == {"fetched", "waiting", "locked", "wrote", "ready"}
Finishing == {"halfway", "replaced", "scanning"}

Places == Reading \cup Deleting \cup Storing \cup Finishing

Local == [key : Ranges,     \* the range that is opened
          drop : Ranges,    \* the range _delete_pair deletes
          checked : Nat,    \* the clock as `get' or _prune_locked read it
          served : Nat,     \* when Immich served the bytes in hand
          expires : Nat]    \* the expiry `set' computed

TypeOK ==
    /\ now \in Nat
    /\ data \in [Ranges -> SUBSET DataFile]
    /\ meta \in [Ranges -> SUBSET MetaFile]
    /\ dataTmp \in [Ranges -> SUBSET DataFile]
    /\ metaTmp \in [Ranges -> SUBSET MetaFile]
    /\ pc \in [Threads -> Places]
    /\ local \in [Threads -> Local]
    /\ lock \in {{}} \cup {{t} : t \in Threads}
    /\ listed \in SUBSET Ranges
    /\ entries \in SUBSET Listing
    /\ unpruned \in Nat
    /\ undeleted \in SUBSET Ranges
    /\ leftover \in SUBSET Ranges
    /\ faults \in Nat

Opening(k, time) ==
    [key |-> k, drop |-> k, checked |-> time, served |-> 0, expires |-> 0]

Blank == Opening(CHOOSE k \in Ranges : TRUE, 0)

NoFiles == [k \in Ranges |-> {}]

Init ==
    /\ now = 0
    /\ data = NoFiles /\ meta = NoFiles
    /\ dataTmp = NoFiles /\ metaTmp = NoFiles
    /\ pc = [t \in Threads |-> "idle"]
    /\ local = [t \in Threads |-> Blank]
    /\ lock = {}
    /\ listed = {} /\ entries = {}
    /\ unpruned = 0
    /\ undeleted = {} /\ leftover = {}
    /\ faults = 0

Goto(t, place) == pc' = [pc EXCEPT ![t] = place]

\* The thread is done, and its locals are gone.
Return(t) == Goto(t, "idle") /\ local' = [local EXCEPT ![t] = Blank]

-----------------------------------------------------------------------------
(***************************************************************************)
(* get                                                                     *)
(***************************************************************************)
Cacheable(k) == MaxBytes > 0 /\ TTL > 0 /\ Size[k] <= MaxRangeBytes

\* The call, and the metadata read: absent, expired, or worth going on.
Check(t, k) ==
    /\ pc[t] = "idle"
    /\ Cacheable(k)
    /\ IF \E m \in meta[k] : m.expires > now
       THEN Goto(t, "checked") /\ local' = [local EXCEPT ![t] = Opening(k, now)]
       ELSE Goto(t, "dropdata") /\ local' = [local EXCEPT ![t] = Opening(k, 0)]
    /\ UNCHANGED <<now, files, lock, pruning, history>>

ReadData(t) ==
    /\ pc[t] = "checked"
    /\ \E d \in data[local[t].key] : local' = [local EXCEPT ![t].served = d.served]
    /\ Goto(t, "hit")
    /\ UNCHANGED <<now, files, lock, pruning, history>>

\* The OSError of a .bin file that is gone.
DataMissing(t) ==
    /\ pc[t] = "checked"
    /\ data[local[t].key] = {}
    /\ Goto(t, "dropdata")
    /\ local' = [local EXCEPT ![t] = Opening(local[t].key, 0)]
    /\ UNCHANGED <<now, files, lock, pruning, history>>

\* os.utime of whatever .bin file is there now, and the hit is returned.
Touch(t) ==
    /\ pc[t] = "hit"
    /\ LET k == local[t].key IN
       data' = [data EXCEPT ![k] = {[d EXCEPT !.used = now] : d \in data[k]}]
    /\ Return(t)
    /\ UNCHANGED <<now, meta, dataTmp, metaTmp, lock, pruning, history>>

\* _delete_pair, of `get' and of _prune_locked: first the .bin file ...
DropData(t) ==
    /\ pc[t] = "dropdata"
    /\ data' = [data EXCEPT ![local[t].drop] = {}]
    /\ Goto(t, "dropmeta")
    /\ undeleted' = undeleted \ {local[t].drop}
    /\ UNCHANGED <<now, local, meta, dataTmp, metaTmp, lock, pruning, unpruned,
                   leftover, faults>>

AfterDeletion(t) == IF lock = {t} THEN "scanning" ELSE "missed"

\* ... then the .json file.
DropMeta(t) ==
    /\ pc[t] = "dropmeta"
    /\ meta' = [meta EXCEPT ![local[t].drop] = {}]
    /\ Goto(t, AfterDeletion(t))
    /\ undeleted' = undeleted \ {local[t].drop}
    /\ UNCHANGED <<now, local, data, dataTmp, metaTmp, lock, pruning, unpruned,
                   leftover, faults>>

\* _delete_pair passes over an OSError of either unlink: the file stays, and
\* a pruning goes on as if it had gone.  (Both unlinks of a pair count as one
\* fault.)
KeepData(t) ==
    /\ pc[t] = "dropdata"
    /\ data[local[t].drop] # {}
    /\ faults < MaxFaults
    /\ Goto(t, "dropmeta")
    /\ undeleted' = IF lock = {t} THEN undeleted \cup {local[t].drop} ELSE undeleted
    /\ faults' = faults + 1
    /\ UNCHANGED <<now, local, files, lock, pruning, unpruned, leftover>>

KeepMeta(t) ==
    /\ pc[t] = "dropmeta"
    /\ meta[local[t].drop] # {}
    /\ Goto(t, AfterDeletion(t))
    /\ \/ local[t].drop \in undeleted /\ UNCHANGED faults
       \/ faults < MaxFaults /\ faults' = faults + 1
    /\ UNCHANGED <<now, local, files, lock, pruning, unpruned, undeleted, leftover>>

-----------------------------------------------------------------------------
(***************************************************************************)
(* The miss path of _open_cached_range, and set                            *)
(***************************************************************************)
ImmichServes(t) ==
    /\ pc[t] = "missed"
    /\ Goto(t, "fetched")
    /\ local' = [local EXCEPT ![t].served = now]
    /\ UNCHANGED <<now, files, lock, pruning, history>>

\* An error, or not as many bytes as were asked for: nothing is stored.
ImmichFails(t) ==
    /\ pc[t] = "missed"
    /\ Return(t)
    /\ UNCHANGED <<now, files, lock, pruning, history>>

\* Mutated form of CallSet: the lifetime has the wrong sign.
CallSetInThePast(t) ==
    /\ pc[t] = "fetched"
    /\ Goto(t, "waiting")
    /\ local' = [local EXCEPT ![t].expires = now - TTL]
    /\ UNCHANGED <<now, files, lock, pruning, history>>

\* The metadata of the entry, made before the lock is asked for.
CallSet(t) ==
    /\ pc[t] = "fetched"
    /\ Goto(t, "waiting")
    /\ local' = [local EXCEPT ![t].expires = now + TTL]
    /\ UNCHANGED <<now, files, lock, pruning, history>>

Lock(t) ==
    /\ pc[t] = "waiting"
    /\ lock = {}
    /\ lock' = {t}
    /\ Goto(t, "locked")
    /\ UNCHANGED <<now, local, files, pruning, history>>

WriteDataTmp(t) ==
    /\ pc[t] = "locked"
    /\ dataTmp' = [dataTmp EXCEPT ![local[t].key] =
           {[served |-> local[t].served, used |-> now]}]
    /\ Goto(t, "wrote")
    /\ UNCHANGED <<now, local, data, meta, metaTmp, lock, pruning, history>>

WriteMetaTmp(t) ==
    /\ pc[t] = "wrote"
    /\ metaTmp' = [metaTmp EXCEPT ![local[t].key] = {[expires |-> local[t].expires]}]
    /\ Goto(t, "ready")
    /\ UNCHANGED <<now, local, data, meta, dataTmp, lock, pruning, history>>

\* Mutated form of ReplaceData: a .bin file that is there is not replaced.
ReplaceDataOnce(t) ==
    /\ pc[t] = "ready"
    /\ LET k == local[t].key IN
         /\ data' = [data EXCEPT ![k] = IF @ = {} THEN dataTmp[k] ELSE @]
         /\ dataTmp' = [dataTmp EXCEPT ![k] = {}]
    /\ Goto(t, "halfway")
    /\ UNCHANGED <<now, local, meta, metaTmp, lock, pruning, history>>

ReplaceData(t) ==
    /\ pc[t] = "ready"
    /\ LET k == local[t].key IN
         /\ data' = [data EXCEPT ![k] = dataTmp[k]]
         /\ dataTmp' = [dataTmp EXCEPT ![k] = {}]
    /\ Goto(t, "halfway")
    /\ UNCHANGED <<now, local, meta, metaTmp, lock, pruning, history>>

ReplaceMeta(t) ==
    /\ pc[t] = "halfway"
    /\ LET k == local[t].key IN
         /\ meta' = [meta EXCEPT ![k] = metaTmp[k]]
         /\ metaTmp' = [metaTmp EXCEPT ![k] = {}]
         /\ undeleted' = undeleted \ {k}
         /\ leftover' = leftover \ {k}
    /\ Goto(t, "replaced")
    /\ UNCHANGED <<now, local, data, dataTmp, lock, pruning, unpruned, faults>>

\* Mutated form of StoreFails: the temporary .bin file is forgotten.
StoreFailsUntidily(t) ==
    /\ pc[t] \in {"locked", "wrote", "ready", "halfway", "replaced", "scanning"}
    /\ faults < MaxFaults
    /\ LET k == local[t].key IN
       \E m \in {{}, metaTmp[k]} :
         /\ metaTmp' = [metaTmp EXCEPT ![k] = m]
         /\ leftover' = IF m = {} THEN leftover \ {k} ELSE leftover \cup {k}
    /\ Return(t)
    /\ lock' = {}
    /\ listed' = {} /\ entries' = {}
    /\ unpruned' = unpruned + 1
    /\ faults' = faults + 1
    /\ UNCHANGED <<now, data, meta, dataTmp, undeleted>>

\* An OSError of any of the steps above or of the pruning: the temporary
\* files are deleted, or stay when that fails too, and the caller does not
\* learn of it.
StoreFails(t) ==
    /\ pc[t] \in {"locked", "wrote", "ready", "halfway", "replaced", "scanning"}
    /\ faults < MaxFaults
    /\ LET k == local[t].key IN
       \E d \in {{}, dataTmp[k]}, m \in {{}, metaTmp[k]} :
         /\ dataTmp' = [dataTmp EXCEPT ![k] = d]
         /\ metaTmp' = [metaTmp EXCEPT ![k] = m]
         /\ leftover' = IF d = {} /\ m = {} THEN leftover \ {k} ELSE leftover \cup {k}
    /\ Return(t)
    /\ lock' = {}
    /\ listed' = {} /\ entries' = {}
    /\ unpruned' = unpruned + 1
    /\ faults' = faults + 1
    /\ UNCHANGED <<now, data, meta, undeleted>>

-----------------------------------------------------------------------------
(***************************************************************************)
(* _prune_locked                                                           *)
(***************************************************************************)
\* The directory is listed once; files may go while the list is worked off.
List(t) ==
    /\ pc[t] = "replaced"
    /\ listed' = {k \in Ranges : meta[k] # {}}
    /\ entries' = {}
    /\ Goto(t, "scanning")
    /\ local' = [local EXCEPT ![t].checked = now]
    /\ UNCHANGED <<now, files, lock, history>>

\* k has both files and has not expired: it counts.
Examine(t, k) ==
    /\ pc[t] = "scanning"
    /\ k \in listed
    /\ \E m \in meta[k] : m.expires > local[t].checked
    /\ \E d \in data[k] : entries' = entries \cup {[key |-> k, used |-> d.used]}
    /\ listed' = listed \ {k}
    /\ UNCHANGED <<now, files, threads, lock, history>>

\* A file is missing, or k has expired: what there is is deleted.
Discard(t, k) ==
    /\ pc[t] = "scanning"
    /\ k \in listed
    /\ data[k] = {} \/ \A m \in meta[k] : m.expires <= local[t].checked
    /\ listed' = listed \ {k}
    /\ Goto(t, "dropdata")
    /\ local' = [local EXCEPT ![t].drop = k]
    /\ UNCHANGED <<now, files, lock, entries, history>>

\* The bytes of ranges, all told: each has as many as its size.
Content(k) == {k} \X (1..Size[k])
Bytes(ks) == Cardinality(UNION {Content(k) : k \in ks})
TotalBytes == Bytes({e.key : e \in entries})

\* sorted(entries): by last use, then by size.
Before(e, f) ==
    \/ e.used < f.used
    \/ e.used = f.used /\ Size[e.key] <= Size[f.key]

\* Mutated form of Evict: one eviction ends the loop.
EvictOnce(t) ==
    /\ pc[t] = "scanning"
    /\ listed = {}
    /\ TotalBytes > MaxBytes
    /\ \E e \in entries :
         /\ \A f \in entries : Before(e, f)
         /\ entries' = {}
         /\ local' = [local EXCEPT ![t].drop = e.key]
    /\ Goto(t, "dropdata")
    /\ UNCHANGED <<now, files, lock, listed, history>>

Evict(t) ==
    /\ pc[t] = "scanning"
    /\ listed = {}
    /\ TotalBytes > MaxBytes
    /\ \E e \in entries :
         /\ \A f \in entries : Before(e, f)
         /\ entries' = entries \ {e}
         /\ local' = [local EXCEPT ![t].drop = e.key]
    /\ Goto(t, "dropdata")
    /\ UNCHANGED <<now, files, lock, listed, history>>

\* The total is small enough: `set' returns.
Unlock(t) ==
    /\ pc[t] = "scanning"
    /\ listed = {}
    /\ TotalBytes <= MaxBytes
    /\ Return(t)
    /\ lock' = {}
    /\ entries' = {}
    /\ unpruned' = 0
    /\ undeleted' = undeleted \ {e.key : e \in entries}
    /\ UNCHANGED <<now, files, listed, leftover, faults>>

-----------------------------------------------------------------------------
(***************************************************************************)
(* The process is killed and started again, over the same directory.       *)
(***************************************************************************)
Restart ==
    /\ faults < MaxFaults
    /\ pc' = [t \in Threads |-> "idle"]
    /\ local' = [t \in Threads |-> Blank]
    /\ lock' = {}
    /\ listed' = {} /\ entries' = {}
    /\ unpruned' = unpruned + Cardinality(lock)
    /\ leftover' = leftover \cup {local[t].key : t \in lock}
    /\ faults' = faults + 1
    /\ UNCHANGED <<now, files, undeleted>>

Tick ==
    /\ now < MaxTime
    /\ \A t \in Threads :
         pc[t] \in Storing => now < local[t].served + StoreDelay
    /\ now' = now + 1
    /\ UNCHANGED <<files, threads, lock, pruning, history>>

Get(t) ==
    \/ \E k \in Ranges : Check(t, k)
    \/ ReadData(t) \/ DataMissing(t) \/ Touch(t)

DeletePair(t) == DropData(t) \/ DropMeta(t) \/ KeepData(t) \/ KeepMeta(t)

Store(t) ==
    \/ ImmichServes(t) \/ ImmichFails(t)
    \/ CallSet(t) \/ Lock(t)
    \/ WriteDataTmp(t) \/ WriteMetaTmp(t) \/ ReplaceData(t) \/ ReplaceMeta(t)
    \/ StoreFails(t)

Prune(t) ==
    \/ List(t)
    \/ \E k \in Ranges : Examine(t, k) \/ Discard(t, k)
    \/ Evict(t) \/ Unlock(t)

Next ==
    \/ \E t \in Threads : Get(t) \/ DeletePair(t) \/ Store(t) \/ Prune(t)
    \/ Restart \/ Tick

Spec == Init /\ [][Next]_vars

-----------------------------------------------------------------------------
(***************************************************************************)
(* Properties.                                                             *)
(***************************************************************************)
\* A range counts when it has both files: `get' may return it.
Counted == {k \in Ranges : data[k] # {} /\ meta[k] # {}}

\* The ranges that count fit into MaxBytes whenever no thread is storing,
\* except for one range more for each store that was interrupted since a
\* pruning last came to its end, whatever `get' deletes meanwhile.  Not among
\* them are ranges whose .bin file a pruning could not delete, although it
\* took their size off its total: those come on top until they are deleted,
\* stored anew, or fit into a later pruning's total
\* (BlobCache._prune_locked; tests/test_blob_cache.py, prunes to max bytes).
CountedBytesAreBounded ==
    Bytes(Counted \ undeleted)
        <= MaxBytes + (unpruned + Cardinality(lock)) * MaxRangeBytes

\* A hit is never older than it may be: when `get' checked the expiry,
\* Immich had served the bytes it returns no longer ago than the lifetime
\* of an entry and the time it took to store it, although the two files are
\* read and replaced one after the other (the order of the two os.replace
\* calls of `set').
HitIsRecent ==
    \A t \in Threads :
        pc[t] = "hit" => local[t].checked < local[t].served + StoreDelay + TTL

\* Temporary files are those of the store that holds the lock, or of a range
\* whose last store was killed or could not delete them; the next store of
\* that range that gets through, or cleans up, takes them away
\* (BlobCache.set and its except clause).
TmpFilesAreCleaned ==
    \A k \in Ranges :
        dataTmp[k] # {} \/ metaTmp[k] # {} =>
            k \in leftover \/ \E t \in lock : local[t].key = k

-----------------------------------------------------------------------------
(***************************************************************************)
(* The inductive invariant behind HitIsRecent (see BlobCache_proofs).      *)
(***************************************************************************)
Inside == {"locked", "wrote", "ready", "halfway", "replaced", "scanning"}

\* The steps of `set' and of its pruning have the lock.
LockInv(t) == pc[t] \in Inside => lock = {t}

\* What the holder has put into the files of its range.
FilesInv(t) ==
    LET k == local[t].key IN
    /\ pc[t] \in {"wrote", "ready"} => \A d \in dataTmp[k] : d.served = local[t].served
    /\ pc[t] = "halfway" => \A d \in data[k] : d.served = local[t].served
    /\ pc[t] \in {"ready", "halfway"} =>
          \A m \in metaTmp[k] : m.expires = local[t].expires

Carrying == {"waiting", "locked", "wrote", "ready", "halfway"}

\* How old what a thread carries is.
CarriedInv(t) ==
    LET Oldest(served) == served + StoreDelay + TTL IN
    /\ pc[t] \in Storing => now <= local[t].served + StoreDelay
    /\ pc[t] \in Carrying =>
          /\ local[t].expires <= Oldest(local[t].served)
          /\ local[t].expires <= now + TTL
    /\ pc[t] = "checked" =>
          /\ TTL > 0
          /\ local[t].checked <= now
          /\ \A d \in data[local[t].key] : local[t].checked < Oldest(d.served)
    /\ pc[t] = "hit" => local[t].checked < Oldest(local[t].served)

\* The bytes a metadata file may be found with are not older than it says.
PairInv(k) ==
    \A m \in meta[k] :
        /\ m.expires <= now + TTL
        /\ \A d \in data[k] : m.expires <= d.served + StoreDelay + TTL

AgeInv ==
    /\ \A t \in Threads : LockInv(t) /\ FilesInv(t) /\ CarriedInv(t)
    /\ \A k \in Ranges : PairInv(k)

-----------------------------------------------------------------------------
(***************************************************************************)
(* What the documents say and the code does not do.                        *)
(***************************************************************************)
\* README.md: the disk-backed range cache is bounded.  So the bytes stored
\* are within MaxBytes when no thread is storing and nothing has ever failed.
DiskIsBounded ==
    faults = 0 /\ lock = {} => Bytes({k \in Ranges : data[k] # {}}) <= MaxBytes
=============================================================================
