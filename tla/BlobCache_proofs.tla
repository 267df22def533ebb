--------------------------- MODULE BlobCache_proofs ---------------------------
(***************************************************************************)
(* Proofs about BlobCache, for every set of ranges and threads and every   *)
(* value of the limits: its type invariant, that a hit never returns bytes *)
(* that are older than an entry may get, that temporary files go, and that *)
(* the ranges that count stay within the size of the cache.                *)
(***************************************************************************)
EXTENDS BlobCache, FiniteSetTheorems, TLAPS

\* The locals of a thread that opens a range, or does nothing, are well-typed.
LEMMA OpeningType ==
    /\ \A k \in Ranges, time \in Nat : Opening(k, time) \in Local
    /\ Blank \in Local
<1>1. \A k \in Ranges, time \in Nat : Opening(k, time) \in Local
  BY DEF Opening, Local
<1>2. QED
  BY <1>1, RangesAssumption DEF Blank

\* Returning from _open_cached_range keeps the types.
LEMMA ReturnType ==
    ASSUME TypeOK, NEW t \in Threads, Return(t)
    PROVE  pc' \in [Threads -> Places] /\ local' \in [Threads -> Local]
BY OpeningType DEF TypeOK, Return, Goto, Places, Reading

\* Going to another place keeps the types.
LEMMA GotoType ==
    ASSUME TypeOK, NEW t \in Threads, NEW place \in Places, Goto(t, place)
    PROVE  pc' \in [Threads -> Places]
BY DEF TypeOK, Goto

\* The steps of `get' keep the types.
LEMMA GetType ==
    ASSUME TypeOK, NEW t \in Threads, Get(t)
    PROVE  TypeOK'
<1> USE DEF TypeOK, files, pruning, history, Places, Reading, Deleting
<1>1. ASSUME NEW k \in Ranges, Check(t, k) PROVE TypeOK'
  BY <1>1, GotoType, OpeningType DEF Check
<1>2. CASE ReadData(t)
  <2>1. PICK d \in data[local[t].key] : local' = [local EXCEPT ![t].served = d.served]
    BY <1>2 DEF ReadData
  <2>2. d.served \in Nat
    BY DEF DataFile, Local
  <2>3. local' \in [Threads -> Local]
    BY <2>1, <2>2 DEF Local
  <2>4. QED
    BY <1>2, <2>3, GotoType DEF ReadData
<1>3. CASE DataMissing(t)
  <2>1. Opening(local[t].key, 0) \in Local
    BY OpeningType DEF Local
  <2>2. QED
    BY <1>3, <2>1, GotoType DEF DataMissing
<1>4. CASE Touch(t)
  <2>1. \A d \in DataFile : [d EXCEPT !.used = now] \in DataFile
    BY DEF DataFile
  <2>2. data' \in [Ranges -> SUBSET DataFile]
    BY <1>4, <2>1 DEF Touch, Local
  <2>3. QED
    BY <1>4, <2>2, ReturnType DEF Touch
<1>5. QED
  BY <1>1, <1>2, <1>3, <1>4 DEF Get

\* The steps of a deletion keep the types.
LEMMA DeleteType ==
    ASSUME TypeOK, NEW t \in Threads, DeletePair(t)
    PROVE  TypeOK'
<1> USE DEF TypeOK, Places, Reading, Deleting, Finishing
<1>1. AfterDeletion(t) \in Places
  BY DEF AfterDeletion
<1>2. CASE DropData(t)
  BY <1>2, GotoType DEF DropData, pruning
<1>3. CASE DropMeta(t)
  BY <1>1, <1>3, GotoType DEF DropMeta, pruning
<1>4. CASE KeepData(t)
  BY <1>4, GotoType DEF KeepData, files, pruning, Local
<1>5. CASE KeepMeta(t)
  <2>1. pc' \in [Threads -> Places]
    BY <1>1, <1>5, GotoType DEF KeepMeta
  <2>2. faults' \in Nat
    BY <1>5 DEF KeepMeta
  <2>3. QED
    BY <1>5, <2>1, <2>2 DEF KeepMeta, files, pruning
<1>6. QED
  BY <1>2, <1>3, <1>4, <1>5 DEF DeletePair

\* The steps of a miss and of a store keep the types.
LEMMA StoreType ==
    ASSUME TypeOK, NEW t \in Threads, Store(t)
    PROVE  TypeOK'
<1> USE NumbersAssumption, GotoType
        DEF TypeOK, Places, Reading, Storing, Finishing, files, pruning, history
<1>1. CASE ImmichServes(t)
  BY <1>1 DEF ImmichServes, Local
<1>2. CASE ImmichFails(t)
  BY <1>2, ReturnType DEF ImmichFails
<1>3. CASE CallSet(t)
  BY <1>3 DEF CallSet, Local
<1>4. CASE Lock(t)
  BY <1>4 DEF Lock
<1>5. CASE WriteDataTmp(t)
  BY <1>5 DEF WriteDataTmp, Local, DataFile
<1>6. CASE WriteMetaTmp(t)
  BY <1>6 DEF WriteMetaTmp, Local, MetaFile
<1>7. CASE ReplaceData(t)
  BY <1>7 DEF ReplaceData, Local
<1>8. CASE ReplaceMeta(t)
  BY <1>8 DEF ReplaceMeta, Local
<1>9. CASE StoreFails(t)
  <2>1. pc' \in [Threads -> Places] /\ local' \in [Threads -> Local]
    BY <1>9, ReturnType DEF StoreFails
  <2>2. PICK d \in {{}, dataTmp[local[t].key]}, m \in {{}, metaTmp[local[t].key]} :
          /\ dataTmp' = [dataTmp EXCEPT ![local[t].key] = d]
          /\ metaTmp' = [metaTmp EXCEPT ![local[t].key] = m]
          /\ leftover' = IF d = {} /\ m = {} THEN leftover \ {local[t].key}
                                             ELSE leftover \cup {local[t].key}
    BY <1>9 DEF StoreFails
  <2>3. /\ dataTmp' \in [Ranges -> SUBSET DataFile] /\ metaTmp' \in [Ranges -> SUBSET MetaFile]
        /\ leftover' \in SUBSET Ranges
    BY <2>2 DEF Local
  <2>4. QED
    BY <1>9, <2>1, <2>3 DEF StoreFails
<1>10. QED
  BY <1>1, <1>2, <1>3, <1>4, <1>5, <1>6, <1>7, <1>8, <1>9 DEF Store

\* The steps of a pruning keep the types.
LEMMA PruneType ==
    ASSUME TypeOK, NEW t \in Threads, Prune(t)
    PROVE  TypeOK'
<1> USE GotoType DEF TypeOK, Places, Deleting, Finishing, files, history
<1>1. CASE List(t)
  BY <1>1 DEF List, Local
<1>2. ASSUME NEW k \in Ranges, Examine(t, k) PROVE TypeOK'
  <2>1. PICK d \in data[k] : entries' = entries \cup {[key |-> k, used |-> d.used]}
    BY <1>2 DEF Examine
  <2>2. [key |-> k, used |-> d.used] \in Listing
    BY DEF DataFile, Listing
  <2>3. QED
    BY <1>2, <2>1, <2>2 DEF Examine, threads
<1>3. ASSUME NEW k \in Ranges, Discard(t, k) PROVE TypeOK'
  BY <1>3 DEF Discard, Local
<1>4. CASE Evict(t)
  <2>1. PICK e \in entries :
          entries' = entries \ {e} /\ local' = [local EXCEPT ![t].drop = e.key]
    BY <1>4 DEF Evict
  <2>2. e.key \in Ranges
    BY DEF Listing
  <2>3. local' \in [Threads -> Local]
    BY <2>1, <2>2 DEF Local
  <2>4. QED
    BY <1>4, <2>1, <2>3 DEF Evict
<1>5. CASE Unlock(t)
  BY <1>5, ReturnType DEF Unlock
<1>6. QED
  BY <1>1, <1>2, <1>3, <1>4, <1>5 DEF Prune

\* Every variable of the disk cache keeps its type.
THEOREM TypeCorrect == Spec => []TypeOK
<1>1. Init => TypeOK
  <2> SUFFICES ASSUME Init PROVE TypeOK
    OBVIOUS
  <2>1. pc \in [Threads -> Places] /\ local \in [Threads -> Local]
    BY OpeningType DEF Init, Places, Reading
  <2>2. /\ data \in [Ranges -> SUBSET DataFile] /\ meta \in [Ranges -> SUBSET MetaFile]
        /\ dataTmp \in [Ranges -> SUBSET DataFile] /\ metaTmp \in [Ranges -> SUBSET MetaFile]
    BY DEF Init, NoFiles
  <2>3. QED
    BY <2>1, <2>2 DEF Init, TypeOK
<1>2. TypeOK /\ [Next]_vars => TypeOK'
  <2> SUFFICES ASSUME TypeOK, [Next]_vars PROVE TypeOK'
    OBVIOUS
  <2>1. ASSUME NEW t \in Threads,
               Get(t) \/ DeletePair(t) \/ Store(t) \/ Prune(t)
        PROVE  TypeOK'
    BY <2>1, GetType, DeleteType, StoreType, PruneType
  <2>2. CASE Restart
    <3>1. Cardinality({}) = 0 /\ \A t \in Threads : Cardinality({t}) = 1
      BY FS_EmptySet, FS_Singleton
    <3>2. Cardinality(lock) \in Nat
      <4>1. lock = {} \/ \E t \in Threads : lock = {t}
        BY DEF TypeOK
      <4>2. QED
        BY <3>1, <4>1
    <3>3. {local[t].key : t \in lock} \in SUBSET Ranges
      BY DEF TypeOK, Local
    <3>4. QED
      BY <2>2, <3>2, <3>3, OpeningType DEF Restart, TypeOK, files, Places, Reading
  <2>3. CASE Tick
    BY <2>3 DEF Tick, TypeOK, files, threads, pruning, history
  <2>4. CASE UNCHANGED vars
    BY <2>4 DEF vars, files, threads, pruning, history, TypeOK
  <2>5. QED
    BY <2>1, <2>2, <2>3, <2>4 DEF Next
<1>3. QED
  BY <1>1, <1>2, PTL DEF Spec

-----------------------------------------------------------------------------
(***************************************************************************)
(* A hit is recent.                                                        *)
(***************************************************************************)
\* A step of one thread that adds nothing to the .bin and .json files, and
\* writes temporary files only with the lock, keeps what the others know.
LEMMA FrameAge ==
    ASSUME TypeOK, AgeInv, NEW t \in Threads,
           now' = now,
           \A u \in Threads \ {t} :
               /\ pc'[u] = pc[u] /\ local'[u] = local[u]
               /\ lock = {u} => lock' = {u},
           \A k \in Ranges : meta'[k] \subseteq meta[k],
           \A k \in Ranges : \A d \in data'[k] : \E c \in data[k] : c.served = d.served,
           (dataTmp' = dataTmp /\ metaTmp' = metaTmp) \/ lock = {t},
           LockInv(t)', FilesInv(t)', CarriedInv(t)'
    PROVE  AgeInv'
<1>1. ASSUME NEW u \in Threads, u # t
      PROVE  LockInv(u)' /\ FilesInv(u)' /\ CarriedInv(u)'
  <2>1. LockInv(u) /\ FilesInv(u) /\ CarriedInv(u)
    BY DEF AgeInv
  <2>2. pc'[u] = pc[u] /\ local'[u] = local[u] /\ local[u].key \in Ranges
    BY <1>1 DEF TypeOK, Local
  <2>3. LockInv(u)'
    BY <1>1, <2>1, <2>2 DEF LockInv
  <2>4. pc[u] \in Inside => dataTmp' = dataTmp /\ metaTmp' = metaTmp
    BY <1>1, <2>1 DEF LockInv
  <2>5. FilesInv(u)'
    BY <2>1, <2>2, <2>4 DEF FilesInv, Inside
  <2>6. CarriedInv(u)'
    BY <2>1, <2>2 DEF CarriedInv
  <2>7. QED
    BY <2>3, <2>5, <2>6
<1>2. ASSUME NEW k \in Ranges PROVE PairInv(k)'
  BY DEF AgeInv, PairInv
<1>3. QED
  BY <1>1, <1>2 DEF AgeInv

\* The steps of `get' keep the ages.
LEMMA GetAge ==
    ASSUME TypeOK, AgeInv, NEW t \in Threads, Get(t)
    PROVE  AgeInv'
<1> USE NumbersAssumption DEF files
<1>1. ASSUME NEW k \in Ranges, Check(t, k) PROVE AgeInv'
  <2>1. CASE \E m \in meta[k] : m.expires > now
    <3>1. pc'[t] = "checked" /\ local'[t].key = k /\ local'[t].checked = now
      BY <1>1, <2>1 DEF Check, Goto, TypeOK, Opening
    <3>2. PICK m \in meta[k] : m.expires > now
      BY <2>1
    <3>3. m.expires \in Nat /\ \A d \in data[k] : d.served \in Nat
      BY DEF TypeOK, MetaFile, DataFile
    <3>4. \A d \in data[k] : now < d.served + StoreDelay + TTL
      BY <3>2, <3>3 DEF AgeInv, PairInv, TypeOK
    <3>5. TTL > 0 /\ now' = now /\ data' = data
      BY <1>1 DEF Check, Cacheable
    <3>6. LockInv(t)' /\ FilesInv(t)' /\ CarriedInv(t)'
      BY <3>1, <3>4, <3>5 DEF LockInv, FilesInv, CarriedInv, Inside, Carrying, Storing, TypeOK
    <3>7. QED
      BY <1>1, <2>1, <3>6, FrameAge DEF Check, Goto, TypeOK
  <2>2. CASE ~\E m \in meta[k] : m.expires > now
    <3>1. pc'[t] = "dropdata"
      BY <1>1, <2>2 DEF Check, Goto, TypeOK
    <3>2. LockInv(t)' /\ FilesInv(t)' /\ CarriedInv(t)'
      BY <3>1 DEF LockInv, FilesInv, CarriedInv, Inside, Carrying, Storing
    <3>3. QED
      BY <1>1, <2>2, <3>2, FrameAge DEF Check, Goto, TypeOK
  <2>3. QED
    BY <2>1, <2>2
<1>2. CASE ReadData(t)
  <2>1. PICK d \in data[local[t].key] : local' = [local EXCEPT ![t].served = d.served]
    BY <1>2 DEF ReadData
  <2>2. /\ pc[t] = "checked" /\ pc'[t] = "hit"
        /\ local'[t].served = d.served /\ local'[t].checked = local[t].checked
    BY <1>2, <2>1 DEF ReadData, Goto, TypeOK, Local
  <2>3. local[t].checked < d.served + StoreDelay + TTL
    BY <2>2 DEF AgeInv, CarriedInv
  <2>4. LockInv(t)' /\ FilesInv(t)' /\ CarriedInv(t)'
    BY <2>2, <2>3 DEF LockInv, FilesInv, CarriedInv, Inside, Carrying, Storing
  <2>5. QED
    BY <1>2, <2>1, <2>4, FrameAge DEF ReadData, Goto, TypeOK
<1>3. CASE DataMissing(t)
  <2>1. pc'[t] = "dropdata"
    BY <1>3 DEF DataMissing, Goto, TypeOK
  <2>2. LockInv(t)' /\ FilesInv(t)' /\ CarriedInv(t)'
    BY <2>1 DEF LockInv, FilesInv, CarriedInv, Inside, Carrying, Storing
  <2>3. QED
    BY <1>3, <2>2, FrameAge DEF DataMissing, Goto, TypeOK
<1>4. CASE Touch(t)
  <2>1. pc'[t] = "idle"
    BY <1>4 DEF Touch, Return, Goto, TypeOK
  <2>2. LockInv(t)' /\ FilesInv(t)' /\ CarriedInv(t)'
    BY <2>1 DEF LockInv, FilesInv, CarriedInv, Inside, Carrying, Storing
  <2>3. \A d \in DataFile : [d EXCEPT !.used = now].served = d.served
    BY DEF DataFile
  <2>4. \A k \in Ranges : \A d \in data'[k] : \E c \in data[k] : c.served = d.served
    <3>1. \A k \in Ranges : data'[k] = IF k = local[t].key
                                      THEN {[d EXCEPT !.used = now] : d \in data[k]}
                                      ELSE data[k]
      BY <1>4 DEF Touch, TypeOK
    <3>2. ASSUME NEW k \in Ranges, NEW d \in data'[k]
          PROVE  \E c \in data[k] : c.served = d.served
      <4>1. CASE k = local[t].key
        <5>1. d \in {[c EXCEPT !.used = now] : c \in data[k]}
          BY <3>1, <4>1, Zenon
        <5>2. PICK c \in data[k] : d = [c EXCEPT !.used = now]
          BY <5>1, Zenon
        <5>3. c \in DataFile
          BY DEF TypeOK
        <5>4. QED
          BY <2>3, <5>2, <5>3, Zenon
      <4>2. CASE k # local[t].key
        BY <3>1, <4>2
      <4>3. QED
        BY <4>1, <4>2
    <3>3. QED
      BY <3>2
  <2>5. QED
    BY <1>4, <2>2, <2>4, FrameAge DEF Touch, Return, Goto, TypeOK
<1>5. QED
  BY <1>1, <1>2, <1>3, <1>4 DEF Get

\* The steps of a deletion keep the ages.
LEMMA DeleteAge ==
    ASSUME TypeOK, AgeInv, NEW t \in Threads, DeletePair(t)
    PROVE  AgeInv'
<1>1. \/ pc'[t] \in {"dropmeta", "missed"}
      \/ pc'[t] = "scanning" /\ lock = {t} /\ lock' = lock
  <2>1. lock' = lock
    BY DEF DeletePair, DropData, DropMeta, KeepData, KeepMeta
  <2>2. pc'[t] = "dropmeta" \/ pc'[t] = AfterDeletion(t)
    BY DEF DeletePair, DropData, DropMeta, KeepData, KeepMeta, Goto, TypeOK
  <2>3. CASE lock = {t}
    BY <2>1, <2>2, <2>3 DEF AfterDeletion
  <2>4. CASE lock # {t}
    BY <2>2, <2>4 DEF AfterDeletion
  <2>5. QED
    BY <2>3, <2>4
<1>2. LockInv(t)' /\ FilesInv(t)' /\ CarriedInv(t)'
  BY <1>1 DEF LockInv, FilesInv, CarriedInv, Inside, Carrying, Storing
<1>3. \A k \in Ranges : data'[k] \subseteq data[k] /\ meta'[k] \subseteq meta[k]
  BY DEF DeletePair, DropData, DropMeta, KeepData, KeepMeta, files, TypeOK
<1>4. /\ now' = now /\ lock' = lock /\ dataTmp' = dataTmp /\ metaTmp' = metaTmp
      /\ \A u \in Threads \ {t} : pc'[u] = pc[u] /\ local'[u] = local[u]
  BY DEF DeletePair, DropData, DropMeta, KeepData, KeepMeta, files, Goto, TypeOK
<1>5. QED
  BY <1>2, <1>3, <1>4, FrameAge

\* The steps of a pruning keep the ages.
LEMMA PruneAge ==
    ASSUME TypeOK, AgeInv, NEW t \in Threads, Prune(t)
    PROVE  AgeInv'
<1> USE DEF files, threads
<1>1. CASE List(t)
  <2>1. pc'[t] = "scanning" /\ lock = {t} /\ lock' = lock
    BY <1>1 DEF List, Goto, TypeOK, AgeInv, LockInv, Inside
  <2>2. LockInv(t)' /\ FilesInv(t)' /\ CarriedInv(t)'
    BY <2>1 DEF LockInv, FilesInv, CarriedInv, Inside, Carrying, Storing
  <2>3. QED
    BY <1>1, <2>2, FrameAge DEF List, Goto, TypeOK
<1>2. ASSUME NEW k \in Ranges, Examine(t, k) PROVE AgeInv'
  BY <1>2 DEF Examine, AgeInv, LockInv, FilesInv, CarriedInv, PairInv
<1>3. ASSUME NEW k \in Ranges, Discard(t, k) PROVE AgeInv'
  <2>1. pc'[t] = "dropdata"
    BY <1>3 DEF Discard, Goto, TypeOK
  <2>2. LockInv(t)' /\ FilesInv(t)' /\ CarriedInv(t)'
    BY <2>1 DEF LockInv, FilesInv, CarriedInv, Inside, Carrying, Storing
  <2>3. QED
    BY <1>3, <2>2, FrameAge DEF Discard, Goto, TypeOK
<1>4. CASE Evict(t)
  <2>1. PICK e \in entries : local' = [local EXCEPT ![t].drop = e.key]
    BY <1>4 DEF Evict
  <2>2. pc'[t] = "dropdata"
    BY <1>4 DEF Evict, Goto, TypeOK
  <2>3. LockInv(t)' /\ FilesInv(t)' /\ CarriedInv(t)'
    BY <2>2 DEF LockInv, FilesInv, CarriedInv, Inside, Carrying, Storing
  <2>4. QED
    BY <1>4, <2>1, <2>3, FrameAge DEF Evict, Goto, TypeOK
<1>5. CASE Unlock(t)
  <2>1. pc'[t] = "idle"
    BY <1>5 DEF Unlock, Return, Goto, TypeOK
  <2>2. LockInv(t)' /\ FilesInv(t)' /\ CarriedInv(t)'
    BY <2>1 DEF LockInv, FilesInv, CarriedInv, Inside, Carrying, Storing
  <2>3. lock = {t}
    BY <1>5 DEF Unlock, AgeInv, LockInv, Inside
  <2>4. QED
    BY <1>5, <2>2, <2>3, FrameAge DEF Unlock, Return, Goto, TypeOK
<1>6. QED
  BY <1>1, <1>2, <1>3, <1>4, <1>5 DEF Prune

\* The steps of a miss and of a store keep the ages.
LEMMA StoreAge ==
    ASSUME TypeOK, AgeInv, NEW t \in Threads, Store(t)
    PROVE  AgeInv'
<1> USE NumbersAssumption DEF files, pruning
<1>1. CASE ImmichServes(t)
  <2>1. pc'[t] = "fetched" /\ local'[t].served = now /\ now' = now
    BY <1>1 DEF ImmichServes, Goto, TypeOK, Local
  <2>2. LockInv(t)' /\ FilesInv(t)' /\ CarriedInv(t)'
    BY <2>1 DEF LockInv, FilesInv, CarriedInv, Inside, Carrying, Storing, TypeOK
  <2>3. QED
    BY <1>1, <2>2, FrameAge DEF ImmichServes, Goto, TypeOK
<1>2. CASE ImmichFails(t)
  <2>1. pc'[t] = "idle"
    BY <1>2 DEF ImmichFails, Return, Goto, TypeOK
  <2>2. LockInv(t)' /\ FilesInv(t)' /\ CarriedInv(t)'
    BY <2>1 DEF LockInv, FilesInv, CarriedInv, Inside, Carrying, Storing
  <2>3. QED
    BY <1>2, <2>2, FrameAge DEF ImmichFails, Return, Goto, TypeOK
<1>3. CASE CallSet(t)
  <2>1. /\ pc[t] = "fetched" /\ pc'[t] = "waiting" /\ now' = now
        /\ local'[t].expires = now + TTL /\ local'[t].served = local[t].served
        /\ local[t].served \in Nat
    BY <1>3 DEF CallSet, Goto, TypeOK, Local
  <2>2. now <= local[t].served + StoreDelay
    BY <2>1 DEF AgeInv, CarriedInv, Storing
  <2>3. LockInv(t)' /\ FilesInv(t)' /\ CarriedInv(t)'
    BY <2>1, <2>2 DEF LockInv, FilesInv, CarriedInv, Inside, Carrying, Storing, TypeOK
  <2>4. QED
    BY <1>3, <2>3, FrameAge DEF CallSet, Goto, TypeOK
<1>4. CASE Lock(t)
  <2>1. /\ pc[t] = "waiting" /\ pc'[t] = "locked" /\ now' = now /\ local' = local
        /\ lock = {} /\ lock' = {t}
    BY <1>4 DEF Lock, Goto, TypeOK
  <2>2. LockInv(t)' /\ FilesInv(t)' /\ CarriedInv(t)'
    BY <2>1 DEF AgeInv, LockInv, FilesInv, CarriedInv, Inside, Carrying, Storing
  <2>3. QED
    BY <1>4, <2>1, <2>2, FrameAge DEF Lock, Goto, TypeOK
<1>5. CASE WriteDataTmp(t)
  <2>1. /\ pc[t] = "locked" /\ pc'[t] = "wrote" /\ now' = now /\ local' = local
        /\ dataTmp'[local[t].key] = {[served |-> local[t].served, used |-> now]}
        /\ lock = {t} /\ lock' = lock
    BY <1>5 DEF WriteDataTmp, Goto, TypeOK, Local, AgeInv, LockInv, Inside
  <2>2. LockInv(t)' /\ FilesInv(t)' /\ CarriedInv(t)'
    BY <2>1 DEF AgeInv, LockInv, FilesInv, CarriedInv, Inside, Carrying, Storing
  <2>3. QED
    BY <1>5, <2>1, <2>2, FrameAge DEF WriteDataTmp, Goto, TypeOK
<1>6. CASE WriteMetaTmp(t)
  <2>1. /\ pc[t] = "wrote" /\ pc'[t] = "ready" /\ now' = now /\ local' = local
        /\ metaTmp'[local[t].key] = {[expires |-> local[t].expires]}
        /\ dataTmp' = dataTmp /\ lock = {t} /\ lock' = lock
    BY <1>6 DEF WriteMetaTmp, Goto, TypeOK, Local, AgeInv, LockInv, Inside
  <2>2. LockInv(t)' /\ FilesInv(t)' /\ CarriedInv(t)'
    BY <2>1 DEF AgeInv, LockInv, FilesInv, CarriedInv, Inside, Carrying, Storing
  <2>3. QED
    BY <1>6, <2>1, <2>2, FrameAge DEF WriteMetaTmp, Goto, TypeOK
<1>7. CASE ReplaceData(t)
  <2> DEFINE k == local[t].key
  <2>1. /\ pc[t] = "ready" /\ pc'[t] = "halfway" /\ local' = local
        /\ now' = now /\ meta' = meta /\ metaTmp' = metaTmp /\ lock = {t} /\ lock' = lock
        /\ k \in Ranges /\ local[t].served \in Nat /\ now \in Nat
    BY <1>7 DEF ReplaceData, Goto, TypeOK, Local, AgeInv, LockInv, Inside
  <2>2. /\ \A d \in data'[k] : d.served = local[t].served
        /\ \A j \in Ranges \ {k} : data'[j] = data[j]
    BY <1>7, <2>1 DEF ReplaceData, TypeOK, AgeInv, FilesInv
  <2>3. now <= local[t].served + StoreDelay
    BY <2>1 DEF AgeInv, CarriedInv, Storing
  <2>4. LockInv(t)' /\ FilesInv(t)' /\ CarriedInv(t)'
    BY <2>1, <2>2 DEF AgeInv, LockInv, FilesInv, CarriedInv, Inside, Carrying, Storing
  <2>5. ASSUME NEW u \in Threads, u # t
        PROVE  LockInv(u)' /\ FilesInv(u)' /\ CarriedInv(u)'
    <3>1. pc'[u] = pc[u] /\ pc[u] \notin Inside /\ local[u] \in Local
      BY <1>7, <2>1, <2>5 DEF ReplaceData, Goto, TypeOK, AgeInv, LockInv
    <3>2. LockInv(u)' /\ FilesInv(u)'
      BY <3>1 DEF LockInv, FilesInv, Inside
    <3> HIDE DEF k
    <3>3. ASSUME pc[u] # "checked" PROVE CarriedInv(u)'
      <4>1. pc'[u] = pc[u] /\ local'[u] = local[u] /\ now' = now
        BY <2>1, <3>1
      <4>2. CarriedInv(u)
        BY DEF AgeInv
      <4>3. QED
        BY <3>3, <4>1, <4>2 DEF CarriedInv
    <3>4. ASSUME pc[u] = "checked" PROVE CarriedInv(u)'
      <4>1. TTL > 0 /\ local[u].checked <= now /\ local[u].checked \in Nat
        BY <3>1, <3>4 DEF AgeInv, CarriedInv, Local
      <4>2. \A d \in data[local[u].key] : local[u].checked < d.served + StoreDelay + TTL
        BY <3>4 DEF AgeInv, CarriedInv
      <4>3. local[u].checked < local[t].served + StoreDelay + TTL
        BY <2>1, <2>3, <4>1
      <4>4. \A d \in data'[local[u].key] : local[u].checked < d.served + StoreDelay + TTL
        BY <2>2, <3>1, <4>2, <4>3 DEF Local
      <4>5. QED
        <5>1. pc'[u] = "checked" /\ local'[u] = local[u] /\ now' = now
          BY <2>1, <3>1, <3>4
        <5>2. QED
          BY <4>1, <4>4, <5>1 DEF CarriedInv, Carrying, Storing
    <3>5. QED
      BY <3>2, <3>3, <3>4
  <2>6. ASSUME NEW j \in Ranges PROVE PairInv(j)'
    <3>1. \A m \in meta[j] : m.expires <= now + TTL /\ m.expires \in Nat
      BY DEF AgeInv, PairInv, TypeOK, MetaFile
    <3>2. CASE j = k
      BY <2>1, <2>2, <2>3, <3>1, <3>2 DEF PairInv
    <3>3. CASE j # k
      BY <2>1, <2>2, <3>3 DEF AgeInv, PairInv
    <3>4. QED
      BY <3>2, <3>3
  <2>7. QED
    BY <2>4, <2>5, <2>6 DEF AgeInv
<1>8. CASE ReplaceMeta(t)
  <2> DEFINE k == local[t].key
  <2>1. /\ pc[t] = "halfway" /\ pc'[t] = "replaced" /\ local' = local
        /\ now' = now /\ data' = data /\ lock = {t} /\ lock' = lock
        /\ k \in Ranges
    BY <1>8 DEF ReplaceMeta, Goto, TypeOK, Local, AgeInv, LockInv, Inside
  <2>2. /\ \A m \in meta'[k] : m.expires = local[t].expires
        /\ \A j \in Ranges \ {k} : meta'[j] = meta[j]
    BY <1>8, <2>1 DEF ReplaceMeta, TypeOK, AgeInv, FilesInv
  <2>3. /\ local[t].expires <= local[t].served + StoreDelay + TTL
        /\ local[t].expires <= now + TTL
    BY <2>1 DEF AgeInv, CarriedInv, Carrying
  <2>4. \A d \in data[k] : d.served = local[t].served
    BY <2>1 DEF AgeInv, FilesInv
  <2>5. LockInv(t)' /\ FilesInv(t)' /\ CarriedInv(t)'
    BY <2>1 DEF LockInv, FilesInv, CarriedInv, Inside, Carrying, Storing
  <2>6. ASSUME NEW u \in Threads, u # t
        PROVE  LockInv(u)' /\ FilesInv(u)' /\ CarriedInv(u)'
    <3>1. pc'[u] = pc[u] /\ pc[u] \notin Inside
      BY <1>8, <2>1, <2>6 DEF ReplaceMeta, Goto, TypeOK, AgeInv, LockInv
    <3>2. LockInv(u)' /\ FilesInv(u)'
      BY <3>1 DEF LockInv, FilesInv, Inside
    <3>3. CarriedInv(u)'
      BY <2>1, <3>1 DEF AgeInv, CarriedInv
    <3>4. QED
      BY <3>2, <3>3
  <2>7. ASSUME NEW j \in Ranges PROVE PairInv(j)'
    <3>1. CASE j = k
      BY <2>1, <2>2, <2>3, <2>4, <3>1 DEF PairInv
    <3>2. CASE j # k
      BY <2>1, <2>2, <3>2 DEF AgeInv, PairInv
    <3>3. QED
      BY <3>1, <3>2
  <2>8. QED
    BY <2>5, <2>6, <2>7 DEF AgeInv
<1>9. CASE StoreFails(t)
  <2>1. pc'[t] = "idle" /\ lock = {t}
    BY <1>9 DEF StoreFails, Return, Goto, TypeOK, AgeInv, LockInv, Inside
  <2>2. LockInv(t)' /\ FilesInv(t)' /\ CarriedInv(t)'
    BY <2>1 DEF LockInv, FilesInv, CarriedInv, Inside, Carrying, Storing
  <2>3. QED
    BY <1>9, <2>1, <2>2, FrameAge DEF StoreFails, Return, Goto, TypeOK
<1>10. QED
  BY <1>1, <1>2, <1>3, <1>4, <1>5, <1>6, <1>7, <1>8, <1>9 DEF Store

\* What threads carry, and files hold, is as old as AgeInv says.
LEMMA AgesHold == Spec => []AgeInv
<1>1. Init => AgeInv
  BY DEF Init, AgeInv, LockInv, FilesInv, CarriedInv, PairInv, NoFiles,
         Inside, Carrying, Storing
<1>2. TypeOK /\ AgeInv /\ [Next]_vars => AgeInv'
  <2> SUFFICES ASSUME TypeOK, AgeInv, [Next]_vars PROVE AgeInv'
    OBVIOUS
  <2>1. ASSUME NEW t \in Threads,
               Get(t) \/ DeletePair(t) \/ Store(t) \/ Prune(t)
        PROVE  AgeInv'
    BY <2>1, GetAge, DeleteAge, StoreAge, PruneAge
  <2>2. CASE Restart
    BY <2>2 DEF Restart, files, AgeInv, LockInv, FilesInv, CarriedInv, PairInv,
                Inside, Carrying, Storing
  <2>3. CASE Tick
    <3>1. /\ now' = now + 1 /\ now \in Nat
          /\ UNCHANGED <<files, threads, lock>>
          /\ \A t \in Threads : pc[t] \in Storing => now < local[t].served + StoreDelay
      BY <2>3 DEF Tick, TypeOK
    <3>2. ASSUME NEW t \in Threads
          PROVE  LockInv(t)' /\ FilesInv(t)' /\ CarriedInv(t)'
      <4>1. local[t] \in Local
        BY DEF TypeOK
      <4>2. LockInv(t)' /\ FilesInv(t)'
        BY <3>1 DEF files, threads, AgeInv, LockInv, FilesInv
      <4>3. CarriedInv(t)'
        BY <3>1, <4>1, NumbersAssumption DEF files, threads, AgeInv, CarriedInv, Local
      <4>4. QED
        BY <4>2, <4>3
    <3>3. ASSUME NEW k \in Ranges PROVE PairInv(k)'
      <4>1. \A m \in meta[k] : m.expires \in Nat
        BY DEF TypeOK, MetaFile
      <4>2. QED
        BY <3>1, <4>1, NumbersAssumption DEF files, AgeInv, PairInv
    <3>4. QED
      BY <3>2, <3>3 DEF AgeInv
  <2>4. CASE UNCHANGED vars
    BY <2>4 DEF vars, files, threads, AgeInv, LockInv, FilesInv, CarriedInv, PairInv
  <2>5. QED
    BY <2>1, <2>2, <2>3, <2>4 DEF Next
<1>3. QED
  BY <1>1, <1>2, TypeCorrect, PTL DEF Spec

\* A hit returns bytes that Immich served at most TTL and StoreDelay before
\* `get' looked at their expiry, however the file operations of the threads
\* interleave and wherever the process is killed.
THEOREM HitsAreRecent == Spec => []HitIsRecent
<1>1. AgeInv => HitIsRecent
  BY DEF AgeInv, CarriedInv, HitIsRecent
<1>2. QED
  BY <1>1, AgesHold, PTL

-----------------------------------------------------------------------------
(***************************************************************************)
(* Temporary files go.                                                     *)
(***************************************************************************)
\* A temporary file has a thread that is about to rename it, or was left by the
\* last store of its range; a store that has renamed one has none of that kind.
TmpInv ==
    /\ \A k \in Ranges \ leftover :
          /\ dataTmp[k] # {} =>
                \E t \in Threads : local[t].key = k /\ pc[t] \in {"wrote", "ready"}
          /\ metaTmp[k] # {} =>
                \E t \in Threads : local[t].key = k /\ pc[t] \in {"ready", "halfway"}
    /\ \A t \in Threads : pc[t] = "halfway" => dataTmp[local[t].key] = {}

Renaming == {"wrote", "ready", "halfway"}

\* A step of a thread without a temporary file leaves those there are with
\* their threads.
LEMMA FrameTmp ==
    ASSUME TypeOK, TmpInv, NEW t \in Threads, pc[t] \notin Renaming,
           pc'[t] \notin Renaming,
           \A u \in Threads \ {t} : pc'[u] = pc[u] /\ local'[u] = local[u],
           UNCHANGED <<dataTmp, metaTmp, leftover>>
    PROVE  TmpInv'
<1>1. /\ \A u \in Threads : pc[u] \in Renaming => pc'[u] = pc[u] /\ local'[u] = local[u]
      /\ \A u \in Threads : pc'[u] \in Renaming => pc[u] \in Renaming
  OBVIOUS
<1>2. QED
  BY <1>1 DEF TmpInv, Renaming

\* The steps of `set' make temporary files, rename them, or delete them.
LEMMA StoreTmp ==
    ASSUME TypeOK, AgeInv, TmpInv, NEW t \in Threads, Store(t)
    PROVE  TmpInv'
<1>. DEFINE key == local[t].key
<1>1. key \in Ranges /\ pc \in [Threads -> Places] /\ local \in [Threads -> Local]
  BY DEF TypeOK, Local
<1>2. ASSUME pc[t] \in Inside
      PROVE  \A u \in Threads : pc[u] \in Renaming => u = t
  <2>1. lock = {t}
    BY <1>2 DEF AgeInv, LockInv
  <2>2. \A u \in Threads : pc[u] \in Renaming => lock = {u}
    BY DEF AgeInv, LockInv, Inside, Renaming
  <2>3. QED
    BY <2>1, <2>2
<1>3. CASE ImmichServes(t) \/ ImmichFails(t) \/ CallSet(t) \/ Lock(t)
  <2>1. /\ pc[t] \notin Renaming /\ pc'[t] \notin Renaming
        /\ \A u \in Threads \ {t} : pc'[u] = pc[u] /\ local'[u] = local[u]
    BY <1>1, <1>3 DEF ImmichServes, ImmichFails, CallSet, Lock, Goto, Return, Renaming
  <2>2. UNCHANGED <<dataTmp, metaTmp, leftover>>
    BY <1>3 DEF ImmichServes, ImmichFails, CallSet, Lock, files, history
  <2>3. QED
    BY <2>1, <2>2, FrameTmp
<1>4. CASE WriteDataTmp(t)
  <2>1. /\ pc[t] = "locked" /\ pc'[t] = "wrote" /\ local' = local /\ leftover' = leftover
        /\ \A u \in Threads : u # t => pc'[u] = pc[u]
    BY <1>1, <1>4 DEF WriteDataTmp, Goto, history
  <2>2. metaTmp' = metaTmp /\ \A k \in Ranges : k # key => dataTmp'[k] = dataTmp[k]
    BY <1>4 DEF WriteDataTmp, TypeOK
  <2>3. \A u \in Threads : pc[u] \notin Renaming /\ pc'[u] # "halfway"
    BY <1>2, <2>1 DEF Inside, Renaming
  <2>4. QED
    BY <2>1, <2>2, <2>3 DEF TmpInv, Renaming
<1>5. CASE WriteMetaTmp(t)
  <2>1. /\ pc[t] = "wrote" /\ pc'[t] = "ready" /\ local' = local /\ leftover' = leftover
        /\ \A u \in Threads : u # t => pc'[u] = pc[u]
    BY <1>1, <1>5 DEF WriteMetaTmp, Goto, history
  <2>2. dataTmp' = dataTmp /\ \A k \in Ranges : k # key => metaTmp'[k] = metaTmp[k]
    BY <1>5 DEF WriteMetaTmp, TypeOK
  <2>3. \A u \in Threads : pc[u] \in Renaming => u = t
    BY <1>2, <2>1 DEF Inside
  <2>4. \A u \in Threads : pc'[u] # "halfway"
    BY <2>1, <2>3 DEF Renaming
  <2>5. QED
    BY <2>1, <2>2, <2>3, <2>4 DEF TmpInv, Renaming
<1>6. CASE ReplaceData(t)
  <2>1. /\ pc[t] = "ready" /\ pc'[t] = "halfway" /\ local' = local /\ leftover' = leftover
        /\ \A u \in Threads : u # t => pc'[u] = pc[u]
    BY <1>1, <1>6 DEF ReplaceData, Goto, history
  <2>2. /\ metaTmp' = metaTmp /\ dataTmp'[key] = {}
        /\ \A k \in Ranges : k # key => dataTmp'[k] = dataTmp[k]
    BY <1>1, <1>6 DEF ReplaceData, TypeOK
  <2>3. \A u \in Threads : pc[u] \in Renaming => u = t
    BY <1>2, <2>1 DEF Inside
  <2>4. \A u \in Threads : pc'[u] = "halfway" => u = t
    BY <2>1, <2>3 DEF Renaming
  <2>5. QED
    BY <2>1, <2>2, <2>3, <2>4 DEF TmpInv, Renaming
<1>7. CASE ReplaceMeta(t)
  <2>1. /\ pc[t] = "halfway" /\ pc'[t] = "replaced" /\ local' = local
        /\ leftover' = leftover \ {key}
        /\ \A u \in Threads : u # t => pc'[u] = pc[u]
    BY <1>1, <1>7 DEF ReplaceMeta, Goto
  <2>2. /\ dataTmp' = dataTmp /\ dataTmp[key] = {} /\ metaTmp'[key] = {}
        /\ \A k \in Ranges : k # key => metaTmp'[k] = metaTmp[k]
    BY <1>1, <1>7, <2>1 DEF ReplaceMeta, TypeOK, TmpInv
  <2>3. \A u \in Threads : pc[u] \in Renaming => u = t
    BY <1>2, <2>1 DEF Inside
  <2>4. \A u \in Threads : pc'[u] # "halfway"
    BY <2>1, <2>3 DEF Renaming
  <2>5. QED
    BY <2>1, <2>2, <2>3, <2>4 DEF TmpInv, Renaming
<1>8. CASE StoreFails(t)
  <2>1. /\ pc[t] \in Inside /\ pc'[t] = "idle"
        /\ \A u \in Threads : u # t => pc'[u] = pc[u]
    BY <1>1, <1>8 DEF StoreFails, Inside, Return, Goto
  <2>2. /\ (dataTmp'[key] = {} /\ metaTmp'[key] = {}) \/ key \in leftover'
        /\ \A k \in Ranges : k # key =>
              /\ dataTmp'[k] = dataTmp[k] /\ metaTmp'[k] = metaTmp[k]
              /\ k \in leftover' <=> k \in leftover
    <3>1. PICK d \in {{}, dataTmp[key]}, m \in {{}, metaTmp[key]} :
            /\ dataTmp' = [dataTmp EXCEPT ![key] = d]
            /\ metaTmp' = [metaTmp EXCEPT ![key] = m]
            /\ leftover' = IF d = {} /\ m = {} THEN leftover \ {key}
                                               ELSE leftover \cup {key}
      BY <1>8 DEF StoreFails
    <3>2. QED
      BY <1>1, <3>1 DEF TypeOK
  <2>3. \A u \in Threads : pc[u] \in Renaming => u = t
    BY <1>2, <2>1
  <2>4. \A u \in Threads : pc'[u] # "halfway"
    BY <2>1, <2>3 DEF Renaming
  <2>5. QED
    BY <2>1, <2>2, <2>3, <2>4 DEF TmpInv, Renaming
<1>9. QED
  BY <1>3, <1>4, <1>5, <1>6, <1>7, <1>8 DEF Store

\* The steps of `get', of _delete_pair and of the pruning leave temporary files.
LEMMA OtherTmp ==
    ASSUME TypeOK, TmpInv, NEW t \in Threads, Get(t) \/ DeletePair(t) \/ Prune(t)
    PROVE  TmpInv'
<1>1. pc \in [Threads -> Places] /\ local \in [Threads -> Local]
  BY DEF TypeOK
<1>2. CASE Get(t)
  <2>1. /\ pc[t] \notin Renaming /\ pc'[t] \notin Renaming
        /\ \A u \in Threads \ {t} : pc'[u] = pc[u] /\ local'[u] = local[u]
    BY <1>1, <1>2 DEF Get, Check, ReadData, DataMissing, Touch, Goto, Return, Renaming
  <2>2. UNCHANGED <<dataTmp, metaTmp, leftover>>
    BY <1>2 DEF Get, Check, ReadData, DataMissing, Touch, files, history
  <2>3. QED
    BY <2>1, <2>2, FrameTmp
<1>3. CASE DeletePair(t)
  <2>1. /\ pc[t] \notin Renaming /\ pc'[t] \notin Renaming
        /\ \A u \in Threads \ {t} : pc'[u] = pc[u] /\ local'[u] = local[u]
    BY <1>1, <1>3 DEF DeletePair, DropData, DropMeta, KeepData, KeepMeta, AfterDeletion,
                      Goto, Renaming
  <2>2. UNCHANGED <<dataTmp, metaTmp, leftover>>
    BY <1>3 DEF DeletePair, DropData, DropMeta, KeepData, KeepMeta, files
  <2>3. QED
    BY <2>1, <2>2, FrameTmp
<1>4. CASE Prune(t)
  <2>1. /\ pc[t] \notin Renaming /\ pc'[t] \notin Renaming
        /\ \A u \in Threads \ {t} : pc'[u] = pc[u] /\ local'[u] = local[u]
    BY <1>1, <1>4 DEF Prune, List, Examine, Discard, Evict, Unlock, Goto, Return, Renaming, threads
  <2>2. UNCHANGED <<dataTmp, metaTmp, leftover>>
    BY <1>4 DEF Prune, List, Examine, Discard, Evict, Unlock, files, history
  <2>3. QED
    BY <2>1, <2>2, FrameTmp
<1>5. QED
  BY <1>2, <1>3, <1>4

\* A temporary file is that of the store that holds the lock, or was left by
\* the last store of its range, which was killed or failed to unlink it.
THEOREM TmpFilesGo == Spec => []TmpFilesAreCleaned
<1>1. Init => TmpInv
  BY DEF Init, TmpInv, NoFiles
<1>2. TypeOK /\ AgeInv /\ TmpInv /\ [Next]_vars => TmpInv'
  <2> SUFFICES ASSUME TypeOK, AgeInv, TmpInv, [Next]_vars PROVE TmpInv'
    OBVIOUS
  <2>1. ASSUME NEW t \in Threads, Get(t) \/ DeletePair(t) \/ Store(t) \/ Prune(t)
        PROVE  TmpInv'
    BY <2>1, StoreTmp, OtherTmp
  <2>2. CASE Restart
    <3>1. /\ dataTmp' = dataTmp /\ metaTmp' = metaTmp
          /\ leftover' = leftover \cup {local[t].key : t \in lock}
          /\ \A t \in Threads : pc'[t] = "idle"
      BY <2>2 DEF Restart, files
    <3>2. ASSUME NEW t \in Threads, pc[t] \in Renaming
          PROVE  local[t].key \in leftover'
      BY <3>1, <3>2 DEF AgeInv, LockInv, Inside, Renaming
    <3>3. QED
      BY <3>1, <3>2 DEF TmpInv, Renaming
  <2>3. CASE Tick \/ UNCHANGED vars
    BY <2>3 DEF Tick, vars, files, threads, history, TmpInv
  <2>4. QED
    BY <2>1, <2>2, <2>3 DEF Next
<1>3. AgeInv /\ TmpInv => TmpFilesAreCleaned
  <2>1. ASSUME AgeInv, NEW t \in Threads, pc[t] \in Renaming
        PROVE  t \in lock
    BY <2>1 DEF AgeInv, LockInv, Inside, Renaming
  <2>2. QED
    BY <2>1 DEF TmpInv, TmpFilesAreCleaned, Renaming
<1>4. QED
  BY <1>1, <1>2, <1>3, TypeCorrect, AgesHold, PTL DEF Spec

-----------------------------------------------------------------------------
(***************************************************************************)
(* The bytes that count are bounded.                                       *)
(***************************************************************************)
\* The bytes of ranges, as a set.
Occupied(ks) == UNION {Content(k) : k \in ks}

Keys == {e.key : e \in entries}

\* Only what may be cached is opened, and the lock is held by a store.
HolderInv ==
    /\ \A t \in Threads : pc[t] # "idle" => Size[local[t].key] <= MaxRangeBytes
    /\ \A t \in Threads : lock = {t} => pc[t] \in Inside \cup Deleting

\* A pruning has not forgotten a range that counts: it is still to be looked
\* at, or in the list, about to be deleted, or could not be deleted.
PruneInv ==
    \A t \in Threads :
        lock = {t} /\ pc[t] \in {"scanning"} \cup Deleting =>
            \A k \in Counted :
                \/ k \in listed \cup Keys \cup undeleted
                \/ pc[t] = "dropdata" /\ k = local[t].drop

\* What counts, but for what could not be deleted, ...
Accounted == Counted \ undeleted

\* ... and for the range of the store that holds the lock.
Settled == Accounted \ {local[t].key : t \in lock}

BoundInv ==
    /\ HolderInv
    /\ PruneInv
    /\ IsFiniteSet(Occupied(Counted))
    /\ IsFiniteSet(Occupied(Keys))
    /\ Bytes(Settled) <= MaxBytes + unpruned * MaxRangeBytes

\* A range has as many bytes as its size.
LEMMA ContentSize ==
    ASSUME NEW k \in Ranges
    PROVE  IsFiniteSet(Content(k)) /\ Cardinality(Content(k)) = Size[k] /\ Size[k] \in Nat
<1>1. Size[k] \in Nat
  BY SizeAssumption
<1>2. IsFiniteSet(1..Size[k]) /\ Cardinality(1..Size[k]) = Size[k]
  BY <1>1, FS_Interval
<1>3. IsFiniteSet({k}) /\ Cardinality({k}) = 1
  BY FS_Singleton
<1>4. /\ IsFiniteSet({k} \X (1..Size[k]))
      /\ Cardinality({k} \X (1..Size[k])) = Cardinality({k}) * Cardinality(1..Size[k])
  BY <1>2, <1>3, FS_Product
<1>5. QED
  BY <1>1, <1>2, <1>3, <1>4 DEF Content

\* Some of the ranges have no more bytes than all of them.
LEMMA FewerRanges ==
    ASSUME NEW ks, NEW js \in SUBSET ks, IsFiniteSet(Occupied(ks))
    PROVE  /\ IsFiniteSet(Occupied(js))
           /\ Bytes(js) <= Bytes(ks) /\ Bytes(js) \in Nat /\ Bytes(ks) \in Nat
<1>1. Occupied(js) \subseteq Occupied(ks)
  BY DEF Occupied
<1>2. /\ IsFiniteSet(Occupied(js)) /\ Cardinality(Occupied(js)) <= Cardinality(Occupied(ks))
      /\ Cardinality(Occupied(js)) \in Nat /\ Cardinality(Occupied(ks)) \in Nat
  BY <1>1, FS_Subset, FS_CardinalityType
<1>3. QED
  BY <1>2 DEF Occupied, Bytes

\* One range more adds at most its size.
LEMMA OneRangeMore ==
    ASSUME NEW ks, NEW k \in Ranges, IsFiniteSet(Occupied(ks))
    PROVE  /\ IsFiniteSet(Occupied(ks \cup {k}))
           /\ Bytes(ks \cup {k}) <= Bytes(ks) + Size[k]
<1> DEFINE Shared == Cardinality(Occupied(ks) \cap Content(k))
           Alone == Cardinality(Occupied(ks))
           Together == Cardinality(Occupied(ks \cup {k}))
<1>1. Occupied(ks \cup {k}) = Occupied(ks) \cup Content(k)
  BY DEF Occupied
<1>2. /\ IsFiniteSet(Occupied(ks \cup {k}))
      /\ Together = Alone + Cardinality(Content(k)) - Shared
  BY <1>1, ContentSize, FS_Union
<1>3. IsFiniteSet(Occupied(ks) \cap Content(k))
  BY FS_Subset, Occupied(ks) \cap Content(k) \subseteq Occupied(ks)
<1>4. Alone \in Nat /\ Shared \in Nat
  BY <1>3, FS_CardinalityType
<1>5. Cardinality(Content(k)) = Size[k] /\ Size[k] \in Nat
  BY ContentSize
<1>6. Together = Bytes(ks \cup {k}) /\ Alone = Bytes(ks)
  BY DEF Bytes, Occupied
<1> HIDE DEF Shared, Alone, Together
<1>7. Together <= Alone + Size[k]
  BY <1>2, <1>4, <1>5
<1>8. QED
  BY <1>2, <1>6, <1>7

\* A step within `set' or `get' keeps the bound when at most the range of the
\* store that holds the lock begins to count.
LEMMA FrameBound ==
    ASSUME TypeOK, BoundInv, NEW k \in Ranges,
           HolderInv', PruneInv',
           Counted' \subseteq Counted \cup {k}, Settled' \subseteq Settled,
           unpruned' = unpruned, IsFiniteSet(Occupied(Keys)')
    PROVE  BoundInv'
<1>1. IsFiniteSet(Occupied(Counted \cup {k})) /\ IsFiniteSet(Occupied(Counted))
  BY OneRangeMore DEF BoundInv
<1>2. IsFiniteSet(Occupied(Counted'))
  BY <1>1, FewerRanges
<1>3. IsFiniteSet(Occupied(Settled))
  BY <1>1, FewerRanges, Settled \subseteq Counted DEF Settled, Accounted
<1>4. Bytes(Settled') <= Bytes(Settled) /\ Bytes(Settled') \in Nat /\ Bytes(Settled) \in Nat
  BY <1>3, FewerRanges
<1>5. MaxBytes + unpruned * MaxRangeBytes \in Nat
  BY NumbersAssumption DEF TypeOK
<1>6. Bytes(Settled') <= MaxBytes + unpruned' * MaxRangeBytes
  BY <1>4, <1>5 DEF BoundInv
<1>7. Occupied(Counted)' = Occupied(Counted') /\ Bytes(Settled)' = Bytes(Settled')
  BY DEF Occupied, Bytes, Content
<1>8. QED
  BY <1>2, <1>6, <1>7 DEF BoundInv

\* A step of one thread that keeps the lock where it is keeps the bound, when
\* it makes no range count but that of the store which holds the lock, and
\* leaves the list of a pruning to the thread that prunes.
LEMMA StepBound ==
    ASSUME TypeOK, BoundInv, NEW t \in Threads,
           \A u \in Threads \ {t} : pc'[u] = pc[u] /\ local'[u] = local[u],
           lock' = lock, unpruned' = unpruned,
           \A k \in undeleted \ undeleted' :
               k \notin Counted' \/ (lock = {t} /\ k = local[t].key),
           pc'[t] # "idle" => Size[local'[t].key] <= MaxRangeBytes,
           lock = {t} =>
               /\ pc'[t] \in Inside \cup Deleting
               /\ local'[t].key = local[t].key
               /\ Counted' \subseteq Counted \cup {local[t].key}
               /\ IsFiniteSet(Occupied(Keys)')
               /\ pc'[t] \in {"scanning"} \cup Deleting =>
                     \A k \in Counted' :
                         \/ k \in listed' \cup Keys' \cup undeleted'
                         \/ pc'[t] = "dropdata" /\ k = local'[t].drop,
           lock # {t} =>
               Counted' \subseteq Counted /\ listed' = listed /\ entries' = entries
    PROVE  BoundInv'
<1>1. local[t].key \in Ranges
  BY DEF TypeOK, Local
<1>2. HolderInv'
  <2>1. ASSUME NEW u \in Threads
        PROVE  /\ pc'[u] # "idle" => Size[local'[u].key] <= MaxRangeBytes
               /\ lock' = {u} => pc'[u] \in Inside \cup Deleting
    <3>1. CASE u = t
      BY <3>1
    <3>2. CASE u # t
      <4>1. pc'[u] = pc[u] /\ local'[u] = local[u]
        BY <3>2
      <4>2. QED
        BY <4>1 DEF BoundInv, HolderInv
    <3>3. QED
      BY <3>1, <3>2
  <2>2. QED
    BY <2>1 DEF HolderInv, Inside, Deleting
<1>3. PruneInv'
  <2>1. ASSUME NEW u \in Threads, lock' = {u}, pc'[u] \in {"scanning"} \cup Deleting,
               NEW k \in Counted'
        PROVE  \/ k \in listed' \cup Keys' \cup undeleted'
               \/ pc'[u] = "dropdata" /\ k = local'[u].drop
    <3>1. CASE u = t
      BY <2>1, <3>1
    <3>2. CASE u # t
      <4>1. pc'[u] = pc[u] /\ local'[u] = local[u] /\ lock = {u} /\ lock # {t}
        BY <2>1, <3>2
      <4>2. /\ k \in Counted /\ listed' = listed /\ Keys' = Keys
            /\ k \in undeleted => k \in undeleted'
        BY <2>1, <4>1 DEF Keys
      <4>3. QED
        BY <2>1, <4>1, <4>2 DEF BoundInv, PruneInv
    <3>3. QED
      BY <3>1, <3>2
  <2>2. QED
    BY <2>1 DEF PruneInv, Deleting
<1>4. Counted' \subseteq Counted \cup {local[t].key}
  OBVIOUS
<1>5. Settled' \subseteq Settled
  <2>1. \A u \in lock : u \in Threads /\ local'[u].key = local[u].key
    BY DEF TypeOK
  <2>2. Counted' \subseteq Counted \/ (lock = {t} /\ local'[t].key = local[t].key)
    OBVIOUS
  <2>3. ASSUME NEW k \in Settled' PROVE k \in Settled
    <3>1. /\ k \in Counted' /\ k \notin undeleted'
          /\ ~\E u \in lock : k = local[u].key
      BY <2>1 DEF Settled, Accounted
    <3>2. k \in Counted
      BY <1>4, <2>2, <3>1
    <3>3. k \notin undeleted
      BY <3>1
    <3>4. QED
      BY <3>1, <3>2, <3>3 DEF Settled, Accounted
  <2>4. QED
    BY <2>3
<1>6. IsFiniteSet(Occupied(Keys)')
  BY DEF BoundInv, Keys, Occupied, Content
<1>7. QED
  BY <1>1, <1>2, <1>3, <1>4, <1>5, <1>6, FrameBound

\* The steps of `get' keep the bound: they only take files away.
LEMMA GetBound ==
    ASSUME TypeOK, AgeInv, BoundInv, NEW t \in Threads, Get(t)
    PROVE  BoundInv'
<1>1. pc \in [Threads -> Places] /\ local \in [Threads -> Local]
  BY DEF TypeOK
<1>2. lock # {t}
  BY DEF Get, Check, ReadData, DataMissing, Touch, BoundInv, HolderInv, Inside, Deleting
<1>3. /\ \A u \in Threads \ {t} : pc'[u] = pc[u] /\ local'[u] = local[u]
      /\ lock' = lock /\ unpruned' = unpruned /\ undeleted' = undeleted
      /\ listed' = listed /\ entries' = entries
  BY <1>1 DEF Get, Check, ReadData, DataMissing, Touch, Goto, Return, pruning, history
<1>4. Counted' \subseteq Counted
  <2>1. meta' = meta /\ \A k \in Ranges : data[k] = {} => data'[k] = {}
    <3>1. CASE Touch(t)
      BY <3>1 DEF Touch, TypeOK
    <3>2. CASE ~Touch(t)
      BY <3>2 DEF Get, Check, ReadData, DataMissing, files
    <3>3. QED
      BY <3>1, <3>2
  <2>2. QED
    BY <2>1 DEF Counted
<1>5. ASSUME pc'[t] # "idle" PROVE Size[local'[t].key] <= MaxRangeBytes
  <2>1. ASSUME NEW k \in Ranges, Check(t, k) PROVE Size[local'[t].key] <= MaxRangeBytes
    BY <1>1, <2>1 DEF Check, Cacheable, Opening
  <2>2. CASE ReadData(t) \/ DataMissing(t)
    <3>1. local'[t].key = local[t].key
      BY <1>1, <2>2 DEF ReadData, DataMissing, Opening, Local
    <3>2. pc[t] # "idle"
      BY <2>2 DEF ReadData, DataMissing
    <3>3. QED
      BY <3>1, <3>2 DEF BoundInv, HolderInv
  <2>3. CASE Touch(t)
    BY <1>1, <1>5, <2>3 DEF Touch, Return, Goto
  <2>4. QED
    BY <2>1, <2>2, <2>3 DEF Get
<1>6. QED
  BY <1>2, <1>3, <1>4, <1>5, StepBound

\* The steps of a deletion keep the bound: what is deleted no longer counts.
LEMMA DeleteBound ==
    ASSUME TypeOK, AgeInv, BoundInv, NEW t \in Threads, DeletePair(t)
    PROVE  BoundInv'
<1> USE DEF DeletePair, DropData, DropMeta, KeepData, KeepMeta
<1>1. pc \in [Threads -> Places] /\ local' = local /\ local[t].drop \in Ranges
  BY DEF TypeOK, Local
<1>2. /\ \A u \in Threads \ {t} : pc'[u] = pc[u] /\ local'[u] = local[u]
      /\ lock' = lock /\ unpruned' = unpruned /\ listed' = listed /\ entries' = entries
  BY <1>1 DEF Goto, pruning
<1>3. Counted' \subseteq Counted
  BY DEF TypeOK, Counted, files
<1>4. pc[t] # "idle" /\ Size[local[t].key] <= MaxRangeBytes
  BY DEF BoundInv, HolderInv
<1>5. IsFiniteSet(Occupied(Keys)') /\ Keys' = Keys
  BY <1>2 DEF BoundInv, Keys, Occupied, Content
<1>6. \A k \in undeleted \ undeleted' : k \notin Counted'
  <2>1. undeleted \subseteq undeleted' \/ DropData(t) \/ DropMeta(t)
    OBVIOUS
  <2>2. ASSUME DropData(t) \/ DropMeta(t)
        PROVE  undeleted' = undeleted \ {local[t].drop} /\ local[t].drop \notin Counted'
    BY <1>1, <2>2 DEF Counted, TypeOK
  <2>3. QED
    BY <2>1, <2>2
<1>7. ASSUME lock = {t}
      PROVE  /\ pc'[t] \in {"scanning", "dropmeta"}
             /\ \A k \in Counted' : k \in listed \cup Keys \cup undeleted'
  <2>1. \A k \in Counted :
            \/ k \in listed \cup Keys \cup undeleted
            \/ pc[t] = "dropdata" /\ k = local[t].drop
    BY <1>7 DEF BoundInv, PruneInv, Deleting
  <2>2. \A k \in Counted' : k \in undeleted => k \in undeleted'
    BY <1>6
  <2>3. CASE DropData(t) \/ KeepData(t)
    <3>1. pc'[t] = "dropmeta" /\ (local[t].drop \in Counted' => local[t].drop \in undeleted')
      BY <1>1, <1>7, <2>3 DEF Goto, Counted, TypeOK
    <3>2. QED
      BY <1>3, <2>1, <2>2, <3>1
  <2>4. CASE DropMeta(t) \/ KeepMeta(t)
    <3>1. pc[t] = "dropmeta" /\ pc'[t] = "scanning"
      BY <1>1, <1>7, <2>4 DEF Goto, AfterDeletion
    <3>2. QED
      BY <1>3, <2>1, <2>2, <3>1
  <2>5. QED
    BY <2>3, <2>4
<1>8. QED
  BY <1>1, <1>2, <1>3, <1>4, <1>5, <1>6, <1>7, StepBound DEF Inside, Deleting

\* The steps of a pruning keep the bound: its end forgets the interrupted
\* stores, since then what counts is in the list and the list is small enough.
LEMMA PruneBound ==
    ASSUME TypeOK, AgeInv, BoundInv, NEW t \in Threads, Prune(t)
    PROVE  BoundInv'
<1>1. pc \in [Threads -> Places] /\ local \in [Threads -> Local] /\ entries \subseteq Listing
  BY DEF TypeOK
<1>2. lock = {t} /\ pc[t] # "idle" /\ Size[local[t].key] <= MaxRangeBytes
  BY DEF Prune, List, Examine, Discard, Evict, Unlock, AgeInv, LockInv, Inside,
         BoundInv, HolderInv
<1>3. data' = data /\ meta' = meta /\ Counted' = Counted
  BY DEF Prune, List, Examine, Discard, Evict, Unlock, files, Counted
<1>4. ASSUME pc[t] = "scanning"
      PROVE  \A k \in Counted : k \in listed \cup Keys \cup undeleted
  BY <1>2, <1>4 DEF BoundInv, PruneInv
<1>5. IsFiniteSet(Occupied(Keys))
  BY DEF BoundInv
<1>6. CASE List(t)
  <2>1. /\ \A u \in Threads \ {t} : pc'[u] = pc[u] /\ local'[u] = local[u]
        /\ lock' = lock /\ unpruned' = unpruned /\ undeleted' = undeleted
        /\ pc'[t] = "scanning" /\ local'[t].key = local[t].key
    BY <1>1, <1>6 DEF List, Goto, Local, history
  <2>2. Counted' \subseteq listed'
    BY <1>3, <1>6 DEF List, Counted
  <2>3. Occupied(Keys)' = {}
    BY <1>6 DEF List, Keys, Occupied
  <2>4. IsFiniteSet(Occupied(Keys)')
    BY <2>3, FS_EmptySet
  <2>5. QED
    BY <1>2, <1>3, <2>1, <2>2, <2>4, StepBound DEF Inside
<1>7. ASSUME NEW k \in Ranges, Examine(t, k) PROVE BoundInv'
  <2>1. /\ pc' = pc /\ local' = local /\ lock' = lock /\ unpruned' = unpruned
        /\ undeleted' = undeleted /\ pc[t] = "scanning" /\ listed' = listed \ {k}
    BY <1>7 DEF Examine, threads, history
  <2>2. PICK d \in data[k] : entries' = entries \cup {[key |-> k, used |-> d.used]}
    BY <1>7 DEF Examine
  <2>3. Keys' = Keys \cup {k}
    <3>1. \A e : e \in entries' <=> e \in entries \/ e = [key |-> k, used |-> d.used]
      BY <2>2, Zenon
    <3>2. [key |-> k, used |-> d.used].key = k
      OBVIOUS
    <3>3. ASSUME NEW j PROVE j \in Keys' <=> j \in Keys \cup {k}
      BY <3>1, <3>2, Zenon DEF Keys
    <3>4. QED
      BY <3>3
  <2>4. IsFiniteSet(Occupied(Keys \cup {k}))
    BY <1>5, OneRangeMore
  <2>5. IsFiniteSet(Occupied(Keys)')
    BY <2>3, <2>4 DEF Occupied, Content
  <2>6. \A j \in Counted' : j \in listed' \cup Keys' \cup undeleted'
    BY <1>3, <1>4, <2>1, <2>3
  <2>7. QED
    BY <1>2, <1>3, <2>1, <2>5, <2>6, StepBound DEF Inside
<1>8. ASSUME NEW k \in Ranges, Discard(t, k) PROVE BoundInv'
  <2>1. /\ \A u \in Threads \ {t} : pc'[u] = pc[u] /\ local'[u] = local[u]
        /\ lock' = lock /\ unpruned' = unpruned /\ undeleted' = undeleted
        /\ entries' = entries
        /\ pc[t] = "scanning" /\ pc'[t] = "dropdata" /\ listed' = listed \ {k}
        /\ local'[t].key = local[t].key /\ local'[t].drop = k
    BY <1>1, <1>8 DEF Discard, Goto, Local, history
  <2>2. Keys' = Keys /\ IsFiniteSet(Occupied(Keys)')
    BY <1>5, <2>1 DEF Keys, Occupied, Content
  <2>3. \A j \in Counted' : j \in listed' \cup Keys' \cup undeleted' \/ j = local'[t].drop
    BY <1>3, <1>4, <2>1, <2>2
  <2>4. QED
    BY <1>2, <1>3, <2>1, <2>2, <2>3, StepBound DEF Deleting
<1>9. CASE Evict(t)
  <2>1. PICK e \in entries :
          entries' = entries \ {e} /\ local' = [local EXCEPT ![t].drop = e.key]
    BY <1>9 DEF Evict
  <2>2. /\ \A u \in Threads \ {t} : pc'[u] = pc[u] /\ local'[u] = local[u]
        /\ lock' = lock /\ unpruned' = unpruned /\ undeleted' = undeleted
        /\ listed' = listed
        /\ pc[t] = "scanning" /\ pc'[t] = "dropdata"
        /\ local'[t].key = local[t].key /\ local'[t].drop = e.key
    BY <1>1, <1>9, <2>1 DEF Evict, Goto, Local, history
  <2>3. Keys' \subseteq Keys /\ Keys \subseteq Keys' \cup {e.key}
    BY <2>1 DEF Keys
  <2>4. IsFiniteSet(Occupied(Keys'))
    BY <1>5, <2>3, FewerRanges
  <2>5. IsFiniteSet(Occupied(Keys)')
    BY <2>4 DEF Occupied, Content
  <2>6. \A j \in Counted' : j \in listed' \cup Keys' \cup undeleted' \/ j = local'[t].drop
    BY <1>3, <1>4, <2>2, <2>3
  <2>7. QED
    BY <1>2, <1>3, <2>2, <2>5, <2>6, StepBound DEF Deleting
<1>10. CASE Unlock(t)
  <2>1. /\ \A u \in Threads \ {t} : pc'[u] = pc[u] /\ local'[u] = local[u]
        /\ pc[t] = "scanning" /\ pc'[t] = "idle" /\ lock' = {} /\ unpruned' = 0
        /\ listed = {} /\ entries' = {} /\ undeleted' = undeleted \ Keys
        /\ Bytes(Keys) <= MaxBytes
    <3>1. Bytes(Keys) <= MaxBytes /\ undeleted' = undeleted \ Keys
      BY <1>10 DEF Unlock, TotalBytes, Keys
    <3>2. QED
      BY <1>1, <1>10, <3>1 DEF Unlock, Return, Goto
  <2>2. HolderInv' /\ PruneInv'
    <3>1. ASSUME NEW u \in Threads, pc'[u] # "idle"
          PROVE  Size[local'[u].key] <= MaxRangeBytes
      BY <2>1, <3>1 DEF BoundInv, HolderInv
    <3>2. QED
      BY <2>1, <3>1 DEF HolderInv, PruneInv
  <2>3. Settled' \subseteq Keys
    <3>1. ASSUME NEW k \in Settled' PROVE k \in Keys
      <4>1. k \in Counted /\ k \notin undeleted \ Keys
        BY <1>3, <2>1 DEF Settled, Accounted
      <4>2. QED
        BY <1>4, <2>1, <4>1
    <3>2. QED
      BY <3>1
  <2>4. /\ Bytes(Settled') <= Bytes(Keys)
        /\ Bytes(Settled') \in Nat /\ Bytes(Keys) \in Nat
    BY <1>5, <2>3, FewerRanges
  <2>5. Bytes(Settled)' = Bytes(Settled')
    BY DEF Bytes, Content
  <2>6. Bytes(Settled)' <= MaxBytes + unpruned' * MaxRangeBytes
    BY <2>1, <2>4, <2>5, NumbersAssumption
  <2>7. Occupied(Counted)' = Occupied(Counted) /\ Occupied(Keys)' = {}
    BY <1>3, <2>1 DEF Occupied, Content, Keys
  <2>8. IsFiniteSet(Occupied(Counted)') /\ IsFiniteSet(Occupied(Keys)')
    BY <2>7, FS_EmptySet DEF BoundInv
  <2>9. QED
    BY <2>2, <2>6, <2>8 DEF BoundInv
<1>11. QED
  BY <1>6, <1>7, <1>8, <1>9, <1>10 DEF Prune

\* While a store holds the lock, what counts exceeds the bound by one range.
LEMMA HeldBytes ==
    ASSUME TypeOK, BoundInv, NEW t \in Threads, lock = {t}
    PROVE  Bytes(Accounted) <= MaxBytes + unpruned * MaxRangeBytes + MaxRangeBytes
<1> DEFINE key == local[t].key
<1>1. key \in Ranges
  BY DEF TypeOK, Local
<1>2. Settled = Accounted \ {key} /\ Settled \subseteq Counted
  BY DEF Settled, Accounted
<1>3. pc[t] # "idle" /\ Size[key] <= MaxRangeBytes /\ Size[key] \in Nat
  BY <1>1, SizeAssumption DEF BoundInv, HolderInv, Inside, Deleting
<1>4. IsFiniteSet(Occupied(Settled)) /\ Bytes(Settled) \in Nat
  BY <1>2, FewerRanges DEF BoundInv
<1>5. IsFiniteSet(Occupied(Settled \cup {key}))
      /\ Bytes(Settled \cup {key}) <= Bytes(Settled) + Size[key]
  BY <1>1, <1>4, OneRangeMore
<1>6. Bytes(Accounted) <= Bytes(Settled \cup {key})
      /\ Bytes(Accounted) \in Nat /\ Bytes(Settled \cup {key}) \in Nat
  BY <1>2, <1>5, FewerRanges, Accounted \subseteq Settled \cup {key}
<1>7. Bytes(Settled) <= MaxBytes + unpruned * MaxRangeBytes
      /\ MaxBytes + unpruned * MaxRangeBytes \in Nat
  BY NumbersAssumption DEF BoundInv, TypeOK
<1>8. QED
  BY <1>3, <1>4, <1>5, <1>6, <1>7, NumbersAssumption

\* What counts is bounded, with the lock and without.
LEMMA CountedBytes ==
    ASSUME TypeOK, BoundInv
    PROVE  Bytes(Accounted) <= MaxBytes + (unpruned + Cardinality(lock)) * MaxRangeBytes
<1>1. CASE lock = {}
  <2>1. Cardinality(lock) = 0 /\ Settled = Accounted
    BY <1>1, FS_EmptySet DEF Settled
  <2>2. unpruned + Cardinality(lock) = unpruned
    BY <2>1 DEF TypeOK
  <2>3. QED
    BY <2>1, <2>2 DEF BoundInv
<1>2. ASSUME NEW t \in Threads, lock = {t}
      PROVE  Bytes(Accounted) <= MaxBytes + (unpruned + Cardinality(lock)) * MaxRangeBytes
  <2>1. Cardinality(lock) = 1
    BY <1>2, FS_Singleton
  <2>2. (unpruned + 1) * MaxRangeBytes = unpruned * MaxRangeBytes + MaxRangeBytes
        /\ unpruned * MaxRangeBytes \in Nat
    BY NumbersAssumption DEF TypeOK
  <2>3. MaxBytes + (unpruned + 1) * MaxRangeBytes
           = MaxBytes + unpruned * MaxRangeBytes + MaxRangeBytes
    BY <2>2, NumbersAssumption
  <2>4. Bytes(Accounted) <= MaxBytes + unpruned * MaxRangeBytes + MaxRangeBytes
    BY <1>2, HeldBytes
  <2>5. QED
    BY <2>1, <2>3, <2>4
<1>3. QED
  BY <1>1, <1>2 DEF TypeOK

\* The steps of a miss and of a store keep the bound: until it has pruned, or
\* has failed, a store is allowed its own range.
LEMMA StoreBound ==
    ASSUME TypeOK, AgeInv, BoundInv, NEW t \in Threads, Store(t)
    PROVE  BoundInv'
<1> DEFINE key == local[t].key
<1>1. /\ pc \in [Threads -> Places] /\ local \in [Threads -> Local] /\ key \in Ranges
      /\ pc[t] # "idle" /\ Size[key] <= MaxRangeBytes
  BY DEF TypeOK, Local, Store, ImmichServes, ImmichFails, CallSet, Lock, WriteDataTmp,
         WriteMetaTmp, ReplaceData, ReplaceMeta, StoreFails, BoundInv, HolderInv
<1>2. IsFiniteSet(Occupied(Keys)) /\ IsFiniteSet(Occupied(Counted))
  BY DEF BoundInv
<1>3. CASE ImmichServes(t) \/ ImmichFails(t) \/ CallSet(t)
  <2>1. /\ \A u \in Threads \ {t} : pc'[u] = pc[u] /\ local'[u] = local[u]
        /\ lock' = lock /\ unpruned' = unpruned /\ undeleted' = undeleted
        /\ listed' = listed /\ entries' = entries
        /\ pc'[t] = "idle" \/ local'[t].key = local[t].key
        /\ pc[t] \notin Inside \cup Deleting
    BY <1>1, <1>3 DEF ImmichServes, ImmichFails, CallSet, Goto, Return, pruning, history,
                      Local, Inside, Deleting
  <2>2. lock # {t}
    BY <2>1 DEF BoundInv, HolderInv
  <2>3. Counted' = Counted
    BY <1>3 DEF ImmichServes, ImmichFails, CallSet, files, Counted
  <2>4. QED
    BY <1>1, <2>1, <2>2, <2>3, StepBound
<1>4. CASE Lock(t)
  <2>1. /\ \A u \in Threads \ {t} : pc'[u] = pc[u] /\ local' = local
        /\ lock = {} /\ lock' = {t} /\ pc'[t] = "locked" /\ unpruned' = unpruned
        /\ undeleted' = undeleted
    BY <1>1, <1>4 DEF Lock, Goto, history
  <2>2. Counted' = Counted /\ Keys' = Keys
    BY <1>4 DEF Lock, files, pruning, Counted, Keys
  <2>3. HolderInv'
    <3>1. ASSUME NEW u \in Threads
          PROVE  /\ pc'[u] # "idle" => Size[local'[u].key] <= MaxRangeBytes
                 /\ lock' = {u} => pc'[u] \in Inside \cup Deleting
      <4>1. local' = local
        BY <1>4 DEF Lock
      <4>2. CASE u = t
        BY <1>1, <2>1, <4>1, <4>2 DEF Inside
      <4>3. CASE u # t
        BY <2>1, <4>1, <4>3 DEF BoundInv, HolderInv
      <4>4. QED
        BY <4>2, <4>3
    <3>2. QED
      BY <3>1 DEF HolderInv, Inside, Deleting
  <2>4. PruneInv'
    BY <2>1 DEF PruneInv, Deleting
  <2>5. Settled' \subseteq Settled
    BY <2>1, <2>2 DEF Settled, Accounted
  <2>6. IsFiniteSet(Occupied(Keys)')
    BY <1>2, <2>2 DEF Occupied, Content
  <2>7. QED
    BY <1>1, <2>1, <2>2, <2>3, <2>4, <2>5, <2>6, FrameBound
<1>5. CASE WriteDataTmp(t) \/ WriteMetaTmp(t) \/ ReplaceData(t) \/ ReplaceMeta(t)
  <2>1. /\ \A u \in Threads \ {t} : pc'[u] = pc[u] /\ local'[u] = local[u]
        /\ lock' = lock /\ unpruned' = unpruned /\ listed' = listed /\ entries' = entries
        /\ pc'[t] \in {"wrote", "ready", "halfway", "replaced"} /\ local' = local
        /\ undeleted' = undeleted \/ undeleted' = undeleted \ {key}
    BY <1>1, <1>5 DEF WriteDataTmp, WriteMetaTmp, ReplaceData, ReplaceMeta, Goto, pruning,
                      history
  <2>2. lock = {t}
    BY <1>5 DEF WriteDataTmp, WriteMetaTmp, ReplaceData, ReplaceMeta, AgeInv, LockInv, Inside
  <2>3. \A k \in Ranges \ {key} : data'[k] = data[k] /\ meta'[k] = meta[k]
    BY <1>5 DEF WriteDataTmp, WriteMetaTmp, ReplaceData, ReplaceMeta, TypeOK
  <2>4. Counted' \subseteq Counted \cup {key}
    BY <2>3 DEF Counted
  <2>5. IsFiniteSet(Occupied(Keys)')
    BY <1>2, <2>1 DEF Occupied, Content, Keys
  <2>6. pc'[t] \in Inside /\ pc'[t] \notin {"scanning"} \cup Deleting
    BY <2>1 DEF Inside, Deleting
  <2>7. QED
    BY <1>1, <2>1, <2>2, <2>4, <2>5, <2>6, StepBound
<1>6. CASE StoreFails(t)
  <2>1. /\ \A u \in Threads \ {t} : pc'[u] = pc[u] /\ local'[u] = local[u]
        /\ pc'[t] = "idle" /\ lock' = {} /\ unpruned' = unpruned + 1 /\ entries' = {}
    BY <1>1, <1>6 DEF StoreFails, Return, Goto
  <2>2. Counted' = Counted /\ undeleted' = undeleted
    BY <1>6 DEF StoreFails, Counted
  <2>3. lock = {t}
    BY <1>6 DEF StoreFails, AgeInv, LockInv, Inside
  <2>4. HolderInv' /\ PruneInv'
    <3>1. ASSUME NEW u \in Threads, pc'[u] # "idle"
          PROVE  Size[local'[u].key] <= MaxRangeBytes
      BY <2>1, <3>1 DEF BoundInv, HolderInv
    <3>2. QED
      BY <2>1, <3>1 DEF HolderInv, PruneInv
  <2>5. Bytes(Accounted) <= MaxBytes + unpruned' * MaxRangeBytes
    <3>1. MaxBytes + unpruned * MaxRangeBytes + MaxRangeBytes
             = MaxBytes + unpruned' * MaxRangeBytes
      BY <2>1, NumbersAssumption DEF TypeOK
    <3>2. Bytes(Accounted) <= MaxBytes + unpruned * MaxRangeBytes + MaxRangeBytes
      BY <1>1, <2>3, HeldBytes
    <3>3. QED
      BY <3>1, <3>2
  <2>6. Settled' = Accounted
    BY <2>1, <2>2 DEF Settled, Accounted
  <2>7. Bytes(Settled)' = Bytes(Accounted)
    BY <2>6 DEF Bytes, Content
  <2>8. Occupied(Counted)' = Occupied(Counted) /\ Occupied(Keys)' = {}
    BY <2>1, <2>2 DEF Occupied, Content, Keys
  <2>9. QED
    BY <1>2, <2>4, <2>5, <2>7, <2>8, FS_EmptySet DEF BoundInv
<1>7. QED
  BY <1>3, <1>4, <1>5, <1>6 DEF Store

\* The ranges that count, but for those that a pruning could not delete, fit
\* into the cache and one range for each store that was interrupted since the
\* last full pruning and one for the store that holds the lock, for every size
\* of the cache and of its ranges.
THEOREM CacheIsBounded == Spec => []CountedBytesAreBounded
<1>1. Init => BoundInv
  <2> SUFFICES ASSUME Init PROVE BoundInv
    OBVIOUS
  <2>1. HolderInv /\ PruneInv
    BY DEF Init, HolderInv, PruneInv
  <2>2. Counted = {} /\ Settled = {} /\ Occupied(Counted) = {} /\ Occupied(Keys) = {}
    BY DEF Init, NoFiles, Counted, Accounted, Settled, Occupied, Keys
  <2>3. Bytes(Settled) = 0
    BY <2>2, FS_EmptySet DEF Bytes
  <2>4. Bytes(Settled) <= MaxBytes + unpruned * MaxRangeBytes
    BY <2>3, NumbersAssumption DEF Init
  <2>5. QED
    BY <2>1, <2>2, <2>4, FS_EmptySet DEF BoundInv
<1>2. TypeOK /\ AgeInv /\ BoundInv /\ [Next]_vars => BoundInv'
  <2> SUFFICES ASSUME TypeOK, AgeInv, BoundInv, [Next]_vars PROVE BoundInv'
    OBVIOUS
  <2>1. ASSUME NEW t \in Threads, Get(t) \/ DeletePair(t) \/ Store(t) \/ Prune(t)
        PROVE  BoundInv'
    BY <2>1, GetBound, DeleteBound, StoreBound, PruneBound
  <2>2. CASE Restart
    <3>1. /\ \A t \in Threads : pc'[t] = "idle"
          /\ lock' = {} /\ entries' = {} /\ unpruned' = unpruned + Cardinality(lock)
      BY <2>2 DEF Restart
    <3>2. Counted' = Counted /\ undeleted' = undeleted /\ HolderInv' /\ PruneInv'
      BY <2>2, <3>1 DEF Restart, files, Counted, HolderInv, PruneInv
    <3>3. Bytes(Accounted) <= MaxBytes + (unpruned + Cardinality(lock)) * MaxRangeBytes
      BY CountedBytes
    <3>4. Settled' = Accounted
      BY <3>1, <3>2 DEF Settled, Accounted
    <3>5. Bytes(Settled)' = Bytes(Accounted)
      BY <3>4 DEF Bytes, Content
    <3>6. Occupied(Counted)' = Occupied(Counted) /\ Occupied(Keys)' = {}
      BY <3>1, <3>2 DEF Occupied, Content, Keys
    <3>7. QED
      BY <3>1, <3>2, <3>3, <3>5, <3>6, FS_EmptySet DEF BoundInv
  <2>3. CASE Tick \/ UNCHANGED vars
    <3>1. UNCHANGED <<files, threads, lock, pruning, unpruned, undeleted>>
      BY <2>3 DEF Tick, vars, history
    <3>2. Counted' = Counted /\ Settled' = Settled /\ Keys' = Keys
      BY <3>1 DEF files, threads, pruning, Counted, Accounted, Settled, Keys
    <3>3. /\ Occupied(Counted)' = Occupied(Counted) /\ Occupied(Keys)' = Occupied(Keys)
          /\ Bytes(Settled)' = Bytes(Settled)
      BY <3>2 DEF Occupied, Bytes, Content
    <3>4. HolderInv' /\ PruneInv'
      BY <3>1, <3>2 DEF threads, pruning, BoundInv, HolderInv, PruneInv
    <3>5. QED
      BY <3>1, <3>3, <3>4 DEF BoundInv
  <2>4. QED
    BY <2>1, <2>2, <2>3 DEF Next
<1>3. TypeOK /\ BoundInv => CountedBytesAreBounded
  BY CountedBytes DEF CountedBytesAreBounded, Accounted
<1>4. QED
  BY <1>1, <1>2, <1>3, TypeCorrect, AgesHold, PTL DEF Spec
================================================================================
