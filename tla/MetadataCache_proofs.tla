------------------------ MODULE MetadataCache_proofs ------------------------
(***************************************************************************)
(* Proofs about MetadataCache for any number of keys, readers, writers,    *)
(* versions and ticks, and both cache backends.                            *)
(***************************************************************************)
EXTENDS MetadataCache, TLAPS

(***************************************************************************)
(* Lemmas about the lifetimes and the two facade operators.                *)
(***************************************************************************)

\* Every copy has a lifetime.
LEMMA LifetimeType == \A s \in Slots : Lifetime(s) \in Nat
<1>1. \A k \in Keys : TTL[k] \in Nat /\ TTL[k] * StaleFactor \in Nat
  BY NumbersAssumption
<1>2. QED
  BY <1>1, NumbersAssumption DEF Lifetime, StaleTTL, Slots

\* The stale copy of a key lives at least as long as the fresh one (StaleTTL
\* is a maximum).
LEMMA StaleOutlivesFresh ==
  ASSUME NEW k \in Keys
  PROVE  /\ Fresh(k) \in Slots /\ Stale(k) \in Slots
         /\ Lifetime(Fresh(k)) <= Lifetime(Stale(k))
<1>1. \A m, n \in Nat : n # 0 => m * n \in Nat /\ m <= m * n
  OBVIOUS
<1>2. TTL[k] <= StaleTTL(k)
  BY <1>1, NumbersAssumption DEF StaleTTL
<1>3. QED
  BY <1>2 DEF Fresh, Stale, Slots, Lifetime

\* Both copies of a key have a slot.
LEMMA SlotsOfKeys == \A k \in Keys : Fresh(k) \in Slots /\ Stale(k) \in Slots
BY DEF Fresh, Stale, Slots

\* The states in which threads start are well-typed.
LEMMA IdleTypes == IdleReader \in Reading /\ IdleWriter \in Writing
<1>1. (CHOOSE k \in Keys : TRUE) \in Keys
  BY KeysAssumption
<1>2. IdleReader \in Reading
  BY <1>1 DEF IdleReader, Reading
<1>3. IdleWriter \in Writing
  BY NumbersAssumption DEF IdleWriter, Writing, Kinds
<1>4. QED
  BY <1>2, <1>3

\* What set_json leaves in a slot is a set of well-typed entries.
LEMMA SetJsonType ==
  ASSUME TypeOK, NEW s \in Slots, NEW v \in Nat, NEW held \in SetJson(s, v)
  PROVE  held \in SUBSET Entry
<1>1. now + Lifetime(s) \in Nat
  BY LifetimeType DEF TypeOK
<1>2. Current \in Nat
  BY DEF TypeOK, Current
<1>3. [value |-> v, expires |-> now + Lifetime(s), late |-> v < Current] \in Entry
  BY <1>1, <1>2 DEF Entry
<1>4. QED
  BY <1>3 DEF SetJson, TypeOK

(***************************************************************************)
(* Type correctness.                                                       *)
(***************************************************************************)

\* The steps of ImmichClient._cached keep the types.
LEMMA ReadStepType ==
  ASSUME TypeOK, NEW r \in Readers, ReadStep(r)
  PROVE  TypeOK'
<1>. USE DEF TypeOK
<1>1. ASSUME NEW k \in Keys, Hit(r, k) PROVE TypeOK'
  <2>1. PICK e \in Unexpired(Fresh(k)) : reader' = [reader EXCEPT ![r] =
             [pc |-> "done", key |-> k, value |-> e.value, quality |-> "normal"]]
    BY <1>1 DEF Hit
  <2>2. e \in Entry
    BY SlotsOfKeys DEF Unexpired
  <2>3. [pc |-> "done", key |-> k, value |-> e.value, quality |-> "normal"] \in Answered
    BY <2>2 DEF Answered, Entry
  <2>4. QED
    BY <1>1, <2>1, <2>3 DEF Hit
<1>2. ASSUME NEW k \in Keys, Miss(r, k) PROVE TypeOK'
  <2>1. [pc |-> "loading", key |-> k] \in Reading
    BY DEF Reading
  <2>2. Unexpired(Fresh(k)) \in SUBSET Entry
    BY SlotsOfKeys DEF Unexpired
  <2>3. QED
    BY <1>2, <2>1, <2>2 DEF Miss
<1>3. CASE ImmichAnswers(r)
  <2>1. reader[r].key \in Keys
    BY <1>3 DEF ImmichAnswers, Reading, Holding, Answered
  <2>2. [pc |-> "loaded", key |-> reader[r].key, value |-> Current, since |-> now]
            \in Holding
    BY <2>1 DEF Holding, Current
  <2>3. QED
    BY <1>3, <2>2 DEF ImmichAnswers
<1>4. CASE ImmichFails(r)
  <2>1. reader[r].key \in Keys
    BY <1>4 DEF ImmichFails, Reading, Holding, Answered
  <2>2. [pc |-> "failed", key |-> reader[r].key] \in Reading
    BY <2>1 DEF Reading
  <2>3. QED
    BY <1>4, <2>2 DEF ImmichFails
<1>5. CASE StoreFresh(r)
  <2>1. reader[r] \in Holding
    BY <1>5 DEF StoreFresh, Reading, Holding, Answered
  <2>2. PICK held \in SetJson(Fresh(reader[r].key), reader[r].value) :
           cache' = [cache EXCEPT ![Fresh(reader[r].key)] = held]
    BY <1>5 DEF StoreFresh
  <2>3. held \in SUBSET Entry
    BY <2>1, SetJsonType, SlotsOfKeys DEF Holding
  <2>4. [reader[r] EXCEPT !.pc = "stored"] \in Holding
    BY <2>1 DEF Holding
  <2>5. reader' \in [Readers -> Reading \cup Holding \cup Answered]
    BY <1>5, <2>4 DEF StoreFresh
  <2>6. QED
    BY <1>5, <2>2, <2>3, <2>5 DEF StoreFresh
<1>6. CASE StoreStale(r)
  <2>1. reader[r] \in Holding
    BY <1>6 DEF StoreStale, Reading, Holding, Answered
  <2>2. PICK held \in SetJson(Stale(reader[r].key), reader[r].value) :
           cache' = [cache EXCEPT ![Stale(reader[r].key)] = held]
    BY <1>6 DEF StoreStale
  <2>3. held \in SUBSET Entry
    BY <2>1, SetJsonType, SlotsOfKeys DEF Holding
  <2>4. [pc |-> "done", key |-> reader[r].key, value |-> reader[r].value,
         quality |-> "normal"] \in Answered
    BY <2>1 DEF Holding, Answered
  <2>5. QED
    BY <1>6, <2>2, <2>3, <2>4 DEF StoreStale
<1>7. CASE StaleHit(r)
  <2>1. reader[r].key \in Keys
    BY <1>7 DEF StaleHit, Reading, Holding, Answered
  <2>2. PICK e \in Unexpired(Stale(reader[r].key)) : reader' = [reader EXCEPT ![r] =
             [pc |-> "done", key |-> reader[r].key, value |-> e.value, quality |-> "degraded"]]
    BY <1>7 DEF StaleHit
  <2>3. e \in Entry
    BY <2>1, SlotsOfKeys DEF Unexpired
  <2>4. [pc |-> "done", key |-> reader[r].key, value |-> e.value, quality |-> "degraded"]
            \in Answered
    BY <2>1, <2>3 DEF Answered, Entry
  <2>5. QED
    BY <1>7, <2>2, <2>4 DEF StaleHit
<1>8. CASE StaleMiss(r)
  <2>1. reader[r].key \in Keys
    BY <1>8 DEF StaleMiss, Reading, Holding, Answered
  <2>2. Unexpired(Stale(reader[r].key)) \in SUBSET Entry
    BY <2>1, SlotsOfKeys DEF Unexpired
  <2>3. QED
    BY <1>8, <2>2, IdleTypes DEF StaleMiss
<1>9. CASE Deliver(r)
  BY <1>9, IdleTypes DEF Deliver
<1>10. QED
  BY <1>1, <1>2, <1>3, <1>4, <1>5, <1>6, <1>7, <1>8, <1>9 DEF ReadStep

\* The steps of a write and of its invalidation keep the types.
LEMMA WriteStepType ==
  ASSUME TypeOK, NEW w \in Writers, WriteStep(w)
  PROVE  TypeOK'
<1>. USE DEF TypeOK
<1>2. ASSUME NEW kind \in Kinds, StartWrite(w, kind) PROVE TypeOK'
  <2>1. [IdleWriter EXCEPT !.pc = "sent", !.kind = kind] \in Writing
    BY IdleTypes DEF Writing
  <2>2. QED
    BY <1>2, <2>1 DEF StartWrite
<1>3. CASE ImmichApplies(w)
  <2>1. Current \in Nat /\ Current + 1 \in Nat
    BY DEF Current
  <2>2. writes' \in Seq(Nat)
    BY <1>3 DEF ImmichApplies
  <2>3. writer' \in [Writers -> Writing]
    BY <1>3, <2>1 DEF ImmichApplies, Writing
  <2>4. QED
    BY <1>3, <2>2, <2>3 DEF ImmichApplies
<1>4. CASE RetryWrite(w)
  <2>1. writer[w].attempt \in 1..MaxAttempts
    BY DEF Writing
  <2>2. writer[w].attempt + 1 \in 1..MaxAttempts
    BY <1>4, <2>1, NumbersAssumption DEF RetryWrite
  <2>3. QED
    BY <1>4, <2>2 DEF RetryWrite, Writing
<1>5. CASE GiveUpWrite(w)
  BY <1>5, IdleTypes DEF GiveUpWrite
<1>6. CASE WriteSucceeds(w)
  BY <1>6 DEF WriteSucceeds, Writing
<1>7. ASSUME Invalidated(w)
      PROVE  writer' \in [Writers -> Writing] /\ barrier' \in Nat
  BY <1>7, IdleTypes DEF Invalidated, Writing
<1>8. CASE InvalidateAll(w)
  BY <1>7, <1>8 DEF InvalidateAll
<1>9. CASE InvalidateNext(w)
  <2>1. PICK s \in writer[w].todo :
           /\ cache' = [cache EXCEPT ![s] = {}]
           /\ IF writer[w].todo = {s}
              THEN Invalidated(w)
              ELSE /\ writer' = [writer EXCEPT ![w].todo = @ \ {s}]
                   /\ UNCHANGED barrier
    BY <1>9 DEF InvalidateNext
  <2>2. writer' \in [Writers -> Writing] /\ barrier' \in Nat
    <3>1. CASE writer[w].todo = {s}
      BY <1>7, <2>1, <3>1
    <3>2. CASE writer[w].todo # {s}
      <4>1. writer' = [writer EXCEPT ![w].todo = @ \ {s}] /\ barrier' = barrier
        BY <2>1, <3>2
      <4>2. writer[w].todo \ {s} \in SUBSET Slots
        BY DEF Writing
      <4>3. QED
        BY <4>1, <4>2 DEF Writing
    <3>3. QED
      BY <3>1, <3>2
  <2>3. cache' \in [Slots -> SUBSET Entry]
    BY <2>1
  <2>4. QED
    BY <1>9, <2>2, <2>3 DEF InvalidateNext
<1>10. CASE InvalidateFails(w)
  BY <1>10, IdleTypes DEF InvalidateFails
<1>11. QED
  BY <1>2, <1>3, <1>4, <1>5, <1>6, <1>8, <1>9, <1>10 DEF WriteStep

\* Every variable keeps its type, whatever the backend and the bounds.
THEOREM TypeCorrect == Spec => []TypeOK
<1>1. Init => TypeOK
  BY IdleTypes DEF Init, TypeOK
<1>2. TypeOK /\ [Next]_vars => TypeOK'
  <2>. SUFFICES ASSUME TypeOK, [Next]_vars PROVE TypeOK'
    OBVIOUS
  <2>1. ASSUME NEW r \in Readers, ReadStep(r) PROVE TypeOK'
    BY <2>1, ReadStepType
  <2>2. ASSUME NEW w \in Writers, WriteStep(w) PROVE TypeOK'
    BY <2>2, WriteStepType
  <2>3. CASE OtherChange
    BY <2>3 DEF OtherChange, TypeOK
  <2>4. CASE Restart
    BY <2>4, IdleTypes DEF Restart, TypeOK
  <2>5. CASE Tick
    BY <2>5 DEF Tick, TypeOK
  <2>6. CASE UNCHANGED vars
    BY <2>6 DEF vars, TypeOK
  <2>7. QED
    BY <2>1, <2>2, <2>3, <2>4, <2>5, <2>6 DEF Next
<1>3. QED
  BY <1>1, <1>2, PTL DEF Spec

(***************************************************************************)
(* The age of what is cached and of what is about to be.                   *)
(***************************************************************************)

\* A thread between Immich's answer and its second store holds a key, a
\* version and the time of the answer.
LEMMA HoldingType ==
  ASSUME TypeOK, NEW r \in Readers, reader[r].pc \in {"loaded", "stored"}
  PROVE  /\ reader[r] \in Holding
         /\ reader[r].key \in Keys /\ reader[r].value \in Nat /\ reader[r].since \in Nat
BY DEF TypeOK, Reading, Holding, Answered

\* Dropping entries makes nothing older.
LEMMA FewerEntriesAge ==
  ASSUME TypeOK, AgeInv, UNCHANGED <<now, writes>>,
         \A s \in Slots : cache'[s] \subseteq cache[s]
  PROVE  \A s \in Slots : SlotAge(s)'
BY DEF AgeInv, SlotAge, Current

\* Neither does what a thread holding an answer of Immich stores.
LEMMA StoredEntryAge ==
  ASSUME TypeOK, AgeInv, UNCHANGED <<now, writes>>,
         NEW r \in Readers, reader[r].pc \in {"loaded", "stored"},
         NEW s \in Slots, NEW held \in SetJson(s, reader[r].value),
         cache' = [cache EXCEPT ![s] = held]
  PROVE  \A t \in Slots : SlotAge(t)'
<1>1. ASSUME NEW e \in held
      PROVE  /\ e.value <= Current
             /\ e.expires <= now + Lifetime(s)
             /\ e.value < Current =>
                   e.expires <= writes[e.value + 1] + StoreDelay + Lifetime(s)
  <2>1. CASE e \in cache[s]
    BY <2>1 DEF AgeInv, SlotAge
  <2>2. CASE e \notin cache[s]
    <3>1. e = [value |-> reader[r].value, expires |-> now + Lifetime(s),
               late |-> reader[r].value < Current]
      BY <1>1, <2>2 DEF SetJson
    <3>2. HoldingAge(r)
      BY DEF AgeInv
    <3>3. Current \in Nat /\ now \in Nat /\ Lifetime(s) \in Nat /\ StoreDelay \in Nat
      BY LifetimeType, NumbersAssumption DEF TypeOK, Current
    <3>4. reader[r].value < Current => writes[reader[r].value + 1] \in Nat
      BY HoldingType DEF TypeOK, Current
    <3>5. QED
      BY <3>1, <3>2, <3>3, <3>4, HoldingType DEF HoldingAge
  <2>3. QED
    BY <2>1, <2>2
<1>2. ASSUME NEW t \in Slots PROVE SlotAge(t)'
  <2>1. CASE t = s
    BY <1>1, <2>1 DEF SlotAge, Current, TypeOK
  <2>2. CASE t # s
    BY <2>2 DEF SlotAge, Current, TypeOK, AgeInv
  <2>3. QED
    BY <2>1, <2>2
<1>3. QED
  BY <1>2

\* The steps of ImmichClient._cached keep the ages in bounds.
LEMMA ReadStepAge ==
  ASSUME TypeOK, AgeInv, NEW r \in Readers, ReadStep(r)
  PROVE  AgeInv'
<1>. /\ UNCHANGED <<now, writes>>
     /\ \A q \in Readers : HoldingAge(q)
  BY DEF ReadStep, Hit, Miss, ImmichAnswers, ImmichFails, StoreFresh, StoreStale,
         StaleHit, StaleMiss, Deliver, AgeInv
<1>1. ASSUME NEW new, reader' = [reader EXCEPT ![r] = new],
             new.pc \notin {"loaded", "stored"}
      PROVE  \A q \in Readers : HoldingAge(q)'
  BY <1>1 DEF HoldingAge, Current, TypeOK
<1>2. ASSUME NEW k \in Keys, Hit(r, k) PROVE AgeInv'
  BY <1>1, <1>2, FewerEntriesAge DEF Hit, AgeInv
<1>3. ASSUME NEW k \in Keys, Miss(r, k) PROVE AgeInv'
  <2>1. \A s \in Slots : cache'[s] \subseteq cache[s]
    BY <1>3, SlotsOfKeys DEF Miss, Unexpired, TypeOK
  <2>2. QED
    BY <1>1, <1>3, <2>1, FewerEntriesAge DEF Miss, AgeInv
<1>4. CASE ImmichAnswers(r)
  <2>1. \A q \in Readers : HoldingAge(q)'
    <3>1. now <= now + StoreDelay
      BY NumbersAssumption DEF TypeOK
    <3>2. Current \in Nat /\ now \in Nat
      BY DEF TypeOK, Current
    <3>3. QED
      BY <1>4, <3>1, <3>2 DEF ImmichAnswers, HoldingAge, Current, TypeOK
  <2>2. QED
    BY <1>4, <2>1, FewerEntriesAge DEF ImmichAnswers, AgeInv
<1>5. CASE ImmichFails(r)
  BY <1>1, <1>5, FewerEntriesAge DEF ImmichFails, AgeInv
<1>6. CASE StoreFresh(r)
  <2>1. \A s \in Slots : SlotAge(s)'
    BY <1>6, HoldingType, SlotsOfKeys, StoredEntryAge DEF StoreFresh
  <2>2. \A q \in Readers : HoldingAge(q)'
    BY <1>6, HoldingType DEF StoreFresh, HoldingAge, Current, TypeOK, Holding
  <2>3. QED
    BY <2>1, <2>2 DEF AgeInv
<1>7. CASE StoreStale(r)
  <2>1. \A s \in Slots : SlotAge(s)'
    BY <1>7, HoldingType, SlotsOfKeys, StoredEntryAge DEF StoreStale
  <2>2. QED
    BY <1>1, <1>7, <2>1 DEF StoreStale, AgeInv
<1>8. CASE StaleHit(r)
  BY <1>1, <1>8, FewerEntriesAge DEF StaleHit, AgeInv
<1>9. CASE StaleMiss(r)
  <2>1. \A s \in Slots : cache'[s] \subseteq cache[s]
    BY <1>9 DEF StaleMiss, Unexpired, TypeOK
  <2>2. QED
    BY <1>1, <1>9, <2>1, FewerEntriesAge DEF StaleMiss, IdleReader, AgeInv
<1>10. CASE Deliver(r)
  BY <1>1, <1>10, FewerEntriesAge DEF Deliver, IdleReader, AgeInv
<1>11. QED
  BY <1>2, <1>3, <1>4, <1>5, <1>6, <1>7, <1>8, <1>9, <1>10 DEF ReadStep

\* A change of the library supersedes what was current until now.
LEMMA ChangeAge ==
  ASSUME TypeOK, AgeInv, writes' = Append(writes, now), UNCHANGED <<now, cache, reader>>
  PROVE  AgeInv'
<1>1. /\ Current \in Nat /\ now \in Nat /\ StoreDelay \in Nat
      /\ Current' = Current + 1
      /\ writes'[Current + 1] = now
      /\ \A i \in 1..Current : writes'[i] = writes[i] /\ writes[i] \in Nat
  BY NumbersAssumption DEF TypeOK, Current
<1>2. ASSUME NEW s \in Slots PROVE SlotAge(s)'
  <2>. SUFFICES ASSUME NEW e \in cache[s]
                PROVE  /\ e.value <= Current'
                       /\ e.expires <= now + Lifetime(s)
                       /\ e.value < Current' =>
                            e.expires <= writes'[e.value + 1] + StoreDelay + Lifetime(s)
    BY DEF SlotAge
  <2>1. e.value \in Nat /\ e.expires \in Nat /\ Lifetime(s) \in Nat
    BY LifetimeType DEF TypeOK, Entry
  <2>2. /\ e.value <= Current
        /\ e.expires <= now + Lifetime(s)
        /\ e.value < Current =>
             e.expires <= writes[e.value + 1] + StoreDelay + Lifetime(s)
    BY DEF AgeInv, SlotAge
  <2>3. CASE e.value < Current
    <3>1. e.value + 1 \in 1..Current
      BY <1>1, <2>1, <2>3
    <3>2. writes'[e.value + 1] = writes[e.value + 1]
      BY <1>1, <3>1
    <3>3. e.value <= Current'
      BY <1>1, <2>1, <2>3
    <3>4. QED
      BY <2>2, <2>3, <3>2, <3>3
  <2>4. CASE e.value = Current
    <3>1. writes'[e.value + 1] = now
      BY <1>1, <2>4
    <3>2. e.expires <= now + StoreDelay + Lifetime(s)
      BY <1>1, <2>1, <2>2
    <3>3. e.value <= Current'
      BY <1>1, <2>4
    <3>4. QED
      BY <2>2, <3>1, <3>2, <3>3
  <2>5. e.value < Current \/ e.value = Current
    BY <1>1, <2>1, <2>2
  <2>6. QED
    BY <2>3, <2>4, <2>5
<1>3. ASSUME NEW r \in Readers PROVE HoldingAge(r)'
  <2>. SUFFICES ASSUME reader[r].pc \in {"loaded", "stored"}
                PROVE  /\ reader[r].value <= Current'
                       /\ reader[r].since <= now
                       /\ now <= reader[r].since + StoreDelay
                       /\ reader[r].value < Current' =>
                            reader[r].since <= writes'[reader[r].value + 1]
    BY DEF HoldingAge
  <2>1. HoldingAge(r)
    BY DEF AgeInv
  <2>2. reader[r].value \in Nat /\ reader[r].value <= Current
    BY <2>1, HoldingType DEF HoldingAge
  <2>3. CASE reader[r].value < Current
    <3>1. reader[r].value + 1 \in 1..Current
      BY <1>1, <2>2, <2>3
    <3>2. writes'[reader[r].value + 1] = writes[reader[r].value + 1]
      BY <1>1, <3>1
    <3>3. reader[r].value <= Current'
      BY <1>1, <2>2
    <3>4. QED
      BY <2>1, <2>3, <3>2, <3>3 DEF HoldingAge
  <2>4. CASE reader[r].value = Current
    <3>1. writes'[reader[r].value + 1] = now
      BY <1>1, <2>4
    <3>2. reader[r].value <= Current'
      BY <1>1, <2>4
    <3>3. QED
      BY <2>1, <3>1, <3>2 DEF HoldingAge
  <2>5. reader[r].value < Current \/ reader[r].value = Current
    BY <1>1, <2>2
  <2>6. QED
    BY <2>3, <2>4, <2>5
<1>4. QED
  BY <1>2, <1>3 DEF AgeInv

\* In every reachable state the age of what is cached, held or answered is
\* in bounds.
LEMMA AgeInvariant == Spec => []AgeInv
<1>1. Init => AgeInv
  <2>. SUFFICES ASSUME Init PROVE AgeInv
    OBVIOUS
  <2>1. \A s \in Slots : SlotAge(s)
    BY DEF Init, SlotAge
  <2>2. \A r \in Readers : HoldingAge(r)
    BY DEF Init, HoldingAge, IdleReader
  <2>3. QED
    BY <2>1, <2>2 DEF AgeInv
<1>2. TypeOK /\ AgeInv /\ [Next]_vars => AgeInv'
  <2>. SUFFICES ASSUME TypeOK, AgeInv, [Next]_vars PROVE AgeInv'
    OBVIOUS
  <2>1. ASSUME NEW r \in Readers, ReadStep(r) PROVE AgeInv'
    BY <2>1, ReadStepAge
  <2>2. ASSUME NEW w \in Writers, WriteStep(w) PROVE AgeInv'
    <3>1. ASSUME UNCHANGED <<now, writes, reader>>, \A s \in Slots : cache'[s] \subseteq cache[s]
          PROVE  AgeInv'
      BY <3>1, FewerEntriesAge DEF AgeInv, HoldingAge, Current
    <3>2. ASSUME ImmichApplies(w) PROVE AgeInv'
      <4>1. CASE TakesEffect(w)
        BY <3>2, <4>1, ChangeAge DEF ImmichApplies
      <4>2. CASE ~TakesEffect(w)
        BY <3>1, <3>2, <4>2 DEF ImmichApplies
      <4>3. QED
        BY <4>1, <4>2
    <3>3. ASSUME InvalidateAll(w) PROVE AgeInv'
      BY <3>1, <3>3 DEF InvalidateAll
    <3>4. ASSUME InvalidateNext(w) PROVE AgeInv'
      BY <3>1, <3>4 DEF InvalidateNext, TypeOK
    <3>5. CASE UNCHANGED <<now, writes, cache, reader, barrier>>
      BY <3>1, <3>5
    <3>6. QED
      BY <2>2, <3>2, <3>3, <3>4, <3>5
         DEF WriteStep, StartWrite, RetryWrite, GiveUpWrite, WriteSucceeds, InvalidateFails
  <2>3. CASE OtherChange
    BY <2>3, ChangeAge DEF OtherChange
  <2>4. CASE Restart
    <3>1. \A s \in Slots : SlotAge(s)'
      BY <2>4, FewerEntriesAge DEF Restart
    <3>2. \A r \in Readers : HoldingAge(r)'
      BY <2>4 DEF Restart, HoldingAge, IdleReader
    <3>3. QED
      BY <3>1, <3>2 DEF AgeInv
  <2>5. CASE Tick
    <3>1. \A s \in Slots : SlotAge(s)'
      <4>. SUFFICES ASSUME NEW s \in Slots, NEW e \in cache[s]
                    PROVE  e.expires <= now + 1 + Lifetime(s)
        BY <2>5 DEF Tick, AgeInv, SlotAge, Current
      <4>1. e.expires \in Nat /\ now \in Nat /\ Lifetime(s) \in Nat
        BY LifetimeType DEF TypeOK, Entry
      <4>2. e.expires <= now + Lifetime(s)
        BY DEF AgeInv, SlotAge
      <4>3. QED
        BY <4>1, <4>2
    <3>2. \A r \in Readers : HoldingAge(r)'
      <4>. SUFFICES ASSUME NEW r \in Readers, reader[r].pc \in {"loaded", "stored"}
                    PROVE  /\ reader[r].since <= now + 1
                           /\ now + 1 <= reader[r].since + StoreDelay
        BY <2>5 DEF Tick, AgeInv, HoldingAge, Current
      <4>1. now \in Nat /\ reader[r].since \in Nat /\ StoreDelay \in Nat
        BY HoldingType, NumbersAssumption DEF TypeOK
      <4>2. reader[r].since <= now /\ now < reader[r].since + StoreDelay
        BY <2>5 DEF Tick, AgeInv, HoldingAge
      <4>3. QED
        BY <4>1, <4>2
    <3>3. QED
      BY <3>1, <3>2 DEF AgeInv
  <2>6. CASE UNCHANGED vars
    BY <2>6 DEF vars, AgeInv, SlotAge, HoldingAge, Current
  <2>7. QED
    BY <2>1, <2>2, <2>3, <2>4, <2>5, <2>6 DEF Next
<1>3. QED
  BY <1>1, <1>2, TypeCorrect, PTL DEF Spec

(***************************************************************************)
(* The cache implements the bounded-staleness view of the library.         *)
(***************************************************************************)

\* A live entry of a slot answers with a version that is recent enough for
\* the slot.
LEMMA AnswerIsRecent ==
  ASSUME TypeOK, AgeInv, NEW s \in Slots, NEW e \in Unexpired(s)
  PROVE  /\ e.value \in 0..Len(writes)
         /\ LV!Recent(e.value, Lifetime(s) + StoreDelay)
<1>1. e \in cache[s] /\ e \in Entry /\ now <= e.expires
  BY DEF Unexpired, Live, TypeOK, Entry
<1>2. /\ e.value <= Current
      /\ e.value < Current => e.expires <= writes[e.value + 1] + StoreDelay + Lifetime(s)
  BY <1>1 DEF AgeInv, SlotAge
<1>3. Current \in Nat /\ e.value \in Nat /\ e.expires \in Nat /\ now \in Nat
  BY <1>1 DEF TypeOK, Entry, Current
<1>4. Lifetime(s) \in Nat /\ StoreDelay \in Nat
  BY LifetimeType, NumbersAssumption
<1>5. ASSUME e.value < Current
      PROVE  now <= writes[e.value + 1] + (Lifetime(s) + StoreDelay)
  <2>1. writes[e.value + 1] \in Nat
    BY <1>3, <1>5 DEF TypeOK, Current
  <2>2. QED
    BY <1>1, <1>2, <1>3, <1>4, <1>5, <2>1
<1>6. QED
  BY <1>2, <1>3, <1>5 DEF LV!Recent, Current

\* A step that only takes answers away is a step of LibraryView.
LEMMA FinishStep ==
  ASSUME TypeOK, UNCHANGED <<now, writes>>,
         NEW r \in Readers, NEW new, new.pc # "done",
         reader' = [reader EXCEPT ![r] = new]
  PROVE  LV!Finish
<1>1. {r} \in SUBSET Readers
  OBVIOUS
<1>2. \A q \in Readers : reader'[q] = IF q = r THEN new ELSE reader[q]
  BY DEF TypeOK
<1>3. answers' = [q \in Readers |-> IF q \in {r} THEN {} ELSE answers[q]]
  BY <1>2 DEF answers
<1>4. QED
  BY <1>1, <1>3 DEF LV!Finish

\* A step that gives one recent answer is a step of LibraryView.
LEMMA ReplyStep ==
  ASSUME TypeOK, UNCHANGED <<now, writes>>,
         NEW r \in Readers, NEW k \in Keys, NEW v \in 0..Len(writes), NEW c \in {"normal", "degraded"},
         LV!Recent(v, IF c = "degraded" THEN StaleTTL(k) + StoreDelay ELSE TTL[k] + StoreDelay),
         reader' = [reader EXCEPT ![r] =
                      [pc |-> "done", key |-> k, value |-> v, quality |-> c]]
  PROVE  LV!Reply(r)
<1>1. \A q \in Readers : reader'[q] =
        IF q = r THEN [pc |-> "done", key |-> k, value |-> v, quality |-> c]
                 ELSE reader[q]
  BY DEF TypeOK
<1>2. answers' = [answers EXCEPT ![r] = {[key |-> k, value |-> v, quality |-> c]}]
  <2>1. answers'[r] = {[key |-> k, value |-> v, quality |-> c]}
    BY <1>1 DEF answers
  <2>2. \A q \in Readers : q # r => answers'[q] = answers[q]
    BY <1>1 DEF answers
  <2>3. /\ answers = [q \in Readers |-> answers[q]]
        /\ answers' = [q \in Readers |-> answers'[q]]
    BY DEF answers
  <2>4. QED
    BY <2>1, <2>2, <2>3
<1>3. LV!Recent(v, IF c = "degraded" THEN OutageBound[k] ELSE NormalBound[k])
  BY DEF OutageBound, NormalBound
<1>4. \E kk \in Keys, vv \in 0..Len(writes), cc \in {"normal", "degraded"} :
        /\ LV!Recent(vv, IF cc = "degraded" THEN OutageBound[kk] ELSE NormalBound[kk])
        /\ answers' = [answers EXCEPT ![r] = {[key |-> kk, value |-> vv, quality |-> cc]}]
  BY <1>2, <1>3
<1>5. QED
  BY <1>4 DEF LV!Reply

\* Every step of ImmichClient._cached is a step of LibraryView or a stutter.
LEMMA ReadStepRefines ==
  ASSUME TypeOK, AgeInv, NEW r \in Readers, ReadStep(r)
  PROVE  LV!Next
<1>1. ASSUME NEW k \in Keys, Hit(r, k) PROVE LV!Next
  <2>1. PICK e \in Unexpired(Fresh(k)) : reader' = [reader EXCEPT ![r] =
             [pc |-> "done", key |-> k, value |-> e.value, quality |-> "normal"]]
    BY <1>1 DEF Hit
  <2>2. Lifetime(Fresh(k)) = TTL[k]
    BY DEF Lifetime, Fresh
  <2>3. /\ e.value \in 0..Len(writes)
        /\ LV!Recent(e.value, TTL[k] + StoreDelay)
    BY <2>2, AnswerIsRecent, SlotsOfKeys
  <2>4. LV!Reply(r)
    BY <1>1, <2>1, <2>3, ReplyStep DEF Hit
  <2>5. QED
    BY <2>4 DEF LV!Next
<1>2. ASSUME NEW k \in Keys, Miss(r, k) PROVE LV!Next
  BY <1>2, FinishStep DEF Miss, LV!Next
<1>3. CASE ImmichAnswers(r)
  BY <1>3, FinishStep DEF ImmichAnswers, LV!Next
<1>4. CASE ImmichFails(r)
  BY <1>4, FinishStep DEF ImmichFails, LV!Next
<1>5. CASE StoreFresh(r)
  <2>1. reader' = [reader EXCEPT ![r] = [reader[r] EXCEPT !.pc = "stored"]]
    BY <1>5 DEF StoreFresh
  <2>2. [reader[r] EXCEPT !.pc = "stored"].pc = "stored"
    BY <1>5, HoldingType DEF StoreFresh, Holding
  <2>3. QED
    BY <1>5, <2>1, <2>2, FinishStep DEF StoreFresh, LV!Next
<1>6. CASE StoreStale(r)
  <2>1. reader[r].pc = "stored" /\ reader[r].key \in Keys /\ reader[r].value \in Nat
    BY <1>6, HoldingType DEF StoreStale
  <2>2. HoldingAge(r)
    BY DEF AgeInv
  <2>3. reader[r].value \in 0..Len(writes)
    BY <2>1, <2>2 DEF HoldingAge, Current, TypeOK
  <2>4. LV!Recent(reader[r].value, TTL[reader[r].key] + StoreDelay)
    <3>. SUFFICES ASSUME reader[r].value < Current
                  PROVE  now <= writes[reader[r].value + 1] + (TTL[reader[r].key] + StoreDelay)
      BY DEF LV!Recent, Current
    <3>1. writes[reader[r].value + 1] \in Nat
      BY <2>1 DEF TypeOK, Current
    <3>2. now \in Nat /\ reader[r].since \in Nat /\ StoreDelay \in Nat
      BY <2>1, HoldingType, NumbersAssumption DEF TypeOK
    <3>3. TTL[reader[r].key] \in Nat
      BY <2>1, NumbersAssumption
    <3>4. now <= reader[r].since + StoreDelay /\ reader[r].since <= writes[reader[r].value + 1]
      BY <2>1, <2>2 DEF HoldingAge
    <3>5. QED
      BY <3>1, <3>2, <3>3, <3>4
  <2>5. LV!Reply(r)
    BY <1>6, <2>1, <2>3, <2>4, ReplyStep DEF StoreStale
  <2>6. QED
    BY <2>5 DEF LV!Next
<1>7. CASE StaleHit(r)
  <2>1. reader[r].key \in Keys
    BY <1>7 DEF StaleHit, TypeOK, Reading, Holding, Answered
  <2>2. PICK e \in Unexpired(Stale(reader[r].key)) : reader' = [reader EXCEPT ![r] =
             [pc |-> "done", key |-> reader[r].key, value |-> e.value, quality |-> "degraded"]]
    BY <1>7 DEF StaleHit
  <2>3. Lifetime(Stale(reader[r].key)) = StaleTTL(reader[r].key)
    BY DEF Lifetime, Stale
  <2>4. /\ e.value \in 0..Len(writes)
        /\ LV!Recent(e.value, StaleTTL(reader[r].key) + StoreDelay)
    BY <2>1, <2>3, AnswerIsRecent, SlotsOfKeys
  <2>5. LV!Reply(r)
    BY <1>7, <2>1, <2>2, <2>4, ReplyStep DEF StaleHit
  <2>6. QED
    BY <2>5 DEF LV!Next
<1>8. CASE StaleMiss(r)
  BY <1>8, FinishStep DEF StaleMiss, IdleReader, LV!Next
<1>9. CASE Deliver(r)
  BY <1>9, FinishStep DEF Deliver, IdleReader, LV!Next
<1>10. QED
  BY <1>1, <1>2, <1>3, <1>4, <1>5, <1>6, <1>7, <1>8, <1>9 DEF ReadStep

\* Whatever the cache answers is a recent version of the library, whatever
\* happens to the cache, the requests and Immich.
THEOREM CacheImplementsView == Spec => BoundedStaleness
<1>1. Init => LV!Init
  BY DEF Init, LV!Init, IdleReader, answers
<1>2. TypeOK /\ AgeInv /\ [Next]_vars => [LV!Next]_(LV!vars)
  <2>. SUFFICES ASSUME TypeOK, AgeInv, [Next]_vars PROVE [LV!Next]_(LV!vars)
    OBVIOUS
  <2>1. ASSUME NEW r \in Readers, ReadStep(r) PROVE LV!Next
    BY <2>1, ReadStepRefines
  <2>2. ASSUME NEW w \in Writers, WriteStep(w) PROVE [LV!Next]_(LV!vars)
    <3>1. ASSUME UNCHANGED <<now, writes, reader>> PROVE UNCHANGED LV!vars
      BY <3>1 DEF LV!vars, answers
    <3>2. CASE ImmichApplies(w) /\ TakesEffect(w)
      BY <3>2 DEF ImmichApplies, LV!Next, LV!Change, answers
    <3>3. CASE UNCHANGED <<now, writes, reader>>
      BY <3>1, <3>3
    <3>4. QED
      BY <2>2, <3>2, <3>3
         DEF WriteStep, StartWrite, ImmichApplies, RetryWrite, GiveUpWrite, WriteSucceeds,
             InvalidateAll, InvalidateNext, InvalidateFails
  <2>3. CASE OtherChange
    BY <2>3 DEF OtherChange, LV!Next, LV!Change, answers
  <2>4. CASE Restart
    <3>1. Readers \in SUBSET Readers
      OBVIOUS
    <3>2. \A r \in Readers : reader'[r].pc = "idle"
      BY <2>4 DEF Restart, IdleReader
    <3>3. answers' = [r \in Readers |-> IF r \in Readers THEN {} ELSE answers[r]]
      BY <3>2 DEF answers
    <3>4. LV!Finish
      BY <2>4, <3>1, <3>3 DEF Restart, LV!Finish
    <3>5. QED
      BY <3>4 DEF LV!Next
  <2>5. CASE Tick
    BY <2>5 DEF Tick, LV!Next, LV!Tick, answers
  <2>6. CASE UNCHANGED vars
    BY <2>6 DEF vars, LV!vars, answers
  <2>7. QED
    BY <2>1, <2>2, <2>3, <2>4, <2>5, <2>6 DEF Next
<1>3. QED
  BY <1>1, <1>2, TypeCorrect, AgeInvariant, PTL DEF Spec, BoundedStaleness, LV!Spec

(***************************************************************************)
(* Invalidation.                                                           *)
(***************************************************************************)
\* A read adds to the cache only entries that are current or marked late.
LEMMA ReadStepEntries ==
  ASSUME TypeOK, NEW r \in Readers, ReadStep(r), NEW s \in Slots, NEW e \in cache'[s]
  PROVE  e \in cache[s] \/ (e.value < Current => e.late)
<1>1. ASSUME NEW t \in Slots, NEW v \in Nat, NEW held \in SetJson(t, v),
             cache' = [cache EXCEPT ![t] = held]
      PROVE  e \in cache[s] \/ (e.value < Current => e.late)
  <2>1. CASE s = t /\ held # cache[t]
    <3>1. e = [value |-> v, expires |-> now + Lifetime(t), late |-> v < Current]
      BY <1>1, <2>1 DEF SetJson, TypeOK
    <3>2. e.value = v /\ e.late = (v < Current)
      BY <3>1
    <3>3. QED
      BY <3>2
  <2>2. CASE s # t \/ held = cache[t]
    BY <1>1, <2>2 DEF TypeOK
  <2>3. QED
    BY <2>1, <2>2
<1>2. ASSUME NEW k \in Keys, Miss(r, k) PROVE e \in cache[s]
  BY <1>2 DEF Miss, Unexpired, TypeOK
<1>3. CASE StoreFresh(r)
  BY <1>1, <1>3, HoldingType, SlotsOfKeys DEF StoreFresh
<1>4. CASE StoreStale(r)
  BY <1>1, <1>4, HoldingType, SlotsOfKeys DEF StoreStale
<1>5. CASE StaleMiss(r)
  BY <1>5 DEF StaleMiss, Unexpired, TypeOK
<1>6. CASE UNCHANGED cache
  BY <1>6
<1>7. QED
  BY <1>2, <1>3, <1>4, <1>5, <1>6
     DEF ReadStep, Hit, ImmichAnswers, ImmichFails, StaleHit, Deliver

\* Reads do not disturb a sweep: what they add is current or marked late.
LEMMA ReadStepSweep ==
  ASSUME TypeOK, SweepInv, NEW r \in Readers, ReadStep(r)
  PROVE  SweepInv'
<1>1. UNCHANGED <<writes, writer, barrier>>
  BY DEF ReadStep, Hit, Miss, ImmichAnswers, ImmichFails, StoreFresh, StoreStale,
         StaleHit, StaleMiss, Deliver
<1>2. \A s \in Slots : \A e \in cache'[s] : e \in Entry
  BY ReadStepType DEF TypeOK
<1>3. ASSUME NEW s \in Slots, NEW e \in cache'[s], NEW v \in Nat, v <= Current,
             e \in cache[s] => (e.value < v => e.late), e.value < v
      PROVE  e.late
  <2>1. e.value \in Nat /\ Current \in Nat
    BY <1>2 DEF Entry, Current, TypeOK
  <2>2. e.value < Current
    BY <1>3, <2>1
  <2>3. QED
    BY <1>3, <2>2, ReadStepEntries
<1>4. barrier \in Nat /\ barrier <= Current
  BY DEF TypeOK, SweepInv
<1>5. ASSUME NEW w \in Writers PROVE writer[w].version \in Nat /\ writer[w].version <= Current
  BY DEF TypeOK, Writing, SweepInv
<1>6. InvalidationIsComplete'
  BY <1>1, <1>3, <1>4 DEF SweepInv, InvalidationIsComplete
<1>7. ASSUME NEW w \in Writers PROVE Swept(w)'
  BY <1>1, <1>3, <1>5 DEF SweepInv, Swept
<1>8. QED
  BY <1>1, <1>6, <1>7 DEF SweepInv, Current

\* When a sweep ends, what it leaves is current or marked late.
LEMMA InvalidatedSweep ==
  ASSUME TypeOK, SweepInv, NEW w \in Writers, Invalidated(w), UNCHANGED writes,
         \A s \in Slots : cache'[s] \subseteq cache[s],
         \A s \in Slots : \A e \in cache'[s] : e.value < writer[w].version => e.late
  PROVE  SweepInv'
<1>1. /\ writer[w].version \in Nat /\ writer[w].version <= Current
      /\ barrier \in Nat /\ barrier <= Current
      /\ barrier' = barrier \/ barrier' = writer[w].version
      /\ Current' = Current
  BY DEF TypeOK, Writing, SweepInv, Invalidated, Current
<1>2. InvalidationIsComplete'
  <2>1. CASE barrier' = barrier
    BY <2>1 DEF SweepInv, InvalidationIsComplete
  <2>2. CASE barrier' = writer[w].version
    BY <2>2 DEF InvalidationIsComplete
  <2>3. QED
    BY <1>1, <2>1, <2>2
<1>3. ASSUME NEW u \in Writers PROVE (writer[u].version <= Current /\ Swept(u))'
  <2>1. CASE u = w
    BY <1>1, <2>1 DEF Invalidated, IdleWriter, Swept, TypeOK, Current
  <2>2. CASE u # w
    <3>1. writer'[u] = writer[u]
      BY <2>2 DEF Invalidated, TypeOK
    <3>2. QED
      BY <1>1, <3>1 DEF SweepInv, Swept
  <2>3. QED
    BY <2>1, <2>2
<1>4. QED
  BY <1>1, <1>2, <1>3 DEF SweepInv

\* The steps of a write keep the invariant of the sweeps.
LEMMA WriteStepSweep ==
  ASSUME TypeOK, SweepInv, NEW w \in Writers, WriteStep(w)
  PROVE  SweepInv'
<1>1. /\ Current \in Nat
      /\ \A u \in Writers : writer[u].version \in Nat /\ writer[u].version <= Current
  BY DEF TypeOK, Writing, SweepInv, Current
<1>2. ASSUME \A u \in Writers \ {w} : writer'[u] = writer[u],
             writer'[w].pc # "invalidating",
             UNCHANGED <<cache, barrier>>,
             Current' \in Nat, Current <= Current', writer'[w].version <= Current'
      PROVE  SweepInv'
  <2>1. barrier <= Current'
    BY <1>1, <1>2 DEF SweepInv, TypeOK
  <2>2. ASSUME NEW u \in Writers PROVE (writer[u].version <= Current /\ Swept(u))'
    <3>1. CASE u = w
      BY <1>2, <3>1 DEF Swept
    <3>2. CASE u # w
      <4>1. writer'[u] = writer[u]
        BY <1>2, <3>2
      <4>2. writer[u].version <= Current'
        BY <1>1, <1>2
      <4>3. QED
        BY <1>2, <4>1, <4>2 DEF SweepInv, Swept
    <3>3. QED
      BY <3>1, <3>2
  <2>3. QED
    BY <1>2, <2>1, <2>2 DEF SweepInv, InvalidationIsComplete
<1>3. ASSUME NEW kind \in Kinds, StartWrite(w, kind) PROVE SweepInv'
  <2>1. \A u \in Writers : writer'[u] = IF u = w
          THEN [IdleWriter EXCEPT !.pc = "sent", !.kind = kind] ELSE writer[u]
    BY <1>3 DEF StartWrite, TypeOK
  <2>2. writer'[w].pc = "sent" /\ writer'[w].version = 0
    BY <2>1 DEF IdleWriter
  <2>3. QED
    BY <1>1, <1>2, <1>3, <2>1, <2>2 DEF StartWrite, Current
<1>4. CASE ImmichApplies(w)
  <2>1. Current' \in Nat /\ Current <= Current' /\ (TakesEffect(w) => Current' = Current + 1)
    BY <1>1, <1>4 DEF ImmichApplies, Current, TypeOK
  <2>2. /\ \A u \in Writers \ {w} : writer'[u] = writer[u]
        /\ writer'[w].pc = "applied"
        /\ writer'[w].version = IF TakesEffect(w) THEN Current + 1 ELSE writer[w].version
    BY <1>4 DEF ImmichApplies, Writing, TypeOK
  <2>3. writer'[w].version <= Current'
    BY <1>1, <2>1, <2>2
  <2>4. QED
    BY <1>2, <1>4, <2>1, <2>2, <2>3 DEF ImmichApplies
<1>5. CASE RetryWrite(w)
  <2>1. /\ \A u \in Writers \ {w} : writer'[u] = writer[u]
        /\ writer'[w].pc = "sent"
        /\ writer'[w].version = writer[w].version
    BY <1>5 DEF RetryWrite, Writing, TypeOK
  <2>2. Current' = Current /\ UNCHANGED <<cache, barrier>>
    BY <1>5 DEF RetryWrite, Current
  <2>3. QED
    BY <1>1, <1>2, <2>1, <2>2
<1>6. CASE GiveUpWrite(w)
  BY <1>1, <1>2, <1>6 DEF GiveUpWrite, IdleWriter, Current, TypeOK
<1>7. CASE WriteSucceeds(w)
  <2>1. ASSUME NEW u \in Writers PROVE (writer[u].version <= Current /\ Swept(u))'
    BY <1>1, <1>7 DEF WriteSucceeds, SweepInv, Swept, Current, TypeOK, Writing
  <2>2. QED
    BY <1>7, <2>1 DEF WriteSucceeds, SweepInv, InvalidationIsComplete, Current
<1>8. CASE InvalidateAll(w)
  BY <1>8, InvalidatedSweep DEF InvalidateAll
<1>9. CASE InvalidateNext(w)
  <2>1. PICK s \in writer[w].todo :
           /\ cache' = [cache EXCEPT ![s] = {}]
           /\ IF writer[w].todo = {s}
              THEN Invalidated(w)
              ELSE /\ writer' = [writer EXCEPT ![w].todo = @ \ {s}]
                   /\ UNCHANGED barrier
    BY <1>9 DEF InvalidateNext
  <2>2. \A t \in Slots : cache'[t] = IF t = s THEN {} ELSE cache[t]
    BY <2>1 DEF TypeOK
  <2>3. \A t \in (Slots \ writer[w].todo) \cup {s} : \A e \in cache'[t] :
           t \in Slots => (e.value < writer[w].version => e.late)
    BY <1>9, <2>2 DEF InvalidateNext, SweepInv, Swept
  <2>4. CASE writer[w].todo = {s}
    BY <1>9, <2>1, <2>2, <2>3, <2>4, InvalidatedSweep DEF InvalidateNext
  <2>5. CASE writer[w].todo # {s}
    <3>1. writer' = [writer EXCEPT ![w].todo = @ \ {s}] /\ UNCHANGED <<writes, barrier>>
      BY <1>9, <2>1, <2>5 DEF InvalidateNext
    <3>2. ASSUME NEW u \in Writers PROVE (writer[u].version <= Current /\ Swept(u))'
      <4>1. CASE u = w
        <5>1. writer'[w].version = writer[w].version /\ writer'[w].todo = writer[w].todo \ {s}
          BY <3>1 DEF TypeOK, Writing
        <5>2. QED
          BY <1>1, <2>3, <3>1, <4>1, <5>1 DEF Swept, Current
      <4>2. CASE u # w
        BY <1>1, <2>2, <3>1, <4>2 DEF SweepInv, Swept, Current, TypeOK
      <4>3. QED
        BY <4>1, <4>2
    <3>3. InvalidationIsComplete'
      BY <2>2, <3>1 DEF SweepInv, InvalidationIsComplete
    <3>4. QED
      BY <3>1, <3>2, <3>3 DEF SweepInv, Current
  <2>6. QED
    BY <2>4, <2>5
<1>10. CASE InvalidateFails(w)
  BY <1>1, <1>2, <1>10 DEF InvalidateFails, IdleWriter, Current, TypeOK
<1>11. QED
  BY <1>3, <1>4, <1>5, <1>6, <1>7, <1>8, <1>9, <1>10 DEF WriteStep

\* A confirmed write leaves in the cache only old data that was already old
\* when it was stored.
THEOREM InvalidationComplete == Spec => []InvalidationIsComplete
<1>1. Init => SweepInv
  <2>. SUFFICES ASSUME Init PROVE SweepInv
    OBVIOUS
  <2>1. Current = 0 /\ barrier = 0 /\ \A s \in Slots : cache[s] = {}
    BY DEF Init, Current
  <2>2. \A w \in Writers : writer[w].pc = "idle" /\ writer[w].version = 0
    BY DEF Init, IdleWriter
  <2>3. QED
    BY <2>1, <2>2 DEF SweepInv, InvalidationIsComplete, Swept
<1>2. TypeOK /\ SweepInv /\ [Next]_vars => SweepInv'
  <2>. SUFFICES ASSUME TypeOK, SweepInv, [Next]_vars PROVE SweepInv'
    OBVIOUS
  <2>1. ASSUME NEW r \in Readers, ReadStep(r) PROVE SweepInv'
    BY <2>1, ReadStepSweep
  <2>2. ASSUME NEW w \in Writers, WriteStep(w) PROVE SweepInv'
    BY <2>2, WriteStepSweep
  <2>3. CASE OtherChange
    <3>1. Current \in Nat /\ Current' = Current + 1
      BY <2>3 DEF OtherChange, Current, TypeOK
    <3>2. \A w \in Writers : writer[w].version \in Nat
      BY DEF TypeOK, Writing
    <3>3. QED
      BY <2>3, <3>1, <3>2 DEF OtherChange, SweepInv, Swept, InvalidationIsComplete, TypeOK
  <2>4. CASE Restart
    <3>1. \A s \in Slots : cache'[s] \subseteq cache[s]
      BY <2>4 DEF Restart, TypeOK
    <3>2. InvalidationIsComplete'
      BY <2>4, <3>1 DEF Restart, SweepInv, InvalidationIsComplete
    <3>3. \A w \in Writers : (writer[w].version <= Current /\ Swept(w))'
      BY <2>4 DEF Restart, Swept, IdleWriter, Current, TypeOK
    <3>4. QED
      BY <2>4, <3>2, <3>3 DEF Restart, SweepInv, Current
  <2>5. CASE Tick
    BY <2>5 DEF Tick, SweepInv, Swept, InvalidationIsComplete, Current
  <2>6. CASE UNCHANGED vars
    BY <2>6 DEF vars, SweepInv, Swept, InvalidationIsComplete, Current
  <2>7. QED
    BY <2>1, <2>2, <2>3, <2>4, <2>5, <2>6 DEF Next
<1>3. SweepInv => InvalidationIsComplete
  BY DEF SweepInv
<1>4. QED
  BY <1>1, <1>2, <1>3, TypeCorrect, PTL DEF Spec

(***************************************************************************)
(* The stale copy behind every fresh copy, in one process.                 *)
(***************************************************************************)
\* A step that adds no fresh copy, drops no live stale copy and takes no
\* thread out of the middle of its two stores keeps every copy backed.
LEMMA BackupKept ==
  ASSUME TypeOK, FreshHasBackup, Backend = "memory", now' \in Nat, now <= now',
         \A k \in Keys : cache'[Fresh(k)] \subseteq cache[Fresh(k)],
         \A k \in Keys : Unexpired(Stale(k)) \subseteq cache'[Stale(k)],
         \A r \in Readers : reader[r].pc = "stored" =>
             reader'[r].pc = "stored" /\ reader'[r].key = reader[r].key
  PROVE  FreshHasBackup'
<1>. SUFFICES ASSUME NEW k \in Keys, NEW e \in cache'[Fresh(k)], now' <= e.expires
              PROVE  \/ \E b \in cache'[Stale(k)] : b.expires >= e.expires
                     \/ \E r \in Readers : reader'[r].pc = "stored" /\ reader'[r].key = k
  BY DEF FreshHasBackup, Backed, Unexpired, Live
<1>1. e \in cache[Fresh(k)] /\ e.expires \in Nat /\ now \in Nat
  BY SlotsOfKeys DEF TypeOK, Entry
<1>2. e \in Unexpired(Fresh(k))
  BY <1>1 DEF Unexpired, Live
<1>3. ASSUME NEW b \in cache[Stale(k)], b.expires >= e.expires
      PROVE  b \in cache'[Stale(k)]
  <2>1. b.expires \in Nat
    BY SlotsOfKeys DEF TypeOK, Entry
  <2>2. b \in Unexpired(Stale(k))
    BY <1>1, <1>3, <2>1 DEF Unexpired, Live
  <2>3. QED
    BY <2>2
<1>4. QED
  BY <1>2, <1>3 DEF FreshHasBackup, Backed

\* Reads keep every fresh copy backed by a stale one.
LEMMA ReadStepBackup ==
  ASSUME TypeOK, AgeInv, FreshHasBackup, Backend = "memory",
         NEW r \in Readers, ReadStep(r)
  PROVE  FreshHasBackup'
<1>1. now \in Nat /\ UNCHANGED now
  BY DEF TypeOK, ReadStep, Hit, Miss, ImmichAnswers, ImmichFails, StoreFresh, StoreStale,
         StaleHit, StaleMiss, Deliver
<1>2. \A k, j \in Keys : Fresh(k) # Stale(j) /\ (Fresh(k) = Fresh(j) => k = j)
                         /\ (Stale(k) = Stale(j) => k = j)
  BY DEF Fresh, Stale
<1>3. ASSUME UNCHANGED cache, reader[r].pc # "stored",
             \A q \in Readers \ {r} : reader'[q] = reader[q]
      PROVE  FreshHasBackup'
  BY <1>1, <1>3, BackupKept DEF Unexpired
<1>4. ASSUME NEW k \in Keys, Hit(r, k) PROVE FreshHasBackup'
  BY <1>3, <1>4 DEF Hit, TypeOK
<1>5. ASSUME NEW k \in Keys, Miss(r, k) PROVE FreshHasBackup'
  <2>1. \A j \in Keys : /\ cache'[Fresh(j)] \subseteq cache[Fresh(j)]
                        /\ cache'[Stale(j)] = cache[Stale(j)]
    BY <1>2, <1>5, SlotsOfKeys DEF Miss, Unexpired, TypeOK
  <2>2. \A q \in Readers : reader[q].pc = "stored" => reader'[q] = reader[q]
    BY <1>5 DEF Miss, TypeOK
  <2>3. QED
    BY <1>1, <2>1, <2>2, BackupKept DEF Unexpired
<1>6. CASE ImmichAnswers(r)
  BY <1>3, <1>6 DEF ImmichAnswers, TypeOK
<1>7. CASE ImmichFails(r)
  BY <1>3, <1>7 DEF ImmichFails, TypeOK
<1>8. CASE StoreFresh(r)
  <2>. DEFINE key == reader[r].key
  <2>1. /\ reader[r].pc = "loaded" /\ key \in Keys
        /\ reader'[r].pc = "stored" /\ reader'[r].key = key
        /\ \A q \in Readers \ {r} : reader'[q] = reader[q]
    BY <1>8, HoldingType DEF StoreFresh, TypeOK, Holding
  <2>2. \A s \in Slots \ {Fresh(key)} : cache'[s] = cache[s]
    BY <1>8 DEF StoreFresh, TypeOK
  <2>3. ASSUME NEW k \in Keys, NEW e \in Unexpired(Fresh(k))'
        PROVE  Backed(k, e)'
    <3>1. CASE k = key
      BY <2>1, <3>1 DEF Backed
    <3>2. CASE k # key
      <4>1. cache'[Fresh(k)] = cache[Fresh(k)] /\ cache'[Stale(k)] = cache[Stale(k)]
        BY <1>2, <2>1, <2>2, <3>2, SlotsOfKeys
      <4>2. e \in Unexpired(Fresh(k))
        BY <1>1, <2>3, <4>1 DEF Unexpired, Live
      <4>3. Backed(k, e)
        BY <4>2 DEF FreshHasBackup, Backed
      <4>4. QED
        BY <2>1, <3>2, <4>1, <4>3 DEF Backed
    <3>3. QED
      BY <3>1, <3>2
  <2>4. QED
    BY <2>3 DEF FreshHasBackup
<1>9. CASE StoreStale(r)
  <2>. DEFINE key == reader[r].key
  <2>1. /\ reader[r].pc = "stored" /\ key \in Keys
        /\ \A q \in Readers \ {r} : reader'[q] = reader[q]
    BY <1>9, HoldingType DEF StoreStale, TypeOK
  <2>2. \A s \in Slots \ {Stale(key)} : cache'[s] = cache[s]
    BY <1>9 DEF StoreStale, TypeOK
  <2>3. \E b \in cache'[Stale(key)] : b.expires = now + Lifetime(Stale(key))
    <3>1. PICK held \in SetJson(Stale(key), reader[r].value) :
             cache' = [cache EXCEPT ![Stale(key)] = held]
      BY <1>9 DEF StoreStale
    <3>2. held = {[value |-> reader[r].value, expires |-> now + Lifetime(Stale(key)),
                   late |-> reader[r].value < Current]}
      BY <3>1 DEF SetJson, Faulty
    <3>3. Stale(key) \in Slots
      BY <2>1, SlotsOfKeys
    <3>4. cache'[Stale(key)] = held
      BY <3>1, <3>3 DEF TypeOK
    <3>5. \E b \in held : b.expires = now + Lifetime(Stale(key))
      BY <3>2
    <3>6. QED
      BY <3>4, <3>5
  <2>4. ASSUME NEW k \in Keys, NEW e \in Unexpired(Fresh(k))'
        PROVE  Backed(k, e)'
    <3>1. e \in cache[Fresh(k)] /\ e \in Unexpired(Fresh(k))
      BY <1>1, <1>2, <2>1, <2>2, <2>4, SlotsOfKeys DEF Unexpired, Live
    <3>2. CASE k = key
      <4>1. e.expires \in Nat /\ e.expires <= now + Lifetime(Fresh(k))
        BY <3>1, SlotsOfKeys DEF AgeInv, SlotAge, TypeOK, Entry
      <4>2. /\ Lifetime(Fresh(k)) \in Nat /\ Lifetime(Stale(k)) \in Nat
            /\ Lifetime(Fresh(k)) <= Lifetime(Stale(k))
        BY LifetimeType, StaleOutlivesFresh
      <4>3. now + Lifetime(Stale(k)) >= e.expires
        BY <1>1, <4>1, <4>2
      <4>4. QED
        BY <2>3, <3>2, <4>3 DEF Backed
    <3>3. CASE k # key
      <4>1. cache'[Stale(k)] = cache[Stale(k)]
        BY <1>2, <2>1, <2>2, <3>3, SlotsOfKeys
      <4>2. Backed(k, e)
        BY <3>1 DEF FreshHasBackup, Backed
      <4>3. QED
        BY <2>1, <3>3, <4>1, <4>2 DEF Backed
    <3>4. QED
      BY <3>2, <3>3
  <2>5. QED
    BY <2>4 DEF FreshHasBackup
<1>10. CASE StaleHit(r)
  BY <1>3, <1>10 DEF StaleHit, TypeOK
<1>11. CASE StaleMiss(r)
  <2>1. reader[r].key \in Keys
    BY <1>11 DEF StaleMiss, TypeOK, Reading, Holding, Answered
  <2>2. \A j \in Keys : /\ cache'[Fresh(j)] = cache[Fresh(j)]
                        /\ Unexpired(Stale(j)) \subseteq cache'[Stale(j)]
    BY <1>2, <1>11, <2>1, SlotsOfKeys DEF StaleMiss, Unexpired, TypeOK
  <2>3. \A q \in Readers : reader[q].pc = "stored" => reader'[q] = reader[q]
    BY <1>11 DEF StaleMiss, TypeOK
  <2>4. QED
    BY <1>1, <2>2, <2>3, BackupKept
<1>12. CASE Deliver(r)
  BY <1>3, <1>12 DEF Deliver, TypeOK
<1>13. QED
  BY <1>4, <1>5, <1>6, <1>7, <1>8, <1>9, <1>10, <1>11, <1>12 DEF ReadStep

\* In one process, what the cache can answer now it can answer in an outage.
THEOREM BackupForOutages == Spec => []FreshHasBackup
<1>1. Init => FreshHasBackup
  BY SlotsOfKeys DEF Init, FreshHasBackup, Unexpired
<1>2. TypeOK /\ AgeInv /\ FreshHasBackup /\ [Next]_vars => FreshHasBackup'
  <2>. SUFFICES ASSUME TypeOK, AgeInv, FreshHasBackup, [Next]_vars, Backend = "memory"
                PROVE  FreshHasBackup'
    BY DEF FreshHasBackup
  <2>1. now \in Nat /\ \A k \in Keys : Unexpired(Stale(k)) \subseteq cache[Stale(k)]
    BY DEF TypeOK, Unexpired
  <2>2. ASSUME UNCHANGED <<now, cache, reader>> PROVE FreshHasBackup'
    BY <2>1, <2>2, BackupKept
  <2>3. ASSUME \A s \in Slots : cache'[s] = {} PROVE FreshHasBackup'
    BY <2>3, SlotsOfKeys DEF FreshHasBackup, Unexpired
  <2>4. ASSUME NEW r \in Readers, ReadStep(r) PROVE FreshHasBackup'
    BY <2>4, ReadStepBackup
  <2>5. ASSUME NEW w \in Writers, WriteStep(w) PROVE FreshHasBackup'
    <3>1. CASE InvalidateAll(w)
      BY <2>3, <3>1 DEF InvalidateAll
    <3>2. CASE UNCHANGED <<now, cache, reader>>
      BY <2>2, <3>2
    <3>3. QED
      BY <2>5, <3>1, <3>2 DEF WriteStep, StartWrite, ImmichApplies, RetryWrite, GiveUpWrite,
             WriteSucceeds, InvalidateNext, InvalidateFails
  <2>6. CASE OtherChange
    BY <2>2, <2>6 DEF OtherChange
  <2>7. CASE Restart
    BY <2>3, <2>7 DEF Restart
  <2>8. CASE Tick
    <3>1. now' \in Nat /\ now <= now' /\ UNCHANGED <<cache, reader>>
      BY <2>1, <2>8 DEF Tick
    <3>2. QED
      BY <2>1, <3>1, BackupKept
  <2>9. CASE UNCHANGED vars
    BY <2>2, <2>9 DEF vars
  <2>10. QED
    BY <2>4, <2>5, <2>6, <2>7, <2>8, <2>9 DEF Next
<1>3. QED
  BY <1>1, <1>2, TypeCorrect, AgeInvariant, PTL DEF Spec
=============================================================================
