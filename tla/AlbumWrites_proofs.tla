------------------------- MODULE AlbumWrites_proofs -------------------------
(***************************************************************************)
(* What the writes of WebDAV clients keep true in every execution of       *)
(* AlbumWrites, for any number of requests, albums, assets and attempts.   *)
(***************************************************************************)
EXTENDS AlbumWrites, TLAPS

\* Immich has added the asset of request r to its album, if it has one.
Placed(r) ==
    \A a \in task[r].into :
        <<a, task[r].asset>> \in Seen \/ task[r].asset \in deleted

\* The folder of request r was that of its album.
Rooted(r) ==
    task[r].path.folder # <<>> =>
        \E list \in lists : \E a \in list :
            Folder(list, a) = task[r].path.folder /\ task[r].into = {a.id}

\* The temporary file of r is there, and neither a kill nor a failed unlink
\* left it.
Staged(r) == r \in staging \ unremoved

\* A request that has added its asset has put it into the album that its path
\* was resolved to; its temporary file is there until then.
RequestInv(r) ==
    /\ pc[r] \in {"uploading", "uploaded", "added"} \/ Staged(r) => task[r].kind = "put"
    /\ task[r].kind = "put" => Rooted(r)
    /\ task[r].kind = "put" /\ pc[r] \in {"applied", "added"} => Placed(r)
    /\ Staged(r) => pc[r] # "idle"

WriteInv == \A r \in Requests : RequestInv(r)

IInv == TypeOK /\ WriteInv /\ ConfirmedUploadIsInAlbum /\ ReceiptIsHonest

-----------------------------------------------------------------------------
(***************************************************************************)
(* Types.                                                                  *)
(***************************************************************************)
LEMMA DefaultsAreTyped == NoName \in Names /\ NoAsset \in Assets /\ NoPath \in Paths
BY SetsAssumption DEF NoName, NoAsset, NoPath, Paths, Folders

LEMMA TasksAreTyped ==
    /\ \A p \in Paths, into \in SUBSET AlbumIds, x \in Assets : Put(p, into, x) \in Task
    /\ \A n \in Names : MakeAlbum(n) \in Task
    /\ \A a \in AlbumIds, x \in Assets : Remove(a, x) \in Task
    /\ NoTask \in Task
BY DefaultsAreTyped DEF Put, MakeAlbum, Remove, NoTask, Task

\* The type of what a request keeps, after it has begun or ended.
LEMMA StartIsTyped ==
    ASSUME TypeOK, NEW r \in Requests, NEW place \in Places, NEW t \in Task, Start(r, place, t)
    PROVE  /\ pc' \in [Requests -> Places] /\ task' \in [Requests -> Task]
           /\ staging' \in SUBSET Requests /\ unremoved' \in SUBSET Requests
BY DEF TypeOK, Start, Goto

LEMMA EndIsTyped ==
    ASSUME TypeOK, NEW r \in Requests, End(r)
    PROVE  /\ pc' \in [Requests -> Places] /\ task' \in [Requests -> Task]
           /\ attempt' \in [Requests -> 1..MaxAttempts] /\ made' \in [Requests -> Nat]
BY TasksAreTyped, NumbersAssumption DEF TypeOK, End, Goto, Places

LEMMA NewAlbumIsTyped ==
    ASSUME TypeOK, NEW n \in Names, NewAlbum(n)
    PROVE  albums' \in SUBSET Album /\ lists' \in SUBSET SUBSET Album
<1>1. PICK a \in AlbumIds : albums' = albums \cup {[id |-> a, name |-> n]}
  BY DEF NewAlbum
<1>2. [id |-> a, name |-> n] \in Album
  BY DEF Album
<1>3. QED
  BY <1>1, <1>2 DEF TypeOK, NewAlbum

LEMMA TakeOutIsTyped ==
    ASSUME TypeOK, NEW pairs \in SUBSET Pairs, TakeOut(pairs)
    PROVE  members' \in SUBSET Pairs /\ taken' \in SUBSET Pairs
BY DEF TypeOK, TakeOut

LEMMA InitIsTyped == Init => TypeOK
BY TasksAreTyped, NumbersAssumption DEF Init, TypeOK, Places

LEMMA BeginIsTyped ==
    ASSUME TypeOK, NEW r \in Requests, Begin(r) PROVE TypeOK'
<1>1. ASSUME NEW p \in Paths, NEW x \in Assets, PutInAlbum(r, p, x) PROVE TypeOK'
  <2>1. PICK list \in lists : \E b \in list : Start(r, "uploading", Put(p, {b.id}, x))
    BY <1>1 DEF PutInAlbum
  <2>. PICK a \in list : Start(r, "uploading", Put(p, {a.id}, x))
    BY <2>1
  <2>2. {a.id} \in SUBSET AlbumIds
    BY DEF TypeOK, Album
  <2>3. Put(p, {a.id}, x) \in Task /\ "uploading" \in Places
    BY <2>2, TasksAreTyped DEF Places, Uploading
  <2>4. QED
    BY <1>1, <2>3, StartIsTyped DEF PutInAlbum, TypeOK, immich, calls, history
<1>2. ASSUME NEW p \in Paths, NEW x \in Assets, PutAtRoot(r, p, x) PROVE TypeOK'
  <2>1. Put(p, {}, x) \in Task /\ "uploading" \in Places
    BY TasksAreTyped DEF Places, Uploading
  <2>2. QED
    BY <1>2, <2>1, StartIsTyped DEF PutAtRoot, TypeOK, immich, calls, history
<1>3. ASSUME NEW n \in Names, Mkcol(r, n) PROVE TypeOK'
  <2>1. MakeAlbum(n) \in Task /\ "calling" \in Places
    BY TasksAreTyped DEF Places, Calling
  <2>2. QED
    BY <1>3, <2>1, StartIsTyped DEF Mkcol, TypeOK, immich, calls, history
<1>4. ASSUME NEW a \in AlbumIds, NEW x \in Assets, Delete(r, a, x) PROVE TypeOK'
  <2>1. Remove(a, x) \in Task /\ "calling" \in Places
    BY TasksAreTyped DEF Places, Calling
  <2>2. QED
    BY <1>4, <2>1, StartIsTyped DEF Delete, TypeOK, immich, calls, history
<1>5. QED
  BY <1>1, <1>2, <1>3, <1>4 DEF Begin

LEMMA ProceedIsTyped ==
    ASSUME TypeOK, NEW r \in Requests, Proceed(r) PROVE TypeOK'
<1>. /\ \A place \in Places : Goto(r, place) => pc' \in [Requests -> Places]
     /\ {"idle", "added", "uploaded", "calling", "applied"} \subseteq Places
     /\ task[r] \in Task
  BY DEF Goto, TypeOK, Places, Calling, Uploading
<1>. task[r].path \in Paths /\ task[r].name \in Names
     /\ task[r].into \in SUBSET AlbumIds /\ task[r].asset \in Assets
  BY DEF Task
<1>1. CASE ImmichUploads(r)
  BY <1>1 DEF ImmichUploads, TypeOK, calls, files, history
<1>2. CASE UploadIsAnswered(r)
  <2>1. pc' \in [Requests -> Places]
    BY <1>2 DEF UploadIsAnswered
  <2>2. QED
    BY <1>2, <2>1 DEF UploadIsAnswered, TypeOK, immich, calls, files, history
<1>3. CASE ImmichAdds(r)
  <2>1. PICK a \in albums : /\ task[r].into = {a.id}
                            /\ members' = members \cup {<<a.id, task[r].asset>>}
                            /\ taken' = taken \ {<<a.id, task[r].asset>>}
    BY <1>3 DEF ImmichAdds
  <2>2. <<a.id, task[r].asset>> \in Pairs
    BY DEF TypeOK, Album, Pairs
  <2>3. QED
    BY <1>3, <2>1, <2>2 DEF ImmichAdds, Apply, TypeOK, files
<1>4. CASE ImmichAddsNothing(r)
  BY <1>4 DEF ImmichAddsNothing, Apply, TypeOK, files
<1>5. CASE ImmichCreates(r)
  <2>1. albums' \in SUBSET Album /\ lists' \in SUBSET SUBSET Album
    BY <1>5, NewAlbumIsTyped DEF ImmichCreates
  <2>2. made' \in [Requests -> Nat]
    BY <1>5 DEF ImmichCreates, TypeOK
  <2>3. QED
    BY <1>5, <2>1, <2>2 DEF ImmichCreates, Apply, TypeOK, files
<1>6. CASE ImmichRemoves(r)
  <2>1. task[r].into \X {task[r].asset} \in SUBSET Pairs
    BY DEF Pairs
  <2>2. members' \in SUBSET Pairs /\ taken' \in SUBSET Pairs
    BY <1>6, <2>1, TakeOutIsTyped DEF ImmichRemoves
  <2>3. QED
    BY <1>6, <2>2 DEF ImmichRemoves, Apply, TypeOK, files
<1>7. CASE Retry(r)
  <2>1. attempt' \in [Requests -> 1..MaxAttempts]
    BY <1>7, NumbersAssumption DEF Retry, TypeOK
  <2>2. QED
    BY <1>7, <2>1 DEF Retry, TypeOK, immich, files, history
<1>8. CASE CallIsAnswered(r)
  <2>1. CASE task[r].kind = "put"
    BY <1>8, <2>1 DEF CallIsAnswered, TypeOK, immich, calls, files, history
  <2>2. CASE task[r].kind # "put"
    BY <1>8, <2>2, EndIsTyped DEF CallIsAnswered, TypeOK, immich, calls, files, history
  <2>3. QED
    BY <2>1, <2>2
<1>9. CASE Finish(r)
  <2>1. receipts' \in [Paths -> SUBSET Assets]
    BY <1>9 DEF Finish, TypeOK
  <2>2. task[r].into \X {task[r].asset} \in SUBSET Pairs
    BY DEF Pairs
  <2>3. QED
    BY <1>9, <2>1, <2>2, EndIsTyped DEF Finish, Unstage, TypeOK, immich
<1>10. CASE Fail(r)
  BY <1>10, EndIsTyped DEF Fail, Unstage, TypeOK, immich, files, history
<1>11. QED
  BY <1>1, <1>2, <1>3, <1>4, <1>5, <1>6, <1>7, <1>8, <1>9, <1>10 DEF Proceed

\* A step of the environment: it begins nothing.
Environment ==
    \/ \E n \in Names : OtherCreates(n)
    \/ \E a \in Album : OtherDeletesAlbum(a)
    \/ \E x \in Assets : OtherDeletesAsset(x)
    \/ \E p \in Paths : ReceiptExpires(p)
    \/ Restart
    \/ UNCHANGED vars

LEMMA EnvironmentIsTyped ==
    ASSUME TypeOK, Environment PROVE TypeOK'
<1>1. ASSUME NEW n \in Names, OtherCreates(n) PROVE TypeOK'
  BY <1>1, NewAlbumIsTyped DEF OtherCreates, TypeOK, progress, calls, files
<1>2. ASSUME NEW a \in Album, OtherDeletesAlbum(a) PROVE TypeOK'
  <2>1. {a.id} \X Assets \in SUBSET Pairs
    BY DEF Pairs, Album
  <2>2. members' \in SUBSET Pairs /\ taken' \in SUBSET Pairs
    BY <1>2, <2>1, TakeOutIsTyped DEF OtherDeletesAlbum
  <2>3. QED
    BY <1>2, <2>2 DEF OtherDeletesAlbum, TypeOK, progress, calls, files
<1>3. ASSUME NEW x \in Assets, OtherDeletesAsset(x) PROVE TypeOK'
  BY <1>3 DEF OtherDeletesAsset, TypeOK, progress, calls, files
<1>4. ASSUME NEW p \in Paths, ReceiptExpires(p) PROVE TypeOK'
  BY <1>4 DEF ReceiptExpires, TypeOK, immich, progress, calls, files, history
<1>5. CASE Restart
  <2>1. receipts' \in [Paths -> SUBSET Assets]
    BY <1>5 DEF Restart, TypeOK
  <2>2. QED
    BY <1>5, <2>1, TasksAreTyped, NumbersAssumption
    DEF Restart, TypeOK, immich, history, Places
<1>6. CASE UNCHANGED vars
  BY <1>6 DEF vars, immich, progress, calls, files, history, TypeOK
<1>7. QED
  BY <1>1, <1>2, <1>3, <1>4, <1>5, <1>6 DEF Environment

\* Every variable keeps its type, so a request makes no more attempts than it
\* may (_request_json).
THEOREM TypeCorrect == Spec => []TypeOK
<1>1. TypeOK /\ [Next]_vars => TypeOK'
  BY BeginIsTyped, ProceedIsTyped, EnvironmentIsTyped DEF Next, Environment
<1>2. QED
  BY InitIsTyped, <1>1, PTL DEF Spec

-----------------------------------------------------------------------------
(***************************************************************************)
(* What no step takes away: an asset that was added to an album stays      *)
(* accounted for, and the folders that there were stay known.              *)
(***************************************************************************)
Kept ==
    /\ deleted \subseteq deleted'
    /\ lists \subseteq lists'
    /\ \A pair \in Seen : pair \in Seen' \/ pair[2] \in deleted'

LEMMA TakeOutKeeps ==
    ASSUME NEW pairs, TakeOut(pairs) PROVE Seen \subseteq Seen'
BY DEF TakeOut, Seen

LEMMA RequestsKeep ==
    ASSUME TypeOK, NEW r \in Requests, Begin(r) \/ Proceed(r) PROVE Kept
<1>1. CASE Begin(r)
  BY <1>1 DEF Begin, PutInAlbum, PutAtRoot, Mkcol, Delete, immich, history, Kept, Seen
<1>2. CASE ImmichAdds(r)
  BY <1>2 DEF ImmichAdds, Apply, Kept, Seen
<1>3. CASE ImmichAddsNothing(r)
  BY <1>3 DEF ImmichAddsNothing, Apply, Kept, Seen
<1>4. CASE ImmichCreates(r)
  BY <1>4 DEF ImmichCreates, NewAlbum, Apply, Kept, Seen
<1>5. CASE ImmichRemoves(r)
  BY <1>5, TakeOutKeeps DEF ImmichRemoves, Apply, Kept
<1>6. CASE ImmichUploads(r) \/ UploadIsAnswered(r) \/ Retry(r) \/ CallIsAnswered(r)
  BY <1>6 DEF ImmichUploads, UploadIsAnswered, Retry, CallIsAnswered, immich, history, Kept, Seen
<1>7. CASE Finish(r) \/ Fail(r)
  BY <1>7 DEF Finish, Fail, immich, history, Kept, Seen
<1>8. QED
  BY <1>1, <1>2, <1>3, <1>4, <1>5, <1>6, <1>7 DEF Proceed

LEMMA EnvironmentKeeps ==
    ASSUME TypeOK, Environment PROVE Kept /\ confirmed' = confirmed
<1>1. ASSUME NEW n \in Names, OtherCreates(n) PROVE Kept /\ confirmed' = confirmed
  BY <1>1 DEF OtherCreates, NewAlbum, Kept, Seen
<1>2. ASSUME NEW a \in Album, OtherDeletesAlbum(a) PROVE Kept /\ confirmed' = confirmed
  BY <1>2, TakeOutKeeps DEF OtherDeletesAlbum, Kept
<1>3. ASSUME NEW x \in Assets, OtherDeletesAsset(x) PROVE Kept /\ confirmed' = confirmed
  BY <1>3 DEF OtherDeletesAsset, Kept, Seen
<1>4. ASSUME NEW p \in Paths, ReceiptExpires(p) PROVE Kept /\ confirmed' = confirmed
  BY <1>4 DEF ReceiptExpires, immich, history, Kept, Seen
<1>5. CASE Restart
  BY <1>5 DEF Restart, immich, history, Kept, Seen
<1>6. CASE UNCHANGED vars
  BY <1>6 DEF vars, immich, history, Kept, Seen
<1>7. QED
  BY <1>1, <1>2, <1>3, <1>4, <1>5, <1>6 DEF Environment

\* A request that stays what it is keeps what is known of it.
LEMMA FrameRequest ==
    ASSUME TypeOK, Kept, NEW u \in Requests, RequestInv(u),
           pc'[u] = pc[u], task'[u] = task[u], Staged(u)' <=> Staged(u)
    PROVE  RequestInv(u)'
<1>1. Rooted(u) => Rooted(u)'
  BY DEF Rooted, Folder, Kept
<1>2. Placed(u) => Placed(u)'
  <2>1. ASSUME NEW a \in task[u].into, <<a, task[u].asset>> \in Seen \/ task[u].asset \in deleted
        PROVE  <<a, task[u].asset>> \in Seen' \/ task[u].asset \in deleted'
    BY <2>1 DEF Kept
  <2>2. QED
    BY <2>1 DEF Placed
<1>3. QED
  BY <1>1, <1>2 DEF RequestInv

\* A request that is over, or was never begun.
LEMMA EndKeepsRequest ==
    ASSUME NEW u, pc'[u] = "idle", task'[u] = NoTask, ~Staged(u)'
    PROVE  RequestInv(u)'
BY DEF RequestInv, Rooted, NoTask, Put, NoPath

LEMMA ConfirmedStay ==
    ASSUME Kept, ConfirmedUploadIsInAlbum,
           \A pair \in confirmed' \ confirmed : pair \in Seen' \/ pair[2] \in deleted'
    PROVE  ConfirmedUploadIsInAlbum'
BY DEF Kept, ConfirmedUploadIsInAlbum

LEMMA ReceiptsStay ==
    ASSUME TypeOK, Kept, ReceiptIsHonest,
           \A p \in Paths : \A x \in receipts'[p] \ receipts[p] :
               p.folder # <<>> =>
                   \E list \in lists' : \E a \in list :
                       Folder(list, a) = p.folder /\ (<<a.id, x>> \in Seen' \/ x \in deleted')
    PROVE  ReceiptIsHonest'
<1>1. ASSUME NEW p \in Paths, NEW x \in receipts[p], p.folder # <<>>
      PROVE  \E list \in lists' : \E a \in list :
                 Folder(list, a) = p.folder /\ (<<a.id, x>> \in Seen' \/ x \in deleted')
  <2>1. PICK list \in lists : \E a \in list :
            Folder(list, a) = p.folder /\ (<<a.id, x>> \in Seen \/ x \in deleted)
    BY <1>1 DEF ReceiptIsHonest
  <2>2. PICK a \in list : Folder(list, a) = p.folder /\ (<<a.id, x>> \in Seen \/ x \in deleted)
    BY <2>1
  <2>3. list \in lists' /\ (<<a.id, x>> \in Seen' \/ x \in deleted')
    BY <2>2 DEF Kept
  <2>4. QED
    BY <2>2, <2>3
<1>2. QED
  BY <1>1 DEF ReceiptIsHonest, Folder

-----------------------------------------------------------------------------
(***************************************************************************)
(* The invariant of requests, with what is confirmed and remembered.       *)
(***************************************************************************)
LEMMA InitIsSafe == Init => IInv
<1>1. Init => TypeOK
  BY InitIsTyped
<1>2. ASSUME Init, NEW r \in Requests PROVE RequestInv(r)
  BY <1>2 DEF Init, RequestInv, Staged, Rooted, NoTask, Put, NoPath
<1>3. Init => ConfirmedUploadIsInAlbum /\ ReceiptIsHonest
  BY DEF Init, ConfirmedUploadIsInAlbum, ReceiptIsHonest
<1>4. QED
  BY <1>1, <1>2, <1>3 DEF IInv, WriteInv

\* A step of r leaves the other requests as they are.
LEMMA OthersAreLeft ==
    ASSUME TypeOK, NEW r \in Requests, Begin(r) \/ Proceed(r),
           NEW u \in Requests, u # r
    PROVE  pc'[u] = pc[u] /\ task'[u] = task[u] /\ (Staged(u)' <=> Staged(u))
<1>. USE DEF Staged, files
<1>1. CASE Begin(r)
  BY <1>1 DEF Begin, PutInAlbum, PutAtRoot, Mkcol, Delete, Start, Goto, TypeOK
<1>2. CASE ImmichUploads(r) \/ UploadIsAnswered(r) \/ Retry(r)
  BY <1>2 DEF ImmichUploads, UploadIsAnswered, Retry, Goto, TypeOK
<1>3. CASE ImmichAdds(r) \/ ImmichAddsNothing(r) \/ ImmichCreates(r) \/ ImmichRemoves(r)
  BY <1>3 DEF ImmichAdds, ImmichAddsNothing, ImmichCreates, ImmichRemoves, Apply, Goto, TypeOK
<1>4. CASE CallIsAnswered(r)
  BY <1>4 DEF CallIsAnswered, End, Goto, TypeOK
<1>5. CASE Finish(r) \/ Fail(r)
  BY <1>5 DEF Finish, Fail, Unstage, End, Goto, TypeOK
<1>6. QED
  BY <1>1, <1>2, <1>3, <1>4, <1>5 DEF Proceed

LEMMA BeginIsSafe ==
    ASSUME IInv, NEW r \in Requests, Begin(r) PROVE RequestInv(r)'
<1>. TypeOK
  BY DEF IInv
<1>1. ASSUME NEW p \in Paths, NEW x \in Assets, PutInAlbum(r, p, x) PROVE RequestInv(r)'
  <2>1. PICK list \in lists : \E b \in list :
            Folder(list, b) = p.folder /\ Start(r, "uploading", Put(p, {b.id}, x))
    BY <1>1 DEF PutInAlbum
  <2>2. PICK a \in list : Folder(list, a) = p.folder /\ Start(r, "uploading", Put(p, {a.id}, x))
    BY <2>1
  <2>3. pc'[r] = "uploading" /\ task'[r] = Put(p, {a.id}, x) /\ list \in lists'
    BY <1>1, <2>2 DEF Start, Goto, TypeOK, PutInAlbum, history
  <2>4. Rooted(r)'
    <3>1. task'[r].path = p /\ task'[r].into = {a.id}
      BY <2>3 DEF Put
    <3>2. Folder(list, a) = task'[r].path.folder
      BY <2>2, <3>1
    <3>3. QED
      BY <2>3, <3>1, <3>2 DEF Rooted, Folder
  <2>5. QED
    BY <2>3, <2>4 DEF RequestInv, Put
<1>2. ASSUME NEW p \in Paths, NEW x \in Assets, PutAtRoot(r, p, x) PROVE RequestInv(r)'
  <2>1. pc'[r] = "uploading" /\ task'[r] = Put(p, {}, x) /\ p.folder = <<>>
    BY <1>2 DEF PutAtRoot, Start, Goto, TypeOK
  <2>2. QED
    BY <2>1 DEF RequestInv, Rooted, Put
<1>3. ASSUME NEW n \in Names, Mkcol(r, n) PROVE RequestInv(r)'
  <2>1. pc'[r] = "calling" /\ task'[r] = MakeAlbum(n) /\ ~Staged(r)'
    BY <1>3 DEF Mkcol, Start, Goto, TypeOK, MakeAlbum, Staged
  <2>2. QED
    BY <2>1 DEF RequestInv, MakeAlbum
<1>4. ASSUME NEW a \in AlbumIds, NEW x \in Assets, Delete(r, a, x) PROVE RequestInv(r)'
  <2>1. pc'[r] = "calling" /\ task'[r] = Remove(a, x) /\ ~Staged(r)'
    BY <1>4 DEF Delete, Start, Goto, TypeOK, Remove, Staged
  <2>2. QED
    BY <2>1 DEF RequestInv, Remove
<1>5. QED
  BY <1>1, <1>2, <1>3, <1>4 DEF Begin

LEMMA ProceedIsSafe ==
    ASSUME IInv, NEW r \in Requests, Proceed(r) PROVE RequestInv(r)'
<1>. TypeOK /\ RequestInv(r)
  BY DEF IInv, WriteInv
<1>. files' = files => (Staged(r)' <=> Staged(r))
  BY DEF Staged, files
<1>0. Kept
  BY RequestsKeep
<1>1. Rooted(r) /\ task'[r] = task[r] => Rooted(r)'
  BY <1>0 DEF Rooted, Folder, Kept
<1>2. Placed(r) /\ task'[r] = task[r] => Placed(r)'
  <2>1. ASSUME NEW a \in task[r].into, <<a, task[r].asset>> \in Seen \/ task[r].asset \in deleted
        PROVE  <<a, task[r].asset>> \in Seen' \/ task[r].asset \in deleted'
    BY <1>0, <2>1 DEF Kept
  <2>2. QED
    BY <2>1 DEF Placed
<1>3. CASE ImmichUploads(r) \/ Retry(r)
  <2>1. /\ pc'[r] \in {"uploaded", "calling"} /\ task'[r] = task[r] /\ (Staged(r)' <=> Staged(r))
        /\ pc'[r] = "uploaded" => pc[r] = "uploading"
    BY <1>3 DEF ImmichUploads, Retry, Goto, TypeOK
  <2>2. QED
    BY <1>1, <2>1 DEF RequestInv
<1>4. CASE UploadIsAnswered(r)
  <2>1. /\ pc[r] = "uploaded" /\ task'[r] = task[r] /\ (Staged(r)' <=> Staged(r))
        /\ pc'[r] = "calling" \/ (pc'[r] = "added" /\ task[r].into = {})
    BY <1>4 DEF UploadIsAnswered, Goto, TypeOK
  <2>2. task[r].into = {} => Placed(r)'
    BY <2>1 DEF Placed
  <2>3. QED
    BY <1>1, <2>1, <2>2 DEF RequestInv
<1>5. CASE ImmichAdds(r)
  <2>1. PICK a \in albums : /\ task[r].into = {a.id}
                            /\ members' = members \cup {<<a.id, task[r].asset>>}
    BY <1>5 DEF ImmichAdds
  <2>2. pc'[r] = "applied" /\ task'[r] = task[r] /\ (Staged(r)' <=> Staged(r))
    BY <1>5 DEF ImmichAdds, Apply, Goto, TypeOK
  <2>3. Placed(r)'
    BY <2>1, <2>2 DEF Placed, Seen
  <2>4. QED
    BY <1>1, <2>2, <2>3 DEF RequestInv
<1>6. CASE ImmichAddsNothing(r)
  <2>1. /\ pc'[r] = "applied" /\ task'[r] = task[r] /\ (Staged(r)' <=> Staged(r))
        /\ task[r].asset \in deleted'
    BY <1>6 DEF ImmichAddsNothing, Apply, Goto, TypeOK
  <2>2. QED
    BY <1>1, <2>1 DEF RequestInv, Placed
<1>7. CASE ImmichCreates(r) \/ ImmichRemoves(r)
  <2>1. /\ pc'[r] = "applied" /\ task'[r] = task[r] /\ (Staged(r)' <=> Staged(r))
        /\ task[r].kind # "put"
    BY <1>7 DEF ImmichCreates, ImmichRemoves, Apply, Goto, TypeOK
  <2>2. QED
    BY <2>1 DEF RequestInv
<1>8. CASE CallIsAnswered(r)
  <2>1. ASSUME task[r].kind = "put" PROVE RequestInv(r)'
    <3>1. pc[r] = "applied" /\ pc'[r] = "added" /\ task'[r] = task[r] /\ (Staged(r)' <=> Staged(r))
      BY <1>8, <2>1 DEF CallIsAnswered, Goto, TypeOK
    <3>2. QED
      BY <1>1, <1>2, <2>1, <3>1 DEF RequestInv
  <2>2. ASSUME task[r].kind # "put" PROVE RequestInv(r)'
    <3>1. pc'[r] = "idle" /\ task'[r] = NoTask /\ (Staged(r)' <=> Staged(r)) /\ ~Staged(r)
      BY <1>8, <2>2 DEF CallIsAnswered, End, Goto, TypeOK, RequestInv
    <3>2. QED
      BY <3>1, EndKeepsRequest
  <2>3. QED
    BY <2>1, <2>2
<1>9. CASE Finish(r) \/ Fail(r)
  <2>1. pc'[r] = "idle" /\ task'[r] = NoTask
    BY <1>9 DEF Finish, Fail, End, Goto, TypeOK
  <2>2. ~Staged(r)'
    <3>1. CASE task[r].kind = "put"
      BY <1>9, <3>1 DEF Finish, Fail, Unstage, Staged
    <3>2. CASE task[r].kind # "put"
      BY <1>9, <3>2 DEF Finish, Fail, RequestInv
    <3>3. QED
      BY <3>1, <3>2
  <2>3. QED
    BY <2>1, <2>2, EndKeepsRequest
<1>10. QED
  BY <1>3, <1>4, <1>5, <1>6, <1>7, <1>8, <1>9 DEF Proceed

\* Only Finish confirms an upload or remembers it.
LEMMA OthersConfirmNothing ==
    ASSUME NEW r \in Requests, Begin(r) \/ (Proceed(r) /\ ~Finish(r))
    PROVE  confirmed' = confirmed /\ receipts' = receipts
BY DEF Begin, PutInAlbum, PutAtRoot, Mkcol, Delete, Proceed, ImmichUploads, UploadIsAnswered,
       ImmichAdds, ImmichAddsNothing, ImmichCreates, ImmichRemoves, Apply, Retry,
       CallIsAnswered, Fail, history

LEMMA FinishIsSafe ==
    ASSUME IInv, NEW r \in Requests, Finish(r)
    PROVE  ConfirmedUploadIsInAlbum' /\ ReceiptIsHonest'
<1>. TypeOK /\ RequestInv(r)
  BY DEF IInv, WriteInv
<1>1. Kept
  BY RequestsKeep DEF Proceed
<1>2. Placed(r) /\ Rooted(r) /\ Seen' = Seen /\ deleted' = deleted /\ lists' = lists
  BY DEF Finish, RequestInv, immich, Seen
<1>3. ConfirmedUploadIsInAlbum'
  <2>1. ASSUME NEW pair \in task[r].into \X {task[r].asset}
        PROVE  pair \in Seen' \/ pair[2] \in deleted'
    BY <1>2 DEF Placed
  <2>2. confirmed' = confirmed \cup (task[r].into \X {task[r].asset})
    BY DEF Finish
  <2>3. QED
    BY <1>1, <2>1, <2>2, ConfirmedStay DEF IInv
<1>4. ReceiptIsHonest'
  <2>1. ASSUME NEW p \in Paths, NEW x \in receipts'[p] \ receipts[p], p.folder # <<>>
        PROVE  \E list \in lists' : \E a \in list :
                   Folder(list, a) = p.folder /\ (<<a.id, x>> \in Seen' \/ x \in deleted')
    <3>1. p = task[r].path /\ x = task[r].asset
      BY <2>1 DEF Finish, TypeOK
    <3>2. PICK list \in lists : \E a \in list :
              Folder(list, a) = p.folder /\ task[r].into = {a.id}
      BY <1>2, <2>1, <3>1 DEF Rooted
    <3>3. PICK a \in list : Folder(list, a) = p.folder /\ task[r].into = {a.id}
      BY <3>2
    <3>4. QED
      BY <1>2, <3>1, <3>3 DEF Placed
  <2>2. QED
    BY <1>1, <2>1, ReceiptsStay DEF IInv
<1>5. QED
  BY <1>3, <1>4

LEMMA RequestsAreSafe ==
    ASSUME IInv, NEW r \in Requests, Begin(r) \/ Proceed(r) PROVE IInv'
<1>. TypeOK
  BY DEF IInv
<1>0. Kept /\ TypeOK'
  BY RequestsKeep, BeginIsTyped, ProceedIsTyped
<1>1. ASSUME NEW u \in Requests PROVE RequestInv(u)'
  <2>1. CASE u = r
    BY <2>1, BeginIsSafe, ProceedIsSafe
  <2>2. CASE u # r
    <3>1. RequestInv(u)
      BY DEF IInv, WriteInv
    <3>2. pc'[u] = pc[u] /\ task'[u] = task[u] /\ (Staged(u)' <=> Staged(u))
      BY <2>2, OthersAreLeft
    <3>3. QED
      BY <1>0, <3>1, <3>2, FrameRequest
  <2>3. QED
    BY <2>1, <2>2
<1>2. ConfirmedUploadIsInAlbum' /\ ReceiptIsHonest'
  <2>1. CASE Finish(r)
    BY <2>1, FinishIsSafe
  <2>2. CASE ~Finish(r)
    <3>1. confirmed' = confirmed /\ receipts' = receipts
      BY <2>2, OthersConfirmNothing
    <3>2. QED
      BY <1>0, <3>1, ConfirmedStay, ReceiptsStay DEF IInv
  <2>3. QED
    BY <2>1, <2>2
<1>3. QED
  BY <1>0, <1>1, <1>2 DEF IInv, WriteInv

LEMMA EnvironmentIsSafe ==
    ASSUME IInv, Environment PROVE IInv'
<1>. TypeOK
  BY DEF IInv
<1>0. Kept /\ TypeOK' /\ confirmed' = confirmed
  BY EnvironmentKeeps, EnvironmentIsTyped
<1>1. ASSUME NEW u \in Requests PROVE RequestInv(u)'
  <2>1. CASE Restart
    BY <2>1, EndKeepsRequest DEF Restart, Staged
  <2>2. CASE ~Restart
    <3>1. pc' = pc /\ task' = task /\ files' = files
      BY <2>2 DEF Environment, OtherCreates, OtherDeletesAlbum, OtherDeletesAsset,
                  ReceiptExpires, vars, progress
    <3>2. Staged(u)' <=> Staged(u)
      BY <3>1 DEF Staged, files
    <3>3. QED
      BY <1>0, <3>1, <3>2, FrameRequest DEF IInv, WriteInv
  <2>3. QED
    BY <2>1, <2>2
<1>2. ConfirmedUploadIsInAlbum'
  BY <1>0, ConfirmedStay DEF IInv
<1>3. ReceiptIsHonest'
  <2>1. ASSUME NEW p \in Paths PROVE receipts'[p] \subseteq receipts[p]
    BY <2>1 DEF Environment, OtherCreates, OtherDeletesAlbum, OtherDeletesAsset,
                ReceiptExpires, Restart, vars, TypeOK
  <2>2. QED
    BY <1>0, <2>1, ReceiptsStay DEF IInv
<1>4. QED
  BY <1>0, <1>1, <1>2, <1>3 DEF IInv, WriteInv

LEMMA Safety == Spec => []IInv
<1>1. IInv /\ [Next]_vars => IInv'
  BY RequestsAreSafe, EnvironmentIsSafe DEF Next, Environment
<1>2. QED
  BY InitIsSafe, <1>1, PTL DEF Spec

\* An upload to an album is confirmed only when it is in the album
\* (ImmichProvider.upload_asset).
THEOREM UploadsAreInAlbums == Spec => []ConfirmedUploadIsInAlbum
BY Safety, PTL DEF IInv

\* A receipt answers only for what was put where its path says
\* (remember_upload_receipt).
THEOREM ReceiptsAreHonest == Spec => []ReceiptIsHonest
BY Safety, PTL DEF IInv

\* When a request is over, so is its temporary file, but for the unlink that
\* fails and the process that is killed (UploadResource.end_write).
THEOREM StagingFollowsRequests == Spec => []StagingIsCleaned
<1>1. IInv => StagingIsCleaned
  BY DEF IInv, TypeOK, WriteInv, RequestInv, Staged, StagingIsCleaned
<1>2. QED
  BY Safety, <1>1, PTL
=============================================================================
