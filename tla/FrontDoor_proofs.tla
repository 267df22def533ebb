--------------------------- MODULE FrontDoor_proofs ---------------------------
(***************************************************************************)
(* Proofs about FrontDoor, for every number of workers and every value of  *)
(* the limits: permits are conserved, so the limits are respected, and the *)
(* failure limit is overshot by less than the number of requests that run  *)
(* at the same time.                                                       *)
(***************************************************************************)
EXTENDS FrontDoor, FiniteSetTheorems, TLAPS

\* The cardinality of a set of workers to which one is added.
LEMMA OneMore ==
    ASSUME NEW S \in SUBSET Workers, NEW w \in Workers, w \notin S
    PROVE  Cardinality(S \cup {w}) = Cardinality(S) + 1
BY WorkersAssumption, FS_Subset, FS_AddElement

\* The cardinality of a set of workers from which one is taken.
LEMMA OneLess ==
    ASSUME NEW S \in SUBSET Workers, NEW w \in S
    PROVE  Cardinality(S) = Cardinality(S \ {w}) + 1
<1>1. S \ {w} \in SUBSET Workers /\ w \in Workers /\ w \notin S \ {w} /\ S = (S \ {w}) \cup {w}
  OBVIOUS
<1>2. QED
  BY <1>1, OneMore

\* Sets of workers have a cardinality, and a smaller set a smaller one.
LEMMA Counting ==
    /\ \A S \in SUBSET Workers : Cardinality(S) \in Nat
    /\ \A S, T \in SUBSET Workers : S \subseteq T => Cardinality(S) <= Cardinality(T)
BY WorkersAssumption, FS_Subset, FS_CardinalityType

IInv == TypeOK /\ PermitInv

\* A step of w changes nothing else but the place, the locals and the permits
\* of w, and keeps both sums: then it keeps PermitInv.
LEMMA FramePermits ==
    ASSUME TypeOK, PermitInv, NEW w \in Workers,
           \A u \in Workers \ {w} :
               pc'[u] = pc[u] /\ acquired'[u] = acquired[u] /\ method'[u] = method[u],
           AcquiredInv(w)',
           NoPermitIsLost'
    PROVE  PermitInv'
<1>1. ASSUME NEW u \in Workers, u # w PROVE AcquiredInv(u)'
  <2>1. AcquiredInv(u)
    BY DEF PermitInv
  <2>2. u \in Streaming' <=> u \in Streaming
    BY <1>1 DEF Streaming
  <2>3. QED
    BY <1>1, <2>1, <2>2 DEF AcquiredInv
<1>2. QED
  BY <1>1 DEF PermitInv

\* A step of w inside the application keeps PermitInv.
LEMMA InsidePermits ==
    ASSUME TypeOK, PermitInv, NEW w \in Workers, NEW place \in InApp,
           pc[w] \in InApp, Goto(w, place), UNCHANGED <<limiters, method>>
    PROVE  PermitInv' /\ pc' \in [Workers -> {"idle", "admitted"} \cup InApp \cup Leaving]
<1>1. /\ pc'[w] = place /\ \A u \in Workers \ {w} : pc'[u] = pc[u]
      /\ pc' \in [Workers -> {"idle", "admitted"} \cup InApp \cup Leaving]
  BY DEF Goto, TypeOK
<1>2. place # "idle" /\ pc[w] # "idle" /\ place # "released" /\ pc[w] # "released"
  BY DEF InApp, Authenticating
<1>3. Busy' = Busy /\ Streaming' = Streaming
  BY <1>1, <1>2 DEF Busy, Streaming
<1>4. NoPermitIsLost'
  BY <1>3 DEF PermitInv, NoPermitIsLost, limiters
<1>5. AcquiredInv(w)'
  BY <1>1, <1>2, <1>3 DEF PermitInv, AcquiredInv, limiters
<1>6. QED
  BY <1>1, <1>4, <1>5, FramePermits DEF limiters

\* The failure counter that a failure leaves is well-typed.
LEMMA CounterType ==
    ASSUME TypeOK
    PROVE  /\ [count |-> 1, left |-> Window] \in Counter
           /\ [count |-> 1, left |-> Never] \in Counter
           /\ \A c \in failures :
                /\ [c EXCEPT !.count = @ + 1] \in Counter
                /\ [c EXCEPT !.left = Window] \in Counter
                /\ c.left > 0 => [c EXCEPT !.left = @ - 1] \in Counter
BY NumbersAssumption DEF TypeOK, Counter, Never

\* The steps of basic_auth_user.
LEMMA AuthenticatePermits ==
    ASSUME TypeOK, PermitInv, NEW w \in Workers, Authenticate(w)
    PROVE  TypeOK' /\ PermitInv'
<1> DEFINE Places == {"idle", "admitted"} \cup InApp \cup Leaving
<1>1. /\ pc[w] \in InApp
      /\ \E place \in InApp : Goto(w, place)
      /\ UNCHANGED <<limiters, method>>
      /\ backend' = backend
  BY DEF Authenticate, PassCheck, FailCheck, NoCredentials, KeyIsRight, KeyIsWrong,
         CountInMemory, CountInRedis, Expire, CountIsLost, InApp, Authenticating
<1>2. PermitInv' /\ pc' \in [Workers -> Places]
  BY <1>1, InsidePermits
<1>3. failures' \in SUBSET Counter /\ \A c, d \in failures' : c = d
  <2>1. CASE failures' = failures
    BY <2>1 DEF TypeOK
  <2>2. CASE failures' = {[count |-> 1, left |-> Window]}
    BY <2>2, CounterType
  <2>3. CASE failures' = {[count |-> 1, left |-> Never]}
    BY <2>3, CounterType
  <2>4. CASE failures' = {[c EXCEPT !.count = @ + 1] : c \in failures}
    BY <2>4, CounterType, Zenon DEF TypeOK
  <2>5. CASE failures' = {[c EXCEPT !.left = Window] : c \in failures}
    BY <2>5, CounterType, Zenon DEF TypeOK
  <2>6. QED
    BY <2>1, <2>2, <2>3, <2>4, <2>5, Zenon
       DEF Authenticate, PassCheck, FailCheck, NoCredentials, KeyIsRight, KeyIsWrong,
           CountInMemory, CountInRedis, Expire, CountIsLost
<1>4. QED
  BY <1>1, <1>2, <1>3 DEF TypeOK, limiters

\* What moving one worker does to the places of all.
LEMMA Moved ==
    ASSUME TypeOK, NEW w \in Workers,
           NEW place \in {"idle", "admitted"} \cup InApp \cup Leaving, Goto(w, place)
    PROVE  /\ pc'[w] = place
           /\ \A u \in Workers \ {w} : pc'[u] = pc[u]
           /\ pc' \in [Workers -> {"idle", "admitted"} \cup InApp \cup Leaving]
BY DEF Goto, TypeOK

\* A worker is counted among the busy from its admission to its return, and
\* the permits are counted with it.
LEMMA Sums ==
    ASSUME TypeOK, PermitInv
    PROVE  /\ Cardinality(Busy) \in Nat /\ Cardinality(Streaming) \in Nat
           /\ MaxRequests > 0 => requestPermits = MaxRequests - Cardinality(Busy)
           /\ MaxStreams > 0 => streamPermits = MaxStreams - Cardinality(Streaming)
<1>1. Cardinality(Busy) \in Nat /\ Cardinality(Streaming) \in Nat
  BY Counting DEF Busy, Streaming
<1>2. QED
  BY <1>1, NumbersAssumption DEF TypeOK, PermitInv, NoPermitIsLost

\* An admission takes a request permit.
LEMMA AdmitPermits ==
    ASSUME TypeOK, PermitInv, NEW w \in Workers, NEW m \in {"GET", "other"}, Admit(w, m)
    PROVE  TypeOK' /\ PermitInv'
<1>1. /\ pc'[w] = "admitted" /\ \A u \in Workers \ {w} : pc'[u] = pc[u]
      /\ pc' \in [Workers -> {"idle", "admitted"} \cup InApp \cup Leaving]
  BY Moved DEF Admit
<1>2. /\ pc[w] = "idle" /\ method' \in [Workers -> {"GET", "other"}]
      /\ \A u \in Workers \ {w} : method'[u] = method[u]
      /\ UNCHANGED <<backend, streamPermits, failures>>
  BY DEF Admit, TypeOK
<1>3. Busy' = Busy \cup {w} /\ w \notin Busy /\ Busy \in SUBSET Workers
  BY <1>1, <1>2 DEF Busy
<1>4. Streaming' = Streaming /\ w \notin Streaming
  BY <1>1, <1>2 DEF Streaming, InApp, Authenticating
<1>5. Cardinality(Busy') = Cardinality(Busy) + 1
  BY <1>3, OneMore
<1>6. AcquiredInv(w)
  BY DEF PermitInv
<1>7. /\ requestPermits' \in 0..MaxRequests
      /\ acquired' \in [Workers -> SUBSET {"request", "stream"}]
      /\ \A u \in Workers \ {w} : acquired'[u] = acquired[u]
      /\ MaxRequests > 0 => requestPermits' = requestPermits - 1
      /\ acquired'[w] = IF MaxRequests > 0 THEN {"request"} ELSE acquired[w]
  BY NumbersAssumption DEF Admit, TypeOK
<1>8. NoPermitIsLost'
  BY <1>2, <1>4, <1>5, <1>7, Sums DEF NoPermitIsLost, TypeOK, PermitInv
<1>9. AcquiredInv(w)'
  BY <1>1, <1>2, <1>4, <1>6, <1>7 DEF AcquiredInv
<1>10. PermitInv'
  BY <1>1, <1>2, <1>7, <1>8, <1>9, FramePermits
<1>11. QED
  BY <1>1, <1>2, <1>7, <1>10 DEF TypeOK

\* A GET request takes a stream permit as it enters the application.
LEMMA CallAppPermits ==
    ASSUME TypeOK, PermitInv, NEW w \in Workers, CallApp(w)
    PROVE  TypeOK' /\ PermitInv'
<1>1. "called" \in InApp
  BY DEF InApp, Authenticating
<1>2. /\ pc'[w] = "called" /\ \A u \in Workers \ {w} : pc'[u] = pc[u]
      /\ pc' \in [Workers -> {"idle", "admitted"} \cup InApp \cup Leaving]
  BY <1>1, Moved DEF CallApp
<1>3. pc[w] = "admitted" /\ UNCHANGED <<backend, requestPermits, method, failures>>
  BY DEF CallApp
<1>4. Busy' = Busy /\ w \notin Streaming /\ Streaming \in SUBSET Workers
  BY <1>2, <1>3 DEF Busy, Streaming, InApp, Authenticating
<1>5. AcquiredInv(w)
  BY DEF PermitInv
<1>6. CASE method[w] = "GET" /\ MaxStreams > 0
  <2>1. /\ streamPermits' = streamPermits - 1 /\ streamPermits' \in 0..MaxStreams
        /\ acquired' \in [Workers -> SUBSET {"request", "stream"}]
        /\ \A u \in Workers \ {w} : acquired'[u] = acquired[u]
        /\ acquired'[w] = acquired[w] \cup {"stream"}
    BY <1>6, NumbersAssumption DEF CallApp, TypeOK
  <2>2. Streaming' = Streaming \cup {w}
    BY <1>1, <1>2, <1>3, <1>4, <1>6 DEF Streaming
  <2>3. Cardinality(Streaming') = Cardinality(Streaming) + 1
    BY <1>4, <2>2, OneMore
  <2>4. NoPermitIsLost'
    BY <1>3, <1>4, <2>1, <2>3, Sums DEF NoPermitIsLost, TypeOK, PermitInv
  <2>5. AcquiredInv(w)'
    BY <1>2, <1>3, <1>5, <1>6, <2>1, <2>2 DEF AcquiredInv
  <2>6. PermitInv'
    BY <1>2, <1>3, <2>1, <2>4, <2>5, FramePermits
  <2>7. QED
    BY <1>2, <1>3, <2>1, <2>6 DEF TypeOK
<1>7. CASE ~(method[w] = "GET" /\ MaxStreams > 0)
  <2>1. UNCHANGED <<streamPermits, acquired>>
    BY <1>7 DEF CallApp
  <2>2. MaxStreams > 0 => Streaming' = Streaming
    BY <1>2, <1>3, <1>4, <1>7 DEF Streaming
  <2>3. NoPermitIsLost'
    BY <1>3, <1>4, <2>1, <2>2 DEF NoPermitIsLost, PermitInv
  <2>4. AcquiredInv(w)'
    BY <1>2, <1>3, <1>5, <2>1, <2>2 DEF AcquiredInv
  <2>5. PermitInv'
    BY <1>2, <1>3, <2>1, <2>3, <2>4, FramePermits
  <2>6. QED
    BY <1>2, <1>3, <2>1, <2>5 DEF TypeOK
<1>8. QED
  BY <1>6, <1>7

\* The request permit goes back when the worker returns.
LEMMA ReturnRequest ==
    ASSUME TypeOK, PermitInv, NEW w \in Workers, pc[w] # "idle", ReleaseRequest(w), Return(w)
    PROVE  /\ requestPermits' \in 0..MaxRequests
           /\ MaxRequests > 0 => requestPermits' + Cardinality(Busy') = MaxRequests
           /\ pc' \in [Workers -> {"idle", "admitted"} \cup InApp \cup Leaving]
           /\ acquired' \in [Workers -> SUBSET {"request", "stream"}]
           /\ \A u \in Workers \ {w} : pc'[u] = pc[u] /\ acquired'[u] = acquired[u]
           /\ pc'[w] = "idle" /\ acquired'[w] = {}
<1>1. /\ pc'[w] = "idle" /\ \A u \in Workers \ {w} : pc'[u] = pc[u]
      /\ pc' \in [Workers -> {"idle", "admitted"} \cup InApp \cup Leaving]
  BY Moved DEF Return
<1>2. /\ acquired' \in [Workers -> SUBSET {"request", "stream"}]
      /\ \A u \in Workers \ {w} : acquired'[u] = acquired[u]
      /\ acquired'[w] = {}
  BY DEF Return, TypeOK
<1>3. Busy' = Busy \ {w} /\ w \in Busy /\ Busy \in SUBSET Workers
  BY <1>1 DEF Busy
<1>4. Cardinality(Busy) = Cardinality(Busy') + 1 /\ Cardinality(Busy') \in Nat
  <2>1. Busy' \in SUBSET Workers
    BY <1>3
  <2>2. QED
    BY <1>3, <2>1, OneLess, Counting
<1>5. "request" \in acquired[w] <=> MaxRequests > 0
  BY DEF PermitInv, AcquiredInv
<1>6. /\ requestPermits' \in 0..MaxRequests
      /\ MaxRequests > 0 => requestPermits' + Cardinality(Busy') = MaxRequests
  BY <1>4, <1>5, Sums, NumbersAssumption DEF ReleaseRequest, TypeOK
<1>7. QED
  BY <1>1, <1>2, <1>6

\* The stream permit goes back when the worker leaves Streaming.
LEMMA ReturnStream ==
    ASSUME TypeOK, PermitInv, NEW w \in Workers, pc[w] # "released", ReleaseStream(w),
           Streaming' = Streaming \ {w}
    PROVE  /\ streamPermits' \in 0..MaxStreams
           /\ MaxStreams > 0 => streamPermits' + Cardinality(Streaming') = MaxStreams
<1>1. Streaming \in SUBSET Workers /\ Streaming' \in SUBSET Workers
  BY DEF Streaming
<1>2. Cardinality(Streaming') \in Nat
  BY <1>1, Counting
<1>3. "stream" \in acquired[w] <=> MaxStreams > 0 /\ w \in Streaming
  BY DEF PermitInv, AcquiredInv
<1>4. CASE w \in Streaming
  <2>1. Cardinality(Streaming) = Cardinality(Streaming') + 1
    BY <1>1, <1>4, OneLess
  <2>2. QED
    BY <1>2, <1>3, <1>4, <2>1, Sums, NumbersAssumption DEF ReleaseStream, TypeOK
<1>5. CASE w \notin Streaming
  <2>1. Streaming' = Streaming
    BY <1>5
  <2>2. streamPermits' = streamPermits
    BY <1>3, <1>5 DEF ReleaseStream
  <2>3. Cardinality(Streaming') = Cardinality(Streaming)
    BY <2>1
  <2>4. QED
    BY <2>2, <2>3, NumbersAssumption DEF TypeOK, PermitInv, NoPermitIsLost
<1>6. QED
  BY <1>4, <1>5

\* The ways out of the middleware.
LEMMA LeavePermits ==
    ASSUME TypeOK, PermitInv, NEW w \in Workers, Leave(w)
    PROVE  TypeOK' /\ PermitInv'
<1>1. pc[w] # "idle" /\ UNCHANGED <<backend, method, failures>>
  BY DEF Leave, RejectStream, CallFails, StopIteration, FinallyStream, FinallyRequest,
         Return, InApp, Authenticating
<1>2. AcquiredInv(w)
  BY DEF PermitInv
<1>3. ASSUME ReleaseRequest(w), Return(w),
             streamPermits' \in 0..MaxStreams,
             MaxStreams > 0 => streamPermits' + Cardinality(Streaming') = MaxStreams
      PROVE  TypeOK' /\ PermitInv'
  <2>1. NoPermitIsLost'
    BY <1>1, <1>3, ReturnRequest DEF NoPermitIsLost
  <2>2. AcquiredInv(w)'
    BY <1>1, <1>3, ReturnRequest DEF AcquiredInv, Streaming, InApp, Authenticating
  <2>3. PermitInv'
    BY <1>1, <1>3, <2>1, <2>2, ReturnRequest, FramePermits
  <2>4. QED
    BY <1>1, <1>3, <2>3, ReturnRequest DEF TypeOK
<1>4. ASSUME Return(w) PROVE Streaming' = Streaming \ {w}
  BY <1>1, <1>4, Moved DEF Return, Streaming, InApp, Authenticating
<1>5. CASE RejectStream(w)
  <2>1. ReleaseRequest(w) /\ Return(w) /\ UNCHANGED streamPermits /\ pc[w] = "admitted"
    BY <1>5 DEF RejectStream
  <2>2. Streaming' = Streaming
    BY <1>4, <2>1 DEF Streaming, InApp, Authenticating
  <2>3. QED
    BY <1>3, <2>1, <2>2 DEF TypeOK, PermitInv, NoPermitIsLost
<1>6. CASE CallFails(w)
  <2>1. ReleaseRequest(w) /\ Return(w) /\ ReleaseStream(w) /\ pc[w] = "called"
    BY <1>6 DEF CallFails
  <2>2. QED
    BY <1>3, <1>4, <2>1, ReturnStream
<1>7. CASE StopIteration(w)
  <2>1. /\ pc[w] \in InApp /\ Goto(w, "closing") /\ UNCHANGED limiters
    BY <1>7 DEF StopIteration
  <2>2. /\ pc'[w] = "closing" /\ \A u \in Workers \ {w} : pc'[u] = pc[u]
        /\ pc' \in [Workers -> {"idle", "admitted"} \cup InApp \cup Leaving]
    BY <2>1, Moved DEF Leaving
  <2>3. Busy' = Busy /\ Streaming' = Streaming
    BY <1>1, <2>1, <2>2 DEF Busy, Streaming, InApp, Authenticating
  <2>4. NoPermitIsLost'
    BY <2>1, <2>3 DEF PermitInv, NoPermitIsLost, limiters
  <2>5. AcquiredInv(w)'
    BY <1>1, <1>2, <2>1, <2>2, <2>3 DEF AcquiredInv, limiters, InApp, Authenticating
  <2>6. PermitInv'
    BY <1>1, <2>1, <2>2, <2>4, <2>5, FramePermits DEF limiters
  <2>7. QED
    BY <1>1, <2>1, <2>2, <2>6 DEF TypeOK, limiters
<1>8. CASE FinallyStream(w)
  <2>1. /\ pc[w] = "closing" /\ ReleaseStream(w) /\ Goto(w, "released")
        /\ UNCHANGED <<requestPermits, acquired>>
    BY <1>8 DEF FinallyStream
  <2>2. /\ pc'[w] = "released" /\ \A u \in Workers \ {w} : pc'[u] = pc[u]
        /\ pc' \in [Workers -> {"idle", "admitted"} \cup InApp \cup Leaving]
    BY <2>1, Moved DEF Leaving
  <2>3. Busy' = Busy
    BY <1>1, <2>2 DEF Busy
  <2>4. Streaming' = Streaming \ {w}
    BY <1>1, <2>2 DEF Streaming, InApp, Authenticating
  <2>5. /\ streamPermits' \in 0..MaxStreams
        /\ MaxStreams > 0 => streamPermits' + Cardinality(Streaming') = MaxStreams
    BY <2>1, <2>4, ReturnStream
  <2>6. NoPermitIsLost'
    BY <2>1, <2>3, <2>5 DEF PermitInv, NoPermitIsLost
  <2>7. AcquiredInv(w)'
    BY <1>1, <1>2, <2>1, <2>2 DEF AcquiredInv
  <2>8. PermitInv'
    BY <1>1, <2>1, <2>2, <2>6, <2>7, FramePermits
  <2>9. QED
    BY <1>1, <2>1, <2>2, <2>5, <2>8 DEF TypeOK
<1>9. CASE FinallyRequest(w)
  <2>1. ReleaseRequest(w) /\ Return(w) /\ UNCHANGED streamPermits /\ pc[w] = "released"
    BY <1>9 DEF FinallyRequest
  <2>2. Streaming' = Streaming
    BY <1>4, <2>1 DEF Streaming, InApp, Authenticating
  <2>3. QED
    BY <1>3, <2>1, <2>2 DEF TypeOK, PermitInv, NoPermitIsLost
<1>10. QED
  BY <1>5, <1>6, <1>7, <1>8, <1>9 DEF Leave

\* Every step keeps the types and the permits.
LEMMA StepPermits == IInv /\ [Next]_vars => IInv'
<1> SUFFICES ASSUME TypeOK, PermitInv, [Next]_vars PROVE TypeOK' /\ PermitInv'
  BY DEF IInv
<1>1. ASSUME UNCHANGED <<backend, limiters, pc, method>>,
             failures' \in SUBSET Counter, \A c, d \in failures' : c = d
      PROVE  TypeOK' /\ PermitInv'
  <2>1. Busy' = Busy /\ Streaming' = Streaming
    BY <1>1 DEF Busy, Streaming
  <2>2. PermitInv'
    BY <1>1, <2>1 DEF PermitInv, NoPermitIsLost, AcquiredInv, limiters
  <2>3. QED
    BY <1>1, <2>2 DEF TypeOK, limiters
<1>2. ASSUME NEW w \in Workers, Work(w) PROVE TypeOK' /\ PermitInv'
  <2>1. CASE RejectRequest(w)
    BY <1>1, <2>1 DEF RejectRequest, vars, TypeOK
  <2>2. QED
    BY <1>2, <2>1, AdmitPermits, CallAppPermits, LeavePermits, AuthenticatePermits DEF Work
<1>3. CASE Tick
  <2>1. failures' = {[c EXCEPT !.left = @ - 1] : c \in {d \in failures : d.left > 0}}
    BY <1>3 DEF Tick
  <2>2. failures' \in SUBSET Counter /\ \A c, d \in failures' : c = d
    BY <2>1, CounterType, Zenon DEF TypeOK
  <2>3. QED
    BY <1>1, <1>3, <2>2 DEF Tick
<1>4. CASE Restart
  <2>1. /\ pc' = [w \in Workers |-> "idle"] /\ acquired' = [w \in Workers |-> {}]
        /\ requestPermits' = MaxRequests /\ streamPermits' = MaxStreams
        /\ UNCHANGED <<backend, method>>
        /\ failures' = {} \/ failures' = failures
    BY <1>4 DEF Restart
  <2>2. Busy' = {} /\ Streaming' = {}
    BY <2>1 DEF Busy, Streaming, InApp, Authenticating
  <2>3. Cardinality({}) = 0
    BY FS_EmptySet
  <2>4. NoPermitIsLost'
    BY <2>1, <2>2, <2>3, NumbersAssumption DEF NoPermitIsLost
  <2>5. PermitInv'
    BY <2>1, <2>2, <2>4 DEF PermitInv, AcquiredInv
  <2>6. QED
    BY <2>1, <2>5, NumbersAssumption DEF TypeOK
<1>5. CASE UNCHANGED vars
  BY <1>1, <1>5 DEF vars, TypeOK
<1>6. QED
  BY <1>2, <1>3, <1>4, <1>5 DEF Next

\* All permits are there at the start.
LEMMA InitPermits == Init => IInv
<1> SUFFICES ASSUME Init PROVE IInv
  OBVIOUS
<1>1. Busy = {} /\ Streaming = {}
  BY DEF Init, Busy, Streaming, InApp, Authenticating
<1>2. Cardinality({}) = 0
  BY FS_EmptySet
<1>3. NoPermitIsLost
  BY <1>1, <1>2, NumbersAssumption DEF Init, NoPermitIsLost
<1>4. PermitInv
  BY <1>1, <1>3 DEF Init, PermitInv, AcquiredInv
<1>5. TypeOK
  BY NumbersAssumption DEF Init, TypeOK
<1>6. QED
  BY <1>4, <1>5 DEF IInv

\* The invariant behind the next three theorems.
LEMMA Invariant == Spec => []IInv
BY InitPermits, StepPermits, PTL DEF Spec

\* Every reachable state is well-typed; in particular neither semaphore ever
\* goes below zero or beyond its size.
THEOREM TypeCorrect == Spec => []TypeOK
BY Invariant, PTL DEF IInv

\* The permits that are missing are exactly those of the requests under way,
\* whichever way requests end: none is lost, none released twice.
THEOREM PermitsAreConserved == Spec => []NoPermitIsLost
<1>1. IInv => NoPermitIsLost
  BY DEF IInv, PermitInv
<1>2. QED
  BY <1>1, Invariant, PTL

\* So the limits on concurrent requests and streams are respected.
THEOREM LimitsAreRespected == Spec => []InFlightIsBounded
<1>1. IInv => InFlightIsBounded
  <2> SUFFICES ASSUME TypeOK, PermitInv PROVE InFlightIsBounded
    BY DEF IInv
  <2> DEFINE Inside == {w \in Workers : pc[w] \in InApp}
             Gets == {w \in Workers : pc[w] \in InApp /\ method[w] = "GET"}
  <2>1. Inside \subseteq Busy /\ Busy \subseteq Workers
    BY DEF Busy, InApp, Authenticating
  <2>2. Gets \subseteq Streaming /\ Streaming \subseteq Workers
    BY DEF Streaming
  <2>3. /\ Cardinality(Inside) <= Cardinality(Busy) /\ Cardinality(Inside) \in Nat
        /\ Cardinality(Gets) <= Cardinality(Streaming) /\ Cardinality(Gets) \in Nat
    BY <2>1, <2>2, Counting
  <2>4. /\ MaxRequests > 0 => Cardinality(Inside) <= MaxRequests
        /\ MaxStreams > 0 => Cardinality(Gets) <= MaxStreams
    BY <2>3, Sums, NumbersAssumption DEF TypeOK
  <2>5. QED
    BY <2>4 DEF InFlightIsBounded
<1>2. QED
  BY <1>1, Invariant, PTL

(***************************************************************************)
(* The failure limit.                                                      *)
(***************************************************************************)
\* No more requests are pending than may run.
LEMMA PendingIsBounded ==
    ASSUME TypeOK, PermitInv
    PROVE  /\ Pending \in SUBSET Workers /\ Cardinality(Pending) \in Nat
           /\ Overlap \in Nat /\ Cardinality(Pending) <= Overlap
<1>1. Pending \subseteq Busy /\ Busy \subseteq Workers /\ Workers \subseteq Workers
  BY DEF Pending, Busy
<1>2. /\ Cardinality(Pending) \in Nat /\ Cardinality(Workers) \in Nat
      /\ Cardinality(Pending) <= Cardinality(Busy)
      /\ Cardinality(Pending) <= Cardinality(Workers)
  BY <1>1, Counting
<1>3. MaxRequests > 0 => Cardinality(Pending) <= MaxRequests
  BY <1>2, Sums, NumbersAssumption DEF TypeOK
<1>4. QED
  BY <1>1, <1>2, <1>3, NumbersAssumption DEF Overlap

\* A step that counts nothing and lets nobody past the check.
LEMMA NothingCounted ==
    ASSUME TypeOK, OvershootInv, UNCHANGED <<backend, failures>>, Pending' \subseteq Pending
    PROVE  OvershootInv'
<1>1. Pending \in SUBSET Workers /\ Pending' \in SUBSET Workers
  BY DEF Pending
<1>2. /\ Cardinality(Pending) \in Nat /\ Cardinality(Pending') \in Nat
      /\ Cardinality(Pending') <= Cardinality(Pending)
  BY <1>1, Counting
<1>3. \A c \in failures : c.count \in Nat
  BY DEF TypeOK, Counter
<1>4. Overlap' = Overlap /\ Overlap \in Nat
  <2>1. Cardinality(Workers) \in Nat
    BY Counting
  <2>2. QED
    BY <2>1, NumbersAssumption DEF Overlap
<1>5. QED
  BY <1>2, <1>3, <1>4, NumbersAssumption DEF OvershootInv

\* A failure that is counted is no longer pending.
LEMMA CountedOvershoot ==
    ASSUME TypeOK, PermitInv, OvershootInv, NEW w \in Workers, CountInMemory(w)
    PROVE  OvershootInv'
<1>1. pc[w] = "wrong" /\ Goto(w, "serving") /\ UNCHANGED backend
  BY DEF CountInMemory
<1>2. Pending' = Pending \ {w} /\ w \in Pending
  BY <1>1 DEF Goto, Pending, TypeOK
<1>3. Pending \in SUBSET Workers /\ Pending' \in SUBSET Workers
  BY <1>2 DEF Pending
<1>4. /\ Cardinality(Pending) = Cardinality(Pending') + 1 /\ Cardinality(Pending') \in Nat
      /\ Overlap \in Nat /\ Cardinality(Pending) <= Overlap
  BY <1>2, <1>3, OneLess, Counting, PendingIsBounded
<1>5. Overlap' = Overlap
  BY DEF Overlap
<1>6. CASE failures = {}
  <2>1. failures' = {[count |-> 1, left |-> Window]}
    BY <1>6 DEF CountInMemory
  <2>2. \A c \in failures' : c.count = 1
    BY <2>1
  <2>3. QED
    BY <1>1, <1>4, <1>5, <2>2, NumbersAssumption DEF OvershootInv
<1>7. CASE failures # {}
  <2>1. failures' = {[c EXCEPT !.count = @ + 1] : c \in failures}
    BY <1>7 DEF CountInMemory
  <2>2. \A d \in failures' : \E c \in failures : d.count = c.count + 1 /\ c.count \in Nat
    <3>1. \A c \in failures : /\ c.count \in Nat
                              /\ [c EXCEPT !.count = @ + 1].count = c.count + 1
      BY DEF TypeOK, Counter
    <3>2. QED
      BY <2>1, <3>1, Zenon
  <2>3. QED
    BY <1>1, <1>4, <1>5, <2>2, NumbersAssumption DEF OvershootInv
<1>8. QED
  BY <1>6, <1>7

\* Nobody passes the check of a user who is locked out.
LEMMA PassedOvershoot ==
    ASSUME NEW w \in Workers, PassCheck(w)
    PROVE  OvershootInv'
<1>1. ~Locked \/ backend' = "redis"
  BY DEF PassCheck
<1>2. failures' = failures
  BY DEF PassCheck
<1>3. QED
  BY <1>1, <1>2 DEF OvershootInv, Locked

\* One window counts less than Overlap failures beyond the limit.
THEOREM OvershootBounded == Spec => []OvershootIsBounded
<1>1. Init => OvershootInv
  BY DEF Init, OvershootInv
<1>2. IInv /\ OvershootInv /\ [Next]_vars => OvershootInv'
  <2> SUFFICES ASSUME TypeOK, PermitInv, OvershootInv, [Next]_vars PROVE OvershootInv'
    BY DEF IInv
  <2>1. ASSUME NEW w \in Workers, NEW place \in {"idle", "admitted"} \cup InApp \cup Leaving,
               Goto(w, place), w \in Pending \/ place \notin {"passed", "wrong"},
               UNCHANGED <<backend, failures>>
        PROVE  OvershootInv'
    <3>1. Pending' \subseteq Pending
      BY <2>1, Moved DEF Pending
    <3>2. QED
      BY <2>1, <3>1, NothingCounted
  <2>2. ASSUME NEW w \in Workers, Work(w) PROVE OvershootInv'
    <3>1. ASSUME NEW m \in {"GET", "other"}, Admit(w, m) PROVE OvershootInv'
      BY <2>1, <3>1 DEF Admit
    <3>2. CASE RejectRequest(w)
      BY <3>2, NothingCounted DEF RejectRequest, vars, Pending
    <3>3. CASE CallApp(w)
      BY <2>1, <3>3 DEF CallApp, InApp, Authenticating
    <3>4. CASE Leave(w)
      BY <2>1, <3>4 DEF Leave, RejectStream, CallFails, StopIteration, FinallyStream,
             FinallyRequest, Return, Leaving
    <3>5. CASE Authenticate(w)
      <4>1. CASE PassCheck(w)
        BY <4>1, PassedOvershoot
      <4>2. CASE CountInMemory(w)
        BY <4>2, CountedOvershoot
      <4>3. CASE CountInRedis(w) \/ Expire(w)
        <5>1. backend' = "redis" \/ \A c \in failures' : \E d \in failures : c.count = d.count
          <6>1. CASE CountInRedis(w)
            BY <6>1 DEF CountInRedis
          <6>2. CASE Expire(w)
            <7>1. failures' = {[c EXCEPT !.left = Window] : c \in failures}
              BY <6>2 DEF Expire
            <7>2. \A c \in failures : [c EXCEPT !.left = Window].count = c.count
              BY DEF TypeOK, Counter
            <7>3. QED
              BY <7>1, <7>2, Zenon
          <6>3. QED
            BY <4>3, <6>1, <6>2
        <5>2. Pending' \subseteq Pending /\ UNCHANGED backend
          BY <4>3, Moved DEF CountInRedis, Expire, Pending, InApp, Authenticating
        <5>3. Pending \in SUBSET Workers /\ Pending' \in SUBSET Workers
          BY DEF Pending
        <5>4. /\ Cardinality(Pending) \in Nat /\ Cardinality(Pending') \in Nat
              /\ Cardinality(Pending') <= Cardinality(Pending)
          BY <5>2, <5>3, Counting
        <5>5. Overlap' = Overlap /\ Overlap \in Nat /\ \A c \in failures : c.count \in Nat
          BY PendingIsBounded DEF TypeOK, Counter, Overlap
        <5>6. QED
          BY <5>1, <5>2, <5>4, <5>5, NumbersAssumption DEF OvershootInv
      <4>4. CASE FailCheck(w) \/ NoCredentials(w) \/ KeyIsRight(w) \/ CountIsLost(w)
        BY <2>1, <4>4 DEF FailCheck, NoCredentials, KeyIsRight, CountIsLost, InApp
      <4>5. CASE KeyIsWrong(w)
        BY <2>1, <4>5 DEF KeyIsWrong, InApp, Authenticating, Pending
      <4>6. QED
        BY <3>5, <4>1, <4>2, <4>3, <4>4, <4>5 DEF Authenticate
    <3>6. QED
      BY <2>2, <3>1, <3>2, <3>3, <3>4, <3>5 DEF Work
  <2>3. CASE Tick
    <3>1. failures' = {[c EXCEPT !.left = @ - 1] : c \in {d \in failures : d.left > 0}}
      BY <2>3 DEF Tick
    <3>2. \A c \in failures : [c EXCEPT !.left = @ - 1].count = c.count
      BY DEF TypeOK, Counter
    <3>3. \A c \in failures' : \E d \in failures : c.count = d.count
      BY <3>1, <3>2, Zenon
    <3>4. Pending' = Pending /\ Overlap' = Overlap /\ UNCHANGED backend
      BY <2>3 DEF Tick, Pending, Overlap
    <3>5. QED
      BY <3>3, <3>4 DEF OvershootInv
  <2>4. CASE Restart
    <3>1. UNCHANGED backend /\ (backend = "memory" => failures' = {})
      BY <2>4 DEF Restart
    <3>2. QED
      BY <3>1 DEF OvershootInv
  <2>5. CASE UNCHANGED vars
    BY <2>5, NothingCounted DEF vars, Pending
  <2>6. QED
    BY <2>2, <2>3, <2>4, <2>5 DEF Next
<1>3. IInv /\ OvershootInv => OvershootIsBounded
  <2> SUFFICES ASSUME TypeOK, PermitInv, OvershootInv,
                      backend = "memory", Limit > 0, NEW c \in failures
               PROVE  c.count < Limit + Overlap
    BY DEF IInv, OvershootIsBounded
  <2>1. Cardinality(Pending) \in Nat /\ Overlap \in Nat /\ c.count \in Nat
    BY PendingIsBounded DEF TypeOK, Counter
  <2>2. CASE c.count >= Limit
    BY <2>1, <2>2, NumbersAssumption DEF OvershootInv
  <2>3. CASE ~(c.count >= Limit)
    BY <2>1, <2>3, NumbersAssumption
  <2>4. QED
    BY <2>2, <2>3
<1>4. QED
  BY <1>1, <1>2, <1>3, Invariant, PTL DEF Spec
=============================================================================
