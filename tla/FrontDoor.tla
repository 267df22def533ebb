------------------------------- MODULE FrontDoor ------------------------------
(***************************************************************************)
(* What a WebDAV request passes before it reaches the provider: the two    *)
(* limiters of ClientCompatibilityMiddleware, and the failure limit of     *)
(* ImmichBasicAuthenticator, on the worker threads of the server.          *)
(*                                                                         *)
(* All attempts modelled are made from one address with one user name:     *)
(* they share one failure counter.  Whether a key is accepted from the     *)
(* identity cache or by Immich makes no difference to the counter.         *)
(***************************************************************************)
EXTENDS Integers, FiniteSets

CONSTANTS
    Workers,      \* worker threads of the server
    MaxRequests,  \* max_concurrent_requests; 0 means no limit
    MaxStreams,   \* max_concurrent_streams; 0 means no limit
    Limit,        \* auth_failure_limit; 0 means no limit
    Window,       \* auth_failure_window_seconds
    MaxCount      \* bound: the counter in Redis, which errors let grow

ASSUME WorkersAssumption == IsFiniteSet(Workers)

ASSUME NumbersAssumption ==
    /\ MaxRequests \in Nat
    /\ MaxStreams \in Nat
    /\ Limit \in Nat
    /\ Window \in Nat \ {0}
    /\ MaxCount \in Nat

VARIABLES
    backend,         \* "memory" or "redis": whether redis_host is configured
    requestPermits,  \* _request_limiter
    streamPermits,   \* _stream_limiter
    acquired,        \* request_limiter_acquired, stream_limiter_acquired
    pc,              \* where each worker is
    method,          \* REQUEST_METHOD of its request
    failures         \* the failure counter, {} when there is none

limiters == <<requestPermits, streamPermits, acquired>>
vars == <<backend, limiters, pc, method, failures>>

\* The time a key without an expiry has left.
Never == -1

\* `left' is the time until the counter expires.
Counter == [count : Nat \ {0}, left : {Never} \cup 0..Window]

\* Where a request is that has been admitted to the application.
Authenticating == {"called", "passed", "wrong", "unexpiring"}
InApp == Authenticating \cup {"serving"}
Leaving == {"closing", "released"}

TypeOK ==
    /\ backend \in {"memory", "redis"}
    /\ requestPermits \in 0..MaxRequests
    /\ streamPermits \in 0..MaxStreams
    /\ acquired \in [Workers -> SUBSET {"request", "stream"}]
    /\ pc \in [Workers -> {"idle", "admitted"} \cup InApp \cup Leaving]
    /\ method \in [Workers -> {"GET", "other"}]
    /\ failures \in SUBSET Counter
    /\ \A c, d \in failures : c = d

Init ==
    /\ backend \in {"memory", "redis"}
    /\ requestPermits = MaxRequests
    /\ streamPermits = MaxStreams
    /\ acquired = [w \in Workers |-> {}]
    /\ pc = [w \in Workers |-> "idle"]
    /\ method = [w \in Workers |-> "other"]
    /\ failures = {}

Goto(w, place) == pc' = [pc EXCEPT ![w] = place]

-----------------------------------------------------------------------------
(***************************************************************************)
(* ClientCompatibilityMiddleware.__call__                                  *)
(***************************************************************************)
\* A request that is valid, and neither a health probe nor a browser at the
\* root: those are answered without touching anything here.
Admit(w, m) ==
    /\ pc[w] = "idle"
    /\ IF MaxRequests > 0
       THEN /\ requestPermits > 0
            /\ requestPermits' = requestPermits - 1
            /\ acquired' = [acquired EXCEPT ![w] = {"request"}]
       ELSE UNCHANGED <<requestPermits, acquired>>
    /\ method' = [method EXCEPT ![w] = m]
    /\ Goto(w, "admitted")
    /\ UNCHANGED <<backend, streamPermits, failures>>

\* 503, too many concurrent WebDAV requests.
RejectRequest(w) ==
    /\ pc[w] = "idle"
    /\ MaxRequests > 0
    /\ requestPermits = 0
    /\ UNCHANGED vars

ReleaseStream(w) ==
    streamPermits' = IF "stream" \in acquired[w] THEN streamPermits + 1 ELSE streamPermits

ReleaseRequest(w) ==
    requestPermits' = IF "request" \in acquired[w] THEN requestPermits + 1 ELSE requestPermits

\* The call is over, and its locals are gone.
Return(w) ==
    /\ Goto(w, "idle")
    /\ acquired' = [acquired EXCEPT ![w] = {}]
    /\ UNCHANGED <<backend, method, failures>>

\* Mutated form of CallApp: what acquire returned is not looked at.
CallAppAnyway(w) ==
    /\ pc[w] = "admitted"
    /\ IF method[w] = "GET" /\ MaxStreams > 0 /\ streamPermits > 0
       THEN /\ streamPermits' = streamPermits - 1
            /\ acquired' = [acquired EXCEPT ![w] = @ \cup {"stream"}]
       ELSE UNCHANGED <<streamPermits, acquired>>
    /\ Goto(w, "called")
    /\ UNCHANGED <<backend, requestPermits, method, failures>>

CallApp(w) ==
    /\ pc[w] = "admitted"
    /\ IF method[w] = "GET" /\ MaxStreams > 0
       THEN /\ streamPermits > 0
            /\ streamPermits' = streamPermits - 1
            /\ acquired' = [acquired EXCEPT ![w] = @ \cup {"stream"}]
       ELSE UNCHANGED <<streamPermits, acquired>>
    /\ Goto(w, "called")
    /\ UNCHANGED <<backend, requestPermits, method, failures>>

\* Mutated form of RejectStream: the request permit is kept.
RejectStreamAndLeak(w) ==
    /\ pc[w] = "admitted"
    /\ method[w] = "GET" /\ MaxStreams > 0
    /\ streamPermits = 0
    /\ Return(w)
    /\ UNCHANGED <<requestPermits, streamPermits>>

\* Mutated form of RejectStream: acquire blocks.
RejectStreamNever(w) == FALSE /\ Return(w) /\ UNCHANGED limiters

\* 503, too many concurrent WebDAV streams.
RejectStream(w) ==
    /\ pc[w] = "admitted"
    /\ method[w] = "GET" /\ MaxStreams > 0
    /\ streamPermits = 0
    /\ ReleaseRequest(w)
    /\ Return(w)
    /\ UNCHANGED streamPermits

\* Mutated form of CallFails: the `finally' of timing_iter runs as well.
CallFailsTwice(w) ==
    /\ pc[w] = "called"
    /\ ReleaseStream(w)
    /\ ReleaseRequest(w)
    /\ Goto(w, "closing")
    /\ UNCHANGED <<backend, acquired, method, failures>>

\* The application raises before it returns an iterator, RequestBodyTooLarge
\* or another exception: both permits are released at once.
CallFails(w) ==
    /\ pc[w] = "called"
    /\ ReleaseStream(w)
    /\ ReleaseRequest(w)
    /\ Return(w)

\* The iteration ends: it is exhausted, something raises, or the server
\* closes it because the client is gone.
StopIteration(w) ==
    /\ pc[w] \in InApp
    /\ Goto(w, "closing")
    /\ UNCHANGED <<backend, limiters, method, failures>>

\* The `finally' of timing_iter.
FinallyStream(w) ==
    /\ pc[w] = "closing"
    /\ ReleaseStream(w)
    /\ Goto(w, "released")
    /\ UNCHANGED <<backend, requestPermits, acquired, method, failures>>

FinallyRequest(w) ==
    /\ pc[w] = "released"
    /\ ReleaseRequest(w)
    /\ Return(w)
    /\ UNCHANGED streamPermits

-----------------------------------------------------------------------------
(***************************************************************************)
(* ImmichBasicAuthenticator.basic_auth_user                                *)
(***************************************************************************)
\* Mutated form of Locked: one failure beyond the limit.
LockedLate == Limit > 0 /\ \E c \in failures : c.count > Limit

\* The counter says the user has failed too often.
Locked == Limit > 0 /\ \E c \in failures : c.count >= Limit

\* _is_rate_limited finds the counter below the limit, or Redis fails and
\* get_int returns None.
PassCheck(w) ==
    /\ pc[w] = "called"
    /\ ~Locked \/ backend = "redis"
    /\ Goto(w, "passed")
    /\ UNCHANGED <<backend, limiters, method, failures>>

\* 401, without a look at the key.
FailCheck(w) ==
    /\ pc[w] = "called"
    /\ Locked
    /\ Goto(w, "serving")
    /\ UNCHANGED <<backend, limiters, method, failures>>

\* The request has no credentials, and WsgiDAV answers 401 itself.
NoCredentials(w) ==
    /\ pc[w] = "called"
    /\ Goto(w, "serving")
    /\ UNCHANGED <<backend, limiters, method, failures>>

KeyIsRight(w) ==
    /\ pc[w] = "passed"
    /\ Goto(w, "serving")
    /\ UNCHANGED <<backend, limiters, method, failures>>

\* No API key, or one that Immich does not know.
KeyIsWrong(w) ==
    /\ pc[w] = "passed"
    /\ Goto(w, IF Limit > 0 THEN "wrong" ELSE "serving")
    /\ UNCHANGED <<backend, limiters, method, failures>>

\* Mutated form of CountInMemory: the counter gets no expiry.
CountForever(w) ==
    /\ pc[w] = "wrong"
    /\ backend = "memory"
    /\ failures' = IF failures = {}
                   THEN {[count |-> 1, left |-> Never]}
                   ELSE {[c EXCEPT !.count = @ + 1] : c \in failures}
    /\ Goto(w, "serving")
    /\ UNCHANGED <<backend, limiters, method>>

\* InMemoryCache.incr_with_ttl: the window is that of the first failure.
CountInMemory(w) ==
    /\ pc[w] = "wrong"
    /\ backend = "memory"
    /\ failures' = IF failures = {}
                   THEN {[count |-> 1, left |-> Window]}
                   ELSE {[c EXCEPT !.count = @ + 1] : c \in failures}
    /\ Goto(w, "serving")
    /\ UNCHANGED <<backend, limiters, method>>

\* RedisCache.incr_with_ttl: the pipeline of INCR and TTL; a key without an
\* expiry is then given one.
CountInRedis(w) ==
    /\ pc[w] = "wrong"
    /\ backend = "redis"
    /\ \A c \in failures : c.count < MaxCount
    /\ failures' = IF failures = {}
                   THEN {[count |-> 1, left |-> Never]}
                   ELSE {[c EXCEPT !.count = @ + 1] : c \in failures}
    /\ Goto(w, IF \E c \in failures : c.left # Never THEN "serving" ELSE "unexpiring")
    /\ UNCHANGED <<backend, limiters, method>>

Expire(w) ==
    /\ pc[w] = "unexpiring"
    /\ failures' = {[c EXCEPT !.left = Window] : c \in failures}
    /\ Goto(w, "serving")
    /\ UNCHANGED <<backend, limiters, method>>

\* A Redis error is swallowed, before the pipeline or before EXPIRE.
CountIsLost(w) ==
    /\ pc[w] \in {"wrong", "unexpiring"}
    /\ backend = "redis"
    /\ Goto(w, "serving")
    /\ UNCHANGED <<backend, limiters, method, failures>>

-----------------------------------------------------------------------------
(***************************************************************************)
(* Time, and the end of the process.  Redis keeps its keys.                *)
(***************************************************************************)
Tick ==
    /\ \E c \in failures : c.left # Never
    /\ failures' = {[c EXCEPT !.left = @ - 1] : c \in {d \in failures : d.left > 0}}
    /\ UNCHANGED <<backend, limiters, pc, method>>

Restart ==
    /\ requestPermits' = MaxRequests
    /\ streamPermits' = MaxStreams
    /\ acquired' = [w \in Workers |-> {}]
    /\ pc' = [w \in Workers |-> "idle"]
    /\ failures' = IF backend = "memory" THEN {} ELSE failures
    /\ UNCHANGED <<backend, method>>

Authenticate(w) ==
    \/ PassCheck(w) \/ FailCheck(w) \/ NoCredentials(w)
    \/ KeyIsRight(w) \/ KeyIsWrong(w)
    \/ CountInMemory(w) \/ CountInRedis(w) \/ Expire(w) \/ CountIsLost(w)

Leave(w) ==
    \/ RejectStream(w) \/ CallFails(w)
    \/ StopIteration(w) \/ FinallyStream(w) \/ FinallyRequest(w)

Work(w) ==
    \/ \E m \in {"GET", "other"} : Admit(w, m)
    \/ RejectRequest(w)
    \/ CallApp(w) \/ Leave(w) \/ Authenticate(w)

Next ==
    \/ \E w \in Workers : Work(w)
    \/ Tick \/ Restart

Spec == Init /\ [][Next]_vars

\* A request that has begun goes on: every call to Immich and every socket
\* operation of the server has a time-out.  Time passes.
Fairness ==
    /\ \A w \in Workers : WF_vars(CallApp(w) \/ Leave(w))
    /\ WF_vars(Tick)

FairSpec == Spec /\ Fairness

-----------------------------------------------------------------------------
(***************************************************************************)
(* Properties.                                                             *)
(***************************************************************************)
\* The requests that hold a permit of each limiter.
Busy == {w \in Workers : pc[w] # "idle"}
Streaming == {w \in Workers : pc[w] \in InApp \cup {"closing"} /\ method[w] = "GET"}

\* No more requests are in the application than there are permits for, and
\* no more GET requests than streams, however admissions, rejections and the
\* three ways to end a request interleave (the limits of config.py).
InFlightIsBounded ==
    /\ MaxRequests > 0 => Cardinality({w \in Workers : pc[w] \in InApp}) <= MaxRequests
    /\ MaxStreams > 0 =>
          Cardinality({w \in Workers : pc[w] \in InApp /\ method[w] = "GET"}) <= MaxStreams

\* A permit is never lost or released twice: those that are missing are held
\* by requests under way, so when nothing runs all of them are there.
NoPermitIsLost ==
    /\ MaxRequests > 0 => requestPermits + Cardinality(Busy) = MaxRequests
    /\ MaxStreams > 0 => streamPermits + Cardinality(Streaming) = MaxStreams

\* How many requests can be past the check of the counter at the same time.
Overlap == IF MaxRequests > 0 THEN MaxRequests ELSE Cardinality(Workers)

\* One window counts at most Overlap - 1 failures beyond the limit: those of
\* the requests that were checked before the failure that reached it
\* (_is_rate_limited and _record_auth_failure are not one step).
OvershootIsBounded ==
    backend = "memory" /\ Limit > 0 => \A c \in failures : c.count < Limit + Overlap

\* A request that was admitted ends, whatever its worker meets.
RequestsEnd == \A w \in Workers : pc[w] # "idle" ~> pc[w] = "idle"

\* A user who is locked out gets in again: attempts during a lock-out are not
\* counted and do not extend it.
LockoutEnds == (backend = "memory" /\ Locked) ~> ~Locked

-----------------------------------------------------------------------------
(***************************************************************************)
(* The inductive invariants behind them (see FrontDoor_proofs).            *)
(***************************************************************************)
\* What a worker has acquired follows from where it is.
AcquiredInv(w) ==
    /\ "request" \in acquired[w] <=> MaxRequests > 0 /\ pc[w] # "idle"
    /\ pc[w] # "released" =>
          ("stream" \in acquired[w] <=> MaxStreams > 0 /\ w \in Streaming)

PermitInv == NoPermitIsLost /\ \A w \in Workers : AcquiredInv(w)

\* The requests whose failure is still to be counted.
Pending == {w \in Workers : pc[w] \in {"passed", "wrong"}}

\* Nobody passes the check while the user is locked out, so then each failure
\* that is counted takes one from those that are pending.
OvershootInv ==
    backend = "memory" /\ Limit > 0 =>
        \A c \in failures :
            c.count >= Limit => c.count + Cardinality(Pending) < Limit + Overlap
=============================================================================
