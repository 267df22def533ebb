----------------------------- MODULE LibraryView -----------------------------
(***************************************************************************)
(* What the metadata cache of immich-bridge promises to a WebDAV or admin  *)
(* request: an answer about the Immich library that is at most so old.     *)
(*                                                                         *)
(* The library is a sequence of versions.  Version v is the library after  *)
(* v changes; it is superseded at writes[v+1], the time of the next        *)
(* change.  A request is answered with the version some key had when       *)
(* Immich was last asked about it, which is either current or superseded   *)
(* for no longer than the bound.  The bound is short while Immich answers  *)
(* and long (a degraded answer) when Immich fails.                         *)
(***************************************************************************)
EXTENDS Naturals, Sequences

CONSTANTS
    Keys,        \* the distinct Immich queries of one user
    Readers,     \* the requests that may run at the same time
    Bound,       \* Bound[k]: how old a normal answer about k may be
    DegradedBound  \* DegradedBound[k]: how old an answer may be in an outage

VARIABLES
    now,     \* the clock
    writes,  \* the times of the library's changes
    answer   \* answer[r] is {} or {the answer request r was given}

vars == <<now, writes, answer>>

\* Version v is current, or was superseded at most `bound' ago.
Recent(v, bound) ==
    v < Len(writes) => now <= writes[v + 1] + bound

Init ==
    /\ now = 0
    /\ writes = <<>>
    /\ answer = [r \in Readers |-> {}]

Tick ==
    /\ now' = now + 1
    /\ UNCHANGED <<writes, answer>>

Change ==
    /\ writes' = Append(writes, now)
    /\ UNCHANGED <<now, answer>>

Reply(r) ==
    /\ \E k \in Keys, v \in 0..Len(writes), q \in {"normal", "degraded"} :
         /\ Recent(v, IF q = "degraded" THEN DegradedBound[k] ELSE Bound[k])
         /\ answer' = [answer EXCEPT ![r] =
                {[key |-> k, value |-> v, quality |-> q]}]
    /\ UNCHANGED <<now, writes>>

\* One or more requests are over: delivered, failed, or lost in a restart.
Finish ==
    /\ \E done \in SUBSET Readers :
         answer' = [r \in Readers |-> IF r \in done THEN {} ELSE answer[r]]
    /\ UNCHANGED <<now, writes>>

Next ==
    \/ Tick
    \/ Change
    \/ \E r \in Readers : Reply(r)
    \/ Finish

Spec == Init /\ [][Next]_vars
=============================================================================
