-------------------------------- MODULE Sessions --------------------------------
(***************************************************************************)
(* The sessions of the admin API (api/auth.py, api/admin.py): a row of the *)
(* database with the grants of the principal (admin_store.py, authz.py),   *)
(* and, beside it, what is never written to the database: the keys of the  *)
(* shared links a viewer logged in with, in this process, and the API key  *)
(* of an administrator, in this process and in the cache (cache.py).       *)
(*                                                                         *)
(* A handler of the API never waits, so it is one step.  The dependencies  *)
(* that read the session and the API key ran before, in other threads, and *)
(* a handler works on the session as it was read.                          *)
(*                                                                         *)
(* The clock is in whole seconds, and no handler takes a second.           *)
(* Libraries are ids, and links belong to the same library throughout.     *)
(* Requests that only read, or change what module AdminStore has, are      *)
(* Answer.                                                                 *)
(***************************************************************************)
EXTENDS Naturals, FiniteSets

CONSTANTS
    Requests,   \* requests that may overlap
    Tokens,     \* session tokens, each drawn once
    Libraries,  \* ids of libraries
    Default,    \* DEFAULT_LIBRARY_ID
    Shares,     \* keys of shared links
    LibraryOf,  \* LibraryOf[s]: the library whose hosts the link s names
    Allowances, \* what a link may let its visitors do besides looking
    None,       \* no row, no library, no link
    Ttl,        \* admin_session_ttl_seconds
    MaxTime     \* bound: the clock stops here

ASSUME ConstantsAssumption ==
    /\ Default \in Libraries
    /\ None \notin Libraries \cup Shares
    /\ LibraryOf \in [Shares -> Libraries]
    /\ Allowances \subseteq SUBSET {"download", "upload"}
    /\ Ttl \in Nat \ {0} /\ MaxTime \in Nat

VARIABLES
    now,        \* the clock
    backend,    \* the cache: memory, or Redis, which outlives the process
    libraries,  \* the ids in table libraries
    rows,       \* table admin_sessions
    shareKeys,  \* _share_keys[t]: links with the time their keys are kept to
    adminKeys,  \* _admin_api_keys[t]: the time the key is kept to, 0 if it is not
    cached,     \* the same of the cache
    requests,   \* requests after their dependencies
    ends,       \* history: the expiry the client was told, 0 before the log-in
    earned,     \* history, of sessions not logged out: what Immich said the
                \*   principal may do
    attached,   \*   links that were confirmed to the client
    recent,     \*   those confirmed by this process
    overlapped, \* history: sessions that changed under a request that adds a link
    cutOff,     \* history: sessions of which a call to Redis has failed
    left        \* history: sessions ended by DELETE /auth/session

memory == <<shareKeys, adminKeys>>
history == <<ends, earned, attached, recent, overlapped, cutOff, left>>
vars == <<now, backend, libraries, rows, memory, cached, requests, history>>

Times == 0 .. MaxTime + Ttl

-----------------------------------------------------------------------------
(***************************************************************************)
(* Grants (authz.py).                                                      *)
(***************************************************************************)
Guest == {"browse", "thumbnail"}
Admin == Guest \cup {"download", "upload", "manage_views", "manage_policy",
                     "manage_library", "diagnostics"}
Capabilities == Admin \cup {"manage_instance"}

Grant == [scope : {"instance", "library", "share"}, library : Libraries \cup {None},
          share : Shares \cup {None}, capabilities : SUBSET Capabilities]

SuperadminGrant ==
    [scope |-> "instance", library |-> None, share |-> None, capabilities |-> Capabilities]

LibraryAdminGrant(l) ==
    [scope |-> "library", library |-> l, share |-> None, capabilities |-> Admin]

\* share_guest_grant, allowed being what the link lets its visitors do.
ShareGuestGrant(l, s, allowed) ==
    [scope |-> "share", library |-> l, share |-> s, capabilities |-> Guest \cup allowed]

\* Mutated form of HasCapability: the library is not looked at.
HasCapabilityAnywhere(grants, c, l) == \E g \in grants : c \in g.capabilities

\* has_capability; l is None if the capability is about no library.
HasCapability(grants, c, l) ==
    \E g \in grants :
        /\ c \in g.capabilities
        /\ g.scope = "instance" \/ (l # None /\ g.library = l)

Linked(grants) == {g.share : g \in {h \in grants : h.scope = "share"}}

Session == [kind : {"superadmin", "immich_admin", "library_admin", "share_guest"},
            grants : SUBSET Grant, expires : Times]

\* _grants_from_session: sessions of older versions have a kind only.
GrantsOf(session) ==
    IF session.grants # {} THEN session.grants
    ELSE CASE session.kind = "superadmin" -> {SuperadminGrant}
           [] session.kind \in {"immich_admin", "library_admin"} -> {LibraryAdminGrant(Default)}
           [] OTHER -> {}

\* Mutated form of Mounts: instance-wide grants show the default library only.
MountsOfDefault(grants) ==
    {[library |-> IF g.scope = "instance" THEN Default ELSE g.library,
      capabilities |-> g.capabilities] : g \in grants}

\* get_current_mounts.
Mounts(grants) ==
    UNION {{[library |-> l, capabilities |-> g.capabilities] :
            l \in {k \in libraries : g.scope = "instance" \/ g.library = k}} : g \in grants}

-----------------------------------------------------------------------------
(***************************************************************************)
(* Sessions and keys.                                                      *)
(***************************************************************************)
\* The rows that get_session and update_session_grants see.
Live(t) == rows[t] # None /\ now < rows[t].expires

\* get_share_key_for_session, asked for one link.
ShareKeyIsKnown(t, s) == \E until \in Times : <<s, until>> \in shareKeys[t] /\ now < until

\* _get_admin_api_key; a cache that does not answer has nothing.
AdminKeyIsKnown(t, answered) ==
    IF adminKeys[t] # 0 THEN now < adminKeys[t] ELSE now < cached[t] /\ answered

\* Whether a call to the cache succeeds: errors of Redis are swallowed.
Answers == IF backend = "redis" THEN BOOLEAN ELSE {TRUE}

Note(t, answered) == cutOff' = IF answered THEN cutOff ELSE cutOff \cup {t}

Request == [token : Tokens, session : Session]

LegacyRow(expires) == [kind |-> "library_admin", grants |-> {}, expires |-> expires]

TypeOK ==
    /\ now \in 0 .. MaxTime
    /\ backend \in {"memory", "redis"}
    /\ libraries \in SUBSET Libraries
    /\ rows \in [Tokens -> {None} \cup Session]
    /\ shareKeys \in [Tokens -> SUBSET (Shares \X Times)]
    /\ adminKeys \in [Tokens -> Times]
    /\ cached \in [Tokens -> Times]
    /\ requests \in [Requests -> {None} \cup Request]
    /\ ends \in [Tokens -> Times]
    /\ earned \in [Tokens -> SUBSET (Capabilities \X Libraries)]
    /\ attached \in [Tokens -> SUBSET Shares]
    /\ recent \in [Tokens -> SUBSET Shares]
    /\ overlapped \in SUBSET Tokens
    /\ cutOff \in SUBSET Tokens
    /\ left \in SUBSET Tokens

\* The database is new, or has sessions of a version without grants.
Init ==
    /\ now = 0
    /\ backend \in {"memory", "redis"}
    /\ libraries = {Default}
    /\ \E old \in SUBSET Tokens :
          /\ rows = [t \in Tokens |-> IF t \in old THEN LegacyRow(Ttl) ELSE None]
          /\ ends = [t \in Tokens |-> IF t \in old THEN Ttl ELSE 0]
          /\ earned = [t \in Tokens |-> IF t \in old THEN Admin \X {Default} ELSE {}]
    /\ shareKeys = [t \in Tokens |-> {}]
    /\ adminKeys = [t \in Tokens |-> 0]
    /\ cached = [t \in Tokens |-> 0]
    /\ requests = [r \in Requests |-> None]
    /\ attached = [t \in Tokens |-> {}]
    /\ recent = [t \in Tokens |-> {}]
    /\ overlapped = {} /\ cutOff = {} /\ left = {}

-----------------------------------------------------------------------------
(***************************************************************************)
(* Logging in.  A log-in that is refused changes nothing.                  *)
(***************************************************************************)
\* _create_session_response: prune_sessions, then create_session.
CreateSession(t, kind, grants) ==
    /\ ends[t] = 0
    /\ rows' = [u \in Tokens |->
                  IF u = t THEN [kind |-> kind, grants |-> grants, expires |-> now + Ttl]
                  ELSE IF Live(u) THEN rows[u] ELSE None]
    /\ ends' = [ends EXCEPT ![t] = now + Ttl]
    /\ UNCHANGED <<now, backend, libraries, requests, overlapped, left>>

LogInAsSuperadmin(t) ==
    /\ CreateSession(t, "superadmin", {SuperadminGrant})
    /\ UNCHANGED <<memory, cached, earned, attached, recent, cutOff>>

\* Mutated forms of RememberAdminKey: the lifetime counts from the expiry, and
\* the cache is not told.
RememberAdminKeyLonger(t, answered) ==
    /\ adminKeys' = [adminKeys EXCEPT ![t] = now + Ttl + Ttl]
    /\ cached' = IF answered THEN [cached EXCEPT ![t] = now + Ttl + Ttl] ELSE cached
    /\ Note(t, answered)

RememberAdminKeyHere(t, answered) ==
    /\ adminKeys' = [adminKeys EXCEPT ![t] = now + Ttl]
    /\ UNCHANGED cached
    /\ Note(t, answered)

\* _session_ttl_seconds, just after the expiry was computed: int() drops the
\* second that has begun.
Remaining == {Ttl - 1, Ttl}

\* _remember_admin_api_key: the cache is told if there are seconds left.
RememberAdminKey(t, answered) ==
    /\ adminKeys' = [adminKeys EXCEPT ![t] = now + Ttl]
    /\ \E ttl \in Remaining :
          /\ cached' = IF ttl > 0 /\ answered THEN [cached EXCEPT ![t] = now + ttl] ELSE cached
          /\ Note(t, ttl > 0 => answered)

\* validate_immich_api_key: no answer that identifies the key, or one of these.
Identity == {"none", "user", "admin"}

\* _validate_admin_key_for_libraries: a library each for which the key is an
\* administrator's; if there is none the log-in is refused.
Administered(identity) == {l \in libraries : identity[l] = "admin"}

\* create_session with an API key.
LogInAsAdmin(t) ==
    /\ \E identity \in [libraries -> Identity] :
          /\ Administered(identity) # {}
          /\ CreateSession(t, "immich_admin",
                           {LibraryAdminGrant(l) : l \in Administered(identity)})
          /\ earned' = [earned EXCEPT ![t] = Admin \X Administered(identity)]
    /\ \E answered \in Answers : RememberAdminKey(t, answered)
    /\ UNCHANGED <<shareKeys, attached, recent>>

\* _remember_share_key, and the answer that confirms the link.
RememberShareKey(t, s, until) ==
    shareKeys' = [shareKeys EXCEPT ![t] = {k \in @ : k[1] # s} \cup {<<s, until>>}]

Confirm(t, s) ==
    /\ attached' = [attached EXCEPT ![t] = @ \cup {s}]
    /\ recent' = [recent EXCEPT ![t] = @ \cup {s}]

Earn(t, g) == earned' = [earned EXCEPT ![t] = @ \cup (g.capabilities \X {g.library})]

\* _library_for_share_link: there may be no library the host of the link is of.
Configured(s) == libraries \cap {LibraryOf[s]}

\* _share_grant_from_payload; Immich says what the link allows.
ShareGrants(s) == {ShareGuestGrant(l, s, allowed) : l \in Configured(s), allowed \in Allowances}

\* create_share_session.
LogInWithLink(t) ==
    \E s \in Shares : \E g \in ShareGrants(s) :
        /\ CreateSession(t, "share_guest", {g})
        /\ Earn(t, g)
        /\ RememberShareKey(t, s, now + Ttl)
        /\ Confirm(t, s)
        /\ UNCHANGED <<adminKeys, cached, cutOff>>

-----------------------------------------------------------------------------
(***************************************************************************)
(* Requests.                                                               *)
(***************************************************************************)
Finish(r) == requests' = [requests EXCEPT ![r] = None]

\* require_admin_session lets a request in.
Admit(r, t) ==
    /\ requests[r] = None
    /\ Live(t)
    /\ requests' = [requests EXCEPT ![r] = [token |-> t, session |-> rows[t]]]
    /\ UNCHANGED <<now, backend, libraries, rows, memory, cached, history>>

\* _optional_admin_context, on behalf of a request: an expired entry of this
\* process is dropped.
DropExpiredAdminKey(t) ==
    /\ adminKeys[t] # 0 /\ adminKeys[t] <= now
    /\ adminKeys' = [adminKeys EXCEPT ![t] = 0]
    /\ UNCHANGED <<now, backend, libraries, rows, shareKeys, cached, requests, history>>

\* A handler answers, or refuses, and changes nothing that is modelled here.
Answer(r) ==
    /\ requests[r] # None
    /\ Finish(r)
    /\ UNCHANGED <<now, backend, libraries, rows, memory, cached, history>>

\* create_library.
CreateLibrary(r, l) ==
    /\ requests[r] # None
    /\ HasCapability(GrantsOf(requests[r].session), "manage_instance", None)
    /\ libraries' = libraries \cup {l}
    /\ Finish(r)
    /\ UNCHANGED <<now, backend, rows, memory, cached, history>>

\* Mutated forms of UpdateGrants: a row is made if there is none, and the new
\* grant replaces the others.
UpsertGrants(t, grants) ==
    rows' = [rows EXCEPT ![t] =
               [kind |-> "share_guest", grants |-> grants, expires |-> now + Ttl]]

ReplaceGrants(t, grants) ==
    rows' = IF Live(t)
            THEN [rows EXCEPT ![t] = [kind |-> rows[t].kind, expires |-> rows[t].expires,
                                      grants |-> grants \ rows[t].grants]]
            ELSE rows

\* update_session_grants.
UpdateGrants(t, grants) ==
    rows' = IF Live(t)
            THEN [rows EXCEPT ![t] = [kind |-> rows[t].kind, expires |-> rows[t].expires,
                                      grants |-> grants]]
            ELSE rows

\* Mutated form of KeepLink: the key is kept with a new grant only.
KeepNewLink(t, s, g, session) ==
    IF s \notin Linked(GrantsOf(session))
    THEN /\ UpdateGrants(t, GrantsOf(session) \cup {g})
         /\ RememberShareKey(t, s, session.expires)
    ELSE UNCHANGED <<rows, shareKeys>>

\* What add_share_to_current_session stores.
KeepLink(t, s, g, session) ==
    /\ IF s \notin Linked(GrantsOf(session))
       THEN UpdateGrants(t, GrantsOf(session) \cup {g})
       ELSE UNCHANGED rows
    /\ RememberShareKey(t, s, session.expires)

\* add_share_to_current_session of a viewer; it is confirmed if the session is
\* still there when it is read again.
AddLink(r, s) ==
    /\ requests[r] # None
    /\ requests[r].session.kind = "share_guest"
    /\ \E g \in ShareGrants(s) :
          /\ KeepLink(requests[r].token, s, g, requests[r].session)
          /\ Earn(requests[r].token, g)
    /\ IF Live(requests[r].token) THEN Confirm(requests[r].token, s)
                                  ELSE UNCHANGED <<attached, recent>>
    /\ overlapped' = IF /\ rows[requests[r].token] # None
                        /\ rows[requests[r].token] = requests[r].session
                     THEN overlapped ELSE overlapped \cup {requests[r].token}
    /\ Finish(r)
    /\ UNCHANGED <<now, backend, libraries, adminKeys, cached, ends, cutOff, left>>

\* delete_session, _forget_admin_api_key.
EndSession(r, answered) ==
    /\ rows' = [rows EXCEPT ![requests[r].token] = None]
    /\ adminKeys' = [adminKeys EXCEPT ![requests[r].token] = 0]
    /\ cached' = IF answered THEN [cached EXCEPT ![requests[r].token] = 0] ELSE cached
    /\ Note(requests[r].token, answered)
    /\ Finish(r)
    /\ earned' = [earned EXCEPT ![requests[r].token] = {}]
    /\ attached' = [attached EXCEPT ![requests[r].token] = {}]
    /\ recent' = [recent EXCEPT ![requests[r].token] = {}]
    /\ UNCHANGED <<now, backend, libraries, ends, overlapped>>

\* DELETE /session leaves the keys of links.
DeleteAdminSession(r) ==
    /\ requests[r] # None
    /\ \E answered \in Answers : EndSession(r, answered)
    /\ UNCHANGED <<shareKeys, left>>

\* Mutated form of ForgetShareKeys: only what has expired goes.
ForgetExpiredShareKeys(t) ==
    shareKeys' = [shareKeys EXCEPT ![t] = {k \in @ : now < k[2]}]

\* _forget_share_key.
ForgetShareKeys(t) == shareKeys' = [shareKeys EXCEPT ![t] = {}]

\* DELETE /auth/session.
DeleteCurrentSession(r) ==
    /\ requests[r] # None
    /\ \E answered \in Answers : EndSession(r, answered)
    /\ ForgetShareKeys(requests[r].token)
    /\ left' = left \cup {requests[r].token}

\* get_share_key_for_session drops what it finds expired.
DropExpiredShareKeys(t) ==
    /\ \E k \in shareKeys[t] : k[2] <= now
    /\ shareKeys' = [shareKeys EXCEPT ![t] = {k \in @ : now < k[2]}]
    /\ UNCHANGED <<now, backend, libraries, rows, adminKeys, cached, requests, history>>

\* The process is killed, and starts again.
Restart ==
    /\ shareKeys' = [t \in Tokens |-> {}]
    /\ adminKeys' = [t \in Tokens |-> 0]
    /\ cached' = IF backend = "redis" THEN cached ELSE [t \in Tokens |-> 0]
    /\ requests' = [r \in Requests |-> None]
    /\ recent' = [t \in Tokens |-> {}]
    /\ UNCHANGED <<now, backend, libraries, rows, ends, earned, attached, overlapped, cutOff, left>>

Tick ==
    /\ now < MaxTime
    /\ now' = now + 1
    /\ UNCHANGED <<backend, libraries, rows, memory, cached, requests, history>>

LogIn(t) == LogInAsSuperadmin(t) \/ LogInAsAdmin(t) \/ LogInWithLink(t)

Handle(r) ==
    \/ Answer(r)
    \/ \E l \in Libraries : CreateLibrary(r, l)
    \/ \E s \in Shares : AddLink(r, s)
    \/ DeleteAdminSession(r)
    \/ DeleteCurrentSession(r)

Next ==
    \/ \E t \in Tokens : LogIn(t) \/ DropExpiredShareKeys(t)
    \/ \E r \in Requests : requests[r] # None /\ DropExpiredAdminKey(requests[r].token)
    \/ \E r \in Requests : (\E t \in Tokens : Admit(r, t)) \/ Handle(r)
    \/ Restart
    \/ Tick

Spec == Init /\ [][Next]_vars

-----------------------------------------------------------------------------
(***************************************************************************)
(* Properties.                                                             *)
(***************************************************************************)
\* A session that has ended, by a log-out, by expiry or by being pruned, stays
\* ended, and none lives longer than its client was told: a request that was
\* admitted before, and saves its grants after, does not bring it back.
EndedSessionsStayEnded ==
    [][\A t \in Tokens : /\ ends[t] # 0 /\ ~Live(t) => ~Live(t)'
                         /\ (Live(t) => now < ends[t])']_vars

\* A shared link that was added to a session, and confirmed, stays among its
\* grants, unless the session changed while a request that adds a link was
\* under way: that request saves the grants it has read.
AttachedSharesStay ==
    \A t \in Tokens \ overlapped : Live(t) => attached[t] \subseteq Linked(rows[t].grants)

\* While a session lives, the key of every link this process has confirmed to
\* it is at hand, also of a link that was added once more after a restart.
AttachedSharesHaveKeys ==
    \A t \in Tokens : Live(t) => \A s \in recent[t] : ShareKeyIsKnown(t, s)

\* No key is handed out after the session it belongs to has expired, and
\* DELETE /auth/session leaves none, except a link that was being added
\* meanwhile, or an API key that Redis was not there to delete.
KeysEndWithTheirSession ==
    \A t \in Tokens :
        /\ (\E s \in Shares : ShareKeyIsKnown(t, s)) => now < ends[t] /\ t \notin left \ overlapped
        /\ AdminKeyIsKnown(t, TRUE) => now < ends[t] /\ t \notin left \ cutOff

\* An administrator who logged in with an API key need not log in again before
\* the last second of the session: the key is found after a restart too, where
\* Redis keeps it and has answered.
AdminKeySurvives ==
    \A t \in Tokens :
        /\ Live(t) /\ now + 1 < rows[t].expires /\ rows[t].kind = "immich_admin"
        /\ backend = "redis" /\ t \notin cutOff
        => AdminKeyIsKnown(t, TRUE)

\* No session has a capability in a library that Immich did not say its key or
\* one of its links gives it, unless it is a superadmin's.
GrantsAreEarned ==
    \A t \in Tokens : rows[t] # None /\ rows[t].kind # "superadmin" =>
        \A l \in Libraries, c \in Capabilities :
            HasCapability(GrantsOf(rows[t]), c, l) => <<c, l>> \in earned[t]

\* The mounts a session is shown are those it can use: a library is mounted
\* with exactly the capabilities the API grants in it.
MountsShowCapabilities ==
    \A t \in Tokens : rows[t] # None =>
        \A l \in libraries :
            {c \in Capabilities : HasCapability(GrantsOf(rows[t]), c, l)} =
            UNION {m.capabilities : m \in {n \in Mounts(GrantsOf(rows[t])) : n.library = l}}
=============================================================================
