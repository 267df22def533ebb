---------------------------- MODULE Sessions_proofs ----------------------------
(***************************************************************************)
(* What log-ins, shared links, log-outs and restarts keep true of sessions *)
(* and keys, for any number of requests, tokens, libraries and links.      *)
(***************************************************************************)
EXTENDS Sessions, TLAPS

\* Everything of a session is kept until the time its client was told, at most.
EndInv ==
    /\ \A t \in Tokens : rows[t] # None => rows[t].expires = ends[t] /\ ends[t] # 0
    /\ \A t \in Tokens : adminKeys[t] <= ends[t] /\ cached[t] <= ends[t]
    /\ \A t \in Tokens : \A k \in shareKeys[t] : k[2] <= ends[t]
    /\ \A r \in Requests : requests[r] # None =>
          /\ requests[r].session.expires = ends[requests[r].token]
          /\ ends[requests[r].token] # 0

\* A token that is not drawn yet has no past.
NewInv ==
    \A t \in Tokens : ends[t] = 0 => attached[t] = {} /\ recent[t] = {} /\ t \notin left

\* What DELETE /auth/session leaves.
LeftInv ==
    \A t \in left :
        /\ rows[t] = None
        /\ t \notin overlapped => shareKeys[t] = {}
        /\ t \notin cutOff => adminKeys[t] = 0 /\ cached[t] = 0

\* A link that this process has confirmed has a key as long as the session.
ShareKeyInv ==
    \A t \in Tokens : Live(t) => \A s \in recent[t] : <<s, ends[t]>> \in shareKeys[t]

\* Redis has the API key until the last second of the session, and this process,
\* if it has the key, to the end.
AdminKeyInv ==
    \A t \in Tokens :
        rows[t] # None /\ rows[t].kind = "immich_admin" /\ backend = "redis" /\ t \notin cutOff
        => /\ now + 1 < ends[t] => cached[t] \in {ends[t] - 1, ends[t]}
           /\ adminKeys[t] \in {0, ends[t]}

\* What Immich said of the principal of t covers the grants of a session.
Covered(t, session) ==
    session.kind # "superadmin" =>
        \A g \in GrantsOf(session) :
            g.scope # "instance" /\ \A c \in g.capabilities : <<c, g.library>> \in earned[t]

\* It covers those of the row, and of requests that may still change the row.
EarnInv ==
    \A t \in Tokens : rows[t] # None =>
        /\ Covered(t, rows[t])
        /\ \A r \in Requests :
              requests[r] # None /\ requests[r].token = t => Covered(t, requests[r].session)

IInv ==
    /\ TypeOK /\ EndInv /\ NewInv /\ LeftInv
    /\ AttachedSharesStay /\ ShareKeyInv /\ AdminKeyInv /\ EarnInv

-----------------------------------------------------------------------------
(***************************************************************************)
(* Grants and sessions.                                                    *)
(***************************************************************************)
\* Every grant that is made is a grant.
LEMMA GrantsAreTyped ==
    /\ SuperadminGrant \in Grant
    /\ \A l \in Libraries : LibraryAdminGrant(l) \in Grant
    /\ \A s \in Shares : \A g \in ShareGrants(s) :
          libraries \in SUBSET Libraries =>
             /\ g \in Grant /\ g.scope = "share" /\ g.share = s
             /\ g.library \in Libraries
<1>1. /\ Admin \in SUBSET Capabilities /\ Guest \in SUBSET Capabilities
      /\ {"download", "upload"} \in SUBSET Capabilities
  BY DEF Admin, Guest, Capabilities
<1>2. SuperadminGrant \in Grant /\ \A l \in Libraries : LibraryAdminGrant(l) \in Grant
  BY <1>1 DEF SuperadminGrant, LibraryAdminGrant, Grant
<1>3. ASSUME NEW s \in Shares, NEW l \in Libraries, NEW allowed \in Allowances
      PROVE  ShareGuestGrant(l, s, allowed) \in Grant
  <2>1. Guest \cup allowed \in SUBSET Capabilities
    BY <1>1, ConstantsAssumption
  <2>2. QED
    BY <2>1 DEF ShareGuestGrant, Grant
<1>4. ASSUME NEW s \in Shares, NEW g \in ShareGrants(s), libraries \in SUBSET Libraries
      PROVE  /\ g \in Grant /\ g.scope = "share" /\ g.share = s
             /\ g.library \in Libraries
  <2>1. PICK l \in Configured(s), allowed \in Allowances : g = ShareGuestGrant(l, s, allowed)
    BY DEF ShareGrants
  <2>2. l \in Libraries
    BY <1>4 DEF Configured
  <2>3. g \in Grant
    BY <1>3, <2>1, <2>2
  <2>4. QED
    BY <2>1, <2>2, <2>3 DEF ShareGuestGrant
<1>5. QED
  BY <1>2, <1>4

\* The grants a session is used with are grants.
LEMMA GrantsOfIsTyped ==
    ASSUME NEW session \in Session
    PROVE  /\ GrantsOf(session) \in SUBSET Grant
           /\ session.grants # {} => GrantsOf(session) = session.grants
           /\ session.kind = "share_guest" => GrantsOf(session) = session.grants
<1>1. session.grants \in SUBSET Grant
  BY DEF Session
<1>2. {SuperadminGrant} \in SUBSET Grant /\ {LibraryAdminGrant(Default)} \in SUBSET Grant
  BY GrantsAreTyped, ConstantsAssumption
<1>3. QED
  BY <1>1, <1>2 DEF GrantsOf

\* A row that is made or changed is a session.
LEMMA RowIsTyped ==
    ASSUME NEW kind \in {"superadmin", "immich_admin", "library_admin", "share_guest"},
           NEW grants \in SUBSET Grant, NEW expires \in Times
    PROVE  [kind |-> kind, grants |-> grants, expires |-> expires] \in Session
BY DEF Session

\* The times of keys and sessions that are made now.
LEMMA TimesAreTyped ==
    ASSUME now \in 0 .. MaxTime
    PROVE  now + Ttl \in Times /\ 0 \in Times /\ Ttl \in Times /\ now + Ttl # 0
BY ConstantsAssumption DEF Times

-----------------------------------------------------------------------------
(***************************************************************************)
(* The invariant holds at first, and every step keeps it.                  *)
(***************************************************************************)
LEMMA InitIsSafe == Init => IInv
<1>. SUFFICES ASSUME Init PROVE IInv
  OBVIOUS
<1>1. PICK old \in SUBSET Tokens :
          /\ rows = [t \in Tokens |-> IF t \in old THEN LegacyRow(Ttl) ELSE None]
          /\ ends = [t \in Tokens |-> IF t \in old THEN Ttl ELSE 0]
          /\ earned = [t \in Tokens |-> IF t \in old THEN Admin \X {Default} ELSE {}]
  BY DEF Init
<1>2. now \in 0 .. MaxTime
  BY ConstantsAssumption DEF Init
<1>3. Ttl \in Times /\ 0 \in Times /\ Ttl # 0
  BY <1>2, TimesAreTyped, ConstantsAssumption
<1>4. LegacyRow(Ttl) \in Session
  BY <1>3, RowIsTyped DEF LegacyRow
<1>5. LegacyRow(Ttl).expires = Ttl /\ LegacyRow(Ttl).grants = {} /\ LegacyRow(Ttl).kind = "library_admin"
  BY DEF LegacyRow
<1>6. TypeOK
  <2>1. rows \in [Tokens -> {None} \cup Session] /\ ends \in [Tokens -> Times]
    BY <1>1, <1>3, <1>4
  <2>2. Admin \X {Default} \in SUBSET (Capabilities \X Libraries)
    BY ConstantsAssumption DEF Capabilities
  <2>3. earned \in [Tokens -> SUBSET (Capabilities \X Libraries)]
    BY <1>1, <2>2
  <2>4. libraries \in SUBSET Libraries
    BY ConstantsAssumption DEF Init
  <2>5. shareKeys \in [Tokens -> SUBSET (Shares \X Times)]
    BY DEF Init
  <2>6. adminKeys \in [Tokens -> Times] /\ cached \in [Tokens -> Times]
    BY <1>3 DEF Init
  <2>7. QED
    BY <1>2, <2>1, <2>3, <2>4, <2>5, <2>6 DEF Init, TypeOK
<1>7. EndInv
  <2>1. \A t \in Tokens : rows[t] # None => rows[t].expires = ends[t] /\ ends[t] # 0
    BY <1>1, <1>3, <1>5
  <2>2. \A t \in Tokens : adminKeys[t] <= ends[t] /\ cached[t] <= ends[t]
    BY <1>1, ConstantsAssumption DEF Init
  <2>3. QED
    BY <2>1, <2>2 DEF Init, EndInv
<1>8. NewInv /\ LeftInv /\ AttachedSharesStay /\ ShareKeyInv
  BY DEF Init, NewInv, LeftInv, AttachedSharesStay, ShareKeyInv
<1>9. AdminKeyInv
  BY <1>1, <1>5 DEF AdminKeyInv
<1>10. EarnInv
  <2>1. ASSUME NEW t \in Tokens, rows[t] # None
        PROVE  Covered(t, rows[t])
    <3>1. rows[t] = LegacyRow(Ttl) /\ earned[t] = Admin \X {Default}
      BY <1>1, <2>1
    <3>2. GrantsOf(rows[t]) = {LibraryAdminGrant(Default)}
      BY <1>5, <3>1 DEF GrantsOf
    <3>3. QED
      BY <3>1, <3>2 DEF Covered, LibraryAdminGrant
  <2>2. QED
    BY <2>1 DEF Init, EarnInv
<1>11. QED
  BY <1>6, <1>7, <1>8, <1>9, <1>10 DEF IInv

\* What a log-in does to rows: one of token t is made, and others stay or are
\* pruned; nothing of t is remembered from before.
LEMMA CreateSessionKeeps ==
    ASSUME IInv, NEW t \in Tokens, NEW grants \in SUBSET Grant, grants # {},
           NEW kind \in {"superadmin", "immich_admin", "library_admin", "share_guest"},
           CreateSession(t, kind, grants)
    PROVE  /\ rows' \in [Tokens -> {None} \cup Session] /\ ends' \in [Tokens -> Times]
           /\ ends'[t] = now + Ttl /\ ends'[t] # 0
           /\ ends[t] = 0 /\ t \notin left
           /\ rows'[t] \in Session
           /\ rows'[t].kind = kind /\ rows'[t].grants = grants /\ rows'[t].expires = now + Ttl
           /\ GrantsOf(rows'[t]) = grants
           /\ \A u \in Tokens : u # t => ends'[u] = ends[u] /\ rows'[u] \in {rows[u], None}
           /\ \A r \in Requests : requests[r] # None => requests[r].token # t
<1>. DEFINE row == [kind |-> kind, grants |-> grants, expires |-> now + Ttl]
<1>1. now + Ttl \in Times /\ now + Ttl # 0
  BY TimesAreTyped DEF IInv, TypeOK
<1>2. row \in Session
  BY <1>1, RowIsTyped
<1>3. /\ rows' = [u \in Tokens |-> IF u = t THEN row ELSE IF Live(u) THEN rows[u] ELSE None]
      /\ ends' = [ends EXCEPT ![t] = now + Ttl]
      /\ ends[t] = 0
  BY DEF CreateSession
<1>4. rows \in [Tokens -> {None} \cup Session] /\ ends \in [Tokens -> Times]
  BY DEF IInv, TypeOK
<1>5. rows' \in [Tokens -> {None} \cup Session]
  BY <1>2, <1>3, <1>4
<1>6. ends' \in [Tokens -> Times] /\ ends'[t] = now + Ttl
  BY <1>1, <1>3, <1>4
<1>7. rows'[t] = row
  BY <1>3
<1>8. GrantsOf(row) = grants
  BY <1>2, GrantsOfIsTyped
<1>9. \A u \in Tokens : u # t => ends'[u] = ends[u] /\ rows'[u] \in {rows[u], None}
  BY <1>3, <1>4
<1>10. t \notin left /\ \A r \in Requests : requests[r] # None => requests[r].token # t
  BY <1>3 DEF IInv, NewInv, EndInv
<1>11. QED
  BY <1>1, <1>2, <1>3, <1>5, <1>6, <1>7, <1>8, <1>9, <1>10

\* A log-in keeps the invariant if what it remembers of token t fits the row it
\* makes, and what is remembered of other tokens stays.
LEMMA LogInKeeps ==
    ASSUME IInv, NEW t \in Tokens, NEW grants \in SUBSET Grant, grants # {},
           NEW kind \in {"superadmin", "immich_admin", "library_admin", "share_guest"},
           CreateSession(t, kind, grants),
           shareKeys' \in [Tokens -> SUBSET (Shares \X Times)],
           adminKeys' \in [Tokens -> Times], cached' \in [Tokens -> Times],
           earned' \in [Tokens -> SUBSET (Capabilities \X Libraries)],
           attached' \in [Tokens -> SUBSET Shares], recent' \in [Tokens -> SUBSET Shares],
           cutOff' \in SUBSET Tokens,
           \A u \in Tokens : u # t =>
               /\ shareKeys'[u] = shareKeys[u] /\ adminKeys'[u] = adminKeys[u]
               /\ cached'[u] = cached[u] /\ earned'[u] = earned[u]
               /\ attached'[u] = attached[u] /\ recent'[u] = recent[u]
               /\ u \in cutOff' <=> u \in cutOff,
           adminKeys'[t] <= now + Ttl, cached'[t] <= now + Ttl,
           \A k \in shareKeys'[t] : k[2] <= now + Ttl,
           attached'[t] \subseteq Linked(grants),
           \A s \in recent'[t] : <<s, now + Ttl>> \in shareKeys'[t],
           kind = "immich_admin" /\ backend = "redis" /\ t \notin cutOff' =>
               /\ now + 1 < now + Ttl => cached'[t] \in {now + Ttl - 1, now + Ttl}
               /\ adminKeys'[t] = now + Ttl,
           kind # "superadmin" =>
               \A g \in grants :
                   g.scope # "instance" /\ \A c \in g.capabilities : <<c, g.library>> \in earned'[t]
    PROVE  IInv'
<1>1. /\ rows' \in [Tokens -> {None} \cup Session] /\ ends' \in [Tokens -> Times]
      /\ ends'[t] = now + Ttl /\ ends'[t] # 0 /\ ends[t] = 0 /\ t \notin left
      /\ rows'[t] \in Session
      /\ rows'[t].kind = kind /\ rows'[t].grants = grants /\ rows'[t].expires = now + Ttl
      /\ GrantsOf(rows'[t]) = grants
  BY CreateSessionKeeps
<1>2. \A u \in Tokens : u # t => ends'[u] = ends[u] /\ rows'[u] \in {rows[u], None}
  BY CreateSessionKeeps
<1>3. \A r \in Requests : requests[r] # None => requests[r].token # t
  BY CreateSessionKeeps
<1>4. UNCHANGED <<now, backend, libraries, requests, overlapped, left>>
  BY DEF CreateSession
<1>5. TypeOK'
  BY <1>1, <1>4 DEF IInv, TypeOK
<1>6. EndInv'
  <2>1. \A u \in Tokens : rows'[u] # None => rows'[u].expires = ends'[u] /\ ends'[u] # 0
    BY <1>1, <1>2 DEF IInv, EndInv
  <2>2. \A u \in Tokens : adminKeys'[u] <= ends'[u] /\ cached'[u] <= ends'[u]
    BY <1>1, <1>2 DEF IInv, EndInv
  <2>3. \A u \in Tokens : \A k \in shareKeys'[u] : k[2] <= ends'[u]
    BY <1>1, <1>2 DEF IInv, EndInv
  <2>4. ASSUME NEW r \in Requests, requests'[r] # None
        PROVE  requests'[r].session.expires = ends'[requests'[r].token] /\ ends'[requests'[r].token] # 0
    <3>1. requests[r] \in Request /\ requests'[r] = requests[r] /\ requests[r].token # t
      BY <1>3, <1>4, <2>4 DEF IInv, TypeOK
    <3>2. requests[r].token \in Tokens
      BY <3>1 DEF Request
    <3>3. QED
      BY <1>2, <2>4, <3>1, <3>2 DEF IInv, EndInv
  <2>5. QED
    BY <2>1, <2>2, <2>3, <2>4 DEF EndInv
<1>7. NewInv' /\ LeftInv'
  BY <1>1, <1>2, <1>4 DEF IInv, NewInv, LeftInv, TypeOK
<1>8. \A u \in Tokens : u # t => (Live(u)' => Live(u) /\ rows'[u] = rows[u])
  BY <1>2, <1>4 DEF Live
<1>9. AttachedSharesStay'
  BY <1>1, <1>4, <1>8 DEF IInv, AttachedSharesStay
<1>10. ShareKeyInv'
  BY <1>1, <1>2, <1>8 DEF IInv, ShareKeyInv
<1>11. AdminKeyInv'
  <2>1. ASSUME NEW u \in Tokens, rows'[u] # None, rows'[u].kind = "immich_admin",
               backend' = "redis", u \notin cutOff'
        PROVE  /\ now' + 1 < ends'[u] => cached'[u] \in {ends'[u] - 1, ends'[u]}
               /\ adminKeys'[u] \in {0, ends'[u]}
    <3>1. CASE u = t
      <4>1. kind = "immich_admin" /\ backend = "redis" /\ t \notin cutOff'
        BY <1>1, <1>4, <2>1, <3>1
      <4>2. /\ now + 1 < now + Ttl => cached'[t] \in {now + Ttl - 1, now + Ttl}
            /\ adminKeys'[t] = now + Ttl
        BY <4>1
      <4>3. now' = now /\ ends'[u] = now + Ttl
        BY <1>1, <1>4, <3>1
      <4>4. now \in Nat /\ Ttl \in Nat
        BY ConstantsAssumption DEF IInv, TypeOK
      <4>5. cached'[u] = cached'[t] /\ adminKeys'[u] = adminKeys'[t]
        BY <3>1
      <4>6. now' + 1 < ends'[u] => cached'[u] \in {ends'[u] - 1, ends'[u]}
        BY <4>2, <4>3, <4>4, <4>5
      <4>7. QED
        BY <4>2, <4>3, <4>5, <4>6
    <3>2. CASE u # t
      <4>1. /\ rows[u] # None /\ rows[u].kind = "immich_admin" /\ backend = "redis"
            /\ u \notin cutOff
        BY <1>2, <1>4, <2>1, <3>2
      <4>2. /\ now + 1 < ends[u] => cached[u] \in {ends[u] - 1, ends[u]}
            /\ adminKeys[u] \in {0, ends[u]}
        BY <4>1 DEF IInv, AdminKeyInv
      <4>3. ends'[u] = ends[u] /\ cached'[u] = cached[u] /\ adminKeys'[u] = adminKeys[u] /\ now' = now
        BY <1>2, <1>4, <3>2
      <4>4. QED
        BY <4>2, <4>3
    <3>3. QED
      BY <3>1, <3>2
  <2>2. QED
    BY <2>1 DEF AdminKeyInv
<1>12. EarnInv'
  <2>1. ASSUME NEW u \in Tokens, rows'[u] # None
        PROVE  Covered(u, rows[u])' /\ \A r \in Requests :
                  requests'[r] # None /\ requests'[r].token = u => Covered(u, requests[r].session)'
    <3>1. CASE u = t
      <4>1. GrantsOf(rows[u])' = GrantsOf(rows'[u])
        BY DEF GrantsOf
      <4>2. QED
        BY <1>1, <1>3, <1>4, <3>1, <4>1 DEF Covered
    <3>2. CASE u # t
      <4>1. rows'[u] = rows[u] /\ earned'[u] = earned[u]
        BY <1>2, <2>1, <3>2
      <4>2. Covered(u, rows[u]) /\ \A r \in Requests :
                requests[r] # None /\ requests[r].token = u => Covered(u, requests[r].session)
        BY <2>1, <4>1 DEF IInv, EarnInv
      <4>3. QED
        BY <1>4, <4>1, <4>2 DEF Covered, GrantsOf
    <3>3. QED
      BY <3>1, <3>2
  <2>2. QED
    BY <2>1 DEF EarnInv
<1>13. QED
  BY <1>5, <1>6, <1>7, <1>9, <1>10, <1>11, <1>12 DEF IInv

\* A superadmin logs in: nothing is remembered beside the row.
LEMMA SuperadminLogInIsSafe ==
    ASSUME IInv, NEW t \in Tokens, LogInAsSuperadmin(t)
    PROVE  IInv'
<1>1. CreateSession(t, "superadmin", {SuperadminGrant})
  BY DEF LogInAsSuperadmin
<1>2. UNCHANGED <<shareKeys, adminKeys, cached, earned, attached, recent, cutOff>>
  BY DEF LogInAsSuperadmin, memory
<1>3. {SuperadminGrant} \in SUBSET Grant
  BY GrantsAreTyped
<1>4. ends[t] = 0
  BY <1>1 DEF CreateSession
<1>5. attached[t] = {} /\ recent[t] = {}
  BY <1>4 DEF IInv, NewInv
<1>6. now + Ttl \in Nat
  BY TimesAreTyped DEF IInv, TypeOK, Times
<1>7. adminKeys[t] <= now + Ttl /\ cached[t] <= now + Ttl
  <2>1. adminKeys[t] <= 0 /\ cached[t] <= 0 /\ adminKeys[t] \in Nat /\ cached[t] \in Nat
    BY <1>4 DEF IInv, EndInv, TypeOK, Times
  <2>2. QED
    BY <1>6, <2>1
<1>8. \A k \in shareKeys[t] : k[2] <= now + Ttl
  <2>1. \A k \in shareKeys[t] : k[2] <= 0 /\ k[2] \in Nat
    BY <1>4 DEF IInv, EndInv, TypeOK, Times
  <2>2. QED
    BY <1>6, <2>1
<1>9. TypeOK
  BY DEF IInv
<1>10. QED
  BY <1>1, <1>2, <1>3, <1>5, <1>7, <1>8, <1>9, LogInKeeps DEF TypeOK

\* An administrator logs in: the key is kept as long as the session.
LEMMA AdminLogInIsSafe ==
    ASSUME IInv, NEW t \in Tokens, LogInAsAdmin(t)
    PROVE  IInv'
<1>1. PICK identity \in [libraries -> Identity] :
          /\ Administered(identity) # {}
          /\ CreateSession(t, "immich_admin",
                           {LibraryAdminGrant(l) : l \in Administered(identity)})
          /\ earned' = [earned EXCEPT ![t] = Admin \X Administered(identity)]
  BY DEF LogInAsAdmin
<1>2. PICK answered \in Answers : RememberAdminKey(t, answered)
  BY DEF LogInAsAdmin
<1>3. UNCHANGED <<shareKeys, attached, recent>>
  BY DEF LogInAsAdmin
<1>. DEFINE theirs == Administered(identity)
            grants == {LibraryAdminGrant(l) : l \in theirs}
<1>4. theirs \in SUBSET Libraries
  BY DEF Administered, IInv, TypeOK
<1>5. grants \in SUBSET Grant /\ grants # {}
  BY <1>1, <1>4, GrantsAreTyped
<1>6. ends[t] = 0
  BY <1>1 DEF CreateSession
<1>7. attached[t] = {} /\ recent[t] = {}
  BY <1>6 DEF IInv, NewInv
<1>8. now + Ttl \in Nat /\ now + Ttl \in Times
  BY TimesAreTyped DEF IInv, TypeOK, Times
<1>9. TypeOK
  BY DEF IInv
<1>10. PICK ttl \in Remaining :
          /\ cached' = IF ttl > 0 /\ answered THEN [cached EXCEPT ![t] = now + ttl] ELSE cached
          /\ cutOff' = IF ttl > 0 => answered THEN cutOff ELSE cutOff \cup {t}
  BY <1>2 DEF RememberAdminKey, Note
<1>11. adminKeys' = [adminKeys EXCEPT ![t] = now + Ttl]
  BY <1>2 DEF RememberAdminKey
<1>12. ttl \in {Ttl - 1, Ttl} /\ ttl \in Nat /\ now \in Nat /\ now + ttl \in Times
  <2>1. ttl \in {Ttl - 1, Ttl} /\ Ttl \in Nat /\ Ttl > 0 /\ MaxTime \in Nat /\ now \in 0 .. MaxTime
    BY <1>9, ConstantsAssumption DEF Remaining, TypeOK
  <2>2. QED
    BY <2>1 DEF Times
<1>13. /\ adminKeys' \in [Tokens -> Times] /\ cached' \in [Tokens -> Times]
       /\ cutOff' \in SUBSET Tokens
       /\ \A u \in Tokens : u # t =>
            adminKeys'[u] = adminKeys[u] /\ cached'[u] = cached[u] /\ (u \in cutOff' <=> u \in cutOff)
       /\ adminKeys'[t] = now + Ttl
  BY <1>8, <1>9, <1>10, <1>11, <1>12 DEF TypeOK
<1>14. /\ cached'[t] <= now + Ttl
       /\ t \notin cutOff' /\ now + 1 < now + Ttl => cached'[t] \in {now + Ttl - 1, now + Ttl}
  <2>1. cached[t] <= 0 /\ cached[t] \in Nat /\ Ttl \in Nat
    BY <1>6, ConstantsAssumption DEF IInv, EndInv, TypeOK, Times
  <2>2. /\ cached'[t] \in {cached[t], now + ttl}
        /\ t \notin cutOff' /\ ttl > 0 => cached'[t] = now + ttl
    BY <1>9, <1>10 DEF TypeOK
  <2>3. CASE ttl > 0
    BY <1>8, <1>12, <2>1, <2>2, <2>3
  <2>4. CASE ttl = 0
    BY <1>8, <1>12, <2>1, <2>2, <2>4
  <2>5. QED
    BY <1>12, <2>3, <2>4
<1>15. \A k \in shareKeys'[t] : k[2] <= now + Ttl
  <2>1. \A k \in shareKeys[t] : k[2] <= 0 /\ k[2] \in Nat
    BY <1>6 DEF IInv, EndInv, TypeOK, Times
  <2>2. QED
    BY <1>3, <1>8, <2>1
<1>16. earned' \in [Tokens -> SUBSET (Capabilities \X Libraries)] /\ earned'[t] = Admin \X theirs
  <2>1. Admin \X theirs \in SUBSET (Capabilities \X Libraries)
    BY <1>4 DEF Capabilities
  <2>2. QED
    BY <1>1, <1>9, <2>1 DEF TypeOK
<1>17. \A u \in Tokens : u # t => earned'[u] = earned[u]
  BY <1>1, <1>9 DEF TypeOK
<1>18. \A g \in grants :
          g.scope # "instance" /\ \A c \in g.capabilities : <<c, g.library>> \in earned'[t]
  BY <1>16 DEF LibraryAdminGrant
<1>19. CreateSession(t, "immich_admin", grants)
  BY <1>1
<1>20. adminKeys'[t] <= now + Ttl
  BY <1>8, <1>13
<1>21. /\ shareKeys' \in [Tokens -> SUBSET (Shares \X Times)]
       /\ attached' \in [Tokens -> SUBSET Shares] /\ recent' \in [Tokens -> SUBSET Shares]
       /\ attached'[t] \subseteq Linked(grants)
       /\ \A s \in recent'[t] : <<s, now + Ttl>> \in shareKeys'[t]
       /\ \A u \in Tokens : u # t =>
             /\ shareKeys'[u] = shareKeys[u]
             /\ attached'[u] = attached[u] /\ recent'[u] = recent[u]
  BY <1>3, <1>7, <1>9 DEF TypeOK
<1>. HIDE DEF grants
<1>22. QED
  BY <1>5, <1>11, <1>12, <1>13, <1>14, <1>15, <1>16, <1>17, <1>18, <1>19, <1>20, <1>21, LogInKeeps

\* What remembering the key of a link does to the keys.
LEMMA RememberShareKeyAdds ==
    ASSUME TypeOK, NEW t \in Tokens, NEW s \in Shares, NEW until \in Times,
           RememberShareKey(t, s, until)
    PROVE  /\ shareKeys' \in [Tokens -> SUBSET (Shares \X Times)]
           /\ <<s, until>> \in shareKeys'[t]
           /\ \A k \in shareKeys'[t] : k \in shareKeys[t] \/ k = <<s, until>>
           /\ \A k \in shareKeys[t] : k[1] # s => k \in shareKeys'[t]
           /\ \A u \in Tokens : u # t => shareKeys'[u] = shareKeys[u]
<1>. DEFINE keys == {k \in shareKeys[t] : k[1] # s} \cup {<<s, until>>}
<1>1. shareKeys' = [shareKeys EXCEPT ![t] = keys]
  BY DEF RememberShareKey
<1>2. keys \in SUBSET (Shares \X Times)
  BY DEF TypeOK
<1>3. shareKeys' \in [Tokens -> SUBSET (Shares \X Times)] /\ shareKeys'[t] = keys
  BY <1>1, <1>2 DEF TypeOK
<1>4. \A u \in Tokens : u # t => shareKeys'[u] = shareKeys[u]
  BY <1>1 DEF TypeOK
<1>5. QED
  BY <1>3, <1>4

\* What is noted of a link that is confirmed.
LEMMA ConfirmAdds ==
    ASSUME TypeOK, NEW t \in Tokens, NEW s \in Shares, Confirm(t, s)
    PROVE  /\ attached' \in [Tokens -> SUBSET Shares] /\ recent' \in [Tokens -> SUBSET Shares]
           /\ attached'[t] = attached[t] \cup {s} /\ recent'[t] = recent[t] \cup {s}
           /\ \A u \in Tokens : u # t => attached'[u] = attached[u] /\ recent'[u] = recent[u]
BY DEF Confirm, TypeOK

\* What is noted of a grant that Immich has answered for.
LEMMA EarnAdds ==
    ASSUME TypeOK, NEW t \in Tokens, NEW g \in Grant, g.library \in Libraries, Earn(t, g)
    PROVE  /\ earned' \in [Tokens -> SUBSET (Capabilities \X Libraries)]
           /\ \A c \in g.capabilities : <<c, g.library>> \in earned'[t]
           /\ \A u \in Tokens : earned[u] \subseteq earned'[u]
           /\ \A u \in Tokens : u # t => earned'[u] = earned[u]
<1>. DEFINE said == earned[t] \cup (g.capabilities \X {g.library})
<1>1. earned' = [earned EXCEPT ![t] = said]
  BY DEF Earn
<1>2. g.capabilities \in SUBSET Capabilities
  BY DEF Grant
<1>3. said \in SUBSET (Capabilities \X Libraries)
  BY <1>2 DEF TypeOK
<1>4. earned' \in [Tokens -> SUBSET (Capabilities \X Libraries)] /\ earned'[t] = said
  BY <1>1, <1>3 DEF TypeOK
<1>5. \A u \in Tokens : u # t => earned'[u] = earned[u]
  BY <1>1 DEF TypeOK
<1>6. QED
  BY <1>4, <1>5

\* A viewer logs in with a link: its key is kept as long as the session.
LEMMA LinkLogInIsSafe ==
    ASSUME IInv, NEW t \in Tokens, LogInWithLink(t)
    PROVE  IInv'
<1>1. PICK s \in Shares : \E g \in ShareGrants(s) :
          /\ CreateSession(t, "share_guest", {g})
          /\ Earn(t, g)
          /\ RememberShareKey(t, s, now + Ttl)
          /\ Confirm(t, s)
          /\ UNCHANGED <<adminKeys, cached, cutOff>>
  BY DEF LogInWithLink
<1>2. PICK g \in ShareGrants(s) :
          /\ CreateSession(t, "share_guest", {g})
          /\ Earn(t, g)
          /\ RememberShareKey(t, s, now + Ttl)
          /\ Confirm(t, s)
          /\ UNCHANGED <<adminKeys, cached, cutOff>>
  BY <1>1
<1>3. TypeOK
  BY DEF IInv
<1>4. g \in Grant /\ g.scope = "share" /\ g.share = s /\ g.library \in Libraries
  BY <1>3, GrantsAreTyped DEF TypeOK
<1>5. ends[t] = 0
  BY <1>2 DEF CreateSession
<1>6. attached[t] = {} /\ recent[t] = {}
  BY <1>5 DEF IInv, NewInv
<1>7. now + Ttl \in Nat /\ now + Ttl \in Times
  BY <1>3, TimesAreTyped DEF TypeOK, Times
<1>8. adminKeys'[t] <= now + Ttl /\ cached'[t] <= now + Ttl
  <2>1. adminKeys[t] <= 0 /\ cached[t] <= 0 /\ adminKeys[t] \in Nat /\ cached[t] \in Nat
    BY <1>5 DEF IInv, EndInv, TypeOK, Times
  <2>2. QED
    BY <1>2, <1>7, <2>1
<1>9. /\ shareKeys' \in [Tokens -> SUBSET (Shares \X Times)]
      /\ <<s, now + Ttl>> \in shareKeys'[t]
      /\ \A k \in shareKeys'[t] : k \in shareKeys[t] \/ k = <<s, now + Ttl>>
      /\ \A u \in Tokens : u # t => shareKeys'[u] = shareKeys[u]
  BY <1>2, <1>3, <1>7, RememberShareKeyAdds
<1>10. \A k \in shareKeys'[t] : k[2] <= now + Ttl
  <2>1. \A k \in shareKeys[t] : k[2] <= 0 /\ k[2] \in Nat
    BY <1>5 DEF IInv, EndInv, TypeOK, Times
  <2>2. QED
    BY <1>7, <1>9, <2>1
<1>11. /\ attached' \in [Tokens -> SUBSET Shares] /\ recent' \in [Tokens -> SUBSET Shares]
       /\ attached'[t] = {s} /\ recent'[t] = {s}
       /\ \A u \in Tokens : u # t => attached'[u] = attached[u] /\ recent'[u] = recent[u]
  BY <1>2, <1>3, <1>6, ConfirmAdds
<1>12. Linked({g}) = {s}
  BY <1>4 DEF Linked
<1>13. /\ earned' \in [Tokens -> SUBSET (Capabilities \X Libraries)]
       /\ \A c \in g.capabilities : <<c, g.library>> \in earned'[t]
       /\ \A u \in Tokens : u # t => earned'[u] = earned[u]
  BY <1>2, <1>3, <1>4, EarnAdds
<1>14. {g} \in SUBSET Grant /\ {g} # {}
  BY <1>4
<1>15. CreateSession(t, "share_guest", {g})
  BY <1>2
<1>16. /\ adminKeys' \in [Tokens -> Times] /\ cached' \in [Tokens -> Times] /\ cutOff' \in SUBSET Tokens
       /\ adminKeys' = adminKeys /\ cached' = cached /\ cutOff' = cutOff
  BY <1>2, <1>3 DEF TypeOK
<1>17. \A h \in {g} : h.scope # "instance" /\ \A c \in h.capabilities : <<c, h.library>> \in earned'[t]
  BY <1>4, <1>13
<1>18. QED
  BY <1>8, <1>9, <1>10, <1>11, <1>12, <1>13, <1>14, <1>15, <1>16, <1>17, LogInKeeps

\* A request is let in with the session as it is.
LEMMA AdmitIsSafe ==
    ASSUME IInv, NEW r \in Requests, NEW t \in Tokens, Admit(r, t)
    PROVE  IInv'
<1>. DEFINE request == [token |-> t, session |-> rows[t]]
<1>1. requests' = [requests EXCEPT ![r] = request] /\ rows[t] # None
  BY DEF Admit, Live
<1>2. UNCHANGED <<now, backend, libraries, rows, shareKeys, adminKeys, cached, ends, earned,
                  attached, recent, overlapped, cutOff, left>>
  BY DEF Admit, memory, history
<1>3. TypeOK
  BY DEF IInv
<1>4. request \in Request
  BY <1>1, <1>3 DEF TypeOK, Request
<1>5. requests' \in [Requests -> {None} \cup Request]
  BY <1>1, <1>3, <1>4 DEF TypeOK
<1>6. \A q \in Requests : requests'[q] = requests[q] \/ requests'[q] = request
  BY <1>1, <1>3 DEF TypeOK
<1>7. TypeOK'
  BY <1>2, <1>3, <1>5 DEF TypeOK
<1>8. EndInv'
  <2>1. rows[t].expires = ends[t] /\ ends[t] # 0
    BY <1>1 DEF IInv, EndInv
  <2>2. ASSUME NEW q \in Requests, requests'[q] # None
        PROVE  /\ requests'[q].session.expires = ends'[requests'[q].token]
               /\ ends'[requests'[q].token] # 0
    BY <1>2, <1>6, <2>1, <2>2 DEF IInv, EndInv
  <2>3. QED
    BY <1>2, <2>2 DEF IInv, EndInv
<1>9. NewInv' /\ LeftInv' /\ AttachedSharesStay' /\ ShareKeyInv' /\ AdminKeyInv'
  BY <1>2 DEF IInv, NewInv, LeftInv, AttachedSharesStay, ShareKeyInv, AdminKeyInv, Live
<1>10. EarnInv'
  <2>1. \A u \in Tokens : \A session : Covered(u, session)' <=> Covered(u, session)
    BY <1>2 DEF Covered
  <2>2. Covered(t, rows[t])
    BY <1>1 DEF IInv, EarnInv
  <2>3. ASSUME NEW u \in Tokens, rows[u] # None
        PROVE  /\ Covered(u, rows[u])
               /\ \A q \in Requests : requests'[q] # None /\ requests'[q].token = u =>
                     Covered(u, requests'[q].session)
    BY <1>6, <2>2, <2>3 DEF IInv, EarnInv
  <2>4. QED
    BY <1>2, <2>1, <2>3 DEF EarnInv, Covered, GrantsOf
<1>11. QED
  BY <1>7, <1>8, <1>9, <1>10 DEF IInv

\* What adding a link with grant g to the session of a request stores: the row
\* stays as it is, or, of a session that is live, has the grants the request has
\* read and the new one.
LEMMA KeepLinkStores ==
    ASSUME IInv, NEW t \in Tokens, NEW s \in Shares, NEW g \in Grant,
           g.scope = "share", g.share = s,
           NEW session \in Session, session.kind = "share_guest",
           KeepLink(t, s, g, session)
    PROVE  /\ rows' \in [Tokens -> {None} \cup Session]
           /\ \A u \in Tokens : u # t => rows'[u] = rows[u]
           /\ \/ rows'[t] = rows[t] /\ s \in Linked(session.grants)
              \/ rows'[t] = rows[t] /\ ~Live(t)
              \/ /\ Live(t)
                 /\ rows'[t] \in Session
                 /\ rows'[t].kind = rows[t].kind /\ rows'[t].expires = rows[t].expires
                 /\ rows'[t].grants = session.grants \cup {g}
                 /\ GrantsOf(rows'[t]) = session.grants \cup {g}
                 /\ Linked(rows'[t].grants) = Linked(session.grants) \cup {s}
<1>1. GrantsOf(session) = session.grants /\ session.grants \in SUBSET Grant
  BY GrantsOfIsTyped DEF Session
<1>2. rows \in [Tokens -> {None} \cup Session]
  BY DEF IInv, TypeOK
<1>3. CASE s \in Linked(session.grants)
  <2>1. rows' = rows
    BY <1>1, <1>3 DEF KeepLink
  <2>2. QED
    BY <1>2, <1>3, <2>1
<1>4. CASE s \notin Linked(session.grants)
  <2>1. UpdateGrants(t, session.grants \cup {g})
    BY <1>1, <1>4 DEF KeepLink
  <2>2. CASE ~Live(t)
    BY <1>2, <2>1, <2>2 DEF UpdateGrants
  <2>3. CASE Live(t)
    <3>. DEFINE old == rows[t]
                row == [kind |-> old.kind, expires |-> old.expires,
                        grants |-> session.grants \cup {g}]
    <3>1. old \in Session
      BY <1>2, <2>3 DEF Live
    <3>2. rows' = [rows EXCEPT ![t] = row]
      BY <2>1, <2>3 DEF UpdateGrants
    <3>. HIDE DEF old
    <3>3. /\ row \in Session /\ row.kind = old.kind /\ row.expires = old.expires
          /\ row.grants = session.grants \cup {g}
      BY <1>1, <3>1 DEF Session
    <3>. HIDE DEF row
    <3>4. /\ GrantsOf(row) = session.grants \cup {g}
          /\ Linked(row.grants) = Linked(session.grants) \cup {s}
      BY <3>3, GrantsOfIsTyped DEF Linked
    <3>5. rows' \in [Tokens -> {None} \cup Session] /\ rows'[t] = row
          /\ \A u \in Tokens : u # t => rows'[u] = rows[u]
      BY <1>2, <3>2, <3>3
    <3>6. QED
      BY <2>3, <3>3, <3>4, <3>5 DEF old
  <2>4. QED
    BY <2>2, <2>3
<1>5. QED
  BY <1>3, <1>4

\* A request adds a link with the session it has read: what it overwrites is
\* marked, and what it grants Immich has said.
LEMMA AddLinkIsSafe ==
    ASSUME IInv, NEW r \in Requests, NEW s \in Shares, AddLink(r, s)
    PROVE  IInv'
<1>. DEFINE t == requests[r].token
            session == requests[r].session
<1>1. TypeOK
  BY DEF IInv
<1>2. /\ requests[r] # None /\ session.kind = "share_guest"
      /\ \E g \in ShareGrants(s) : KeepLink(t, s, g, session) /\ Earn(t, g)
      /\ IF Live(t) THEN Confirm(t, s) ELSE UNCHANGED <<attached, recent>>
      /\ overlapped' = IF rows[t] # None /\ rows[t] = session THEN overlapped
                       ELSE overlapped \cup {t}
      /\ requests' = [requests EXCEPT ![r] = None]
  BY DEF AddLink, Finish
<1>3. UNCHANGED <<now, backend, libraries, adminKeys, cached, ends, cutOff, left>>
  BY DEF AddLink
<1>4. t \in Tokens /\ session \in Session /\ session.grants \in SUBSET Grant
  BY <1>1, <1>2 DEF TypeOK, Request, Session
<1>5. session.expires = ends[t] /\ ends[t] # 0 /\ ends[t] \in Times
  BY <1>1, <1>2, <1>4 DEF IInv, EndInv, TypeOK
<1>6. PICK g \in ShareGrants(s) : KeepLink(t, s, g, session) /\ Earn(t, g)
  BY <1>2
<1>7. g \in Grant /\ g.scope = "share" /\ g.share = s /\ g.library \in Libraries
  BY <1>1, GrantsAreTyped DEF TypeOK
<1>8. GrantsOf(session) = session.grants
  BY <1>2, <1>4, GrantsOfIsTyped
<1>9. /\ rows' \in [Tokens -> {None} \cup Session]
      /\ \A u \in Tokens : u # t => rows'[u] = rows[u]
  BY <1>2, <1>4, <1>6, <1>7, KeepLinkStores
<1>10. \/ rows'[t] = rows[t] /\ s \in Linked(session.grants)
       \/ rows'[t] = rows[t] /\ ~Live(t)
       \/ /\ Live(t)
          /\ rows'[t] \in Session
          /\ rows'[t].kind = rows[t].kind /\ rows'[t].expires = rows[t].expires
          /\ rows'[t].grants = session.grants \cup {g}
          /\ GrantsOf(rows'[t]) = session.grants \cup {g}
          /\ Linked(rows'[t].grants) = Linked(session.grants) \cup {s}
  BY <1>2, <1>4, <1>6, <1>7, KeepLinkStores
<1>11. RememberShareKey(t, s, ends[t])
  BY <1>5, <1>6 DEF KeepLink
<1>12. /\ shareKeys' \in [Tokens -> SUBSET (Shares \X Times)]
       /\ <<s, ends[t]>> \in shareKeys'[t]
       /\ \A k \in shareKeys'[t] : k \in shareKeys[t] \/ k = <<s, ends[t]>>
       /\ \A k \in shareKeys[t] : k[1] # s => k \in shareKeys'[t]
       /\ \A u \in Tokens : u # t => shareKeys'[u] = shareKeys[u]
  BY <1>1, <1>4, <1>5, <1>11, RememberShareKeyAdds
<1>13. /\ earned' \in [Tokens -> SUBSET (Capabilities \X Libraries)]
       /\ \A c \in g.capabilities : <<c, g.library>> \in earned'[t]
       /\ \A u \in Tokens : earned[u] \subseteq earned'[u]
  BY <1>1, <1>4, <1>6, <1>7, EarnAdds
<1>14. Live(t) =>
          /\ attached' \in [Tokens -> SUBSET Shares] /\ recent' \in [Tokens -> SUBSET Shares]
          /\ attached'[t] = attached[t] \cup {s} /\ recent'[t] = recent[t] \cup {s}
          /\ \A u \in Tokens : u # t => attached'[u] = attached[u] /\ recent'[u] = recent[u]
  BY <1>1, <1>2, <1>4, ConfirmAdds
<1>15. /\ attached' \in [Tokens -> SUBSET Shares] /\ recent' \in [Tokens -> SUBSET Shares]
       /\ \A u \in Tokens : u # t \/ ~Live(t) => attached'[u] = attached[u] /\ recent'[u] = recent[u]
  BY <1>1, <1>2, <1>14 DEF TypeOK
<1>16. /\ requests' \in [Requests -> {None} \cup Request]
       /\ \A q \in Requests : requests'[q] # None => requests'[q] = requests[q]
  BY <1>1, <1>2 DEF TypeOK
<1>. HIDE DEF t, session
<1>17. overlapped' \in SUBSET Tokens
  BY <1>1, <1>2, <1>4 DEF TypeOK
<1>18. \A u \in Tokens : rows'[u] # None => rows[u] # None
  BY <1>9, <1>10 DEF Live
<1>19. \A u \in Tokens : rows'[u] # None =>
          rows'[u].kind = rows[u].kind /\ rows'[u].expires = rows[u].expires
  BY <1>9, <1>10
<1>20. \A u \in Tokens : Live(u)' => Live(u)
  BY <1>3, <1>18, <1>19 DEF Live
<1>21. TypeOK'
  BY <1>1, <1>3, <1>9, <1>12, <1>13, <1>15, <1>16, <1>17 DEF TypeOK
<1>22. EndInv'
  <2>1. \A u \in Tokens : rows'[u] # None => rows'[u].expires = ends'[u] /\ ends'[u] # 0
    BY <1>3, <1>18, <1>19 DEF IInv, EndInv
  <2>2. \A u \in Tokens : adminKeys'[u] <= ends'[u] /\ cached'[u] <= ends'[u]
    BY <1>3 DEF IInv, EndInv
  <2>3. ends[t] \in Nat
    BY <1>1, <1>4 DEF TypeOK, Times
  <2>4. \A u \in Tokens : \A k \in shareKeys'[u] : k[2] <= ends'[u]
    BY <1>3, <1>12, <2>3 DEF IInv, EndInv
  <2>5. ASSUME NEW q \in Requests, requests'[q] # None
        PROVE  /\ requests'[q].session.expires = ends'[requests'[q].token]
               /\ ends'[requests'[q].token] # 0
    BY <1>3, <1>16, <2>5 DEF IInv, EndInv
  <2>6. QED
    BY <2>1, <2>2, <2>4, <2>5 DEF EndInv
<1>23. NewInv'
  BY <1>3, <1>4, <1>5, <1>15 DEF IInv, NewInv
<1>24. LeftInv'
  <2>1. ASSUME NEW u \in left
        PROVE  /\ rows'[u] = None
               /\ u \notin overlapped' => shareKeys'[u] = {}
               /\ u \notin cutOff => adminKeys[u] = 0 /\ cached[u] = 0
    <3>1. u \in Tokens /\ rows[u] = None
      BY <1>1 DEF IInv, LeftInv, TypeOK
    <3>2. rows'[u] = None
      BY <1>18, <3>1
    <3>3. u \notin overlapped' => u # t /\ u \notin overlapped
      BY <1>2, <3>1
    <3>4. u \notin overlapped' => shareKeys'[u] = {}
      BY <1>12, <3>1, <3>3 DEF IInv, LeftInv
    <3>5. QED
      BY <3>2, <3>4 DEF IInv, LeftInv
  <2>2. QED
    BY <1>3, <2>1 DEF LeftInv
<1>25. AttachedSharesStay'
  <2>1. ASSUME NEW u \in Tokens, u \notin overlapped', Live(u)'
        PROVE  attached'[u] \subseteq Linked(rows'[u].grants)
    <3>1. u \notin overlapped /\ Live(u)
      BY <1>2, <1>20, <2>1
    <3>2. attached[u] \subseteq Linked(rows[u].grants)
      BY <3>1 DEF IInv, AttachedSharesStay
    <3>3. CASE u # t
      BY <1>9, <1>15, <3>2, <3>3
    <3>4. CASE u = t
      <4>1. rows[t] = session
        BY <1>2, <2>1, <3>4
      <4>2. attached'[t] = attached[t] \cup {s}
        BY <1>14, <3>1, <3>4
      <4>3. QED
        BY <1>10, <3>1, <3>2, <3>4, <4>1, <4>2
    <3>5. QED
      BY <3>3, <3>4
  <2>2. QED
    BY <2>1 DEF AttachedSharesStay
<1>26. ShareKeyInv'
  <2>1. ASSUME NEW u \in Tokens, Live(u)', NEW x \in recent'[u]
        PROVE  <<x, ends[u]>> \in shareKeys'[u]
    <3>1. Live(u)
      BY <1>20, <2>1
    <3>2. x \in recent[u] => <<x, ends[u]>> \in shareKeys[u]
      BY <3>1 DEF IInv, ShareKeyInv
    <3>3. CASE u # t
      BY <1>12, <1>15, <2>1, <3>2, <3>3
    <3>4. CASE u = t
      <4>1. recent'[t] = recent[t] \cup {s}
        BY <1>14, <3>1, <3>4
      <4>2. CASE x = s
        BY <1>12, <3>4, <4>2
      <4>3. CASE x # s
        <5>1. <<x, ends[t]>> \in shareKeys[t] /\ <<x, ends[t]>>[1] # s
          BY <2>1, <3>2, <3>4, <4>1, <4>3
        <5>2. QED
          BY <1>12, <3>4, <5>1
      <4>4. QED
        BY <4>2, <4>3
    <3>5. QED
      BY <3>3, <3>4
  <2>2. QED
    BY <1>3, <2>1 DEF ShareKeyInv
<1>27. AdminKeyInv'
  BY <1>3, <1>18, <1>19 DEF IInv, AdminKeyInv
<1>28. EarnInv'
  <2>1. ASSUME NEW u \in Tokens, rows'[u] # None
        PROVE  rows[u] # None /\ Covered(u, rows[u]) /\ \A q \in Requests :
                  requests[q] # None /\ requests[q].token = u => Covered(u, requests[q].session)
    BY <1>18, <2>1 DEF IInv, EarnInv
  <2>2. ASSUME NEW u \in Tokens, rows'[u] # None, rows'[u] = rows[u]
        PROVE  Covered(u, rows[u])'
    <3>1. Covered(u, rows[u])
      BY <2>1, <2>2
    <3>2. QED
      BY <1>13, <2>2, <3>1 DEF Covered, GrantsOf
  <2>3. ASSUME NEW u \in Tokens, rows'[u] # None, rows'[u] # rows[u]
        PROVE  Covered(u, rows[u])'
    <3>1. u = t
      BY <1>9, <2>3
    <3>2. GrantsOf(rows'[t]) = session.grants \cup {g}
      BY <1>10, <2>3, <3>1
    <3>3. Covered(t, session)
      BY <1>2, <1>4, <2>1, <2>3, <3>1 DEF t, session
    <3>4. \A h \in session.grants :
             h.scope # "instance" /\ \A c \in h.capabilities : <<c, h.library>> \in earned[t]
      BY <1>2, <1>8, <3>3 DEF Covered
    <3>5. \A h \in session.grants \cup {g} :
             h.scope # "instance" /\ \A c \in h.capabilities : <<c, h.library>> \in earned'[t]
      BY <1>4, <1>7, <1>13, <3>4
    <3>6. GrantsOf(rows[u])' = GrantsOf(rows'[u])
      BY DEF GrantsOf
    <3>7. QED
      BY <3>1, <3>2, <3>5, <3>6 DEF Covered
  <2>4. ASSUME NEW u \in Tokens, rows'[u] # None,
               NEW q \in Requests, requests'[q] # None, requests'[q].token = u
        PROVE  Covered(u, requests[q].session)'
    <3>1. requests'[q] = requests[q]
      BY <1>16, <2>4
    <3>2. Covered(u, requests[q].session)
      BY <2>1, <2>4, <3>1
    <3>3. QED
      BY <1>13, <3>1, <3>2 DEF Covered, GrantsOf
  <2>5. QED
    BY <2>2, <2>3, <2>4 DEF EarnInv
<1>29. QED
  BY <1>21, <1>22, <1>23, <1>24, <1>25, <1>26, <1>27, <1>28 DEF IInv

\* A request that has been answered is over, and others go on.
LEMMA FinishEnds ==
    ASSUME TypeOK, NEW r \in Requests, Finish(r)
    PROVE  /\ requests' \in [Requests -> {None} \cup Request]
           /\ \A q \in Requests : requests'[q] # None => requests'[q] = requests[q]
BY DEF Finish, TypeOK

\* A session is deleted: a log-out keeps the invariant if it drops keys of links
\* of its own session only, and all of them if it is the one that promises to.
LEMMA EndSessionKeeps ==
    ASSUME IInv, NEW r \in Requests, requests[r] # None,
           NEW answered \in BOOLEAN, EndSession(r, answered),
           shareKeys' \in [Tokens -> SUBSET (Shares \X Times)],
           \A u \in Tokens : shareKeys'[u] \subseteq shareKeys[u],
           \A u \in Tokens : u # requests[r].token => shareKeys'[u] = shareKeys[u],
           \/ left' = left
           \/ left' = left \cup {requests[r].token} /\ shareKeys'[requests[r].token] = {}
    PROVE  IInv'
<1>. DEFINE t == requests[r].token
<1>1. TypeOK
  BY DEF IInv
<1>2. t \in Tokens
  BY <1>1 DEF TypeOK, Request
<1>3. ends[t] # 0 /\ ends[t] \in Nat
  BY <1>1, <1>2 DEF IInv, EndInv, TypeOK, Times
<1>4. /\ rows' = [rows EXCEPT ![t] = None]
      /\ adminKeys' = [adminKeys EXCEPT ![t] = 0]
      /\ cached' = IF answered THEN [cached EXCEPT ![t] = 0] ELSE cached
      /\ cutOff' = IF answered THEN cutOff ELSE cutOff \cup {t}
      /\ earned' = [earned EXCEPT ![t] = {}]
      /\ attached' = [attached EXCEPT ![t] = {}]
      /\ recent' = [recent EXCEPT ![t] = {}]
      /\ UNCHANGED <<now, backend, libraries, ends, overlapped>>
  BY DEF EndSession, Note
<1>5. /\ requests' \in [Requests -> {None} \cup Request]
      /\ \A q \in Requests : requests'[q] # None => requests'[q] = requests[q]
  BY <1>1, FinishEnds DEF EndSession
<1>6. left' \in {left, left \cup {t}} /\ (t \in left' => t \in left \/ shareKeys'[t] = {})
  OBVIOUS
<1>7. \A u \in Tokens : u # t => shareKeys'[u] = shareKeys[u]
  OBVIOUS
<1>. HIDE DEF t
<1>8. 0 \in Times
  BY <1>1, TimesAreTyped DEF TypeOK
<1>9. /\ rows' \in [Tokens -> {None} \cup Session]
      /\ rows'[t] = None /\ \A u \in Tokens : u # t => rows'[u] = rows[u]
  BY <1>1, <1>2, <1>4 DEF TypeOK
<1>10. /\ adminKeys' \in [Tokens -> Times] /\ cached' \in [Tokens -> Times] /\ cutOff' \in SUBSET Tokens
       /\ adminKeys'[t] = 0 /\ cached'[t] \in {0, cached[t]}
       /\ t \notin cutOff' => cached'[t] = 0
       /\ \A u \in Tokens : u # t =>
             adminKeys'[u] = adminKeys[u] /\ cached'[u] = cached[u] /\ (u \in cutOff' <=> u \in cutOff)
  BY <1>1, <1>2, <1>4, <1>8 DEF TypeOK
<1>11. /\ earned' \in [Tokens -> SUBSET (Capabilities \X Libraries)]
       /\ attached' \in [Tokens -> SUBSET Shares] /\ recent' \in [Tokens -> SUBSET Shares]
       /\ attached'[t] = {} /\ recent'[t] = {}
       /\ \A u \in Tokens : u # t =>
             earned'[u] = earned[u] /\ attached'[u] = attached[u] /\ recent'[u] = recent[u]
  BY <1>1, <1>2, <1>4 DEF TypeOK
<1>12. left' \in SUBSET Tokens
  BY <1>1, <1>2, <1>6 DEF TypeOK
<1>13. TypeOK'
  BY <1>1, <1>4, <1>5, <1>9, <1>10, <1>11, <1>12 DEF TypeOK
<1>14. EndInv'
  <2>1. \A u \in Tokens : rows'[u] # None => rows'[u].expires = ends'[u] /\ ends'[u] # 0
    BY <1>4, <1>9 DEF IInv, EndInv
  <2>2. \A u \in Tokens : adminKeys'[u] <= ends'[u] /\ cached'[u] <= ends'[u]
    BY <1>3, <1>4, <1>10 DEF IInv, EndInv
  <2>3. \A u \in Tokens : \A k \in shareKeys'[u] : k[2] <= ends'[u]
    BY <1>4 DEF IInv, EndInv
  <2>4. ASSUME NEW q \in Requests, requests'[q] # None
        PROVE  /\ requests'[q].session.expires = ends'[requests'[q].token]
               /\ ends'[requests'[q].token] # 0
    BY <1>4, <1>5, <2>4 DEF IInv, EndInv
  <2>5. QED
    BY <2>1, <2>2, <2>3, <2>4 DEF EndInv
<1>15. NewInv'
  BY <1>3, <1>4, <1>6, <1>11 DEF IInv, NewInv
<1>16. LeftInv'
  <2>1. ASSUME NEW u \in left'
        PROVE  /\ rows'[u] = None
               /\ u \notin overlapped => shareKeys'[u] = {}
               /\ u \notin cutOff' => adminKeys'[u] = 0 /\ cached'[u] = 0
    <3>1. u \in Tokens
      BY <1>12
    <3>2. CASE u = t
      <4>1. u \notin overlapped => shareKeys'[u] = {}
        BY <1>6, <2>1, <3>1, <3>2 DEF IInv, LeftInv
      <4>2. QED
        BY <1>9, <1>10, <3>2, <4>1
    <3>3. CASE u # t
      <4>1. u \in left
        BY <1>6, <2>1, <3>3
      <4>2. QED
        BY <1>7, <1>9, <1>10, <3>1, <3>3, <4>1 DEF IInv, LeftInv
    <3>4. QED
      BY <3>2, <3>3
  <2>2. QED
    BY <1>4, <2>1 DEF LeftInv
<1>17. \A u \in Tokens : Live(u)' => u # t /\ Live(u)
  BY <1>4, <1>9 DEF Live
<1>18. AttachedSharesStay'
  BY <1>4, <1>9, <1>11, <1>17 DEF IInv, AttachedSharesStay
<1>19. ShareKeyInv'
  BY <1>4, <1>7, <1>11, <1>17 DEF IInv, ShareKeyInv
<1>20. AdminKeyInv'
  BY <1>4, <1>9, <1>10 DEF IInv, AdminKeyInv
<1>21. EarnInv'
  <2>1. ASSUME NEW u \in Tokens, rows'[u] # None
        PROVE  Covered(u, rows[u])' /\ \A q \in Requests :
                  requests'[q] # None /\ requests'[q].token = u => Covered(u, requests[q].session)'
    <3>1. u # t /\ rows'[u] = rows[u] /\ earned'[u] = earned[u]
      BY <1>9, <1>11, <2>1
    <3>2. Covered(u, rows[u]) /\ \A q \in Requests :
              requests[q] # None /\ requests[q].token = u => Covered(u, requests[q].session)
      BY <2>1, <3>1 DEF IInv, EarnInv
    <3>3. QED
      BY <1>5, <3>1, <3>2 DEF Covered, GrantsOf
  <2>2. QED
    BY <2>1 DEF EarnInv
<1>22. QED
  BY <1>13, <1>14, <1>15, <1>16, <1>18, <1>19, <1>20, <1>21 DEF IInv

\* DELETE /session: the keys of links stay.
LEMMA DeleteAdminSessionIsSafe ==
    ASSUME IInv, NEW r \in Requests, DeleteAdminSession(r)
    PROVE  IInv'
<1>1. PICK answered \in Answers : EndSession(r, answered)
  BY DEF DeleteAdminSession
<1>2. answered \in BOOLEAN
  BY <1>1 DEF Answers
<1>3. requests[r] # None /\ UNCHANGED <<shareKeys, left>>
  BY DEF DeleteAdminSession
<1>4. shareKeys' \in [Tokens -> SUBSET (Shares \X Times)]
  BY <1>3 DEF IInv, TypeOK
<1>5. QED
  BY <1>1, <1>2, <1>3, <1>4, EndSessionKeeps

\* DELETE /auth/session: no key stays.
LEMMA DeleteCurrentSessionIsSafe ==
    ASSUME IInv, NEW r \in Requests, DeleteCurrentSession(r)
    PROVE  IInv'
<1>. DEFINE t == requests[r].token
<1>1. PICK answered \in Answers : EndSession(r, answered)
  BY DEF DeleteCurrentSession
<1>2. answered \in BOOLEAN
  BY <1>1 DEF Answers
<1>3. requests[r] # None /\ shareKeys' = [shareKeys EXCEPT ![t] = {}] /\ left' = left \cup {t}
  BY DEF DeleteCurrentSession, ForgetShareKeys
<1>4. t \in Tokens
  BY <1>3 DEF IInv, TypeOK, Request
<1>5. /\ shareKeys' \in [Tokens -> SUBSET (Shares \X Times)] /\ shareKeys'[t] = {}
      /\ \A u \in Tokens : u # t => shareKeys'[u] = shareKeys[u]
      /\ \A u \in Tokens : shareKeys'[u] \subseteq shareKeys[u]
  BY <1>3, <1>4 DEF IInv, TypeOK
<1>6. QED
  BY <1>1, <1>2, <1>3, <1>5, EndSessionKeeps

\* A step that changes none of what a session is remembered by, except that
\* requests end, keeps the invariant.
LEMMA QuietStepKeeps ==
    ASSUME IInv, libraries' \in SUBSET Libraries,
           requests' \in [Requests -> {None} \cup Request],
           \A q \in Requests : requests'[q] # None => requests'[q] = requests[q],
           UNCHANGED <<now, backend, rows, memory, cached, history>>
    PROVE  IInv'
<1>1. UNCHANGED <<now, backend, rows, shareKeys, adminKeys, cached, ends, earned, attached,
                  recent, overlapped, cutOff, left>>
  BY DEF memory, history
<1>2. TypeOK'
  BY <1>1 DEF IInv, TypeOK
<1>3. EndInv'
  BY <1>1 DEF IInv, EndInv
<1>4. NewInv' /\ LeftInv' /\ AttachedSharesStay' /\ ShareKeyInv' /\ AdminKeyInv'
  BY <1>1 DEF IInv, NewInv, LeftInv, AttachedSharesStay, ShareKeyInv, AdminKeyInv, Live
<1>5. EarnInv'
  BY <1>1 DEF IInv, EarnInv, Covered, GrantsOf
<1>6. QED
  BY <1>2, <1>3, <1>4, <1>5 DEF IInv

\* Handlers that answer, and one that makes a library.
LEMMA AnswersAreSafe ==
    ASSUME IInv, NEW r \in Requests,
           Answer(r) \/ \E l \in Libraries : CreateLibrary(r, l)
    PROVE  IInv'
<1>1. TypeOK /\ libraries \in SUBSET Libraries
  BY DEF IInv, TypeOK
<1>2. CASE Answer(r)
  <2>1. Finish(r) /\ libraries' = libraries /\ UNCHANGED <<now, backend, rows, memory, cached, history>>
    BY <1>2 DEF Answer
  <2>2. QED
    BY <1>1, <2>1, FinishEnds, QuietStepKeeps
<1>3. ASSUME NEW l \in Libraries, CreateLibrary(r, l)
      PROVE  IInv'
  <2>1. Finish(r) /\ libraries' = libraries \cup {l}
        /\ UNCHANGED <<now, backend, rows, memory, cached, history>>
    BY <1>3 DEF CreateLibrary
  <2>2. libraries' \in SUBSET Libraries
    BY <1>1, <2>1
  <2>3. QED
    BY <1>1, <2>1, <2>2, FinishEnds, QuietStepKeeps
<1>4. QED
  BY <1>2, <1>3

\* Keys of links are dropped when they have expired, which those of a session
\* that is live have not.
LEMMA DropExpiredShareKeysIsSafe ==
    ASSUME IInv, NEW t \in Tokens, DropExpiredShareKeys(t)
    PROVE  IInv'
<1>. DEFINE fresh == {k \in shareKeys[t] : now < k[2]}
<1>1. shareKeys' = [shareKeys EXCEPT ![t] = fresh]
  BY DEF DropExpiredShareKeys
<1>2. UNCHANGED <<now, backend, libraries, rows, adminKeys, cached, requests, ends, earned,
                  attached, recent, overlapped, cutOff, left>>
  BY DEF DropExpiredShareKeys, history
<1>3. TypeOK
  BY DEF IInv
<1>4. shareKeys' \in [Tokens -> SUBSET (Shares \X Times)] /\ shareKeys'[t] = fresh
      /\ \A u \in Tokens : u # t => shareKeys'[u] = shareKeys[u]
  BY <1>1, <1>3 DEF TypeOK
<1>5. \A u \in Tokens : shareKeys'[u] \subseteq shareKeys[u]
  BY <1>4
<1>6. TypeOK'
  BY <1>2, <1>3, <1>4 DEF TypeOK
<1>7. EndInv'
  BY <1>2, <1>5 DEF IInv, EndInv
<1>8. LeftInv'
  <2>1. \A u \in left : u \in Tokens
    BY <1>3 DEF TypeOK
  <2>2. QED
    BY <1>2, <1>5, <2>1 DEF IInv, LeftInv
<1>9. ShareKeyInv'
  <2>1. ASSUME NEW u \in Tokens, Live(u), NEW s \in recent[u]
        PROVE  <<s, ends[u]>> \in shareKeys'[u]
    <3>1. <<s, ends[u]>> \in shareKeys[u]
      BY <2>1 DEF IInv, ShareKeyInv
    <3>2. now < ends[u]
      BY <2>1 DEF IInv, EndInv, Live
    <3>3. QED
      BY <1>4, <3>1, <3>2
  <2>2. QED
    BY <1>2, <2>1 DEF ShareKeyInv, Live
<1>10. NewInv' /\ AttachedSharesStay' /\ AdminKeyInv'
  BY <1>2 DEF IInv, NewInv, AttachedSharesStay, AdminKeyInv, Live
<1>11. EarnInv'
  BY <1>2 DEF IInv, EarnInv, Covered, GrantsOf
<1>12. QED
  BY <1>6, <1>7, <1>8, <1>9, <1>10, <1>11 DEF IInv

\* An API key that has expired is dropped from this process.
LEMMA DropExpiredAdminKeyIsSafe ==
    ASSUME IInv, NEW t \in Tokens, DropExpiredAdminKey(t)
    PROVE  IInv'
<1>1. adminKeys' = [adminKeys EXCEPT ![t] = 0]
  BY DEF DropExpiredAdminKey
<1>2. UNCHANGED <<now, backend, libraries, rows, shareKeys, cached, requests, ends, earned,
                  attached, recent, overlapped, cutOff, left>>
  BY DEF DropExpiredAdminKey, history
<1>3. TypeOK
  BY DEF IInv
<1>4. adminKeys' \in [Tokens -> Times] /\ \A u \in Tokens : adminKeys'[u] \in {0, adminKeys[u]}
  <2>1. 0 \in Times
    BY <1>3, TimesAreTyped DEF TypeOK
  <2>2. QED
    BY <1>1, <1>3, <2>1 DEF TypeOK
<1>5. TypeOK'
  BY <1>2, <1>3, <1>4 DEF TypeOK
<1>6. EndInv'
  <2>1. \A u \in Tokens : ends[u] \in Nat
    BY <1>3 DEF TypeOK, Times
  <2>2. \A u \in Tokens : adminKeys'[u] <= ends[u]
    BY <1>4, <2>1 DEF IInv, EndInv
  <2>3. QED
    BY <1>2, <2>2 DEF IInv, EndInv
<1>7. LeftInv'
  <2>1. \A u \in left : u \in Tokens
    BY <1>3 DEF TypeOK
  <2>2. QED
    BY <1>2, <1>4, <2>1 DEF IInv, LeftInv
<1>8. AdminKeyInv'
  BY <1>2, <1>4 DEF IInv, AdminKeyInv
<1>9. NewInv' /\ AttachedSharesStay' /\ ShareKeyInv'
  BY <1>2 DEF IInv, NewInv, AttachedSharesStay, ShareKeyInv, Live
<1>10. EarnInv'
  BY <1>2 DEF IInv, EarnInv, Covered, GrantsOf
<1>11. QED
  BY <1>5, <1>6, <1>7, <1>8, <1>9, <1>10 DEF IInv

\* After a restart the process remembers nothing, and Redis what it had.
LEMMA RestartIsSafe ==
    ASSUME IInv, Restart
    PROVE  IInv'
<1>1. /\ shareKeys' = [t \in Tokens |-> {}] /\ adminKeys' = [t \in Tokens |-> 0]
      /\ cached' = IF backend = "redis" THEN cached ELSE [t \in Tokens |-> 0]
      /\ requests' = [r \in Requests |-> None] /\ recent' = [t \in Tokens |-> {}]
      /\ UNCHANGED <<now, backend, libraries, rows, ends, earned, attached, overlapped, cutOff, left>>
  BY DEF Restart
<1>2. TypeOK
  BY DEF IInv
<1>3. 0 \in Times
  BY <1>2, TimesAreTyped DEF TypeOK
<1>4. /\ cached' \in [Tokens -> Times]
      /\ \A t \in Tokens : cached'[t] \in {0, cached[t]} /\ (backend = "redis" => cached'[t] = cached[t])
  BY <1>1, <1>2, <1>3 DEF TypeOK
<1>5. TypeOK'
  <2>1. /\ shareKeys' \in [Tokens -> SUBSET (Shares \X Times)] /\ adminKeys' \in [Tokens -> Times]
        /\ requests' \in [Requests -> {None} \cup Request] /\ recent' \in [Tokens -> SUBSET Shares]
    BY <1>1, <1>3
  <2>2. QED
    BY <1>1, <1>2, <1>4, <2>1 DEF TypeOK
<1>6. EndInv'
  <2>1. \A t \in Tokens : ends[t] \in Nat
    BY <1>2 DEF TypeOK, Times
  <2>2. \A t \in Tokens : adminKeys'[t] <= ends'[t] /\ cached'[t] <= ends'[t]
    BY <1>1, <1>4, <2>1 DEF IInv, EndInv
  <2>3. QED
    BY <1>1, <2>2 DEF IInv, EndInv
<1>7. LeftInv'
  <2>1. \A t \in left : t \in Tokens
    BY <1>2 DEF TypeOK
  <2>2. QED
    BY <1>1, <1>4, <2>1 DEF IInv, LeftInv
<1>8. NewInv' /\ AttachedSharesStay' /\ ShareKeyInv'
  BY <1>1 DEF IInv, NewInv, AttachedSharesStay, ShareKeyInv, Live
<1>9. AdminKeyInv'
  BY <1>1, <1>4 DEF IInv, AdminKeyInv
<1>10. EarnInv'
  BY <1>1 DEF IInv, EarnInv, Covered, GrantsOf
<1>11. QED
  BY <1>5, <1>6, <1>7, <1>8, <1>9, <1>10 DEF IInv

\* Time passes: no session comes to life.
LEMMA TickIsSafe ==
    ASSUME IInv, Tick
    PROVE  IInv'
<1>1. now' = now + 1 /\ now < MaxTime
  BY DEF Tick
<1>2. UNCHANGED <<backend, libraries, rows, shareKeys, adminKeys, cached, requests, ends, earned,
                  attached, recent, overlapped, cutOff, left>>
  BY DEF Tick, memory, history
<1>3. TypeOK' /\ now \in Nat
  BY <1>1, <1>2, ConstantsAssumption DEF IInv, TypeOK
<1>4. \A t \in Tokens : Live(t)' => Live(t)
  <2>1. ASSUME NEW t \in Tokens, Live(t)'
        PROVE  Live(t)
    <3>1. rows[t] # None /\ now + 1 < rows[t].expires /\ rows[t] \in Session
      BY <1>1, <1>2, <2>1 DEF Live, IInv, TypeOK
    <3>2. rows[t].expires \in Nat
      BY <3>1 DEF Session, Times
    <3>3. QED
      BY <1>3, <3>1, <3>2 DEF Live
  <2>2. QED
    BY <2>1
<1>5. EndInv' /\ NewInv' /\ LeftInv'
  BY <1>2 DEF IInv, EndInv, NewInv, LeftInv
<1>6. AttachedSharesStay' /\ ShareKeyInv' /\ AdminKeyInv'
  <2>1. \A t \in Tokens : ends[t] \in Nat /\ (now' + 1 < ends[t] => now + 1 < ends[t])
    BY <1>1, <1>3 DEF IInv, TypeOK, Times
  <2>2. AdminKeyInv'
    BY <1>2, <2>1 DEF IInv, AdminKeyInv
  <2>3. QED
    BY <1>2, <1>4, <2>2 DEF IInv, AttachedSharesStay, ShareKeyInv
<1>7. EarnInv'
  BY <1>2 DEF IInv, EarnInv, Covered, GrantsOf
<1>8. QED
  BY <1>3, <1>5, <1>6, <1>7 DEF IInv

\* Every step keeps the invariant.
LEMMA StepIsSafe == IInv /\ [Next]_vars => IInv'
<1>. SUFFICES ASSUME IInv, [Next]_vars PROVE IInv'
  OBVIOUS
<1>1. ASSUME NEW t \in Tokens, LogIn(t)
      PROVE  IInv'
  BY <1>1, SuperadminLogInIsSafe, AdminLogInIsSafe, LinkLogInIsSafe DEF LogIn
<1>2. ASSUME NEW t \in Tokens, DropExpiredShareKeys(t)
      PROVE  IInv'
  BY <1>2, DropExpiredShareKeysIsSafe
<1>3. ASSUME NEW r \in Requests, requests[r] # None, DropExpiredAdminKey(requests[r].token)
      PROVE  IInv'
  <2>1. requests[r].token \in Tokens
    BY <1>3 DEF IInv, TypeOK, Request
  <2>2. QED
    BY <1>3, <2>1, DropExpiredAdminKeyIsSafe
<1>4. ASSUME NEW r \in Requests, NEW t \in Tokens, Admit(r, t)
      PROVE  IInv'
  BY <1>4, AdmitIsSafe
<1>5. ASSUME NEW r \in Requests, Handle(r)
      PROVE  IInv'
  BY <1>5, AnswersAreSafe, AddLinkIsSafe, DeleteAdminSessionIsSafe, DeleteCurrentSessionIsSafe
     DEF Handle
<1>6. CASE Restart
  BY <1>6, RestartIsSafe
<1>7. CASE Tick
  BY <1>7, TickIsSafe
<1>8. CASE UNCHANGED vars
  <2>1. /\ libraries' = libraries /\ requests' = requests
        /\ UNCHANGED <<now, backend, rows, memory, cached, history>>
    BY <1>8 DEF vars
  <2>2. QED
    BY <2>1, QuietStepKeeps DEF IInv, TypeOK
<1>9. QED
  BY <1>1, <1>2, <1>3, <1>4, <1>5, <1>6, <1>7, <1>8 DEF Next

\* The strengthened invariant holds in every state.
THEOREM InvariantHolds == Spec => []IInv
<1>1. QED
  BY InitIsSafe, StepIsSafe, PTL DEF Spec

\* No step makes a live session of one that has ended.
LEMMA StepRevivesNoSession ==
    ASSUME IInv, [Next]_vars, NEW t \in Tokens, ends[t] # 0, ~Live(t)
    PROVE  ~Live(t)'
<1>1. rows \in [Tokens -> {None} \cup Session] /\ now \in Nat
  BY DEF IInv, TypeOK
<1>2. ASSUME now' = now, rows'[t] \in {rows[t], None}
      PROVE  ~Live(t)'
  BY <1>2 DEF Live
<1>3. ASSUME NEW u \in Tokens, NEW kind, NEW grants, CreateSession(u, kind, grants)
      PROVE  now' = now /\ rows'[t] \in {rows[t], None}
  BY <1>1, <1>3 DEF CreateSession
<1>4. ASSUME NEW u \in Tokens, LogIn(u)
      PROVE  ~Live(t)'
  BY <1>2, <1>3, <1>4 DEF LogIn, LogInAsSuperadmin, LogInAsAdmin, LogInWithLink
<1>5. ASSUME NEW r \in Requests, NEW s \in Shares, AddLink(r, s)
      PROVE  ~Live(t)'
  <2>1. now' = now
    BY <1>5 DEF AddLink
  <2>2. ASSUME NEW u, NEW grants, UpdateGrants(u, grants)
        PROVE  rows'[t] = rows[t]
    BY <1>1, <2>2 DEF UpdateGrants
  <2>3. rows'[t] = rows[t]
    BY <1>5, <2>2 DEF AddLink, KeepLink
  <2>4. QED
    BY <1>2, <2>1, <2>3
<1>6. ASSUME NEW r \in Requests, NEW answered, EndSession(r, answered)
      PROVE  ~Live(t)'
  <2>1. now' = now /\ rows'[t] \in {rows[t], None}
    BY <1>1, <1>6 DEF EndSession
  <2>2. QED
    BY <1>2, <2>1
<1>7. ASSUME NEW r \in Requests, Handle(r)
      PROVE  ~Live(t)'
  <2>1. CASE Answer(r) \/ \E l \in Libraries : CreateLibrary(r, l)
    BY <1>2, <2>1 DEF Answer, CreateLibrary
  <2>2. CASE DeleteAdminSession(r) \/ DeleteCurrentSession(r)
    BY <1>6, <2>2 DEF DeleteAdminSession, DeleteCurrentSession
  <2>3. QED
    BY <1>5, <1>7, <2>1, <2>2 DEF Handle
<1>8. CASE Tick
  <2>1. now' = now + 1 /\ rows' = rows
    BY <1>8 DEF Tick
  <2>2. ASSUME rows[t] # None
        PROVE  rows[t].expires \in Nat /\ ~(now < rows[t].expires)
    BY <1>1, <2>2 DEF Live, Session, Times
  <2>3. QED
    BY <1>1, <2>1, <2>2 DEF Live
<1>9. ASSUME UNCHANGED <<now, rows>>
      PROVE  ~Live(t)'
  BY <1>2, <1>9
<1>10. (\E u \in Tokens : DropExpiredShareKeys(u) \/ DropExpiredAdminKey(u)
          \/ \E r \in Requests : Admit(r, u)) \/ Restart \/ UNCHANGED vars
       => ~Live(t)'
  BY <1>9 DEF DropExpiredShareKeys, DropExpiredAdminKey, Admit, Restart, vars
<1>11. \A r \in Requests : requests[r] # None => requests[r].token \in Tokens
  BY DEF IInv, TypeOK, Request
<1>12. QED
  BY <1>4, <1>7, <1>8, <1>10, <1>11 DEF Next

-----------------------------------------------------------------------------
(***************************************************************************)
(* The properties.                                                         *)
(***************************************************************************)
\* Every row is a session and every key has a time, whatever requests overlap.
THEOREM TypeCorrect == Spec => []TypeOK
<1>1. IInv => TypeOK
  BY DEF IInv
<1>2. QED
  BY <1>1, InvariantHolds, PTL

\* A session that has ended stays ended, and none lives longer than its client
\* was told: a request that was admitted before and saves its grants after does
\* neither bring it back nor make it longer.
THEOREM SessionsStayEnded == Spec => EndedSessionsStayEnded
<1>. DEFINE Ended(t) == ends[t] # 0 /\ ~Live(t) => ~Live(t)'
            InTime(t) == Live(t) => now < ends[t]
<1>1. IInv => \A t \in Tokens : InTime(t)
  BY DEF IInv, EndInv, Live
<1>2. IInv /\ [Next]_vars => [\A t \in Tokens : Ended(t)]_vars
  BY StepRevivesNoSession
<1>3. IInv /\ IInv' /\ [Next]_vars
      => [\A t \in Tokens : /\ ends[t] # 0 /\ ~Live(t) => ~Live(t)'
                            /\ (Live(t) => now < ends[t])']_vars
  BY <1>1, <1>2 DEF IInv, EndInv, Live
<1>4. QED
  BY <1>3, InvariantHolds, PTL DEF Spec, EndedSessionsStayEnded

\* A link that was added and confirmed stays, unless requests of the session
\* overlapped.
THEOREM SharesStay == Spec => []AttachedSharesStay
<1>1. IInv => AttachedSharesStay
  BY DEF IInv
<1>2. QED
  BY <1>1, InvariantHolds, PTL

\* The key of every link this process has confirmed is at hand while the session
\* lives.
THEOREM SharesHaveKeys == Spec => []AttachedSharesHaveKeys
<1>1. ASSUME IInv, NEW t \in Tokens, Live(t), NEW s \in recent[t]
      PROVE  ShareKeyIsKnown(t, s)
  <2>1. <<s, ends[t]>> \in shareKeys[t]
    BY <1>1 DEF IInv, ShareKeyInv
  <2>2. ends[t] \in Times /\ now < ends[t]
    BY <1>1 DEF IInv, TypeOK, EndInv, Live
  <2>3. QED
    BY <2>1, <2>2 DEF ShareKeyIsKnown
<1>2. IInv => AttachedSharesHaveKeys
  BY <1>1 DEF AttachedSharesHaveKeys
<1>3. QED
  BY <1>2, InvariantHolds, PTL

\* No key outlives its session, and DELETE /auth/session leaves none.
THEOREM KeysEnd == Spec => []KeysEndWithTheirSession
<1>1. ASSUME IInv, NEW t \in Tokens, NEW s \in Shares, ShareKeyIsKnown(t, s)
      PROVE  now < ends[t] /\ t \notin left \ overlapped
  <2>1. PICK until \in Times : <<s, until>> \in shareKeys[t] /\ now < until
    BY <1>1 DEF ShareKeyIsKnown
  <2>2. until <= ends[t]
    BY <1>1, <2>1 DEF IInv, EndInv
  <2>3. now \in Nat /\ until \in Nat /\ ends[t] \in Nat
    BY <1>1 DEF IInv, TypeOK, Times
  <2>4. now < ends[t]
    BY <2>1, <2>2, <2>3
  <2>5. QED
    BY <1>1, <2>1, <2>4 DEF IInv, LeftInv
<1>2. ASSUME IInv, NEW t \in Tokens, AdminKeyIsKnown(t, TRUE)
      PROVE  now < ends[t] /\ t \notin left \ cutOff
  <2>1. /\ now \in Nat /\ adminKeys[t] \in Nat /\ cached[t] \in Nat /\ ends[t] \in Nat
        /\ adminKeys[t] <= ends[t] /\ cached[t] <= ends[t]
    BY <1>2 DEF IInv, TypeOK, EndInv, Times
  <2>2. now < ends[t] /\ (adminKeys[t] # 0 \/ cached[t] # 0)
    BY <1>2, <2>1 DEF AdminKeyIsKnown
  <2>3. QED
    BY <1>2, <2>2 DEF IInv, LeftInv
<1>3. IInv => KeysEndWithTheirSession
  BY <1>1, <1>2 DEF KeysEndWithTheirSession
<1>4. QED
  BY <1>3, InvariantHolds, PTL

\* The API key of an administrator is found until the last second of the session,
\* after a restart too, where Redis keeps it and has answered.
THEOREM AdminKeysSurvive == Spec => []AdminKeySurvives
<1>1. ASSUME IInv, NEW t \in Tokens, Live(t), now + 1 < rows[t].expires,
             rows[t].kind = "immich_admin", backend = "redis", t \notin cutOff
      PROVE  AdminKeyIsKnown(t, TRUE)
  <2>1. now \in Nat /\ ends[t] \in Nat /\ rows[t].expires = ends[t]
    BY <1>1 DEF IInv, TypeOK, EndInv, Live, Times
  <2>2. cached[t] \in {ends[t] - 1, ends[t]} /\ adminKeys[t] \in {0, ends[t]}
    BY <1>1, <2>1 DEF IInv, AdminKeyInv, Live
  <2>3. QED
    BY <1>1, <2>1, <2>2 DEF AdminKeyIsKnown
<1>2. IInv => AdminKeySurvives
  BY <1>1 DEF AdminKeySurvives
<1>3. QED
  BY <1>2, InvariantHolds, PTL

\* No session has a capability that Immich did not say its key or one of its
\* links gives it, unless it is a superadmin's.
THEOREM GrantsEarned == Spec => []GrantsAreEarned
<1>1. ASSUME IInv, NEW t \in Tokens, rows[t] # None, rows[t].kind # "superadmin",
             NEW l \in Libraries, NEW c \in Capabilities,
             HasCapability(GrantsOf(rows[t]), c, l)
      PROVE  <<c, l>> \in earned[t]
  <2>1. PICK g \in GrantsOf(rows[t]) :
           c \in g.capabilities /\ (g.scope = "instance" \/ (l # None /\ g.library = l))
    BY <1>1 DEF HasCapability
  <2>2. g.scope # "instance" /\ <<c, g.library>> \in earned[t]
    BY <1>1, <2>1 DEF IInv, EarnInv, Covered
  <2>3. QED
    BY <2>1, <2>2
<1>2. IInv => GrantsAreEarned
  BY <1>1 DEF GrantsAreEarned
<1>3. QED
  BY <1>2, InvariantHolds, PTL

\* A library is mounted with exactly the capabilities the API grants in it.
THEOREM MountsAgree == Spec => []MountsShowCapabilities
<1>1. ASSUME TypeOK, NEW t \in Tokens, rows[t] # None, NEW l \in libraries
      PROVE  {c \in Capabilities : HasCapability(GrantsOf(rows[t]), c, l)} =
             UNION {m.capabilities : m \in {n \in Mounts(GrantsOf(rows[t])) : n.library = l}}
  <2>. DEFINE grants == GrantsOf(rows[t])
  <2>1. grants \in SUBSET Grant
    BY <1>1, GrantsOfIsTyped DEF TypeOK
  <2>2. l # None
    BY <1>1, ConstantsAssumption DEF TypeOK
  <2>. HIDE DEF grants
  <2>3. ASSUME NEW c \in Capabilities, HasCapability(grants, c, l)
        PROVE  \E m \in Mounts(grants) : m.library = l /\ c \in m.capabilities
    <3>1. PICK g \in grants : c \in g.capabilities /\ (g.scope = "instance" \/ g.library = l)
      BY <2>3 DEF HasCapability
    <3>2. [library |-> l, capabilities |-> g.capabilities] \in Mounts(grants)
      BY <3>1 DEF Mounts
    <3>3. QED
      BY <3>1, <3>2
  <2>4. ASSUME NEW m \in Mounts(grants), m.library = l, NEW c \in m.capabilities
        PROVE  c \in Capabilities /\ HasCapability(grants, c, l)
    <3>1. PICK g \in grants :
             m \in {[library |-> k, capabilities |-> g.capabilities] :
                    k \in {j \in libraries : g.scope = "instance" \/ g.library = j}}
      BY DEF Mounts
    <3>2. c \in g.capabilities /\ (g.scope = "instance" \/ g.library = l)
      BY <2>4, <3>1
    <3>3. c \in Capabilities
      BY <2>1, <3>2 DEF Grant
    <3>4. QED
      BY <2>2, <3>2, <3>3 DEF HasCapability
  <2>5. {c \in Capabilities : HasCapability(grants, c, l)} =
        UNION {m.capabilities : m \in {n \in Mounts(grants) : n.library = l}}
    BY <2>3, <2>4
  <2>6. QED
    BY <2>5 DEF grants
<1>2. TypeOK => MountsShowCapabilities
  BY <1>1 DEF MountsShowCapabilities
<1>3. QED
  BY <1>2, TypeCorrect, PTL
================================================================================
