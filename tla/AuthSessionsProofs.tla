-------------------------- MODULE AuthSessionsProofs --------------------------
(***************************************************************************)
(* Proofs about AuthSessions for any accounts, tokens, requests and TTL.   *)
(* RequestsFit is the strengthening: what an open request has read and     *)
(* written still agrees with the committed rows.                           *)
(***************************************************************************)
EXTENDS AuthSessions, TLAPS

InTx(q) == q.at \in {"found", "revoked", "issued"}

\* One request against the tables.
Fits(q) ==
    /\ InTx(q) => q.old # None /\ (q.at # "found" => (q.stamps <=> Live(q.old)))
    /\ q.old # None => q.old \in Tokens /\ Stored(q.old) /\ q.user = tokens[q.old].user
    /\ q.at = "issued" => /\ q.new \in Tokens /\ ~Stored(q.new)
                          /\ tokens[q.old].expires =< q.expires
                          /\ q.expires =< now + RefreshTTL
    /\ q.at = "stored" => q.new \in Tokens /\ Stored(q.new)
    /\ InTx(q) /\ q.user \in Patient => Live(q.old)

\* Two requests against each other.
Apart(p, q) ==
    /\ ~(/\ p.at \in {"revoked", "issued"} /\ q.at \in {"revoked", "issued"}
         /\ p.stamps /\ q.stamps /\ p.old = q.old)
    /\ ~(p.at = "issued" /\ q.at = "issued" /\ p.new = q.new)
    /\ p.old # None /\ p.user \in Patient => p.old # q.old

RequestsFit ==
    \A r \in Handlers :
        request[r].at # "idle" =>
            /\ Fits(request[r])
            /\ \A s \in Handlers \ {r} :
                 request[s].at # "idle" => Apart(request[r], request[s])

RowsSound ==
    \A t \in Tokens :
        Stored(t) => tokens[t].expires =< now + RefreshTTL /\ Stored(tokens[t].session)

Chains == RotationAtomic /\ SuccessorsSound /\ OneLiveTokenPerSession /\ LogoutEndsSession

AuthInv == AuthTypeOK /\ HeldTokensStored /\ RowsSound /\ Chains /\ RequestsFit

LEMMA AuthInvInit == AuthInit => AuthInv
    BY AuthAssumption
    DEF AuthInit, AuthInv, AuthTypeOK, HeldTokensStored, RowsSound, Chains, RotationAtomic,
        SuccessorsSound, OneLiveTokenPerSession, LogoutEndsSession, RequestsFit, Stored, Live, Idle

----------------------------------------------------------------------------
(* Steps that change one request and neither the rows nor the clock. *)

LEMMA RequestStep ==
    ASSUME AuthInv, users' \in [Emails -> Account \cup {None}],
           UNCHANGED <<tokens, held, now>>,
           NEW r \in Handlers, NEW q \in Request,
           request' = [request EXCEPT ![r] = q],
           Fits(q),
           \A s \in Handlers \ {r} :
               request[s].at # "idle" => Apart(q, request[s]) /\ Apart(request[s], q)
    PROVE  AuthInv'
<1> USE DEF AuthInv
<1>1. AuthTypeOK' /\ HeldTokensStored' /\ RowsSound'
    BY DEF AuthTypeOK, HeldTokensStored, RowsSound, Stored
<1>2. Chains'
    BY DEF Chains, RotationAtomic, SuccessorsSound, OneLiveTokenPerSession,
           LogoutEndsSession, Patiently, Stored, Live
<1>3. \A s \in Handlers : request'[s] = IF s = r THEN q ELSE request[s]
    BY DEF AuthTypeOK
<1>4. RequestsFit'
    <2> SUFFICES ASSUME NEW s \in Handlers, request'[s].at # "idle"
                 PROVE  /\ Fits(request[s])'
                        /\ \A p \in Handlers \ {s} :
                             request'[p].at # "idle" => Apart(request[s], request[p])'
        BY DEF RequestsFit
    <2>1. Fits(request[s])'
        <3>1. Fits(IF s = r THEN q ELSE request[s])
            BY <1>3 DEF RequestsFit
        <3>2. QED
            BY <3>1, <1>3 DEF Fits, InTx, Stored, Live
    <2>2. ASSUME NEW p \in Handlers \ {s}, request'[p].at # "idle"
          PROVE  Apart(request[s], request[p])'
        <3>1. Apart(IF s = r THEN q ELSE request[s], IF p = r THEN q ELSE request[p])
            BY <1>3, <2>2 DEF RequestsFit
        <3>2. QED
            BY <3>1, <1>3, <2>2 DEF Apart
    <2>3. QED
        BY <2>1, <2>2
<1>5. QED
    BY <1>1, <1>2, <1>4

\* A request that ends, with or without handing its new token to the client.
LEMMA RequestEnds ==
    ASSUME AuthInv, UNCHANGED <<users, tokens, now>>,
           NEW r \in Handlers, request' = [request EXCEPT ![r] = Idle],
           held' \subseteq Tokens, \A t \in held' : Stored(t)
    PROVE  AuthInv'
<1> USE DEF AuthInv
<1>1. AuthTypeOK' /\ HeldTokensStored' /\ RowsSound'
    BY DEF AuthTypeOK, HeldTokensStored, RowsSound, Stored
<1>2. Chains'
    BY DEF Chains, RotationAtomic, SuccessorsSound, OneLiveTokenPerSession,
           LogoutEndsSession, Patiently, Stored, Live
<1>3. \A s \in Handlers : request'[s] = IF s = r THEN Idle ELSE request[s]
    BY DEF AuthTypeOK
<1>4. RequestsFit'
    BY <1>3 DEF RequestsFit, Fits, InTx, Apart, Stored, Live, Idle
<1>5. QED
    BY <1>1, <1>2, <1>4

----------------------------------------------------------------------------
(* Steps that write refresh_tokens. *)

\* What the leaves below need of the constants, without the definitions.
LEMMA NoneIsNoRow == \A row \in TokenRow : row # None
    BY AuthAssumption

\* A request that is not idle is a record of Request.
LEMMA RequestTyped ==
    ASSUME AuthTypeOK, NEW r \in Handlers, request[r].at # "idle"
    PROVE  request[r] \in Request
    BY DEF AuthTypeOK, Idle

\* The columns of a stored row.
LEMMA RowTyped ==
    ASSUME AuthTypeOK, NEW t \in Tokens, Stored(t)
    PROVE  /\ tokens[t] \in TokenRow /\ tokens[t].expires \in Nat /\ tokens[t].session \in Tokens
           /\ tokens[t].user \in Emails /\ tokens[t].parent \in Tokens \cup {None}
    BY DEF AuthTypeOK, Stored, TokenRow

\* The INSERT of a login starts a chain of its own: no row mentions it yet.
LEMMA IssueForLoginKeepsInv ==
    ASSUME AuthInv, NEW r \in Handlers, NEW t \in Tokens, IssueForLogin(r, t)
    PROVE  AuthInv'
<1> DEFINE q == [request[r] EXCEPT !.at = "stored", !.new = t]
           row == [user |-> request[r].user, expires |-> now + RefreshTTL,
                   revoked |-> "no", parent |-> None, session |-> t]
<1>0. /\ AuthTypeOK /\ HeldTokensStored /\ RowsSound /\ RotationAtomic /\ SuccessorsSound
      /\ OneLiveTokenPerSession /\ LogoutEndsSession /\ RequestsFit
      /\ now \in Nat /\ RefreshTTL \in Nat
    BY AuthAssumption DEF AuthInv, Chains, AuthTypeOK
<1>1. /\ request[r].at = "granted" /\ request' = [request EXCEPT ![r] = q]
      /\ tokens' = [tokens EXCEPT ![t] = row]
      /\ UNCHANGED <<users, held, now>>
    BY DEF IssueForLogin
<1>2. /\ tokens[t] = None
      /\ \A s \in Handlers : request[s].at # "idle" => request[s].new # t
    BY DEF IssueForLogin, Fresh
<1>3. request[r] \in Request
    BY <1>0, <1>1, RequestTyped
<1>4. /\ q \in Request /\ q.at = "stored" /\ q.new = t /\ q.old = request[r].old
      /\ q.user = request[r].user
    BY <1>3 DEF Request
<1>5. row \in TokenRow
    BY <1>0, <1>3 DEF TokenRow, Request
<1>6. /\ row # None /\ row.expires = now + RefreshTTL /\ row.revoked = "no"
      /\ row.parent = None /\ row.session = t
    BY <1>5, NoneIsNoRow
<1> HIDE DEF q, row
<1>7. \A u \in Tokens : tokens'[u] = IF u = t THEN row ELSE tokens[u]
    BY <1>0, <1>1 DEF AuthTypeOK
<1>8. \A s \in Handlers : request'[s] = IF s = r THEN q ELSE request[s]
    BY <1>0, <1>1 DEF AuthTypeOK
<1>9. AuthTypeOK'
    BY <1>0, <1>1, <1>4, <1>5 DEF AuthTypeOK
<1>10. HeldTokensStored' /\ RowsSound'
    <2>1. \A u \in Tokens : Stored(u) => tokens'[u] = tokens[u] /\ Stored(u)'
        BY <1>2, <1>7 DEF Stored
    <2>2. \A u \in held : u \in Tokens
        BY <1>0 DEF AuthTypeOK
    <2>3. HeldTokensStored'
        BY <1>0, <1>1, <2>1, <2>2 DEF HeldTokensStored
    <2>4. ASSUME NEW u \in Tokens, Stored(u)'
          PROVE  tokens'[u].expires =< now + RefreshTTL /\ Stored(tokens[u].session)'
        <3>1. CASE u = t
            BY <1>0, <1>6, <1>7, <3>1 DEF Stored
        <3>2. CASE u # t
            <4>1. Stored(u) /\ tokens'[u] = tokens[u]
                BY <1>7, <2>4, <3>2 DEF Stored
            <4>2. tokens[u].session \in Tokens
                BY <1>0, <4>1, RowTyped
            <4>3. QED
                BY <1>0, <2>1, <4>1, <4>2 DEF RowsSound
        <3>3. QED
            BY <3>1, <3>2
    <2>5. QED
        BY <1>1, <2>3, <2>4 DEF RowsSound
<1>11. RotationAtomic'
    BY <1>0, <1>2, <1>6, <1>7 DEF RotationAtomic, Stored
<1>12. SuccessorsSound'
    <2> SUFFICES ASSUME NEW s \in Tokens, Stored(s)', tokens'[s].parent # None
                 PROVE  LET old == tokens'[tokens'[s].parent] IN
                        /\ old # None /\ old.revoked # "no"
                        /\ tokens'[s].user = old.user /\ tokens'[s].session = old.session
                        /\ tokens'[s].expires >= old.expires
        BY DEF SuccessorsSound
    <2>1. Stored(s) /\ tokens'[s] = tokens[s]
        BY <1>6, <1>7 DEF Stored
    <2>2. tokens[s].parent \in Tokens /\ tokens[tokens[s].parent] # None
        BY <1>0, <2>1, RowTyped DEF SuccessorsSound
    <2>3. tokens'[tokens[s].parent] = tokens[tokens[s].parent]
        BY <1>2, <1>7, <2>2
    <2>4. QED
        BY <1>0, <2>1, <2>3 DEF SuccessorsSound
<1>13. \A u \in Tokens \ {t} : Stored(u) => tokens[u].session # t
    BY <1>0, <1>2 DEF RowsSound, Stored
<1>14. OneLiveTokenPerSession' /\ LogoutEndsSession'
    <2>1. \A u \in Tokens : u # t => /\ tokens'[u] = tokens[u]
                                     /\ Stored(u)' <=> Stored(u)
                                     /\ Live(u)' <=> Live(u)
                                     /\ Live(u) => Stored(u)
        BY <1>7 DEF Stored, Live
    <2>2. tokens'[t].session = t /\ tokens'[t].revoked = "no"
        BY <1>6, <1>7
    <2>3. OneLiveTokenPerSession'
        <3> SUFFICES ASSUME NEW s \in Tokens, NEW u \in Tokens, Live(s)', Live(u)',
                            tokens'[s].session = tokens'[u].session, Patiently(s)', Patiently(u)'
                     PROVE  s = u
            BY DEF OneLiveTokenPerSession
        <3>1. CASE s # t /\ u # t
            BY <1>0, <2>1, <3>1 DEF OneLiveTokenPerSession, Patiently
        <3>2. CASE s = t \/ u = t
            BY <1>13, <2>1, <2>2, <3>2
        <3>3. QED
            BY <3>1, <3>2
    <2>4. LogoutEndsSession'
        <3> SUFFICES ASSUME NEW s \in Tokens, NEW u \in Tokens, Stored(s)',
                            tokens'[s].revoked = "logged out", Live(u)',
                            Patiently(s)', Patiently(u)'
                     PROVE  tokens'[u].session # tokens'[s].session
            BY DEF LogoutEndsSession
        <3>1. s # t /\ Stored(s) /\ tokens'[s] = tokens[s]
            BY <2>1, <2>2
        <3>2. CASE u # t
            BY <1>0, <2>1, <3>1, <3>2 DEF LogoutEndsSession, Patiently
        <3>3. CASE u = t
            BY <1>13, <2>2, <3>1, <3>3
        <3>4. QED
            BY <3>2, <3>3
    <2>5. QED
        BY <2>3, <2>4
<1>15. RequestsFit'
    <2>1. ASSUME NEW s \in Handlers, request'[s].at # "idle" PROVE Fits(request[s])'
        <3>0. \A u \in Tokens : Stored(u) => tokens'[u] = tokens[u]
            BY <1>2, <1>7 DEF Stored
        <3>1. CASE s = r
            <4>1. q.old # None => /\ q.old \in Tokens /\ tokens[q.old] # None
                                  /\ q.user = tokens[q.old].user
                BY <1>0, <1>1, <1>4 DEF RequestsFit, Fits, Stored
            <4>2. QED
                BY <1>4, <1>6, <1>7, <1>8, <3>0, <3>1, <4>1 DEF Fits, InTx, Stored
        <3>2. CASE s # r
            <4>1. Fits(request[s]) /\ request'[s] = request[s] /\ request[s].new # t
                BY <1>0, <1>2, <1>8, <2>1, <3>2 DEF RequestsFit
            <4>2. \A u \in Tokens : Stored(u) => tokens'[u] = tokens[u]
                BY <3>0
            <4>3. \A u \in Tokens : u # t => tokens'[u] = tokens[u]
                BY <1>7
            <4>4. QED
                BY <1>1, <1>6, <4>1, <4>2, <4>3 DEF Fits, InTx, Stored, Live
        <3>3. QED
            BY <3>1, <3>2
    <2>2. ASSUME NEW s \in Handlers, NEW p \in Handlers \ {s},
                 request'[s].at # "idle", request'[p].at # "idle"
          PROVE  Apart(request[s], request[p])'
        <3>1. request[s].at # "idle" /\ request[p].at # "idle" /\ Apart(request[s], request[p])
            BY <1>0, <1>1, <1>8, <2>2 DEF RequestsFit
        <3>2. QED
            BY <1>1, <1>4, <1>8, <3>1 DEF Apart
    <2>3. QED
        BY <2>1, <2>2 DEF RequestsFit
<1>16. QED
    BY <1>9, <1>10, <1>11, <1>12, <1>14, <1>15 DEF AuthInv, Chains

\* Logout revokes a row nobody has written; the requests that read it notice.
LEMMA LogoutKeepsInv ==
    ASSUME AuthInv, NEW t \in Tokens, Logout(t)
    PROVE  AuthInv'
<1> DEFINE row == [tokens[t] EXCEPT !.revoked = "logged out"]
<1>0. /\ AuthTypeOK /\ HeldTokensStored /\ RowsSound /\ RotationAtomic /\ SuccessorsSound
      /\ OneLiveTokenPerSession /\ LogoutEndsSession /\ RequestsFit
    BY DEF AuthInv, Chains
<1>1. /\ Live(t) /\ MaySend(t) /\ RowFree(t) /\ tokens' = [tokens EXCEPT ![t] = row]
      /\ UNCHANGED <<users, request, held, now>>
    BY DEF Logout
<1>2. tokens[t] \in TokenRow /\ tokens[t] # None /\ tokens[t].revoked = "no"
    BY <1>0, <1>1 DEF AuthTypeOK, Live
<1>3. /\ row \in TokenRow /\ row.revoked = "logged out" /\ row.user = tokens[t].user
      /\ row.expires = tokens[t].expires /\ row.parent = tokens[t].parent
      /\ row.session = tokens[t].session
    BY <1>2 DEF TokenRow
<1>4. row # None
    BY <1>3, NoneIsNoRow
<1> HIDE DEF row
<1>5. \A u \in Tokens : tokens'[u] = IF u = t THEN row ELSE tokens[u]
    BY <1>0, <1>1 DEF AuthTypeOK
<1>6. AuthTypeOK'
    BY <1>0, <1>1, <1>3 DEF AuthTypeOK
<1>same. \A u \in Tokens :
            /\ (tokens'[u] # None) <=> (tokens[u] # None)
            /\ tokens'[u].user = tokens[u].user /\ tokens'[u].expires = tokens[u].expires
            /\ tokens'[u].parent = tokens[u].parent /\ tokens'[u].session = tokens[u].session
    BY <1>2, <1>3, <1>4, <1>5
<1>revoked. \A u \in Tokens \ {t} : tokens'[u] = tokens[u]
    BY <1>5
<1>now. tokens'[t].revoked = "logged out"
    BY <1>3, <1>5
<1>7. HeldTokensStored' /\ RowsSound'
    BY <1>0, <1>1, <1>2, <1>3, <1>4, <1>5 DEF HeldTokensStored, RowsSound, Stored, AuthTypeOK, TokenRow
<1>8. RotationAtomic'
    <2> SUFFICES ASSUME NEW u \in Tokens, tokens'[u] # None, tokens'[u].revoked = "rotated"
                 PROVE  \E s \in Tokens : tokens'[s] # None /\ tokens'[s].parent = u
        BY DEF RotationAtomic, Stored
    <2>1. tokens[u] # None /\ tokens[u].revoked = "rotated"
        BY <1>same, <1>revoked, <1>now
    <2>2. PICK s \in Tokens : tokens[s] # None /\ tokens[s].parent = u
        BY <1>0, <2>1 DEF RotationAtomic, Stored
    <2>3. QED
        BY <2>2, <1>same
<1>9. SuccessorsSound'
    <2> SUFFICES ASSUME NEW s \in Tokens, tokens'[s] # None, tokens'[s].parent # None
                 PROVE  LET old == tokens'[tokens'[s].parent] IN
                        /\ old # None /\ old.revoked # "no"
                        /\ tokens'[s].user = old.user /\ tokens'[s].session = old.session
                        /\ tokens'[s].expires >= old.expires
        BY DEF SuccessorsSound, Stored
    <2> DEFINE p == tokens[s].parent
    <2>1. tokens[s] # None /\ p # None /\ tokens'[s].parent = p
        BY <1>same
    <2>2. p \in Tokens
        BY <1>0, <2>1, RowTyped DEF Stored
    <2>3. /\ tokens[p] # None /\ tokens[p].revoked # "no"
          /\ tokens[s].user = tokens[p].user /\ tokens[s].session = tokens[p].session
          /\ tokens[s].expires >= tokens[p].expires
        BY <1>0, <2>1 DEF SuccessorsSound, Stored
    <2>4. tokens'[p] = tokens[p]
        BY <1>2, <1>revoked, <2>2, <2>3
    <2>5. QED
        BY <1>same, <2>1, <2>3, <2>4
<1>10. OneLiveTokenPerSession' /\ LogoutEndsSession'
    <2>1. \A u \in Tokens : Live(u)' => Live(u) /\ u # t
        BY <1>revoked, <1>now DEF Live
    <2>2. OneLiveTokenPerSession'
        <3> SUFFICES ASSUME NEW s \in Tokens, NEW u \in Tokens, Live(s)', Live(u)',
                            tokens'[s].session = tokens'[u].session,
                            Patiently(s)', Patiently(u)'
                     PROVE  s = u
            BY DEF OneLiveTokenPerSession
        <3>1. tokens[s].session = tokens[u].session /\ Patiently(s) /\ Patiently(u)
            BY <1>same DEF Patiently
        <3>2. QED
            BY <1>0, <2>1, <3>1 DEF OneLiveTokenPerSession, Patiently
    <2>3. LogoutEndsSession'
        <3> SUFFICES ASSUME NEW s \in Tokens, NEW u \in Tokens, tokens'[s] # None,
                            tokens'[s].revoked = "logged out", Live(u)',
                            Patiently(s)', Patiently(u)'
                     PROVE  tokens'[u].session # tokens'[s].session
            BY DEF LogoutEndsSession, Stored
        <3>1. Live(u) /\ u # t /\ tokens'[u].session = tokens[u].session
              /\ tokens'[s].session = tokens[s].session /\ Patiently(s) /\ Patiently(u)
            BY <2>1, <1>same DEF Patiently
        <3>2. CASE s = t
            BY <1>0, <1>1, <3>1, <3>2 DEF OneLiveTokenPerSession
        <3>3. CASE s # t
            <4>1. tokens[s] # None /\ tokens[s].revoked = "logged out"
                BY <1>revoked, <3>3
            <4>2. QED
                BY <1>0, <3>1, <4>1 DEF LogoutEndsSession, Stored
        <3>4. QED
            BY <3>2, <3>3
    <2>4. QED
        BY <2>2, <2>3
<1>11. RequestsFit'
    <2>1. ASSUME NEW s \in Handlers, request[s].at # "idle" PROVE Fits(request[s])'
        <3>1. Fits(request[s])
            BY <1>0, <2>1 DEF RequestsFit
        <3>2. CASE InTx(request[s]) /\ request[s].old = t
            <4>1. tokens[t].user \notin Patient /\ (request[s].at # "found" => ~request[s].stamps)
                BY <1>1, <2>1, <3>2 DEF MaySend, Patiently, RowFree, InTx
            <4>2. request[s].at = "found"
                BY <1>1, <3>1, <3>2, <4>1 DEF Fits
            <4>3. QED
                <5>1. request[s].old \in Tokens /\ request[s].user = tokens[t].user
                    BY <3>1, <3>2 DEF Fits
                <5>2. request[s].user \notin Patient
                    BY <4>1, <5>1
                <5>3. QED
                    BY <1>3, <1>4, <1>5, <1>1, <3>1, <3>2, <4>2, <5>1, <5>2 DEF Fits, InTx, Stored
        <3>3. CASE ~(InTx(request[s]) /\ request[s].old = t)
            <4> DEFINE p == request[s]
            <4>1. p.old # None => /\ p.old \in Tokens /\ tokens'[p.old] # None
                                  /\ p.user = tokens'[p.old].user
                BY <1>same, <3>1 DEF Fits, Stored
            <4>2. InTx(p) => /\ p.old # None /\ tokens'[p.old] = tokens[p.old]
                             /\ p.at # "found" => (p.stamps <=> Live(p.old))
                             /\ p.user \in Patient => Live(p.old)
                BY <1>revoked, <3>1, <3>3 DEF Fits
            <4>3. p.at = "issued" => /\ p.new \in Tokens /\ tokens'[p.new] = None
                                     /\ tokens'[p.old].expires =< p.expires
                                     /\ p.expires =< now + RefreshTTL
                BY <1>same, <3>1, <4>2 DEF Fits, Stored, InTx
            <4>4. p.at = "stored" => p.new \in Tokens /\ tokens'[p.new] # None
                BY <1>same, <3>1 DEF Fits, Stored
            <4> HIDE DEF p
            <4>5. request'[s] = p /\ now' = now
                BY <1>1 DEF p
            <4>6. QED
                BY <4>1, <4>2, <4>3, <4>4, <4>5 DEF Fits, InTx, Stored, Live
        <3>4. QED
            BY <3>2, <3>3
    <2>2. QED
        BY <1>0, <1>1, <2>1 DEF RequestsFit, Apart
<1>12. QED
    BY <1>6, <1>7, <1>8, <1>9, <1>10, <1>11 DEF AuthInv, Chains

\* The commit of a Refresh: the successor appears, the old row is marked.
LEMMA CommitKeepsInv ==
    ASSUME AuthInv, NEW r \in Handlers, CommitRefresh(r)
    PROVE  AuthInv'
<1> DEFINE q == request[r]
           old == q.old
           new == q.new
           row == [user |-> q.user, expires |-> q.expires, revoked |-> "no",
                   parent |-> old, session |-> tokens[old].session]
           done == [q EXCEPT !.at = "stored"]
           oldRow == IF q.stamps THEN [tokens[old] EXCEPT !.revoked = "rotated"] ELSE tokens[old]
<1>0. /\ AuthTypeOK /\ HeldTokensStored /\ RowsSound /\ RotationAtomic /\ SuccessorsSound
      /\ OneLiveTokenPerSession /\ LogoutEndsSession /\ RequestsFit
      /\ now \in Nat /\ RefreshTTL \in Nat
    BY AuthAssumption DEF AuthInv, Chains, AuthTypeOK
<1>1. /\ q.at = "issued" /\ request' = [request EXCEPT ![r] = done]
      /\ tokens' = [IF q.stamps THEN [tokens EXCEPT ![old].revoked = "rotated"] ELSE tokens
                      EXCEPT ![new] = row]
      /\ UNCHANGED <<users, held, now>>
    BY DEF CommitRefresh
<1>2. q \in Request /\ Fits(q)
    BY <1>0, <1>1, RequestTyped DEF RequestsFit
<1>3. /\ old \in Tokens /\ tokens[old] # None /\ q.user = tokens[old].user
      /\ q.stamps <=> tokens[old].revoked = "no"
      /\ new \in Tokens /\ tokens[new] = None /\ old # new
      /\ tokens[old].expires =< q.expires /\ q.expires =< now + RefreshTTL
      /\ q.user \in Patient => Live(old)
    BY <1>1, <1>2 DEF Fits, InTx, Stored, Live
<1>4. tokens[old] \in TokenRow
    BY <1>0, <1>3, RowTyped DEF Stored
<1>5. row \in TokenRow
    BY <1>2, <1>3, <1>4 DEF TokenRow, Request
<1>6. /\ row # None /\ row.user = q.user /\ row.expires = q.expires /\ row.revoked = "no"
      /\ row.parent = old /\ row.session = tokens[old].session
    BY <1>5, NoneIsNoRow
<1>7. /\ oldRow \in TokenRow
      /\ oldRow.user = tokens[old].user /\ oldRow.expires = tokens[old].expires
      /\ oldRow.parent = tokens[old].parent /\ oldRow.session = tokens[old].session
      /\ oldRow.revoked = IF q.stamps THEN "rotated" ELSE tokens[old].revoked
    BY <1>4 DEF TokenRow
<1>8. oldRow # None /\ oldRow.revoked # "no"
    BY <1>3, <1>7, NoneIsNoRow
<1>9. /\ done \in Request /\ done.at = "stored" /\ done.new = new /\ done.old = old
      /\ done.user = q.user
    BY <1>2 DEF Request
<1>10. tokens' = [u \in Tokens |-> IF u = new THEN row ELSE IF u = old THEN oldRow ELSE tokens[u]]
    BY <1>0, <1>1, <1>3 DEF AuthTypeOK
<1> HIDE DEF row, oldRow, done
<1>11. /\ tokens'[new] = row /\ tokens'[old] = oldRow
       /\ \A u \in Tokens \ {old, new} : tokens'[u] = tokens[u]
    BY <1>3, <1>10
<1>12. \A s \in Handlers : request'[s] = IF s = r THEN done ELSE request[s]
    BY <1>0, <1>1 DEF AuthTypeOK
<1>13. \A u \in Tokens \ {new} :
            /\ (tokens'[u] # None) <=> (tokens[u] # None)
            /\ tokens'[u].user = tokens[u].user /\ tokens'[u].expires = tokens[u].expires
            /\ tokens'[u].parent = tokens[u].parent /\ tokens'[u].session = tokens[u].session
    BY <1>3, <1>7, <1>8, <1>11
<1>14. AuthTypeOK'
    <2>1. \A u \in Tokens : tokens[u] \in TokenRow \cup {None}
        BY <1>0 DEF AuthTypeOK
    <2>2. tokens' \in [Tokens -> TokenRow \cup {None}]
        BY <1>5, <1>7, <1>10, <2>1
    <2>3. request' \in [Handlers -> Request \cup {Idle}]
        BY <1>0, <1>1, <1>9 DEF AuthTypeOK
    <2>4. QED
        BY <1>0, <1>1, <2>2, <2>3 DEF AuthTypeOK
<1>15. \A u \in Tokens : tokens[u] # None => u # new /\ tokens'[u] # None
    BY <1>3, <1>13
<1>16. HeldTokensStored'
    BY <1>0, <1>1, <1>15 DEF HeldTokensStored, Stored, AuthTypeOK
<1>17. RowsSound'
    <2> SUFFICES ASSUME NEW u \in Tokens, tokens'[u] # None
                 PROVE  tokens'[u].expires =< now + RefreshTTL /\ tokens'[tokens'[u].session] # None
        BY <1>1 DEF RowsSound, Stored
    <2>1. \A v \in Tokens : tokens[v] # None =>
              /\ tokens[v].expires =< now + RefreshTTL
              /\ tokens[v].session \in Tokens /\ tokens[tokens[v].session] # None
        BY <1>0, RowTyped DEF RowsSound, Stored
    <2>2. CASE u = new
        BY <1>3, <1>6, <1>11, <1>15, <2>1, <2>2
    <2>3. CASE u # new
        BY <1>13, <1>15, <2>1, <2>3
    <2>4. QED
        BY <2>2, <2>3
<1>18. RotationAtomic'
    <2> SUFFICES ASSUME NEW u \in Tokens, tokens'[u] # None, tokens'[u].revoked = "rotated"
                 PROVE  \E s \in Tokens : tokens'[s] # None /\ tokens'[s].parent = u
        BY DEF RotationAtomic, Stored
    <2>1. CASE u = old
        BY <1>3, <1>6, <1>11, <2>1
    <2>2. CASE u # old
        <3>1. tokens[u] # None /\ tokens[u].revoked = "rotated"
            BY <1>6, <1>11, <2>2
        <3>2. PICK s \in Tokens : tokens[s] # None /\ tokens[s].parent = u
            BY <1>0, <3>1 DEF RotationAtomic, Stored
        <3>3. QED
            BY <3>2, <1>13, <1>15
    <2>3. QED
        BY <2>1, <2>2
<1>19. SuccessorsSound'
    <2> SUFFICES ASSUME NEW s \in Tokens, tokens'[s] # None, tokens'[s].parent # None
                 PROVE  LET before == tokens'[tokens'[s].parent] IN
                        /\ before # None /\ before.revoked # "no"
                        /\ tokens'[s].user = before.user /\ tokens'[s].session = before.session
                        /\ tokens'[s].expires >= before.expires
        BY DEF SuccessorsSound, Stored
    <2>1. CASE s = new
        <3>1. tokens[old].expires \in Nat /\ q.expires \in Nat
            BY <1>2, <1>4 DEF TokenRow, Request
        <3>2. QED
            BY <1>3, <1>6, <1>7, <1>8, <1>11, <2>1, <3>1
    <2>2. CASE s # new
        <3> DEFINE p == tokens[s].parent
        <3>1. tokens[s] # None /\ p # None /\ tokens'[s].parent = p
            BY <1>13, <2>2
        <3>2. p \in Tokens
            BY <1>0, <3>1, RowTyped DEF Stored
        <3>3. /\ tokens[p] # None /\ tokens[p].revoked # "no"
              /\ tokens[s].user = tokens[p].user /\ tokens[s].session = tokens[p].session
              /\ tokens[s].expires >= tokens[p].expires
            BY <1>0, <3>1 DEF SuccessorsSound, Stored
        <3>4. p # new /\ tokens'[p] # None /\ tokens'[p].revoked # "no"
            BY <1>3, <1>8, <1>11, <1>15, <3>2, <3>3
        <3>5. QED
            BY <1>13, <2>2, <3>1, <3>2, <3>3, <3>4
    <2>3. QED
        BY <2>1, <2>2
<1>20. \A u \in Tokens \ {new} : Live(u)' => Live(u) /\ u # old
    BY <1>3, <1>8, <1>11 DEF Live
<1>21. OneLiveTokenPerSession'
    <2> SUFFICES ASSUME NEW s \in Tokens, NEW u \in Tokens, Live(s)', Live(u)',
                        tokens'[s].session = tokens'[u].session,
                        Patiently(s)', Patiently(u)'
                 PROVE  s = u
        BY DEF OneLiveTokenPerSession
    <2>1. ASSUME NEW v \in Tokens \ {new}, Live(v)', Patiently(v)', q.user \in Patient
          PROVE  tokens'[v].session # tokens[old].session
        <3>1. Live(v) /\ v # old /\ tokens'[v].session = tokens[v].session /\ Patiently(v)
            BY <1>13, <1>20, <2>1 DEF Patiently
        <3>2. Live(old) /\ Patiently(old)
            BY <1>3, <2>1 DEF Patiently
        <3>3. QED
            BY <1>0, <1>3, <3>1, <3>2 DEF OneLiveTokenPerSession
    <2>2. tokens'[new].session = tokens[old].session /\ tokens'[new].user = q.user
        BY <1>6, <1>11
    <2>3. CASE s # new /\ u # new
        <3>1. /\ Live(s) /\ Live(u) /\ tokens[s].session = tokens[u].session
              /\ Patiently(s) /\ Patiently(u)
            BY <1>13, <1>20, <2>3 DEF Patiently
        <3>2. QED
            BY <1>0, <3>1 DEF OneLiveTokenPerSession
    <2>4. QED
        BY <2>1, <2>2, <2>3 DEF Patiently
<1>22. LogoutEndsSession'
    <2> SUFFICES ASSUME NEW s \in Tokens, NEW u \in Tokens, tokens'[s] # None,
                        tokens'[s].revoked = "logged out", Live(u)',
                        Patiently(s)', Patiently(u)'
                 PROVE  tokens'[u].session # tokens'[s].session
        BY DEF LogoutEndsSession, Stored
    <2>1. s # new
        BY <1>6, <1>11
    <2>2. s # old
        <3>1. SUFFICES ASSUME s = old PROVE FALSE
            OBVIOUS
        <3>2. tokens[old].revoked = "logged out" /\ ~q.stamps
            BY <1>7, <1>11, <3>1
        <3>3. q.stamps <=> tokens[old].revoked = "no"
            BY <1>3
        <3>4. Patiently(old)
            BY <1>7, <1>11, <3>1 DEF Patiently
        <3>5. Live(old)
            BY <1>3, <3>4 DEF Patiently
        <3>6. QED
            BY <3>2, <3>5 DEF Live
    <2>3. tokens'[s] = tokens[s]
        BY <1>11, <2>1, <2>2
    <2>4. CASE u = new
        <3>0. q.user \in Patient
            BY <1>6, <1>11, <2>4 DEF Patiently
        <3>1. tokens[old].session # tokens[s].session
            <4>1. Live(old) /\ Patiently(old) /\ Patiently(s)
                BY <1>3, <2>3, <3>0 DEF Patiently
            <4>2. QED
                BY <1>0, <1>3, <2>3, <4>1 DEF LogoutEndsSession, Stored
        <3>2. QED
            BY <1>6, <1>11, <2>3, <2>4, <3>1
    <2>5. CASE u # new
        <3>1. Live(u) /\ tokens'[u].session = tokens[u].session /\ Patiently(u) /\ Patiently(s)
            BY <1>13, <1>20, <2>3, <2>5 DEF Patiently
        <3>2. QED
            BY <1>0, <2>3, <3>1 DEF LogoutEndsSession, Stored
    <2>6. QED
        BY <2>4, <2>5
<1>23. RequestsFit'
    <2>1. ASSUME NEW s \in Handlers, request'[s].at # "idle" PROVE Fits(request[s])'
        <3>1. CASE s = r
            <4>1. tokens'[old] # None /\ tokens'[old].user = done.user
                BY <1>3, <1>7, <1>8, <1>9, <1>11
            <4>2. QED
                BY <1>6, <1>9, <1>3, <1>11, <1>12, <3>1, <4>1 DEF Fits, InTx, Stored
        <3>2. CASE s # r
            <4> DEFINE p == request[s]
            <4>1. request'[s] = p /\ p.at # "idle" /\ Fits(p) /\ Apart(p, q)
                BY <1>0, <1>1, <1>12, <2>1, <3>2 DEF RequestsFit
            <4>2. /\ InTx(p) => /\ p.old # None
                                /\ p.at # "found" => (p.stamps <=> tokens[p.old].revoked = "no")
                  /\ p.old # None => /\ p.old \in Tokens /\ tokens[p.old] # None /\ p.old # new
                                     /\ p.user = tokens[p.old].user
                BY <1>3, <4>1 DEF Fits, Stored, Live
            <4>3. InTx(p) /\ p.old = old => p.user \notin Patient
                BY <1>3, <4>1, <4>2, AuthAssumption DEF Apart
            <4>4. InTx(p) /\ p.at # "found" => (p.stamps <=> tokens'[p.old].revoked = "no")
                <5>1. CASE p.old = old
                    BY <1>1, <1>3, <1>8, <1>11, <4>1, <4>2, <5>1 DEF Apart, InTx
                <5>2. CASE p.old # old
                    BY <1>11, <4>2, <5>2
                <5>3. QED
                    BY <5>1, <5>2
            <4>5. p.at = "issued" => /\ p.new \in Tokens /\ tokens'[p.new] = None
                                     /\ tokens'[p.old].expires =< p.expires
                                     /\ p.expires =< now + RefreshTTL
                BY <1>1, <1>13, <4>1, <4>2 DEF Fits, Apart, Stored, InTx
            <4>6. p.at = "stored" => p.new \in Tokens /\ tokens'[p.new] # None
                BY <1>15, <4>1 DEF Fits, Stored
            <4>7. p.user \in Patient /\ InTx(p) => tokens'[p.old] # None /\ tokens'[p.old].revoked = "no"
                BY <1>11, <4>1, <4>2, <4>3 DEF Fits, Live
            <4>8. p.old # None => tokens'[p.old] # None /\ p.user = tokens'[p.old].user
                BY <1>13, <1>15, <4>2
            <4> HIDE DEF p
            <4>9. QED
                BY <1>1, <4>1, <4>2, <4>4, <4>5, <4>6, <4>7, <4>8 DEF Fits, InTx, Stored, Live
        <3>3. QED
            BY <3>1, <3>2
    <2>2. ASSUME NEW s \in Handlers, NEW p \in Handlers \ {s},
                 request'[s].at # "idle", request'[p].at # "idle"
          PROVE  Apart(request[s], request[p])'
        <3>1. request[s].at # "idle" /\ request[p].at # "idle" /\ Apart(request[s], request[p])
            BY <1>0, <1>1, <1>12, <2>2 DEF RequestsFit
        <3>2. QED
            BY <1>1, <1>9, <1>12, <3>1 DEF Apart
    <2>3. QED
        BY <2>1, <2>2 DEF RequestsFit
<1>24. QED
    BY <1>14, <1>16, <1>17, <1>18, <1>19, <1>21, <1>22, <1>23 DEF AuthInv, Chains

----------------------------------------------------------------------------
(* Steps that start a request or move it inside its transaction. *)

LEMMA LoginKeepsInv ==
    ASSUME AuthInv, NEW r \in Handlers, NEW email \in Emails, NEW password \in Passwords,
           \/ Login(r, email, password)
           \/ \E handle \in Handles : Register(r, email, handle, password)
    PROVE  AuthInv'
<1> DEFINE q == Granted(email, password)
<1>1. q \in Request /\ q.at = "granted" /\ q.old = None
    BY DEF Granted, Request
<1>2. /\ request' = [request EXCEPT ![r] = q] /\ UNCHANGED <<tokens, held, now>>
      /\ users' \in [Emails -> Account \cup {None}]
    BY DEF AuthInv, AuthTypeOK, Login, Register, Account
<1> HIDE DEF q
<1>3. Fits(q)
    BY <1>1 DEF Fits, InTx
<1>4. ASSUME NEW s \in Handlers \ {r}, request[s].at # "idle"
      PROVE  Apart(q, request[s]) /\ Apart(request[s], q)
    BY <1>1 DEF Apart
<1>5. QED
    BY <1>1, <1>2, <1>3, <1>4, RequestStep

LEMMA GetKeepsInv ==
    ASSUME AuthInv, NEW r \in Handlers, NEW t \in Tokens, GetRefreshToken(r, t)
    PROVE  AuthInv'
<1> DEFINE q == Found(t)
<1>1. /\ request' = [request EXCEPT ![r] = q] /\ UNCHANGED <<users, tokens, held, now>>
      /\ Live(t) /\ MaySend(t) /\ AuthTypeOK /\ RequestsFit
    BY DEF GetRefreshToken, AuthInv
<1>2. /\ q \in Request /\ q.at = "found" /\ q.old = t /\ q.user = tokens[t].user
      /\ tokens[t] # None
    BY <1>1, RowTyped DEF Found, Request, Live, Stored
<1> HIDE DEF q
<1>3. Fits(q)
    <2>1. t # None
        BY AuthAssumption
    <2>2. QED
        BY <1>1, <1>2, <2>1 DEF Fits, InTx, Stored
<1>4. ASSUME NEW s \in Handlers \ {r}, request[s].at # "idle"
      PROVE  Apart(q, request[s]) /\ Apart(request[s], q)
    <2>1. request[s].old = t => request[s].user = tokens[t].user
        BY <1>1, <1>4, AuthAssumption DEF RequestsFit, Fits
    <2>2. request[s].old = t => tokens[t].user \notin Patient
        BY <1>1, <1>4 DEF MaySend, Patiently
    <2>3. QED
        BY <1>1, <1>2, <2>1, <2>2 DEF Apart
<1>5. users' \in [Emails -> Account \cup {None}]
    BY <1>1 DEF AuthTypeOK
<1>6. QED
    BY <1>1, <1>2, <1>3, <1>4, <1>5, RequestStep

LEMMA RevokeKeepsInv ==
    ASSUME AuthInv, NEW r \in Handlers, RevokeRefreshToken(r)
    PROVE  AuthInv'
<1> DEFINE q == [request[r] EXCEPT !.at = "revoked", !.stamps = Live(request[r].old)]
<1>1. /\ request' = [request EXCEPT ![r] = q] /\ UNCHANGED <<users, tokens, held, now>>
      /\ request[r].at = "found" /\ RowFree(request[r].old) /\ AuthTypeOK /\ RequestsFit
    BY DEF RevokeRefreshToken, AuthInv
<1>2. request[r] \in Request /\ Fits(request[r])
    BY <1>1, RequestTyped DEF RequestsFit
<1>3. Live(request[r].old) \in BOOLEAN
    BY DEF Live
<1>4. /\ q \in Request /\ q.at = "revoked" /\ q.old = request[r].old /\ q.user = request[r].user
      /\ q.stamps = Live(q.old)
    BY <1>2, <1>3 DEF Request
<1> HIDE DEF q
<1>5. Fits(q)
    BY <1>1, <1>2, <1>3, <1>4 DEF Fits, InTx
<1>6. ASSUME NEW s \in Handlers \ {r}, request[s].at # "idle"
      PROVE  Apart(q, request[s]) /\ Apart(request[s], q)
    <2>1. Apart(request[r], request[s]) /\ Apart(request[s], request[r])
        BY <1>1, <1>6 DEF RequestsFit
    <2>2. QED
        BY <1>1, <1>4, <2>1 DEF Apart, RowFree
<1>7. users' \in [Emails -> Account \cup {None}]
    BY <1>1 DEF AuthTypeOK
<1>8. QED
    BY <1>1, <1>4, <1>5, <1>6, <1>7, RequestStep

LEMMA IssueForRefreshKeepsInv ==
    ASSUME AuthInv, NEW r \in Handlers, NEW t \in Tokens, IssueForRefresh(r, t)
    PROVE  AuthInv'
<1> DEFINE q == [request[r] EXCEPT !.at = "issued", !.new = t, !.expires = now + RefreshTTL]
<1>1. /\ request' = [request EXCEPT ![r] = q] /\ UNCHANGED <<users, tokens, held, now>>
      /\ request[r].at = "revoked" /\ tokens[t] = None
      /\ \A s \in Handlers : request[s].at # "idle" => request[s].new # t
    BY DEF IssueForRefresh, Fresh
<1>inv. AuthTypeOK /\ RequestsFit /\ RowsSound
    BY DEF AuthInv
<1>nat. now + RefreshTTL \in Nat
    BY <1>inv, AuthAssumption DEF AuthTypeOK
<1>2. request[r] \in Request /\ Fits(request[r])
    BY <1>1, <1>inv, RequestTyped DEF RequestsFit
<1>3. /\ q \in Request /\ q.at = "issued" /\ q.old = request[r].old /\ q.user = request[r].user
      /\ q.stamps = request[r].stamps /\ q.new = t /\ q.expires = now + RefreshTTL
    BY <1>2, <1>nat DEF Request
<1> HIDE DEF q
<1>4. Fits(q)
    BY <1>1, <1>2, <1>3, <1>inv, <1>nat DEF Fits, InTx, Stored, RowsSound
<1>5. ASSUME NEW s \in Handlers \ {r}, request[s].at # "idle"
      PROVE  Apart(q, request[s]) /\ Apart(request[s], q)
    <2>1. Apart(request[r], request[s]) /\ Apart(request[s], request[r])
        BY <1>1, <1>inv, <1>5 DEF RequestsFit
    <2>2. QED
        BY <1>1, <1>3, <1>5, <2>1 DEF Apart
<1>6. users' \in [Emails -> Account \cup {None}]
    BY <1>1, <1>inv DEF AuthTypeOK
<1>7. QED
    BY <1>1, <1>3, <1>4, <1>5, <1>6, RequestStep

----------------------------------------------------------------------------
(* The remaining steps, and all of them together. *)

LEMMA EndKeepsInv ==
    ASSUME AuthInv, NEW r \in Handlers, Answer(r) \/ Fail(r)
    PROVE  AuthInv'
<1>1. AuthTypeOK /\ HeldTokensStored /\ RequestsFit
    BY DEF AuthInv
<1>2. request' = [request EXCEPT ![r] = Idle] /\ UNCHANGED <<users, tokens, now>>
    BY DEF Answer, Fail
<1>3. CASE Answer(r)
    <2>1. request[r].new \in Tokens /\ Stored(request[r].new) /\ held' = held \cup {request[r].new}
        BY <1>1, <1>3 DEF Answer, RequestsFit, Fits
    <2>2. held' \subseteq Tokens /\ \A t \in held' : Stored(t)
        BY <1>1, <2>1 DEF AuthTypeOK, HeldTokensStored
    <2>3. QED
        BY <1>2, <2>2, RequestEnds
<1>4. CASE Fail(r)
    <2>1. held' \subseteq Tokens /\ \A t \in held' : Stored(t)
        BY <1>1, <1>4 DEF Fail, AuthTypeOK, HeldTokensStored
    <2>2. QED
        BY <1>2, <2>1, RequestEnds
<1>5. QED
    BY <1>3, <1>4

LEMMA TickKeepsInv ==
    ASSUME AuthInv, Tick
    PROVE  AuthInv'
<1>1. /\ AuthTypeOK /\ HeldTokensStored /\ RowsSound /\ Chains /\ RequestsFit
      /\ UNCHANGED <<users, tokens, request, held>> /\ now' = now + 1 /\ now < EndOfTime
      /\ now \in Nat /\ RefreshTTL \in Nat /\ EndOfTime \in Nat
    BY AuthAssumption DEF AuthInv, Tick, AuthTypeOK
<1>2. AuthTypeOK' /\ HeldTokensStored'
    BY <1>1 DEF AuthTypeOK, HeldTokensStored, Stored
<1>3. RowsSound'
    <2>1. \A t \in Tokens : Stored(t) => tokens[t].expires \in Nat
        BY <1>1, RowTyped
    <2>2. QED
        BY <1>1, <2>1 DEF RowsSound, Stored
<1>4. Chains'
    BY <1>1 DEF Chains, RotationAtomic, SuccessorsSound, OneLiveTokenPerSession,
                LogoutEndsSession, Patiently, Stored, Live
<1>5. RequestsFit'
    <2>1. ASSUME NEW r \in Handlers, request[r].at # "idle" PROVE Fits(request[r])'
        <3>1. request[r] \in Request /\ Fits(request[r])
            BY <1>1, <2>1, RequestTyped DEF RequestsFit
        <3>2. request[r].expires \in Nat
            BY <3>1 DEF Request
        <3>3. request[r].expires =< now + RefreshTTL => request[r].expires =< now' + RefreshTTL
            BY <1>1, <3>2
        <3>4. QED
            BY <1>1, <3>1, <3>3 DEF Fits, InTx, Stored, Live
    <2>2. QED
        BY <1>1, <2>1 DEF RequestsFit, Apart
<1>6. QED
    BY <1>2, <1>3, <1>4, <1>5 DEF AuthInv

LEMMA AuthInvStep == AuthInv /\ [AuthNext]_authVars => AuthInv'
<1> SUFFICES ASSUME AuthInv, [AuthNext]_authVars PROVE AuthInv'
    OBVIOUS
<1>1. ASSUME NEW r \in Handlers, NEW email \in Emails, NEW password \in Passwords,
             \/ Login(r, email, password)
             \/ \E handle \in Handles : Register(r, email, handle, password)
      PROVE  AuthInv'
    BY <1>1, LoginKeepsInv
<1>2. ASSUME NEW r \in Handlers, NEW t \in Tokens, GetRefreshToken(r, t) PROVE AuthInv'
    BY <1>2, GetKeepsInv
<1>3. ASSUME NEW r \in Handlers, Statement(r) PROVE AuthInv'
    BY <1>3, IssueForLoginKeepsInv, IssueForRefreshKeepsInv, RevokeKeepsInv, CommitKeepsInv,
       EndKeepsInv DEF Statement
<1>4. ASSUME NEW r \in Handlers, Fail(r) PROVE AuthInv'
    BY <1>4, EndKeepsInv
<1>5. ASSUME NEW t \in Tokens, Logout(t) PROVE AuthInv'
    BY <1>5, LogoutKeepsInv
<1>6. CASE Tick
    BY <1>6, TickKeepsInv
<1>7. CASE UNCHANGED authVars
    <2>1. UNCHANGED <<users, tokens, request, held, now>> /\ AuthInv
        BY <1>7 DEF authVars
    <2>2. AuthTypeOK' /\ HeldTokensStored' /\ RowsSound'
        BY <2>1 DEF AuthInv, AuthTypeOK, HeldTokensStored, RowsSound, Stored
    <2>3. Chains'
        BY <2>1 DEF AuthInv, Chains, RotationAtomic, SuccessorsSound, OneLiveTokenPerSession,
                    LogoutEndsSession, Patiently, Stored, Live
    <2>4. RequestsFit'
        BY <2>1 DEF AuthInv, RequestsFit, Fits, InTx, Apart, Stored, Live
    <2>5. QED
        BY <2>2, <2>3, <2>4 DEF AuthInv
<1>8. QED
    BY <1>1, <1>2, <1>3, <1>4, <1>5, <1>6, <1>7 DEF AuthNext

\* What an open request read and wrote agrees with the tables in every
\* reachable state: the invariant the theorems below follow from.
THEOREM RequestsAgree == AuthSpec => []AuthInv
    BY AuthInvInit, AuthInvStep, PTL DEF AuthSpec

\* Whatever fails and however requests overlap, a client holds only tokens of
\* the table, a revoked token has its successor, and chains keep their user,
\* login and expiry (Refresh's transaction).
THEOREM RotationSafe == AuthSpec => [](HeldTokensStored /\ RotationAtomic /\ SuccessorsSound)
<1>1. AuthInv => HeldTokensStored /\ RotationAtomic /\ SuccessorsSound
    BY DEF AuthInv, Chains
<1>2. QED
    BY <1>1, RequestsAgree, PTL

\* A successor belongs to the user and login of the token it replaces, which is
\* revoked for good.
THEOREM ChainsSound == AuthSpec => []SuccessorsSound
    BY RotationSafe, PTL

\* Clients that never send one token twice at a time have one live token per
\* login, and none after Logout.
THEOREM SingleFlightSafe == AuthSpec => [](OneLiveTokenPerSession /\ LogoutEndsSession)
<1>1. AuthInv => OneLiveTokenPerSession /\ LogoutEndsSession
    BY DEF AuthInv, Chains
<1>2. QED
    BY <1>1, RequestsAgree, PTL

\* A client that waits for its answers never forks its session.
THEOREM OnePairPerLogin == AuthSpec => []OneLiveTokenPerSession
    BY SingleFlightSafe, PTL

----------------------------------------------------------------------------
(* Revocation is final, and logins are genuine. *)

LEMMA RevocationStep ==
    ASSUME AuthInv, [AuthNext]_authVars, NEW t \in Tokens, Stored(t)
    PROVE  tokens'[t] # None /\ (tokens[t].revoked # "no" => tokens'[t] = tokens[t])
<1> DEFINE Kept == tokens'[t] # None /\ (tokens[t].revoked # "no" => tokens'[t] = tokens[t])
<1>0. AuthTypeOK /\ RequestsFit /\ tokens[t] \in TokenRow
    BY RowTyped DEF AuthInv
<1>1. ASSUME UNCHANGED tokens PROVE Kept
    BY <1>1 DEF Stored
<1>2. ASSUME NEW r \in Handlers, NEW u \in Tokens, IssueForLogin(r, u) PROVE Kept
    BY <1>0, <1>2 DEF IssueForLogin, Fresh, AuthTypeOK, Stored
<1>3. ASSUME NEW u \in Tokens, Logout(u) PROVE Kept
    <2>1. tokens' = [tokens EXCEPT ![u] = [tokens[u] EXCEPT !.revoked = "logged out"]] /\ Live(u)
        BY <1>3 DEF Logout
    <2>2. CASE u = t
        <3>1. [tokens[t] EXCEPT !.revoked = "logged out"] \in TokenRow
            BY <1>0 DEF TokenRow
        <3>2. QED
            BY <1>0, <2>1, <2>2, <3>1, NoneIsNoRow DEF AuthTypeOK, Live
    <2>3. CASE u # t
        BY <1>0, <2>1, <2>3 DEF AuthTypeOK, Stored
    <2>4. QED
        BY <2>2, <2>3
<1>4. ASSUME NEW r \in Handlers, CommitRefresh(r) PROVE Kept
    <2> DEFINE q == request[r]
               stamped == IF q.stamps THEN [tokens EXCEPT ![q.old].revoked = "rotated"] ELSE tokens
    <2>1. Fits(q) /\ q.at = "issued"
        BY <1>0, <1>4 DEF RequestsFit, CommitRefresh
    <2>2. /\ q.new \in Tokens /\ q.new # t /\ q.old \in Tokens
          /\ q.stamps => tokens[q.old].revoked = "no"
        BY <2>1 DEF Fits, InTx, Live, Stored
    <2>3. tokens'[t] = stamped[t]
        BY <1>0, <1>4, <2>2 DEF CommitRefresh, AuthTypeOK
    <2>4. CASE q.stamps /\ q.old = t
        <3>1. [tokens[t] EXCEPT !.revoked = "rotated"] \in TokenRow
            BY <1>0 DEF TokenRow
        <3>2. stamped[t] = [tokens[t] EXCEPT !.revoked = "rotated"]
            BY <1>0, <2>4 DEF AuthTypeOK
        <3>3. QED
            BY <2>2, <2>3, <2>4, <3>1, <3>2, NoneIsNoRow
    <2>5. CASE ~(q.stamps /\ q.old = t)
        <3>1. stamped[t] = tokens[t]
            BY <1>0, <2>2, <2>5 DEF AuthTypeOK
        <3>2. QED
            BY <2>3, <3>1 DEF Stored
    <2>6. QED
        BY <2>4, <2>5
<1>5. \/ UNCHANGED tokens
      \/ \E r \in Handlers, u \in Tokens : IssueForLogin(r, u)
      \/ \E u \in Tokens : Logout(u)
      \/ \E r \in Handlers : CommitRefresh(r)
    BY DEF AuthNext, authVars, Statement, Login, Register, GetRefreshToken, IssueForRefresh,
           RevokeRefreshToken, Answer, Fail, Tick
<1>6. QED
    BY <1>1, <1>2, <1>3, <1>4, <1>5

\* No statement of any request rewrites a row whose revoked_at is set, and no
\* row disappears (the WHERE of RevokeRefreshToken, fresh values).
THEOREM RevocationFinal == AuthSpec => RevokedForGood
<1>1. AuthInv /\ [AuthNext]_authVars =>
        [\A t \in Tokens :
            Stored(t) => /\ tokens'[t] # None
                         /\ tokens[t].revoked # "no" => tokens'[t] = tokens[t]]_authVars
    BY RevocationStep
<1>2. QED
    BY <1>1, RequestsAgree, PTL DEF AuthSpec, RevokedForGood

LEMMA GrantsStep == AuthInv /\ GrantsAuthentic /\ [AuthNext]_authVars => GrantsAuthentic'
<1> SUFFICES ASSUME AuthInv, GrantsAuthentic, [AuthNext]_authVars PROVE GrantsAuthentic'
    OBVIOUS
<1> DEFINE Good(s) == /\ users'[request'[s].user] # None
                      /\ users'[request'[s].user].password = request'[s].password
<1>0. AuthTypeOK
    BY DEF AuthInv
<1>1. ASSUME NEW r \in Handlers, NEW email \in Emails, NEW password \in Passwords,
             \/ Login(r, email, password)
             \/ \E handle \in Handles : Register(r, email, handle, password)
      PROVE  GrantsAuthentic'
    <2> DEFINE Began ==
            /\ \A s \in Handlers :
                 request'[s] = IF s = r THEN Granted(email, password) ELSE request[s]
            /\ users'[email] # None /\ users'[email].password = password
    <2>1. Began
        <3>1. CASE Login(r, email, password)
            BY <1>0, <3>1 DEF Login, AuthTypeOK
        <3>2. ASSUME NEW handle \in Handles, Register(r, email, handle, password)
              PROVE  Began
            <4> DEFINE account == [handle |-> handle, password |-> password]
            <4>1. account \in Account /\ account # None
                BY AuthAssumption DEF Account
            <4>2. users'[email] = account
                BY <1>0, <3>2 DEF Register, AuthTypeOK
            <4>3. QED
                BY <1>0, <3>2, <4>1, <4>2 DEF Register, AuthTypeOK
        <3>3. QED
            BY <1>1, <3>1, <3>2
    <2>2. \A e \in Emails : users[e] # None => users'[e] = users[e]
        BY <1>0, <1>1 DEF Login, Register, AuthTypeOK
    <2> SUFFICES ASSUME NEW s \in Handlers, request'[s].at = "granted" PROVE Good(s)
        BY DEF GrantsAuthentic
    <2>3. CASE s = r
        BY <2>1, <2>3 DEF Granted
    <2>4. CASE s # r
        <3>1. request'[s] = request[s] /\ request[s] \in Request
            BY <1>0, <2>1, <2>4, RequestTyped
        <3>2. request[s].user \in Emails
            BY <3>1 DEF Request
        <3>3. QED
            BY <2>2, <3>1, <3>2 DEF GrantsAuthentic
    <2>5. QED
        BY <2>3, <2>4
<1>2. ASSUME UNCHANGED users,
             \A s \in Handlers : request'[s].at = "granted" => request'[s] = request[s]
      PROVE  GrantsAuthentic'
    BY <1>2 DEF GrantsAuthentic
<1>3. ASSUME NEW r \in Handlers, NEW t \in Tokens, IssueForLogin(r, t) PROVE GrantsAuthentic'
    <2>1. request[r] \in Request
        BY <1>0, <1>3, RequestTyped DEF IssueForLogin
    <2>2. [request[r] EXCEPT !.at = "stored", !.new = t].at = "stored"
        BY <2>1 DEF Request
    <2>3. QED
        BY <1>0, <1>2, <1>3, <2>2 DEF IssueForLogin, AuthTypeOK
<1>4. ASSUME NEW r \in Handlers, NEW t \in Tokens, GetRefreshToken(r, t) PROVE GrantsAuthentic'
    BY <1>0, <1>2, <1>4 DEF GetRefreshToken, AuthTypeOK, Found
<1>5. ASSUME NEW r \in Handlers, RevokeRefreshToken(r) PROVE GrantsAuthentic'
    <2>1. request[r] \in Request
        BY <1>0, <1>5, RequestTyped DEF RevokeRefreshToken
    <2>2. [request[r] EXCEPT !.at = "revoked", !.stamps = Live(request[r].old)].at = "revoked"
        BY <2>1 DEF Request
    <2>3. QED
        BY <1>0, <1>2, <1>5, <2>2 DEF RevokeRefreshToken, AuthTypeOK
<1>6. ASSUME NEW r \in Handlers, NEW t \in Tokens, IssueForRefresh(r, t) PROVE GrantsAuthentic'
    <2>1. request[r] \in Request
        BY <1>0, <1>6, RequestTyped DEF IssueForRefresh
    <2>2. [request[r] EXCEPT !.at = "issued", !.new = t, !.expires = now + RefreshTTL].at = "issued"
        BY <2>1 DEF Request
    <2>3. QED
        BY <1>0, <1>2, <1>6, <2>2 DEF IssueForRefresh, AuthTypeOK
<1>7. ASSUME NEW r \in Handlers, CommitRefresh(r) PROVE GrantsAuthentic'
    <2>1. request[r] \in Request
        BY <1>0, <1>7, RequestTyped DEF CommitRefresh
    <2>2. [request[r] EXCEPT !.at = "stored"].at = "stored"
        BY <2>1 DEF Request
    <2>3. QED
        BY <1>0, <1>2, <1>7, <2>2 DEF CommitRefresh, AuthTypeOK
<1>8. ASSUME NEW r \in Handlers, Answer(r) \/ Fail(r) PROVE GrantsAuthentic'
    BY <1>0, <1>2, <1>8 DEF Answer, Fail, AuthTypeOK, Idle
<1>9. ASSUME UNCHANGED <<users, request>> PROVE GrantsAuthentic'
    BY <1>9 DEF GrantsAuthentic
<1>10. QED
    BY <1>1, <1>3, <1>4, <1>5, <1>6, <1>7, <1>8, <1>9
    DEF AuthNext, Statement, Logout, Tick, authVars

\* No interleaving of registrations and logins grants a session to somebody who
\* did not give the account's password.
THEOREM GrantsGenuine == AuthSpec => []GrantsAuthentic
<1>1. AuthInit => GrantsAuthentic
    BY DEF AuthInit, GrantsAuthentic, Idle
<1>2. QED
    BY <1>1, GrantsStep, RequestsAgree, PTL DEF AuthSpec
=============================================================================
