--------------------------- MODULE CredentialsProofs ---------------------------
(***************************************************************************)
(* Theorems about Credentials: API keys stay with the user they were given *)
(* to, the cookie never overrides a header, whoever is let in is entitled  *)
(* to, and access tokens keep to their seconds; for any second, any time   *)
(* to live and any headers.                                                *)
(***************************************************************************)
EXTENDS Credentials, TLAPS

----------------------------------------------------------------------------
(* Whole seconds *)

\* Unix rounds down to a second.
LEMMA UnixBounds ==
    ASSUME NEW t \in Nat
    PROVE  /\ Unix(t) \in Nat
           /\ Unix(t) * Second =< t
           /\ t < Unix(t) * Second + Second
<1>0. Second \in Nat \ {0}
    BY CredAssumption
<1>1. t \div Second \in Int
    BY <1>0, SMT
<1>2. t = Second * (t \div Second) + (t % Second)
    BY <1>0, SMT
<1>3. t % Second \in 0 .. (Second - 1)
    BY <1>0, SMT
<1>4. (t \div Second) * Second =< t /\ t < (t \div Second) * Second + Second
    BY <1>0, <1>1, <1>2, <1>3, SMT
<1>5. t \div Second \in Nat
    BY <1>0, <1>1, <1>4, SMT
<1> QED
    BY <1>4, <1>5 DEF Unix

\* A second that has begun is past every tick of the seconds before it.
LEMMA SecondsOrdered ==
    ASSUME NEW a \in Nat, NEW b \in Nat, a =< b
    PROVE  a * Second =< b * Second
<1>0. Second \in Nat \ {0}
    BY CredAssumption
<1> QED
    BY <1>0, SMT

LEMMA UnixMonotone ==
    ASSUME NEW s \in Nat, NEW t \in Nat, s =< t
    PROVE  Unix(s) =< Unix(t)
<1>0. Second \in Nat \ {0}
    BY CredAssumption
<1>1. /\ Unix(s) \in Nat /\ Unix(t) \in Nat
      /\ Unix(s) * Second =< s /\ t < Unix(t) * Second + Second
    BY UnixBounds
<1>2. CASE Unix(t) < Unix(s)
    <2>1. Unix(t) + 1 =< Unix(s)
        BY <1>1, <1>2, SMT
    <2>2. (Unix(t) + 1) * Second =< Unix(s) * Second
        BY <1>1, <2>1, SecondsOrdered
    <2>3. (Unix(t) + 1) * Second = Unix(t) * Second + Second
        BY <1>0, <1>1, SMT
    <2> QED
        BY <1>0, <1>1, <2>2, <2>3, SMT
<1> QED
    BY <1>1, <1>2, SMT

----------------------------------------------------------------------------
(* Types and keys *)

\* The configuration is one the process starts with.  The row a request has
\* stored and the key it was given belong to the user it acts for.
CredInv ==
    /\ CredTypeOK
    /\ NewAuthenticator(config)
    /\ \A h \in Handlers : request[h].at = "stored" => keys[request[h].key] = request[h].user
    /\ KeysGiven

LEMMA ActingUser ==
    ASSUME CredTypeOK, NEW q \in Requests, authenticateRequest(q) # None
    PROVE  authenticateRequest(q) \in Users
<1> DEFINE bearer == GetBearerToken(q)
           key == IF GetAPIKey(q) # None THEN GetAPIKey(q) ELSE bearer
<1>1. ASSUME NEW v PROVE Authenticate(v) \in Users \cup {None}
    BY DEF Authenticate
<1>2. ASSUME NEW v PROVE AuthenticateAPIKey(v) \in Users \cup {None}
    BY DEF AuthenticateAPIKey, CredTypeOK
<1>3. authenticateRequest(q) \in
        {Authenticate(bearer), AuthenticateAPIKey(key), Authenticate(q.cookie)}
    BY DEF authenticateRequest
<1>4. /\ Authenticate(bearer) \in Users \cup {None}
      /\ AuthenticateAPIKey(key) \in Users \cup {None}
      /\ Authenticate(q.cookie) \in Users \cup {None}
    BY <1>1, <1>2
<1> QED
    BY <1>3, <1>4

LEMMA CredInvInit == CredInit => CredInv
<1> SUFFICES ASSUME CredInit PROVE CredInv
    OBVIOUS
<1>1. CredTypeOK
    BY CredAssumption DEF CredInit, CredTypeOK, Idle
<1> QED
    BY <1>1 DEF CredInit, CredInv, KeysGiven, Idle

LEMMA CredInvStep == CredInv /\ [CredNext]_credVars => CredInv'
<1> SUFFICES ASSUME CredInv, [CredNext]_credVars PROVE CredInv'
    OBVIOUS
<1> USE DEF CredInv, KeysGiven
<1>0. /\ config \in Configs /\ keys \in [Keys -> Users \cup {None}]
      /\ request \in [Handlers -> Issuing \cup {Idle}]
      /\ given \subseteq [key : Keys, user : Users] /\ now \in 0 .. EndOfTime
      /\ None \notin Users
    BY CredAssumption DEF CredTypeOK
<1>1. ASSUME NEW h \in Handlers, NEW q \in Requests, createAPIKey(h, q) PROVE CredInv'
    <2>1. authenticateRequest(q) \in Users
        BY <1>1, ActingUser DEF createAPIKey
    <2> DEFINE x == [at |-> "drawing", user |-> authenticateRequest(q), n |-> 1]
    <2>2. x \in Issuing
        BY <2>1 DEF Issuing
    <2>3. /\ request' = [request EXCEPT ![h] = x]
          /\ UNCHANGED <<config, keys, given, now>>
        BY <1>1 DEF createAPIKey
    <2> QED
        BY <1>0, <2>2, <2>3 DEF CredTypeOK
<1>2. ASSUME NEW h \in Handlers, NEW k \in Keys, CreateAPIKey(h, k) PROVE CredInv'
    <2>1. request[h].at = "drawing"
        BY <1>2 DEF CreateAPIKey
    <2>2. request[h] \in [at : {"drawing"}, user : Users, n : 1 .. 3]
        BY <1>0, <2>1 DEF Issuing, Idle
    <2>3. CASE keys[k] = None
        <3> DEFINE x == [at |-> "stored", user |-> request[h].user, key |-> k]
        <3>1. x \in Issuing
            BY <2>2 DEF Issuing
        <3>2. /\ request' = [request EXCEPT ![h] = x]
              /\ keys' = [keys EXCEPT ![k] = request[h].user]
              /\ UNCHANGED <<config, given, now>>
            BY <1>2, <2>3 DEF CreateAPIKey
        <3>3. CredTypeOK'
            BY <1>0, <2>2, <3>1, <3>2 DEF CredTypeOK
        <3>4. \A g \in given : g.key # k
            BY <1>0, <2>3
        <3>5. ASSUME NEW i \in Handlers, i # h, request[i].at = "stored" PROVE request[i].key # k
            <4>1. request[i] \in [at : {"stored"}, user : Users, key : Keys]
                BY <1>0, <3>5 DEF Issuing, Idle
            <4> QED
                BY <1>0, <2>3, <3>5, <4>1
        <3>6. ASSUME NEW i \in Handlers, request'[i].at = "stored"
              PROVE  keys'[request'[i].key] = request'[i].user
            <4>1. CASE i = h
                BY <1>0, <3>2, <4>1
            <4>2. CASE i # h
                <5>1. request'[i] = request[i]
                    BY <1>0, <3>2, <4>2
                <5> QED
                    BY <1>0, <3>2, <3>5, <3>6, <4>2, <5>1
            <4> QED
                BY <4>1, <4>2
        <3> QED
            BY <1>0, <3>2, <3>3, <3>4, <3>6
    <2>4. CASE keys[k] # None
        <3> DEFINE x == IF request[h].n < 3 THEN [request[h] EXCEPT !.n = @ + 1] ELSE Idle
        <3>1. x \in Issuing \cup {Idle} /\ x.at # "stored"
            BY <2>2 DEF Issuing, Idle
        <3>2. /\ request' = [request EXCEPT ![h] = x]
              /\ UNCHANGED <<config, keys, given, now>>
            BY <1>2, <2>4 DEF CreateAPIKey
        <3> HIDE DEF x
        <3> QED
            BY <1>0, <3>1, <3>2 DEF CredTypeOK
    <2> QED
        BY <2>3, <2>4
<1>3. ASSUME NEW h \in Handlers, AnswerKey(h) PROVE CredInv'
    <2>1. request[h] \in [at : {"stored"}, user : Users, key : Keys]
        BY <1>0, <1>3 DEF AnswerKey, Issuing, Idle
    <2>2. /\ given' = given \cup {[key |-> request[h].key, user |-> request[h].user]}
          /\ request' = [request EXCEPT ![h] = Idle]
          /\ UNCHANGED <<config, keys, now>>
        BY <1>3 DEF AnswerKey
    <2>3. Idle.at # "stored"
        BY DEF Idle
    <2> QED
        BY <1>0, <2>1, <2>2, <2>3 DEF CredTypeOK
<1>4. ASSUME NEW h \in Handlers, FailKey(h) PROVE CredInv'
    <2>1. Idle.at # "stored"
        BY DEF Idle
    <2> QED
        BY <1>0, <1>4, <2>1 DEF CredTypeOK, FailKey
<1>5. ASSUME Tick PROVE CredInv'
    <2>1. now + 1 \in 0 .. EndOfTime
        BY <1>0, <1>5, CredAssumption DEF Tick
    <2> QED
        BY <1>0, <1>5, <2>1 DEF CredTypeOK, Tick
<1>6. ASSUME UNCHANGED credVars PROVE CredInv'
    BY <1>0, <1>6 DEF CredTypeOK, credVars
<1> QED
    BY <1>1, <1>2, <1>3, <1>4, <1>5, <1>6 DEF CredNext

LEMMA CredInvAlways == CredSpec => []CredInv
    BY CredInvInit, CredInvStep, PTL DEF CredSpec

\* A key that was handed out belongs to the user who asked for it, whatever
\* values the requests of createAPIKey draw and however they fail.
THEOREM KeysStay == CredSpec => [](CredTypeOK /\ KeysGiven)
<1>1. CredInv => CredTypeOK /\ KeysGiven
    BY DEF CredInv
<1> QED
    BY CredInvAlways, <1>1, PTL

----------------------------------------------------------------------------
(* authenticateRequest *)

\* What the CASE of authenticateRequest comes to, one alternative at a time.
LEMMA Alternatives ==
    ASSUME NEW q \in Requests
    PROVE  /\ Authenticate(GetBearerToken(q)) # None =>
                authenticateRequest(q) = Authenticate(GetBearerToken(q))
           /\ Authenticate(GetBearerToken(q)) = None /\ GetAPIKey(q) # None =>
                authenticateRequest(q) = AuthenticateAPIKey(GetAPIKey(q))
           /\ Authenticate(GetBearerToken(q)) = None /\ GetAPIKey(q) = None /\ GetBearerToken(q) # None =>
                authenticateRequest(q) = AuthenticateAPIKey(GetBearerToken(q))
           /\ Authenticate(GetBearerToken(q)) = None /\ GetAPIKey(q) = None /\ GetBearerToken(q) = None =>
                authenticateRequest(q) = Authenticate(q.cookie)
    BY DEF authenticateRequest

\* A missing value, and an API key, are no access token.
LEMMA NoToken ==
    ASSUME NEW v, v = None \/ v \in Keys
    PROVE  Authenticate(v) = None
<1>1. v \notin Tokens /\ v \notin DevTokens
    BY CredAssumption DEF Values
<1> QED
    BY <1>1 DEF Authenticate

\* An API key header, or none: where GetAPIKey finds its value.
LEMMA KeyHeaders ==
    ASSUME NEW q \in Requests
    PROVE  /\ q.xKey # None => GetAPIKey(q) = q.xKey
           /\ q.xKey = None /\ q.scheme = "ApiKey" => GetAPIKey(q) = q.value
           /\ q.xKey = None /\ q.scheme # "ApiKey" => GetAPIKey(q) = None
    BY DEF GetAPIKey

\* The cookie changes nothing for a request that names a bearer token or an API
\* key, with any keys, tokens and headers.
THEOREM CookieComesLast == CredSpec => []HeadersDecide
<1>1. HeadersDecide
    <2> SUFFICES ASSUME NEW q \in Requests, GetBearerToken(q) # None \/ GetAPIKey(q) # None
                 PROVE  authenticateRequest(q) = authenticateRequest([q EXCEPT !.cookie = None])
        BY DEF HeadersDecide
    <2> DEFINE p == [q EXCEPT !.cookie = None]
    <2>1. /\ p.scheme = q.scheme /\ p.value = q.value /\ p.xKey = q.xKey
        BY CredAssumption DEF Request
    <2>2. GetBearerToken(p) = GetBearerToken(q)
        BY <2>1 DEF GetBearerToken
    <2>3. GetAPIKey(p) = GetAPIKey(q)
        BY <2>1 DEF GetAPIKey
    <2> QED
        BY <2>2, <2>3 DEF authenticateRequest
<1> QED
    BY <1>1, PTL

\* Every documented form of a stored key lets its owner in, beside whatever else
\* the request carries.
THEOREM EveryFormWorks == CredSpec => []FormsAccepted
<1>1. FormsAccepted
    <2> SUFFICES ASSUME NEW q \in Requests, NEW k \in Keys, keys[k] # None,
                        \/ q.scheme \in {"Bearer", "ApiKey"} /\ q.value = k /\ q.xKey = None
                        \/ q.xKey = k /\ (q.scheme = "Bearer" => Authenticate(q.value) = None)
                 PROVE  authenticateRequest(q) = keys[k]
        BY DEF FormsAccepted
    <2>1. k # None /\ Authenticate(k) = None /\ Authenticate(None) = None
        BY NoToken, CredAssumption DEF Values
    <2>2. AuthenticateAPIKey(k) = keys[k]
        BY DEF AuthenticateAPIKey
    <2>3. CASE q.scheme = "Bearer" /\ q.value = k /\ q.xKey = None
        <3>1. GetBearerToken(q) = k
            BY <2>3 DEF GetBearerToken
        <3>2. GetAPIKey(q) = None
            BY <2>3, KeyHeaders
        <3> QED
            BY <2>1, <2>2, <3>1, <3>2, Alternatives
    <2>4. CASE q.scheme = "ApiKey" /\ q.value = k /\ q.xKey = None
        <3>1. GetBearerToken(q) = None
            BY <2>4 DEF GetBearerToken
        <3>2. GetAPIKey(q) = k
            BY <2>4, KeyHeaders
        <3> QED
            BY <2>1, <2>2, <3>1, <3>2, Alternatives
    <2>5. CASE q.xKey = k /\ (q.scheme = "Bearer" => Authenticate(q.value) = None)
        <3>1. Authenticate(GetBearerToken(q)) = None
            BY <2>1, <2>5 DEF GetBearerToken
        <3>2. GetAPIKey(q) = k
            BY <2>1, <2>5, KeyHeaders
        <3> QED
            BY <2>1, <2>2, <3>1, <3>2, Alternatives
    <2> QED
        BY <2>3, <2>4, <2>5
<1> QED
    BY <1>1, PTL

\* What the authenticator accepts entitles to the user it answers with.
LEMMA AcceptedEntitles ==
    ASSUME CredInv, NEW v, Authenticate(v) # None
    PROVE  Authenticate(v) \in Users /\ Entitles(v, Authenticate(v))
<1>0. config \in Configs /\ NewAuthenticator(config) /\ now \in Nat /\ Second \in Nat \ {0}
    BY CredAssumption DEF CredInv, CredTypeOK
<1>1. CASE /\ config.mode = "jwt" /\ v \in Tokens /\ ValidateJWT(v, now)
           /\ v.user \in Users
    <2>1. Authenticate(v) = v.user
        BY <1>1 DEF Authenticate
    <2>2. v.exp \in Nat /\ v.ours /\ Unix(now) < v.exp
        <3>1. v \in Token
            BY <1>1, CredAssumption
        <3>2. Unix(now) \in Nat
            BY <1>0, UnixBounds
        <3> QED
            BY <1>1, <3>1, <3>2 DEF Token, ValidateJWT
    <2>3. now < v.exp * Second
        <3>1. Unix(now) \in Nat /\ now < Unix(now) * Second + Second
            BY <1>0, UnixBounds
        <3>2. (Unix(now) + 1) * Second =< v.exp * Second
            BY <2>2, <3>1, SecondsOrdered
        <3>3. (Unix(now) + 1) * Second = Unix(now) * Second + Second
            BY <1>0, <3>1, SMT
        <3> QED
            BY <1>0, <2>2, <3>1, <3>2, <3>3, SMT
    <2> QED
        BY <1>1, <2>1, <2>2, <2>3 DEF Entitles
<1>2. CASE config.mode = "dev" /\ v \in DevTokens /\ v.dev \in Users
    <2>1. Authenticate(v) = v.dev
        BY <1>2 DEF Authenticate
    <2>2. config.environment # "production"
        BY <1>0, <1>2 DEF NewAuthenticator
    <2> QED
        BY <1>2, <2>1, <2>2 DEF Entitles
<1> QED
    BY <1>1, <1>2 DEF Authenticate

\* Whoever is let in is a user whom a credential of the request entitles: an
\* unexpired token of this server, a stored key, and a dev token only outside
\* production.
THEOREM ActsForOwnerAlways == CredSpec => []ActsForOwner
<1>1. CredInv => ActsForOwner
    <2> SUFFICES ASSUME CredInv, NEW q \in Requests, authenticateRequest(q) # None
                 PROVE  /\ authenticateRequest(q) \in Users
                        /\ \E v \in Carried(q) : Entitles(v, authenticateRequest(q))
        BY DEF ActsForOwner
    <2> DEFINE bearer == GetBearerToken(q)
               key == GetAPIKey(q)
    <2>1. Authenticate(None) = None /\ None \notin Keys
        BY NoToken, CredAssumption DEF Values
    <2>2. bearer # None => bearer \in Carried(q)
        BY DEF GetBearerToken, Carried
    <2>3. key # None => key \in Carried(q)
        BY KeyHeaders DEF Carried
    <2>4. q.cookie # None => q.cookie \in Carried(q)
        BY DEF Carried
    <2>5. ASSUME NEW v, AuthenticateAPIKey(v) # None PROVE Entitles(v, AuthenticateAPIKey(v))
        BY <2>5 DEF AuthenticateAPIKey, Entitles
    <2>6. authenticateRequest(q) \in Users
        BY ActingUser DEF CredInv
    <2>7. CASE Authenticate(bearer) # None
        <3>1. authenticateRequest(q) = Authenticate(bearer) /\ bearer # None
            BY <2>1, <2>7, Alternatives
        <3> QED
            BY <2>2, <2>6, <2>7, <3>1, AcceptedEntitles
    <2>8. CASE Authenticate(bearer) = None /\ key # None
        <3>1. authenticateRequest(q) = AuthenticateAPIKey(key)
            BY <2>8, Alternatives
        <3> QED
            BY <2>3, <2>5, <2>6, <2>8, <3>1
    <2>9. CASE Authenticate(bearer) = None /\ key = None /\ bearer # None
        <3>1. authenticateRequest(q) = AuthenticateAPIKey(bearer)
            BY <2>9, Alternatives
        <3> QED
            BY <2>2, <2>5, <2>6, <2>9, <3>1
    <2>10. CASE Authenticate(bearer) = None /\ key = None /\ bearer = None
        <3>1. authenticateRequest(q) = Authenticate(q.cookie)
            BY <2>10, Alternatives
        <3>2. Authenticate(q.cookie) # None /\ q.cookie # None
            BY <2>1, <3>1
        <3> QED
            BY <2>4, <2>6, <3>1, <3>2, AcceptedEntitles
    <2> QED
        BY <2>7, <2>8, <2>9, <2>10
<1> QED
    BY CredInvAlways, <1>1, PTL

----------------------------------------------------------------------------
(* Time *)

\* Access tokens and their cookies keep to their seconds, whatever a second and
\* the time to live are: no token outlives AccessTTL, none dies more than a
\* second early, and the cookie goes within a second of its token.
THEOREM TokensKeepTime == CredSpec => []AccessWindow
<1>1. CredInv => AccessWindow
    <2> SUFFICES ASSUME CredInv, NEW m \in 0 .. now, NEW u \in Users
                 PROVE  /\ ValidateJWT(MakeJWT(u, m), now) => now < m + AccessTTL
                        /\ now + Second =< m + AccessTTL => ValidateJWT(MakeJWT(u, m), now)
                        /\ now < m + AccessTTL =>
                             /\ MakeJWT(u, m).exp * Second - Second < CookieDies(m + AccessTTL, now)
                             /\ CookieDies(m + AccessTTL, now) < MakeJWT(u, m).exp * Second + Second
        BY DEF AccessWindow
    <2> DEFINE e == m + AccessTTL
    <2>1. now \in Nat /\ m \in Nat /\ m =< now /\ e \in Nat
          /\ Second \in Nat \ {0} /\ Skew \in Nat
        BY CredAssumption, SMT DEF CredInv, CredTypeOK
    <2>2. /\ MakeJWT(u, m).exp = Unix(e) /\ MakeJWT(u, m).iat = Unix(m) /\ MakeJWT(u, m).ours
        BY DEF MakeJWT
    <2> HIDE DEF e
    <2>3. /\ Unix(e) \in Nat /\ Unix(e) * Second =< e /\ e < Unix(e) * Second + Second
          /\ Unix(now) \in Nat /\ Unix(now) * Second =< now /\ now < Unix(now) * Second + Second
          /\ Unix(m) \in Nat
        BY <2>1, UnixBounds
    <2>4. ValidateJWT(MakeJWT(u, m), now) <=> Unix(now) < Unix(e)
        <3>1. Unix(m) =< Unix(now)
            BY <2>1, UnixMonotone
        <3> QED
            BY <2>1, <2>2, <2>3, <3>1 DEF ValidateJWT
    <2>5. Unix(now) < Unix(e) => now < e
        <3>1. e =< now => Unix(e) =< Unix(now)
            BY <2>1, UnixMonotone
        <3> QED
            BY <2>1, <2>3, <3>1, SMT
    <2>6. now + Second =< e => Unix(now) < Unix(e)
        <3>1. CASE Unix(e) =< Unix(now)
            <4>1. Unix(e) * Second =< Unix(now) * Second
                BY <2>3, <3>1, SecondsOrdered
            <4> QED
                BY <2>1, <2>3, <4>1, SMT
        <3> QED
            BY <2>3, <3>1, SMT
    <2>7. ASSUME now < e
          PROVE  /\ Unix(e) * Second - Second < CookieDies(e, now)
                 /\ CookieDies(e, now) < Unix(e) * Second + Second
        <3> DEFINE maxAge == Unix(e - now)
        <3>1. e - now \in Nat
            BY <2>1, <2>7, SMT
        <3>2. maxAge \in Nat /\ maxAge * Second =< e - now /\ e - now < maxAge * Second + Second
            BY <3>1, UnixBounds
        <3>3. CookieDies(e, now) = IF maxAge > 0 THEN now + maxAge * Second ELSE Unix(e) * Second
            BY DEF CookieDies, Unix
        <3> HIDE DEF maxAge
        <3>4. CASE maxAge > 0
            <4>1. CookieDies(e, now) = now + maxAge * Second
                BY <3>3, <3>4
            <4> QED
                BY <2>1, <2>3, <3>2, <4>1, SMT
        <3>5. CASE ~(maxAge > 0)
            <4>1. CookieDies(e, now) = Unix(e) * Second
                BY <3>3, <3>5
            <4> QED
                BY <2>1, <2>3, <4>1, SMT
        <3> QED
            BY <3>4, <3>5
    <2> QED
        BY <2>2, <2>4, <2>5, <2>6, <2>7 DEF e
<1> QED
    BY CredInvAlways, <1>1, PTL
=============================================================================
