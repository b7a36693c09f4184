------------------------------ MODULE Credentials ------------------------------
(***************************************************************************)
(* Who a request acts for: the credentials authenticateRequest finds in    *)
(* its headers and the order it tries them in, access tokens and their     *)
(* seconds, dev mode, and the API keys createAPIKey hands out.             *)
(*                                                                         *)
(* Authentication is one step: between its statements only rows that it    *)
(* does not read can change (no key is revoked, no user deleted, by the    *)
(* program).  A lookup that fails counts as a credential that is refused:  *)
(* left out.  api_keys.last_used_at is written and never read: left out.   *)
(***************************************************************************)
EXTENDS Integers

CONSTANTS
    Users,
    UserIds,     \* subjects a token may name: those of Users and unknown ones
    Keys,        \* what MakeRefreshToken may draw; it may draw a value again
    Tokens,      \* JWTs in circulation
    Requests,    \* headers that requests to protected routes carry
    Handlers,    \* request goroutines
    Second,      \* ticks of the clock in a second
    AccessTTL,   \* AUTH_ACCESS_TOKEN_TTL, in ticks
    Skew,        \* 60: how many seconds in the future iat may be
    EndOfTime,   \* bound: the model's clock stops there
    None         \* no user, no header, no row

VARIABLES
    config,      \* APP_ENV and AUTH_MODE of the process
    keys,        \* table api_keys: the user of each key, or None
    request,     \* what each handler of createAPIKey is doing
    given,       \* keys answered with 201, and to whom
    now          \* the clock, in ticks

credVars == <<config, keys, request, given, now>>

----------------------------------------------------------------------------
\* ours: the header, signature, issuer and audience are those of this server.
Token == [user : UserIds, iat : Nat, exp : Nat, ours : BOOLEAN]

DevTokens == [dev : UserIds]

Values == Keys \cup Tokens \cup DevTokens

\* scheme and value: Authorization; "other" is anything that is neither Bearer
\* nor an API key scheme with one word after it.
Request == [scheme : {"none", "Bearer", "ApiKey", "other"}, value : Values,
            xKey : Values \cup {None}, cookie : Values \cup {None}]

ASSUME CredAssumption ==
    /\ Users \subseteq UserIds
    /\ Tokens \subseteq Token
    /\ Requests \subseteq Request
    /\ Second \in Nat \ {0} /\ AccessTTL \in Nat \ {0} /\ Skew \in Nat /\ EndOfTime \in Nat
    /\ Keys \cap (Tokens \cup DevTokens) = {} /\ Tokens \cap DevTokens = {}
    /\ None \notin UserIds \cup Values

Idle == [at |-> "idle"]

\* "drawing": createAPIKey is about to insert for the n-th time; "stored": the
\* row is inserted, the answer is not written yet.
Issuing == [at : {"drawing"}, user : Users, n : 1 .. 3] \cup [at : {"stored"}, user : Users, key : Keys]

----------------------------------------------------------------------------
(* Configuration *)

Configs == [environment : {"production", "development"}, mode : {"dev", "jwt"}, secrets : BOOLEAN]

\* Mutant: the environment is not looked at.
NewAuthenticatorAnywhere(c) == c.mode = "jwt" => c.secrets

\* Where it returns an error the process ends before it listens.
NewAuthenticator(c) ==
    /\ ~(c.environment = "production" /\ c.mode = "dev")
    /\ c.mode = "jwt" => c.secrets

----------------------------------------------------------------------------
(* Access tokens: MakeJWT truncates to seconds, ValidateJWT compares seconds. *)

Unix(t) == t \div Second

MakeJWT(user, t) == [user |-> user, iat |-> Unix(t), exp |-> Unix(t + AccessTTL), ours |-> TRUE]

ValidateJWT(v, t) == v.ours /\ v.exp > Unix(t) /\ v.iat =< Unix(t) + Skew

\* Mutant: a Max-Age of zero is taken for no limit.
CookieDiesNever(expires, t) ==
    LET maxAge == (expires - t) \div Second IN
    IF maxAge > 0 THEN t + maxAge * Second ELSE EndOfTime + AccessTTL + Second

\* When a browser that got the cookie at t drops it: whole seconds of Max-Age,
\* or Expires, in whole seconds too, when less than one is left.
CookieDies(expires, t) ==
    LET maxAge == (expires - t) \div Second IN
    IF maxAge > 0 THEN t + maxAge * Second ELSE Unix(expires) * Second

----------------------------------------------------------------------------
(* authenticateRequest *)

Authenticate(v) ==
    CASE config.mode = "jwt" /\ v \in Tokens /\ ValidateJWT(v, now) /\ v.user \in Users -> v.user
      [] config.mode = "dev" /\ v \in DevTokens /\ v.dev \in Users -> v.dev
      [] OTHER -> None

AuthenticateAPIKey(v) == IF v \in Keys THEN keys[v] ELSE None

GetBearerToken(q) == IF q.scheme = "Bearer" THEN q.value ELSE None

\* Mutant: X-API-Key is looked at only when there is no Authorization header.
GetAPIKeyAfterScheme(q) ==
    CASE q.scheme = "ApiKey" -> q.value
      [] q.scheme = "none" -> q.xKey
      [] OTHER -> None

GetAPIKey(q) ==
    CASE q.xKey # None -> q.xKey
      [] q.xKey = None /\ q.scheme = "ApiKey" -> q.value
      [] OTHER -> None

\* Mutant: whoever is not let in by the headers may be by the cookie.
authenticateRequestCookieLast(q) ==
    LET bearer == GetBearerToken(q)
        key == IF GetAPIKey(q) # None THEN GetAPIKey(q) ELSE bearer
    IN  CASE Authenticate(bearer) # None -> Authenticate(bearer)
          [] Authenticate(bearer) = None /\ AuthenticateAPIKey(key) # None -> AuthenticateAPIKey(key)
          [] OTHER -> Authenticate(q.cookie)

\* A bearer token that is refused is tried as an API key, after the API key
\* headers; the cookie counts only when there is neither.
authenticateRequest(q) ==
    LET bearer == GetBearerToken(q)
        key == IF GetAPIKey(q) # None THEN GetAPIKey(q) ELSE bearer
    IN  CASE Authenticate(bearer) # None -> Authenticate(bearer)
          [] Authenticate(bearer) = None /\ key # None -> AuthenticateAPIKey(key)
          [] OTHER -> Authenticate(q.cookie)

----------------------------------------------------------------------------
(* createAPIKey *)

CredInit ==
    /\ config \in {c \in Configs : NewAuthenticator(c)}
    /\ keys = [k \in Keys |-> None]
    /\ request = [h \in Handlers |-> Idle]
    /\ given = {}
    /\ now = 0

\* A request the middleware lets in; a refused name leaves no trace.
createAPIKey(h, q) ==
    /\ request[h].at = "idle"
    /\ authenticateRequest(q) # None
    /\ request' = [request EXCEPT ![h] = [at |-> "drawing", user |-> authenticateRequest(q), n |-> 1]]
    /\ UNCHANGED <<config, keys, given, now>>

\* Mutant: ON CONFLICT DO NOTHING.
CreateAPIKeyNoConflict(h, k) ==
    /\ request[h].at = "drawing"
    /\ keys' = [keys EXCEPT ![k] = IF @ = None THEN request[h].user ELSE @]
    /\ request' = [request EXCEPT ![h] = [at |-> "stored", user |-> request[h].user, key |-> k]]
    /\ UNCHANGED <<config, given, now>>

\* Mutant: attempt <= maxAPIKeyIssueAttempts
CreateAPIKeyOnceMore(h, k) ==
    LET r == request[h] IN
    /\ r.at = "drawing"
    /\ IF keys[k] = None
         THEN /\ keys' = [keys EXCEPT ![k] = r.user]
              /\ request' = [request EXCEPT ![h] = [at |-> "stored", user |-> r.user, key |-> k]]
         ELSE /\ request' = [request EXCEPT ![h] = IF r.n =< 3 THEN [r EXCEPT !.n = @ + 1] ELSE Idle]
              /\ UNCHANGED keys
    /\ UNCHANGED <<config, given, now>>

\* A value that is taken is drawn anew, three times at most.
CreateAPIKey(h, k) ==
    LET r == request[h] IN
    /\ r.at = "drawing"
    /\ IF keys[k] = None
         THEN /\ keys' = [keys EXCEPT ![k] = r.user]
              /\ request' = [request EXCEPT ![h] = [at |-> "stored", user |-> r.user, key |-> k]]
         ELSE /\ request' = [request EXCEPT ![h] = IF r.n < 3 THEN [r EXCEPT !.n = @ + 1] ELSE Idle]
              /\ UNCHANGED keys
    /\ UNCHANGED <<config, given, now>>

AnswerKey(h) ==
    /\ request[h].at = "stored"
    /\ given' = given \cup {[key |-> request[h].key, user |-> request[h].user]}
    /\ request' = [request EXCEPT ![h] = Idle]
    /\ UNCHANGED <<config, keys, now>>

\* Any other error, a client that went away, an answer that is lost: what is
\* stored stays stored.
FailKey(h) ==
    /\ request[h].at # "idle"
    /\ request' = [request EXCEPT ![h] = Idle]
    /\ UNCHANGED <<config, keys, given, now>>

Tick ==
    /\ now < EndOfTime
    /\ now' = now + 1
    /\ UNCHANGED <<config, keys, request, given>>

CredNext ==
    \/ \E h \in Handlers :
         \/ \E q \in Requests : createAPIKey(h, q)
         \/ \E k \in Keys : CreateAPIKey(h, k)
         \/ AnswerKey(h)
         \/ FailKey(h)
    \/ Tick

CredSpec == CredInit /\ [][CredNext]_credVars

----------------------------------------------------------------------------
(* Properties *)

CredTypeOK ==
    /\ config \in Configs
    /\ keys \in [Keys -> Users \cup {None}]
    /\ request \in [Handlers -> Issuing \cup {Idle}]
    /\ given \subseteq [key : Keys, user : Users]
    /\ now \in 0 .. EndOfTime

\* Whether v, shown now, entitles its bearer to act for u: the reference that
\* authenticateRequest is measured with, in ticks and without an order.
Entitles(v, u) ==
    \/ v \in Tokens /\ v.ours /\ v.user = u /\ now < v.exp * Second
    \/ v \in DevTokens /\ v.dev = u /\ config.environment # "production"
    \/ v \in Keys /\ keys[v] = u

Carried(q) ==
    {v \in {q.xKey, q.cookie} : v # None} \cup (IF q.scheme \in {"Bearer", "ApiKey"} THEN {q.value} ELSE {})

\* Whatever a request carries, it acts for a user one of its credentials
\* entitles it to act for; in production that is never a dev token.
ActsForOwner ==
    \A q \in Requests :
        LET u == authenticateRequest(q) IN
        u # None => u \in Users /\ \E v \in Carried(q) : Entitles(v, u)

\* A cookie, which browsers attach unasked, changes nothing for a request that
\* names a bearer token or an API key, be that refused or not.
HeadersDecide ==
    \A q \in Requests :
        GetBearerToken(q) # None \/ GetAPIKey(q) # None =>
            authenticateRequest(q) = authenticateRequest([q EXCEPT !.cookie = None])

\* "Protected routes accept any of these forms": a key that is stored is good as
\* a bearer token, under the API key schemes and as X-API-Key, the latter also
\* beside an Authorization header that lets nobody in.
FormsAccepted ==
    \A q \in Requests, k \in Keys :
        /\ keys[k] # None
        /\ \/ q.scheme \in {"Bearer", "ApiKey"} /\ q.value = k /\ q.xKey = None
           \/ q.xKey = k /\ (q.scheme = "Bearer" => Authenticate(q.value) = None)
        => authenticateRequest(q) = keys[k]

\* Two requests that draw the same value: a key that was handed out belongs to
\* the user who asked for it, and to nobody else.
KeysGiven == \A g \in given : keys[g.key] = g.user

\* A token made at m is good for no longer than AccessTTL and for all of it but
\* a part of its last second; its cookie, set now, goes within a second of it.
AccessWindow ==
    \A m \in 0 .. now, u \in Users :
        LET token == MakeJWT(u, m)
            gone  == token.exp * Second
        IN  /\ ValidateJWT(token, now) => now < m + AccessTTL
            /\ now + Second =< m + AccessTTL => ValidateJWT(token, now)
            /\ now < m + AccessTTL =>
                 LET dies == CookieDies(m + AccessTTL, now) IN
                 gone - Second < dies /\ dies < gone + Second
=============================================================================
