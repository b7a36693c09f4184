----------------------------- MODULE AuthSessions -----------------------------
(***************************************************************************)
(* Accounts and refresh tokens: Register, Login, Refresh and Logout of     *)
(* localAuthService over the tables users and refresh_tokens, with         *)
(* requests interleaved statement by statement (Postgres READ COMMITTED),  *)
(* failing anywhere, and answers that get lost on the way to the client.   *)
(*                                                                         *)
(* Only Refresh runs in a transaction.  A token stands for its hash; the   *)
(* fields parent and session of a row are not columns, they record which   *)
(* token it replaces and at which login that chain began.                  *)
(***************************************************************************)
EXTENDS Integers

CONSTANTS
    Emails,        \* normalised addresses: one account each (CITEXT UNIQUE)
    Handles,       \* handles: one account each (UNIQUE)
    Passwords,
    Tokens,        \* values MakeRefreshToken may draw, never the same one twice
    Handlers,      \* request goroutines
    RefreshTTL,    \* AUTH_REFRESH_TOKEN_TTL
    EndOfTime,     \* bound: the model's clock stops there
    Patient,       \* accounts whose clients send no token again while a request
                   \* with it is running; those of the others overlap and retry
    None           \* no row, no token

VARIABLES
    users,       \* table users: the account of each email
    tokens,      \* table refresh_tokens: the committed row of each token
    request,     \* what each handler is doing
    held,        \* tokens that reached a client
    now          \* the clock of time.Now() and NOW()

authVars == <<users, tokens, request, held, now>>

----------------------------------------------------------------------------
Account == [handle : Handles, password : Passwords]

TokenRow == [user : Emails, expires : Nat, revoked : {"no", "rotated", "logged out"},
             parent : Tokens \cup {None}, session : Tokens]

ASSUME AuthAssumption ==
    /\ RefreshTTL \in Nat \ {0}      \* checkEnabled refuses any other
    /\ EndOfTime \in Nat
    /\ Patient \subseteq Emails
    /\ None \notin Tokens \cup Passwords
    /\ None \notin TokenRow /\ None \notin Account

\* "granted": the account is created or the password checked; "found": the row
\* of the old token was read and is good; "revoked": its UPDATE is done
\* ("stamps": it matched, revoked_at was NULL); "issued": the new row is
\* inserted, in the transaction; "stored": all is committed, not yet answered.
Idle == [at |-> "idle"]

Request ==
    [at : {"granted", "found", "revoked", "issued", "stored"}, user : Emails,
     password : Passwords \cup {None}, old : Tokens \cup {None}, stamps : BOOLEAN,
     new : Tokens \cup {None}, expires : Nat]

Granted(email, password) ==
    [at |-> "granted", user |-> email, password |-> password, old |-> None,
     stamps |-> FALSE, new |-> None, expires |-> 0]

Found(t) ==
    [at |-> "found", user |-> tokens[t].user, password |-> None, old |-> t,
     stamps |-> FALSE, new |-> None, expires |-> 0]

Live(t) == tokens[t] # None /\ tokens[t].revoked = "no"

\* Unused values: rand.Read does not repeat itself.
Fresh(t) ==
    /\ tokens[t] = None
    /\ \A r \in Handlers : request[r].at # "idle" => request[r].new # t

\* The row is locked by a transaction whose UPDATE matched it.
RowFree(t) ==
    \A r \in Handlers :
        ~(request[r].at \in {"revoked", "issued"} /\ request[r].old = t /\ request[r].stamps)

Patiently(t) == tokens[t].user \in Patient

\* Whether a client may send t now.
MaySend(t) ==
    /\ t \in held
    /\ Patiently(t) =>
         \A r \in Handlers : request[r].at # "idle" => request[r].old # t

AuthInit ==
    /\ users = [e \in Emails |-> None]
    /\ tokens = [t \in Tokens |-> None]
    /\ request = [r \in Handlers |-> Idle]
    /\ held = {}
    /\ now = 0

----------------------------------------------------------------------------
(* Register and Login *)

\* CreateUser, in autocommit.  A taken email or handle answers 409, and an
\* input that validateRegisterRequest refuses 400, without a trace.
Register(r, email, handle, password) ==
    /\ request[r].at = "idle"
    /\ users[email] = None
    /\ \A e \in Emails : users[e] # None => users[e].handle # handle
    /\ users' = [users EXCEPT ![email] = [handle |-> handle, password |-> password]]
    /\ request' = [request EXCEPT ![r] = Granted(email, password)]
    /\ UNCHANGED <<tokens, held, now>>

\* An unknown email and a wrong password both answer 401.
Login(r, email, password) ==
    /\ request[r].at = "idle"
    /\ users[email] # None /\ users[email].password = password
    /\ request' = [request EXCEPT ![r] = Granted(email, password)]
    /\ UNCHANGED <<users, tokens, held, now>>

\* Mutant: the pair that is returned lacks the refresh token.
IssueForLoginEmpty(r, t) ==
    /\ request[r].at = "granted" /\ Fresh(t)
    /\ tokens' = [tokens EXCEPT ![t] =
                    [user |-> request[r].user, expires |-> now + RefreshTTL,
                     revoked |-> "no", parent |-> None, session |-> t]]
    /\ request' = [request EXCEPT ![r].at = "stored"]
    /\ UNCHANGED <<users, held, now>>

\* issueTokenPair outside a transaction: the INSERT is committed at once.
IssueForLogin(r, t) ==
    /\ request[r].at = "granted" /\ Fresh(t)
    /\ tokens' = [tokens EXCEPT ![t] =
                    [user |-> request[r].user, expires |-> now + RefreshTTL,
                     revoked |-> "no", parent |-> None, session |-> t]]
    /\ request' = [request EXCEPT ![r].at = "stored", ![r].new = t]
    /\ UNCHANGED <<users, held, now>>

----------------------------------------------------------------------------
(* Refresh *)

\* Mutant: RevokedAt is not looked at.
GetRefreshTokenAnyRow(r, t) ==
    /\ request[r].at = "idle"
    /\ MaySend(t)
    /\ tokens[t] # None /\ now < tokens[t].expires
    /\ request' = [request EXCEPT ![r] = Found(t)]
    /\ UNCHANGED <<users, tokens, held, now>>

\* GetRefreshToken takes no lock.  A missing, revoked or expired row answers 401.
GetRefreshToken(r, t) ==
    /\ request[r].at = "idle"
    /\ MaySend(t)
    /\ Live(t) /\ now < tokens[t].expires
    /\ request' = [request EXCEPT ![r] = Found(t)]
    /\ UNCHANGED <<users, tokens, held, now>>

\* Mutant: the UPDATE runs on s.queries, outside the transaction.
RevokeAtOnce(r) ==
    LET t == request[r].old IN
    /\ request[r].at = "found"
    /\ RowFree(t)
    /\ request' = [request EXCEPT ![r].at = "revoked"]
    /\ tokens' = IF Live(t) THEN [tokens EXCEPT ![t].revoked = "rotated"] ELSE tokens
    /\ UNCHANGED <<users, held, now>>

\* UPDATE ... WHERE revoked_at IS NULL: waits for the row, then looks at it
\* again; that it may match nothing is not noticed.
RevokeRefreshToken(r) ==
    LET t == request[r].old IN
    /\ request[r].at = "found"
    /\ RowFree(t)
    /\ request' = [request EXCEPT ![r].at = "revoked", ![r].stamps = Live(t)]
    /\ UNCHANGED <<users, tokens, held, now>>

IssueForRefresh(r, t) ==
    /\ request[r].at = "revoked" /\ Fresh(t)
    /\ request' = [request EXCEPT ![r].at = "issued", ![r].new = t,
                                  ![r].expires = now + RefreshTTL]
    /\ UNCHANGED <<users, tokens, held, now>>

\* Mutant: Refresh issues a new pair and leaves the old token alone.
CommitRefreshUnstamped(r) ==
    LET q == request[r] IN
    /\ q.at = "issued"
    /\ tokens' = [tokens EXCEPT ![q.new] =
                    [user |-> q.user, expires |-> q.expires, revoked |-> "no",
                     parent |-> q.old, session |-> tokens[q.old].session]]
    /\ request' = [request EXCEPT ![r].at = "stored"]
    /\ UNCHANGED <<users, held, now>>

CommitRefresh(r) ==
    LET q == request[r]
        stamped == IF q.stamps THEN [tokens EXCEPT ![q.old].revoked = "rotated"] ELSE tokens
    IN
    /\ q.at = "issued"
    /\ tokens' = [stamped EXCEPT ![q.new] =
                    [user |-> q.user, expires |-> q.expires, revoked |-> "no",
                     parent |-> q.old, session |-> tokens[q.old].session]]
    /\ request' = [request EXCEPT ![r].at = "stored"]
    /\ UNCHANGED <<users, held, now>>

----------------------------------------------------------------------------
(* The answer, logout, failures and time *)

\* 200 or 201 with the cookies of setAuthCookies.
Answer(r) ==
    /\ request[r].at = "stored"
    /\ held' = held \cup {request[r].new}
    /\ request' = [request EXCEPT ![r] = Idle]
    /\ UNCHANGED <<users, tokens, now>>

\* Mutant: the error of tx.Commit is dropped and the pair returned.
FailCommitIgnored(r) ==
    /\ request[r].at # "idle"
    /\ request' = [request EXCEPT ![r] = IF @.at = "issued" THEN [@ EXCEPT !.at = "stored"] ELSE Idle]
    /\ UNCHANGED <<users, tokens, held, now>>

\* A statement fails (the deferred Rollback undoes an open transaction), the
\* process dies, or the answer of a committed request is lost.
Fail(r) ==
    /\ request[r].at # "idle"
    /\ request' = [request EXCEPT ![r] = Idle]
    /\ UNCHANGED <<users, tokens, held, now>>

\* Mutant: the UPDATE lacks AND revoked_at IS NULL.
LogoutAgain(t) ==
    /\ MaySend(t)
    /\ RowFree(t)
    /\ tokens' = [tokens EXCEPT ![t].revoked = "logged out"]
    /\ UNCHANGED <<users, request, held, now>>

\* One UPDATE in autocommit; for a token that is unknown or already revoked it
\* matches nothing and the answer is 204 all the same.
Logout(t) ==
    /\ MaySend(t)
    /\ RowFree(t)
    /\ Live(t)
    /\ tokens' = [tokens EXCEPT ![t].revoked = "logged out"]
    /\ UNCHANGED <<users, request, held, now>>

Tick ==
    /\ now < EndOfTime
    /\ now' = now + 1
    /\ UNCHANGED <<users, tokens, request, held>>

Statement(r) ==
    \/ \E t \in Tokens : IssueForLogin(r, t) \/ IssueForRefresh(r, t)
    \/ RevokeRefreshToken(r)
    \/ CommitRefresh(r)
    \/ Answer(r)

AuthNext ==
    \/ \E r \in Handlers :
         \/ \E email \in Emails, password \in Passwords :
              \/ Login(r, email, password)
              \/ \E handle \in Handles : Register(r, email, handle, password)
         \/ \E t \in Tokens : GetRefreshToken(r, t)
         \/ Statement(r)
         \/ Fail(r)
    \/ \E t \in Tokens : Logout(t)
    \/ Tick

AuthSpec == AuthInit /\ [][AuthNext]_authVars

----------------------------------------------------------------------------
(* Properties *)

AuthTypeOK ==
    /\ users \in [Emails -> Account \cup {None}]
    /\ tokens \in [Tokens -> TokenRow \cup {None}]
    /\ request \in [Handlers -> Request \cup {Idle}]
    /\ held \subseteq Tokens
    /\ now \in 0 .. EndOfTime

Stored(t) == tokens[t] # None

\* A token a client was given is in the table: Refresh answers only after its
\* commit, and no failure takes back a row that was handed out.
HeldTokensStored == \A t \in held : Stored(t)

\* Rotation is atomic: a token that Refresh revoked has a successor in the
\* table, whatever fails between the two statements.
RotationAtomic ==
    \A t \in Tokens :
        Stored(t) /\ tokens[t].revoked = "rotated" =>
            \E s \in Tokens : Stored(s) /\ tokens[s].parent = t

\* Chains are sound: a token that replaced another belongs to the same user and
\* login, expires no earlier, and what it replaced is revoked.
SuccessorsSound ==
    \A s \in Tokens :
        Stored(s) /\ tokens[s].parent # None =>
            LET old == tokens[tokens[s].parent] IN
            /\ old # None /\ old.revoked # "no"
            /\ tokens[s].user = old.user /\ tokens[s].session = old.session
            /\ tokens[s].expires >= old.expires

\* revoked_at is set once: neither a Logout after a Refresh nor a second
\* Refresh touches a row that is already revoked, and no row goes away.
RevokedForGood ==
    [][\A t \in Tokens :
          Stored(t) => /\ tokens'[t] # None
                       /\ tokens[t].revoked # "no" => tokens'[t] = tokens[t]]_authVars

\* Every login chain began with the password of the account it belongs to: a
\* registration for a taken email never opens a session of its owner.
GrantsAuthentic ==
    \A r \in Handlers :
        request[r].at = "granted" =>
            /\ users[request[r].user] # None
            /\ users[request[r].user].password = request[r].password

\* Used once: no two stored tokens replace the same one.
RotatedOnce ==
    \A s, t \in Tokens :
        Stored(s) /\ Stored(t) /\ tokens[s].parent # None /\ tokens[s].parent = tokens[t].parent
            => s = t

\* A client that waits for its answers has one live token per login.
OneLiveTokenPerSession ==
    \A s, t \in Tokens :
        Live(s) /\ Live(t) /\ Patiently(s) /\ Patiently(t) /\ tokens[s].session = tokens[t].session
            => s = t

\* ... and logging out with it ends that login: nothing of it stays usable.
LogoutEndsSession ==
    \A s, t \in Tokens :
        /\ Stored(s) /\ tokens[s].revoked = "logged out" /\ Patiently(s)
        /\ Live(t) /\ Patiently(t)
        => tokens[t].session # tokens[s].session
=============================================================================
