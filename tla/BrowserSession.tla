---------------------------- MODULE BrowserSession ----------------------------
(***************************************************************************)
(* The session of one browser: the two HttpOnly cookies that all its tabs  *)
(* share, the copy of the user in localStorage, what each page shows, and  *)
(* the calls of apiFetch with the 401, refresh and retry of shared.js.     *)
(*                                                                         *)
(* The server handles a request in one step, except for refresh, which     *)
(* reads the row before it changes it (AuthSessions has every statement).  *)
(* Delivering an answer stores its cookies and runs what the page awaits.  *)
(***************************************************************************)
EXTENDS Integers

CONSTANTS
    Users,
    Tokens,   \* refresh tokens; a value nobody holds any more is drawn again
    Tabs,
    Calls,    \* bound: calls running at a time
    None      \* nobody, no cookie, no row

VARIABLES
    local,    \* the user in localStorage (home-api-session)
    shown,    \* the user the page in each tab shows (state.session)
    jar,      \* the cookies
    tokens,   \* table refresh_tokens
    call,     \* the apiFetch running in each slot
    world     \* whether pages overlap their calls and the network loses any,
              \* and AUTH_MODE of the server

browserVars == <<local, shown, jar, tokens, call, world>>

----------------------------------------------------------------------------
\* An access token is the user it names, a JWT or, in mode dev, "dev:<id>".
Jar == [access : Users \cup {None}, refresh : Tokens \cup {None}]

NoCookies == [access |-> None, refresh |-> None]

TokenRow == [user : Users, live : BOOLEAN]

ASSUME BrowserAssumption == Users \cap Tokens = {} /\ None \notin Users \cup Tokens \cup TokenRow

Idle == [at |-> "idle"]

\* "me": hydrateCurrentUser; "complete": completing a task of one's own, whose
\* answer holds the user; "write": every other call with auth: true.
AuthKinds == {"me", "complete", "write"}

\* The form's login and registration, and the selection of a dev user.
LoginKinds == {"login", "devLogin"}

\* "sent" until the server answers it; "checked": a refresh whose row was read.
\* "first", "refresh" and "retry" are the requests an apiFetch makes in turn.
\* cookie: the one its handler reads.  user, token: what the answer brings (user
\* None: refused); a login on its way has the user whose password was typed.
Call == [at : {"sent", "checked", "answered"}, kind : AuthKinds \cup LoginKinds \cup {"logout"},
         request : {"first", "refresh", "retry"}, tab : Tabs,
         cookie : Users \cup Tokens \cup {None}, user : Users \cup {None},
         token : Tokens \cup {None}]

Sent(kind, request, tab, cookie, user) ==
    [at |-> "sent", kind |-> kind, request |-> request, tab |-> tab, cookie |-> cookie,
     user |-> user, token |-> None]

Running(c) == call[c].at # "idle"

AllIdle == \A c \in Calls : ~Running(c)

Live(t) == t # None /\ tokens[t] # None /\ tokens[t].live

Held(t) == jar.refresh = t \/ \E c \in Calls : Running(c) /\ t \in {call[c].cookie, call[c].token}

\* The rows of tokens that nobody can send any more are left out.
Forget(rows) == tokens' = [t \in Tokens |-> IF Held(t)' THEN rows[t] ELSE None]

\* issueTokenPair
Issue(c, new, rows, user) ==
    /\ ~Held(new)
    /\ call' = [call EXCEPT ![c].at = "answered", ![c].user = user, ![c].token = new]
    /\ tokens' = [rows EXCEPT ![new] = [user |-> user, live |-> TRUE]]

MayStart(c) == ~Running(c) /\ (world.overlap \/ AllIdle)

BrowserInit ==
    /\ local = None
    /\ shown = [tab \in Tabs |-> None]
    /\ jar = NoCookies
    /\ tokens = [t \in Tokens |-> None]
    /\ call = [c \in Calls |-> Idle]
    /\ world \in [overlap : BOOLEAN, lossy : BOOLEAN, mode : {"jwt", "dev"}]

----------------------------------------------------------------------------
(* What people do *)

\* init of a page: readSession, then hydrateCurrentUser if somebody is there.
init(c, tab) ==
    /\ MayStart(c)
    /\ \A d \in Calls : Running(d) => call[d].tab # tab
    /\ shown' = [shown EXCEPT ![tab] = local]
    /\ call' = [call EXCEPT ![c] = IF local = None THEN Idle ELSE Sent("me", "first", tab, jar.access, None)]
    /\ UNCHANGED <<local, jar, tokens, world>>

\* The buttons are there for users who are logged in.
handleWrite(c, tab, kind) ==
    /\ MayStart(c)
    /\ shown[tab] # None
    /\ call' = [call EXCEPT ![c] = Sent(kind, "first", tab, jar.access, None)]
    /\ UNCHANGED <<local, shown, jar, tokens, world>>

\* handleLogin, handleRegister and handleDevLogin.
handleLogin(c, tab, kind, user) ==
    /\ MayStart(c)
    /\ call' = [call EXCEPT ![c] = Sent(kind, "first", tab, None, user)]
    /\ UNCHANGED <<local, shown, jar, tokens, world>>

handleLogout(c, tab) ==
    /\ MayStart(c)
    /\ shown[tab] # None
    /\ call' = [call EXCEPT ![c] = Sent("logout", "first", tab, jar.refresh, None)]
    /\ UNCHANGED <<local, shown, jar, tokens, world>>

----------------------------------------------------------------------------
(* The server *)

Answered(c, user) == call' = [call EXCEPT ![c].at = "answered", ![c].user = user]

\* The middleware accepts the access cookie; a token that arrives too late, when
\* it has expired, is refused like a missing one.
authenticate(c) ==
    LET q == call[c] IN
    /\ q.at = "sent" /\ q.kind \in AuthKinds /\ q.request # "refresh"
    /\ \/ Answered(c, q.cookie)
       \/ world.lossy /\ Answered(c, None)
    /\ UNCHANGED <<local, shown, jar, tokens, world>>

\* The endpoints of localAuthService work in mode jwt only.
login(c) ==
    /\ call[c].at = "sent" /\ call[c].kind = "login"
    /\ \/ world.mode = "jwt" /\ \E t \in Tokens : Issue(c, t, tokens, call[c].user)
       \/ UNCHANGED tokens /\ Answered(c, None)
    /\ UNCHANGED <<local, shown, jar, world>>

\* The user's id, written as a token, is authenticated: in mode dev, if it exists.
devLogin(c) ==
    /\ call[c].at = "sent" /\ call[c].kind = "devLogin"
    /\ \/ world.mode = "dev" /\ Answered(c, call[c].user)
       \/ Answered(c, None)
    /\ UNCHANGED <<local, shown, jar, tokens, world>>

\* Refresh up to the check of the row.
checkRefresh(c) ==
    LET q == call[c] IN
    /\ q.at = "sent" /\ q.request = "refresh"
    /\ IF Live(q.cookie)
         THEN call' = [call EXCEPT ![c].at = "checked"]
         ELSE Answered(c, None)
    /\ UNCHANGED <<local, shown, jar, tokens, world>>

\* Whether the old row is still live is not looked at again.
commitRefresh(c) ==
    LET old == call[c].cookie IN
    /\ call[c].at = "checked"
    /\ \E t \in Tokens : Issue(c, t, [tokens EXCEPT ![old].live = FALSE], tokens[old].user)
    /\ UNCHANGED <<local, shown, jar, world>>

logout(c) ==
    LET t == call[c].cookie IN
    /\ call[c].at = "sent" /\ call[c].kind = "logout"
    /\ tokens' = IF Live(t) THEN [tokens EXCEPT ![t].live = FALSE] ELSE tokens
    /\ Answered(c, None)
    /\ UNCHANGED <<local, shown, jar, world>>

----------------------------------------------------------------------------
(* Answers *)

\* Mutant: the refresh cookie is left as it is.
setAuthCookiesAccess(user, token) == [jar EXCEPT !.access = user]

\* Mutant: the two cookies' names are swapped.
setAuthCookiesSwapped(user, token) == [access |-> token, refresh |-> user]

setAuthCookies(user, token) == [access |-> user, refresh |-> token]

\* devLogin: the access cookie is set, the refresh cookie cleared.
setDevCookies(user) == [access |-> user, refresh |-> None]

\* saveSession and its copies in the other pages; nobody is logged in after a
\* logout or a refused "me".
saveSession(tab, user) ==
    /\ shown' = [shown EXCEPT ![tab] = user]
    /\ local' = user

End(c) ==
    /\ call' = [call EXCEPT ![c] = Idle]
    /\ Forget(tokens)
    /\ UNCHANGED world

\* 401 for the first request of a call with auth: true.
refresh(c) ==
    LET q == call[c] IN
    /\ q.at = "answered" /\ q.kind \in AuthKinds /\ q.request = "first" /\ q.user = None
    /\ call' = [call EXCEPT ![c] = Sent(q.kind, "refresh", q.tab, jar.refresh, None)]
    /\ UNCHANGED <<local, shown, jar, tokens, world>>

\* Mutant: the handler of the refresh sets no cookies.
retryUnset(c) ==
    LET q == call[c] IN
    /\ q.at = "answered" /\ q.request = "refresh" /\ q.user # None
    /\ call' = [call EXCEPT ![c] = Sent(q.kind, "retry", q.tab, q.user, None)]
    /\ UNCHANGED <<local, shown, jar, tokens, world>>

\* The new cookies are stored and the call is made again.
retry(c) ==
    LET q == call[c] IN
    /\ q.at = "answered" /\ q.request = "refresh" /\ q.user # None
    /\ jar' = setAuthCookies(q.user, q.token)
    /\ call' = [call EXCEPT ![c] = Sent(q.kind, "retry", q.tab, q.user, None)]
    /\ Forget(tokens)
    /\ UNCHANGED <<local, shown, world>>

\* Mutant: skipRefresh is forgotten, a refused refresh is refreshed too.
endRefusedAgain(c) ==
    LET q == call[c] IN
    /\ q.at = "answered" /\ q.kind \in AuthKinds /\ q.request # "first" /\ q.user = None
    /\ call' = [call EXCEPT ![c] = Sent(q.kind, "refresh", q.tab, jar.refresh, None)]
    /\ UNCHANGED <<local, shown, jar, tokens, world>>

\* The refresh or the retry is refused: an APIError.  Only hydrateCurrentUser
\* asks isAuthError and forgets the user; that a server in mode dev refuses to
\* refresh (503) is no such error, and the page keeps a user without a cookie.
endRefused(c) ==
    LET q == call[c] IN
    /\ q.at = "answered" /\ q.kind \in AuthKinds /\ q.request # "first" /\ q.user = None
    /\ IF q.kind = "me" /\ (world.mode = "jwt" \/ q.request = "retry")
         THEN saveSession(q.tab, None) ELSE UNCHANGED <<local, shown>>
    /\ UNCHANGED jar
    /\ End(c)

endAccepted(c) ==
    LET q == call[c] IN
    /\ q.at = "answered" /\ q.kind \in AuthKinds /\ q.request # "refresh" /\ q.user # None
    /\ IF q.kind = "write" THEN UNCHANGED <<local, shown>> ELSE saveSession(q.tab, q.user)
    /\ UNCHANGED jar
    /\ End(c)

endLogin(c) ==
    LET q == call[c] IN
    /\ q.at = "answered" /\ q.kind \in LoginKinds
    /\ IF q.user = None
         THEN UNCHANGED <<local, shown, jar>>
         ELSE /\ saveSession(q.tab, q.user)
              /\ jar' = IF q.kind = "login" THEN setAuthCookies(q.user, q.token)
                        ELSE setDevCookies(q.user)
    /\ End(c)

\* Mutant: the handler of the logout clears no cookies.
endLogoutUncleared(c) ==
    /\ call[c].at = "answered" /\ call[c].kind = "logout"
    /\ UNCHANGED jar
    /\ saveSession(call[c].tab, None)
    /\ End(c)

endLogout(c) ==
    /\ call[c].at = "answered" /\ call[c].kind = "logout"
    /\ jar' = NoCookies
    /\ saveSession(call[c].tab, None)
    /\ End(c)

\* The request or its answer is lost, or the server answers 500: fetch throws or
\* apiFetch does.  handleLogout catches that and goes on.
fail(c) ==
    /\ world.lossy
    /\ Running(c)
    /\ IF call[c].kind = "logout" THEN saveSession(call[c].tab, None) ELSE UNCHANGED <<local, shown>>
    /\ UNCHANGED jar
    /\ End(c)

\* Max-Age of the access cookie.
expireAccess ==
    /\ jar.access # None
    /\ jar' = [jar EXCEPT !.access = None]
    /\ UNCHANGED <<local, shown, tokens, call, world>>

\* The refresh cookie and its row expire together, and the access cookie has gone
\* before or goes with them: it is taken to live no longer than the refresh token,
\* as in the documented configurations.
expireRefresh ==
    /\ jar.refresh # None
    /\ jar' = NoCookies
    /\ UNCHANGED <<local, shown, call, world>>
    /\ Forget([tokens EXCEPT ![jar.refresh].live = FALSE])

Serve(c) == authenticate(c) \/ login(c) \/ devLogin(c) \/ checkRefresh(c) \/ commitRefresh(c) \/ logout(c)

Deliver(c) == refresh(c) \/ retry(c) \/ endRefused(c) \/ endAccepted(c) \/ endLogin(c) \/ endLogout(c)

BrowserNext ==
    \/ \E c \in Calls, tab \in Tabs :
         \/ init(c, tab) \/ handleLogout(c, tab)
         \/ \E kind \in AuthKinds \ {"me"} : handleWrite(c, tab, kind)
         \/ \E kind \in LoginKinds, user \in Users : handleLogin(c, tab, kind, user)
    \/ \E c \in Calls : Serve(c) \/ Deliver(c) \/ fail(c)
    \/ expireAccess \/ expireRefresh

BrowserSpec == BrowserInit /\ [][BrowserNext]_browserVars

----------------------------------------------------------------------------
(* Properties *)

BrowserTypeOK ==
    /\ local \in Users \cup {None} /\ shown \in [Tabs -> Users \cup {None}]
    /\ jar \in Jar
    /\ tokens \in [Tokens -> TokenRow \cup {None}]
    /\ call \in [Calls -> Call \cup {Idle}]
    /\ world \in [overlap : BOOLEAN, lossy : BOOLEAN, mode : {"jwt", "dev"}]

\* However the answers of several pages cross: the two cookies never belong to
\* different users, and no access cookie but a dev user's is left without a
\* refresh cookie.
CookiesAgree ==
    world.mode = "jwt" /\ jar.access # None =>
        jar.refresh # None /\ tokens[jar.refresh].user = jar.access

\* As long as no answer is lost, the browser does not sit on a dead refresh
\* token: one that is no longer live is about to be replaced or cleared.
JarUsable ==
    ~world.lossy /\ jar.refresh # None =>
        \/ Live(jar.refresh)
        \/ \E c \in Calls : /\ call[c].at = "answered" /\ call[c].cookie = jar.refresh
                            /\ call[c].kind = "logout" \/ call[c].request = "refresh"

\* When one page at a time works and nothing is lost, the user in localStorage
\* is the one the cookies act for: a logout leaves no cookie, a login no other
\* user, and no page forgets a user whose session is alive.
LocalMatchesJar ==
    ~world.overlap /\ ~world.lossy /\ AllIdle =>
        /\ jar.access # None => local = jar.access
        /\ jar.refresh # None => Live(jar.refresh) /\ tokens[jar.refresh].user = local

\* The requests of a call, in the order apiFetch makes them.
Turn == [first |-> 1, refresh |-> 2, retry |-> 3]

\* apiFetch asks a fourth time for nothing: a call that goes on is a step
\* further with its request or makes a later one, it never starts over.
RequestsInTurn ==
    [][\A c \in Calls :
          Running(c) /\ call'[c] # call[c] /\ call'[c] # Idle =>
            \/ Turn[call'[c].request] > Turn[call[c].request]
            \/ call'[c].request = call[c].request /\ call'[c].at # "sent"]_browserVars

\* "Local logout should still clear stale browser credentials": when a logout
\* is over, no cookie is left.
LogoutClearsCredentials ==
    [][\A c \in Calls :
          Running(c) /\ call[c].kind = "logout" /\ call'[c] = Idle => jar' = NoCookies]_browserVars
=============================================================================
