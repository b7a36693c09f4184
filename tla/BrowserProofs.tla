---------------------------- MODULE BrowserProofs ----------------------------
(***************************************************************************)
(* Proofs about BrowserSession for any number of people, tabs, calls and   *)
(* tokens.  What makes its properties inductive is what is said of calls   *)
(* under way: the token an answer brings is live, belongs to the user it   *)
(* brings, and is known to nobody else yet.                                *)
(***************************************************************************)
EXTENDS BrowserSession, TLAPS

----------------------------------------------------------------------------
\* What the fields of a call have to do with each other.
Fits(q) ==
    /\ q.request = "refresh" \/ q.kind = "logout" => q.cookie \in Tokens \cup {None}
    /\ q.kind \in AuthKinds /\ q.request # "refresh" => q.cookie \in Users \cup {None}
    /\ q.kind \in LoginKinds => q.cookie = None /\ (q.at = "sent" => q.user \in Users)
    /\ q.kind \notin AuthKinds => q.request = "first"
    /\ q.at = "checked" => q.request = "refresh" /\ q.cookie # None
    /\ q.token # None => q.at = "answered" /\ q.user # None
    /\ q.at = "answered" /\ q.user # None /\ (q.kind = "login" \/ q.request = "refresh") =>
         q.token # None

CallsFit == \A c \in Calls : Running(c) => Fits(call[c])

\* Forget forgets nothing that somebody holds.
HeldStored == \A t \in Tokens : Held(t) => tokens[t] # None

\* The token of an answer is new to everybody.
TokensNew ==
    \A c \in Calls :
        Running(c) /\ call[c].token # None =>
            /\ tokens[call[c].token].live /\ tokens[call[c].token].user = call[c].user
            /\ jar.refresh # call[c].token
            /\ \A d \in Calls :
                 Running(d) => /\ call[d].cookie # call[c].token
                               /\ d # c => call[d].token # call[c].token

\* Nobody is logged in by dev login in mode jwt.
DevRefused ==
    world.mode = "jwt" =>
        \A c \in Calls : Running(c) /\ call[c].kind = "devLogin" /\ call[c].at = "answered" =>
                            call[c].user = None

Inv == /\ BrowserTypeOK /\ CallsFit /\ HeldStored /\ TokensNew /\ DevRefused
       /\ CookiesAgree

LEMMA InvInit == BrowserInit => Inv
<1> SUFFICES ASSUME BrowserInit PROVE Inv
    OBVIOUS
<1>1. BrowserTypeOK
    BY DEF BrowserInit, BrowserTypeOK, NoCookies, Jar
<1>2. \A c \in Calls : ~Running(c)
    BY DEF BrowserInit, Running, Idle
<1>3. \A t \in Tokens : ~Held(t)
    BY <1>2, BrowserAssumption DEF BrowserInit, Held, NoCookies
<1>4. QED
    BY <1>1, <1>2, <1>3
    DEF BrowserInit, Inv, CallsFit, HeldStored, TokensNew, DevRefused, CookiesAgree, NoCookies

----------------------------------------------------------------------------
\* A call goes on without a token of its own, or ends; what it brought may have
\* become the cookies.
LEMMA CallMoves ==
    ASSUME Inv, NEW c \in Calls, NEW q \in Call \cup {Idle},
           call' = [call EXCEPT ![c] = q], world' = world, BrowserTypeOK', CookiesAgree',
           q.at # "idle" => /\ Fits(q) /\ q.token = None
                            /\ q.cookie \in Tokens =>
                                 q.cookie \in {jar.refresh} \/ (Running(c) /\ q.cookie = call[c].cookie),
           q.at # "idle" /\ q.kind = "devLogin" /\ q.at = "answered" /\ world.mode = "jwt" =>
               q.user = None,
           jar'.refresh \in {jar.refresh, None} \/ (Running(c) /\ jar'.refresh = call[c].token),
           \A t \in Tokens : Held(t)' => tokens'[t] # None,
           \A d \in Calls \ {c} : Running(d) /\ call[d].token # None =>
               /\ tokens'[call[d].token].live = tokens[call[d].token].live
               /\ tokens'[call[d].token].user = tokens[call[d].token].user
    PROVE  Inv'
<1>0. /\ BrowserTypeOK /\ CallsFit /\ HeldStored /\ TokensNew /\ DevRefused
      /\ call \in [Calls -> Call \cup {Idle}]
    BY DEF Inv, BrowserTypeOK
<1>1. \A d \in Calls : call'[d] = IF d = c THEN q ELSE call[d]
    BY <1>0
<1>2. \A d \in Calls : Running(d)' <=> IF d = c THEN q.at # "idle" ELSE Running(d)
    BY <1>1 DEF Running
<1>3. CallsFit'
    BY <1>0, <1>1, <1>2 DEF CallsFit, Fits
<1>4. HeldStored'
    BY DEF HeldStored
<1>5. DevRefused'
    BY <1>0, <1>1, <1>2 DEF DevRefused
<1>6. TokensNew'
    <2> SUFFICES ASSUME NEW b \in Calls, Running(b)', call'[b].token # None
                 PROVE  /\ tokens'[call'[b].token].live /\ tokens'[call'[b].token].user = call'[b].user
                        /\ jar'.refresh # call'[b].token
                        /\ \A d \in Calls :
                             Running(d)' => /\ call'[d].cookie # call'[b].token
                                            /\ d # b => call'[d].token # call'[b].token
        BY DEF TokensNew
    <2>1. b # c /\ call'[b] = call[b] /\ Running(b)
        BY <1>1, <1>2
    <2>2. call[b].token \in Tokens
        BY <1>0, <2>1 DEF Running, Idle, Call
    <2>3. /\ tokens[call[b].token].live /\ tokens[call[b].token].user = call[b].user
          /\ jar.refresh # call[b].token
          /\ \A d \in Calls :
               Running(d) => /\ call[d].cookie # call[b].token
                             /\ d # b => call[d].token # call[b].token
        BY <1>0, <2>1 DEF TokensNew
    <2>4. jar'.refresh # call[b].token
        BY <2>1, <2>2, <2>3, BrowserAssumption
    <2>5. ASSUME NEW d \in Calls, Running(d)'
          PROVE  call'[d].cookie # call[b].token /\ (d # b => call'[d].token # call[b].token)
        <3>1. CASE d = c
            BY <1>1, <1>2, <2>1, <2>2, <2>3, <2>5, <3>1, BrowserAssumption
        <3>2. CASE d # c
            BY <1>1, <1>2, <2>3, <2>5, <3>2
        <3>3. QED
            BY <3>1, <3>2
    <2>6. QED
        BY <2>1, <2>3, <2>4, <2>5
<1>7. QED
    BY <1>3, <1>4, <1>5, <1>6 DEF Inv
----------------------------------------------------------------------------
\* The tokens that are still held keep their rows.
LEMMA RowsKept ==
    ASSUME BrowserTypeOK, HeldStored, tokens' = tokens \/ Forget(tokens),
           \A t \in Tokens : Held(t)' => Held(t)
    PROVE  /\ tokens' \in [Tokens -> TokenRow \cup {None}]
           /\ \A t \in Tokens : Held(t)' => tokens'[t] = tokens[t] /\ tokens'[t] # None
<1>0. tokens \in [Tokens -> TokenRow \cup {None}]
    BY DEF BrowserTypeOK
<1>1. \A t \in Tokens : Held(t)' => tokens[t] # None
    BY DEF HeldStored
<1>2. CASE tokens' = tokens
    BY <1>0, <1>1, <1>2
<1>3. CASE Forget(tokens)
    <2>1. tokens' = [t \in Tokens |-> IF Held(t)' THEN tokens[t] ELSE None]
        BY <1>3 DEF Forget
    <2>2. QED
        BY <1>0, <1>1, <2>1
<1>4. QED
    BY <1>2, <1>3

\* Almost every step of a call: no row changes, and the cookies stay, are
\* cleared, or become what the answer brings.
LEMMA Moves ==
    ASSUME Inv, NEW c \in Calls, NEW q \in Call \cup {Idle},
           call' = [call EXCEPT ![c] = q], world' = world, tokens' = tokens \/ Forget(tokens),
           local' \in Users \cup {None}, shown' \in [Tabs -> Users \cup {None}],
           q.at # "idle" => /\ Fits(q) /\ q.token = None
                            /\ q.cookie \in Tokens =>
                                 q.cookie = jar.refresh \/ (Running(c) /\ q.cookie = call[c].cookie),
           q.at # "idle" /\ q.kind = "devLogin" /\ q.at = "answered" /\ world.mode = "jwt" =>
               q.user = None,
           \/ jar' = jar
           \/ jar' = NoCookies
           \/ Running(c) /\ call[c].token # None /\ jar' = setAuthCookies(call[c].user, call[c].token)
           \/ world.mode = "dev" /\ Running(c) /\ jar' = setDevCookies(call[c].user)
    PROVE  Inv'
<1>0. /\ BrowserTypeOK /\ CallsFit /\ HeldStored /\ TokensNew /\ CookiesAgree
      /\ call \in [Calls -> Call \cup {Idle}] /\ jar \in Jar
    BY DEF Inv, BrowserTypeOK
<1>1. \A d \in Calls : call'[d] = IF d = c THEN q ELSE call[d]
    BY <1>0
<1>2. \A d \in Calls : Running(d)' <=> IF d = c THEN q.at # "idle" ELSE Running(d)
    BY <1>1 DEF Running
<1>3. Running(c) => call[c].user \in Users \cup {None} /\ call[c].token \in Tokens \cup {None}
    BY <1>0 DEF Running, Call, Idle
<1>4. /\ jar' \in Jar
      /\ jar'.refresh \in {jar.refresh, None} \/ (Running(c) /\ jar'.refresh = call[c].token)
    BY <1>0, <1>3 DEF NoCookies, setAuthCookies, setDevCookies, Jar
<1>5. ASSUME NEW t \in Tokens, Held(t)' PROVE Held(t)
    <2>1. CASE jar'.refresh = t
        BY <1>4, <2>1, BrowserAssumption DEF Held
    <2>2. CASE \E d \in Calls : Running(d)' /\ t \in {call'[d].cookie, call'[d].token}
        <3>1. PICK d \in Calls : Running(d)' /\ t \in {call'[d].cookie, call'[d].token}
            BY <2>2
        <3>2. CASE d = c
            BY <1>1, <1>2, <3>1, <3>2, BrowserAssumption DEF Held
        <3>3. CASE d # c
            BY <1>1, <1>2, <3>1, <3>3 DEF Held
        <3>4. QED
            BY <3>2, <3>3
    <2>3. QED
        BY <1>5, <2>1, <2>2 DEF Held
<1>6. /\ tokens' \in [Tokens -> TokenRow \cup {None}]
      /\ \A t \in Tokens : Held(t)' => tokens'[t] = tokens[t] /\ tokens'[t] # None
    BY <1>0, <1>5, RowsKept
<1>7. BrowserTypeOK'
    BY <1>0, <1>4, <1>6 DEF BrowserTypeOK
<1>8. \A d \in Calls \ {c} : Running(d) /\ call[d].token # None =>
         tokens'[call[d].token] = tokens[call[d].token]
    <2> SUFFICES ASSUME NEW d \in Calls \ {c}, Running(d), call[d].token # None
                 PROVE  tokens'[call[d].token] = tokens[call[d].token]
        OBVIOUS
    <2>1. PICK t \in Tokens : t = call[d].token
        BY <1>0 DEF Running, Call, Idle
    <2>2. Held(t)'
        BY <1>1, <1>2, <2>1 DEF Held
    <2>3. QED
        BY <1>6, <2>1, <2>2
<1>9. CookiesAgree'
    <2> SUFFICES ASSUME world.mode = "jwt", jar'.access # None
                 PROVE  jar'.refresh # None /\ tokens'[jar'.refresh].user = jar'.access
        BY DEF CookiesAgree
    <2>1. CASE jar' = jar
        <3>1. jar.refresh # None /\ tokens[jar.refresh].user = jar.access
            BY <1>0, <2>1 DEF CookiesAgree
        <3>2. jar.refresh \in Tokens /\ Held(jar.refresh)'
            BY <1>0, <2>1, <3>1 DEF Held, Jar
        <3>3. QED
            BY <1>6, <2>1, <3>1, <3>2
    <2>2. CASE Running(c) /\ call[c].token # None /\ jar' = setAuthCookies(call[c].user, call[c].token)
        <3>1. PICK t \in Tokens : t = call[c].token /\ t # None
            BY <1>3, <2>2
        <3>2. tokens[t].user = call[c].user
            BY <1>0, <2>2, <3>1 DEF TokensNew
        <3>3. jar'.refresh = t /\ jar'.access = call[c].user
            BY <2>2, <3>1 DEF setAuthCookies
        <3>4. Held(t)'
            BY <3>3 DEF Held
        <3>5. QED
            BY <1>6, <3>1, <3>2, <3>3, <3>4
    <2>3. QED
        BY <2>1, <2>2 DEF NoCookies
<1>10. \A d \in Calls \ {c} : Running(d) /\ call[d].token # None =>
         /\ tokens'[call[d].token].live = tokens[call[d].token].live
         /\ tokens'[call[d].token].user = tokens[call[d].token].user
    BY <1>8
<1>11. \A t \in Tokens : Held(t)' => tokens'[t] # None
    BY <1>6
<1>12. QED
    BY <1>4, <1>7, <1>9, <1>10, <1>11, CallMoves
----------------------------------------------------------------------------
(* The steps *)

LEMMA SentFits ==
    ASSUME NEW kind, NEW request, NEW tab \in Tabs, NEW cookie, NEW user \in Users \cup {None},
           kind \in AuthKinds \cup LoginKinds \cup {"logout"},
           request \in {"first", "refresh", "retry"}, cookie \in Users \cup Tokens \cup {None},
           request = "refresh" \/ kind = "logout" => cookie \in Tokens \cup {None},
           kind \in AuthKinds /\ request # "refresh" => cookie \in Users \cup {None},
           kind \in LoginKinds => cookie = None /\ user \in Users,
           kind \notin AuthKinds => request = "first"
    PROVE  /\ Sent(kind, request, tab, cookie, user) \in Call
           /\ Fits(Sent(kind, request, tab, cookie, user))
           /\ Sent(kind, request, tab, cookie, user).at = "sent"
           /\ Sent(kind, request, tab, cookie, user).kind = kind
           /\ Sent(kind, request, tab, cookie, user).cookie = cookie
           /\ Sent(kind, request, tab, cookie, user).token = None
BY DEF Sent, Call, Fits

LEMMA StartKeeps ==
    ASSUME Inv, NEW c \in Calls, NEW tab \in Tabs,
           \/ init(c, tab) \/ handleLogout(c, tab)
           \/ \E kind \in AuthKinds \ {"me"} : handleWrite(c, tab, kind)
           \/ \E kind \in LoginKinds, user \in Users : handleLogin(c, tab, kind, user)
    PROVE  Inv'
<1>0. /\ BrowserTypeOK /\ jar.access \in Users \cup {None} /\ jar.refresh \in Tokens \cup {None}
      /\ local \in Users \cup {None} /\ shown \in [Tabs -> Users \cup {None}]
    BY DEF Inv, BrowserTypeOK, Jar
<1>1. CASE init(c, tab)
    <2>1. PICK q : q = IF local = None THEN Idle ELSE Sent("me", "first", tab, jar.access, None)
        OBVIOUS
    <2>2. q \in Call \cup {Idle} /\ (q.at # "idle" =>
            Fits(q) /\ q.token = None /\ q.cookie \notin Tokens /\ q.kind # "devLogin")
        <3>1. Sent("me", "first", tab, jar.access, None) \in Call
            BY <1>0, SentFits, BrowserAssumption DEF AuthKinds, LoginKinds
        <3>2. CASE local = None
            BY <2>1, <3>2 DEF Idle
        <3>3. CASE local # None
            BY <1>0, <2>1, <3>3, SentFits, BrowserAssumption DEF AuthKinds, LoginKinds
        <3>4. QED
            BY <3>2, <3>3
    <2>3. shown' \in [Tabs -> Users \cup {None}]
        BY <1>0, <1>1 DEF init
    <2>4. QED
        BY <1>0, <1>1, <2>1, <2>2, <2>3, Moves DEF init
<1>2. CASE handleLogout(c, tab)
    <2>1. PICK q : q = Sent("logout", "first", tab, jar.refresh, None)
        OBVIOUS
    <2>2. q \in Call /\ Fits(q) /\ q.token = None /\ q.cookie = jar.refresh /\ q.kind = "logout"
        BY <1>0, <2>1, SentFits DEF AuthKinds, LoginKinds
    <2>3. QED
        BY <1>0, <1>2, <2>1, <2>2, Moves DEF handleLogout
<1>3. ASSUME NEW kind \in AuthKinds \ {"me"}, handleWrite(c, tab, kind) PROVE Inv'
    <2>1. PICK q : q = Sent(kind, "first", tab, jar.access, None)
        OBVIOUS
    <2>2. q \in Call /\ Fits(q) /\ q.token = None /\ q.cookie \notin Tokens /\ q.kind # "devLogin"
        BY <1>0, <2>1, SentFits, BrowserAssumption DEF AuthKinds, LoginKinds
    <2>3. QED
        BY <1>0, <1>3, <2>1, <2>2, Moves DEF handleWrite
<1>4. ASSUME NEW kind \in LoginKinds, NEW user \in Users, handleLogin(c, tab, kind, user) PROVE Inv'
    <2>1. PICK q : q = Sent(kind, "first", tab, None, user)
        OBVIOUS
    <2>2. q \in Call /\ Fits(q) /\ q.token = None /\ q.cookie \notin Tokens /\ q.at = "sent"
        BY <1>0, <2>1, SentFits, BrowserAssumption DEF AuthKinds, LoginKinds
    <2>3. QED
        BY <1>0, <1>4, <2>1, <2>2, Moves DEF handleLogin
<1>5. QED
    BY <1>1, <1>2, <1>3, <1>4

Answer(q, user) == [q EXCEPT !.at = "answered", !.user = user]

\* An answer that brings no token.
LEMMA AnsweredFits ==
    ASSUME NEW q \in Call, NEW user \in Users \cup {None}, Fits(q), q.at \in {"sent", "checked"},
           user # None => q.kind # "login" /\ q.request # "refresh"
    PROVE  /\ Answer(q, user) \in Call /\ Fits(Answer(q, user)) /\ Answer(q, user).token = None
           /\ Answer(q, user).cookie = q.cookie /\ Answer(q, user).at = "answered"
           /\ Answer(q, user).kind = q.kind /\ Answer(q, user).user = user
BY DEF Call, Fits, Answer

\* The call of a slot that is not idle.
LEMMA TheCall ==
    ASSUME Inv, NEW c \in Calls, Running(c)
    PROVE  /\ call[c] \in Call /\ Fits(call[c]) /\ call \in [Calls -> Call \cup {Idle}]
           /\ call[c].user \in Users \cup {None} /\ call[c].token \in Tokens \cup {None}
           /\ call[c].tab \in Tabs
           /\ call[c].at = "sent" => call[c].token = None
           /\ local \in Users \cup {None} /\ shown \in [Tabs -> Users \cup {None}]
BY DEF Inv, BrowserTypeOK, Running, Idle, CallsFit, Call, Fits

LEMMA AnswerKeeps ==
    ASSUME Inv, NEW c \in Calls, NEW user \in Users \cup {None}, Running(c),
           call[c].at \in {"sent", "checked"}, Answered(c, user),
           user # None => call[c].kind # "login" /\ call[c].request # "refresh",
           user # None /\ call[c].kind = "devLogin" => world.mode = "dev",
           UNCHANGED <<local, shown, jar, tokens, world>>
    PROVE  Inv'
<1>1. PICK r : r = Answer(call[c], user)
    OBVIOUS
<1>2. /\ r \in Call /\ Fits(r) /\ r.token = None /\ r.cookie = call[c].cookie
      /\ r.at = "answered" /\ r.kind = call[c].kind /\ r.user = user
    <2>1. call[c] \in Call /\ Fits(call[c])
        BY TheCall
    <2>2. QED
        BY <1>1, <2>1, AnsweredFits
<1>3. call' = [call EXCEPT ![c] = r]
    BY <1>1, TheCall DEF Answered, Answer
<1>4. QED
    BY <1>2, <1>3, TheCall, Moves

LEMMA ServeKeeps ==
    ASSUME Inv, NEW c \in Calls, authenticate(c) \/ devLogin(c) \/ checkRefresh(c)
    PROVE  Inv'
<1>0. Running(c)
    BY DEF authenticate, devLogin, checkRefresh, Running
<1>1. CASE authenticate(c)
    <2>1. call[c].cookie \in Users \cup {None} /\ call[c].kind \notin {"login", "devLogin"}
        BY <1>0, <1>1, TheCall DEF authenticate, Fits, AuthKinds
    <2>2. QED
        BY <1>0, <1>1, <2>1, AnswerKeeps DEF authenticate
<1>2. CASE devLogin(c)
    <2>1. call[c].request = "first" /\ call[c].user \in Users \cup {None}
        BY <1>0, <1>2, TheCall DEF devLogin, Fits, AuthKinds
    <2>2. QED
        BY <1>0, <1>2, <2>1, AnswerKeeps DEF devLogin
<1>3. CASE checkRefresh(c)
    <2>1. CASE Live(call[c].cookie)
        <3>1. PICK r : r = [call[c] EXCEPT !.at = "checked"]
            OBVIOUS
        <3>2. call' = [call EXCEPT ![c] = r]
            BY <1>0, <1>3, <2>1, <3>1, TheCall DEF checkRefresh
        <3>3. r \in Call /\ Fits(r) /\ r.token = None /\ r.cookie = call[c].cookie /\ r.at = "checked"
            BY <1>0, <1>3, <2>1, <3>1, TheCall DEF checkRefresh, Live, Call, Fits, LoginKinds
        <3>4. QED
            BY <1>0, <1>3, <3>2, <3>3, TheCall, Moves DEF checkRefresh
    <2>2. CASE ~Live(call[c].cookie)
        BY <1>0, <1>3, <2>2, AnswerKeeps DEF checkRefresh
    <2>3. QED
        BY <2>1, <2>2
<1>4. QED
    BY <1>1, <1>2, <1>3
LEMMA EndKeeps ==
    ASSUME Inv, NEW c \in Calls, End(c),
           local' \in Users \cup {None}, shown' \in [Tabs -> Users \cup {None}],
           \/ jar' = jar
           \/ jar' = NoCookies
           \/ Running(c) /\ call[c].token # None /\ jar' = setAuthCookies(call[c].user, call[c].token)
           \/ world.mode = "dev" /\ Running(c) /\ jar' = setDevCookies(call[c].user)
    PROVE  Inv'
<1>1. Idle \in Call \cup {Idle} /\ Idle.at = "idle"
    BY DEF Idle
<1>2. QED
    BY <1>1, Moves DEF End

LEMMA DeliverKeeps ==
    ASSUME Inv, NEW c \in Calls, Deliver(c) \/ fail(c)
    PROVE  Inv'
<1>0. Running(c)
    BY DEF Deliver, refresh, retry, endRefused, endAccepted, endLogin, endLogout, fail, Running
<1>1. /\ call[c] \in Call /\ Fits(call[c])
      /\ call[c].user \in Users \cup {None} /\ call[c].token \in Tokens \cup {None}
      /\ call[c].tab \in Tabs /\ call[c].kind \in AuthKinds \cup LoginKinds \cup {"logout"}
      /\ local \in Users \cup {None} /\ shown \in [Tabs -> Users \cup {None}]
    BY <1>0, TheCall DEF Call
<1>2. jar.refresh \in Tokens \cup {None}
    BY DEF Inv, BrowserTypeOK, Jar
<1>3. \A user \in Users \cup {None} :
         saveSession(call[c].tab, user) =>
             local' \in Users \cup {None} /\ shown' \in [Tabs -> Users \cup {None}]
    BY <1>1 DEF saveSession
<1>4. CASE refresh(c)
    <2>1. PICK q : q = Sent(call[c].kind, "refresh", call[c].tab, jar.refresh, None)
        OBVIOUS
    <2>2. q \in Call /\ Fits(q) /\ q.token = None /\ q.cookie = jar.refresh /\ q.at = "sent"
        BY <1>1, <1>2, <1>4, <2>1, SentFits DEF refresh, AuthKinds, LoginKinds
    <2>3. QED
        BY <1>1, <1>4, <2>1, <2>2, Moves DEF refresh
<1>5. CASE retry(c)
    <2>1. PICK q : q = Sent(call[c].kind, "retry", call[c].tab, call[c].user, None)
        OBVIOUS
    <2>2. call[c].kind \in AuthKinds /\ call[c].token # None
        BY <1>1, <1>5 DEF retry, Fits
    <2>3. q \in Call /\ Fits(q) /\ q.token = None /\ q.cookie \notin Tokens /\ q.at = "sent"
        BY <1>1, <2>1, <2>2, SentFits, BrowserAssumption DEF AuthKinds, LoginKinds
    <2>4. QED
        BY <1>0, <1>1, <1>5, <2>1, <2>2, <2>3, Moves DEF retry
<1>6. CASE endRefused(c)
    BY <1>1, <1>3, <1>6, EndKeeps DEF endRefused
<1>7. CASE endAccepted(c)
    BY <1>1, <1>3, <1>7, EndKeeps DEF endAccepted
<1>8. CASE endLogin(c)
    <2>1. CASE call[c].user = None
        BY <1>1, <1>8, <2>1, EndKeeps DEF endLogin
    <2>2. CASE call[c].user # None /\ call[c].kind = "login"
        BY <1>0, <1>1, <1>3, <1>8, <2>2, EndKeeps DEF endLogin, Fits
    <2>3. CASE call[c].user # None /\ call[c].kind = "devLogin"
        <3>1. world.mode = "dev"
            BY <1>0, <1>8, <2>3 DEF Inv, DevRefused, BrowserTypeOK, endLogin
        <3>2. QED
            BY <1>0, <1>1, <1>3, <1>8, <2>3, <3>1, EndKeeps DEF endLogin
    <2>4. QED
        BY <1>8, <2>1, <2>2, <2>3 DEF endLogin, LoginKinds
<1>9. CASE endLogout(c)
    BY <1>1, <1>3, <1>9, EndKeeps DEF endLogout
<1>10. CASE fail(c)
    BY <1>1, <1>3, <1>10, EndKeeps DEF fail
<1>11. QED
    BY <1>4, <1>5, <1>6, <1>7, <1>8, <1>9, <1>10 DEF Deliver

\* A row that is no longer live.
LEMMA RowDies ==
    ASSUME NEW rows \in [Tokens -> TokenRow \cup {None}], NEW old \in Tokens, rows[old] # None
    PROVE  LET dead == [rows EXCEPT ![old].live = FALSE] IN
             /\ dead \in [Tokens -> TokenRow \cup {None}]
             /\ \A t \in Tokens \ {old} : dead[t] = rows[t]
             /\ dead[old] # None /\ dead[old].user = rows[old].user /\ dead[old].live = FALSE
<1>1. rows[old] \in TokenRow
    OBVIOUS
<1>2. /\ [rows[old] EXCEPT !.live = FALSE] \in TokenRow
      /\ [rows[old] EXCEPT !.live = FALSE].user = rows[old].user
      /\ [rows[old] EXCEPT !.live = FALSE].live = FALSE
    BY <1>1 DEF TokenRow
<1>3. None \notin TokenRow
    BY BrowserAssumption
<1>4. QED
    BY <1>1, <1>2, <1>3

LEMMA IssueKeeps ==
    ASSUME Inv, NEW c \in Calls, NEW new \in Tokens, NEW user \in Users,
           NEW rows \in [Tokens -> TokenRow \cup {None}], Running(c),
           \A t \in Tokens : t # call[c].cookie => rows[t] = tokens[t],
           \A t \in Tokens : tokens[t] # None => rows[t] # None /\ rows[t].user = tokens[t].user,
           call[c].kind = "login" \/ call[c].request = "refresh",
           Issue(c, new, rows, user), UNCHANGED <<local, shown, jar, world>>
    PROVE  Inv'
<1>0. /\ BrowserTypeOK /\ CallsFit /\ HeldStored /\ TokensNew /\ DevRefused /\ CookiesAgree
      /\ call \in [Calls -> Call \cup {Idle}]
      /\ jar.refresh \in Tokens \cup {None}
    BY DEF Inv, BrowserTypeOK, Jar
<1>1. PICK r : r = [call[c] EXCEPT !.at = "answered", !.user = user, !.token = new]
    OBVIOUS
<1>2. /\ r.cookie = call[c].cookie /\ r.token = new /\ r.user = user /\ r.kind = call[c].kind
      /\ r.at = "answered" /\ r \in Call /\ Fits(r)
    <2>1. call[c] \in Call /\ Fits(call[c])
        BY TheCall
    <2>2. new # None /\ user # None
        BY BrowserAssumption
    <2>3. QED
        BY <1>1, <2>1, <2>2 DEF Call, Fits
<1>3. \A d \in Calls : call'[d] = IF d = c THEN r ELSE call[d]
    BY <1>0, <1>1 DEF Issue
<1>4. \A d \in Calls : Running(d)' <=> Running(d)
    BY <1>2, <1>3 DEF Running
<1>5. \A d \in Calls : Running(d) => call[d].cookie # new /\ call[d].token # new
    BY DEF Issue, Held
<1>6. jar.refresh # new
    BY DEF Issue, Held
<1>7. /\ tokens' \in [Tokens -> TokenRow \cup {None}]
      /\ tokens'[new].live /\ tokens'[new].user = user /\ tokens'[new] # None
      /\ \A t \in Tokens \ {new} : tokens'[t] = rows[t]
    <2>1. [user |-> user, live |-> TRUE] \in TokenRow
        BY DEF TokenRow
    <2>2. [user |-> user, live |-> TRUE] # None
        BY <2>1, BrowserAssumption
    <2>3. QED
        BY <2>1, <2>2 DEF Issue
<1>8. BrowserTypeOK'
    <2>1. call' \in [Calls -> Call \cup {Idle}]
        BY <1>0, <1>1, <1>2 DEF Issue
    <2>2. QED
        BY <1>0, <1>7, <2>1 DEF BrowserTypeOK
<1>9. CallsFit'
    BY <1>0, <1>2, <1>3, <1>4 DEF CallsFit, Fits
<1>10. HeldStored'
    <2> SUFFICES ASSUME NEW t \in Tokens, Held(t)', t # new PROVE tokens'[t] # None
        BY <1>7 DEF HeldStored
    <2>1. Held(t)
        BY <1>2, <1>3, <1>4 DEF Held
    <2>2. QED
        BY <1>0, <1>7, <2>1 DEF HeldStored
<1>11. TokensNew'
    <2> SUFFICES ASSUME NEW b \in Calls, Running(b)', call'[b].token # None
                 PROVE  /\ tokens'[call'[b].token].live /\ tokens'[call'[b].token].user = call'[b].user
                        /\ jar'.refresh # call'[b].token
                        /\ \A d \in Calls :
                             Running(d)' => /\ call'[d].cookie # call'[b].token
                                            /\ d # b => call'[d].token # call'[b].token
        BY DEF TokensNew
    <2>1. CASE b = c
        BY <1>2, <1>3, <1>4, <1>5, <1>6, <1>7, <2>1
    <2>2. CASE b # c
        <3>1. call'[b] = call[b] /\ Running(b)
            BY <1>3, <1>4, <2>2
        <3>2. PICK t \in Tokens : t = call[b].token
            BY <1>0, <3>1 DEF Running, Idle, Call
        <3>3. /\ tokens[t].live /\ tokens[t].user = call[b].user /\ jar.refresh # t
              /\ \A d \in Calls : Running(d) => call[d].cookie # t /\ (d # b => call[d].token # t)
            BY <1>0, <3>1, <3>2 DEF TokensNew
        <3>4. t # new /\ t # call[c].cookie
            BY <1>5, <3>1, <3>2, <3>3
        <3>5. tokens'[t] = tokens[t]
            BY <1>7, <3>4
        <3>6. QED
            BY <1>2, <1>3, <1>4, <3>1, <3>2, <3>3, <3>4, <3>5
    <2>3. QED
        BY <2>1, <2>2
<1>12. DevRefused'
    <2>1. r.kind # "devLogin"
        BY <1>0, <1>2 DEF CallsFit, Fits, AuthKinds
    <2>2. QED
        BY <1>0, <1>3, <1>4, <2>1 DEF DevRefused
<1>13. CookiesAgree'
    <2> SUFFICES ASSUME world.mode = "jwt", jar.access # None
                 PROVE  jar.refresh # None /\ tokens'[jar.refresh].user = jar.access
        BY DEF CookiesAgree
    <2>1. jar.refresh \in Tokens /\ tokens[jar.refresh].user = jar.access /\ jar.refresh # None
        BY <1>0 DEF CookiesAgree
    <2>2. tokens[jar.refresh] # None
        BY <1>0, <2>1 DEF HeldStored, Held
    <2>3. QED
        BY <1>6, <1>7, <2>1, <2>2
<1>14. QED
    BY <1>8, <1>9, <1>10, <1>11, <1>12, <1>13 DEF Inv
LEMMA RowsStored ==
    ASSUME Inv, NEW t \in Tokens, Held(t)
    PROVE  tokens[t] # None /\ tokens[t].user \in Users /\ tokens \in [Tokens -> TokenRow \cup {None}]
BY DEF Inv, BrowserTypeOK, HeldStored, TokenRow

LEMMA LoginKeeps ==
    ASSUME Inv, NEW c \in Calls, login(c)
    PROVE  Inv'
<1>0. Running(c) /\ call[c].at = "sent" /\ call[c].kind = "login"
    BY DEF login, Running
<1>1. call[c].user \in Users /\ tokens \in [Tokens -> TokenRow \cup {None}]
    BY <1>0, TheCall DEF Fits, LoginKinds, Inv, BrowserTypeOK
<1>2. ASSUME NEW t \in Tokens, Issue(c, t, tokens, call[c].user) PROVE Inv'
    BY <1>0, <1>1, <1>2, IssueKeeps DEF login
<1>3. CASE UNCHANGED tokens /\ Answered(c, None)
    BY <1>0, <1>3, AnswerKeeps DEF login
<1>4. QED
    BY <1>2, <1>3 DEF login

LEMMA CommitKeeps ==
    ASSUME Inv, NEW c \in Calls, commitRefresh(c)
    PROVE  Inv'
<1>0. /\ Running(c) /\ call[c].at = "checked" /\ call[c].request = "refresh"
      /\ call[c].cookie \in Tokens
    <2>1. Running(c) /\ call[c].at = "checked"
        BY DEF commitRefresh, Running
    <2>2. QED
        BY <2>1, TheCall DEF Fits
<1>1. PICK old \in Tokens : old = call[c].cookie
    BY <1>0
<1>2. /\ tokens[old] # None /\ tokens[old].user \in Users
      /\ tokens \in [Tokens -> TokenRow \cup {None}]
    BY <1>0, <1>1, RowsStored DEF Held
<1>3. PICK rows : rows = [tokens EXCEPT ![old].live = FALSE]
    OBVIOUS
<1>4. /\ rows \in [Tokens -> TokenRow \cup {None}]
      /\ \A t \in Tokens : t # call[c].cookie => rows[t] = tokens[t]
      /\ \A t \in Tokens : tokens[t] # None => rows[t] # None /\ rows[t].user = tokens[t].user
    <2>1. /\ rows \in [Tokens -> TokenRow \cup {None}]
          /\ \A t \in Tokens \ {old} : rows[t] = tokens[t]
          /\ rows[old] # None /\ rows[old].user = tokens[old].user
        BY <1>2, <1>3, RowDies
    <2>2. QED
        BY <1>1, <2>1
<1>5. PICK t \in Tokens : Issue(c, t, rows, tokens[old].user)
    BY <1>1, <1>3 DEF commitRefresh
<1>6. QED
    BY <1>0, <1>2, <1>4, <1>5, IssueKeeps DEF commitRefresh

LEMMA LogoutKeeps ==
    ASSUME Inv, NEW c \in Calls, logout(c)
    PROVE  Inv'
<1>0. Running(c) /\ call[c].at = "sent" /\ call[c].kind = "logout"
    BY DEF logout, Running
<1>1. PICK t \in Tokens \cup {None} : t = call[c].cookie
    BY <1>0, TheCall DEF Fits
<1>2. CASE ~Live(t)
    BY <1>0, <1>1, <1>2, AnswerKeeps DEF logout
<1>3. CASE Live(t)
    <2>1. t \in Tokens /\ tokens[t] # None /\ tokens \in [Tokens -> TokenRow \cup {None}]
        BY <1>1, <1>3 DEF Live, Inv, BrowserTypeOK
    <2>2. tokens' = [tokens EXCEPT ![t].live = FALSE]
        BY <1>1, <1>3 DEF logout
    <2>3. /\ tokens' \in [Tokens -> TokenRow \cup {None}]
          /\ \A s \in Tokens \ {t} : tokens'[s] = tokens[s]
          /\ tokens'[t] # None /\ tokens'[t].user = tokens[t].user
        BY <2>1, <2>2, RowDies
    <2>4. PICK r : r = Answer(call[c], None)
        OBVIOUS
    <2>5. /\ r \in Call /\ Fits(r) /\ r.token = None /\ r.cookie = call[c].cookie
          /\ r.at = "answered" /\ r.kind = call[c].kind
        BY <1>0, <2>4, TheCall, AnsweredFits
    <2>6. call' = [call EXCEPT ![c] = r]
        BY <2>4, <1>0, TheCall DEF logout, Answered, Answer
    <2>7. /\ BrowserTypeOK /\ HeldStored /\ TokensNew /\ CookiesAgree
          /\ call \in [Calls -> Call \cup {Idle}] /\ jar \in Jar
        BY DEF Inv, BrowserTypeOK
    <2>8. BrowserTypeOK'
        BY <2>3, <2>5, <2>6, <2>7 DEF BrowserTypeOK, logout
    <2>9. CookiesAgree'
        BY <2>3, <2>7 DEF CookiesAgree, logout, Jar
    <2>10. \A s \in Tokens : Held(s)' => Held(s)
        BY <1>0, <2>5, <2>6, <2>7, BrowserAssumption DEF Held, Running, logout
    <2>11. \A s \in Tokens : Held(s)' => tokens'[s] # None
        BY <2>3, <2>7, <2>10 DEF HeldStored
    <2>12. ASSUME NEW d \in Calls \ {c}, Running(d), call[d].token # None
           PROVE  tokens'[call[d].token] = tokens[call[d].token]
        <3>1. call[d].token \in Tokens
            BY <2>7, <2>12 DEF Running, Idle, Call
        <3>2. call[d].token # t
            BY <1>0, <1>1, <2>7, <2>12 DEF TokensNew
        <3>3. QED
            BY <2>3, <3>1, <3>2
    <2>13. world' = world /\ jar' = jar
        BY DEF logout
    <2>14. QED
        BY <1>0, <2>5, <2>6, <2>8, <2>9, <2>11, <2>12, <2>13, CallMoves
<1>4. QED
    BY <1>2, <1>3

LEMMA ExpireAccessKeeps ==
    ASSUME Inv, expireAccess
    PROVE  Inv'
<1>1. jar \in Jar /\ jar' = [jar EXCEPT !.access = None] /\ UNCHANGED <<local, shown, tokens, call, world>>
    BY DEF Inv, BrowserTypeOK, expireAccess
<1>2. jar' \in Jar /\ jar'.access = None /\ jar'.refresh = jar.refresh
    BY <1>1 DEF Jar
<1>3. \A t \in Tokens : Held(t)' <=> Held(t)
    BY <1>1, <1>2 DEF Held, Running
<1>4. BrowserTypeOK'
    BY <1>1, <1>2 DEF Inv, BrowserTypeOK
<1>5. CallsFit' /\ DevRefused'
    BY <1>1 DEF Inv, CallsFit, DevRefused, Running
<1>6. HeldStored'
    BY <1>1, <1>3 DEF Inv, HeldStored
<1>7. TokensNew'
    BY <1>1, <1>2 DEF Inv, TokensNew, Running
<1>8. CookiesAgree'
    BY <1>2 DEF CookiesAgree
<1>9. QED
    BY <1>4, <1>5, <1>6, <1>7, <1>8 DEF Inv

LEMMA ExpireRefreshKeeps ==
    ASSUME Inv, expireRefresh
    PROVE  Inv'
<1>1. /\ jar \in Jar /\ jar.refresh # None /\ jar' = NoCookies
      /\ UNCHANGED <<local, shown, call, world>>
    BY DEF Inv, BrowserTypeOK, expireRefresh
<1>2. PICK old \in Tokens : old = jar.refresh
    BY <1>1 DEF Jar
<1>3. tokens[old] # None /\ tokens \in [Tokens -> TokenRow \cup {None}]
    BY <1>2, RowsStored DEF Held
<1>4. PICK dead : dead = [tokens EXCEPT ![old].live = FALSE]
    OBVIOUS
<1>5. /\ dead \in [Tokens -> TokenRow \cup {None}]
      /\ \A t \in Tokens \ {old} : dead[t] = tokens[t]
      /\ dead[old] # None
    BY <1>3, <1>4, RowDies
<1>6. tokens' = [t \in Tokens |-> IF Held(t)' THEN dead[t] ELSE None]
    BY <1>2, <1>4 DEF expireRefresh, Forget
<1>7. \A t \in Tokens : Held(t)' => Held(t)
    BY <1>1, BrowserAssumption DEF Held, Running, NoCookies
<1>8. jar' \in Jar /\ jar'.refresh = None /\ jar'.access = None
    BY <1>1 DEF Jar, NoCookies
<1>9. BrowserTypeOK'
    BY <1>1, <1>5, <1>6, <1>8 DEF Inv, BrowserTypeOK
<1>10. CallsFit' /\ DevRefused'
    BY <1>1 DEF Inv, CallsFit, DevRefused, Running
<1>11. HeldStored'
    BY <1>5, <1>6, <1>7 DEF Inv, HeldStored
<1>12. TokensNew'
    <2> SUFFICES ASSUME NEW b \in Calls, Running(b), call[b].token # None
                 PROVE  /\ tokens'[call[b].token].live /\ tokens'[call[b].token].user = call[b].user
                        /\ jar'.refresh # call[b].token
                        /\ \A d \in Calls :
                             Running(d) => /\ call[d].cookie # call[b].token
                                           /\ d # b => call[d].token # call[b].token
        BY <1>1 DEF TokensNew, Running
    <2>1. PICK t \in Tokens : t = call[b].token
        BY DEF Inv, BrowserTypeOK, Running, Idle, Call
    <2>2. /\ tokens[t].live /\ tokens[t].user = call[b].user /\ jar.refresh # t
          /\ \A d \in Calls : Running(d) => call[d].cookie # t /\ (d # b => call[d].token # t)
        BY <2>1 DEF Inv, TokensNew
    <2>3. Held(t)'
        BY <1>1, <2>1 DEF Held, Running
    <2>4. tokens'[t] = tokens[t]
        BY <1>2, <1>5, <1>6, <2>2, <2>3
    <2>5. QED
        BY <1>8, <2>1, <2>2, <2>4
<1>13. CookiesAgree'
    BY <1>8 DEF CookiesAgree
<1>14. QED
    BY <1>9, <1>10, <1>11, <1>12, <1>13 DEF Inv

LEMMA InvStep == Inv /\ [BrowserNext]_browserVars => Inv'
<1> SUFFICES ASSUME Inv, [BrowserNext]_browserVars PROVE Inv'
    OBVIOUS
<1>1. CASE BrowserNext
    <2>1. ASSUME NEW c \in Calls, Serve(c) PROVE Inv'
        BY <2>1, ServeKeeps, LoginKeeps, CommitKeeps, LogoutKeeps DEF Serve
    <2>2. ASSUME NEW c \in Calls, Deliver(c) \/ fail(c) PROVE Inv'
        BY <2>2, DeliverKeeps
    <2>3. ASSUME NEW c \in Calls, NEW tab \in Tabs,
                 \/ init(c, tab) \/ handleLogout(c, tab)
                 \/ \E kind \in AuthKinds \ {"me"} : handleWrite(c, tab, kind)
                 \/ \E kind \in LoginKinds, user \in Users : handleLogin(c, tab, kind, user)
          PROVE  Inv'
        BY <2>3, StartKeeps
    <2>4. QED
        BY <1>1, <2>1, <2>2, <2>3, ExpireAccessKeeps, ExpireRefreshKeeps DEF BrowserNext
<1>2. CASE UNCHANGED browserVars
    BY <1>2 DEF browserVars, Inv, BrowserTypeOK, CallsFit, HeldStored, TokensNew, DevRefused,
                CookiesAgree, Running, Held
<1>3. QED
    BY <1>1, <1>2

\* The variables keep their types: cookies hold users and tokens, every call is
\* one apiFetch makes (setAuthCookies, apiFetch).
THEOREM BrowserTypes == BrowserSpec => []BrowserTypeOK
<1>1. Inv => BrowserTypeOK
    BY DEF Inv
<1>2. QED
    BY <1>1, InvInit, InvStep, PTL DEF BrowserSpec

\* With accounts, however the logins, refreshes, logouts and expiries of any
\* number of pages cross and get lost: the two cookies belong to one user
\* (setAuthCookies, issueTokenPair).
THEOREM CookiesBelongTogether == BrowserSpec => []CookiesAgree
<1>1. Inv => CookiesAgree
    BY DEF Inv
<1>2. QED
    BY <1>1, InvInit, InvStep, PTL DEF BrowserSpec
----------------------------------------------------------------------------
(* The refresh cookie stays usable *)

\* The answer that is about to replace or clear the refresh cookie.
Replaces(q) ==
    /\ q.at = "answered" /\ q.cookie = jar.refresh
    /\ q.kind = "logout" \/ (q.request = "refresh" /\ q.user # None)

Usable ==
    ~world.lossy /\ jar.refresh # None =>
        tokens[jar.refresh].live \/ \E c \in Calls : Running(c) /\ Replaces(call[c])

LEMMA UsableKept ==
    ASSUME Inv, Usable, NEW c \in Calls, NEW q, call' = [call EXCEPT ![c] = q],
           Running(c) => ~Replaces(call[c]), UNCHANGED <<jar, world>>,
           jar.refresh # None => tokens'[jar.refresh].live = tokens[jar.refresh].live
    PROVE  Usable'
<1> SUFFICES ASSUME ~world.lossy, jar.refresh # None, ~tokens[jar.refresh].live
             PROVE  \E d \in Calls : Running(d)' /\ Replaces(call[d])'
    BY DEF Usable
<1>1. PICK d \in Calls : Running(d) /\ Replaces(call[d])
    BY DEF Usable
<1>2. call'[d] = call[d]
    BY <1>1 DEF Inv, BrowserTypeOK
<1>3. QED
    BY <1>1, <1>2 DEF Running, Replaces

\* The row of the cookie survives what is forgotten.
LEMMA CookieRowKept ==
    ASSUME Inv, jar' = jar, tokens' = tokens \/ Forget(tokens), jar.refresh # None
    PROVE  tokens'[jar.refresh] = tokens[jar.refresh]
BY DEF Inv, BrowserTypeOK, Jar, Forget, Held

\* New cookies are those of an answer, whose token is live.
LEMMA UsableNew ==
    ASSUME Inv, NEW c \in Calls, Running(c), call[c].token # None, Forget(tokens),
           jar' = setAuthCookies(call[c].user, call[c].token)
    PROVE  Usable'
<1>1. PICK t \in Tokens : t = call[c].token
    BY TheCall
<1>2. jar'.refresh = t /\ tokens[t].live
    BY <1>1 DEF Inv, TokensNew, setAuthCookies
<1>3. Held(t)'
    BY <1>2 DEF Held
<1>4. tokens'[t] = tokens[t]
    BY <1>3 DEF Forget
<1>5. QED
    BY <1>2, <1>4 DEF Usable

LEMMA UsableServe ==
    ASSUME Inv, Usable, NEW c \in Calls, Serve(c)
    PROVE  Usable'
<1>0. Running(c) /\ call[c].at # "answered" /\ call \in [Calls -> Call \cup {Idle}]
    BY DEF Serve, authenticate, login, devLogin, checkRefresh, commitRefresh, logout, Running,
           Inv, BrowserTypeOK
<1>1. ~Replaces(call[c]) /\ jar' = jar /\ world' = world
    BY <1>0 DEF Replaces, Serve, authenticate, login, devLogin, checkRefresh, commitRefresh, logout
<1>2. CASE authenticate(c) \/ devLogin(c) \/ checkRefresh(c)
    BY <1>0, <1>1, <1>2, UsableKept DEF authenticate, devLogin, checkRefresh, Answered
<1>3. CASE login(c)
    <2>1. ASSUME NEW t \in Tokens, Issue(c, t, tokens, call[c].user) PROVE Usable'
        <3>1. jar.refresh # t
            BY <2>1 DEF Issue, Held
        <3>2. jar.refresh # None => tokens'[jar.refresh] = tokens[jar.refresh]
            BY <2>1, <3>1 DEF Issue, Inv, BrowserTypeOK, Jar
        <3>3. QED
            BY <1>1, <2>1, <3>2, UsableKept DEF Issue
    <2>2. CASE UNCHANGED tokens /\ Answered(c, None)
        BY <1>1, <2>2, UsableKept DEF Answered
    <2>3. QED
        BY <1>3, <2>1, <2>2 DEF login
<1>4. CASE commitRefresh(c)
    <2>1. call[c].cookie \in Tokens /\ call[c].request = "refresh" /\ call[c].kind \in AuthKinds
        BY <1>0, <1>4, TheCall DEF commitRefresh, Fits
    <2>2. PICK old \in Tokens : old = call[c].cookie
        BY <2>1
    <2>3. tokens[old].user \in Users /\ tokens[old] # None /\ tokens \in [Tokens -> TokenRow \cup {None}]
        BY <1>0, <2>2, RowsStored DEF Held
    <2>4. PICK t \in Tokens : Issue(c, t, [tokens EXCEPT ![old].live = FALSE], tokens[old].user)
        BY <1>4, <2>2 DEF commitRefresh
    <2>5. CASE jar.refresh = old
        <3>1. /\ call'[c].at = "answered" /\ call'[c].user = tokens[old].user
              /\ call'[c].request = "refresh" /\ call'[c].cookie = old
            <4>1. call[c] \in Call
                BY <1>0, TheCall
            <4>2. QED
                BY <1>0, <2>1, <2>2, <2>4, <4>1 DEF Issue, Call
        <3>2. Running(c)' /\ Replaces(call[c])'
            BY <1>1, <2>3, <2>5, <3>1, BrowserAssumption DEF Running, Replaces
        <3>3. QED
            BY <3>2 DEF Usable
    <2>6. CASE jar.refresh # old
        <3>1. jar.refresh # t
            BY <2>4 DEF Issue, Held
        <3>2. jar.refresh # None => tokens'[jar.refresh] = tokens[jar.refresh]
            BY <2>3, <2>4, <2>6, <3>1 DEF Issue, Inv, BrowserTypeOK, Jar
        <3>3. QED
            BY <1>1, <2>4, <3>2, UsableKept DEF Issue
    <2>7. QED
        BY <2>5, <2>6
<1>5. CASE logout(c)
    <2>1. Answered(c, None) /\ call[c].kind = "logout"
        BY <1>5 DEF logout
    <2>2. call'[c].at = "answered" /\ call'[c].kind = "logout" /\ call'[c].cookie = call[c].cookie
        <3>1. call[c] \in Call
            BY <1>0, TheCall
        <3>2. QED
            BY <1>0, <2>1, <3>1 DEF Answered, Call
    <2>3. CASE jar.refresh = call[c].cookie
        <3>1. Running(c)' /\ Replaces(call[c])'
            BY <1>1, <2>2, <2>3 DEF Running, Replaces
        <3>2. QED
            BY <3>1 DEF Usable
    <2>4. CASE jar.refresh # call[c].cookie
        <3>1. jar.refresh # None => tokens'[jar.refresh] = tokens[jar.refresh]
            BY <1>5, <2>4 DEF logout, Inv, BrowserTypeOK, Jar
        <3>2. QED
            BY <1>1, <2>1, <3>1, UsableKept DEF Answered
    <2>5. QED
        BY <2>3, <2>4
<1>6. QED
    BY <1>2, <1>3, <1>4, <1>5 DEF Serve

LEMMA UsableDeliver ==
    ASSUME Inv, Usable, NEW c \in Calls, Deliver(c) \/ fail(c)
    PROVE  Usable'
<1>0. Running(c) /\ call[c].kind \notin AuthKinds => call[c].request = "first"
    BY TheCall DEF Fits
<1>1. CASE refresh(c)
    BY <1>1, UsableKept DEF refresh, Replaces, AuthKinds
<1>2. CASE retry(c)
    <2>1. Running(c) /\ call[c].token # None
        BY <1>2, TheCall DEF retry, Running, Fits
    <2>2. QED
        BY <1>2, <2>1, UsableNew DEF retry
<1>3. CASE endRefused(c)
    BY <1>3, UsableKept, CookieRowKept DEF endRefused, End, Replaces, AuthKinds
<1>4. CASE endAccepted(c)
    BY <1>4, UsableKept, CookieRowKept DEF endAccepted, End, Replaces, AuthKinds
<1>5. CASE endLogin(c)
    <2>1. Running(c) /\ call[c].at = "answered" /\ call[c].kind \in LoginKinds
        BY <1>5 DEF endLogin, Running
    <2>2. CASE call[c].user = None
        BY <1>5, <2>1, <2>2, UsableKept, CookieRowKept DEF endLogin, End, Replaces, LoginKinds
    <2>3. CASE call[c].user # None /\ call[c].kind = "login"
        <3>1. call[c].token # None
            BY <2>1, <2>3, TheCall DEF Fits
        <3>2. QED
            BY <1>5, <2>1, <2>3, <3>1, UsableNew DEF endLogin, End
    <2>4. CASE call[c].user # None /\ call[c].kind # "login"
        BY <1>5, <2>4 DEF endLogin, setDevCookies, Usable
    <2>5. QED
        BY <2>2, <2>3, <2>4
<1>6. CASE endLogout(c)
    BY <1>6 DEF endLogout, NoCookies, Usable
<1>7. CASE fail(c)
    BY <1>7 DEF fail, End, Usable
<1>8. QED
    BY <1>1, <1>2, <1>3, <1>4, <1>5, <1>6, <1>7 DEF Deliver

LEMMA UsableStep == Inv /\ Usable /\ [BrowserNext]_browserVars => Usable'
<1> SUFFICES ASSUME Inv, Usable, [BrowserNext]_browserVars PROVE Usable'
    OBVIOUS
<1>1. ASSUME NEW c \in Calls, NEW tab \in Tabs,
             \/ init(c, tab) \/ handleLogout(c, tab)
             \/ \E kind \in AuthKinds \ {"me"} : handleWrite(c, tab, kind)
             \/ \E kind \in LoginKinds, user \in Users : handleLogin(c, tab, kind, user)
      PROVE  Usable'
    <2>1. ~Running(c) /\ UNCHANGED <<jar, tokens, world>>
        BY <1>1 DEF init, handleLogout, handleWrite, handleLogin, MayStart
    <2>2. PICK q : call' = [call EXCEPT ![c] = q]
        BY <1>1 DEF init, handleLogout, handleWrite, handleLogin
    <2>3. QED
        BY <2>1, <2>2, UsableKept
<1>2. CASE expireAccess
    BY <1>2 DEF expireAccess, Usable, Running, Replaces, Inv, BrowserTypeOK, Jar
<1>3. CASE expireRefresh
    BY <1>3 DEF expireRefresh, NoCookies, Usable
<1>4. CASE UNCHANGED browserVars
    BY <1>4 DEF browserVars, Usable, Running, Replaces
<1>5. QED
    BY <1>1, <1>2, <1>3, <1>4, UsableServe, UsableDeliver DEF BrowserNext

\* On a network that loses nothing: whatever several pages do at once, a
\* refresh cookie that is no longer live is about to be replaced or cleared
\* (apiFetch, Refresh, Logout).
THEOREM RefreshStaysUsable == BrowserSpec => []JarUsable
<1>1. BrowserInit => Usable
    BY DEF BrowserInit, Usable, NoCookies
<1>2. Inv /\ Usable => JarUsable
    <2> SUFFICES ASSUME Inv, Usable, ~world.lossy, jar.refresh # None PROVE JarUsable
        BY DEF JarUsable
    <2>1. CASE tokens[jar.refresh].live
        <3>1. tokens[jar.refresh] # None
            BY RowsStored DEF Inv, BrowserTypeOK, Jar, Held
        <3>2. QED
            BY <2>1, <3>1 DEF JarUsable, Live
    <2>2. CASE \E c \in Calls : Running(c) /\ Replaces(call[c])
        BY <2>2 DEF JarUsable, Replaces
    <2>3. QED
        BY <2>1, <2>2 DEF Usable
<1>3. QED
    BY <1>1, <1>2, InvInit, InvStep, UsableStep, PTL DEF BrowserSpec

----------------------------------------------------------------------------
(* One page at a time *)

\* What the call under way means for the page and the cookies when no other
\* one runs and nothing is lost.
Follows(q) ==
    /\ q.kind \in AuthKinds /\ q.request # "refresh" /\ q.cookie # None => q.cookie = local
    /\ q.kind \in AuthKinds /\ q.request = "first" /\ q.cookie = None => jar.access = None
    /\ q.request = "retry" => q.cookie # None
    /\ q.kind \in AuthKinds /\ q.at = "answered" =>
         IF q.user # None THEN q.user = local
         ELSE (q.request # "refresh" => q.cookie = None) /\ (q.request = "refresh" => jar.refresh = None)
    /\ q.request = "refresh" =>
         /\ jar.access = None /\ jar.refresh \in {None, q.cookie}
         /\ q.cookie # None => tokens[q.cookie].user = local

CookiesMatch ==
    /\ jar.access # None => local = jar.access
    /\ jar.refresh # None => tokens[jar.refresh].user = local

Serial ==
    ~world.overlap /\ ~world.lossy =>
        /\ CookiesMatch
        /\ \A c \in Calls : Running(c) => Follows(call[c]) /\ \A d \in Calls : Running(d) => d = c

LEMMA SerialMoves ==
    ASSUME Inv, Serial, NEW c \in Calls, NEW q, call' = [call EXCEPT ![c] = q],
           world' = world, ~world.overlap, ~world.lossy, Running(c) \/ AllIdle,
           CookiesMatch', q.at # "idle" => Follows(q)'
    PROVE  Serial'
<1>1. \A d \in Calls : call'[d] = IF d = c THEN q ELSE call[d]
    BY DEF Inv, BrowserTypeOK
<1>2. \A d \in Calls : Running(d)' => d = c /\ q.at # "idle"
    BY <1>1 DEF Running, Serial, AllIdle
<1>3. \A d \in Calls : Running(d)' => Follows(call[d])'
    BY <1>1, <1>2 DEF Follows
<1>4. QED
    BY <1>2, <1>3 DEF Serial

\* What is known of the only call.
LEMMA Alone ==
    ASSUME Inv, Serial, ~world.overlap, ~world.lossy, NEW c \in Calls, Running(c)
    PROVE  /\ Follows(call[c]) /\ CookiesMatch /\ \A d \in Calls : Running(d) => d = c
           /\ call[c] \in Call /\ Fits(call[c])
BY TheCall DEF Serial

LEMMA SerialStart ==
    ASSUME Inv, Serial, NEW c \in Calls, NEW tab \in Tabs, ~world.overlap, ~world.lossy,
           \/ init(c, tab) \/ handleLogout(c, tab)
           \/ \E kind \in AuthKinds \ {"me"} : handleWrite(c, tab, kind)
           \/ \E kind \in LoginKinds, user \in Users : handleLogin(c, tab, kind, user)
    PROVE  Serial'
<1>0. AllIdle /\ UNCHANGED <<local, jar, tokens, world>> /\ CookiesMatch
    BY DEF init, handleLogout, handleWrite, handleLogin, MayStart, Serial
<1>1. CookiesMatch'
    BY <1>0 DEF CookiesMatch
<1>2. ASSUME NEW kind \in AuthKinds
      PROVE  Follows(Sent(kind, "first", tab, jar.access, None))
    BY <1>0 DEF Follows, Sent, CookiesMatch
<1>3. ASSUME NEW kind \in LoginKinds \cup {"logout"}, NEW cookie, NEW user
      PROVE  Follows(Sent(kind, "first", tab, cookie, user))
    BY DEF Follows, Sent, LoginKinds, AuthKinds
<1>4. PICK q : call' = [call EXCEPT ![c] = q] /\ (q.at # "idle" => Follows(q))
    BY <1>2, <1>3 DEF init, handleLogout, handleWrite, handleLogin, Idle, AuthKinds
<1>5. q.at # "idle" => Follows(q)'
    BY <1>0, <1>4 DEF Follows
<1>6. QED
    BY <1>0, <1>1, <1>4, <1>5, SerialMoves

LEMMA SerialAnswer ==
    ASSUME Inv, Serial, NEW c \in Calls, NEW user \in Users \cup {None}, Running(c),
           ~world.overlap, ~world.lossy, Answered(c, user), UNCHANGED <<local, jar, world>>,
           jar.refresh # None => tokens'[jar.refresh].user = tokens[jar.refresh].user,
           call[c].request = "refresh" /\ call[c].cookie # None =>
               tokens'[call[c].cookie].user = tokens[call[c].cookie].user,
           call[c].kind \in AuthKinds =>
               IF user # None THEN user = local
               ELSE /\ call[c].request # "refresh" => call[c].cookie = None
                    /\ call[c].request = "refresh" => jar.refresh = None
    PROVE  Serial'
<1>1. PICK r : r = Answer(call[c], user)
    OBVIOUS
<1>2. call' = [call EXCEPT ![c] = r]
    BY <1>1, TheCall DEF Answered, Answer
<1>3. /\ r.at = "answered" /\ r.user = user /\ r.kind = call[c].kind
      /\ r.request = call[c].request /\ r.cookie = call[c].cookie
    BY <1>1, TheCall DEF Answer, Call
<1>4. CookiesMatch'
    BY Alone DEF CookiesMatch
<1>5. Follows(r)'
    BY <1>3, Alone DEF Follows
<1>6. QED
    BY <1>2, <1>4, <1>5, SerialMoves

\* A refresh that is refused has no cookie left to find.
LEMMA RefusedForGood ==
    ASSUME Inv, Usable, Serial, NEW c \in Calls, Running(c), ~world.overlap, ~world.lossy,
           call[c].at = "sent", call[c].request = "refresh", ~Live(call[c].cookie)
    PROVE  jar.refresh = None
<1> SUFFICES ASSUME jar.refresh # None PROVE FALSE
    OBVIOUS
<1>1. call[c].cookie = jar.refresh
    BY Alone DEF Follows
<1>2. jar.refresh \in Tokens /\ tokens[jar.refresh] # None
    BY RowsStored DEF Inv, BrowserTypeOK, Jar, Held
<1>3. tokens[jar.refresh].live
    BY Alone DEF Usable, Replaces
<1>4. QED
    BY <1>1, <1>2, <1>3 DEF Live

\* What an issued pair leaves as it is, and what its answer says.
LEMMA SerialIssue ==
    ASSUME Inv, Serial, NEW c \in Calls, Running(c), ~world.overlap, ~world.lossy,
           NEW new \in Tokens, NEW user \in Users, NEW rows \in [Tokens -> TokenRow \cup {None}],
           \A t \in Tokens : tokens[t] # None => rows[t].user = tokens[t].user,
           call[c].kind \in AuthKinds => user = local,
           Issue(c, new, rows, user), UNCHANGED <<local, jar, world>>
    PROVE  Serial'
<1>1. PICK r : r = [call[c] EXCEPT !.at = "answered", !.user = user, !.token = new]
    OBVIOUS
<1>2. call' = [call EXCEPT ![c] = r]
    BY <1>1, TheCall DEF Issue
<1>3. /\ r.at = "answered" /\ r.user = user /\ r.kind = call[c].kind
      /\ r.request = call[c].request /\ r.cookie = call[c].cookie
    BY <1>1, TheCall DEF Call
<1>4. \A t \in Tokens : Held(t) => tokens'[t].user = tokens[t].user
    BY RowsStored DEF Issue
<1>5. CookiesMatch'
    BY <1>4, Alone DEF CookiesMatch, Inv, BrowserTypeOK, Jar, Held
<1>6. call[c].request = "refresh" /\ call[c].cookie # None =>
        tokens'[call[c].cookie].user = tokens[call[c].cookie].user
    <2> SUFFICES ASSUME call[c].request = "refresh", call[c].cookie # None
                 PROVE  tokens'[call[c].cookie].user = tokens[call[c].cookie].user
        OBVIOUS
    <2>1. call[c].cookie \in Tokens /\ Held(call[c].cookie)
        BY TheCall DEF Fits, Held
    <2>2. QED
        BY <1>4, <2>1
<1>7. Follows(r)'
    BY <1>3, <1>6, Alone, BrowserAssumption DEF Follows
<1>8. QED
    BY <1>2, <1>5, <1>7, SerialMoves

LEMMA SerialServe ==
    ASSUME Inv, Usable, Serial, NEW c \in Calls, Serve(c), ~world.overlap, ~world.lossy
    PROVE  Serial'
<1>0. Running(c) /\ UNCHANGED <<local, jar, world>>
    BY DEF Serve, authenticate, login, devLogin, checkRefresh, commitRefresh, logout, Running
<1>1. /\ call[c] \in Call /\ Fits(call[c]) /\ Follows(call[c]) /\ CookiesMatch
      /\ call[c].user \in Users \cup {None} /\ call \in [Calls -> Call \cup {Idle}]
      /\ tokens \in [Tokens -> TokenRow \cup {None}]
    BY <1>0, Alone, TheCall DEF Inv, BrowserTypeOK
<1>2. CASE authenticate(c)
    <2>1. call[c].cookie \in Users \cup {None} /\ Answered(c, call[c].cookie)
        BY <1>1, <1>2 DEF authenticate, Fits
    <2>2. QED
        BY <1>0, <1>1, <1>2, <2>1, SerialAnswer DEF authenticate, Follows
<1>3. CASE devLogin(c)
    BY <1>0, <1>1, <1>3, SerialAnswer DEF devLogin, AuthKinds
<1>4. CASE login(c)
    <2>1. ASSUME NEW t \in Tokens, Issue(c, t, tokens, call[c].user) PROVE Serial'
        <3>1. call[c].user \in Users /\ call[c].kind \notin AuthKinds
            BY <1>1, <1>4 DEF login, Fits, LoginKinds, AuthKinds
        <3>2. QED
            BY <1>0, <1>1, <2>1, <3>1, SerialIssue
    <2>2. CASE UNCHANGED tokens /\ Answered(c, None)
        BY <1>0, <1>1, <1>4, <2>2, SerialAnswer DEF login, AuthKinds
    <2>3. QED
        BY <1>4, <2>1, <2>2 DEF login
<1>5. CASE checkRefresh(c)
    <2>1. CASE Live(call[c].cookie)
        <3>1. PICK r : r = [call[c] EXCEPT !.at = "checked"]
            OBVIOUS
        <3>2. call' = [call EXCEPT ![c] = r] /\ tokens' = tokens
            BY <1>1, <1>5, <2>1, <3>1 DEF checkRefresh
        <3>3. /\ r.at = "checked" /\ r.user = call[c].user /\ r.kind = call[c].kind
              /\ r.request = call[c].request /\ r.cookie = call[c].cookie
            BY <1>1, <3>1 DEF Call
        <3>4. CookiesMatch' /\ Follows(r)'
            BY <1>0, <1>1, <3>2, <3>3 DEF CookiesMatch, Follows
        <3>5. QED
            BY <1>0, <3>2, <3>4, SerialMoves
    <2>2. CASE ~Live(call[c].cookie)
        <3>1. jar.refresh = None
            BY <1>0, <1>5, <2>2, RefusedForGood DEF checkRefresh
        <3>2. QED
            BY <1>0, <1>5, <2>2, <3>1, SerialAnswer DEF checkRefresh
    <2>3. QED
        BY <2>1, <2>2
<1>6. CASE commitRefresh(c)
    <2>1. /\ call[c].at = "checked" /\ call[c].request = "refresh"
          /\ call[c].cookie \in Tokens /\ call[c].cookie # None
        BY <1>1, <1>6 DEF commitRefresh, Fits
    <2>2. PICK old \in Tokens : old = call[c].cookie
        BY <2>1
    <2>3. tokens[old] # None /\ tokens[old].user \in Users /\ tokens[old].user = local
        BY <1>0, <1>1, <2>1, <2>2, RowsStored DEF Held, Follows
    <2>4. PICK rows : rows = [tokens EXCEPT ![old].live = FALSE]
        OBVIOUS
    <2>5. /\ rows \in [Tokens -> TokenRow \cup {None}]
          /\ \A t \in Tokens : tokens[t] # None => rows[t].user = tokens[t].user
        <3>1. /\ rows \in [Tokens -> TokenRow \cup {None}]
              /\ \A t \in Tokens \ {old} : rows[t] = tokens[t]
              /\ rows[old] # None /\ rows[old].user = tokens[old].user
            BY <1>1, <2>3, <2>4, RowDies
        <3>2. QED
            BY <3>1
    <2>6. PICK t \in Tokens : Issue(c, t, rows, tokens[old].user)
        BY <1>6, <2>2, <2>4 DEF commitRefresh
    <2>7. QED
        BY <1>0, <2>3, <2>5, <2>6, SerialIssue
<1>7. CASE logout(c)
    <2>1. call[c].kind \notin AuthKinds /\ call[c].request # "refresh" /\ Answered(c, None)
        BY <1>1, <1>7 DEF logout, Fits, AuthKinds
    <2>2. ASSUME jar.refresh # None PROVE tokens'[jar.refresh].user = tokens[jar.refresh].user
        <3>1. PICK t : t = call[c].cookie
            OBVIOUS
        <3>2. CASE ~Live(t)
            BY <1>7, <3>1, <3>2 DEF logout
        <3>3. CASE Live(t)
            <4>1. t \in Tokens /\ tokens[t] # None
                BY <1>1, <1>7, <3>1, <3>3 DEF Live, logout, Fits
            <4>2. tokens' = [tokens EXCEPT ![t].live = FALSE]
                BY <1>7, <3>1, <3>3 DEF logout
            <4>3. /\ \A s \in Tokens \ {t} : tokens'[s] = tokens[s]
                  /\ tokens'[t].user = tokens[t].user
                BY <1>1, <4>1, <4>2, RowDies
            <4>4. jar.refresh \in Tokens
                BY <2>2 DEF Inv, BrowserTypeOK, Jar
            <4>5. QED
                BY <4>3, <4>4
        <3>4. QED
            BY <3>2, <3>3
    <2>3. QED
        BY <1>0, <2>1, <2>2, SerialAnswer
<1>8. QED
    BY <1>2, <1>3, <1>4, <1>5, <1>6, <1>7 DEF Serve

\* A call that is over leaves cookies and localStorage together.
LEMMA SerialEnds ==
    ASSUME Inv, Serial, NEW c \in Calls, Running(c), ~world.overlap, ~world.lossy, End(c),
           \/ jar' = jar /\ local' = local
           \/ jar' = jar /\ jar.access = None /\ jar.refresh = None
           \/ jar' = NoCookies
           \/ /\ jar' = setAuthCookies(call[c].user, call[c].token) /\ call[c].token # None
              /\ local' = call[c].user
           \/ jar' = setDevCookies(call[c].user) /\ local' = call[c].user
    PROVE  Serial'
<1>1. Idle.at = "idle" /\ call' = [call EXCEPT ![c] = Idle] /\ Forget(tokens) /\ world' = world
    BY DEF Idle, End
<1>2. CookiesMatch'
    <2>1. CASE jar' = jar /\ local' = local
        BY <1>1, <2>1, CookieRowKept, Alone DEF CookiesMatch
    <2>2. CASE jar' = jar /\ jar.access = None /\ jar.refresh = None
        BY <2>2 DEF CookiesMatch
    <2>3. CASE jar' = NoCookies
        BY <2>3 DEF CookiesMatch, NoCookies
    <2>4. CASE /\ jar' = setAuthCookies(call[c].user, call[c].token) /\ call[c].token # None
               /\ local' = call[c].user
        <3>1. PICK t \in Tokens : t = call[c].token
            BY <2>4, TheCall
        <3>2. jar'.refresh = t /\ jar'.access = local' /\ tokens[t].user = local'
            BY <2>4, <3>1 DEF Inv, TokensNew, setAuthCookies
        <3>3. Held(t)'
            BY <3>2 DEF Held
        <3>4. tokens'[t] = tokens[t]
            BY <1>1, <3>3 DEF Forget
        <3>5. QED
            BY <3>2, <3>4 DEF CookiesMatch
    <2>5. CASE jar' = setDevCookies(call[c].user) /\ local' = call[c].user
        BY <2>5 DEF CookiesMatch, setDevCookies
    <2>6. QED
        BY <2>1, <2>2, <2>3, <2>4, <2>5
<1>3. QED
    BY <1>1, <1>2, SerialMoves

LEMMA SerialDeliver ==
    ASSUME Inv, Serial, NEW c \in Calls, Deliver(c), ~world.overlap, ~world.lossy
    PROVE  Serial'
<1>0. Running(c) /\ call[c].at = "answered"
    BY DEF Deliver, refresh, retry, endRefused, endAccepted, endLogin, endLogout, Running
<1>1. /\ call[c] \in Call /\ Fits(call[c]) /\ Follows(call[c]) /\ CookiesMatch
      /\ call[c].user \in Users \cup {None} /\ jar \in Jar
    BY <1>0, Alone, TheCall DEF Inv, BrowserTypeOK
<1>2. CASE refresh(c)
    <2>1. PICK q : q = Sent(call[c].kind, "refresh", call[c].tab, jar.refresh, None)
        OBVIOUS
    <2>2. jar.access = None
        BY <1>1, <1>2 DEF refresh, Follows
    <2>3. CookiesMatch' /\ Follows(q)'
        BY <1>1, <1>2, <2>1, <2>2 DEF refresh, Follows, CookiesMatch, Sent
    <2>4. QED
        BY <1>0, <1>2, <2>1, <2>3, SerialMoves DEF refresh
<1>3. CASE retry(c)
    <2>1. PICK q : q = Sent(call[c].kind, "retry", call[c].tab, call[c].user, None)
        OBVIOUS
    <2>2. /\ call[c].kind \in AuthKinds /\ call[c].token # None /\ call[c].user = local
          /\ call[c].user # None
        BY <1>1, <1>3 DEF retry, Fits, Follows
    <2>3. PICK t \in Tokens : t = call[c].token
        BY <1>0, <2>2, TheCall
    <2>4. jar'.refresh = t /\ jar'.access = local /\ local' = local /\ tokens[t].user = local
        BY <1>0, <1>3, <2>2, <2>3 DEF Inv, TokensNew, setAuthCookies, retry
    <2>5. Held(t)'
        BY <2>4 DEF Held
    <2>6. tokens'[t] = tokens[t]
        BY <1>3, <2>5 DEF retry, Forget
    <2>7. CookiesMatch'
        BY <2>4, <2>6 DEF CookiesMatch
    <2>8. Follows(q)'
        BY <2>1, <2>2, <2>4 DEF Follows, Sent
    <2>9. QED
        BY <1>0, <1>3, <2>1, <2>7, <2>8, SerialMoves DEF retry
<1>4. CASE endRefused(c)
    <2>1. call[c].request = "refresh"
        BY <1>1, <1>4 DEF endRefused, Follows, Call
    <2>2. jar.refresh = None /\ jar.access = None
        BY <1>1, <1>4, <2>1 DEF endRefused, Follows
    <2>3. QED
        BY <1>0, <1>4, <2>2, SerialEnds DEF endRefused
<1>5. CASE endAccepted(c)
    <2>1. call[c].user = local
        BY <1>1, <1>5 DEF endAccepted, Follows
    <2>2. local' = local
        BY <1>5, <2>1 DEF endAccepted, saveSession
    <2>3. QED
        BY <1>0, <1>5, <2>2, SerialEnds DEF endAccepted
<1>6. CASE endLogin(c)
    <2>1. CASE call[c].user = None
        BY <1>0, <1>6, <2>1, SerialEnds DEF endLogin
    <2>2. CASE call[c].user # None /\ call[c].kind = "login"
        <3>1. call[c].token # None
            BY <1>0, <1>1, <2>2 DEF Fits
        <3>2. QED
            BY <1>0, <1>6, <2>2, <3>1, SerialEnds DEF endLogin, saveSession
    <2>3. CASE call[c].user # None /\ call[c].kind # "login"
        BY <1>0, <1>6, <2>3, SerialEnds DEF endLogin, saveSession
    <2>4. QED
        BY <2>1, <2>2, <2>3
<1>7. CASE endLogout(c)
    BY <1>0, <1>7, SerialEnds DEF endLogout
<1>8. QED
    BY <1>2, <1>3, <1>4, <1>5, <1>6, <1>7 DEF Deliver

LEMMA SerialExpire ==
    ASSUME Inv, Serial, expireAccess \/ expireRefresh, ~world.overlap, ~world.lossy
    PROVE  Serial'
<1>0. UNCHANGED <<local, call, world>>
    BY DEF expireAccess, expireRefresh
<1>1. /\ jar'.access = None /\ jar'.refresh \in {jar.refresh, None}
      /\ jar \in Jar /\ tokens \in [Tokens -> TokenRow \cup {None}]
    BY DEF Inv, BrowserTypeOK, expireAccess, expireRefresh, NoCookies, Jar
<1>2. ASSUME NEW t \in Tokens, Held(t)' PROVE tokens'[t].user = tokens[t].user
    <2>1. CASE expireAccess
        BY <2>1 DEF expireAccess
    <2>2. CASE expireRefresh
        <3>1. PICK old \in Tokens : old = jar.refresh
            BY <1>1, <2>2 DEF expireRefresh, Jar
        <3>2. tokens[old] # None
            BY <3>1, RowsStored DEF Held
        <3>3. PICK dead : dead = [tokens EXCEPT ![old].live = FALSE]
            OBVIOUS
        <3>4. dead[t].user = tokens[t].user
            <4>1. /\ \A s \in Tokens \ {old} : dead[s] = tokens[s]
                  /\ dead[old].user = tokens[old].user
                BY <1>1, <3>2, <3>3, RowDies
            <4>2. QED
                BY <4>1
        <3>5. tokens'[t] = dead[t]
            BY <1>2, <2>2, <3>1, <3>3 DEF expireRefresh, Forget
        <3>6. QED
            BY <3>4, <3>5
    <2>3. QED
        BY <2>1, <2>2
<1>3. CookiesMatch'
    <2>1. ASSUME jar'.refresh # None PROVE tokens'[jar'.refresh].user = local'
        <3>1. PICK t \in Tokens : t = jar'.refresh /\ t = jar.refresh
            BY <1>1, <2>1 DEF Jar
        <3>2. Held(t)'
            BY <3>1 DEF Held
        <3>3. tokens[t].user = local
            BY <2>1, <3>1 DEF Serial, CookiesMatch
        <3>4. QED
            BY <1>0, <1>2, <3>1, <3>2, <3>3
    <2>2. QED
        BY <1>1, <2>1 DEF CookiesMatch
<1>4. ASSUME NEW c \in Calls, Running(c)
      PROVE  Follows(call[c])'
    <2>1. Follows(call[c]) /\ Fits(call[c])
        BY <1>4, Alone
    <2>2. ASSUME call[c].request = "refresh", call[c].cookie # None
          PROVE  tokens'[call[c].cookie].user = local
        <3>1. PICK t \in Tokens : t = call[c].cookie
            BY <2>1, <2>2 DEF Fits
        <3>2. Held(t)'
            BY <1>0, <1>4, <3>1 DEF Held, Running
        <3>3. tokens[t].user = local
            BY <2>1, <2>2, <3>1 DEF Follows
        <3>4. QED
            BY <1>2, <3>1, <3>2, <3>3
    <2>3. QED
        BY <1>0, <1>1, <2>1, <2>2 DEF Follows
<1>5. QED
    BY <1>0, <1>3, <1>4 DEF Serial, Running

LEMMA SerialStep == Inv /\ Usable /\ Serial /\ [BrowserNext]_browserVars => Serial'
<1> SUFFICES ASSUME Inv, Usable, Serial, [BrowserNext]_browserVars PROVE Serial'
    OBVIOUS
<1>1. world' = world
    BY DEF BrowserNext, Serve, Deliver, browserVars, init, handleLogout, handleWrite, handleLogin,
           authenticate, login, devLogin, checkRefresh, commitRefresh, logout, refresh, retry,
           endRefused, endAccepted, endLogin, endLogout, fail, End, expireAccess, expireRefresh
<1>2. CASE ~world.overlap /\ ~world.lossy
    <2>1. CASE UNCHANGED browserVars
        BY <2>1 DEF browserVars, Serial, CookiesMatch, Follows, Running
    <2>2. \A c \in Calls : ~fail(c)
        BY <1>2 DEF fail
    <2>3. QED
        BY <1>2, <2>1, <2>2, SerialStart, SerialServe, SerialDeliver, SerialExpire DEF BrowserNext
<1>3. CASE ~(~world.overlap /\ ~world.lossy)
    BY <1>1, <1>3 DEF Serial
<1>4. QED
    BY <1>2, <1>3

\* When one page at a time works and nothing is lost: after every call the user
\* in localStorage is the one the cookies act for (saveSession, isAuthError).
THEOREM LocalFollowsCookies == BrowserSpec => []LocalMatchesJar
<1>1. BrowserInit => Usable
    BY DEF BrowserInit, Usable, NoCookies
<1>2. BrowserInit => Serial
    BY DEF BrowserInit, Serial, CookiesMatch, NoCookies, Running, Idle
<1>3. Inv /\ Usable /\ Serial => LocalMatchesJar
    <2> SUFFICES ASSUME Inv, Usable, Serial, ~world.overlap, ~world.lossy, AllIdle
                 PROVE  LocalMatchesJar
        BY DEF LocalMatchesJar
    <2>1. CookiesMatch
        BY DEF Serial
    <2>2. ASSUME jar.refresh # None PROVE Live(jar.refresh)
        <3>1. jar.refresh \in Tokens /\ tokens[jar.refresh] # None
            BY <2>2, RowsStored DEF Inv, BrowserTypeOK, Jar, Held
        <3>2. QED
            BY <2>2, <3>1 DEF Usable, AllIdle, Live
    <2>3. QED
        BY <2>1, <2>2 DEF LocalMatchesJar, CookiesMatch
<1>4. QED
    BY <1>1, <1>2, <1>3, InvInit, InvStep, UsableStep, SerialStep, PTL DEF BrowserSpec

----------------------------------------------------------------------------
(* apiFetch ends *)

Onward(c) ==
    Running(c) /\ call'[c] # call[c] /\ call'[c] # Idle =>
        \/ Turn[call'[c].request] > Turn[call[c].request]
        \/ call'[c].request = call[c].request /\ call'[c].at # "sent"

LEMMA OnwardStep == Inv /\ [BrowserNext]_browserVars => \A b \in Calls : Onward(b)
<1> SUFFICES ASSUME Inv, [BrowserNext]_browserVars, NEW b \in Calls, Running(b),
                    call'[b] # call[b], call'[b] # Idle
             PROVE  \/ Turn[call'[b].request] > Turn[call[b].request]
                    \/ call'[b].request = call[b].request /\ call'[b].at # "sent"
    BY DEF Onward
<1>0. call[b] \in Call /\ call \in [Calls -> Call \cup {Idle}]
    BY TheCall
<1>1. ASSUME NEW c \in Calls, NEW tab \in Tabs,
             \/ init(c, tab) \/ handleLogout(c, tab)
             \/ \E kind \in AuthKinds \ {"me"} : handleWrite(c, tab, kind)
             \/ \E kind \in LoginKinds, user \in Users : handleLogin(c, tab, kind, user)
      PROVE  FALSE
    <2>1. ~Running(c)
        BY <1>1 DEF init, handleLogout, handleWrite, handleLogin, MayStart
    <2>2. PICK q : call' = [call EXCEPT ![c] = q]
        BY <1>1 DEF init, handleLogout, handleWrite, handleLogin
    <2>3. QED
        BY <1>0, <2>1, <2>2
<1>2. ASSUME NEW c \in Calls, End(c) PROVE FALSE
    BY <1>0, <1>2 DEF End
<1>3. ASSUME NEW c \in Calls, Serve(c)
      PROVE  call'[b].request = call[b].request /\ call'[b].at # "sent"
    <2>1. ASSUME NEW user, Answered(c, user)
          PROVE  call'[b].request = call[b].request /\ call'[b].at # "sent"
        BY <1>0, <2>1 DEF Answered, Call
    <2>2. ASSUME NEW new, NEW rows, NEW user, Issue(c, new, rows, user)
          PROVE  call'[b].request = call[b].request /\ call'[b].at # "sent"
        BY <1>0, <2>2 DEF Issue, Call
    <2>3. CASE call' = [call EXCEPT ![c].at = "checked"]
        BY <1>0, <2>3 DEF Call
    <2>4. CASE authenticate(c) \/ devLogin(c) \/ logout(c)
        BY <2>1, <2>4 DEF authenticate, devLogin, logout
    <2>5. CASE login(c) \/ commitRefresh(c) \/ checkRefresh(c)
        BY <2>1, <2>2, <2>3, <2>5 DEF login, commitRefresh, checkRefresh
    <2>6. QED
        BY <1>3, <2>4, <2>5 DEF Serve
<1>4. ASSUME NEW c \in Calls, refresh(c) \/ retry(c)
      PROVE  Turn[call'[b].request] > Turn[call[b].request]
    <2>1. b = c
        BY <1>0, <1>4 DEF refresh, retry
    <2>2. \/ call[c].request = "first" /\ call'[c].request = "refresh"
          \/ call[c].request = "refresh" /\ call'[c].request = "retry"
        BY <1>0, <1>4 DEF refresh, retry, Sent
    <2>3. QED
        BY <2>1, <2>2 DEF Turn
<1>5. call' # call
    OBVIOUS
<1>6. BrowserNext /\ ~expireAccess /\ ~expireRefresh
    BY <1>5 DEF browserVars, expireAccess, expireRefresh
<1>7. QED
    BY <1>1, <1>2, <1>3, <1>4, <1>6
    DEF BrowserNext, Deliver, endRefused, endAccepted, endLogin, endLogout, fail

\* Whatever is answered, apiFetch makes three requests at most (shared.js:47).
THEOREM FetchEnds == BrowserSpec => RequestsInTurn
<1>1. Inv /\ [BrowserNext]_browserVars => [\A c \in Calls : Onward(c)]_browserVars
    BY OnwardStep
<1>2. BrowserSpec => [][\A c \in Calls : Onward(c)]_browserVars
    BY <1>1, InvInit, InvStep, PTL DEF BrowserSpec
<1>3. QED
    BY <1>2 DEF RequestsInTurn, Onward
=============================================================================
