----------------------------- MODULE ServingProofs -----------------------------
(***************************************************************************)
(* Proofs about Serving for any requests, users, grace and log buffer.     *)
(* The strengthening has three parts: Order, what the stages of run() say  *)
(* of listener, signal, requests and pool; Kept, that no line is lost      *)
(* while the disk works; Told, what each request has in the log.           *)
(***************************************************************************)
EXTENDS Serving, FiniteSetTheorems, TLAPS

Ending == {"closing", "flushing", "gone"}

Order ==
    /\ listener = "none" => /\ stage \in {"starting"} \cup Ending
                            /\ \A r \in Requests : request[r].at = "away"
    /\ stage = "starting" => listener = "none" /\ stderr = {}
    /\ stage = "draining" => signalled
    /\ stage = "awaiting" => signalled /\ \A r \in Requests : ~Busy(r)
    /\ stage \in Ending <=> code # "none"
    /\ code = "exit 0" => signalled /\ \A r \in Requests : ~Busy(r)
    /\ code = "exit 1" => listener \in {"none", "failed"} \/ waited = Grace
    /\ ~pool => stage \in {"flushing", "gone"}

\* Neither buffer nor file holds what was not logged, and together they hold all.
Consistent ==
    /\ file \subseteq stderr /\ buffer \subseteq stderr
    /\ disk => stderr = file \cup buffer

Kept ==
    /\ Consistent
    /\ stage = "gone" /\ code # "killed" /\ disk /\ (\A r \in Requests : ~Running(r)) =>
          file = stderr

ServedIn(lines, r) == {l \in lines : l.of = r /\ l.what = "served request"}

PanicIn(lines, r) == \E l \in lines : l.of = r /\ l.what = "panic recovered"

ServedLine(r, q) == [of |-> r, what |-> "served request", status |-> q.status,
                     user |-> q.user, error |-> q.error]

\* What the lines say of request r when it is q.
TellsOf(lines, lev, r, q) ==
    /\ q.at = "answered" /\ lev => ServedIn(lines, r) = {ServedLine(r, q)}
    /\ q.at # "answered" => ServedIn(lines, r) = {}
    /\ q.at # "unmatched" => q.sent = q.status
    /\ q.panicked => q.error /\ q.at \in {"returning", "answered"} /\ PanicIn(lines, r)

Told == \A r \in Requests : TellsOf(stderr, level, r, request[r])

IInv == ServingTypeOK /\ Order /\ Kept /\ Told

LEMMA InitHolds == ServingInit => IInv
<1> SUFFICES ASSUME ServingInit PROVE IInv
    OBVIOUS
<1>1. ServingTypeOK
    <2>1. Fresh \in Request
        BY DEF Request, Fresh, Statuses
    <2>2. waited \in 0 .. Grace
        BY ServingAssumption DEF ServingInit
    <2>3. request \in [Requests -> Request]
        BY <2>1 DEF ServingInit
    <2>4. QED
        BY <2>2, <2>3 DEF ServingInit, ServingTypeOK
<1>2. Order
    BY DEF ServingInit, Order, Ending, Fresh
<1>3. Kept
    BY DEF ServingInit, Kept, Consistent
<1>4. Told
    BY DEF ServingInit, Told, TellsOf, ServedIn, Fresh
<1>5. QED
    BY <1>1, <1>2, <1>3, <1>4 DEF IInv

----------------------------------------------------------------------------
(* Logging *)

\* What a line does to the log, whichever way its buffer goes.
LEMMA Logged ==
    ASSUME ServingTypeOK, Consistent, NEW l \in Line, LogError(l) \/ LogInfo(l)
    PROVE  /\ level' = level /\ disk' \in BOOLEAN /\ Consistent'
           /\ stderr' \subseteq Line /\ buffer' \subseteq Line /\ file' \subseteq Line
           /\ stderr' = stderr \/ stderr' = stderr \cup {l}
           /\ LogError(l) \/ level => stderr' = stderr \cup {l}
<1>1. CASE LogError(l)
    <2>1. stderr' = stderr \cup {l} /\ level' = level /\ Buffer(l)
        BY <1>1 DEF LogError
    <2>2. /\ buffer' \subseteq buffer \cup {l} /\ file' \subseteq file \cup buffer
          /\ disk' => disk /\ file' \cup buffer' = file \cup buffer \cup {l}
        BY <2>1 DEF Buffer
    <2>3. disk' \in BOOLEAN
        BY <2>1, Zenon DEF Buffer, ServingTypeOK
    <2>4. Consistent'
        BY <2>1, <2>2 DEF Consistent
    <2>5. QED
        BY <2>1, <2>2, <2>3, <2>4 DEF ServingTypeOK
<1>2. CASE ~LogError(l)
    <2>1. ~level /\ UNCHANGED logs
        BY <1>2 DEF LogInfo
    <2>2. QED
        BY <1>2, <2>1 DEF logs, Consistent, ServingTypeOK
<1>3. QED
    BY <1>1, <1>2

LEMMA MainLines ==
    \A what \in {"listening", "shutting down", "shutdown", "listen", "configure"} :
        /\ MainLine(what) \in Line
        /\ \A r \in Requests : MainLine(what).of # r
    BY ServingAssumption DEF MainLine, Line, Statuses

----------------------------------------------------------------------------
(* Requests *)

\* One request takes a step and logs at most a line of its own.
LEMMA RequestStep ==
    ASSUME IInv, stage # "gone", UNCHANGED process, NEW r \in Requests, NEW q \in Request,
           request' = [request EXCEPT ![r] = q],
           listener # "none",
           ~Busy(r) => q.at \notin {"connected", "authenticating", "handling", "returning"}
                       \/ (q.at = "connected" /\ ~ShuttingDown),
           UNCHANGED logs \/ \E l \in Line : l.of = r /\ (LogError(l) \/ LogInfo(l))
    PROVE  ServingTypeOK' /\ Order' /\ Kept'
<1>1. ServingTypeOK /\ Order /\ Kept /\ Consistent
    BY DEF IInv, Kept
<1>2. /\ Consistent' /\ level' \in BOOLEAN /\ disk' \in BOOLEAN
      /\ stderr' \subseteq Line /\ buffer' \subseteq Line /\ file' \subseteq Line
    <2>1. CASE UNCHANGED logs
        BY <1>1, <2>1 DEF logs, Consistent, ServingTypeOK
    <2>2. CASE ~UNCHANGED logs
        BY <1>1, <2>2, Logged DEF ServingTypeOK
    <2>3. QED
        BY <2>1, <2>2
<1>3. \A p \in Requests : request'[p] = IF p = r THEN q ELSE request[p]
    BY <1>1 DEF ServingTypeOK
<1>4. ServingTypeOK'
    BY <1>1, <1>2 DEF ServingTypeOK, process
<1>5. Order'
    <2>1. stage # "starting"
        BY <1>1 DEF Order
    <2>2. ASSUME signalled, stage # "serving", \A p \in Requests : ~Busy(p)
          PROVE  \A p \in Requests : ~Busy(p)'
        BY <1>3, <2>2 DEF Busy, Running, ShuttingDown
    <2>3. QED
        BY <1>1, <2>1, <2>2 DEF Order, process, Ending
<1>6. Kept'
    BY <1>2 DEF Kept, process
<1>7. QED
    BY <1>4, <1>5, <1>6

\* Lines of others change nothing.
LEMMA TellsKept ==
    ASSUME NEW p, NEW q, NEW lines, NEW more, NEW lev, TellsOf(lines, lev, p, q),
           lines \subseteq more,
           \A l \in more \ lines : l.of # p \/ l.what # "served request"
    PROVE  TellsOf(more, lev, p, q)
<1>1. ServedIn(more, p) = ServedIn(lines, p)
    BY DEF ServedIn
<1>2. PanicIn(lines, p) => PanicIn(more, p)
    BY DEF PanicIn
<1>3. QED
    BY <1>1, <1>2 DEF TellsOf

\* One request takes a step and logs at most a line of its own.
LEMMA ToldStep ==
    ASSUME ServingTypeOK, Told, NEW r \in Requests, NEW q,
           request' = [request EXCEPT ![r] = q], level' = level, stderr \subseteq stderr',
           \A l \in stderr' \ stderr : l.of = r,
           TellsOf(stderr', level, r, q)
    PROVE  Told'
<1>1. \A p \in Requests : request'[p] = IF p = r THEN q ELSE request[p]
    BY DEF ServingTypeOK
<1>2. ASSUME NEW p \in Requests
      PROVE  TellsOf(stderr', level', p, request'[p])
    <2>1. CASE p = r
        BY <1>1, <2>1
    <2>2. CASE p # r
        <3>1. TellsOf(stderr, level, p, request[p])
            BY DEF Told
        <3>2. TellsOf(stderr', level, p, request[p])
            BY <2>2, <3>1, TellsKept
        <3>3. QED
            BY <1>1, <2>2, <3>2
    <2>3. QED
        BY <2>1, <2>2
<1>3. QED
    BY <1>2 DEF Told

LEMMA ConnectKeepsInv ==
    ASSUME IInv, NEW r \in Requests, Connect(r) \/ CloseNew(r) \/ Return(r)
    PROVE  IInv'
<1>1. PICK at \in {"connected", "closed", "returning"} :
          /\ request' = [request EXCEPT ![r] = [request[r] EXCEPT !.at = at]]
          /\ stage # "gone" /\ UNCHANGED process /\ UNCHANGED logs
          /\ at = "connected" => request[r].at = "away" /\ listener = "open" /\ ~ShuttingDown
          /\ at = "closed" => request[r].at = "connected"
          /\ at = "returning" => request[r].at = "handling"
    BY DEF Connect, CloseNew, Return, Put
<1>2. request[r] \in Request /\ Order /\ Told
    BY DEF IInv, ServingTypeOK
<1>3. PICK q \in Request : q = [request[r] EXCEPT !.at = at]
    BY <1>2 DEF Request
<1>4. /\ q.at = at /\ q.sent = request[r].sent /\ q.status = request[r].status
      /\ q.panicked = request[r].panicked /\ q.error = request[r].error
    BY <1>2, <1>3 DEF Request
<1>5. listener # "none"
    BY <1>1, <1>2 DEF Order
<1>6. Busy(r) <=> request[r].at \in {"connected", "authenticating", "handling", "returning"}
    BY DEF Busy, Running
<1>7. ServingTypeOK' /\ Order' /\ Kept'
    BY <1>1, <1>3, <1>4, <1>5, <1>6, RequestStep
<1>8. stderr' = stderr /\ level' = level
    BY <1>1 DEF logs
<1>9. Told'
    <2>1. TellsOf(stderr, level, r, request[r])
        BY <1>2 DEF Told
    <2>2. TellsOf(stderr', level, r, q)
        BY <1>1, <1>4, <1>8, <2>1 DEF TellsOf
    <2>3. QED
        BY <1>1, <1>3, <1>8, <2>2, ToldStep DEF IInv
<1>10. QED
    BY <1>7, <1>9 DEF IInv

LEMMA HeaderWritten ==
    ASSUME NEW q \in Request, NEW s \in Statuses
    PROVE  /\ WriteHeader(q, s) \in Request
           /\ WriteHeader(q, s).at = q.at /\ WriteHeader(q, s).user = q.user
           /\ WriteHeader(q, s).error = q.error /\ WriteHeader(q, s).panicked = q.panicked
           /\ q.sent = q.status => WriteHeader(q, s).sent = WriteHeader(q, s).status
    BY DEF WriteHeader, Request

\* A step of a routed request that leaves the log alone.
LEMMA QuietStep ==
    ASSUME IInv, NEW r \in Requests, NEW q \in Request, Put(r, q), UNCHANGED logs,
           listener # "none",
           request[r].at \in {"connected", "authenticating", "handling"},
           q.at \in {"authenticating", "handling", "returning", "unmatched"},
           q.at # "unmatched" => (request[r].sent = request[r].status => q.sent = q.status),
           q.panicked = request[r].panicked
    PROVE  IInv'
<1>1. request' = [request EXCEPT ![r] = q] /\ stage # "gone" /\ UNCHANGED process
    BY DEF Put
<1>2. Busy(r)
    BY DEF Busy, Running
<1>3. ServingTypeOK' /\ Order' /\ Kept'
    BY <1>1, <1>2, RequestStep
<1>4. stderr' = stderr /\ level' = level
    BY DEF logs
<1>5. TellsOf(stderr, level, r, request[r])
    BY DEF IInv, Told
<1>6. TellsOf(stderr', level, r, q)
    BY <1>4, <1>5 DEF TellsOf
<1>7. Told'
    BY <1>1, <1>4, <1>6, ToldStep DEF IInv
<1>8. QED
    BY <1>3, <1>7 DEF IInv

LEMMA RouteKeepsInv ==
    ASSUME IInv, NEW r \in Requests, Route(r)
    PROVE  IInv'
<1>1. request[r] \in Request /\ request[r].at = "connected" /\ UNCHANGED logs
    BY DEF IInv, ServingTypeOK, Route
<1>2. listener # "none"
    BY <1>1 DEF IInv, Order
<1>3. CASE Put(r, [request[r] EXCEPT !.at = "unmatched", !.sent = 404])
    <2>0. PICK s \in Statuses : s = 404
        BY DEF Statuses
    <2>5. [request[r] EXCEPT !.at = "unmatched", !.sent = s] \in Request
        BY <1>1 DEF Request
    <2>1. PICK q \in Request : q = [request[r] EXCEPT !.at = "unmatched", !.sent = 404]
        BY <2>0, <2>5
    <2>2. q.at = "unmatched" /\ q.panicked = request[r].panicked /\ q.error = request[r].error
        BY <1>1, <2>1 DEF Request
    <2>3. Put(r, q)
        BY <1>3, <2>1
    <2>4. QED
        BY <1>1, <1>2, <2>2, <2>3, QuietStep
<1>4. ASSUME NEW next \in {"authenticating", "handling"},
             Put(r, [request[r] EXCEPT !.at = next])
      PROVE  IInv'
    <2>5. [request[r] EXCEPT !.at = next] \in Request
        BY <1>1 DEF Request
    <2>1. PICK q \in Request : q = [request[r] EXCEPT !.at = next]
        BY <2>5
    <2>2. /\ q.at = next /\ q.panicked = request[r].panicked /\ q.error = request[r].error
          /\ q.sent = request[r].sent /\ q.status = request[r].status
        BY <1>1, <2>1 DEF Request
    <2>3. QED
        BY <1>1, <1>2, <1>4, <2>1, <2>2, QuietStep
<1>5. QED
    BY <1>3, <1>4 DEF Route

LEMMA AuthenticateKeepsInv ==
    ASSUME IInv, NEW r \in Requests, Authenticate(r)
    PROVE  IInv'
<1>1. request[r] \in Request /\ request[r].at = "authenticating" /\ UNCHANGED logs
    BY DEF IInv, ServingTypeOK, Authenticate
<1>2. listener # "none"
    BY <1>1 DEF IInv, Order
<1>3. CASE Put(r, WriteHeader([request[r] EXCEPT !.at = "returning", !.error = TRUE], 401))
    <2>1. PICK p \in Request : p = [request[r] EXCEPT !.at = "returning", !.error = TRUE]
        BY <1>1 DEF Request
    <2>2. /\ p.at = "returning" /\ p.panicked = request[r].panicked /\ p.error
          /\ p.sent = request[r].sent /\ p.status = request[r].status
        BY <1>1, <2>1 DEF Request
    <2>3. 401 \in Statuses
        BY DEF Statuses
    <2>4. PICK q \in Request : q = WriteHeader(p, 401)
        BY <2>3, HeaderWritten
    <2>5. /\ q.at = "returning" /\ q.panicked = request[r].panicked
          /\ request[r].sent = request[r].status => q.sent = q.status
        BY <2>2, <2>3, <2>4, HeaderWritten
    <2>6. Put(r, q)
        BY <1>3, <2>1, <2>4
    <2>7. QED
        BY <1>1, <1>2, <2>5, <2>6, QuietStep
<1>4. ASSUME NEW u \in Users, Put(r, [request[r] EXCEPT !.at = "handling", !.user = u])
      PROVE  IInv'
    <2>1. PICK q \in Request : q = [request[r] EXCEPT !.at = "handling", !.user = u]
        BY <1>1 DEF Request
    <2>2. /\ q.at = "handling" /\ q.panicked = request[r].panicked /\ q.error = request[r].error
          /\ q.sent = request[r].sent /\ q.status = request[r].status
        BY <1>1, <2>1 DEF Request
    <2>3. QED
        BY <1>1, <1>2, <1>4, <2>1, <2>2, QuietStep
<1>5. QED
    BY <1>3, <1>4 DEF Authenticate

LEMMA RespondKeepsInv ==
    ASSUME IInv, NEW r \in Requests, Respond(r)
    PROVE  IInv'
<1>1. request[r] \in Request /\ request[r].at = "handling" /\ UNCHANGED logs
    <2>1. request[r] \in Request
        BY DEF IInv, ServingTypeOK
    <2>2. request[r].at = "handling" /\ UNCHANGED logs
        BY Zenon DEF Respond
    <2>3. QED
        BY <2>1, <2>2
<1>2. listener # "none"
    BY <1>1 DEF IInv, Order
<1>3. PICK s \in Statuses : Put(r, WriteHeader([request[r] EXCEPT !.error = s # 200], s))
    BY DEF Respond, Statuses
<1>4. PICK e \in BOOLEAN : e = (s # 200)
    OBVIOUS
<1>5. PICK p \in Request : p = [request[r] EXCEPT !.error = e]
    BY <1>1 DEF Request
<1>6. /\ p.at = "handling" /\ p.panicked = request[r].panicked
      /\ p.sent = request[r].sent /\ p.status = request[r].status
    BY <1>1, <1>5 DEF Request
<1>7. Put(r, WriteHeader(p, s))
    BY <1>3, <1>4, <1>5
<1>8. QED
    BY <1>1, <1>2, <1>6, <1>7, HeaderWritten, QuietStep

LEMMA PanicKeepsInv ==
    ASSUME IInv, NEW r \in Requests, Panic(r)
    PROVE  IInv'
<1> DEFINE l == [of |-> r, what |-> "panic recovered", status |-> 0, user |-> None, error |-> TRUE]
<1>1. request[r] \in Request /\ request[r].at = "handling"
    BY DEF IInv, ServingTypeOK, Panic
<1>2. LogError(l) /\ Put(r, Recovered(r, request[r]))
    BY DEF Panic
<1>3. l \in Line /\ l.of = r /\ l.what = "panic recovered"
    BY DEF Line, Statuses
<1>4. PICK p \in Request :
          p = [request[r] EXCEPT !.at = "returning", !.panicked = TRUE, !.error = TRUE]
    BY <1>1 DEF Request
<1>5. /\ p.at = "returning" /\ p.panicked /\ p.error
      /\ p.sent = request[r].sent /\ p.status = request[r].status
    BY <1>1, <1>4 DEF Request
<1>6. 500 \in Statuses
    BY DEF Statuses
<1>7. PICK q \in Request : q = WriteHeader(p, 500)
    BY <1>6, HeaderWritten
<1>8. /\ q.at = "returning" /\ q.panicked /\ q.error
      /\ request[r].sent = request[r].status => q.sent = q.status
    BY <1>5, <1>6, <1>7, HeaderWritten
<1>9. Put(r, q)
    BY <1>2, <1>4, <1>7 DEF Recovered
<1>10. stderr' = stderr \cup {l} /\ level' = level
    BY <1>2, <1>3, Logged DEF IInv, Kept
<1> HIDE DEF l
<1>11. request' = [request EXCEPT ![r] = q] /\ stage # "gone" /\ UNCHANGED process
    BY <1>9 DEF Put
<1>12. Busy(r) /\ listener # "none"
    BY <1>1 DEF Busy, Running, IInv, Order
<1>13. ServingTypeOK' /\ Order' /\ Kept'
    BY <1>2, <1>3, <1>11, <1>12, RequestStep
<1>14. TellsOf(stderr', level, r, q)
    <2>1. TellsOf(stderr, level, r, request[r])
        BY DEF IInv, Told
    <2>2. ServedIn(stderr', r) = ServedIn(stderr, r)
        BY <1>3, <1>10 DEF ServedIn
    <2>3. PanicIn(stderr', r)
        BY <1>3, <1>10 DEF PanicIn
    <2>4. QED
        BY <1>1, <1>8, <2>1, <2>2, <2>3 DEF TellsOf
<1>15. Told'
    BY <1>3, <1>10, <1>11, <1>14, ToldStep DEF IInv
<1>16. QED
    BY <1>13, <1>15 DEF IInv

LEMMA ServedRequestKeepsInv ==
    ASSUME IInv, NEW r \in Requests, ServedRequest(r)
    PROVE  IInv'
<1>1. request[r] \in Request
    BY DEF IInv, ServingTypeOK
<1>2. 200 \in Statuses
    BY DEF Statuses
<1>3. PICK p \in Request :
          p = IF request[r].status = 0 THEN WriteHeader(request[r], 200) ELSE request[r]
    BY <1>1, <1>2, HeaderWritten
<1>4. /\ p.at = request[r].at /\ p.user = request[r].user /\ p.error = request[r].error
      /\ p.panicked = request[r].panicked
      /\ request[r].sent = request[r].status => p.sent = p.status
    BY <1>1, <1>2, <1>3, HeaderWritten
<1> DEFINE l == [of |-> r, what |-> "served request", status |-> p.status, user |-> p.user,
                 error |-> p.error]
<1>5. p.at = "returning" /\ LogInfo(l) /\ Put(r, [p EXCEPT !.at = "answered"])
    BY <1>3, Zenon DEF ServedRequest
<1>6. PICK q \in Request : q = [p EXCEPT !.at = "answered"]
    BY DEF Request
<1>7. /\ q.at = "answered" /\ q.sent = p.sent /\ q.status = p.status /\ q.user = p.user
      /\ q.error = p.error /\ q.panicked = p.panicked
    BY <1>6 DEF Request
<1>8. l \in Line /\ l.of = r /\ l.what = "served request" /\ l = ServedLine(r, q)
    BY <1>7 DEF Line, Request, ServedLine
<1>9. /\ level' = level
      /\ stderr' = stderr \/ stderr' = stderr \cup {l}
      /\ level => stderr' = stderr \cup {l}
    BY <1>5, <1>8, Logged DEF IInv, Kept
<1>10. LogInfo(l)
    BY <1>5
<1> HIDE DEF l
<1>11. request' = [request EXCEPT ![r] = q] /\ stage # "gone" /\ UNCHANGED process
    BY <1>5, <1>6 DEF Put
<1>12. Busy(r) /\ listener # "none"
    BY <1>4, <1>5 DEF Busy, Running, IInv, Order
<1>13. ServingTypeOK' /\ Order' /\ Kept'
    BY <1>8, <1>10, <1>11, <1>12, RequestStep
<1>14. TellsOf(stderr', level, r, q)
    <2>1. TellsOf(stderr, level, r, request[r])
        BY DEF IInv, Told
    <2>2. ServedIn(stderr, r) = {}
        BY <1>4, <1>5, <2>1 DEF TellsOf
    <2>3. level => ServedIn(stderr', r) = {ServedLine(r, q)}
        BY <1>8, <1>9, <2>2 DEF ServedIn
    <2>4. PanicIn(stderr, r) => PanicIn(stderr', r)
        BY <1>9 DEF PanicIn
    <2>5. QED
        BY <1>4, <1>5, <1>7, <2>1, <2>3, <2>4 DEF TellsOf
<1>15. Told'
    BY <1>8, <1>9, <1>11, <1>14, ToldStep DEF IInv
<1>16. QED
    BY <1>13, <1>15 DEF IInv

LEMMA ServeKeepsInv ==
    ASSUME IInv, NEW r \in Requests, Serve(r)
    PROVE  IInv'
    BY ConnectKeepsInv, RouteKeepsInv, AuthenticateKeepsInv, RespondKeepsInv, PanicKeepsInv,
       ServedRequestKeepsInv DEF Serve

----------------------------------------------------------------------------
(* run(), the listener and the signals *)

\* Lines of run() tell nothing of a request.
LEMMA ToldMain ==
    ASSUME Told, UNCHANGED request, level' = level, stderr \subseteq stderr',
           \A l \in stderr' \ stderr : \A r \in Requests : l.of # r
    PROVE  Told'
<1> SUFFICES ASSUME NEW r \in Requests
             PROVE  TellsOf(stderr', level', r, request'[r])
    BY DEF Told
<1>1. TellsOf(stderr, level, r, request[r])
    BY DEF Told
<1>2. TellsOf(stderr', level, r, request[r])
    BY <1>1, TellsKept
<1>3. QED
    BY <1>2

\* A step that touches neither requests nor log, unless it logs a line of run().
LEMMA MainLogs ==
    ASSUME ServingTypeOK, Kept, Told, UNCHANGED request,
           stage' # "gone" \/ code' = "killed",
           \/ UNCHANGED logs
           \/ \E what \in {"listening", "shutting down", "shutdown", "listen", "configure"} :
                  LogError(MainLine(what)) \/ LogInfo(MainLine(what))
    PROVE  /\ level' \in BOOLEAN /\ disk' \in BOOLEAN
           /\ stderr' \subseteq Line /\ buffer' \subseteq Line /\ file' \subseteq Line
           /\ Kept' /\ Told'
<1>1. CASE UNCHANGED logs
    BY <1>1, ToldMain DEF logs, ServingTypeOK, Kept, Consistent
<1>2. ASSUME NEW what \in {"listening", "shutting down", "shutdown", "listen", "configure"},
             LogError(MainLine(what)) \/ LogInfo(MainLine(what))
      PROVE  /\ level' \in BOOLEAN /\ disk' \in BOOLEAN
             /\ stderr' \subseteq Line /\ buffer' \subseteq Line /\ file' \subseteq Line
             /\ Kept' /\ Told'
    <2>1. PICK l \in Line : l = MainLine(what) /\ \A r \in Requests : l.of # r
        BY MainLines
    <2>2. LogError(l) \/ LogInfo(l)
        BY <1>2, <2>1
    <2>3. /\ level' = level /\ disk' \in BOOLEAN /\ Consistent'
          /\ stderr' \subseteq Line /\ buffer' \subseteq Line /\ file' \subseteq Line
          /\ stderr' = stderr \/ stderr' = stderr \cup {l}
        BY <2>2, Logged DEF Kept
    <2>4. Told'
        BY <2>1, <2>3, ToldMain
    <2>5. QED
        BY <2>3, <2>4 DEF ServingTypeOK, Kept
<1>3. QED
    BY <1>1, <1>2

LEMMA StartKeepsInv ==
    ASSUME IInv, Start
    PROVE  IInv'
<1>1. ServingTypeOK /\ Order /\ Kept /\ Told /\ stage = "starting" /\ UNCHANGED request
    BY DEF IInv, Start
<1>2. listener = "none" /\ stderr = {} /\ \A r \in Requests : request[r].at = "away"
    BY <1>1 DEF Order
<1>3. CASE /\ stage' = "gone" /\ code' = "exit 1"
           /\ UNCHANGED <<listener, signalled, waited, pool, request, logs>>
    <2>1. ServingTypeOK' /\ Kept' /\ Told'
        BY <1>1, <1>2, <1>3, ToldMain DEF logs, ServingTypeOK, Kept, Consistent
    <2>2. Order'
        BY <1>1, <1>2, <1>3 DEF Order, Ending, Busy, Running
    <2>3. QED
        BY <2>1, <2>2 DEF IInv
<1>4. CASE /\ Exit("exit 1") /\ LogError(MainLine("configure"))
           /\ UNCHANGED <<listener, signalled, waited, pool, request>>
    <2>1. ServingTypeOK' /\ Kept' /\ Told'
        BY <1>1, <1>4, MainLogs DEF Exit, ServingTypeOK
    <2>2. Order'
        BY <1>1, <1>2, <1>4 DEF Order, Ending, Busy, Running, Exit
    <2>3. QED
        BY <2>1, <2>2 DEF IInv
<1>5. CASE /\ stage' = "serving" /\ listener' = "starting" /\ LogInfo(MainLine("listening"))
           /\ UNCHANGED <<code, signalled, waited, pool, request>>
    <2>1. ServingTypeOK' /\ Kept' /\ Told'
        BY <1>1, <1>5, MainLogs DEF ServingTypeOK
    <2>2. Order'
        BY <1>1, <1>2, <1>5 DEF Order, Ending, Busy, Running
    <2>3. QED
        BY <2>1, <2>2 DEF IInv
<1>6. QED
    BY <1>3, <1>4, <1>5 DEF Start

\* The other steps of run() that go on, or come to an end with a line.
LEMMA MainKeepsInv ==
    ASSUME IInv, ListenError \/ BeginShutdown \/ ShutdownDone \/ ShutdownTimesOut
                 \/ AwaitListener \/ ClosePool
    PROVE  IInv'
<1>1. ServingTypeOK /\ Order /\ Kept /\ Told
    BY DEF IInv
<1>2. CASE ListenError
    <2>1. ServingTypeOK' /\ Kept' /\ Told'
        BY <1>1, <1>2, MainLogs DEF ListenError, Exit, ServingTypeOK
    <2>2. Order'
        BY <1>1, <1>2 DEF ListenError, Exit, Order, Ending, Busy, Running
    <2>3. QED
        BY <2>1, <2>2 DEF IInv
<1>3. CASE BeginShutdown
    <2>1. ServingTypeOK' /\ Kept' /\ Told'
        BY <1>1, <1>3, MainLogs DEF BeginShutdown, ServingTypeOK
    <2>2. Order'
        BY <1>1, <1>3 DEF BeginShutdown, Order, Ending, Busy, Running
    <2>3. QED
        BY <2>1, <2>2 DEF IInv
<1>4. CASE ShutdownDone
    <2>1. ServingTypeOK' /\ Kept' /\ Told'
        BY <1>1, <1>4, MainLogs DEF ShutdownDone, ServingTypeOK
    <2>2. Order'
        BY <1>1, <1>4 DEF ShutdownDone, Order, Ending, Busy, Running
    <2>3. QED
        BY <2>1, <2>2 DEF IInv
<1>5. CASE ShutdownTimesOut
    <2>1. ServingTypeOK' /\ Kept' /\ Told'
        BY <1>1, <1>5, MainLogs DEF ShutdownTimesOut, Exit, ServingTypeOK
    <2>2. Order'
        BY <1>1, <1>5 DEF ShutdownTimesOut, Exit, Order, Ending, Busy, Running
    <2>3. QED
        BY <2>1, <2>2 DEF IInv
<1>6. CASE AwaitListener
    <2>1. /\ stage = "awaiting" /\ stage' = "closing" /\ code' \in {"exit 0", "exit 1"}
          /\ code' = "exit 1" => listener = "failed"
          /\ UNCHANGED <<listener, signalled, waited, pool, request>>
          /\ UNCHANGED logs \/ LogError(MainLine("listen"))
        BY <1>6 DEF AwaitListener, Exit
    <2>2. ServingTypeOK' /\ Kept' /\ Told'
        BY <1>1, <2>1, MainLogs DEF ServingTypeOK
    <2>3. Order'
        BY <1>1, <2>1 DEF Order, Ending, Busy, Running
    <2>4. QED
        BY <2>2, <2>3 DEF IInv
<1>7. CASE ClosePool
    <2>1. ServingTypeOK' /\ Kept' /\ Told'
        BY <1>1, <1>7, MainLogs DEF ClosePool, ServingTypeOK
    <2>2. Order'
        BY <1>1, <1>7 DEF ClosePool, Order, Ending, Busy, Running
    <2>3. QED
        BY <2>1, <2>2 DEF IInv
<1>8. QED
    BY <1>2, <1>3, <1>4, <1>5, <1>6, <1>7

\* The last flush loses a line only to a request that is still running.
LEMMA FlushLogsKeepsInv ==
    ASSUME IInv, FlushLogs
    PROVE  IInv'
<1>1. /\ ServingTypeOK /\ Order /\ Kept /\ Told /\ Consistent
      /\ stage = "flushing" /\ stage' = "gone" /\ CloseLogs
      /\ UNCHANGED <<code, listener, signalled, waited, pool, request, level, stderr, buffer>>
    BY DEF IInv, Kept, FlushLogs
<1>2. /\ file \subseteq file' /\ file' \subseteq file \cup buffer
      /\ disk' => disk
      /\ disk' /\ (\A r \in Requests : ~Running(r)) => file' = file \cup buffer
    BY <1>1 DEF CloseLogs
<1>3. disk' \in BOOLEAN
    BY <1>1, Zenon DEF CloseLogs, ServingTypeOK
<1>4. ServingTypeOK'
    BY <1>1, <1>2, <1>3 DEF ServingTypeOK
<1>5. Order'
    BY <1>1 DEF Order, Ending, Busy, Running
<1>6. (\A r \in Requests : ~Running(r))' => \A r \in Requests : ~Running(r)
    BY <1>1 DEF Running
<1>7. Kept'
    BY <1>1, <1>2, <1>6 DEF Kept, Consistent
<1>8. Told'
    BY <1>1, ToldMain
<1>9. QED
    BY <1>4, <1>5, <1>7, <1>8 DEF IInv

LEMMA OutsideKeepsInv ==
    ASSUME IInv, Tick \/ Kill \/ Signal \/ Listen \/ ListenEnds
    PROVE  IInv'
<1>1. ServingTypeOK /\ Order /\ Kept /\ Told /\ UNCHANGED request /\ UNCHANGED logs
    BY DEF IInv, Tick, Kill, Signal, Listen, ListenEnds
<1>2. stage' # "gone" \/ code' = "killed"
    BY DEF Tick, Kill, Signal, Listen, ListenEnds
<1>3. Kept' /\ Told'
    BY <1>1, <1>2, MainLogs
<1>4. CASE Tick
    <2>1. waited' \in 0 .. Grace
        <3>1. Grace \in Nat
            BY ServingAssumption
        <3>2. waited \in 0 .. Grace /\ waited < Grace /\ waited' = waited + 1
            BY <1>1, <1>4 DEF Tick, ServingTypeOK
        <3>3. QED
            BY <3>1, <3>2
    <2>2. ServingTypeOK'
        BY <1>1, <1>4, <2>1 DEF Tick, ServingTypeOK, logs
    <2>3. Order'
        BY <1>1, <1>4 DEF Tick, Order, Ending, Busy, Running, logs
    <2>4. QED
        BY <1>3, <2>2, <2>3 DEF IInv
<1>5. CASE Kill
    BY <1>1, <1>3, <1>5 DEF IInv, Kill, ServingTypeOK, Order, Ending, Busy, Running, logs
<1>6. CASE Signal
    BY <1>1, <1>3, <1>6 DEF IInv, Signal, ServingTypeOK, Order, Ending, Busy, Running, logs
<1>7. CASE Listen
    BY <1>1, <1>3, <1>7 DEF IInv, Listen, ServingTypeOK, Order, Ending, Busy, Running, logs
<1>8. CASE ListenEnds
    BY <1>1, <1>3, <1>8 DEF IInv, ListenEnds, ServingTypeOK, Order, Ending, Busy, Running, logs
<1>9. QED
    BY <1>4, <1>5, <1>6, <1>7, <1>8

LEMMA StepKeepsInv ==
    ASSUME IInv, [ServingNext]_servingVars
    PROVE  IInv'
<1>1. CASE Main
    BY <1>1, StartKeepsInv, MainKeepsInv, FlushLogsKeepsInv DEF Main
<1>2. CASE Tick \/ Kill \/ Signal \/ Listen \/ ListenEnds
    BY <1>2, OutsideKeepsInv
<1>3. ASSUME NEW r \in Requests, Serve(r)
      PROVE  IInv'
    BY <1>3, ServeKeepsInv
<1>4. CASE UNCHANGED servingVars
    <2>1. UNCHANGED process /\ UNCHANGED request /\ UNCHANGED logs
        BY <1>4 DEF servingVars
    <2>2. ServingTypeOK'
        BY <2>1 DEF IInv, ServingTypeOK, process, logs
    <2>3. Order'
        BY <2>1 DEF IInv, Order, Ending, Busy, Running, process, logs
    <2>4. Kept'
        BY <2>1 DEF IInv, Kept, Consistent, Running, process, logs
    <2>5. Told'
        BY <2>1 DEF IInv, Told, logs
    <2>6. QED
        BY <2>2, <2>3, <2>4, <2>5 DEF IInv
<1>5. QED
    BY <1>1, <1>2, <1>3, <1>4 DEF ServingNext

----------------------------------------------------------------------------
(* Theorems *)

LEMMA Invariance == ServingSpec => []IInv
<1>1. IInv /\ [ServingNext]_servingVars => IInv'
    BY StepKeepsInv
<1>2. QED
    BY <1>1, InitHolds, PTL DEF ServingSpec

\* Process, requests and log keep their types, and time does not pass the grace.
THEOREM ServingTypes == ServingSpec => []ServingTypeOK
<1>1. IInv => ServingTypeOK
    BY DEF IInv
<1>2. QED
    BY <1>1, Invariance, PTL

\* The deferred closing of the pool and the end of the process meet a running
\* request only after a kill, a dead listener, or all of Shutdown's grace.
THEOREM CutShortSafe == ServingSpec => []CutShortOnlyLate
<1>1. IInv => CutShortOnlyLate
    <2> SUFFICES ASSUME IInv, NEW r \in Requests, Running(r), ~pool \/ stage = "gone"
                 PROVE  code = "killed" \/ (code = "exit 1" /\ (listener = "failed" \/ waited = Grace))
        BY DEF CutShortOnlyLate
    <2>1. ServingTypeOK /\ Order
        BY DEF IInv
    <2>2. code \in {"killed", "exit 1", "exit 0"}
        BY <2>1 DEF ServingTypeOK, Order, Ending
    <2>3. Busy(r) /\ request[r].at # "away"
        BY DEF Busy, Running
    <2>4. code # "exit 0" /\ listener # "none"
        BY <2>1, <2>3 DEF Order
    <2>5. QED
        BY <2>1, <2>2, <2>4 DEF Order
<1>2. QED
    BY <1>1, Invariance, PTL

\* LOG_FILE holds nothing that stderr has not and, when the process ends by
\* itself with its disk intact and nobody running, everything stderr has.
THEOREM LogsSafe == ServingSpec => []LogsComplete
<1>1. IInv => LogsComplete
    BY DEF IInv, Kept, Consistent, LogsComplete
<1>2. QED
    BY <1>1, Invariance, PTL

\* One access line for each routed request that was answered, saying the status
\* that was sent and for whom; a panic has its line and marks the access line.
THEOREM LinesSafe == ServingSpec => []LinesTellAnswers
<1>1. IInv => LinesTellAnswers
    <2> SUFFICES ASSUME IInv, NEW r \in Requests
                 PROVE  /\ request[r].at = "answered" /\ level =>
                             /\ Cardinality(ServedIn(stderr, r)) = 1
                             /\ \A l \in ServedIn(stderr, r) :
                                  /\ l.status = request[r].sent /\ l.user = request[r].user
                                  /\ request[r].panicked => l.error
                        /\ request[r].panicked => PanicIn(stderr, r)
        BY DEF LinesTellAnswers, ServedIn, PanicIn
    <2>1. TellsOf(stderr, level, r, request[r])
        BY DEF IInv, Told
    <2>2. ASSUME request[r].at = "answered", level
          PROVE  /\ Cardinality(ServedIn(stderr, r)) = 1
                 /\ \A l \in ServedIn(stderr, r) :
                      /\ l.status = request[r].sent /\ l.user = request[r].user
                      /\ request[r].panicked => l.error
        <3>1. ServedIn(stderr, r) = {ServedLine(r, request[r])}
            BY <2>1, <2>2 DEF TellsOf
        <3>2. Cardinality(ServedIn(stderr, r)) = 1
            BY <3>1, FS_Singleton
        <3>3. /\ ServedLine(r, request[r]).status = request[r].status
              /\ ServedLine(r, request[r]).user = request[r].user
              /\ ServedLine(r, request[r]).error = request[r].error
            BY DEF ServedLine
        <3>4. request[r].sent = request[r].status /\ (request[r].panicked => request[r].error)
            BY <2>1, <2>2 DEF TellsOf
        <3>5. QED
            BY <3>1, <3>2, <3>3, <3>4
    <2>3. QED
        BY <2>1, <2>2 DEF TellsOf
<1>2. QED
    BY <1>1, Invariance, PTL
================================================================================
