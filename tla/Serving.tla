-------------------------------- MODULE Serving --------------------------------
(***************************************************************************)
(* The life of the process and of the requests in it: run() from its       *)
(* configuration to the deferred closings, the goroutine that listens, the *)
(* chain of middlewares around every handler, and the log, which goes to   *)
(* stderr at once and through a buffer to LOG_FILE.  What a handler does   *)
(* to the tables is in the other modules; here it answers, fails, panics   *)
(* or never ends.  The order of lines, time and sizes are left out: a      *)
(* line that is split when the buffer fills counts as still in it.         *)
(***************************************************************************)
EXTENDS Naturals, FiniteSets

CONSTANTS
    Requests,    \* requests of clients, each on its own connection
    Users,       \* whom a protected request may act for
    None,        \* nobody
    Grace,       \* how long Shutdown waits, ten seconds, in ticks
    Room         \* lines in the 8192 bytes before the log file

VARIABLES
    stage,       \* where run() is
    code,        \* with what the process ends: "exit 0", "exit 1" or "killed"
    listener,    \* "none", "starting", "open", "failed" or "closed": its last
                 \* two states are in serverErr
    signalled,   \* NotifyContext has seen SIGINT or SIGTERM
    waited,      \* ticks of Shutdown
    pool,        \* the database handle is open
    request,     \* the requests, with their statusRecorder and LogContext
    level,       \* LOG_LEVEL: do lines of level info appear
    stderr,      \* lines on stderr
    buffer,      \* lines in bufferedFile
    file,        \* lines in LOG_FILE
    disk         \* bufferedFile has not failed (its error is sticky)

process == <<stage, code, listener, signalled, waited, pool>>
logs == <<level, stderr, buffer, file, disk>>
servingVars == <<process, request, logs>>

ASSUME ServingAssumption ==
    /\ Grace \in Nat /\ Room \in Nat \ {0}
    /\ None \notin Users
    /\ "main" \notin Requests

Statuses == {0, 200, 400, 401, 404, 500}

Line == [of : Requests \cup {"main"},
         what : {"served request", "panic recovered", "listening", "shutting down",
                 "shutdown", "listen", "configure"},
         status : Statuses, user : Users \cup {None}, error : BOOLEAN]

MainLine(what) ==
    [of |-> "main", what |-> what, status |-> 0, user |-> None,
     error |-> what \notin {"listening", "shutting down"}]

\* status and error are what the middlewares remember, sent is the header that
\* left, panicked what happened.
Fresh == [at |-> "away", user |-> None, status |-> 0, error |-> FALSE, sent |-> 0,
          panicked |-> FALSE]

Request == [at : {"away", "connected", "closed", "authenticating", "handling", "returning",
                  "answered", "unmatched"},
            user : Users \cup {None}, status : Statuses, error : BOOLEAN, sent : Statuses,
            panicked : BOOLEAN]

Running(r) == request[r].at \in {"authenticating", "handling", "returning"}

\* Shutdown waits for a connection that has not sent its request yet, too.
Busy(r) == Running(r) \/ request[r].at = "connected"

ServingInit ==
    /\ stage = "starting" /\ code = "none"
    /\ listener = "none" /\ signalled = FALSE /\ waited = 0 /\ pool = TRUE
    /\ request = [r \in Requests |-> Fresh]
    /\ level \in BOOLEAN
    /\ stderr = {} /\ buffer = {} /\ file = {} /\ disk = TRUE

----------------------------------------------------------------------------
(* The log *)

\* bufferedFile: a full buffer is written first, and once a write has failed
\* nothing is taken any more.
Buffer(l) ==
    \/ ~disk /\ UNCHANGED <<buffer, file, disk>>
    \/ disk /\ Cardinality(buffer) < Room /\ buffer' = buffer \cup {l} /\ UNCHANGED <<file, disk>>
    \/ disk /\ Cardinality(buffer) >= Room /\ file' = file \cup buffer /\ buffer' = {l}
            /\ UNCHANGED disk
    \/ disk /\ Cardinality(buffer) >= Room /\ disk' = FALSE /\ UNCHANGED <<buffer, file>>

\* logger.Error; logger.Info does nothing when the level is above info.
LogError(l) == stderr' = stderr \cup {l} /\ Buffer(l) /\ UNCHANGED level
LogInfo(l) == IF level THEN LogError(l) ELSE UNCHANGED logs

\* Mutant: the file is closed without flushing what is buffered.
CloseLogsUnflushed == UNCHANGED <<file, disk>>

\* closeLogs: flushes and closes.  The flush takes no lock: lines that a request
\* logs meanwhile race with it, and then any of the buffered lines may get lost.
CloseLogs ==
    \/ ~disk /\ UNCHANGED <<file, disk>>
    \/ disk /\ disk' = FALSE /\ UNCHANGED file
    \/ /\ disk /\ UNCHANGED disk
       /\ \E lost \in SUBSET buffer :
            /\ lost # {} => \E r \in Requests : Running(r)
            /\ file' = file \cup (buffer \ lost)

----------------------------------------------------------------------------
(* run() *)

Exit(c) == code' = c /\ stage' = "closing"

\* LOG_LEVEL or LOG_FILE is refused before there is a logger; any other setting,
\* or Postgres that does not answer, is logged.
Start ==
    /\ stage = "starting"
    /\ \/ /\ stage' = "gone" /\ code' = "exit 1"
          /\ UNCHANGED <<listener, signalled, waited, pool, request, logs>>
       \/ /\ Exit("exit 1") /\ LogError(MainLine("configure"))
          /\ UNCHANGED <<listener, signalled, waited, pool, request>>
       \/ /\ stage' = "serving" /\ listener' = "starting" /\ LogInfo(MainLine("listening"))
          /\ UNCHANGED <<code, signalled, waited, pool, request>>

ListenError ==
    /\ stage = "serving" /\ listener = "failed"
    /\ Exit("exit 1") /\ LogError(MainLine("listen"))
    /\ UNCHANGED <<listener, signalled, waited, pool, request>>

BeginShutdown ==
    /\ stage = "serving" /\ signalled
    /\ stage' = "draining" /\ LogInfo(MainLine("shutting down"))
    /\ UNCHANGED <<code, listener, signalled, waited, pool, request>>

\* Shutdown has seen every connection idle.
ShutdownDone ==
    /\ stage = "draining"
    /\ \A r \in Requests : ~Busy(r)
    /\ stage' = "awaiting"
    /\ UNCHANGED <<code, listener, signalled, waited, pool, request, logs>>

Tick ==
    /\ stage = "draining" /\ waited < Grace
    /\ waited' = waited + 1
    /\ UNCHANGED <<stage, code, listener, signalled, pool, request, logs>>

\* Mutant: Shutdown gets the context of the start, which has expired.
ShutdownExpired ==
    /\ stage = "draining"
    /\ Exit("exit 1") /\ LogError(MainLine("shutdown"))
    /\ UNCHANGED <<listener, signalled, waited, pool, request>>

\* Mutant: Shutdown gets a context without a deadline.
ShutdownNever == FALSE

ShutdownTimesOut ==
    /\ stage = "draining" /\ waited = Grace
    /\ Exit("exit 1") /\ LogError(MainLine("shutdown"))
    /\ UNCHANGED <<listener, signalled, waited, pool, request>>

\* <-serverErr, after Shutdown.
AwaitListener ==
    /\ stage = "awaiting"
    /\ \/ listener = "closed" /\ Exit("exit 0") /\ UNCHANGED logs
       \/ listener = "failed" /\ Exit("exit 1") /\ LogError(MainLine("listen"))
    /\ UNCHANGED <<listener, signalled, waited, pool, request>>

\* The deferred calls: the pool first, the log last.
ClosePool ==
    /\ stage = "closing"
    /\ pool' = FALSE /\ stage' = "flushing"
    /\ UNCHANGED <<code, listener, signalled, waited, request, logs>>

FlushLogs ==
    /\ stage = "flushing"
    /\ CloseLogs /\ stage' = "gone"
    /\ UNCHANGED <<code, listener, signalled, waited, pool, request, level, stderr, buffer>>

Main ==
    \/ Start \/ ListenError \/ BeginShutdown \/ ShutdownDone \/ ShutdownTimesOut
    \/ AwaitListener \/ ClosePool \/ FlushLogs

\* SIGKILL at any time; SIGINT and SIGTERM before NotifyContext and after stop().
Kill ==
    /\ stage # "gone"
    /\ stage' = "gone" /\ code' = "killed"
    /\ UNCHANGED <<listener, signalled, waited, pool, request, logs>>

Signal ==
    /\ stage = "serving" /\ ~signalled
    /\ signalled' = TRUE
    /\ UNCHANGED <<stage, code, listener, waited, pool, request, logs>>

----------------------------------------------------------------------------
(* The goroutine of ListenAndServe *)

\* Shutdown has been called.
ShuttingDown == signalled /\ stage # "serving"

\* The port is taken, or opened; after Shutdown it is not opened any more.
Listen ==
    /\ stage # "gone" /\ listener = "starting"
    /\ listener' \in IF ShuttingDown THEN {"closed"} ELSE {"open", "failed"}
    /\ UNCHANGED <<stage, code, signalled, waited, pool, request, logs>>

\* Accept fails for good, or because Shutdown closed the listener.
ListenEnds ==
    /\ stage # "gone" /\ listener = "open"
    /\ listener' = IF ShuttingDown THEN "closed" ELSE "failed"
    /\ UNCHANGED <<stage, code, signalled, waited, pool, request, logs>>

Listener == Listen \/ (ShuttingDown /\ ListenEnds)

----------------------------------------------------------------------------
(* Requests *)

Put(r, q) ==
    /\ stage # "gone"
    /\ request' = [request EXCEPT ![r] = q]
    /\ UNCHANGED process

Connect(r) ==
    /\ request[r].at = "away" /\ listener = "open" /\ ~ShuttingDown
    /\ Put(r, [request[r] EXCEPT !.at = "connected"]) /\ UNCHANGED logs

\* Shutdown takes a connection that has sent nothing for five seconds for idle.
CloseNew(r) ==
    /\ request[r].at = "connected" /\ stage = "draining"
    /\ Put(r, [request[r] EXCEPT !.at = "closed"]) /\ UNCHANGED logs

\* statusRecorder
WriteHeader(q, s) ==
    IF q.status # 0 THEN q
    ELSE [q EXCEPT !.status = s, !.sent = IF q.sent = 0 THEN s ELSE q.sent]

\* What the mux has no route for is answered outside the middlewares.
Route(r) ==
    LET q == request[r] IN
    /\ q.at = "connected"
    /\ \/ Put(r, [q EXCEPT !.at = "unmatched", !.sent = 404])
       \/ \E next \in {"authenticating", "handling"} : Put(r, [q EXCEPT !.at = next])
    /\ UNCHANGED logs

\* authMiddleware; no credential is accepted once the pool is closed.
Authenticate(r) ==
    LET q == request[r] IN
    /\ q.at = "authenticating"
    /\ \/ Put(r, WriteHeader([q EXCEPT !.at = "returning", !.error = TRUE], 401))
       \/ pool /\ \E u \in Users : Put(r, [q EXCEPT !.at = "handling", !.user = u])
    /\ UNCHANGED logs

\* The handler writes its answer: done, refused, or a query that failed.  Not
\* every handler needs the pool.
Respond(r) ==
    LET q == request[r] IN
    /\ q.at = "handling" /\ q.status = 0
    /\ \E s \in {200, 400, 500} :
         Put(r, WriteHeader([q EXCEPT !.error = s # 200], s))
    /\ UNCHANGED logs

\* It returns, having answered or not.
Return(r) ==
    /\ request[r].at = "handling"
    /\ Put(r, [request[r] EXCEPT !.at = "returning"]) /\ UNCHANGED logs

\* Mutant: recoverMiddleware runs outside of loggingMiddleware.
RecoveredOutside(r, q) ==
    [q EXCEPT !.at = "answered", !.panicked = TRUE, !.sent = IF q.sent = 0 THEN 500 ELSE q.sent]

\* The deferred function of recoverMiddleware, after its line.
Recovered(r, q) ==
    WriteHeader([q EXCEPT !.at = "returning", !.panicked = TRUE, !.error = TRUE], 500)

Panic(r) ==
    /\ request[r].at = "handling"
    /\ LogError([of |-> r, what |-> "panic recovered", status |-> 0, user |-> None, error |-> TRUE])
    /\ Put(r, Recovered(r, request[r]))

\* The rest of loggingMiddleware: a handler that wrote nothing answers 200.
ServedRequest(r) ==
    LET q == IF request[r].status = 0 THEN WriteHeader(request[r], 200) ELSE request[r] IN
    /\ q.at = "returning"
    /\ LogInfo([of |-> r, what |-> "served request", status |-> q.status, user |-> q.user,
                error |-> q.error])
    /\ Put(r, [q EXCEPT !.at = "answered"])

Serve(r) ==
    \/ Connect(r) \/ CloseNew(r) \/ Route(r) \/ Authenticate(r)
    \/ Respond(r) \/ Return(r) \/ Panic(r) \/ ServedRequest(r)

ServingNext == Main \/ Tick \/ Kill \/ Signal \/ Listen \/ ListenEnds \/ \E r \in Requests : Serve(r)

ServingSpec == ServingInit /\ [][ServingNext]_servingVars

\* run() and the listener go on and time passes; handlers may hang for ever.
FairServingSpec ==
    /\ ServingSpec
    /\ WF_servingVars(Main) /\ WF_servingVars(Listener) /\ WF_servingVars(Tick)

----------------------------------------------------------------------------
(* Properties *)

ServingTypeOK ==
    /\ stage \in {"starting", "serving", "draining", "awaiting", "closing", "flushing", "gone"}
    /\ code \in {"none", "exit 0", "exit 1", "killed"}
    /\ listener \in {"none", "starting", "open", "failed", "closed"}
    /\ signalled \in BOOLEAN /\ pool \in BOOLEAN /\ level \in BOOLEAN /\ disk \in BOOLEAN
    /\ waited \in 0 .. Grace
    /\ request \in [Requests -> Request]
    /\ stderr \subseteq Line /\ buffer \subseteq Line /\ file \subseteq Line

\* A request loses its database, or its answer, only when the process is killed,
\* the listener has failed, or the whole grace of Shutdown has passed; exit code
\* 0 says that every request was answered.
CutShortOnlyLate ==
    \A r \in Requests :
        Running(r) /\ (~pool \/ stage = "gone") =>
            code = "killed" \/ (code = "exit 1" /\ (listener = "failed" \/ waited = Grace))

\* What README says of LOG_FILE: unless the disk fails, the process is killed or
\* leaves requests running, every line of stderr is in the file when it ends.
LogsComplete ==
    /\ file \subseteq stderr
    /\ stage = "gone" /\ code # "killed" /\ disk /\ (\A r \in Requests : ~Running(r)) =>
          file = stderr

\* Each routed request that was answered left one access line, with the status
\* the client got and whom it acted for; a panic never passes without a line.
LinesTellAnswers ==
    \A r \in Requests :
        LET q == request[r]
            lines == {l \in stderr : l.of = r /\ l.what = "served request"} IN
        /\ q.at = "answered" /\ level =>
             /\ Cardinality(lines) = 1
             /\ \A l \in lines :
                  l.status = q.sent /\ l.user = q.user /\ (q.panicked => l.error)
        /\ q.panicked => \E l \in stderr : l.of = r /\ l.what = "panic recovered"

\* Asked to stop, or without its listener, the process ends, whatever handlers do.
Stops == (signalled \/ listener = "failed") ~> stage = "gone"
=============================================================================
