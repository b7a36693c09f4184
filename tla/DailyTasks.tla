------------------------------ MODULE DailyTasks ------------------------------
(***************************************************************************)
(* The page of a user who is no administrator (tasks.js): the open tasks   *)
(* of the day, the balance in the header, and the completions clicked      *)
(* there.  It is opened after a dashboard was used, with what localStorage *)
(* kept of the user, and works over the same tables and with the same      *)
(* clicks.  Of the session the user's balance is kept and nothing else.    *)
(***************************************************************************)
EXTENDS TaskDashboard

CONSTANTS
    Member       \* whose page it is

ASSUME DailyAssumption == Member \in Users \ Admins

VARIABLES
    daily,       \* state.dailyTasks with the day they are of, and the points of
                 \* state.session.user, which every change writes to localStorage;
                 \* heard is history: the points came from the server since the
                 \* page was opened
    fetches      \* the hydration and loads under way

dailyVars == <<daily, fetches>>
allDailyVars == <<allVars, dailyVars>>

----------------------------------------------------------------------------
DailyState ==
    [open : BOOLEAN, date : 0 .. LastDay, tasks : SUBSET Tasks, points : 0 .. MaxInt, heard : BOOLEAN]

\* The page as readSession begins it, with the balance that localStorage has.
Opened(saved) == [open |-> TRUE, date |-> 0, tasks |-> {}, points |-> saved, heard |-> FALSE]

\* What /api/me and /api/me/tasks answer.
Fetching ==
    [what : {"me", "tasks"}, at : {"sent", "answered"}, day : 0 .. LastDay,
     tasks : SUBSET Tasks, points : 0 .. MaxInt]

Fetch(what) == [what |-> what, at |-> "sent", day |-> 0, tasks |-> {}, points |-> 0]

QuietFetches == \A l \in Loads : fetches[l] = Quiet

\* No page is open yet; the login has left the balance of that time.
DailyInit ==
    /\ DashInit
    /\ daily = [Opened(0) EXCEPT !.open = FALSE]
    /\ fetches = [l \in Loads |-> Quiet]

----------------------------------------------------------------------------
(* The server: one statement each *)

\* The middleware reads the user's row.
me(l) ==
    /\ fetches[l].at = "sent" /\ fetches[l].what = "me"
    /\ fetches' = [fetches EXCEPT ![l].at = "answered", ![l].points = points[Member]]
    /\ UNCHANGED daily

listMyDailyTasks(l) ==
    /\ fetches[l].at = "sent" /\ fetches[l].what = "tasks"
    /\ fetches' = [fetches EXCEPT ![l].at = "answered", ![l].day = today,
                                  ![l].tasks = AvailableTasks(Member, today)]
    /\ UNCHANGED daily

----------------------------------------------------------------------------
(* The page *)

\* The page is opened or loaded again, and the dashboard left; localStorage has
\* what this page left there, however old, or what another page or a login has
\* just written.  Then hydrateInitialView begins with /api/me.
init ==
    /\ QuietPage /\ QuietFetches /\ \A l \in Loads : loads[l] = Quiet
    /\ \E saved \in {daily.points, points[Member]} : daily' = Opened(saved)
    /\ shown' = [date |-> 0, of |-> <<>>]
    /\ \E l \in Loads : fetches' = [fetches EXCEPT ![l] = Fetch("me")]
    /\ UNCHANGED <<loads, clicks, world>>

\* The user is replaced, or an error ignored; then the tasks are loaded.
hydrateCurrentUser(l) ==
    /\ fetches[l] # Quiet /\ fetches[l].what = "me"
    /\ \/ /\ fetches[l].at = "answered"
          /\ daily' = [daily EXCEPT !.points = fetches[l].points, !.heard = TRUE]
       \/ UNCHANGED daily
    /\ fetches' = [fetches EXCEPT ![l] = Fetch("tasks")]

\* The Refresh button.
loadTaskView(l) ==
    /\ fetches[l] = Quiet
    /\ world # "shared" => QuietPage /\ QuietFetches
    /\ fetches' = [fetches EXCEPT ![l] = Fetch("tasks")]
    /\ UNCHANGED daily

\* The list is replaced, or an error drawn in its place until it is drawn again.
loadDailyTasks(l) ==
    /\ fetches[l] # Quiet /\ fetches[l].what = "tasks"
    /\ \/ /\ fetches[l].at = "answered"
          /\ daily' = [daily EXCEPT !.date = fetches[l].day, !.tasks = fetches[l].tasks]
       \/ UNCHANGED daily
    /\ fetches' = [fetches EXCEPT ![l] = Quiet]

\* completeTask up to its request.
clickTask(c, t) ==
    /\ clicks[c] = Quiet /\ attempt[c] = NoAttempt
    /\ t \in daily.tasks
    /\ world # "shared" => QuietFetches
    /\ world = "waits" => QuietPage
    /\ clicks' = [clicks EXCEPT ![c] =
                    [at |-> "sent", user |-> Member, task |-> t, current |-> TRUE,
                     ok |-> FALSE, points |-> 0]]
    /\ UNCHANGED dailyVars

serveTask(c) ==
    /\ clicks[c].at = "sent"
    /\ completeTask(c, Member, clicks[c].task)
    /\ clicks' = [clicks EXCEPT ![c].at = "served"]
    /\ UNCHANGED dailyVars

\* Mutant: the user of the answer is not kept.
endTaskOldUser(c) ==
    /\ clicks[c].at = "answered"
    /\ daily' = IF clicks[c].ok THEN [daily EXCEPT !.tasks = @ \ {clicks[c].task}] ELSE daily
    /\ clicks' = [clicks EXCEPT ![c] = Quiet]
    /\ UNCHANGED fetches

\* completeTask after its answer: the task leaves the list that is there now.
endTask(c) ==
    LET x == clicks[c] IN
    /\ x.at = "answered"
    /\ daily' = IF x.ok
                  THEN [daily EXCEPT !.tasks = @ \ {x.task}, !.points = x.points, !.heard = TRUE]
                  ELSE daily
    /\ clicks' = [clicks EXCEPT ![c] = Quiet]
    /\ UNCHANGED fetches

----------------------------------------------------------------------------
PageStep ==
    \/ \E l \in Loads :
         /\ \/ me(l) \/ listMyDailyTasks(l)
            \/ hydrateCurrentUser(l) \/ loadTaskView(l) \/ loadDailyTasks(l)
         /\ UNCHANGED <<vars, clicks>>
    \/ \E c \in Completers :
         \/ \E t \in Tasks : clickTask(c, t) /\ UNCHANGED vars
         \/ serveTask(c) /\ UNCHANGED editVars
         \/ endTask(c) /\ UNCHANGED vars

DailyNext ==
    \/ init /\ UNCHANGED vars
    \/ ~daily.open /\ DashNext /\ UNCHANGED dailyVars
    \/ daily.open /\ PageStep /\ UNCHANGED <<loads, shown, world>>
    \/ /\ daily.open
       /\ \E c \in Completers :
            \/ workClick(c) /\ UNCHANGED editVars
            \/ failClick(c) /\ UNCHANGED vars
       /\ UNCHANGED dailyVars
    \/ daily.open /\ Others /\ world = "shared" /\ UNCHANGED <<dashVars, dailyVars>>
    \/ daily.open /\ NextDay /\ UNCHANGED <<editVars, dashVars, dailyVars>>

DailySpec == Init /\ DailyInit /\ [][DailyNext]_allDailyVars

----------------------------------------------------------------------------
(* Properties *)

\* Lists and calls of both pages hold values of their types.
DailyTypeOK ==
    /\ DashTypeOK
    /\ daily \in DailyState
    /\ fetches \in [Loads -> Fetching \cup {Quiet}]

\* The balance in the header was the user's, in whatever order hydration, loads
\* and completions are answered and however old the copy was the page began with.
\* A user alone at the page, who does not refresh it while completions are under
\* way, needs no refresh until midnight: the list differs from the tables by tasks
\* still in flight, whatever is refused or fails.  Of one who waits for each
\* answer the balance is right from the first answer on that brings it, and stays
\* so; until then, as long as /api/me fails and nothing is completed, it is the
\* copy.
DailyAgrees ==
    daily.open =>
        LET moving == {clicks[c].task : c \in {d \in Completers : clicks[d] # Quiet}} IN
        /\ daily.points =< points[Member]
        /\ world # "shared" /\ daily.date = today =>
             daily.tasks \ moving = AvailableTasks(Member, today) \ moving
        /\ world = "waits" /\ daily.heard /\ QuietPage => daily.points = points[Member]
=============================================================================
