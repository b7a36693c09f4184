----------------------------- MODULE TaskDashboard -----------------------------
(***************************************************************************)
(* The dashboard of an administrator, over the task tables: the queries of *)
(* taskDashboardData, which run one after the other outside a transaction, *)
(* the page that keeps their answer, and the completions clicked there.    *)
(*                                                                         *)
(* A completion is the transaction of TaskCompletion; a click is what the  *)
(* page does around it.  Which user's tab is open, and the session, are    *)
(* left out: every open task of every listed user can be clicked, even one *)
(* whose call is under way, since any answer draws its button anew.        *)
(***************************************************************************)
EXTENDS TaskCompletion

CONSTANTS
    Loads        \* calls of loadDashboard that may be under way

VARIABLES
    loads,       \* what each load has read, on the server, or the answer
    clicks,      \* what each click's call is doing; Completers name them
    shown,       \* state.assignees of the page, and the date they are for
    world        \* who else acts, and whether this page's calls overlap

dashVars == <<loads, clicks, shown, world>>
allVars == <<vars, dashVars>>

----------------------------------------------------------------------------
\* state.assignees and the answer it comes from: by user.
Lists == [points : 0 .. MaxInt, tasks : SUBSET Tasks, completed_tasks : SUBSET Tasks]
Assignees == UNION {[users -> Lists] : users \in SUBSET Users}

Quiet == [at |-> "quiet"]

\* left are the users whose lists are still to read; next is the one whose open
\* tasks are read and whose completed ones are not.
Loading ==
    [at : {"begun"}, day : 1 .. LastDay]
      \cup [at : {"reading"}, day : 1 .. LastDay, left : SUBSET Users, next : SUBSET Users,
            of : Assignees]

\* current: the assignee the click took from state.assignees is still in it.
Clicking ==
    [at : {"sent", "served", "answered"}, user : Users, task : Tasks, current : BOOLEAN,
     ok : BOOLEAN, points : 0 .. MaxInt]

\* "waits" and "hurries": nobody but the page that is open acts, no answer to a
\* click is lost, and the page is not refreshed while clicks are under way; it
\* "waits" for a click's answer before the next one or not.  "shared": anything
\* may happen.
Worlds == {"waits", "hurries", "shared"}

----------------------------------------------------------------------------
(* The queries *)

AvailableTasks(u, day) ==
    {t \in Tasks :
        /\ u \in assigned[t] /\ Due(tasks[t], day)
        /\ ~Completed([task |-> t, user |-> u, day |-> day])}

CompletedTasks(u, day) == {r.task : r \in {s \in completions : s.user = u /\ s.day = day}}

\* Mutant: without the OR EXISTS.
ListUnfinishedAssignees(day) == {u \in Users : AvailableTasks(u, day) # {}}

ListAvailableTaskAssignees(day) ==
    {u \in Users : \E t \in Tasks :
        /\ u \in assigned[t]
        /\ Due(tasks[t], day) \/ Completed([task |-> t, user |-> u, day |-> day])}

----------------------------------------------------------------------------
(* taskDashboardData and loadDashboard *)

DashInit ==
    /\ loads = [l \in Loads |-> Quiet]
    /\ clicks = [c \in Completers |-> Quiet]
    /\ shown = [date |-> 0, of |-> <<>>]
    /\ world \in Worlds

QuietPage == \A c \in Completers : clicks[c] = Quiet

\* Mutant: the day is the one the page shows.
loadDashboardShownDay(l) ==
    /\ loads[l] = Quiet
    /\ world # "shared" => QuietPage /\ \A m \in Loads : loads[m] = Quiet
    /\ loads' = [loads EXCEPT ![l] = [at |-> "begun", day |-> shown.date]]
    /\ UNCHANGED <<clicks, shown, world>>

\* The day is taken before the first query.
loadDashboard(l) ==
    /\ loads[l] = Quiet
    /\ world # "shared" => QuietPage /\ \A m \in Loads : loads[m] = Quiet
    /\ loads' = [loads EXCEPT ![l] = [at |-> "begun", day |-> today]]
    /\ UNCHANGED <<clicks, shown, world>>

\* The users' rows, points included, are read here and not again.
ListAssignees(l) ==
    LET day == loads[l].day
        users == ListAvailableTaskAssignees(day)
    IN  /\ loads[l].at = "begun"
        /\ loads' = [loads EXCEPT ![l] =
                       [at |-> "reading", day |-> day, left |-> users, next |-> {},
                        of |-> [u \in users |-> [points |-> points[u], tasks |-> {}, completed_tasks |-> {}]]]]
        /\ UNCHANGED <<clicks, shown, world>>

\* In the order of the users' names, of which the model knows nothing.
ListAvailable(l, u) ==
    /\ loads[l].at = "reading" /\ loads[l].next = {}
    /\ u \in loads[l].left
    /\ loads' = [loads EXCEPT ![l].of[u].tasks = AvailableTasks(u, loads[l].day),
                              ![l].left = @ \ {u}, ![l].next = {u}]
    /\ UNCHANGED <<clicks, shown, world>>

ListCompleted(l, u) ==
    /\ loads[l].at = "reading" /\ u \in loads[l].next
    /\ loads' = [loads EXCEPT ![l].of[u].completed_tasks = CompletedTasks(u, loads[l].day),
                              ![l].next = {}]
    /\ UNCHANGED <<clicks, shown, world>>

Answered(l) == loads[l].at = "reading" /\ loads[l].left = {} /\ loads[l].next = {}

\* The answer arrives: assignees that clicks hold on to are no longer shown.
endLoad(l) ==
    /\ Answered(l)
    /\ shown' = [date |-> loads[l].day, of |-> loads[l].of]
    /\ loads' = [loads EXCEPT ![l] = Quiet]
    /\ clicks' = [c \in Completers |->
                    IF clicks[c] = Quiet THEN Quiet ELSE [clicks[c] EXCEPT !.current = FALSE]]
    /\ UNCHANGED world

\* A query fails, or the answer is lost: an error in place of the list, until a
\* tab or another answer draws the old list again.
failLoad(l) ==
    /\ loads[l] # Quiet
    /\ loads' = [loads EXCEPT ![l] = Quiet]
    /\ UNCHANGED <<clicks, shown, world>>

----------------------------------------------------------------------------
(* completeDashboardTask in the page *)

clickComplete(c, u, t) ==
    /\ clicks[c] = Quiet /\ attempt[c] = NoAttempt
    /\ u \in DOMAIN shown.of /\ t \in shown.of[u].tasks
    /\ world # "shared" => \A l \in Loads : loads[l] = Quiet
    /\ world = "waits" => QuietPage
    /\ clicks' = [clicks EXCEPT ![c] =
                    [at |-> "sent", user |-> u, task |-> t, current |-> TRUE, ok |-> FALSE, points |-> 0]]
    /\ UNCHANGED <<loads, shown, world>>

\* The request reaches completeDashboardTask of the server.
serveClick(c) ==
    /\ clicks[c].at = "sent"
    /\ \E caller \in Users : completeDashboardTask(c, caller, clicks[c].user, clicks[c].task)
    /\ clicks' = [clicks EXCEPT ![c].at = "served"]
    /\ UNCHANGED <<loads, shown, world>>

\* Its transaction goes on; ended, it is answered: 200 with the user's row, or
\* an error.
workClick(c) ==
    /\ clicks[c].at = "served"
    /\ CompletionStep(c) \/ AbortCompletion(c)
    /\ clicks' = IF attempt'[c] # NoAttempt
                   THEN clicks
                   ELSE [clicks EXCEPT ![c].at = "answered",
                                       ![c].ok = completions' # completions,
                                       ![c].points = points'[clicks[c].user]]
    /\ UNCHANGED <<loads, shown, world>>

\* Mutant: the catch does not keep a refused task from being moved.
endClickAnyway(c) ==
    LET x == clicks[c] IN
    /\ x.at = "answered"
    /\ shown' = IF x.current
                  THEN [shown EXCEPT !.of[x.user] =
                          [points |-> x.points, tasks |-> @.tasks \ {x.task},
                           completed_tasks |-> @.completed_tasks \cup {x.task}]]
                  ELSE shown
    /\ clicks' = [clicks EXCEPT ![c] = Quiet]
    /\ UNCHANGED <<loads, world>>

\* The task goes from one list to the other and the user's row is replaced, in
\* the assignee that was there when the button was clicked.
endClick(c) ==
    LET x == clicks[c] IN
    /\ x.at = "answered"
    /\ shown' = IF x.ok /\ x.current
                  THEN [shown EXCEPT !.of[x.user] =
                          [points |-> x.points, tasks |-> @.tasks \ {x.task},
                           completed_tasks |-> @.completed_tasks \cup {x.task}]]
                  ELSE shown
    /\ clicks' = [clicks EXCEPT ![c] = Quiet]
    /\ UNCHANGED <<loads, world>>

\* The answer is lost.
failClick(c) ==
    /\ clicks[c].at = "answered" /\ world = "shared"
    /\ clicks' = [clicks EXCEPT ![c] = Quiet]
    /\ UNCHANGED <<loads, shown, world>>

----------------------------------------------------------------------------
\* Requests that are not this page's.  (Those of users who have not got the task
\* are refused and left out.)
Others ==
    \/ EditNext /\ UNCHANGED completionVars
    \/ \E c \in {d \in Completers : clicks[d] = Quiet} :
         /\ \/ \E t \in Tasks : \E u \in assigned[t] : completeTask(c, u, t)
            \/ CompletionStep(c)
            \/ AbortCompletion(c)
         /\ UNCHANGED editVars

DashNext ==
    \/ \E l \in Loads :
         /\ \/ loadDashboard(l)
            \/ ListAssignees(l)
            \/ \E u \in Users : ListAvailable(l, u) \/ ListCompleted(l, u)
            \/ endLoad(l)
            \/ failLoad(l)
         /\ UNCHANGED vars
    \/ \E c \in Completers :
         \/ \E u \in Users, t \in Tasks : clickComplete(c, u, t) /\ UNCHANGED vars
         \/ (serveClick(c) \/ workClick(c)) /\ UNCHANGED editVars
         \/ (endClick(c) \/ failClick(c)) /\ UNCHANGED vars
    \/ Others /\ world = "shared" /\ UNCHANGED dashVars
    \/ NextDay /\ UNCHANGED <<editVars, dashVars>>

DashSpec == Init /\ DashInit /\ [][DashNext]_allVars

----------------------------------------------------------------------------
(* Properties *)

\* Lists and calls hold values of their types.
DashTypeOK ==
    /\ loads \in [Loads -> Loading \cup {Quiet}]
    /\ \A l \in Loads : loads[l].at = "reading" => loads[l].left \cup loads[l].next \subseteq DOMAIN loads[l].of
    /\ clicks \in [Completers -> Clicking \cup {Quiet}]
    /\ shown \in [date : 0 .. LastDay, of : Assignees]
    /\ world \in Worlds

\* Completions come in between the queries of one load: a task may then be in
\* both lists of its user, but no task that is due is in neither of them, and
\* nobody who has one is missing.
NothingMissed ==
    Editors = {} =>
        \A l \in Loads, u \in Users, t \in Tasks :
            Answered(l) /\ u \in assigned[t] /\ Due(tasks[t], loads[l].day) =>
                /\ u \in DOMAIN loads[l].of
                /\ t \in loads[l].of[u].tasks \cup loads[l].of[u].completed_tasks

\* What a page shows as completed was completed, and the points were the user's,
\* whoever else acts and in whatever order answers come.  Somebody alone at the
\* dashboard, who does not refresh it while completions are under way, sees the
\* day as it is without ever refreshing it, whatever is refused or fails: the
\* lists differ from the tables by tasks still in flight, and the points do not
\* if one waits for each answer.
PageAgrees ==
    \A u \in DOMAIN shown.of :
        LET page == shown.of[u]
            moving == {clicks[c].task : c \in {d \in Completers : clicks[d] # Quiet /\ clicks[d].user = u}}
        IN  /\ page.completed_tasks \subseteq UNION {CompletedTasks(u, day) : day \in 1 .. today}
            /\ page.points =< points[u]
            /\ world # "shared" /\ shown.date = today =>
                 /\ page.tasks \ moving = AvailableTasks(u, today) \ moving
                 /\ page.completed_tasks \ moving = CompletedTasks(u, today) \ moving
                 /\ QuietPage /\ world = "waits" => page.points = points[u]
=============================================================================
