---------------------------- MODULE DashboardProofs ----------------------------
(***************************************************************************)
(* Proofs about TaskDashboard and DailyTasks for any number of people,     *)
(* tasks, loads and clicks.  Whatever the pages do, the tables take steps  *)
(* of TaskCompletion, so its theorems hold here, too; what a load or a     *)
(* click has read only becomes less than what the tables say.              *)
(***************************************************************************)
EXTENDS DailyTasks, TaskProofs

----------------------------------------------------------------------------
(* Types *)

Reading ==
    [at : {"reading"}, day : 1 .. LastDay, left : SUBSET Users, next : SUBSET Users, of : Assignees]

ReadTasks(x, u, found) == [x EXCEPT !.of[u].tasks = found, !.left = @ \ {u}, !.next = {u}]

ReadCompleted(x, u, found) == [x EXCEPT !.of[u].completed_tasks = found, !.next = {}]

LEMMA ListsWith ==
    ASSUME NEW of \in Assignees, NEW u \in DOMAIN of, NEW r \in Lists
    PROVE  /\ [of EXCEPT ![u] = r] \in Assignees
           /\ DOMAIN [of EXCEPT ![u] = r] = DOMAIN of
           /\ \A v \in DOMAIN of : [of EXCEPT ![u] = r][v] = IF v = u THEN r ELSE of[v]
BY DEF Assignees

LEMMA ListOf ==
    ASSUME NEW of \in Assignees
    PROVE  DOMAIN of \subseteq Users /\ \A u \in DOMAIN of : u \in Users /\ of[u] \in Lists
BY DEF Assignees

LEMMA ReadTasksKnown ==
    ASSUME NEW x \in Reading, NEW u \in DOMAIN x.of, NEW found \in SUBSET Tasks
    PROVE  LET y == ReadTasks(x, u, found) IN
           /\ y \in Reading /\ y.day = x.day /\ y.left = x.left \ {u} /\ y.next = {u}
           /\ y.at = "reading" /\ DOMAIN y.of = DOMAIN x.of
           /\ \A v \in DOMAIN x.of :
                /\ v # u => y.of[v] = x.of[v]
                /\ v = u => /\ y.of[v].points = x.of[v].points /\ y.of[v].tasks = found
                            /\ y.of[v].completed_tasks = x.of[v].completed_tasks
<1>1. /\ x.of \in Assignees /\ x.of[u] \in Lists /\ u \in Users
    BY ListOf DEF Reading
<1>2. PICK r : r = [x.of[u] EXCEPT !.tasks = found]
    OBVIOUS
<1>3. /\ r \in Lists /\ r.points = x.of[u].points /\ r.tasks = found
      /\ r.completed_tasks = x.of[u].completed_tasks
    BY <1>1, <1>2 DEF Lists
<1>4. PICK of : of = [x.of EXCEPT ![u] = r]
    OBVIOUS
<1>5. /\ of \in Assignees /\ DOMAIN of = DOMAIN x.of
      /\ \A v \in DOMAIN x.of : of[v] = IF v = u THEN r ELSE x.of[v]
    BY <1>1, <1>3, <1>4, ListsWith
<1>6. ReadTasks(x, u, found) = [x EXCEPT !.of = of, !.left = x.left \ {u}, !.next = {u}]
    BY <1>2, <1>4 DEF ReadTasks, Reading
<1>7. LET y == [x EXCEPT !.of = of, !.left = x.left \ {u}, !.next = {u}] IN
      /\ y \in Reading /\ y.day = x.day /\ y.left = x.left \ {u} /\ y.next = {u}
      /\ y.at = "reading" /\ y.of = of
    BY <1>1, <1>5 DEF Reading
<1>8. QED
    BY <1>3, <1>5, <1>6, <1>7

LEMMA ReadCompletedKnown ==
    ASSUME NEW x \in Reading, NEW u \in DOMAIN x.of, NEW found \in SUBSET Tasks
    PROVE  LET y == ReadCompleted(x, u, found) IN
           /\ y \in Reading /\ y.day = x.day /\ y.left = x.left /\ y.next = {}
           /\ y.at = "reading" /\ DOMAIN y.of = DOMAIN x.of
           /\ \A v \in DOMAIN x.of :
                /\ v # u => y.of[v] = x.of[v]
                /\ v = u => /\ y.of[v].points = x.of[v].points /\ y.of[v].tasks = x.of[v].tasks
                            /\ y.of[v].completed_tasks = found
<1>1. /\ x.of \in Assignees /\ x.of[u] \in Lists /\ u \in Users
    BY ListOf DEF Reading
<1>2. PICK r : r = [x.of[u] EXCEPT !.completed_tasks = found]
    OBVIOUS
<1>3. /\ r \in Lists /\ r.points = x.of[u].points /\ r.tasks = x.of[u].tasks
      /\ r.completed_tasks = found
    BY <1>1, <1>2 DEF Lists
<1>4. PICK of : of = [x.of EXCEPT ![u] = r]
    OBVIOUS
<1>5. /\ of \in Assignees /\ DOMAIN of = DOMAIN x.of
      /\ \A v \in DOMAIN x.of : of[v] = IF v = u THEN r ELSE x.of[v]
    BY <1>1, <1>3, <1>4, ListsWith
<1>6. ReadCompleted(x, u, found) = [x EXCEPT !.of = of, !.next = {}]
    BY <1>2, <1>4 DEF ReadCompleted, Reading
<1>7. LET y == [x EXCEPT !.of = of, !.next = {}] IN
      /\ y \in Reading /\ y.day = x.day /\ y.left = x.left /\ y.next = {}
      /\ y.at = "reading" /\ y.of = of
    BY <1>1, <1>5 DEF Reading
<1>8. QED
    BY <1>3, <1>5, <1>6, <1>7
\* The tables take steps of TaskCompletion.
LEMMA TablesStep ==
    ASSUME IInv, DailyTypeOK, [DailyNext]_allDailyVars
    PROVE  [Next]_vars
<1>0. clicks \in [Completers -> Clicking \cup {Quiet}] /\ assigned \in [Tasks -> SUBSET Users]
    BY DEF DailyTypeOK, DashTypeOK, IInv, EditInv, EditTypeOK
<1>1. CASE UNCHANGED allDailyVars
    BY <1>1 DEF allDailyVars, allVars
<1>2. ASSUME NEW c \in Completers, serveClick(c) \/ serveTask(c), UNCHANGED editVars
      PROVE  Next
    <2>1. clicks[c].user \in UserIds /\ clicks[c].task \in Tasks
        BY <1>0, <1>2, RulesAssumption DEF serveClick, serveTask, Clicking, Quiet
    <2>2. CASE serveClick(c)
        BY <1>2, <2>1, <2>2 DEF serveClick, Next, CompletionNext
    <2>3. CASE serveTask(c)
        BY <1>2, <2>1, <2>3, DailyAssumption DEF serveTask, Next, CompletionNext
    <2>4. QED
        BY <1>2, <2>2, <2>3
<1>3. ASSUME NEW c \in Completers, workClick(c), UNCHANGED editVars PROVE Next
    BY <1>3 DEF workClick, Next, CompletionNext
<1>4. CASE Others
    BY <1>0, <1>4 DEF Others, Next, CompletionNext
<1>5. CASE NextDay /\ UNCHANGED editVars
    BY <1>5 DEF Next, CompletionNext
<1>6. CASE DashNext
    BY <1>2, <1>3, <1>4, <1>5, <1>6 DEF DashNext
<1>7. CASE PageStep
    BY <1>2, <1>7 DEF PageStep
<1>8. QED
    BY <1>1, <1>3, <1>4, <1>5, <1>6, <1>7 DEF DailyNext

\* The page without lists.
LEMMA EmptyKnown == <<>> \in Assignees /\ DOMAIN <<>> = {}
<1>1. \A f \in [{} -> Lists] : f \in Assignees
    BY DEF Assignees
<1>2. <<>> = [u \in {} |-> {}]
    OBVIOUS
<1>3. QED
    BY <1>1, <1>2

LEMMA LoadTypes ==
    ASSUME IInv, DailyTypeOK, NEW l \in Loads, NEW u \in Users,
           loadDashboard(l) \/ ListAssignees(l) \/ ListAvailable(l, u) \/ ListCompleted(l, u)
             \/ endLoad(l) \/ failLoad(l),
           UNCHANGED <<vars, dailyVars>>
    PROVE  DailyTypeOK'
<1>0. /\ loads \in [Loads -> Loading \cup {Quiet}] /\ today \in 1 .. LastDay
      /\ points \in [Users -> 0 .. MaxInt]
      /\ clicks \in [Completers -> Clicking \cup {Quiet}]
      /\ shown \in [date : 0 .. LastDay, of : Assignees] /\ world \in Worlds
      /\ loads[l].at = "reading" =>
           loads[l] \in Reading /\ loads[l].left \cup loads[l].next \subseteq DOMAIN loads[l].of
    BY DEF DailyTypeOK, DashTypeOK, IInv, CompletionInv, TypeOK, Loading, Quiet, Reading
<1>1. ASSUME NEW x \in Loading \cup {Quiet}, loads' = [loads EXCEPT ![l] = x],
             x.at = "reading" => x.left \cup x.next \subseteq DOMAIN x.of
      PROVE  /\ loads' \in [Loads -> Loading \cup {Quiet}]
             /\ \A m \in Loads : loads'[m].at = "reading" =>
                  loads'[m].left \cup loads'[m].next \subseteq DOMAIN loads'[m].of
    BY <1>0, <1>1 DEF DailyTypeOK, DashTypeOK
<1>2. AvailableTasks(u, loads[l].day) \subseteq Tasks
    BY DEF AvailableTasks
<1>3. CompletedTasks(u, loads[l].day) \subseteq Tasks
    BY DEF CompletedTasks, IInv, CompletionInv, TypeOK, Completion
<1>4. CASE loadDashboard(l)
    <2>1. [at |-> "begun", day |-> today] \in Loading
        BY <1>0 DEF Loading
    <2>2. QED
        BY <1>1, <1>4, <2>1 DEF loadDashboard, DailyTypeOK, DashTypeOK, dailyVars, vars
<1>5. CASE ListAssignees(l)
    <2>1. PICK users \in SUBSET Users : users = ListAvailableTaskAssignees(loads[l].day)
        BY DEF ListAvailableTaskAssignees
    <2>2. PICK of : of = [v \in users |-> [points |-> points[v], tasks |-> {}, completed_tasks |-> {}]]
        OBVIOUS
    <2>3. of \in Assignees /\ DOMAIN of = users
        BY <1>0, <2>2 DEF Assignees, Lists
    <2>4. loads[l].day \in 1 .. LastDay
        BY <1>0, <1>5 DEF ListAssignees, Loading, Quiet
    <2>5. PICK x : x = [at |-> "reading", day |-> loads[l].day, left |-> users, next |-> {}, of |-> of]
        OBVIOUS
    <2>6. x \in Loading /\ x.left = users /\ x.next = {} /\ x.of = of
        BY <2>3, <2>4, <2>5 DEF Loading
    <2>7. loads' = [loads EXCEPT ![l] = x]
        BY <1>5, <2>1, <2>2, <2>5 DEF ListAssignees
    <2>8. QED
        BY <1>1, <1>5, <2>3, <2>6, <2>7 DEF ListAssignees, DailyTypeOK, DashTypeOK, dailyVars, vars
<1>6. CASE ListAvailable(l, u)
    <2>1. PICK x : x = ReadTasks(loads[l], u, AvailableTasks(u, loads[l].day))
        OBVIOUS
    <2>2. /\ x \in Reading /\ x.left = loads[l].left \ {u} /\ x.next = {u}
          /\ DOMAIN x.of = DOMAIN loads[l].of /\ u \in DOMAIN x.of
        BY <1>0, <1>2, <1>6, <2>1, ReadTasksKnown DEF ListAvailable
    <2>3. loads' = [loads EXCEPT ![l] = x]
        BY <1>6, <2>1 DEF ListAvailable, ReadTasks
    <2>4. x \in Loading \cup {Quiet}
        BY <2>2 DEF Loading, Reading
    <2>5. QED
        BY <1>0, <1>1, <1>6, <2>2, <2>3, <2>4 DEF ListAvailable, DailyTypeOK, DashTypeOK, dailyVars, vars
<1>7. CASE ListCompleted(l, u)
    <2>1. PICK x : x = ReadCompleted(loads[l], u, CompletedTasks(u, loads[l].day))
        OBVIOUS
    <2>2. /\ x \in Reading /\ x.left = loads[l].left /\ x.next = {}
          /\ DOMAIN x.of = DOMAIN loads[l].of
        BY <1>0, <1>3, <1>7, <2>1, ReadCompletedKnown DEF ListCompleted
    <2>3. loads' = [loads EXCEPT ![l] = x]
        BY <1>7, <2>1 DEF ListCompleted, ReadCompleted
    <2>4. x \in Loading \cup {Quiet}
        BY <2>2 DEF Loading, Reading
    <2>5. QED
        BY <1>0, <1>1, <1>7, <2>2, <2>3, <2>4 DEF ListCompleted, DailyTypeOK, DashTypeOK, dailyVars, vars
<1>8. ASSUME loads' = [loads EXCEPT ![l] = Quiet]
      PROVE  /\ loads' \in [Loads -> Loading \cup {Quiet}]
             /\ \A m \in Loads : loads'[m].at = "reading" =>
                  loads'[m].left \cup loads'[m].next \subseteq DOMAIN loads'[m].of
    BY <1>1, <1>8 DEF Quiet
<1>9. CASE endLoad(l)
    <2>1. shown' \in [date : 0 .. LastDay, of : Assignees]
        BY <1>0, <1>9 DEF endLoad, Answered, Reading
    <2>2. \A c \in Completers : clicks[c] # Quiet => [clicks[c] EXCEPT !.current = FALSE] \in Clicking
        BY <1>0, ZenonT(30) DEF Clicking
    <2>3. clicks' \in [Completers -> Clicking \cup {Quiet}]
        BY <2>2, <1>9 DEF endLoad
    <2>4. QED
        BY <1>8, <1>9, <2>1, <2>3 DEF endLoad, DailyTypeOK, DashTypeOK, dailyVars, vars
<1>10. CASE failLoad(l)
    BY <1>8, <1>10 DEF failLoad, DailyTypeOK, DashTypeOK, dailyVars, vars
<1>11. QED
    BY <1>4, <1>5, <1>6, <1>7, <1>9, <1>10

LEMMA ClickTypes ==
    ASSUME IInv, DailyTypeOK, IInv', NEW c \in Completers, NEW u \in Users, NEW t \in Tasks,
           \/ clickComplete(c, u, t) \/ serveClick(c) \/ workClick(c) \/ failClick(c)
           \/ clickTask(c, t) /\ UNCHANGED <<loads, shown, world>>
           \/ serveTask(c) /\ UNCHANGED <<loads, shown, world>>,
           UNCHANGED dailyVars
    PROVE  DailyTypeOK'
<1>0. /\ clicks \in [Completers -> Clicking \cup {Quiet}] /\ points' \in [Users -> 0 .. MaxInt]
      /\ Member \in Users
    BY DailyAssumption DEF DailyTypeOK, DashTypeOK, IInv, CompletionInv, TypeOK
<1>1. ASSUME NEW x \in Clicking \cup {Quiet}, clicks' = [clicks EXCEPT ![c] = x],
             UNCHANGED <<loads, shown, world>>
      PROVE  DailyTypeOK'
    BY <1>1 DEF DailyTypeOK, DashTypeOK, dailyVars
<1>2. ASSUME NEW v \in Users,
             clicks' = [clicks EXCEPT ![c] = [at |-> "sent", user |-> v, task |-> t,
                          current |-> TRUE, ok |-> FALSE, points |-> 0]],
             UNCHANGED <<loads, shown, world>>
      PROVE  DailyTypeOK'
    <2>1. [at |-> "sent", user |-> v, task |-> t, current |-> TRUE, ok |-> FALSE, points |-> 0]
            \in Clicking
        BY RulesAssumption DEF Clicking
    <2>2. QED
        BY <1>1, <1>2, <2>1
<1>3. CASE clickComplete(c, u, t)
    BY <1>2, <1>3 DEF clickComplete
<1>4. CASE clickTask(c, t) /\ UNCHANGED <<loads, shown, world>>
    BY <1>0, <1>2, <1>4 DEF clickTask
<1>5. CASE serveClick(c) \/ (serveTask(c) /\ UNCHANGED <<loads, shown, world>>)
    <2>1. [clicks[c] EXCEPT !.at = "served"] \in Clicking
        BY <1>0, <1>5 DEF serveClick, serveTask, Clicking, Quiet
    <2>2. clicks' = [clicks EXCEPT ![c] = [clicks[c] EXCEPT !.at = "served"]]
        BY <1>5 DEF serveClick, serveTask
    <2>3. QED
        BY <1>1, <1>5, <2>1, <2>2 DEF serveClick
<1>6. CASE workClick(c)
    <2>1. PICK ok \in BOOLEAN : ok = (completions' # completions)
        OBVIOUS
    <2>2. clicks[c] \in Clicking
        BY <1>0, <1>6 DEF workClick, Quiet
    <2>3. PICK x : x = [clicks[c] EXCEPT !.at = "answered", !.ok = ok, !.points = points'[clicks[c].user]]
        OBVIOUS
    <2>4. x \in Clicking
        BY <1>0, <2>2, <2>3 DEF Clicking
    <2>5. CASE clicks' = clicks
        BY <1>6, <2>5 DEF workClick, DailyTypeOK, DashTypeOK, dailyVars
    <2>6. CASE clicks' = [clicks EXCEPT ![c] = x]
        BY <1>1, <1>6, <2>4, <2>6 DEF workClick
    <2>7. clicks' = clicks \/ clicks' = [clicks EXCEPT ![c] = x]
        BY <1>6, <2>1, <2>3, Zenon DEF workClick
    <2>8. QED
        BY <2>5, <2>6, <2>7
<1>7. CASE failClick(c)
    BY <1>1, <1>7 DEF failClick
<1>8. QED
    BY <1>3, <1>4, <1>5, <1>6, <1>7

\* What an answered click makes of the lists of its user.
Moved(page, x) ==
    [points |-> x.points, tasks |-> page.tasks \ {x.task},
     completed_tasks |-> page.completed_tasks \cup {x.task}]

LEMMA EndTypes ==
    ASSUME DailyTypeOK, NEW c \in Completers, endClick(c), UNCHANGED dailyVars
    PROVE  DailyTypeOK'
<1>0. /\ clicks \in [Completers -> Clicking \cup {Quiet}] /\ clicks[c] \in Clicking
      /\ shown \in [date : 0 .. LastDay, of : Assignees]
    BY DEF DailyTypeOK, DashTypeOK, endClick, Quiet
<1>1. clicks' \in [Completers -> Clicking \cup {Quiet}]
    BY <1>0 DEF endClick
<1>2. shown' \in [date : 0 .. LastDay, of : Assignees]
    <2>1. CASE shown' = shown
        BY <1>0, <2>1
    <2>2. CASE clicks[c].user \in DOMAIN shown.of
        <3>1. PICK r : r = Moved(shown.of[clicks[c].user], clicks[c])
            OBVIOUS
        <3>2. r \in Lists
            BY <1>0, <2>2, <3>1, ListOf DEF Moved, Lists, Clicking
        <3>3. [shown.of EXCEPT ![clicks[c].user] = r] \in Assignees
            BY <1>0, <2>2, <3>2, ListsWith
        <3>4. shown' = shown \/ shown' = [shown EXCEPT !.of = [shown.of EXCEPT ![clicks[c].user] = r]]
            BY <3>1 DEF endClick, Moved
        <3>5. QED
            BY <1>0, <3>3, <3>4
    <2>3. CASE clicks[c].user \notin DOMAIN shown.of
        <3>1. PICK r : r = Moved(shown.of[clicks[c].user], clicks[c])
            OBVIOUS
        <3>2. [shown.of EXCEPT ![clicks[c].user] = r] = shown.of
            BY <1>0, <2>3 DEF Assignees
        <3>3. shown' = shown \/ shown' = [shown EXCEPT !.of = [shown.of EXCEPT ![clicks[c].user] = r]]
            BY <3>1 DEF endClick, Moved
        <3>4. QED
            BY <1>0, <3>2, <3>3
    <2>4. QED
        BY <2>2, <2>3
<1>3. QED
    BY <1>1, <1>2 DEF DailyTypeOK, DashTypeOK, endClick, dailyVars

LEMMA DailyTypes ==
    ASSUME IInv, DailyTypeOK, NEW l \in Loads,
           me(l) \/ listMyDailyTasks(l) \/ hydrateCurrentUser(l) \/ loadTaskView(l) \/ loadDailyTasks(l),
           UNCHANGED <<vars, dashVars>>
    PROVE  DailyTypeOK'
<1>0. /\ daily \in DailyState
      /\ fetches \in [Loads -> Fetching \cup {Quiet}]
      /\ points[Member] \in 0 .. MaxInt /\ today \in 0 .. LastDay
      /\ AvailableTasks(Member, today) \subseteq Tasks
    BY DailyAssumption DEF DailyTypeOK, DashTypeOK, IInv, CompletionInv, TypeOK, AvailableTasks
<1>1. \A what \in {"me", "tasks"} : Fetch(what) \in Fetching
    BY RulesAssumption, CompletionAssumption DEF Fetch, Fetching
<1>9. UNCHANGED dashVars
    OBVIOUS
<1>2. ASSUME NEW x \in Fetching \cup {Quiet}, fetches' = [fetches EXCEPT ![l] = x],
             daily' \in DailyState
      PROVE  DailyTypeOK'
    BY <1>0, <1>2, <1>9 DEF DailyTypeOK, DashTypeOK, dashVars
<1>3. CASE me(l)
    <2>1. [fetches[l] EXCEPT !.at = "answered", !.points = points[Member]] \in Fetching
        <3>1. fetches[l] \in Fetching
            BY <1>0, <1>3 DEF me, Quiet
        <3>2. QED
            BY <1>0, <3>1 DEF Fetching
    <2>2. fetches' = [fetches EXCEPT ![l] = [fetches[l] EXCEPT !.at = "answered", !.points = points[Member]]] /\ daily' = daily
        BY <1>3 DEF me
    <2>3. QED
        BY <1>0, <1>2, <2>1, <2>2
<1>4. CASE listMyDailyTasks(l)
    <2>1. [fetches[l] EXCEPT !.at = "answered", !.day = today, !.tasks = AvailableTasks(Member, today)]
            \in Fetching
        <3>1. fetches[l] \in Fetching
            BY <1>0, <1>4 DEF listMyDailyTasks, Quiet
        <3>2. PICK found \in SUBSET Tasks : found = AvailableTasks(Member, today)
            BY <1>0
        <3>3. [fetches[l] EXCEPT !.at = "answered", !.day = today, !.tasks = found] \in Fetching
            BY <1>0, <3>1 DEF Fetching
        <3>4. QED
            BY <3>2, <3>3
    <2>2. /\ daily' = daily
          /\ fetches' = [fetches EXCEPT ![l] =
               [fetches[l] EXCEPT !.at = "answered", !.day = today,
                                  !.tasks = AvailableTasks(Member, today)]]
        BY <1>4 DEF listMyDailyTasks
    <2>3. QED
        BY <1>0, <1>2, <2>1, <2>2
<1>5. CASE hydrateCurrentUser(l)
    <2>1. daily' \in DailyState
        BY <1>0, <1>5 DEF hydrateCurrentUser, Fetching, DailyState
    <2>2. QED
        BY <1>1, <1>2, <1>5, <2>1 DEF hydrateCurrentUser
<1>6. CASE loadTaskView(l)
    BY <1>0, <1>1, <1>2, <1>6 DEF loadTaskView
<1>7. CASE loadDailyTasks(l)
    <2>1. daily' \in DailyState
        BY <1>0, <1>7 DEF loadDailyTasks, Fetching, DailyState
    <2>2. QED
        BY <1>2, <1>7, <2>1 DEF loadDailyTasks
<1>8. QED
    BY <1>3, <1>4, <1>5, <1>6, <1>7

LEMMA EndTaskTypes ==
    ASSUME DailyTypeOK, NEW c \in Completers, endTask(c), UNCHANGED <<loads, shown, world>>
    PROVE  DailyTypeOK'
<1>0. /\ daily \in DailyState
      /\ clicks \in [Completers -> Clicking \cup {Quiet}] /\ clicks[c] \in Clicking
    BY DEF DailyTypeOK, DashTypeOK, endTask, Quiet
<1>1. clicks' \in [Completers -> Clicking \cup {Quiet}]
    BY <1>0 DEF endTask
<1>2. daily' \in DailyState
    BY <1>0 DEF endTask, Clicking, DailyState
<1>3. QED
    BY <1>1, <1>2 DEF DailyTypeOK, DashTypeOK, endTask

LEMMA OpenTypes ==
    ASSUME IInv, DailyTypeOK, init
    PROVE  DailyTypeOK'
<1>1. daily' \in DailyState
    BY DailyAssumption, CompletionAssumption, RulesAssumption
    DEF DailyTypeOK, DailyState, Opened, init, IInv, CompletionInv, TypeOK
<1>2. fetches' \in [Loads -> Fetching \cup {Quiet}]
    <2>1. Fetch("me") \in Fetching
        BY RulesAssumption, CompletionAssumption DEF Fetch, Fetching
    <2>2. QED
        BY <2>1 DEF DailyTypeOK, init
<1>3. shown' \in [date : 0 .. LastDay, of : Assignees]
    BY EmptyKnown, CompletionAssumption DEF init
<1>4. QED
    BY <1>1, <1>2, <1>3 DEF DailyTypeOK, DashTypeOK, init

\* Every step of either page keeps the tables' invariant and the pages' types.
LEMMA DailyTypeStep ==
    ASSUME IInv, DailyTypeOK, [DailyNext]_allDailyVars
    PROVE  IInv' /\ DailyTypeOK'
<1>1. IInv'
    BY TablesStep, StepPaysOrStutters
<1> SUFFICES DailyTypeOK'
    BY <1>1
<1>2. ASSUME UNCHANGED <<dashVars, dailyVars>> PROVE DailyTypeOK'
    BY <1>2 DEF DailyTypeOK, DashTypeOK, dashVars, dailyVars
<1>3. CASE DashNext /\ UNCHANGED dailyVars
    <2>1. ASSUME NEW l \in Loads, NEW u \in Users, UNCHANGED vars,
                 loadDashboard(l) \/ ListAssignees(l) \/ ListAvailable(l, u) \/ ListCompleted(l, u)
                   \/ endLoad(l) \/ failLoad(l)
          PROVE  DailyTypeOK'
        BY <1>3, <2>1, LoadTypes
    <2>2. ASSUME NEW c \in Completers, NEW u \in Users, NEW t \in Tasks,
                 clickComplete(c, u, t) \/ serveClick(c) \/ workClick(c) \/ failClick(c)
          PROVE  DailyTypeOK'
        BY <1>1, <1>3, <2>2, ClickTypes
    <2>3. ASSUME NEW c \in Completers, endClick(c) PROVE DailyTypeOK'
        BY <1>3, <2>3, EndTypes
    <2>4. CASE UNCHANGED dashVars
        BY <1>2, <1>3, <2>4
    <2>5. Member \in Users
        BY DailyAssumption
    <2>6. ASSUME NEW l \in Loads, UNCHANGED vars,
                 \/ loadDashboard(l) \/ ListAssignees(l) \/ endLoad(l) \/ failLoad(l)
                 \/ \E u \in Users : ListAvailable(l, u) \/ ListCompleted(l, u)
          PROVE  DailyTypeOK'
        BY <2>1, <2>5, <2>6
    <2>7. ASSUME NEW c \in Completers,
                 \/ \E u \in Users, t \in Tasks : clickComplete(c, u, t)
                 \/ serveClick(c) \/ workClick(c) \/ failClick(c)
          PROVE  DailyTypeOK'
        <3>1. CASE Tasks = {}
            <4>1. clicks \in [Completers -> {Quiet}]
                BY <3>1 DEF DailyTypeOK, DashTypeOK, Clicking
            <4>2. QED
                BY <2>7, <3>1, <4>1 DEF Quiet, serveClick, workClick, failClick
        <3>2. CASE Tasks # {}
            BY <2>2, <2>5, <2>7, <3>2
        <3>3. QED
            BY <3>1, <3>2
    <2>8. QED
        BY <1>3, <2>3, <2>4, <2>6, <2>7 DEF DashNext
<1>4. CASE PageStep /\ UNCHANGED <<loads, shown, world>>
    <2>1. ASSUME NEW l \in Loads, UNCHANGED <<vars, clicks>>,
                 me(l) \/ listMyDailyTasks(l) \/ hydrateCurrentUser(l) \/ loadTaskView(l) \/ loadDailyTasks(l)
          PROVE  DailyTypeOK'
        BY <1>4, <2>1, DailyTypes DEF dashVars
    <2>2. ASSUME NEW c \in Completers, NEW t \in Tasks, clickTask(c, t) \/ serveTask(c)
          PROVE  DailyTypeOK'
        <3>1. UNCHANGED dailyVars
            BY <2>2 DEF clickTask, serveTask, dailyVars
        <3>2. QED
            BY <1>1, <1>4, <2>2, <3>1, ClickTypes, DailyAssumption
    <2>3. ASSUME NEW c \in Completers, endTask(c) PROVE DailyTypeOK'
        BY <1>4, <2>3, EndTaskTypes
    <2>4. ASSUME NEW c \in Completers, serveTask(c) PROVE DailyTypeOK'
        <3>1. clicks[c].task \in Tasks
            BY <2>4 DEF serveTask, DailyTypeOK, DashTypeOK, Clicking, Quiet
        <3>2. QED
            BY <2>2, <2>4, <3>1
    <2>5. QED
        BY <1>4, <2>1, <2>2, <2>3, <2>4 DEF PageStep
<1>5. ASSUME NEW c \in Completers, workClick(c) \/ failClick(c), UNCHANGED dailyVars
      PROVE  DailyTypeOK'
    <2>1. clicks[c].task \in Tasks
        BY <1>5 DEF workClick, failClick, DailyTypeOK, DashTypeOK, Clicking, Quiet
    <2>2. QED
        BY <1>1, <1>5, <2>1, ClickTypes, DailyAssumption
<1>6. CASE UNCHANGED allDailyVars
    BY <1>2, <1>6 DEF allDailyVars, allVars
<1>7. CASE init
    BY <1>7, OpenTypes
<1>8. QED
    BY <1>1, <1>2, <1>3, <1>4, <1>5, <1>6, <1>7 DEF DailyNext

LEMMA DailyTypeInit == Init /\ DailyInit => IInv /\ DailyTypeOK
<1> SUFFICES ASSUME Init, DailyInit PROVE IInv /\ DailyTypeOK
    OBVIOUS
<1>1. IInv
    BY EditInvInit, CompletionInvInit DEF Init, IInv
<1>2. DashTypeOK
    BY EmptyKnown, CompletionAssumption DEF DailyInit, DashInit, DashTypeOK, Quiet
<1>3. daily \in DailyState
    <2>1. Opened(0) \in DailyState
        BY CompletionAssumption, RulesAssumption DEF DailyState, Opened
    <2>2. QED
        BY <2>1 DEF DailyInit, DailyState
<1>4. fetches \in [Loads -> Fetching \cup {Quiet}]
    BY DEF DailyInit
<1>5. QED
    BY <1>1, <1>2, <1>3, <1>4 DEF DailyTypeOK

\* Lists, answers on their way and calls hold values of their types on both pages.
THEOREM PagesTyped == DailySpec => [](IInv /\ DailyTypeOK)
<1>1. IInv /\ DailyTypeOK /\ [DailyNext]_allDailyVars => (IInv /\ DailyTypeOK)'
    BY DailyTypeStep
<1>2. QED
    BY <1>1, DailyTypeInit, PTL DEF DailySpec

\* The pages only ask: whatever is loaded, clicked, refused or lost there, the
\* tables go through a behaviour of TaskCompletion, for which every theorem of
\* TaskProofs holds.
THEOREM PagesServe == DailySpec => Spec
<1>1. IInv /\ DailyTypeOK /\ [DailyNext]_allDailyVars => [Next]_vars
    BY TablesStep
<1>2. QED
    BY <1>1, PagesTyped, PTL DEF DailySpec, Spec

\* So with both pages, too, a completion dated by a request that crosses midnight
\* lies on a day its task is due.
THEOREM PagesDueDays == DailySpec => []CompletedOnDueDay
    BY PagesServe, DueDaysOnly, PTL

----------------------------------------------------------------------------
(* What a load cannot miss *)

\* A deactivated task is never due again; nothing else changes a task that is not
\* edited, or whose it is.
LEMMA DueDecays ==
    ASSUME Editors = {}, IInv, [Next]_vars, NEW t \in Tasks, NEW day, Due(tasks[t], day)'
    PROVE  assigned' = assigned /\ Due(tasks[t], day)
<1>1. tasks \in [Tasks -> Row \cup {NoTask}]
    BY DEF IInv, EditInv, EditTypeOK
<1>2. ASSUME NEW caller \in Users, NEW s \in Tasks, DeleteTask(caller, s)
      PROVE  assigned' = assigned /\ Due(tasks[t], day)
    <2>1. /\ tasks[s] \in Row /\ assigned' = assigned
          /\ tasks' = [tasks EXCEPT ![s] = [tasks[s] EXCEPT !.active = FALSE]]
        BY <1>1, <1>2 DEF DeleteTask
    <2>2. [tasks[s] EXCEPT !.active = FALSE].active = FALSE
        BY <2>1 DEF Row
    <2>3. s # t
        BY <1>1, <2>1, <2>2 DEF Due
    <2>4. tasks'[t] = tasks[t]
        BY <1>1, <2>1, <2>3
    <2>5. QED
        BY <2>1, <2>4 DEF Due
<1>3. CASE UNCHANGED editVars
    BY <1>3 DEF editVars, Due
<1>4. QED
    BY <1>2, <1>3 DEF Next, EditNext, vars

\* What a load that is under way can no longer miss: whose open tasks are read has
\* every due task there, unless it was completed before they were; and then it is
\* among the completed ones, which are read after.
MissNone(x) ==
    \A u \in Users, t \in Tasks :
        u \in assigned[t] /\ Due(tasks[t], x.day) =>
            /\ u \in DOMAIN x.of
            /\ u \in x.next => t \in x.of[u].tasks \/ Completed([task |-> t, user |-> u, day |-> x.day])
            /\ u \notin x.left \cup x.next => t \in x.of[u].tasks \cup x.of[u].completed_tasks

OneNext(x) == \A u, v \in x.next : u = v

MissingNone == \A l \in Loads : loads[l].at = "reading" => OneNext(loads[l]) /\ MissNone(loads[l])

LEMMA MissNoneStays ==
    ASSUME Editors = {}, IInv, [Next]_vars, NEW x, MissNone(x)
    PROVE  MissNone(x)'
<1> SUFFICES ASSUME NEW u \in Users, NEW t \in Tasks, (u \in assigned[t] /\ Due(tasks[t], x.day))'
             PROVE  /\ u \in DOMAIN x.of
                    /\ u \in x.next => \/ t \in x.of[u].tasks
                                       \/ Completed([task |-> t, user |-> u, day |-> x.day])'
                    /\ u \notin x.left \cup x.next => t \in x.of[u].tasks \cup x.of[u].completed_tasks
    BY DEF MissNone
<1>1. u \in assigned[t] /\ Due(tasks[t], x.day)
    BY DueDecays
<1>2. Completed([task |-> t, user |-> u, day |-> x.day])
        => Completed([task |-> t, user |-> u, day |-> x.day])'
    BY GrowStep DEF Completed
<1>3. QED
    BY <1>1, <1>2 DEF MissNone

LEMMA ListedKnown ==
    ASSUME IInv, NEW u \in Users, NEW t \in Tasks, NEW day, u \in assigned[t], Due(tasks[t], day)
    PROVE  /\ u \in ListAvailableTaskAssignees(day)
           /\ t \in AvailableTasks(u, day) \/ Completed([task |-> t, user |-> u, day |-> day])
           /\ Completed([task |-> t, user |-> u, day |-> day]) => t \in CompletedTasks(u, day)
<1>1. ASSUME Completed([task |-> t, user |-> u, day |-> day]) PROVE t \in CompletedTasks(u, day)
    <2>1. PICK r \in completions : SameKey(r, [task |-> t, user |-> u, day |-> day])
        BY <1>1 DEF Completed
    <2>2. QED
        BY <2>1 DEF SameKey, CompletedTasks
<1>2. QED
    BY <1>1 DEF ListAvailableTaskAssignees, AvailableTasks

LEMMA LoadsMissNone ==
    ASSUME Editors = {}, IInv, DailyTypeOK, MissingNone, UNCHANGED vars,
           NEW l \in Loads, NEW u \in Users,
           loadDashboard(l) \/ ListAssignees(l) \/ ListAvailable(l, u) \/ ListCompleted(l, u)
             \/ endLoad(l) \/ failLoad(l)
    PROVE  MissingNone'
<1>0. /\ loads \in [Loads -> Loading \cup {Quiet}]
      /\ loads[l].at = "reading" =>
           loads[l] \in Reading /\ loads[l].left \cup loads[l].next \subseteq DOMAIN loads[l].of
    BY DEF DailyTypeOK, DashTypeOK, Loading, Quiet, Reading
<1>1. \A x : MissNone(x)' <=> MissNone(x)
    BY DEF MissNone, Completed, vars, editVars, completionVars, Due
<1>2. ASSUME NEW x, loads' = [loads EXCEPT ![l] = x], x.at = "reading" => OneNext(x) /\ MissNone(x)
      PROVE  MissingNone'
    BY <1>0, <1>1, <1>2 DEF MissingNone, OneNext
<1>3. CASE loadDashboard(l)
    BY <1>2, <1>3 DEF loadDashboard
<1>4. CASE ListAssignees(l)
    <2>1. PICK day : day = loads[l].day
        OBVIOUS
    <2>2. PICK users : users = ListAvailableTaskAssignees(day)
        OBVIOUS
    <2>3. PICK of : of = [v \in users |-> [points |-> points[v], tasks |-> {}, completed_tasks |-> {}]]
        OBVIOUS
    <2>4. PICK x : x = [at |-> "reading", day |-> day, left |-> users, next |-> {}, of |-> of]
        OBVIOUS
    <2>5. x.day = day /\ DOMAIN x.of = users /\ x.left = users /\ x.next = {}
        BY <2>3, <2>4
    <2>6. MissNone(x)
        BY <2>2, <2>5, ListedKnown DEF MissNone
    <2>7. loads' = [loads EXCEPT ![l] = x]
        BY <1>4, <2>1, <2>2, <2>3, <2>4 DEF ListAssignees
    <2>8. QED
        BY <1>2, <2>5, <2>6, <2>7 DEF OneNext
<1>5. CASE ListAvailable(l, u)
    <2>1. PICK found : found = AvailableTasks(u, loads[l].day)
        OBVIOUS
    <2>2. PICK x : x = ReadTasks(loads[l], u, found)
        OBVIOUS
    <2>3. loads[l] \in Reading /\ u \in DOMAIN loads[l].of /\ found \subseteq Tasks
        BY <1>0, <1>5, <2>1 DEF ListAvailable, AvailableTasks
    <2>4. /\ x.day = loads[l].day /\ x.left = loads[l].left \ {u} /\ x.next = {u}
          /\ DOMAIN x.of = DOMAIN loads[l].of /\ x.of[u].tasks = found
          /\ \A v \in DOMAIN x.of : v # u => x.of[v] = loads[l].of[v]
        BY <2>2, <2>3, ReadTasksKnown
    <2>5. MissNone(loads[l]) /\ loads[l].next = {}
        BY <1>5 DEF ListAvailable, MissingNone
    <2>6. MissNone(x)
        <3> SUFFICES ASSUME NEW v \in Users, NEW t \in Tasks, v \in assigned[t], Due(tasks[t], x.day)
                     PROVE  /\ v \in DOMAIN x.of
                            /\ v \in x.next => \/ t \in x.of[v].tasks
                                               \/ Completed([task |-> t, user |-> v, day |-> x.day])
                            /\ v \notin x.left \cup x.next => t \in x.of[v].tasks \cup x.of[v].completed_tasks
            BY DEF MissNone
        <3>1. /\ v \in DOMAIN loads[l].of
              /\ v \notin loads[l].left =>
                    t \in loads[l].of[v].tasks \cup loads[l].of[v].completed_tasks
            BY <2>4, <2>5 DEF MissNone
        <3>2. CASE v = u
            BY <2>1, <2>4, <3>1, <3>2, ListedKnown
        <3>3. CASE v # u
            BY <2>4, <3>1, <3>3
        <3>4. QED
            BY <3>2, <3>3
    <2>7. loads' = [loads EXCEPT ![l] = x]
        BY <1>5, <2>1, <2>2 DEF ListAvailable, ReadTasks
    <2>8. QED
        BY <1>2, <2>4, <2>6, <2>7 DEF OneNext
<1>6. CASE ListCompleted(l, u)
    <2>1. PICK found : found = CompletedTasks(u, loads[l].day)
        OBVIOUS
    <2>2. PICK x : x = ReadCompleted(loads[l], u, found)
        OBVIOUS
    <2>3. loads[l] \in Reading /\ u \in DOMAIN loads[l].of /\ found \subseteq Tasks
        BY <1>0, <1>6, <2>1 DEF ListCompleted, CompletedTasks, IInv, CompletionInv, TypeOK, Completion
    <2>4. /\ x.day = loads[l].day /\ x.left = loads[l].left /\ x.next = {}
          /\ DOMAIN x.of = DOMAIN loads[l].of
          /\ x.of[u].tasks = loads[l].of[u].tasks /\ x.of[u].completed_tasks = found
          /\ \A v \in DOMAIN x.of : v # u => x.of[v] = loads[l].of[v]
        BY <2>2, <2>3, ReadCompletedKnown
    <2>5. MissNone(loads[l]) /\ loads[l].next = {u}
        BY <1>6 DEF ListCompleted, MissingNone, OneNext
    <2>6. MissNone(x)
        <3> SUFFICES ASSUME NEW v \in Users, NEW t \in Tasks, v \in assigned[t], Due(tasks[t], x.day)
                     PROVE  /\ v \in DOMAIN x.of
                            /\ v \notin x.left => t \in x.of[v].tasks \cup x.of[v].completed_tasks
            BY <2>4 DEF MissNone
        <3>1. /\ v \in DOMAIN loads[l].of
              /\ v \in loads[l].next => \/ t \in loads[l].of[v].tasks
                                        \/ Completed([task |-> t, user |-> v, day |-> x.day])
              /\ v \notin loads[l].left \cup loads[l].next =>
                    t \in loads[l].of[v].tasks \cup loads[l].of[v].completed_tasks
            BY <2>4, <2>5 DEF MissNone
        <3>2. CASE v = u
            BY <2>1, <2>4, <2>5, <3>1, <3>2, ListedKnown
        <3>3. CASE v # u
            BY <2>4, <2>5, <3>1, <3>3
        <3>4. QED
            BY <3>2, <3>3
    <2>7. loads' = [loads EXCEPT ![l] = x]
        BY <1>6, <2>1, <2>2 DEF ListCompleted, ReadCompleted
    <2>8. QED
        BY <1>2, <2>4, <2>6, <2>7 DEF OneNext
<1>7. CASE endLoad(l) \/ failLoad(l)
    BY <1>2, <1>7 DEF endLoad, failLoad, Quiet
<1>8. QED
    BY <1>3, <1>4, <1>5, <1>6, <1>7

LEMMA MissingNoneStep ==
    ASSUME Editors = {}, IInv, DailyTypeOK, MissingNone, [DailyNext]_allDailyVars
    PROVE  MissingNone'
<1>1. ASSUME UNCHANGED loads PROVE MissingNone'
    BY <1>1, TablesStep, MissNoneStays DEF MissingNone, OneNext
<1>2. CASE DashNext
    <2>1. ASSUME NEW l \in Loads, UNCHANGED vars,
                 \/ loadDashboard(l) \/ ListAssignees(l) \/ endLoad(l) \/ failLoad(l)
                 \/ \E u \in Users : ListAvailable(l, u) \/ ListCompleted(l, u)
          PROVE  MissingNone'
        BY <2>1, LoadsMissNone, DailyAssumption
    <2>2. ASSUME NEW c \in Completers,
                 \/ \E u \in Users, t \in Tasks : clickComplete(c, u, t)
                 \/ serveClick(c) \/ workClick(c) \/ failClick(c) \/ endClick(c)
          PROVE  UNCHANGED loads
        BY <2>2 DEF clickComplete, serveClick, workClick, failClick, endClick
    <2>3. QED
        BY <1>1, <1>2, <2>1, <2>2 DEF DashNext, dashVars
<1>3. ASSUME init \/ \E c \in Completers : workClick(c) \/ failClick(c) PROVE UNCHANGED loads
    BY <1>3 DEF init, workClick, failClick
<1>4. QED
    BY <1>1, <1>2, <1>3 DEF DailyNext, allDailyVars, allVars, dashVars

\* However many completions come in between the queries of a load, its answer has
\* every task that is due and everyone who has one.
THEOREM NothingIsMissed == DailySpec => []NothingMissed
<1>1. CASE Editors = {}
    <2>1. Init /\ DailyInit => MissingNone
        BY DEF DailyInit, DashInit, MissingNone, Quiet
    <2>2. IInv /\ DailyTypeOK /\ MissingNone /\ [DailyNext]_allDailyVars => MissingNone'
        BY <1>1, MissingNoneStep
    <2>3. MissingNone => NothingMissed
        BY DEF MissingNone, MissNone, NothingMissed, Answered
    <2>4. QED
        BY <2>1, <2>2, <2>3, PagesTyped, PTL DEF DailySpec
<1>2. CASE Editors # {}
    <2>1. NothingMissed
        BY <1>2 DEF NothingMissed
    <2>2. QED
        BY <2>1, PTL
<1>3. QED
    BY <1>1, <1>2

----------------------------------------------------------------------------
(* What is true of the pages in every world *)

\* No request and no completion is dated in the future.
TablesDated ==
    /\ \A c \in Completers : attempt[c].at # "idle" => attempt[c].day =< today
    /\ \A r \in completions : r.day =< today

LEMMA DatedStep ==
    ASSUME IInv, TablesDated, [Next]_vars
    PROVE  TablesDated' /\ today =< today'
<1>0. /\ TypeOK /\ today \in Int
      /\ \A c \in Completers : attempt[c].at # "idle" => attempt[c] \in Attempting /\ attempt[c].day \in Int
      /\ \A r \in completions : r.day \in Int
    BY CompletionAssumption DEF IInv, CompletionInv, TypeOK, Attempting, NoAttempt, Completion
<1>1. CASE UNCHANGED completionVars
    BY <1>0, <1>1 DEF TablesDated, completionVars
<1>2. ASSUME NEW c \in Completers, NEW t \in Tasks, NEW u \in UserIds, completeTaskForUser(c, t, u)
      PROVE  TablesDated' /\ today =< today'
    BY <1>0, <1>2 DEF TablesDated, completeTaskForUser, TypeOK
<1>3. ASSUME NEW c \in Completers,
             FindTask(c) \/ InsertCompletion(c) \/ AddUserPoints(c) \/ AbortCompletion(c)
      PROVE  TablesDated' /\ today =< today'
    <2>1. attempt[c].at # "idle" /\ UNCHANGED <<completions, today>>
        BY <1>3 DEF FindTask, InsertCompletion, AddUserPoints, AbortCompletion
    <2>2. \A d \in Completers : attempt'[d].at # "idle" =>
             attempt[d].at # "idle" /\ attempt'[d].day = attempt[d].day
        BY <1>0, <1>3, <2>1
        DEF FindTask, InsertCompletion, AddUserPoints, AbortCompletion, TypeOK, Attempting, NoAttempt
    <2>3. QED
        BY <1>0, <2>1, <2>2 DEF TablesDated
<1>4. ASSUME NEW c \in Completers, CommitCompletion(c) PROVE TablesDated' /\ today =< today'
    BY <1>0, <1>4 DEF TablesDated, CommitCompletion, TypeOK, NoAttempt
<1>5. CASE NextDay
    BY <1>0, <1>5 DEF TablesDated, NextDay
<1>6. QED
    BY <1>1, <1>2, <1>3, <1>4, <1>5, RulesAssumption
    DEF Next, CompletionNext, CompletionStep, completeTask, completeDashboardTask, vars

\* The task was completed by the user, on whatever day.
Done(u, t) == \E r \in completions : r.user = u /\ r.task = t

ListsTrue(of) ==
    \A u \in DOMAIN of : of[u].points =< points[u] /\ \A t \in of[u].completed_tasks : Done(u, t)

\* An answered click has a request for its task no longer, one that is served has;
\* the page of the member is clicked by the member.
ClickTrue(c) ==
    LET x == clicks[c] IN
    /\ x.at = "answered" /\ x.ok => x.points =< points[x.user] /\ Done(x.user, x.task)
    /\ x.at = "served" => attempt[c].at # "idle" /\ attempt[c].user = x.user /\ attempt[c].task = x.task
    /\ x.at # "quiet" /\ daily.open => x.user = Member

LoadsAreTrue == \A l \in Loads : loads[l].at = "reading" => ListsTrue(loads[l].of)

DailyTrue ==
    /\ daily.points =< points[Member]
    /\ \A l \in Loads : fetches[l] # Quiet => fetches[l].points =< points[Member]

PagesTrue ==
    /\ TablesDated
    /\ LoadsAreTrue
    /\ ListsTrue(shown.of)
    /\ \A c \in Completers : ClickTrue(c)
    /\ DailyTrue

\* Balances and completions only grow, so what is true of them stays true.
LEMMA TrueStays ==
    ASSUME IInv, IInv', [Next]_vars
    PROVE  /\ \A u, t : Done(u, t) => Done(u, t)'
           /\ \A u \in Users : \A n \in 0 .. MaxInt : n =< points[u] => n =< points'[u]
           /\ \A of \in Assignees : ListsTrue(of) => ListsTrue(of)'
<1>1. completions \subseteq completions' /\ \A u \in Users : points'[u] >= points[u]
    BY GrowStep
<1>2. \A u \in Users : points[u] \in Int /\ points'[u] \in Int
    BY RulesAssumption DEF IInv, CompletionInv, TypeOK
<1>3. \A u, t : Done(u, t) => Done(u, t)'
    BY <1>1 DEF Done
<1>4. \A u \in Users : \A n \in 0 .. MaxInt : n =< points[u] => n =< points'[u]
    BY <1>1, <1>2, RulesAssumption
<1>5. ASSUME NEW of \in Assignees, ListsTrue(of) PROVE ListsTrue(of)'
    <2>1. \A u \in DOMAIN of : u \in Users /\ of[u].points \in 0 .. MaxInt
        BY ListOf DEF Lists
    <2>2. QED
        BY <1>3, <1>4, <1>5, <2>1 DEF ListsTrue
<1>6. QED
    BY <1>3, <1>4, <1>5

\* What FindTask, InsertCompletion and AddUserPoints write.
LEMMA AttemptWith ==
    ASSUME NEW x \in Attempting, NEW n \in 0 .. MaxInt
    PROVE  \A y \in {[x EXCEPT !.at = "found", !.value = n], [x EXCEPT !.at = "inserted"],
                      [x EXCEPT !.at = "awarded", !.total = n]} :
             y \in Attempting /\ y.user = x.user /\ y.task = x.task /\ y.day = x.day
<1>1. ASSUME NEW y, y = [x EXCEPT !.at = "found", !.value = n]
      PROVE  y \in Attempting /\ y.user = x.user /\ y.task = x.task /\ y.day = x.day
    BY <1>1 DEF Attempting
<1>2. ASSUME NEW y, y = [x EXCEPT !.at = "inserted"]
      PROVE  y \in Attempting /\ y.user = x.user /\ y.task = x.task /\ y.day = x.day
    BY <1>2 DEF Attempting
<1>3. ASSUME NEW y, y = [x EXCEPT !.at = "awarded", !.total = n]
      PROVE  y \in Attempting /\ y.user = x.user /\ y.task = x.task /\ y.day = x.day
    BY <1>3 DEF Attempting
<1>4. QED
    BY <1>1, <1>2, <1>3

\* The call of click c is answered.
AnswerOf(c, y, ok) ==
    /\ clicks' = [clicks EXCEPT ![c] = y]
    /\ y \in Clicking /\ y.at = "answered" /\ y.ok = ok /\ y.current = clicks[c].current
    /\ y.user = clicks[c].user /\ y.task = clicks[c].task /\ y.points = points'[clicks[c].user]

\* The request of click c is further on; a task was found if it is due.
GoesOn(c, y) ==
    /\ attempt' = [attempt EXCEPT ![c] = y]
    /\ y.user = attempt[c].user /\ y.task = attempt[c].task /\ y.day = attempt[c].day
    /\ attempt[c].at = "begun" => y.user \in assigned[y.task] /\ Due(tasks[y.task], y.day)

\* What a step of a served request comes to: it goes on, it is refused or rolled
\* back, or it has paid.
LEMMA WorkOutcome ==
    ASSUME IInv, DailyTypeOK, NEW c \in Completers, ClickTrue(c), workClick(c), UNCHANGED editVars
    PROVE  /\ clicks[c] \in Clicking /\ clicks[c].at = "served" /\ attempt[c] \in Attempting
           /\ attempt[c].user = clicks[c].user /\ attempt[c].task = clicks[c].task
           /\ today' = today
           /\ \/ /\ UNCHANGED <<completions, points, clicks>>
                 /\ \E y \in Attempting : GoesOn(c, y)
              \/ /\ UNCHANGED <<completions, points>>
                 /\ attempt' = [attempt EXCEPT ![c] = NoAttempt]
                 /\ \E y : AnswerOf(c, y, FALSE)
              \/ /\ attempt[c].at # "begun" /\ ~Completed(attempt[c])
                 /\ completions' = completions \cup
                      {[task |-> attempt[c].task, user |-> attempt[c].user,
                        day |-> attempt[c].day, award |-> attempt[c].value]}
                 /\ \E n : points' = [points EXCEPT ![attempt[c].user] = n]
                 /\ attempt' = [attempt EXCEPT ![c] = NoAttempt]
                 /\ \E y : AnswerOf(c, y, TRUE)
<1>0. /\ clicks \in [Completers -> Clicking \cup {Quiet}] /\ TypeOK
      /\ points \in [Users -> 0 .. MaxInt]
    BY DEF DailyTypeOK, DashTypeOK, IInv, CompletionInv, TypeOK
<1>1. /\ clicks[c] \in Clicking /\ clicks[c].at = "served" /\ attempt[c].at # "idle"
      /\ attempt[c].user = clicks[c].user /\ attempt[c].task = clicks[c].task
    BY <1>0 DEF workClick, Quiet, ClickTrue
<1>2. attempt[c] \in Attempting /\ clicks[c].user \in Users
    BY <1>0, <1>1 DEF TypeOK, NoAttempt, Clicking
<1>3. \A y \in Attempting : y # NoAttempt
    BY DEF Attempting, NoAttempt
<1>4. ASSUME NEW ok \in BOOLEAN, ok = (completions' # completions),
             attempt' = [attempt EXCEPT ![c] = NoAttempt], points' \in [Users -> 0 .. MaxInt]
      PROVE  \E y : AnswerOf(c, y, ok)
    <2>1. PICK y : y = [clicks[c] EXCEPT !.at = "answered", !.ok = ok, !.points = points'[clicks[c].user]]
        OBVIOUS
    <2>2. attempt'[c] = NoAttempt
        BY <1>0, <1>4 DEF TypeOK
    <2>3. clicks' = [clicks EXCEPT ![c] = y]
        BY <1>4, <2>1, <2>2, Zenon DEF workClick
    <2>4. /\ y \in Clicking /\ y.at = "answered" /\ y.ok = ok /\ y.current = clicks[c].current
          /\ y.user = clicks[c].user /\ y.task = clicks[c].task /\ y.points = points'[clicks[c].user]
        BY <1>1, <1>2, <1>4, <2>1 DEF Clicking
    <2>5. QED
        BY <2>3, <2>4 DEF AnswerOf
<1>5. ASSUME NEW y \in Attempting, attempt' = [attempt EXCEPT ![c] = y] PROVE clicks' = clicks
    <2>1. attempt'[c] # NoAttempt
        BY <1>0, <1>3, <1>5 DEF TypeOK
    <2>2. QED
        BY <2>1 DEF workClick
<1>6. CASE CommitCompletion(c)
    <2>1. points' \in [Users -> 0 .. MaxInt]
        <3>1. CompletionInv'
            BY <1>6, CommitPays DEF IInv
        <3>2. QED
            BY <3>1 DEF CompletionInv, TypeOK
    <2>2. PICK row : row = [task |-> attempt[c].task, user |-> attempt[c].user,
                            day |-> attempt[c].day, award |-> attempt[c].value]
        OBVIOUS
    <2>3. /\ completions' = completions \cup {row} /\ today' = today
          /\ points' = [points EXCEPT ![attempt[c].user] = attempt[c].total]
          /\ attempt' = [attempt EXCEPT ![c] = NoAttempt] /\ attempt[c].at = "awarded"
        BY <1>6, <2>2 DEF CommitCompletion
    <2>4. row \notin completions /\ ~Completed(attempt[c])
        BY <2>2, <2>3 DEF IInv, CompletionInv, LocksHeld, HasInserted, Completed, SameKey
    <2>5. TRUE = (completions' # completions)
        BY <2>3, <2>4
    <2>6. \E y : AnswerOf(c, y, TRUE)
        BY <1>4, <2>1, <2>3, <2>5
    <2>7. QED
        BY <1>1, <1>2, <2>2, <2>3, <2>4, <2>6
<1>7. CASE FindTask(c) \/ InsertCompletion(c) \/ AddUserPoints(c) \/ AbortCompletion(c)
    <2>1. UNCHANGED <<completions, points, today>>
        BY <1>7 DEF FindTask, InsertCompletion, AddUserPoints, AbortCompletion
    <2>2. CASE attempt' = [attempt EXCEPT ![c] = NoAttempt]
        <3>1. FALSE = (completions' # completions)
            BY <2>1
        <3>2. \E y : AnswerOf(c, y, FALSE)
            BY <1>0, <1>4, <2>1, <2>2, <3>1
        <3>3. QED
            BY <1>1, <1>2, <2>1, <2>2, <3>2
    <2>3. CASE \E y \in Attempting : GoesOn(c, y)
        BY <1>1, <1>2, <1>5, <2>1, <2>3 DEF GoesOn
    <2>4. ASSUME attempt' # [attempt EXCEPT ![c] = NoAttempt]
          PROVE  \E y \in Attempting : GoesOn(c, y)
        <3>1. CASE FindTask(c)
            <4>1. PICK y : y = [attempt[c] EXCEPT !.at = "found", !.value = tasks[attempt[c].task].value]
                OBVIOUS
            <4>2. /\ attempt' = [attempt EXCEPT ![c] = y] /\ tasks[attempt[c].task] # NoTask
                  /\ attempt[c].user \in assigned[attempt[c].task] /\ Due(tasks[attempt[c].task], attempt[c].day)
                BY <2>4, <3>1, <4>1 DEF FindTask
            <4>3. tasks[attempt[c].task].value \in 0 .. MaxInt
                BY <1>0, <1>2, <4>2 DEF TypeOK, EditTypeOK, Attempting, Row
            <4>4. QED
                BY <1>2, <4>1, <4>2, <4>3, AttemptWith, ZenonT(30) DEF GoesOn
        <3>2. CASE InsertCompletion(c)
            <4>1. PICK y : y = [attempt[c] EXCEPT !.at = "inserted"]
                OBVIOUS
            <4>2. attempt' = [attempt EXCEPT ![c] = y]
                BY <2>4, <3>2, <4>1 DEF InsertCompletion
            <4>3. 0 \in 0 .. MaxInt
                BY RulesAssumption
            <4>4. attempt[c].at # "begun"
                BY <3>2 DEF InsertCompletion
            <4>5. QED
                BY <1>2, <4>1, <4>2, <4>3, <4>4, AttemptWith DEF GoesOn
        <3>3. CASE AddUserPoints(c)
            <4>1. PICK total : total = points[attempt[c].user] + attempt[c].value
                OBVIOUS
            <4>2. PICK y : y = [attempt[c] EXCEPT !.at = "awarded", !.total = total]
                OBVIOUS
            <4>3. attempt' = [attempt EXCEPT ![c] = y] /\ ~(total > MaxInt)
                BY <2>4, <3>3, <4>1, <4>2 DEF AddUserPoints
            <4>4. total \in 0 .. MaxInt
                BY <1>0, <1>1, <1>2, <4>1, <4>3, RulesAssumption DEF Attempting
            <4>5. attempt[c].at # "begun"
                BY <3>3 DEF AddUserPoints
            <4>6. QED
                BY <1>2, <4>2, <4>3, <4>4, <4>5, AttemptWith DEF GoesOn
        <3>4. CASE AbortCompletion(c)
            BY <2>4, <3>4 DEF AbortCompletion
        <3>5. QED
            BY <1>7, <3>1, <3>2, <3>3, <3>4
    <2>5. QED
        BY <2>2, <2>3, <2>4
<1>8. QED
    BY <1>6, <1>7 DEF workClick, CompletionStep

\* What was true of a click stays true when neither it nor its request moves.
LEMMA ClickStays ==
    ASSUME IInv, IInv', DailyTypeOK, [Next]_vars, NEW c \in Completers, ClickTrue(c),
           attempt'[c] = attempt[c], daily'.open = daily.open,
           clicks'[c] = clicks[c] \/ clicks'[c] = [clicks[c] EXCEPT !.current = FALSE]
    PROVE  ClickTrue(c)'
<1>1. clicks[c] \in Clicking \cup {Quiet}
    BY DEF DailyTypeOK, DashTypeOK
<1>2. CASE clicks[c] = Quiet
    <2>1. clicks'[c].at = "quiet"
        BY <1>2 DEF Quiet
    <2>2. QED
        BY <2>1 DEF ClickTrue
<1>3. CASE clicks[c] \in Clicking
    <2>1. /\ clicks[c].user \in Users /\ clicks[c].points \in 0 .. MaxInt
          /\ clicks'[c].at = clicks[c].at /\ clicks'[c].user = clicks[c].user
          /\ clicks'[c].task = clicks[c].task /\ clicks'[c].ok = clicks[c].ok
          /\ clicks'[c].points = clicks[c].points
        BY <1>3 DEF Clicking
    <2>2. QED
        BY <2>1, TrueStays DEF ClickTrue
<1>4. QED
    BY <1>1, <1>2, <1>3

\* What the steps of a load read is true when it is read.
LEMMA LoadsTrue ==
    ASSUME IInv, DailyTypeOK, PagesTrue, UNCHANGED vars, NEW l \in Loads, NEW u \in Users,
           loadDashboard(l) \/ ListAssignees(l) \/ ListAvailable(l, u) \/ ListCompleted(l, u)
             \/ endLoad(l) \/ failLoad(l)
    PROVE  LoadsAreTrue'
<1>0. /\ loads \in [Loads -> Loading \cup {Quiet}]
      /\ loads[l].at = "reading" =>
           /\ loads[l] \in Reading /\ loads[l].left \cup loads[l].next \subseteq DOMAIN loads[l].of
           /\ ListsTrue(loads[l].of)
      /\ points \in [Users -> 0 .. MaxInt]
    BY DEF DailyTypeOK, DashTypeOK, Loading, Quiet, Reading, PagesTrue, LoadsAreTrue, IInv, CompletionInv, TypeOK
<1>1. ASSUME NEW x, loads' = [loads EXCEPT ![l] = x], x.at = "reading" => ListsTrue(x.of)
      PROVE  LoadsAreTrue'
    <2>1. \A of : ListsTrue(of) => ListsTrue(of)'
        BY DEF ListsTrue, Done, vars, completionVars
    <2>2. \A m \in Loads : loads'[m].at = "reading" => ListsTrue(loads'[m].of)
        BY <1>0, <1>1 DEF PagesTrue, LoadsAreTrue
    <2>3. QED
        BY <2>1, <2>2 DEF LoadsAreTrue
<1>2. CASE loadDashboard(l)
    BY <1>1, <1>2 DEF loadDashboard
<1>3. CASE ListAssignees(l)
    <2>1. PICK day : day = loads[l].day
        OBVIOUS
    <2>2. PICK users : users = ListAvailableTaskAssignees(day)
        OBVIOUS
    <2>3. PICK of : of = [v \in users |-> [points |-> points[v], tasks |-> {}, completed_tasks |-> {}]]
        OBVIOUS
    <2>4. \A v \in users : v \in Users /\ points[v] =< points[v]
        BY <1>0, <2>2, RulesAssumption DEF ListAvailableTaskAssignees
    <2>5. ListsTrue(of)
        BY <2>3, <2>4 DEF ListsTrue
    <2>6. PICK x : x = [at |-> "reading", day |-> day, left |-> users, next |-> {}, of |-> of]
        OBVIOUS
    <2>7. loads' = [loads EXCEPT ![l] = x]
        BY <1>3, <2>1, <2>2, <2>3, <2>6 DEF ListAssignees
    <2>8. QED
        BY <1>1, <2>5, <2>6, <2>7
<1>4. CASE ListAvailable(l, u)
    <2>1. PICK found : found = AvailableTasks(u, loads[l].day)
        OBVIOUS
    <2>2. PICK x : x = ReadTasks(loads[l], u, found)
        OBVIOUS
    <2>3. loads[l] \in Reading /\ u \in DOMAIN loads[l].of /\ found \subseteq Tasks
        BY <1>0, <1>4, <2>1 DEF ListAvailable, AvailableTasks
    <2>4. /\ DOMAIN x.of = DOMAIN loads[l].of
          /\ \A v \in DOMAIN x.of : x.of[v].points = loads[l].of[v].points
                                    /\ x.of[v].completed_tasks = loads[l].of[v].completed_tasks
        BY <2>2, <2>3, ReadTasksKnown
    <2>5. ListsTrue(x.of)
        BY <1>0, <1>4, <2>4 DEF ListsTrue, ListAvailable
    <2>6. loads' = [loads EXCEPT ![l] = x]
        BY <1>4, <2>1, <2>2 DEF ListAvailable, ReadTasks
    <2>7. QED
        BY <1>1, <2>5, <2>6
<1>5. CASE ListCompleted(l, u)
    <2>1. PICK found : found = CompletedTasks(u, loads[l].day)
        OBVIOUS
    <2>2. PICK x : x = ReadCompleted(loads[l], u, found)
        OBVIOUS
    <2>3. loads[l] \in Reading /\ u \in DOMAIN loads[l].of /\ found \subseteq Tasks
        BY <1>0, <1>5, <2>1 DEF ListCompleted, CompletedTasks, IInv, CompletionInv, TypeOK, Completion
    <2>4. /\ DOMAIN x.of = DOMAIN loads[l].of
          /\ \A v \in DOMAIN x.of :
               /\ x.of[v].points = loads[l].of[v].points
               /\ v = u => x.of[v].completed_tasks = found
               /\ v # u => x.of[v].completed_tasks = loads[l].of[v].completed_tasks
        BY <2>2, <2>3, ReadCompletedKnown
    <2>5. \A t \in found : Done(u, t)
        BY <2>1 DEF CompletedTasks, Done
    <2>6. ListsTrue(x.of)
        BY <1>0, <1>5, <2>4, <2>5 DEF ListsTrue, ListCompleted
    <2>7. loads' = [loads EXCEPT ![l] = x]
        BY <1>5, <2>1, <2>2 DEF ListCompleted, ReadCompleted
    <2>8. QED
        BY <1>1, <2>6, <2>7
<1>6. CASE endLoad(l) \/ failLoad(l)
    BY <1>1, <1>6 DEF endLoad, failLoad, Quiet
<1>7. QED
    BY <1>2, <1>3, <1>4, <1>5, <1>6

\* Which page is open changes when one is opened.
LEMMA OneOpen == DailyTypeOK /\ [DailyNext]_allDailyVars /\ ~(init /\ UNCHANGED vars) => daily'.open = daily.open
<1> SUFFICES ASSUME DailyTypeOK, DailyNext, ~(init /\ UNCHANGED vars) PROVE daily'.open = daily.open
    BY DEF allDailyVars, dailyVars
<1>1. daily \in [open : BOOLEAN, date : 0 .. LastDay, tasks : SUBSET Tasks, points : 0 .. MaxInt, heard : BOOLEAN]
    BY DEF DailyTypeOK, DailyState
<1>2. ASSUME NEW l \in Loads,
             me(l) \/ listMyDailyTasks(l) \/ hydrateCurrentUser(l) \/ loadTaskView(l) \/ loadDailyTasks(l)
      PROVE  daily'.open = daily.open
    BY <1>1, <1>2 DEF me, listMyDailyTasks, hydrateCurrentUser, loadTaskView, loadDailyTasks
<1>3. ASSUME NEW c \in Completers, endTask(c) PROVE daily'.open = daily.open
    BY <1>1, <1>3 DEF endTask
<1>4. ASSUME NEW c \in Completers,
             serveTask(c) \/ \E t \in Tasks : clickTask(c, t)
      PROVE  daily'.open = daily.open
    BY <1>4 DEF serveTask, clickTask, dailyVars
<1>5. QED
    BY <1>2, <1>3, <1>4 DEF DailyNext, PageStep, dailyVars

\* The copy that localStorage has was the user's balance.
LEMMA OpensTrue ==
    ASSUME IInv, DailyTypeOK, PagesTrue, init, UNCHANGED vars
    PROVE  PagesTrue'
<1>0. points \in [Users -> 0 .. MaxInt] /\ Member \in Users
    BY DailyAssumption DEF IInv, CompletionInv, TypeOK
<1>1. TablesDated' /\ LoadsAreTrue'
    BY DEF PagesTrue, TablesDated, LoadsAreTrue, ListsTrue, Done, init, vars, completionVars
<1>2. ListsTrue(shown.of)'
    BY EmptyKnown DEF ListsTrue, init
<1>3. \A c \in Completers : ClickTrue(c)'
    BY DEF ClickTrue, init, QuietPage, Quiet
<1>4. daily'.points =< points[Member]
    <2>1. \A saved : Opened(saved).points = saved
        BY DEF Opened
    <2>2. daily'.points \in {daily.points, points[Member]}
        BY <2>1 DEF init
    <2>3. QED
        BY <1>0, <2>2, RulesAssumption DEF PagesTrue, DailyTrue
<1>5. \A l \in Loads : fetches'[l] # Quiet => fetches'[l].points = 0
    BY DEF init, QuietFetches, DailyTypeOK, Fetch
<1>6. DailyTrue'
    BY <1>0, <1>4, <1>5, RulesAssumption DEF DailyTrue, vars, completionVars
<1>7. QED
    BY <1>1, <1>2, <1>3, <1>6 DEF PagesTrue

LEMMA PagesTrueStep ==
    ASSUME IInv, DailyTypeOK, PagesTrue, [DailyNext]_allDailyVars, ~(init /\ UNCHANGED vars)
    PROVE  PagesTrue'
<1>0. /\ loads \in [Loads -> Loading \cup {Quiet}] /\ shown.of \in Assignees
      /\ clicks \in [Completers -> Clicking \cup {Quiet}] /\ points \in [Users -> 0 .. MaxInt]
      /\ daily \in [open : BOOLEAN, date : 0 .. LastDay, tasks : SUBSET Tasks, points : 0 .. MaxInt, heard : BOOLEAN]
      /\ fetches \in [Loads -> Fetching \cup {Quiet}] /\ Member \in Users
      /\ attempt \in [Completers -> Attempting \cup {NoAttempt}]
    BY DailyAssumption DEF DailyTypeOK, DashTypeOK, IInv, CompletionInv, TypeOK, DailyState
<1>1. /\ IInv' /\ [Next]_vars /\ TablesDated' /\ daily'.open = daily.open
      /\ \A of \in Assignees : ListsTrue(of) => ListsTrue(of)'
      /\ \A u \in Users : \A n \in 0 .. MaxInt : n =< points[u] => n =< points'[u]
    BY DailyTypeStep, TablesStep, DatedStep, TrueStays, OneOpen DEF PagesTrue
<1>2. ASSUME UNCHANGED loads PROVE LoadsAreTrue'
    BY <1>0, <1>1, <1>2 DEF PagesTrue, LoadsAreTrue, Loading, Quiet
<1>3. ASSUME UNCHANGED shown PROVE ListsTrue(shown.of)'
    <2>1. PICK of \in Assignees : of = shown.of
        BY <1>0
    <2>2. ListsTrue(of)'
        BY <1>1, <2>1 DEF PagesTrue
    <2>3. QED
        BY <1>3, <2>1, <2>2
<1>4. ASSUME UNCHANGED dailyVars PROVE DailyTrue'
    BY <1>0, <1>1, <1>4 DEF PagesTrue, DailyTrue, dailyVars, Fetching
<1>5. ASSUME NEW c \in Completers,
             \/ attempt'[c] = attempt[c] /\ clicks'[c] = clicks[c]
             \/ clicks'[c] = Quiet
             \/ clicks'[c].at = "sent" /\ (daily.open => clicks'[c].user = Member)
      PROVE  ClickTrue(c)'
    <2>1. CASE attempt'[c] = attempt[c] /\ clicks'[c] = clicks[c]
        BY <1>1, <2>1, ClickStays DEF PagesTrue
    <2>2. CASE clicks'[c] = Quiet
        <3>1. clicks'[c].at = "quiet"
            BY <2>2 DEF Quiet
        <3>2. QED
            BY <3>1 DEF ClickTrue
    <2>3. CASE clicks'[c].at = "sent" /\ (daily.open => clicks'[c].user = Member)
        BY <1>1, <2>3 DEF ClickTrue
    <2>4. QED
        BY <1>5, <2>1, <2>2, <2>3
<1>6. ASSUME UNCHANGED dashVars, UNCHANGED dailyVars,
             \A c \in Completers : clicks[c] # Quiet => attempt'[c] = attempt[c]
      PROVE  PagesTrue'
    BY <1>1, <1>2, <1>3, <1>4, <1>5, <1>6 DEF PagesTrue, dashVars
<1>7. CASE UNCHANGED allDailyVars
    BY <1>6, <1>7 DEF allDailyVars, allVars, vars, completionVars
<1>8. ASSUME NEW l \in Loads, NEW u \in Users, UNCHANGED vars, UNCHANGED dailyVars,
             loadDashboard(l) \/ ListAssignees(l) \/ ListAvailable(l, u) \/ ListCompleted(l, u)
               \/ endLoad(l) \/ failLoad(l)
      PROVE  PagesTrue'
    <2>1. LoadsAreTrue' /\ UNCHANGED attempt
        BY <1>8, LoadsTrue DEF vars, completionVars
    <2>2. CASE endLoad(l)
        <3>1. loads[l].at = "reading" /\ loads[l].of \in Assignees /\ shown'.of = loads[l].of
            BY <1>0, <2>2 DEF endLoad, Answered, Loading, Quiet
        <3>2. PICK of \in Assignees : of = loads[l].of
            BY <3>1
        <3>3. ListsTrue(of)'
            BY <1>1, <3>1, <3>2 DEF PagesTrue, LoadsAreTrue
        <3>4. ListsTrue(shown.of)'
            BY <3>1, <3>2, <3>3
        <3>5. ASSUME NEW c \in Completers PROVE ClickTrue(c)'
            <4>1. \/ clicks'[c] = [clicks[c] EXCEPT !.current = FALSE]
                  \/ clicks'[c] = Quiet
                BY <2>2 DEF endLoad
            <4>2. QED
                BY <1>1, <1>5, <2>1, <4>1, ClickStays DEF PagesTrue
        <3>6. QED
            BY <1>1, <1>4, <1>8, <2>1, <3>4, <3>5 DEF PagesTrue
    <2>3. CASE ~endLoad(l)
        <3>1. UNCHANGED <<clicks, shown>>
            BY <1>8, <2>3 DEF loadDashboard, ListAssignees, ListAvailable, ListCompleted, failLoad
        <3>2. QED
            BY <1>1, <1>3, <1>4, <1>5, <1>8, <2>1, <3>1 DEF PagesTrue
    <2>4. QED
        BY <2>2, <2>3
<1>9. ASSUME NEW c \in Completers, UNCHANGED vars,
             \/ ~daily.open /\ \E u \in Users, t \in Tasks : clickComplete(c, u, t) /\ UNCHANGED dailyVars
             \/ \E t \in Tasks : clickTask(c, t) /\ UNCHANGED <<loads, shown, world>>
      PROVE  PagesTrue'
    <2>1. /\ UNCHANGED <<loads, shown, dailyVars, attempt>>
          /\ \E y : y.at = "sent" /\ (daily.open => y.user = Member) /\ clicks' = [clicks EXCEPT ![c] = y]
        BY <1>9 DEF clickComplete, clickTask, vars, completionVars
    <2>2. \A d \in Completers : ClickTrue(d)'
        BY <1>0, <1>5, <2>1
    <2>3. QED
        BY <1>1, <1>2, <1>3, <1>4, <2>1, <2>2 DEF PagesTrue
<1>10. ASSUME NEW c \in Completers, UNCHANGED dailyVars, UNCHANGED <<loads, shown>>,
              serveClick(c) \/ (daily.open /\ serveTask(c))
       PROVE  PagesTrue'
    <2>1. clicks[c].at = "sent" /\ clicks[c] \in Clicking /\ (daily.open => clicks[c].user = Member)
        BY <1>0, <1>10 DEF serveClick, serveTask, Quiet, PagesTrue, ClickTrue
    <2>2. PICK u \in Users, t \in Tasks : u = clicks[c].user /\ t = clicks[c].task
        BY <2>1 DEF Clicking
    <2>3. completeTaskForUser(c, t, u)
        <3>1. CASE serveClick(c)
            BY <2>2, <3>1 DEF serveClick, completeDashboardTask
        <3>2. CASE daily.open /\ serveTask(c)
            BY <2>1, <2>2, <3>2 DEF serveTask, completeTask
        <3>3. QED
            BY <1>10, <3>1, <3>2
    <2>4. clicks' = [clicks EXCEPT ![c].at = "served"]
        BY <1>10 DEF serveClick, serveTask
    <2>5. /\ clicks'[c].at = "served" /\ clicks'[c].user = u /\ clicks'[c].task = t
          /\ attempt'[c].at = "begun" /\ attempt'[c].user = u /\ attempt'[c].task = t
          /\ \A d \in Completers \ {c} : clicks'[d] = clicks[d] /\ attempt'[d] = attempt[d]
        BY <1>0, <2>1, <2>2, <2>3, <2>4 DEF completeTaskForUser, Clicking
    <2>6. \A d \in Completers : ClickTrue(d)'
        BY <1>1, <1>5, <2>1, <2>2, <2>5 DEF ClickTrue
    <2>7. QED
        BY <1>1, <1>2, <1>3, <1>4, <1>10, <2>6 DEF PagesTrue
<1>11. ASSUME NEW c \in Completers, workClick(c), UNCHANGED editVars, UNCHANGED dailyVars
       PROVE  PagesTrue'
    <2>1. ClickTrue(c) /\ UNCHANGED <<loads, shown>>
        BY <1>11 DEF PagesTrue, workClick
    <2>2. \A d \in Completers \ {c} : clicks'[d] = clicks[d] /\ attempt'[d] = attempt[d]
        <3>1. \E y : attempt' = [attempt EXCEPT ![c] = y]
            BY <1>11, <2>1, WorkOutcome DEF GoesOn
        <3>2. UNCHANGED clicks \/ \E y : clicks' = [clicks EXCEPT ![c] = y]
            <4>1. \A y, ok : AnswerOf(c, y, ok) => clicks' = [clicks EXCEPT ![c] = y]
                BY DEF AnswerOf
            <4>2. QED
                BY <1>11, <2>1, <4>1, WorkOutcome
        <3>3. QED
            BY <1>0, <3>1, <3>2
    <2>3. ClickTrue(c)'
        <3>1. clicks[c].user \in Users /\ clicks[c].at = "served"
            BY <1>11, <2>1, WorkOutcome DEF Clicking
        <3>2. CASE UNCHANGED clicks /\ \E y \in Attempting : GoesOn(c, y)
            <4>1. PICK y \in Attempting :
                      /\ attempt' = [attempt EXCEPT ![c] = y] /\ y.user = attempt[c].user
                      /\ y.task = attempt[c].task
                BY <3>2 DEF GoesOn
            <4>2. attempt'[c] = y /\ y.at # "idle" /\ clicks'[c] = clicks[c]
                BY <1>0, <3>2, <4>1 DEF Attempting
            <4>3. QED
                BY <1>1, <2>1, <3>1, <4>1, <4>2 DEF ClickTrue
        <3>3. CASE \E y : AnswerOf(c, y, FALSE)
            BY <1>0, <1>1, <2>1, <3>1, <3>3 DEF AnswerOf, ClickTrue
        <3>4. ASSUME NEW y, AnswerOf(c, y, TRUE),
                     completions' = completions \cup
                      {[task |-> attempt[c].task, user |-> attempt[c].user,
                        day |-> attempt[c].day, award |-> attempt[c].value]}
              PROVE  ClickTrue(c)'
            <4>1. /\ clicks'[c] = y /\ y.at = "answered" /\ y.user = clicks[c].user
                  /\ y.task = clicks[c].task /\ y.points = points'[y.user]
                BY <1>0, <3>4 DEF AnswerOf
            <4>2. attempt[c].user = y.user /\ attempt[c].task = y.task
                BY <1>11, <2>1, <4>1, WorkOutcome
            <4>3. points' \in [Users -> 0 .. MaxInt]
                BY <1>1 DEF IInv, CompletionInv, TypeOK
            <4>4. y.points =< points'[y.user]
                <5>1. points'[y.user] \in 0 .. MaxInt
                    BY <3>1, <4>1, <4>3
                <5>2. QED
                    BY <4>1, <5>1, RulesAssumption
            <4>5. \E r \in completions' : r.user = y.user /\ r.task = y.task
                <5>1. PICK row : row = [task |-> attempt[c].task, user |-> attempt[c].user,
                                        day |-> attempt[c].day, award |-> attempt[c].value]
                    OBVIOUS
                <5>2. row \in completions'
                    BY <3>4, <5>1
                <5>3. row.user = y.user /\ row.task = y.task
                    BY <4>2, <5>1
                <5>4. QED
                    BY <5>2, <5>3
            <4>6. QED
                BY <1>1, <2>1, <3>1, <4>1, <4>4, <4>5 DEF ClickTrue, Done
        <3>5. QED
            BY <1>11, <2>1, <3>2, <3>3, <3>4, WorkOutcome
    <2>4. QED
        BY <1>1, <1>2, <1>3, <1>4, <1>5, <1>11, <2>1, <2>2, <2>3 DEF PagesTrue
<1>12. ASSUME NEW c \in Completers, UNCHANGED vars, UNCHANGED dailyVars, endClick(c)
       PROVE  PagesTrue'
    <2>1. clicks[c] \in Clicking /\ clicks[c].at = "answered" /\ ClickTrue(c) /\ UNCHANGED loads
        BY <1>0, <1>12 DEF endClick, Quiet, PagesTrue
    <2>2. ListsTrue(shown.of)'
        <3>1. CASE ~(clicks[c].ok /\ clicks[c].current)
            <4>1. UNCHANGED shown
                BY <1>12, <3>1, Zenon DEF endClick
            <4>2. QED
                BY <1>3, <4>1
        <3>2. CASE clicks[c].ok /\ clicks[c].current
            <4>1. PICK u, t, n : u = clicks[c].user /\ t = clicks[c].task /\ n = clicks[c].points
                OBVIOUS
            <4>2. shown' = [shown EXCEPT !.of[u] =
                              [points |-> n, tasks |-> @.tasks \ {t}, completed_tasks |-> @.completed_tasks \cup {t}]]
                BY <1>12, <3>2, <4>1, Zenon DEF endClick
            <4>3. n =< points[u] /\ Done(u, t)
                BY <2>1, <3>2, <4>1 DEF ClickTrue
            <4>4. /\ DOMAIN shown'.of = DOMAIN shown.of
                  /\ \A v \in DOMAIN shown.of :
                       shown'.of[v] = IF v = u THEN [points |-> n, tasks |-> shown.of[v].tasks \ {t},
                                                     completed_tasks |-> shown.of[v].completed_tasks \cup {t}]
                                               ELSE shown.of[v]
                BY <1>0, <4>2 DEF DailyTypeOK, DashTypeOK, Assignees
            <4>5. \A v \in DOMAIN shown.of :
                    /\ shown'.of[v].points =< points[v]
                    /\ \A s \in shown'.of[v].completed_tasks : Done(v, s)
                <5> SUFFICES ASSUME NEW v \in DOMAIN shown.of
                             PROVE  /\ shown'.of[v].points =< points[v]
                                    /\ \A s \in shown'.of[v].completed_tasks : Done(v, s)
                    OBVIOUS
                <5>1. CASE v = u
                    <6>1. PICK page : page = [points |-> n, tasks |-> shown.of[v].tasks \ {t},
                                              completed_tasks |-> shown.of[v].completed_tasks \cup {t}]
                        OBVIOUS
                    <6>2. page.points = n /\ page.completed_tasks = shown.of[v].completed_tasks \cup {t}
                        BY <6>1
                    <6>3. shown'.of[v] = page
                        BY <4>4, <5>1, <6>1, Zenon
                    <6>4. QED
                        BY <4>3, <5>1, <6>2, <6>3 DEF PagesTrue, ListsTrue
                <5>2. CASE v # u
                    BY <4>4, <5>2 DEF PagesTrue, ListsTrue
                <5>3. QED
                    BY <5>1, <5>2
            <4>6. QED
                BY <1>12, <4>4, <4>5 DEF ListsTrue, Done, vars, completionVars
        <3>3. QED
            BY <3>1, <3>2
    <2>3. /\ clicks'[c] = Quiet /\ UNCHANGED attempt
          /\ \A d \in Completers \ {c} : clicks'[d] = clicks[d]
        BY <1>0, <1>12 DEF endClick, vars, completionVars
    <2>4. QED
        BY <1>1, <1>2, <1>4, <1>5, <1>12, <2>1, <2>2, <2>3 DEF PagesTrue
<1>13. ASSUME NEW c \in Completers, UNCHANGED vars, UNCHANGED dailyVars, failClick(c)
       PROVE  PagesTrue'
    <2>1. /\ UNCHANGED <<loads, shown, attempt>> /\ clicks'[c] = Quiet
          /\ \A d \in Completers \ {c} : clicks'[d] = clicks[d]
        BY <1>0, <1>13 DEF failClick, vars, completionVars
    <2>2. QED
        BY <1>1, <1>2, <1>3, <1>4, <1>5, <1>13, <2>1 DEF PagesTrue
<1>14. ASSUME NEW l \in Loads, UNCHANGED <<vars, clicks, loads, shown>>,
              me(l) \/ listMyDailyTasks(l) \/ hydrateCurrentUser(l) \/ loadTaskView(l) \/ loadDailyTasks(l)
       PROVE  PagesTrue'
    <2>0. /\ points[Member] \in Int /\ 0 =< points[Member] /\ points[Member] =< points[Member]
          /\ UNCHANGED <<attempt, points>>
        BY <1>0, <1>14, RulesAssumption DEF vars, completionVars
    <2>1. CASE me(l)
        <3>1. fetches[l] \in Fetching
            BY <1>0, <2>1 DEF me, Quiet
        <3>2. PICK x : x = [fetches[l] EXCEPT !.at = "answered", !.points = points[Member]]
            OBVIOUS
        <3>3. x.points = points[Member] /\ fetches' = [fetches EXCEPT ![l] = x] /\ UNCHANGED daily
            BY <2>1, <3>1, <3>2 DEF me, Fetching
        <3>4. DailyTrue'
            BY <1>0, <2>0, <3>3 DEF DailyTrue, PagesTrue
        <3>5. QED
            BY <1>1, <1>2, <1>3, <1>5, <1>14, <2>0, <3>4 DEF PagesTrue
    <2>2. CASE listMyDailyTasks(l)
        <3>1. fetches[l] \in Fetching
            BY <1>0, <2>2 DEF listMyDailyTasks, Quiet
        <3>2. PICK x, found : /\ found = AvailableTasks(Member, today)
                              /\ x = [fetches[l] EXCEPT !.at = "answered", !.day = today, !.tasks = found]
            OBVIOUS
        <3>3. /\ x.points = fetches[l].points /\ fetches' = [fetches EXCEPT ![l] = x] /\ UNCHANGED daily
              /\ fetches[l] # Quiet
            <4>1. x.points = fetches[l].points /\ fetches[l].at \in {"sent", "answered"}
                BY <3>1, <3>2 DEF Fetching
            <4>2. /\ UNCHANGED daily
                  /\ fetches' = [fetches EXCEPT ![l] =
                       [fetches[l] EXCEPT !.at = "answered", !.day = today,
                                          !.tasks = AvailableTasks(Member, today)]]
                BY <2>2 DEF listMyDailyTasks
            <4>3. fetches[l] # Quiet
                BY <4>1 DEF Quiet
            <4>4. QED
                BY <3>2, <4>1, <4>2, <4>3
        <3>4. DailyTrue'
            BY <1>0, <2>0, <3>3 DEF DailyTrue, PagesTrue
        <3>5. QED
            BY <1>1, <1>2, <1>3, <1>5, <1>14, <2>0, <3>4 DEF PagesTrue
    <2>3. CASE hydrateCurrentUser(l) \/ loadTaskView(l) \/ loadDailyTasks(l)
        <3>1. /\ daily'.points = daily.points \/ (fetches[l] # Quiet /\ daily'.points = fetches[l].points)
              /\ \A m \in Loads : \/ fetches'[m] = fetches[m] \/ fetches'[m] = Quiet \/ fetches'[m] = Fetch("tasks")
            <4>1. \/ fetches' = [fetches EXCEPT ![l] = Fetch("tasks")]
                  \/ fetches' = [fetches EXCEPT ![l] = Quiet]
                BY <2>3 DEF hydrateCurrentUser, loadTaskView, loadDailyTasks
            <4>2. \/ daily' = daily
                  \/ fetches[l] # Quiet /\ daily' = [daily EXCEPT !.points = fetches[l].points, !.heard = TRUE]
                  \/ daily' = [daily EXCEPT !.date = fetches[l].day, !.tasks = fetches[l].tasks]
                BY <2>3 DEF hydrateCurrentUser, loadTaskView, loadDailyTasks
            <4>3. daily'.points = daily.points \/ (fetches[l] # Quiet /\ daily'.points = fetches[l].points)
                <5>1. /\ \A n : [daily EXCEPT !.points = n].points = n
                      /\ \A day, found : [daily EXCEPT !.date = day, !.tasks = found].points = daily.points
                    BY <1>0
                <5>2. CASE daily' = daily
                    BY <5>2
                <5>3. CASE fetches[l] # Quiet /\ daily' = [daily EXCEPT !.points = fetches[l].points, !.heard = TRUE]
                    BY <5>1, <5>3
                <5>4. CASE daily' = [daily EXCEPT !.date = fetches[l].day, !.tasks = fetches[l].tasks]
                    BY <5>1, <5>4
                <5>5. QED
                    BY <4>2, <5>2, <5>3, <5>4
            <4>4. \A m \in Loads : \/ fetches'[m] = fetches[m] \/ fetches'[m] = Quiet
                                   \/ fetches'[m] = Fetch("tasks")
                BY <1>0, <4>1
            <4>5. QED
                BY <4>3, <4>4
        <3>2. Fetch("tasks").points = 0
            BY DEF Fetch
        <3>3. DailyTrue'
            BY <1>0, <2>0, <3>1, <3>2 DEF DailyTrue, PagesTrue
        <3>4. QED
            BY <1>1, <1>2, <1>3, <1>5, <1>14, <2>0, <3>3 DEF PagesTrue
    <2>4. QED
        BY <1>14, <2>1, <2>2, <2>3
<1>15. ASSUME NEW c \in Completers, UNCHANGED <<vars, loads, shown>>, daily.open, endTask(c)
       PROVE  PagesTrue'
    <2>1. /\ clicks'[c] = Quiet /\ UNCHANGED <<attempt, points, fetches>>
          /\ \A d \in Completers \ {c} : clicks'[d] = clicks[d]
        BY <1>0, <1>15 DEF endTask, vars, completionVars
    <2>2. daily'.points =< points[Member]
        <3>1. clicks[c].at = "answered" /\ ClickTrue(c) /\ daily.points =< points[Member]
            BY <1>15 DEF endTask, PagesTrue, DailyTrue
        <3>2. daily'.points = daily.points \/ (clicks[c].ok /\ daily'.points = clicks[c].points)
            <4>1. PICK x : x = clicks[c]
                OBVIOUS
            <4>2. PICK left : left = daily.tasks \ {x.task}
                OBVIOUS
            <4>3. \A n : [daily EXCEPT !.tasks = left, !.points = n, !.heard = TRUE].points = n
                BY <1>0
            <4>4. daily' = daily \/ (x.ok /\ daily' = [daily EXCEPT !.tasks = left, !.points = x.points, !.heard = TRUE])
                BY <1>15, <4>1, <4>2, Zenon DEF endTask
            <4>5. QED
                BY <4>1, <4>3, <4>4, Zenon
        <3>3. QED
            BY <1>15, <3>1, <3>2 DEF ClickTrue
    <2>3. DailyTrue'
        BY <2>1, <2>2 DEF DailyTrue, PagesTrue
    <2>4. QED
        BY <1>1, <1>2, <1>3, <1>5, <1>15, <2>1, <2>3 DEF PagesTrue
<1>16. CASE Others /\ UNCHANGED <<dashVars, dailyVars>>
    <2>1. \A c \in Completers : clicks[c] # Quiet => attempt'[c] = attempt[c]
        <3>1. ASSUME NEW c \in Completers, clicks[c] # Quiet,
                     NEW d \in Completers, clicks[d] = Quiet,
                     \/ \E t \in Tasks : \E u \in assigned[t] : completeTask(d, u, t)
                     \/ CompletionStep(d)
                     \/ AbortCompletion(d)
              PROVE  attempt'[c] = attempt[c]
            BY <1>0, <3>1 DEF completeTask, completeTaskForUser, CompletionStep, FindTask, InsertCompletion,
                              AddUserPoints, CommitCompletion, AbortCompletion
        <3>2. QED
            BY <1>16, <3>1 DEF Others, completionVars
    <2>2. QED
        BY <1>6, <1>16, <2>1
<1>17. CASE NextDay /\ UNCHANGED <<dashVars, dailyVars>>
    BY <1>6, <1>17 DEF NextDay
<1>18. CASE ~daily.open /\ DashNext /\ UNCHANGED dailyVars
    <2>1. ASSUME NEW c \in Completers, failClick(c) \/ serveClick(c) \/ workClick(c)
          PROVE  UNCHANGED <<loads, shown>>
        BY <2>1 DEF failClick, serveClick, workClick
    <2>2. QED
        <3>1. ASSUME NEW l \in Loads, UNCHANGED vars,
                     \/ loadDashboard(l) \/ ListAssignees(l) \/ endLoad(l) \/ failLoad(l)
                     \/ \E u \in Users : ListAvailable(l, u) \/ ListCompleted(l, u)
              PROVE  PagesTrue'
            BY <1>8, <1>18, <3>1, DailyAssumption
        <3>2. ASSUME NEW c \in Completers,
                     \/ \E u \in Users, t \in Tasks : clickComplete(c, u, t) /\ UNCHANGED vars
                     \/ (serveClick(c) \/ workClick(c)) /\ UNCHANGED editVars
                     \/ (endClick(c) \/ failClick(c)) /\ UNCHANGED vars
              PROVE  PagesTrue'
            <4>1. UNCHANGED dailyVars /\ ~daily.open
                BY <1>18
            <4>2. CASE \E u \in Users, t \in Tasks : clickComplete(c, u, t) /\ UNCHANGED vars
                BY <1>9, <4>1, <4>2
            <4>3. CASE serveClick(c)
                <5>1. UNCHANGED <<loads, shown>>
                    BY <2>1, <4>3
                <5>2. QED
                    BY <1>10, <4>1, <4>3, <5>1, Zenon
            <4>4. CASE workClick(c) /\ UNCHANGED editVars
                BY <1>11, <4>1, <4>4
            <4>5. CASE (endClick(c) \/ failClick(c)) /\ UNCHANGED vars
                BY <1>12, <1>13, <4>1, <4>5
            <4>6. QED
                BY <3>2, <4>2, <4>3, <4>4, <4>5
        <3>3. CASE Others /\ UNCHANGED dashVars
            BY <1>16, <1>18, <3>3
        <3>4. CASE NextDay /\ UNCHANGED <<editVars, dashVars>>
            BY <1>17, <1>18, <3>4
        <3>5. QED
            BY <1>18, <3>1, <3>2, <3>3, <3>4 DEF DashNext
<1>19. CASE daily.open /\ PageStep /\ UNCHANGED <<loads, shown, world>>
    <2>1. ASSUME NEW c \in Completers, serveTask(c) PROVE UNCHANGED dailyVars
        BY <2>1 DEF serveTask
    <2>2. QED
        BY <1>9, <1>10, <1>14, <1>15, <1>19, <2>1 DEF PageStep
<1>20. QED
    BY <1>7, <1>11, <1>13, <1>16, <1>17, <1>18, <1>19 DEF DailyNext

\* Whatever else is asked of the tables and in whatever order the answers come,
\* both pages show balances their users have had and completions they have made.
THEOREM NothingInvented == DailySpec => []PagesTrue
<1>1. Init /\ DailyInit => PagesTrue
    <2> SUFFICES ASSUME Init, DailyInit PROVE PagesTrue
        OBVIOUS
    <2>1. DailyTypeOK /\ IInv
        BY DailyTypeInit
    <2>2. TablesDated /\ \A u \in Users : points[u] = 0
        BY DEF Init, CompletionInit, TablesDated, NoAttempt
    <2>3. LoadsAreTrue /\ \A c \in Completers : ClickTrue(c)
        BY DEF DailyInit, DashInit, LoadsAreTrue, ClickTrue, Quiet
    <2>4. ListsTrue(shown.of)
        BY DEF DailyInit, DashInit, ListsTrue
    <2>5. daily.points = 0 /\ \A l \in Loads : fetches[l] = Quiet
        BY DEF DailyInit, Opened
    <2>6. DailyTrue
        BY <2>2, <2>5, DailyAssumption DEF DailyTrue
    <2>7. QED
        BY <2>2, <2>3, <2>4, <2>6 DEF PagesTrue
<1>2. IInv /\ DailyTypeOK /\ PagesTrue /\ [DailyNext]_allDailyVars => PagesTrue'
    BY OpensTrue, PagesTrueStep
<1>3. QED
    BY <1>1, <1>2, PagesTyped, PTL DEF DailySpec

----------------------------------------------------------------------------
(* What a page nobody interferes with shows *)

PageDate == IF daily.open THEN daily.date ELSE shown.date

\* While a click is under way nothing is loaded.  It is completed on the day of
\* the page or later, and only a task that is due then goes beyond FindTask.
ClickFits(c) ==
    LET x == clicks[c] IN
    x.at # "quiet" =>
        /\ x.current
        /\ \A l \in Loads : loads[l] = Quiet /\ fetches[l] = Quiet
        /\ x.at = "served" =>
             /\ PageDate =< attempt[c].day
             /\ attempt[c].at # "begun" =>
                  x.user \in assigned[x.task] /\ Due(tasks[x.task], attempt[c].day)
        /\ x.at = "answered" /\ x.ok =>
             \E day \in PageDate .. today : x.task \in CompletedTasks(x.user, day)
        /\ world = "waits" =>
             /\ \A d \in Completers \ {c} : clicks[d] = Quiet
             /\ x.at = "answered" /\ x.ok => x.points = points[x.user]

\* The answer that moves the task is there.
OkClick(u, t) ==
    \E c \in Completers :
        clicks[c].at = "answered" /\ clicks[c].ok /\ clicks[c].user = u /\ clicks[c].task = t

OpenFits(u, t, open) ==
    \/ t \in open <=> t \in AvailableTasks(u, today)
    \/ OkClick(u, t) /\ t \in open /\ t \in CompletedTasks(u, today)

DoneFits(u, t, done) ==
    \/ t \in done <=> t \in CompletedTasks(u, today)
    \/ OkClick(u, t) /\ t \notin done /\ t \in CompletedTasks(u, today)

PointsFit(u, n) == n = points[u] \/ \E t \in Tasks : OkClick(u, t)

\* What a load has read, and a page shows, is what the tables say.
Copies(x) ==
    \A u \in DOMAIN x.of :
        /\ x.of[u].points = points[u]
        /\ u \notin x.left => x.of[u].tasks = AvailableTasks(u, x.day)
        /\ u \notin x.left \cup x.next => x.of[u].completed_tasks = CompletedTasks(u, x.day)

LoadsFit ==
    \A l \in Loads :
        /\ loads[l] # Quiet => loads[l].day =< today
        /\ loads[l].at = "reading" => OneNext(loads[l]) /\ Copies(loads[l])

FetchesFit ==
    \A l \in Loads : fetches[l].at = "answered" =>
        /\ fetches[l].what = "me" => fetches[l].points = points[Member]
        /\ fetches[l].what = "tasks" =>
             fetches[l].day =< today /\ fetches[l].tasks = AvailableTasks(Member, fetches[l].day)

ShownFits ==
    /\ shown.date =< today
    /\ shown.date = today =>
         \A u \in DOMAIN shown.of, t \in Tasks :
             OpenFits(u, t, shown.of[u].tasks) /\ DoneFits(u, t, shown.of[u].completed_tasks)
    /\ world = "waits" /\ ~daily.open => \A u \in DOMAIN shown.of : PointsFit(u, shown.of[u].points)

DailyFits ==
    /\ daily.date =< today
    /\ daily.date = today => \A t \in Tasks : OpenFits(Member, t, daily.tasks)
    /\ world = "waits" /\ daily.open /\ daily.heard => PointsFit(Member, daily.points)

\* The page that is not open loads and shows nothing.
OnePage ==
    /\ daily.open => shown.date = 0 /\ \A l \in Loads : loads[l] = Quiet
    /\ ~daily.open => daily.date = 0 /\ \A l \in Loads : fetches[l] = Quiet

LoneInv ==
    world # "shared" =>
        (\A c \in Completers : ClickFits(c)) /\ LoadsFit /\ FetchesFit /\ ShownFits /\ DailyFits /\ OnePage

TablesSame == UNCHANGED <<tasks, assigned, completions, points, today>>

LEMMA SameTables ==
    ASSUME TablesSame
    PROVE  \A u, day : /\ AvailableTasks(u, day)' = AvailableTasks(u, day)
                       /\ CompletedTasks(u, day)' = CompletedTasks(u, day)
BY DEF TablesSame, AvailableTasks, CompletedTasks, Completed, SameKey, Due

LEMMA OpenOn ==
    ASSUME NEW u, NEW t \in Tasks, NEW day
    PROVE  t \in AvailableTasks(u, day) <=>
             u \in assigned[t] /\ Due(tasks[t], day) /\ t \notin CompletedTasks(u, day)
<1>1. Completed([task |-> t, user |-> u, day |-> day]) <=> t \in CompletedTasks(u, day)
    BY DEF Completed, SameKey, CompletedTasks
<1>2. QED
    BY <1>1 DEF AvailableTasks

\* As long as no answer to a click is taken away, what fits unchanged tables fits.
LEMMA FitsStay ==
    ASSUME TablesSame, \A u, t : OkClick(u, t) => OkClick(u, t)'
    PROVE  /\ \A u, t, open : OpenFits(u, t, open) => OpenFits(u, t, open)'
           /\ \A u, t, done : DoneFits(u, t, done) => DoneFits(u, t, done)'
           /\ \A u, n : PointsFit(u, n) => PointsFit(u, n)'
<1>1. today' = today /\ points' = points
    BY DEF TablesSame
<1>2. ASSUME NEW u, NEW t, NEW open, OpenFits(u, t, open) PROVE OpenFits(u, t, open)'
    BY <1>1, <1>2, SameTables DEF OpenFits
<1>3. ASSUME NEW u, NEW t, NEW done, DoneFits(u, t, done) PROVE DoneFits(u, t, done)'
    BY <1>1, <1>3, SameTables DEF DoneFits
<1>4. ASSUME NEW u, NEW n, PointsFit(u, n) PROVE PointsFit(u, n)'
    BY <1>1, <1>4 DEF PointsFit
<1>5. QED
    BY <1>2, <1>3, <1>4

LEMMA ShownStays ==
    ASSUME UNCHANGED <<shown, world>>, today' = today, daily'.open = daily.open, ShownFits,
           \A u, open : \A t \in Tasks : OpenFits(u, t, open) => OpenFits(u, t, open)',
           \A u, t, done : DoneFits(u, t, done) => DoneFits(u, t, done)',
           \A u, n : PointsFit(u, n) => PointsFit(u, n)'
    PROVE  ShownFits'
<1>1. PICK page : page = shown
    OBVIOUS
<1>2. /\ page.date = today =>
           \A u \in DOMAIN page.of, t \in Tasks :
             OpenFits(u, t, page.of[u].tasks)' /\ DoneFits(u, t, page.of[u].completed_tasks)'
      /\ world = "waits" /\ ~daily.open => \A u \in DOMAIN page.of : PointsFit(u, page.of[u].points)'
    BY <1>1 DEF ShownFits
<1>3. QED
    BY <1>1, <1>2 DEF ShownFits

LEMMA DailyStays ==
    ASSUME UNCHANGED <<daily, world>>, today' = today, DailyFits,
           \A u, open : \A t \in Tasks : OpenFits(u, t, open) => OpenFits(u, t, open)',
           \A u, n : PointsFit(u, n) => PointsFit(u, n)'
    PROVE  DailyFits'
<1>1. PICK page : page = daily
    OBVIOUS
<1>2. /\ page.date = today => \A t \in Tasks : OpenFits(Member, t, page.tasks)'
      /\ world = "waits" /\ page.open /\ page.heard => PointsFit(Member, page.points)'
    BY <1>1 DEF DailyFits
<1>3. QED
    BY <1>1, <1>2 DEF DailyFits

LEMMA LoadsStay ==
    ASSUME TablesSame, LoadsFit, UNCHANGED loads
    PROVE  LoadsFit'
<1>1. ASSUME NEW x, Copies(x) PROVE Copies(x)'
    BY <1>1, SameTables DEF Copies, TablesSame
<1>2. \A l \in Loads : loads[l].at = "reading" => Copies(loads[l])'
    <2> SUFFICES ASSUME NEW l \in Loads, loads[l].at = "reading" PROVE Copies(loads[l])'
        OBVIOUS
    <2>1. PICK x : x = loads[l]
        OBVIOUS
    <2>2. Copies(x)'
        BY <1>1, <2>1 DEF LoadsFit
    <2>3. QED
        BY <2>1, <2>2
<1>3. QED
    BY <1>2 DEF LoadsFit, TablesSame, OneNext

LEMMA FetchesStay ==
    ASSUME TablesSame, FetchesFit, UNCHANGED fetches
    PROVE  FetchesFit'
BY SameTables DEF FetchesFit, TablesSame

\* While something is loaded no click is under way.
LEMMA LoadingQuiet ==
    ASSUME DailyTypeOK, LoneInv, world # "shared", NEW l \in Loads, loads[l] # Quiet \/ fetches[l] # Quiet
    PROVE  QuietPage
<1> SUFFICES ASSUME NEW c \in Completers PROVE clicks[c] = Quiet
    BY DEF QuietPage
<1>1. clicks[c] # Quiet => clicks[c].at # "quiet"
    BY DEF DailyTypeOK, DashTypeOK, Clicking
<1>2. QED
    BY <1>1 DEF LoneInv, ClickFits

\* Nothing is taken away from a page without clicks.
LEMMA QuietFits ==
    ASSUME QuietPage
    PROVE  (\A u, t : ~OkClick(u, t)) /\ \A c \in Completers : ClickFits(c)
BY DEF QuietPage, Quiet, OkClick, ClickFits

LEMMA LoneReads ==
    ASSUME IInv, DailyTypeOK, LoneInv, world # "shared", UNCHANGED vars,
           NEW l \in Loads, NEW u \in Users,
           loadDashboard(l) \/ ListAssignees(l) \/ ListAvailable(l, u) \/ ListCompleted(l, u)
             \/ endLoad(l) \/ failLoad(l)
    PROVE  LoadsFit'
<1>0. /\ TablesSame /\ LoadsFit /\ today \in Int /\ today =< today
      /\ loads \in [Loads -> Loading \cup {Quiet}]
      /\ loads[l].at = "reading" =>
           /\ loads[l] \in Reading /\ loads[l].left \cup loads[l].next \subseteq DOMAIN loads[l].of
           /\ OneNext(loads[l]) /\ Copies(loads[l]) /\ loads[l].day =< today
    BY DEF TablesSame, vars, editVars, completionVars, LoneInv, LoadsFit, DailyTypeOK, DashTypeOK, Loading,
           Quiet, Reading, IInv, CompletionInv, TypeOK
<1>1. ASSUME NEW x, loads' = [loads EXCEPT ![l] = x], x # Quiet => x.day =< today,
             x.at = "reading" => OneNext(x) /\ Copies(x)
      PROVE  LoadsFit'
    <2>1. \A y : Copies(y) => Copies(y)'
        BY <1>0, SameTables DEF Copies, TablesSame
    <2>2. today' = today
        BY <1>0 DEF TablesSame
    <2>3. ASSUME NEW m \in Loads
          PROVE  /\ loads'[m] # Quiet => loads'[m].day =< today
                 /\ loads'[m].at = "reading" => OneNext(loads'[m]) /\ Copies(loads[m])'
        <3>1. PICK y : y = loads'[m]
            OBVIOUS
        <3>2. y.at = "reading" => OneNext(y) /\ Copies(y)
            BY <1>0, <1>1, <3>1 DEF LoadsFit
        <3>3. y # Quiet => y.day =< today
            BY <1>0, <1>1, <3>1 DEF LoadsFit
        <3>4. QED
            BY <2>1, <3>1, <3>2, <3>3
    <2>4. QED
        BY <2>2, <2>3 DEF LoadsFit, OneNext
<1>2. CASE loadDashboard(l)
    BY <1>0, <1>1, <1>2 DEF loadDashboard
<1>3. CASE ListAssignees(l)
    <2>1. PICK day : day = loads[l].day
        OBVIOUS
    <2>2. PICK users : users = ListAvailableTaskAssignees(day)
        OBVIOUS
    <2>3. PICK of : of = [v \in users |-> [points |-> points[v], tasks |-> {}, completed_tasks |-> {}]]
        OBVIOUS
    <2>4. PICK x : x = [at |-> "reading", day |-> day, left |-> users, next |-> {}, of |-> of]
        OBVIOUS
    <2>5. /\ x.day = day /\ x.of = of /\ DOMAIN of = users /\ x.left = users
          /\ \A v \in users : of[v].points = points[v]
        BY <2>3, <2>4
    <2>6. OneNext(x) /\ Copies(x)
        BY <2>4, <2>5 DEF Copies, OneNext
    <2>7. loads' = [loads EXCEPT ![l] = x]
        BY <1>3, <2>1, <2>2, <2>3, <2>4 DEF ListAssignees
    <2>8. loads[l] # Quiet
        BY <1>3 DEF ListAssignees, Quiet
    <2>9. QED
        BY <1>0, <1>1, <2>1, <2>5, <2>6, <2>7, <2>8 DEF LoadsFit
<1>4. CASE ListAvailable(l, u)
    <2>1. PICK found : found = AvailableTasks(u, loads[l].day)
        OBVIOUS
    <2>2. PICK x : x = ReadTasks(loads[l], u, found)
        OBVIOUS
    <2>3. loads[l] \in Reading /\ u \in DOMAIN loads[l].of /\ found \subseteq Tasks
        BY <1>0, <1>4, <2>1 DEF ListAvailable, AvailableTasks
    <2>4. /\ x.day = loads[l].day /\ x.left = loads[l].left \ {u} /\ x.next = {u}
          /\ DOMAIN x.of = DOMAIN loads[l].of
          /\ \A v \in DOMAIN x.of :
               /\ v # u => x.of[v] = loads[l].of[v]
               /\ v = u => x.of[v].points = loads[l].of[v].points /\ x.of[v].tasks = found
        BY <2>2, <2>3, ReadTasksKnown
    <2>5. Copies(loads[l]) /\ loads[l].next = {} /\ loads[l].day =< today
        BY <1>0, <1>4 DEF ListAvailable
    <2>6. OneNext(x) /\ Copies(x)
        BY <2>1, <2>4, <2>5 DEF Copies, OneNext
    <2>7. loads' = [loads EXCEPT ![l] = x]
        BY <1>4, <2>1, <2>2 DEF ListAvailable, ReadTasks
    <2>8. QED
        BY <1>1, <2>4, <2>5, <2>6, <2>7
<1>5. CASE ListCompleted(l, u)
    <2>1. PICK found : found = CompletedTasks(u, loads[l].day)
        OBVIOUS
    <2>2. PICK x : x = ReadCompleted(loads[l], u, found)
        OBVIOUS
    <2>3. loads[l] \in Reading /\ u \in DOMAIN loads[l].of /\ found \subseteq Tasks
        BY <1>0, <1>5, <2>1 DEF ListCompleted, CompletedTasks, IInv, CompletionInv, TypeOK, Completion
    <2>4. /\ x.day = loads[l].day /\ x.left = loads[l].left /\ x.next = {}
          /\ DOMAIN x.of = DOMAIN loads[l].of
          /\ \A v \in DOMAIN x.of :
               /\ v # u => x.of[v] = loads[l].of[v]
               /\ v = u => /\ x.of[v].points = loads[l].of[v].points
                           /\ x.of[v].tasks = loads[l].of[v].tasks
                           /\ x.of[v].completed_tasks = found
        BY <2>2, <2>3, ReadCompletedKnown
    <2>5. Copies(loads[l]) /\ loads[l].day =< today
        BY <1>0, <1>5 DEF ListCompleted
    <2>6. loads[l].next = {u}
        BY <1>0, <1>5 DEF ListCompleted, OneNext
    <2>7. OneNext(x) /\ Copies(x)
        BY <2>1, <2>4, <2>5, <2>6 DEF Copies, OneNext
    <2>8. loads' = [loads EXCEPT ![l] = x]
        BY <1>5, <2>1, <2>2 DEF ListCompleted, ReadCompleted
    <2>9. QED
        BY <1>1, <2>4, <2>5, <2>7, <2>8
<1>6. CASE endLoad(l) \/ failLoad(l)
    BY <1>1, <1>6 DEF endLoad, failLoad, Quiet
<1>7. QED
    BY <1>2, <1>3, <1>4, <1>5, <1>6

LEMMA LoneLoads ==
    ASSUME IInv, DailyTypeOK, LoneInv, world # "shared", ~daily.open, UNCHANGED <<vars, dailyVars>>,
           NEW l \in Loads, NEW u \in Users,
           loadDashboard(l) \/ ListAssignees(l) \/ ListAvailable(l, u) \/ ListCompleted(l, u)
             \/ endLoad(l) \/ failLoad(l)
    PROVE  LoneInv'
<1>1. /\ TablesSame /\ LoadsFit' /\ UNCHANGED <<world, daily, fetches>> /\ today' = today
      /\ LoadsFit /\ FetchesFit /\ ShownFits /\ DailyFits /\ OnePage
    BY LoneReads, Zenon DEF TablesSame, vars, editVars, completionVars, dailyVars, LoneInv,
       loadDashboard, ListAssignees, ListAvailable, ListCompleted, endLoad, failLoad
<1>2. QuietPage /\ QuietPage'
    <2>1. CASE loadDashboard(l)
        BY <2>1 DEF loadDashboard, QuietPage
    <2>2. CASE ~loadDashboard(l)
        <3>1. loads[l] # Quiet
            BY <2>2 DEF ListAssignees, ListAvailable, ListCompleted, endLoad, failLoad, Answered, Quiet
        <3>2. QuietPage
            BY <3>1, LoadingQuiet
        <3>3. QED
            BY <2>2, <3>2 DEF QuietPage, ListAssignees, ListAvailable, ListCompleted, endLoad, failLoad
    <2>3. QED
        BY <2>1, <2>2
<1>3. /\ \A v, t : ~OkClick(v, t) /\ ~OkClick(v, t)'
      /\ \A c \in Completers : ClickFits(c)'
    BY <1>2, QuietFits DEF QuietPage, OkClick, ClickFits, Quiet
<1>4. FetchesFit' /\ DailyFits'
    BY <1>1, <1>3, FitsStay, DailyStays, FetchesStay
<1>5. OnePage'
    BY <1>1 DEF OnePage
<1>6. ShownFits'
    <2>1. CASE endLoad(l)
        <3>1. PICK x : x = loads[l]
            OBVIOUS
        <3>2. /\ x.left = {} /\ x.next = {} /\ Copies(x) /\ x.day =< today
              /\ shown'.date = x.day /\ shown'.of = x.of
            BY <1>1, <2>1, <3>1 DEF endLoad, Answered, LoadsFit, Quiet
        <3>3. \A v \in DOMAIN x.of : /\ x.of[v].points = points[v]
                                     /\ x.of[v].tasks = AvailableTasks(v, x.day)
                                     /\ x.of[v].completed_tasks = CompletedTasks(v, x.day)
            BY <3>2 DEF Copies
        <3>4. x.day = today => \A v \in DOMAIN x.of, t \in Tasks :
                 OpenFits(v, t, x.of[v].tasks) /\ DoneFits(v, t, x.of[v].completed_tasks)
            BY <3>3 DEF OpenFits, DoneFits
        <3>5. \A v \in DOMAIN x.of : PointsFit(v, x.of[v].points)
            BY <3>3 DEF PointsFit
        <3>6. /\ x.day = today => \A v \in DOMAIN x.of, t \in Tasks :
                   OpenFits(v, t, x.of[v].tasks)' /\ DoneFits(v, t, x.of[v].completed_tasks)'
              /\ \A v \in DOMAIN x.of : PointsFit(v, x.of[v].points)'
            BY <1>1, <1>3, <3>4, <3>5, FitsStay
        <3>7. QED
            BY <1>1, <3>2, <3>6 DEF ShownFits
    <2>2. CASE ~endLoad(l)
        <3>1. UNCHANGED shown
            BY <2>2 DEF loadDashboard, ListAssignees, ListAvailable, ListCompleted, failLoad
        <3>2. QED
            BY <1>1, <1>3, <3>1, FitsStay, ShownStays
    <2>3. QED
        BY <2>1, <2>2
<1>7. QED
    BY <1>1, <1>3, <1>4, <1>5, <1>6 DEF LoneInv

LEMMA LoneFetches ==
    ASSUME IInv, DailyTypeOK, LoneInv, world # "shared", daily.open,
           UNCHANGED <<vars, clicks, loads, shown, world>>, NEW l \in Loads,
           me(l) \/ listMyDailyTasks(l) \/ hydrateCurrentUser(l) \/ loadTaskView(l) \/ loadDailyTasks(l)
    PROVE  LoneInv'
<1>0. /\ fetches \in [Loads -> Fetching \cup {Quiet}] /\ today \in Int
      /\ daily \in [open : BOOLEAN, date : 0 .. LastDay, tasks : SUBSET Tasks, points : 0 .. MaxInt, heard : BOOLEAN]
    BY DEF DailyTypeOK, DailyState, IInv, CompletionInv, TypeOK
<1>1. /\ TablesSame /\ today' = today /\ UNCHANGED <<clicks, loads, shown, world>>
      /\ LoadsFit /\ FetchesFit /\ ShownFits /\ DailyFits /\ OnePage
    BY DEF TablesSame, vars, editVars, completionVars, LoneInv
<1>2. QuietPage
    <2>1. CASE loadTaskView(l)
        BY <2>1 DEF loadTaskView
    <2>2. CASE ~loadTaskView(l)
        <3>1. fetches[l] # Quiet
            BY <2>2 DEF me, listMyDailyTasks, hydrateCurrentUser, loadDailyTasks, Quiet
        <3>2. QED
            BY <3>1, LoadingQuiet
    <2>3. QED
        BY <2>1, <2>2
<1>3. /\ \A v, t : ~OkClick(v, t) /\ ~OkClick(v, t)'
      /\ \A c \in Completers : ClickFits(c)'
    BY <1>1, <1>2, QuietFits DEF QuietPage, OkClick, ClickFits, Quiet
<1>4. LoadsFit'
    BY <1>1, LoadsStay
<1>5. ASSUME NEW x, fetches' = [fetches EXCEPT ![l] = x],
             x.at = "answered" =>
               /\ x.what = "me" => x.points = points[Member]
               /\ x.what = "tasks" => x.day =< today /\ x.tasks = AvailableTasks(Member, x.day)
      PROVE  FetchesFit'
    <2>1. ASSUME NEW m \in Loads, fetches'[m].at = "answered"
          PROVE  /\ fetches'[m].what = "me" => fetches'[m].points = points[Member]
                 /\ fetches'[m].what = "tasks" =>
                      fetches'[m].day =< today /\ fetches'[m].tasks = AvailableTasks(Member, fetches'[m].day)
        BY <1>0, <1>1, <1>5, <2>1 DEF FetchesFit
    <2>2. QED
        BY <1>1, <2>1, SameTables DEF FetchesFit, TablesSame
<1>6. ASSUME UNCHANGED daily, FetchesFit' PROVE LoneInv'
    <2>1. ShownFits' /\ DailyFits'
        BY <1>1, <1>3, <1>6, FitsStay, ShownStays, DailyStays
    <2>2. OnePage'
        BY <1>1, <1>6 DEF OnePage
    <2>3. QED
        BY <1>3, <1>4, <1>6, <2>1, <2>2 DEF LoneInv
<1>7. CASE me(l)
    <2>1. PICK x : x = [fetches[l] EXCEPT !.at = "answered", !.points = points[Member]]
        OBVIOUS
    <2>2. fetches[l] \in Fetching
        BY <1>0, <1>7 DEF me, Quiet
    <2>3. /\ fetches' = [fetches EXCEPT ![l] = [fetches[l] EXCEPT !.at = "answered", !.points = points[Member]]]
          /\ UNCHANGED daily /\ fetches[l].what = "me"
        BY <1>7 DEF me
    <2>4. x.what = "me" /\ x.points = points[Member]
        BY <2>1, <2>2, <2>3 DEF Fetching
    <2>5. QED
        BY <1>5, <1>6, <2>1, <2>3, <2>4
<1>8. CASE listMyDailyTasks(l)
    <2>1. PICK found, x : /\ found = AvailableTasks(Member, today)
                          /\ x = [fetches[l] EXCEPT !.at = "answered", !.day = today, !.tasks = found]
        OBVIOUS
    <2>2. fetches[l] \in Fetching
        BY <1>0, <1>8 DEF listMyDailyTasks, Quiet
    <2>3. /\ fetches' = [fetches EXCEPT ![l] =
               [fetches[l] EXCEPT !.at = "answered", !.day = today, !.tasks = AvailableTasks(Member, today)]]
          /\ UNCHANGED daily /\ fetches[l].what = "tasks"
        BY <1>8 DEF listMyDailyTasks
    <2>4. x.what = "tasks" /\ x.day = today /\ x.tasks = found
        BY <2>1, <2>2, <2>3 DEF Fetching
    <2>5. FetchesFit'
        <3>1. fetches' = [fetches EXCEPT ![l] = x] /\ today =< today
            BY <1>0, <2>1, <2>3
        <3>2. QED
            BY <1>5, <2>1, <2>4, <3>1
    <2>6. QED
        BY <1>6, <2>3, <2>5
<1>9. CASE hydrateCurrentUser(l) \/ loadTaskView(l) \/ loadDailyTasks(l)
    <2>1. FetchesFit'
        <3>1. Quiet.at # "answered" /\ Fetch("tasks").at # "answered"
            BY DEF Quiet, Fetch
        <3>2. \/ fetches' = [fetches EXCEPT ![l] = Fetch("tasks")]
              \/ fetches' = [fetches EXCEPT ![l] = Quiet]
            BY <1>9 DEF hydrateCurrentUser, loadTaskView, loadDailyTasks
        <3>3. QED
            BY <1>5, <3>1, <3>2
    <2>2. CASE UNCHANGED daily
        BY <1>6, <2>1, <2>2
    <2>3. CASE fetches[l].at = "answered" /\ fetches[l].what = "me"
               /\ daily' = [daily EXCEPT !.points = fetches[l].points, !.heard = TRUE]
        <3>1. PICK page : page = daily'
            OBVIOUS
        <3>2. /\ page.open = daily.open /\ page.date = daily.date /\ page.tasks = daily.tasks
              /\ page.points = points[Member]
            <4>1. \A n : LET d == [daily EXCEPT !.points = n, !.heard = TRUE] IN
                     d.open = daily.open /\ d.date = daily.date /\ d.tasks = daily.tasks /\ d.points = n
                BY <1>0
            <4>2. fetches[l].points = points[Member]
                BY <1>1, <2>3 DEF FetchesFit
            <4>3. QED
                BY <2>3, <3>1, <4>1, <4>2
        <3>3. /\ page.date = today => \A t \in Tasks : OpenFits(Member, t, page.tasks)'
              /\ PointsFit(Member, page.points)'
            BY <1>1, <1>3, <3>2, FitsStay DEF DailyFits, PointsFit
        <3>4. DailyFits'
            BY <1>1, <3>1, <3>2, <3>3 DEF DailyFits
        <3>5. ShownFits' /\ OnePage'
            <4>1. OnePage'
                BY <1>1, <3>1, <3>2 DEF OnePage
            <4>2. QED
                BY <1>1, <1>3, <3>1, <3>2, <4>1, FitsStay, ShownStays
        <3>6. QED
            BY <1>3, <1>4, <2>1, <3>4, <3>5 DEF LoneInv
    <2>4. CASE fetches[l].at = "answered" /\ fetches[l].what = "tasks"
               /\ daily' = [daily EXCEPT !.date = fetches[l].day, !.tasks = fetches[l].tasks]
        <3>1. PICK page : page = daily'
            OBVIOUS
        <3>2. /\ page.open = daily.open /\ page.date =< today
              /\ page.points = daily.points /\ page.heard = daily.heard
              /\ page.tasks = AvailableTasks(Member, page.date)
            <4>1. PICK day, found : day = fetches[l].day /\ found = fetches[l].tasks
                OBVIOUS
            <4>2. found = AvailableTasks(Member, day) /\ day =< today
                BY <1>1, <2>4, <4>1 DEF FetchesFit
            <4>3. page = [daily EXCEPT !.date = day, !.tasks = found]
                BY <2>4, <3>1, <4>1
            <4>4. /\ page.open = daily.open /\ page.date = day /\ page.tasks = found
                  /\ page.points = daily.points /\ page.heard = daily.heard
                BY <1>0, <4>3
            <4>5. QED
                BY <4>2, <4>4
        <3>3. /\ page.date = today => \A t \in Tasks : OpenFits(Member, t, page.tasks)
              /\ world = "waits" /\ daily.open /\ page.heard => PointsFit(Member, page.points)
            BY <1>1, <3>2 DEF DailyFits, OpenFits
        <3>4. /\ page.date = today => \A t \in Tasks : OpenFits(Member, t, page.tasks)'
              /\ world = "waits" /\ daily.open /\ page.heard => PointsFit(Member, page.points)'
            BY <1>1, <1>3, <3>3, FitsStay
        <3>5. DailyFits'
            BY <1>1, <3>1, <3>2, <3>4 DEF DailyFits
        <3>6. OnePage'
            BY <1>1, <3>1, <3>2 DEF OnePage
        <3>7. ShownFits'
            BY <1>1, <1>3, <3>1, <3>2, FitsStay, ShownStays
        <3>8. QED
            BY <1>3, <1>4, <2>1, <3>5, <3>6, <3>7 DEF LoneInv
    <2>5. QED
        BY <1>9, <2>2, <2>3, <2>4 DEF hydrateCurrentUser, loadTaskView, loadDailyTasks
<1>10. QED
    BY <1>7, <1>8, <1>9

LEMMA ClickKept ==
    ASSUME NEW c \in Completers, ClickFits(c), clicks'[c] = clicks[c], attempt'[c] = attempt[c],
           UNCHANGED <<loads, fetches, tasks, assigned, world>>, PageDate' = PageDate,
           PageDate \in Int, today \in Int, today' \in Int, today =< today',
           completions \subseteq completions',
           world = "waits" /\ clicks[c].at # "quiet" =>
             points' = points /\ \A d \in Completers \ {c} : clicks[d] = Quiet => clicks'[d] = Quiet
    PROVE  ClickFits(c)'
<1>1. \A u, day : CompletedTasks(u, day) \subseteq CompletedTasks(u, day)'
    BY DEF CompletedTasks
<1>2. clicks[c].at = "answered" /\ clicks[c].ok =>
        \E day \in PageDate .. today' : clicks[c].task \in CompletedTasks(clicks[c].user, day)'
    <2> SUFFICES ASSUME clicks[c].at = "answered", clicks[c].ok
                 PROVE  \E day \in PageDate .. today' : clicks[c].task \in CompletedTasks(clicks[c].user, day)'
        OBVIOUS
    <2>1. PICK x : x = clicks[c]
        OBVIOUS
    <2>2. PICK day \in PageDate .. today : x.task \in CompletedTasks(x.user, day)
        BY <2>1 DEF ClickFits
    <2>3. x.task \in CompletedTasks(x.user, day)'
        BY <1>1, <2>2
    <2>4. day \in PageDate .. today'
        BY <2>2
    <2>5. QED
        BY <2>1, <2>3, <2>4
<1>3. \A t, day : Due(tasks[t], day)' <=> Due(tasks[t], day)
    BY DEF Due
<1>4. PICK x : x = clicks[c]
    OBVIOUS
<1>5. x.at # "quiet" =>
        /\ x.current
        /\ \A l \in Loads : loads'[l] = Quiet /\ fetches'[l] = Quiet
        /\ x.at = "served" =>
             /\ PageDate =< attempt'[c].day
             /\ attempt'[c].at # "begun" =>
                  x.user \in assigned'[x.task] /\ Due(tasks[x.task], attempt[c].day)
        /\ world' = "waits" =>
             /\ \A d \in Completers \ {c} : clicks'[d] = Quiet
             /\ x.at = "answered" /\ x.ok => x.points = points'[x.user]
    BY <1>4 DEF ClickFits
<1>6. QED
    BY <1>2, <1>3, <1>4, <1>5 DEF ClickFits

LEMMA LoneStays ==
    ASSUME LoneInv, world # "shared", TablesSame, UNCHANGED <<loads, shown, world, dailyVars>>,
           \A u, t : OkClick(u, t) => OkClick(u, t)', \A c \in Completers : ClickFits(c)'
    PROVE  LoneInv'
<1>1. /\ LoadsFit /\ FetchesFit /\ ShownFits /\ DailyFits /\ OnePage
      /\ UNCHANGED <<loads, shown, world, daily, fetches>> /\ today' = today
    BY DEF LoneInv, dailyVars, TablesSame
<1>2. LoadsFit' /\ FetchesFit'
    BY <1>1, LoadsStay, FetchesStay
<1>3. ShownFits' /\ DailyFits'
    BY <1>1, FitsStay, ShownStays, DailyStays
<1>4. OnePage'
    BY <1>1 DEF OnePage
<1>5. QED
    BY <1>2, <1>3, <1>4 DEF LoneInv

LEMMA PageDates ==
    ASSUME IInv, DailyTypeOK, LoneInv, world # "shared"
    PROVE  /\ today \in Int /\ PageDate \in Int /\ PageDate =< today
           /\ daily.date \in Int /\ shown.date \in Int
<1>1. today \in Int /\ daily.date \in Int /\ shown.date \in Int
    BY CompletionAssumption DEF IInv, CompletionInv, TypeOK, DailyTypeOK, DashTypeOK, DailyState
<1>2. daily.date =< today /\ shown.date =< today
    BY DEF LoneInv, DailyFits, ShownFits
<1>3. QED
    BY <1>1, <1>2 DEF PageDate

LEMMA LoneClicks ==
    ASSUME IInv, DailyTypeOK, LoneInv, world # "shared", UNCHANGED vars, NEW c \in Completers,
           \/ /\ ~daily.open /\ UNCHANGED dailyVars
              /\ \E u \in Users, t \in Tasks : clickComplete(c, u, t)
           \/ /\ daily.open /\ UNCHANGED <<loads, shown, world>>
              /\ \E t \in Tasks : clickTask(c, t)
    PROVE  LoneInv'
<1>0. /\ clicks \in [Completers -> Clicking \cup {Quiet}]
      /\ TablesSame /\ UNCHANGED <<attempt, completions, points, tasks, assigned>> /\ today' = today
    BY DEF DailyTypeOK, DashTypeOK, TablesSame, vars, editVars, completionVars
<1>1. /\ UNCHANGED <<loads, shown, world, dailyVars>> /\ clicks[c] = Quiet
      /\ \A l \in Loads : loads[l] = Quiet /\ fetches[l] = Quiet
      /\ world = "waits" => QuietPage
      /\ \E y : y.at = "sent" /\ y.current /\ clicks' = [clicks EXCEPT ![c] = y]
    <2>1. CASE ~daily.open
        <3>1. PICK u \in Users, t \in Tasks : clickComplete(c, u, t)
            BY <2>1
        <3>2. PICK y : y = [at |-> "sent", user |-> u, task |-> t, current |-> TRUE, ok |-> FALSE, points |-> 0]
            OBVIOUS
        <3>3. y.at = "sent" /\ y.current /\ clicks' = [clicks EXCEPT ![c] = y]
            BY <3>1, <3>2 DEF clickComplete
        <3>4. QED
            BY <2>1, <3>1, <3>3 DEF clickComplete, LoneInv, OnePage
    <2>2. CASE daily.open
        <3>1. PICK t \in Tasks : clickTask(c, t)
            BY <2>2
        <3>2. PICK y : y = [at |-> "sent", user |-> Member, task |-> t, current |-> TRUE, ok |-> FALSE, points |-> 0]
            OBVIOUS
        <3>3. y.at = "sent" /\ y.current /\ clicks' = [clicks EXCEPT ![c] = y]
            BY <3>1, <3>2 DEF clickTask
        <3>4. QED
            BY <2>2, <3>1, <3>3 DEF clickTask, LoneInv, OnePage, QuietFetches
    <2>3. QED
        BY <2>1, <2>2
<1>2. /\ clicks'[c].at = "sent" /\ clicks'[c].current
      /\ \A d \in Completers \ {c} : clicks'[d] = clicks[d]
    BY <1>0, <1>1
<1>3. ASSUME NEW u, NEW t, OkClick(u, t) PROVE OkClick(u, t)'
    BY <1>1, <1>2, <1>3 DEF OkClick, Quiet
<1>4. ClickFits(c)'
    <2>1. \A l \in Loads : loads'[l] = Quiet /\ fetches'[l] = Quiet
        BY <1>1 DEF dailyVars
    <2>2. world' = "waits" => \A d \in Completers \ {c} : clicks'[d] = Quiet
        BY <1>1, <1>2 DEF QuietPage
    <2>3. QED
        BY <1>2, <2>1, <2>2 DEF ClickFits
<1>5. ASSUME NEW d \in Completers, d # c PROVE ClickFits(d)'
    <2>1. ClickFits(d)
        BY DEF LoneInv
    <2>2. PageDate' = PageDate /\ UNCHANGED fetches
        BY <1>1 DEF PageDate, dailyVars
    <2>3. world = "waits" => clicks[d].at = "quiet"
        BY <1>1 DEF QuietPage, Quiet
    <2>4. QED
        BY <1>0, <1>1, <1>2, <1>5, <2>1, <2>2, <2>3, PageDates, ClickKept
<1>6. QED
    BY <1>0, <1>1, <1>3, <1>4, <1>5, LoneStays

LEMMA LoneServes ==
    ASSUME IInv, DailyTypeOK, LoneInv, PagesTrue, world # "shared", NEW c \in Completers,
           serveClick(c) \/ (daily.open /\ serveTask(c)),
           UNCHANGED <<loads, shown, world, dailyVars, editVars>>
    PROVE  LoneInv'
<1>0. /\ clicks \in [Completers -> Clicking \cup {Quiet}]
      /\ attempt \in [Completers -> Attempting \cup {NoAttempt}]
    BY DEF DailyTypeOK, DashTypeOK, IInv, CompletionInv, TypeOK
<1>1. /\ clicks[c].at = "sent" /\ clicks[c] \in Clicking
      /\ clicks' = [clicks EXCEPT ![c].at = "served"]
    BY <1>0 DEF serveClick, serveTask, Quiet
<1>2. \E u, t : completeTaskForUser(c, t, u)
    BY DEF serveClick, serveTask, completeDashboardTask, completeTask
<1>3. /\ TablesSame /\ today' = today /\ completions' = completions /\ points' = points
      /\ UNCHANGED <<tasks, assigned, fetches>>
      /\ attempt'[c].at = "begun" /\ attempt'[c].day = today
      /\ \A d \in Completers \ {c} : attempt'[d] = attempt[d]
    BY <1>0, <1>2 DEF completeTaskForUser, TablesSame, editVars, dailyVars
<1>4. /\ clicks'[c].at = "served" /\ clicks'[c].current = clicks[c].current
      /\ \A d \in Completers \ {c} : clicks'[d] = clicks[d]
    BY <1>0, <1>1 DEF Clicking
<1>5. ASSUME NEW u, NEW t, OkClick(u, t) PROVE OkClick(u, t)'
    BY <1>1, <1>4, <1>5 DEF OkClick
<1>6. PageDate' = PageDate
    BY DEF PageDate, dailyVars
<1>7. ClickFits(c)'
    <2>1. ClickFits(c)
        BY DEF LoneInv
    <2>2. \A l \in Loads : loads'[l] = Quiet /\ fetches'[l] = Quiet
        BY <1>1, <1>3, <2>1 DEF ClickFits
    <2>3. clicks[c].current /\ (world = "waits" => \A d \in Completers \ {c} : clicks[d] = Quiet)
        BY <1>1, <2>1 DEF ClickFits
    <2>4. PageDate' =< attempt'[c].day
        BY <1>3, <1>6, PageDates
    <2>5. QED
        BY <1>3, <1>4, <2>2, <2>3, <2>4 DEF ClickFits
<1>8. ASSUME NEW d \in Completers, d # c PROVE ClickFits(d)'
    <2>1. ClickFits(d)
        BY DEF LoneInv
    <2>2. \A e \in Completers : clicks[e] = Quiet => clicks'[e] = Quiet
        BY <1>1, <1>4 DEF Quiet
    <2>3. QED
        BY <1>3, <1>4, <1>6, <1>8, <2>1, <2>2, PageDates, ClickKept
<1>9. QED
    BY <1>3, <1>5, <1>7, <1>8, LoneStays

\* A completion that is paid on the day of the page: what the page shows still
\* fits, as the answer that moves the task is there.
LEMMA PaidFits ==
    ASSUME UNCHANGED <<tasks, assigned, today>>, NEW c \in Completers, NEW y,
           AnswerOf(c, y, TRUE), clicks \in [Completers -> Clicking \cup {Quiet}],
           clicks[c].at = "served", clicks[c].user \in assigned[clicks[c].task],
           clicks[c].task \in Tasks,
           Due(tasks[clicks[c].task], today), clicks[c].task \notin CompletedTasks(clicks[c].user, today),
           NEW row, completions' = completions \cup {row},
           row.user = clicks[c].user, row.task = clicks[c].task, row.day = today
    PROVE  /\ \A u, t : OkClick(u, t) => OkClick(u, t)'
           /\ \A u, open : \A t \in Tasks : OpenFits(u, t, open) => OpenFits(u, t, open)'
           /\ \A u, t, done : DoneFits(u, t, done) => DoneFits(u, t, done)'
<1>1. PICK v, s : v = clicks[c].user /\ s = clicks[c].task
    OBVIOUS
<1>2. /\ \A d \in Completers \ {c} : clicks'[d] = clicks[d]
      /\ clicks'[c].at = "answered" /\ clicks'[c].ok /\ clicks'[c].user = v /\ clicks'[c].task = s
    BY <1>1 DEF AnswerOf
<1>3. OkClick(v, s)' /\ \A u, t : OkClick(u, t) => OkClick(u, t)'
    BY <1>2 DEF OkClick
<1>4. \A u, t : t \in CompletedTasks(u, today)' <=> t \in CompletedTasks(u, today) \/ (u = v /\ t = s)
    BY <1>1 DEF CompletedTasks
<1>5. \A t \in Tasks : Due(tasks[t], today)' <=> Due(tasks[t], today)
    BY DEF Due
<1>6. \A u : \A t \in Tasks : t \in AvailableTasks(u, today)' <=>
                 t \in AvailableTasks(u, today) /\ ~(u = v /\ t = s)
    <2> SUFFICES ASSUME NEW u, NEW t \in Tasks
                 PROVE  t \in AvailableTasks(u, today)' <=> t \in AvailableTasks(u, today) /\ ~(u = v /\ t = s)
        OBVIOUS
    <2>1. t \in AvailableTasks(u, today) <=>
            u \in assigned[t] /\ Due(tasks[t], today) /\ t \notin CompletedTasks(u, today)
        BY OpenOn
    <2>2. Completed([task |-> t, user |-> u, day |-> today])' <=> t \in CompletedTasks(u, today)'
        BY DEF Completed, SameKey, CompletedTasks
    <2>3. t \in AvailableTasks(u, today)' <=>
            u \in assigned[t] /\ Due(tasks[t], today)' /\ t \notin CompletedTasks(u, today)'
        BY <2>2 DEF AvailableTasks
    <2>4. QED
        BY <1>4, <1>5, <2>1, <2>3
<1>7. ASSUME NEW u, NEW t \in Tasks, NEW open, OpenFits(u, t, open) PROVE OpenFits(u, t, open)'
    <2>1. CASE u = v /\ t = s
        <3>1. s \in AvailableTasks(v, today) /\ s \in Tasks
            BY <1>1, OpenOn
        <3>2. s \in open
            BY <1>1, <1>7, <2>1, <3>1 DEF OpenFits
        <3>3. QED
            BY <1>3, <1>4, <2>1, <3>2 DEF OpenFits
    <2>2. CASE ~(u = v /\ t = s)
        BY <1>3, <1>4, <1>6, <1>7, <2>2 DEF OpenFits
    <2>3. QED
        BY <2>1, <2>2
<1>8. ASSUME NEW u, NEW t, NEW done, DoneFits(u, t, done) PROVE DoneFits(u, t, done)'
    <2>1. CASE u = v /\ t = s
        <3>1. s \notin done
            BY <1>1, <1>8, <2>1 DEF DoneFits
        <3>2. QED
            BY <1>3, <1>4, <2>1, <3>1 DEF DoneFits
    <2>2. CASE ~(u = v /\ t = s)
        BY <1>3, <1>4, <1>8, <2>2 DEF DoneFits
    <2>3. QED
        BY <2>1, <2>2
<1>9. QED
    BY <1>3, <1>7, <1>8

LEMMA LoneWorks ==
    ASSUME IInv, DailyTypeOK, LoneInv, PagesTrue, world # "shared", NEW c \in Completers,
           workClick(c), UNCHANGED editVars, UNCHANGED dailyVars
    PROVE  LoneInv'
<1>0. /\ clicks \in [Completers -> Clicking \cup {Quiet}]
      /\ attempt \in [Completers -> Attempting \cup {NoAttempt}]
      /\ points \in [Users -> 0 .. MaxInt] /\ today \in Int /\ today # 0
    BY CompletionAssumption DEF DailyTypeOK, DashTypeOK, IInv, CompletionInv, TypeOK
<1>1. /\ UNCHANGED <<loads, shown, world, daily, fetches, tasks, assigned>>
      /\ PageDate' = PageDate
      /\ ClickTrue(c) /\ ClickFits(c)
    BY DEF workClick, editVars, dailyVars, PageDate, LoneInv, PagesTrue
<1>2. /\ clicks[c] \in Clicking /\ clicks[c].at = "served" /\ attempt[c] \in Attempting
      /\ attempt[c].user = clicks[c].user /\ attempt[c].task = clicks[c].task /\ today' = today
    BY <1>1, WorkOutcome
<1>3. /\ clicks[c].user \in Users /\ clicks[c].task \in Tasks /\ clicks[c].current
      /\ attempt[c].at # "idle" /\ attempt[c].day \in Int /\ PageDate \in Int
      /\ PageDate =< attempt[c].day /\ attempt[c].day =< today
      /\ \A l \in Loads : loads[l] = Quiet /\ fetches[l] = Quiet
      /\ world = "waits" => \A d \in Completers \ {c} : clicks[d] = Quiet
    BY <1>1, <1>2, PageDates DEF ClickFits, Clicking, Attempting, PagesTrue, TablesDated
<1>4. /\ completions \subseteq completions'
      /\ \A d \in Completers \ {c} : clicks'[d] = clicks[d] /\ attempt'[d] = attempt[d]
    <2>1. \E y : attempt' = [attempt EXCEPT ![c] = y]
        BY <1>1, WorkOutcome DEF GoesOn
    <2>2. UNCHANGED clicks \/ \E y : clicks' = [clicks EXCEPT ![c] = y]
        <3>1. \A y, ok : AnswerOf(c, y, ok) => clicks' = [clicks EXCEPT ![c] = y]
            BY DEF AnswerOf
        <3>2. QED
            BY <1>1, <3>1, WorkOutcome
    <2>3. completions \subseteq completions'
        BY <1>1, WorkOutcome
    <2>4. QED
        BY <1>0, <2>1, <2>2, <2>3
<1>5. ASSUME NEW d \in Completers, d # c PROVE ClickFits(d)'
    <2>1. ClickFits(d)
        BY DEF LoneInv
    <2>2. world = "waits" => clicks[d].at = "quiet"
        BY <1>3, <1>5 DEF Quiet
    <2>3. today \in Int /\ today' \in Int /\ today =< today'
        BY <1>0, <1>2
    <2>4. QED
        BY <1>1, <1>3, <1>4, <1>5, <2>1, <2>2, <2>3, ClickKept
<1>6. LoadsFit' /\ FetchesFit' /\ OnePage'
    <2>1. \A l \in Loads : loads'[l] = Quiet /\ fetches'[l] = Quiet
        BY <1>1, <1>3
    <2>2. Quiet.at = "quiet"
        BY DEF Quiet
    <2>3. OnePage
        BY DEF LoneInv
    <2>4. QED
        BY <1>1, <2>1, <2>2, <2>3 DEF LoadsFit, FetchesFit, OnePage
<1>7. ASSUME UNCHANGED <<completions, points>>, ClickFits(c)' PROVE LoneInv'
    <2>1. TablesSame
        BY <1>1, <1>2, <1>7 DEF TablesSame
    <2>2. \A u, t : OkClick(u, t) => OkClick(u, t)'
        BY <1>2, <1>4 DEF OkClick
    <2>3. QED
        BY <1>1, <1>5, <1>7, <2>1, <2>2, LoneStays DEF dailyVars
<1>8. CASE UNCHANGED <<completions, points, clicks>> /\ \E y \in Attempting : GoesOn(c, y)
    <2>1. PICK y \in Attempting : GoesOn(c, y)
        BY <1>8
    <2>2. attempt'[c] = y /\ y.day = attempt[c].day /\ y.user = clicks[c].user /\ y.task = clicks[c].task
        BY <1>0, <1>2, <2>1 DEF GoesOn
    <2>3. y.user \in assigned[y.task] /\ Due(tasks[y.task], y.day)
        BY <1>1, <1>2, <2>1 DEF GoesOn, ClickFits
    <2>4. \A t, day : Due(tasks[t], day)' <=> Due(tasks[t], day)
        BY <1>1 DEF Due
    <2>5. /\ \A l \in Loads : loads'[l] = Quiet /\ fetches'[l] = Quiet
          /\ world' = "waits" => \A d \in Completers \ {c} : clicks'[d] = Quiet
          /\ PageDate' =< attempt'[c].day
        BY <1>1, <1>3, <1>4, <2>2
    <2>6. clicks'[c].user \in assigned'[clicks'[c].task] /\ Due(tasks[clicks[c].task], attempt[c].day)'
        BY <1>1, <1>8, <2>2, <2>3, <2>4
    <2>7. clicks'[c].at = "served" /\ clicks'[c].current
        BY <1>2, <1>3, <1>8
    <2>8. ClickFits(c)'
        BY <2>5, <2>6, <2>7 DEF ClickFits
    <2>9. QED
        BY <1>7, <1>8, <2>8
<1>9. CASE UNCHANGED <<completions, points>> /\ \E y : AnswerOf(c, y, FALSE)
    <2>1. clicks'[c].at = "answered" /\ clicks'[c].ok = FALSE /\ clicks'[c].current = clicks[c].current
        BY <1>0, <1>9 DEF AnswerOf
    <2>2. /\ \A l \in Loads : loads'[l] = Quiet /\ fetches'[l] = Quiet
          /\ world' = "waits" => \A d \in Completers \ {c} : clicks'[d] = Quiet
        BY <1>1, <1>3, <1>4
    <2>3. ClickFits(c)'
        BY <1>3, <2>1, <2>2 DEF ClickFits
    <2>4. QED
        BY <1>7, <1>9, <2>3
<1>10. ASSUME NEW y, AnswerOf(c, y, TRUE), attempt[c].at # "begun", ~Completed(attempt[c]),
              completions' = completions \cup
                      {[task |-> attempt[c].task, user |-> attempt[c].user,
                        day |-> attempt[c].day, award |-> attempt[c].value]},
              NEW n, points' = [points EXCEPT ![attempt[c].user] = n]
       PROVE  LoneInv'
    <2>1. PICK row : row = [task |-> attempt[c].task, user |-> attempt[c].user,
                            day |-> attempt[c].day, award |-> attempt[c].value]
        OBVIOUS
    <2>2. /\ completions' = completions \cup {row} /\ row.task = clicks[c].task
          /\ row.user = clicks[c].user /\ row.day = attempt[c].day
        BY <1>2, <1>10, <2>1
    <2>3. /\ clicks'[c].at = "answered" /\ clicks'[c].ok /\ clicks'[c].current
          /\ clicks'[c].user = clicks[c].user /\ clicks'[c].task = clicks[c].task
          /\ clicks'[c].points = points'[clicks[c].user]
        BY <1>0, <1>3, <1>10 DEF AnswerOf
    <2>4. ClickFits(c)'
        <3>1. /\ \A l \in Loads : loads'[l] = Quiet /\ fetches'[l] = Quiet
              /\ world' = "waits" => \A d \in Completers \ {c} : clicks'[d] = Quiet
            BY <1>1, <1>3, <1>4
        <3>2. row \in completions'
            BY <2>2
        <3>3. PICK day \in PageDate .. today : day = attempt[c].day
            BY <1>0, <1>3
        <3>4. PICK v, t : v = clicks[c].user /\ t = clicks[c].task
            OBVIOUS
        <3>5. t \in CompletedTasks(v, day)'
            BY <2>2, <3>2, <3>3, <3>4 DEF CompletedTasks
        <3>6. PICK x : x = clicks'[c]
            OBVIOUS
        <3>7. \E d \in PageDate' .. today' : x.task \in CompletedTasks(x.user, d)'
            BY <1>1, <1>2, <2>3, <3>4, <3>5, <3>6
        <3>8. QED
            BY <2>3, <3>1, <3>6, <3>7 DEF ClickFits
    <2>5. /\ \A u, t : OkClick(u, t) => OkClick(u, t)'
          /\ \A u, t : u = clicks[c].user /\ t = clicks[c].task => OkClick(u, t)'
        BY <1>2, <1>4, <2>3 DEF OkClick
    <2>6. ASSUME PageDate = today
          PROVE  /\ \A u, open : \A t \in Tasks : OpenFits(u, t, open) => OpenFits(u, t, open)'
                 /\ \A u, t, done : DoneFits(u, t, done) => DoneFits(u, t, done)'
        <3>1. attempt[c].day = today
            BY <1>0, <1>3, <2>6
        <3>2. clicks[c].user \in assigned[clicks[c].task] /\ Due(tasks[clicks[c].task], today)
            BY <1>1, <1>2, <1>10, <3>1 DEF ClickFits
        <3>3. clicks[c].task \notin CompletedTasks(clicks[c].user, today)
            BY <1>2, <1>10, <3>1 DEF Completed, SameKey, CompletedTasks
        <3>4. QED
            BY <1>0, <1>1, <1>2, <1>3, <1>10, <2>2, <3>1, <3>2, <3>3, PaidFits
    <2>7. \A u, m : PointsFit(u, m) => PointsFit(u, m)'
        <3> SUFFICES ASSUME NEW u, NEW m, PointsFit(u, m) PROVE PointsFit(u, m)'
            OBVIOUS
        <3>1. CASE u = clicks[c].user
            BY <1>3, <2>5, <3>1 DEF PointsFit
        <3>2. CASE u # clicks[c].user
            <4>1. points'[u] = points[u]
                BY <1>0, <1>2, <1>10, <3>2
            <4>2. QED
                BY <2>5, <4>1 DEF PointsFit
        <3>3. QED
            BY <3>1, <3>2
    <2>8. ShownFits'
        <3>1. ShownFits /\ OnePage
            BY DEF LoneInv
        <3>2. PICK page : page = shown
            OBVIOUS
        <3>3. page.date = today => PageDate = today
            BY <1>0, <3>1, <3>2 DEF OnePage, PageDate
        <3>4. /\ page.date = today =>
                   \A u \in DOMAIN page.of, t \in Tasks :
                     OpenFits(u, t, page.of[u].tasks)' /\ DoneFits(u, t, page.of[u].completed_tasks)'
              /\ world = "waits" /\ ~daily.open => \A u \in DOMAIN page.of : PointsFit(u, page.of[u].points)'
            BY <2>6, <2>7, <3>1, <3>2, <3>3 DEF ShownFits
        <3>5. QED
            BY <1>1, <1>2, <3>1, <3>2, <3>4 DEF ShownFits
    <2>9. DailyFits'
        <3>1. DailyFits /\ OnePage
            BY DEF LoneInv
        <3>2. PICK page : page = daily
            OBVIOUS
        <3>3. page.date = today => PageDate = today
            BY <1>0, <3>1, <3>2 DEF OnePage, PageDate
        <3>4. /\ page.date = today => \A t \in Tasks : OpenFits(Member, t, page.tasks)'
              /\ world = "waits" /\ page.open /\ page.heard => PointsFit(Member, page.points)'
            BY <2>6, <2>7, <3>1, <3>2, <3>3 DEF DailyFits
        <3>5. QED
            BY <1>1, <1>2, <3>1, <3>2, <3>4 DEF DailyFits
    <2>10. QED
        BY <1>5, <1>6, <2>4, <2>8, <2>9 DEF LoneInv
<1>11. QED
    BY <1>1, <1>8, <1>9, <1>10, WorkOutcome

\* The answer of click c leaves; of the others none does.
LEMMA AnswersLeave ==
    ASSUME clicks \in [Completers -> Clicking \cup {Quiet}], NEW c \in Completers,
           clicks' = [clicks EXCEPT ![c] = Quiet]
    PROVE  /\ clicks'[c].at = "quiet" /\ \A d \in Completers \ {c} : clicks'[d] = clicks[d]
           /\ \A d \in Completers : clicks[d] = Quiet => clicks'[d] = Quiet
           /\ \A u, t : OkClick(u, t) => \/ OkClick(u, t)'
                                         \/ clicks[c].ok /\ u = clicks[c].user /\ t = clicks[c].task
<1>1. /\ clicks'[c] = Quiet /\ \A d \in Completers \ {c} : clicks'[d] = clicks[d]
    OBVIOUS
<1>2. Quiet.at = "quiet"
    BY DEF Quiet
<1>3. ASSUME NEW u, NEW t, OkClick(u, t), ~(clicks[c].ok /\ u = clicks[c].user /\ t = clicks[c].task)
      PROVE  OkClick(u, t)'
    BY <1>1, <1>3 DEF OkClick
<1>4. QED
    BY <1>1, <1>2, <1>3

\* The task of an answer that is taken out leaves the list it is shown in.
LEMMA MovedFits ==
    ASSUME UNCHANGED <<tasks, assigned, completions, points, today>>,
           NEW v, NEW s, s \in CompletedTasks(v, today),
           \A u, t : OkClick(u, t) => OkClick(u, t)' \/ (u = v /\ t = s)
    PROVE  /\ \A u, t, open : OpenFits(u, t, open) /\ ~(u = v /\ t = s) => OpenFits(u, t, open)'
           /\ \A t, open : OpenFits(v, t, open) => OpenFits(v, t, open \ {s})'
           /\ \A u, t, done : DoneFits(u, t, done) /\ ~(u = v /\ t = s) => DoneFits(u, t, done)'
           /\ \A t, done : DoneFits(v, t, done) => DoneFits(v, t, done \cup {s})'
<1>1. TablesSame /\ today' = today
    BY DEF TablesSame
<1>2. s \notin AvailableTasks(v, today)
    <2>1. Completed([task |-> s, user |-> v, day |-> today])
        BY DEF Completed, SameKey, CompletedTasks
    <2>2. QED
        BY <2>1 DEF AvailableTasks
<1>3. \A u : AvailableTasks(u, today)' = AvailableTasks(u, today) /\ CompletedTasks(u, today)' = CompletedTasks(u, today)
    <2>1. PICK day : day = today
        OBVIOUS
    <2>2. \A u : AvailableTasks(u, day)' = AvailableTasks(u, day) /\ CompletedTasks(u, day)' = CompletedTasks(u, day)
        BY <1>1, SameTables
    <2>3. QED
        BY <1>1, <2>1, <2>2
<1>4. ASSUME NEW u, NEW t, NEW open, OpenFits(u, t, open), ~(u = v /\ t = s)
      PROVE  OpenFits(u, t, open)'
    BY <1>3, <1>4 DEF OpenFits
<1>5. ASSUME NEW t, NEW open, OpenFits(v, t, open) PROVE OpenFits(v, t, open \ {s})'
    <2>1. CASE t = s
        BY <1>2, <1>3, <2>1 DEF OpenFits
    <2>2. CASE t # s
        BY <1>3, <1>5, <2>2 DEF OpenFits
    <2>3. QED
        BY <2>1, <2>2
<1>6. ASSUME NEW u, NEW t, NEW done, DoneFits(u, t, done), ~(u = v /\ t = s)
      PROVE  DoneFits(u, t, done)'
    BY <1>3, <1>6 DEF DoneFits
<1>7. ASSUME NEW t, NEW done, DoneFits(v, t, done) PROVE DoneFits(v, t, done \cup {s})'
    <2>1. CASE t = s
        BY <1>3, <2>1 DEF DoneFits
    <2>2. CASE t # s
        BY <1>3, <1>7, <2>2 DEF DoneFits
    <2>3. QED
        BY <2>1, <2>2
<1>8. QED
    BY <1>4, <1>5, <1>6, <1>7

\* What both endClick and endTask begin with.
LEMMA LoneAnswers ==
    ASSUME IInv, DailyTypeOK, LoneInv, world # "shared", NEW c \in Completers, clicks[c].at = "answered",
           clicks' = [clicks EXCEPT ![c] = Quiet], UNCHANGED <<vars, loads, fetches, world>>,
           PageDate' = PageDate
    PROVE  /\ TablesSame /\ today' = today /\ points' = points
           /\ \A d \in Completers : ClickFits(d)'
           /\ clicks[c].current
           /\ clicks[c].ok => /\ PageDate = today => clicks[c].task \in CompletedTasks(clicks[c].user, today)
                              /\ world = "waits" => clicks[c].points = points[clicks[c].user]
           /\ \A u, t : OkClick(u, t) => \/ OkClick(u, t)'
                                         \/ clicks[c].ok /\ u = clicks[c].user /\ t = clicks[c].task
           /\ LoadsFit' /\ FetchesFit'
<1>0. /\ clicks \in [Completers -> Clicking \cup {Quiet}]
      /\ TablesSame /\ UNCHANGED <<attempt, completions, points, tasks, assigned>> /\ today' = today
      /\ LoadsFit /\ FetchesFit
    BY DEF DailyTypeOK, DashTypeOK, TablesSame, vars, editVars, completionVars, LoneInv
<1>1. ClickFits(c)
    BY DEF LoneInv
<1>2. clicks[c].current /\ (world = "waits" => \A d \in Completers \ {c} : clicks[d] = Quiet)
    BY <1>1 DEF ClickFits
<1>3. clicks[c].ok => /\ PageDate = today => clicks[c].task \in CompletedTasks(clicks[c].user, today)
                      /\ world = "waits" => clicks[c].points = points[clicks[c].user]
    <2> SUFFICES ASSUME clicks[c].ok
                 PROVE  /\ PageDate = today => clicks[c].task \in CompletedTasks(clicks[c].user, today)
                        /\ world = "waits" => clicks[c].points = points[clicks[c].user]
        OBVIOUS
    <2>1. PICK day \in PageDate .. today : clicks[c].task \in CompletedTasks(clicks[c].user, day)
        BY <1>1 DEF ClickFits
    <2>2. PageDate = today => day = today
        BY <2>1, PageDates
    <2>3. QED
        BY <1>1, <2>1, <2>2 DEF ClickFits
<1>4. ASSUME NEW d \in Completers PROVE ClickFits(d)'
    <2>1. CASE d = c
        BY <1>0, <2>1, AnswersLeave DEF ClickFits
    <2>2. CASE d # c
        <3>1. ClickFits(d)
            BY DEF LoneInv
        <3>2. clicks'[d] = clicks[d] /\ \A e \in Completers : clicks[e] = Quiet => clicks'[e] = Quiet
            BY <1>0, <2>2, AnswersLeave
        <3>3. QED
            BY <1>0, <3>1, <3>2, PageDates, ClickKept
    <2>3. QED
        BY <2>1, <2>2
<1>5. LoadsFit' /\ FetchesFit'
    BY <1>0, LoadsStay, FetchesStay
<1>6. QED
    BY <1>0, <1>2, <1>3, <1>4, <1>5, AnswersLeave

LEMMA LoneEnds ==
    ASSUME IInv, DailyTypeOK, LoneInv, world # "shared", ~daily.open, UNCHANGED <<vars, dailyVars>>,
           NEW c \in Completers, endClick(c)
    PROVE  LoneInv'
<1>0. /\ clicks[c].at = "answered" /\ clicks' = [clicks EXCEPT ![c] = Quiet]
      /\ UNCHANGED <<loads, world, daily, fetches, vars>>
      /\ today \in Int /\ today # 0
      /\ shown \in [date : 0 .. LastDay, of : Assignees]
      /\ ShownFits /\ OnePage
    BY CompletionAssumption DEF endClick, dailyVars, IInv, CompletionInv, TypeOK, LoneInv, DailyTypeOK, DashTypeOK
<1>1. PICK v, s, n : v = clicks[c].user /\ s = clicks[c].task /\ n = clicks[c].points
    OBVIOUS
<1>2. \/ ~clicks[c].ok /\ shown' = shown
      \/ ~clicks[c].current
      \/ /\ clicks[c].ok
         /\ shown' = [shown EXCEPT !.of[v] =
                        [points |-> n, tasks |-> @.tasks \ {s}, completed_tasks |-> @.completed_tasks \cup {s}]]
    BY <1>1, Zenon DEF endClick
<1>3. shown'.date = shown.date \/ ~clicks[c].current
    BY <1>0, <1>2
<1>4. PageDate' = PageDate \/ ~clicks[c].current
    BY <1>0, <1>3 DEF PageDate
<1>5. clicks[c].current
    <2>1. ClickFits(c)
        BY DEF LoneInv
    <2>2. QED
        BY <1>0, <2>1 DEF ClickFits
<1>6. PageDate' = PageDate /\ PageDate = shown.date
    BY <1>4, <1>5 DEF PageDate
<1>7. /\ TablesSame /\ today' = today /\ points' = points
      /\ \A d \in Completers : ClickFits(d)'
      /\ clicks[c].ok => /\ PageDate = today => clicks[c].task \in CompletedTasks(clicks[c].user, today)
                         /\ world = "waits" => clicks[c].points = points[clicks[c].user]
      /\ \A u, t : OkClick(u, t) => \/ OkClick(u, t)'
                                    \/ clicks[c].ok /\ u = clicks[c].user /\ t = clicks[c].task
      /\ LoadsFit' /\ FetchesFit'
    BY <1>0, <1>6, LoneAnswers
<1>8. CASE ~clicks[c].ok /\ shown' = shown
    BY <1>0, <1>7, <1>8, LoneStays
<1>9. CASE /\ clicks[c].ok
           /\ shown' = [shown EXCEPT !.of[v] =
                          [points |-> n, tasks |-> @.tasks \ {s}, completed_tasks |-> @.completed_tasks \cup {s}]]
    <2>1. OnePage' /\ DailyFits'
        <3>1. DailyFits /\ daily.date = 0
            BY <1>0 DEF LoneInv, OnePage
        <3>2. QED
            BY <1>0, <1>3, <1>5, <1>7, <3>1 DEF OnePage, DailyFits
    <2>2. PICK old, page : old = shown /\ page = shown'
        OBVIOUS
    <2>3. /\ page.date = old.date /\ DOMAIN page.of = DOMAIN old.of
          /\ \A u \in DOMAIN old.of : u # v => page.of[u] = old.of[u]
          /\ v \in DOMAIN old.of =>
               page.of[v] = [points |-> n, tasks |-> old.of[v].tasks \ {s},
                             completed_tasks |-> old.of[v].completed_tasks \cup {s}]
        BY <1>0, <1>9, <2>2 DEF Assignees
    <2>4. ASSUME page.date = today, NEW u \in DOMAIN page.of, NEW t \in Tasks
          PROVE  OpenFits(u, t, page.of[u].tasks)' /\ DoneFits(u, t, page.of[u].completed_tasks)'
        <3>1. OpenFits(u, t, old.of[u].tasks) /\ DoneFits(u, t, old.of[u].completed_tasks)
            BY <1>0, <2>2, <2>3, <2>4 DEF ShownFits
        <3>2. s \in CompletedTasks(v, today)
            BY <1>1, <1>6, <1>7, <1>9, <2>2, <2>3, <2>4
        <3>3. UNCHANGED <<tasks, assigned, completions, points, today>>
            BY <1>7 DEF TablesSame
        <3>4. \A w, r : OkClick(w, r) => OkClick(w, r)' \/ (w = v /\ r = s)
            BY <1>1, <1>7
        <3>5. CASE u = v
            <4>1. /\ page.of[u].tasks = old.of[u].tasks \ {s}
                  /\ page.of[u].completed_tasks = old.of[u].completed_tasks \cup {s}
                BY <2>3, <2>4, <3>5
            <4>2. /\ OpenFits(v, t, old.of[u].tasks \ {s})'
                  /\ DoneFits(v, t, old.of[u].completed_tasks \cup {s})'
                BY <3>1, <3>2, <3>3, <3>4, <3>5, MovedFits
            <4>3. QED
                BY <3>5, <4>1, <4>2
        <3>6. CASE u # v
            BY <2>3, <2>4, <3>1, <3>2, <3>3, <3>4, <3>6, MovedFits
        <3>7. QED
            BY <3>5, <3>6
    <2>5. ASSUME world = "waits", NEW u \in DOMAIN page.of PROVE PointsFit(u, page.of[u].points)'
        <3>1. CASE u = v
            <4>1. page.of[u].points = n
                BY <2>3, <2>5, <3>1
            <4>2. QED
                BY <1>1, <1>7, <1>9, <2>5, <3>1, <4>1 DEF PointsFit
        <3>2. CASE u # v
            <4>1. PointsFit(u, old.of[u].points) /\ page.of[u] = old.of[u]
                BY <1>0, <2>2, <2>3, <2>5, <3>2 DEF ShownFits
            <4>2. QED
                BY <1>1, <1>7, <3>2, <4>1 DEF PointsFit
        <3>3. QED
            BY <3>1, <3>2
    <2>6. ShownFits'
        <3>1. page.date =< today
            BY <1>0, <2>2, <2>3 DEF ShownFits
        <3>2. QED
            BY <1>0, <1>7, <2>2, <2>4, <2>5, <3>1 DEF ShownFits
    <2>7. QED
        BY <1>0, <1>7, <2>1, <2>6 DEF LoneInv
<1>10. QED
    BY <1>2, <1>5, <1>8, <1>9

LEMMA LoneEndTasks ==
    ASSUME IInv, DailyTypeOK, LoneInv, PagesTrue, world # "shared", daily.open,
           UNCHANGED <<vars, loads, shown, world>>, NEW c \in Completers, endTask(c)
    PROVE  LoneInv'
<1>0. /\ clicks[c].at = "answered" /\ clicks' = [clicks EXCEPT ![c] = Quiet] /\ UNCHANGED fetches
      /\ today \in Int /\ today # 0 /\ clicks[c].user = Member
      /\ daily \in [open : BOOLEAN, date : 0 .. LastDay, tasks : SUBSET Tasks, points : 0 .. MaxInt, heard : BOOLEAN]
      /\ ShownFits /\ DailyFits /\ OnePage
    <2>1. ClickTrue(c)
        BY DEF PagesTrue
    <2>2. clicks[c].at = "answered" /\ clicks' = [clicks EXCEPT ![c] = Quiet] /\ UNCHANGED fetches
        BY DEF endTask
    <2>3. clicks[c].user = Member
        BY <2>1, <2>2 DEF ClickTrue
    <2>4. QED
        BY <2>2, <2>3, CompletionAssumption DEF IInv, CompletionInv, TypeOK, LoneInv, DailyTypeOK, DailyState
<1>1. PICK s, n : s = clicks[c].task /\ n = clicks[c].points
    OBVIOUS
<1>2. PICK left : left = daily.tasks \ {s}
    OBVIOUS
<1>3. \/ ~clicks[c].ok /\ daily' = daily
      \/ clicks[c].ok /\ daily' = [daily EXCEPT !.tasks = left, !.points = n, !.heard = TRUE]
    BY <1>1, <1>2, Zenon DEF endTask
<1>4. PICK old, page : old = daily /\ page = daily'
    OBVIOUS
<1>5. /\ page.date = old.date /\ page.open = old.open
      /\ clicks[c].ok /\ daily' = [daily EXCEPT !.tasks = left, !.points = n, !.heard = TRUE] =>
           page.tasks = old.tasks \ {s} /\ page.points = n
    BY <1>0, <1>2, <1>3, <1>4
<1>6. PageDate' = PageDate /\ PageDate = daily.date
    BY <1>4, <1>5 DEF PageDate
<1>7. /\ TablesSame /\ today' = today /\ points' = points
      /\ \A d \in Completers : ClickFits(d)'
      /\ clicks[c].ok => /\ PageDate = today => clicks[c].task \in CompletedTasks(clicks[c].user, today)
                         /\ world = "waits" => clicks[c].points = points[clicks[c].user]
      /\ \A u, t : OkClick(u, t) => \/ OkClick(u, t)'
                                    \/ clicks[c].ok /\ u = clicks[c].user /\ t = clicks[c].task
      /\ LoadsFit' /\ FetchesFit'
    BY <1>0, <1>6, LoneAnswers
<1>8. CASE ~clicks[c].ok /\ daily' = daily
    BY <1>0, <1>7, <1>8, LoneStays DEF dailyVars
<1>9. CASE clicks[c].ok /\ daily' = [daily EXCEPT !.tasks = left, !.points = n, !.heard = TRUE]
    <2>1. OnePage' /\ ShownFits'
        BY <1>0, <1>4, <1>5, <1>7 DEF OnePage, ShownFits
    <2>2. ASSUME page.date = today, NEW t \in Tasks PROVE OpenFits(Member, t, page.tasks)'
        <3>1. OpenFits(Member, t, old.tasks)
            BY <1>0, <1>4, <1>5, <2>2 DEF DailyFits
        <3>2. s \in CompletedTasks(Member, today)
            BY <1>0, <1>1, <1>4, <1>5, <1>6, <1>7, <1>9, <2>2
        <3>3. UNCHANGED <<tasks, assigned, completions, points, today>>
            BY <1>7 DEF TablesSame
        <3>4. \A w, r : OkClick(w, r) => OkClick(w, r)' \/ (w = Member /\ r = s)
            BY <1>0, <1>1, <1>7
        <3>5. OpenFits(Member, t, old.tasks \ {s})'
            BY <3>1, <3>2, <3>3, <3>4, MovedFits
        <3>6. QED
            BY <1>5, <1>9, <3>5
    <2>3. world = "waits" => PointsFit(Member, page.points)'
        BY <1>0, <1>1, <1>5, <1>7, <1>9 DEF PointsFit
    <2>4. DailyFits'
        BY <1>0, <1>4, <1>5, <1>7, <2>2, <2>3 DEF DailyFits
    <2>5. QED
        BY <1>0, <1>7, <2>1, <2>4 DEF LoneInv
<1>10. QED
    BY <1>3, <1>8, <1>9

LEMMA LoneDays ==
    ASSUME IInv, DailyTypeOK, LoneInv, world # "shared", NextDay, UNCHANGED <<editVars, dashVars, dailyVars>>
    PROVE  LoneInv'
<1>0. /\ today \in Int /\ today' = today + 1 /\ UNCHANGED <<completions, points, attempt, tasks, assigned>>
      /\ UNCHANGED <<loads, clicks, shown, world, daily, fetches>>
      /\ PageDate' = PageDate
      /\ LoadsFit /\ FetchesFit /\ ShownFits /\ DailyFits /\ OnePage
      /\ loads \in [Loads -> Loading \cup {Quiet}] /\ fetches \in [Loads -> Fetching \cup {Quiet}]
    BY DEF NextDay, editVars, dashVars, dailyVars, IInv, CompletionInv, TypeOK, PageDate, LoneInv,
           DailyTypeOK, DashTypeOK
<1>1. ASSUME NEW c \in Completers PROVE ClickFits(c)'
    <2>1. ClickFits(c) /\ today' \in Int /\ today =< today'
        BY <1>0 DEF LoneInv
    <2>2. QED
        BY <1>0, <2>1, PageDates, ClickKept
<1>2. \A u, day : /\ AvailableTasks(u, day)' = AvailableTasks(u, day)
                  /\ CompletedTasks(u, day)' = CompletedTasks(u, day)
    BY <1>0 DEF AvailableTasks, CompletedTasks, Completed, SameKey, Due
<1>3. \A x : Copies(x) => Copies(x)'
    BY <1>0, <1>2 DEF Copies
<1>4. \A u, n : PointsFit(u, n) => PointsFit(u, n)'
    BY <1>0 DEF PointsFit, OkClick
<1>5. LoadsFit'
    <2>1. ASSUME NEW l \in Loads
          PROVE  /\ loads[l] # Quiet => loads[l].day =< today'
                 /\ loads[l].at = "reading" => OneNext(loads[l]) /\ Copies(loads[l])'
        <3>1. PICK x : x = loads[l]
            OBVIOUS
        <3>2. x # Quiet => x.day \in Int /\ x.day =< today
            BY <1>0, <3>1 DEF LoadsFit, Loading
        <3>3. x.at = "reading" => OneNext(x) /\ Copies(x)'
            BY <1>0, <1>3, <3>1 DEF LoadsFit
        <3>4. QED
            BY <1>0, <3>1, <3>2, <3>3
    <2>2. QED
        BY <1>0, <2>1 DEF LoadsFit, OneNext
<1>6. FetchesFit'
    <2>1. \A l \in Loads : fetches[l].at = "answered" => fetches[l].day \in Int
        BY <1>0 DEF Fetching, Quiet
    <2>2. QED
        BY <1>0, <1>2, <2>1 DEF FetchesFit
<1>7. ShownFits' /\ DailyFits'
    <2>1. PICK s, d : s = shown /\ d = daily
        OBVIOUS
    <2>2. s.date =< today' /\ s.date # today' /\ d.date =< today' /\ d.date # today'
        <3>1. shown.date \in Int /\ daily.date \in Int /\ shown.date =< today /\ daily.date =< today
            BY <1>0, PageDates DEF ShownFits, DailyFits
        <3>2. QED
            BY <1>0, <2>1, <3>1
    <2>3. /\ world = "waits" /\ ~daily.open => \A u \in DOMAIN s.of : PointsFit(u, s.of[u].points)'
          /\ world = "waits" /\ daily.open /\ daily.heard => PointsFit(Member, d.points)'
        BY <1>0, <1>4, <2>1 DEF ShownFits, DailyFits
    <2>4. QED
        BY <1>0, <2>1, <2>2, <2>3 DEF ShownFits, DailyFits
<1>8. OnePage'
    BY <1>0 DEF OnePage
<1>9. QED
    BY <1>1, <1>5, <1>6, <1>7, <1>8 DEF LoneInv

LEMMA WorldStays == [DailyNext]_allDailyVars => world' = world
<1>1. ASSUME NEW l \in Loads,
             \/ loadDashboard(l) \/ ListAssignees(l) \/ endLoad(l) \/ failLoad(l)
             \/ \E u \in Users : ListAvailable(l, u) \/ ListCompleted(l, u)
      PROVE  world' = world
    BY <1>1, Zenon DEF loadDashboard, ListAssignees, endLoad, failLoad, ListAvailable, ListCompleted
<1>2. ASSUME NEW c \in Completers,
             \/ serveClick(c) \/ workClick(c) \/ endClick(c) \/ failClick(c)
             \/ \E u \in Users, t \in Tasks : clickComplete(c, u, t)
      PROVE  world' = world
    BY <1>2 DEF serveClick, workClick, endClick, failClick, clickComplete
<1>3. DashNext => world' = world
    BY <1>1, <1>2 DEF DashNext, dashVars
<1>4. UNCHANGED allDailyVars => world' = world
    BY DEF allDailyVars, allVars, dashVars
<1>5. DailyNext => world' = world
    BY <1>2, <1>3 DEF DailyNext, dashVars, init
<1>6. QED
    BY <1>4, <1>5, Zenon

\* A page begins with nothing of today, and the balance it has is the copy.
LEMMA LoneOpens ==
    ASSUME IInv, init, UNCHANGED vars
    PROVE  LoneInv'
<1>1. /\ today' \in Int /\ 0 < today' /\ QuietPage' /\ \A l \in Loads : loads'[l] = Quiet
      /\ shown'.date = 0 /\ DOMAIN shown'.of = {}
    BY EmptyKnown, CompletionAssumption
    DEF init, IInv, CompletionInv, TypeOK, vars, completionVars, QuietPage
<1>2. daily'.open /\ daily'.date = 0 /\ ~daily'.heard
    BY DEF init, Opened
<1>3. \A l \in Loads : fetches'[l].at # "answered"
    BY DEF init, QuietFetches, Fetch, Quiet
<1>4. LoadsFit' /\ FetchesFit'
    BY <1>1, <1>3 DEF LoadsFit, FetchesFit, Quiet
<1>5. ShownFits' /\ DailyFits' /\ OnePage'
    BY <1>1, <1>2 DEF ShownFits, DailyFits, OnePage
<1>6. \A c \in Completers : ClickFits(c)'
    BY <1>1 DEF ClickFits, QuietPage, Quiet
<1>7. QED
    BY <1>4, <1>5, <1>6 DEF LoneInv

LEMMA LoneStep ==
    ASSUME IInv, DailyTypeOK, PagesTrue, LoneInv, [DailyNext]_allDailyVars
    PROVE  LoneInv'
<1>1. world' = world
    BY WorldStays
<1>2. CASE world = "shared"
    BY <1>1, <1>2 DEF LoneInv
<1>3. CASE world # "shared"
    <2>1. CASE UNCHANGED allDailyVars
        <3>1. /\ TablesSame /\ UNCHANGED <<clicks, attempt, loads, shown, world, dailyVars>>
              /\ UNCHANGED fetches
            BY <2>1 DEF allDailyVars, allVars, vars, editVars, completionVars, dashVars, dailyVars, TablesSame
        <3>2. \A u, t : OkClick(u, t) => OkClick(u, t)'
            BY <3>1 DEF OkClick
        <3>3. \A c \in Completers : ClickFits(c)'
            BY <1>3, <3>1, PageDates, ClickKept DEF LoneInv, TablesSame, PageDate, dailyVars
        <3>4. QED
            BY <1>3, <3>1, <3>2, <3>3, LoneStays
    <2>2. CASE ~daily.open /\ DashNext /\ UNCHANGED dailyVars
        <3>1. ASSUME NEW l \in Loads, UNCHANGED vars,
                     \/ loadDashboard(l) \/ ListAssignees(l) \/ endLoad(l) \/ failLoad(l)
                     \/ \E u \in Users : ListAvailable(l, u) \/ ListCompleted(l, u)
              PROVE  LoneInv'
            BY <1>3, <2>2, <3>1, LoneLoads, DailyAssumption
        <3>2. ASSUME NEW c \in Completers, UNCHANGED vars, NEW u \in Users, NEW t \in Tasks,
                     clickComplete(c, u, t)
              PROVE  LoneInv'
            BY <1>3, <2>2, <3>2, LoneClicks
        <3>3. ASSUME NEW c \in Completers, serveClick(c), UNCHANGED editVars PROVE LoneInv'
            <4>1. UNCHANGED <<loads, shown, world>>
                BY <3>3 DEF serveClick
            <4>2. QED
                BY <1>3, <2>2, <3>3, <4>1, LoneServes, Zenon DEF dailyVars
        <3>4. ASSUME NEW c \in Completers, workClick(c), UNCHANGED editVars PROVE LoneInv'
            BY <1>3, <2>2, <3>4, LoneWorks
        <3>5. ASSUME NEW c \in Completers, endClick(c), UNCHANGED vars PROVE LoneInv'
            BY <1>3, <2>2, <3>5, LoneEnds
        <3>6. ASSUME NEW c \in Completers, failClick(c) PROVE FALSE
            BY <1>3, <3>6 DEF failClick
        <3>7. CASE NextDay /\ UNCHANGED <<editVars, dashVars>>
            BY <1>3, <2>2, <3>7, LoneDays
        <3>8. QED
            BY <1>3, <2>2, <3>1, <3>2, <3>3, <3>4, <3>5, <3>6, <3>7 DEF DashNext
    <2>3. CASE daily.open /\ PageStep /\ UNCHANGED <<loads, shown, world>>
        <3>1. ASSUME NEW l \in Loads, UNCHANGED <<vars, clicks>>,
                     me(l) \/ listMyDailyTasks(l) \/ hydrateCurrentUser(l) \/ loadTaskView(l) \/ loadDailyTasks(l)
              PROVE  LoneInv'
            BY <1>3, <2>3, <3>1, LoneFetches
        <3>2. ASSUME NEW c \in Completers, NEW t \in Tasks, clickTask(c, t), UNCHANGED vars PROVE LoneInv'
            BY <1>3, <2>3, <3>2, LoneClicks
        <3>3. ASSUME NEW c \in Completers, serveTask(c), UNCHANGED editVars PROVE LoneInv'
            <4>1. UNCHANGED dailyVars
                BY <3>3 DEF serveTask
            <4>2. QED
                BY <1>3, <2>3, <3>3, <4>1, LoneServes, Zenon
        <3>4. ASSUME NEW c \in Completers, endTask(c), UNCHANGED vars PROVE LoneInv'
            BY <1>3, <2>3, <3>4, LoneEndTasks
        <3>5. QED
            BY <2>3, <3>1, <3>2, <3>3, <3>4 DEF PageStep
    <2>4. ASSUME daily.open, NEW c \in Completers, workClick(c), UNCHANGED editVars, UNCHANGED dailyVars
          PROVE  LoneInv'
        BY <1>3, <2>4, LoneWorks
    <2>5. ASSUME NEW c \in Completers, failClick(c) PROVE FALSE
        BY <1>3, <2>5 DEF failClick
    <2>6. CASE NextDay /\ UNCHANGED <<editVars, dashVars, dailyVars>>
        BY <1>3, <2>6, LoneDays
    <2>7. CASE init /\ UNCHANGED vars
        BY <2>7, LoneOpens
    <2>8. QED
        BY <1>3, <2>1, <2>2, <2>3, <2>4, <2>5, <2>6, <2>7 DEF DailyNext
<1>4. QED
    BY <1>2, <1>3

LEMMA LoneInit == Init /\ DailyInit => LoneInv
<1> SUFFICES ASSUME Init, DailyInit PROVE LoneInv
    OBVIOUS
<1>1. /\ today = 1 /\ QuietPage /\ \A l \in Loads : loads[l] = Quiet
      /\ shown.date = 0 /\ shown.of = <<>> /\ daily.date = 0 /\ ~daily.open
    BY DEF Init, CompletionInit, DailyInit, DashInit, QuietPage, Opened
<1>2. \A l \in Loads : fetches[l] = Quiet
    BY DEF DailyInit
<1>3. LoadsFit /\ FetchesFit
    <2>1. \A l \in Loads : fetches[l].at # "answered"
        BY <1>2 DEF Quiet
    <2>2. QED
        BY <1>1, <2>1 DEF LoadsFit, FetchesFit, Quiet
<1>4. ShownFits
    BY <1>1, EmptyKnown DEF ShownFits
<1>5. DailyFits /\ OnePage
    BY <1>1, <1>2 DEF DailyFits, OnePage
<1>6. QED
    BY <1>1, <1>3, <1>4, <1>5, QuietFits DEF LoneInv

LEMMA PagesLone == DailySpec => []LoneInv
<1>1. Init /\ DailyInit => LoneInv
    BY LoneInit
<1>2. IInv /\ DailyTypeOK /\ PagesTrue /\ LoneInv /\ [DailyNext]_allDailyVars => LoneInv'
    BY LoneStep
<1>3. QED
    BY <1>1, <1>2, PagesTyped, NothingInvented, PTL DEF DailySpec

\* The completions a dashboard shows and the points beside them are those the
\* tables have had, and in front of somebody alone at it they are the tables' but
\* for the completions in flight.
THEOREM DashboardHonest == DailySpec => []PageAgrees
<1> DEFINE Moving(u) == {clicks[c].task : c \in {d \in Completers : clicks[d] # Quiet /\ clicks[d].user = u}}
<1>1. ASSUME IInv, DailyTypeOK, PagesTrue, LoneInv, NEW u \in DOMAIN shown.of
      PROVE  /\ shown.of[u].completed_tasks \subseteq UNION {CompletedTasks(u, day) : day \in 1 .. today}
             /\ shown.of[u].points =< points[u]
             /\ world # "shared" /\ shown.date = today =>
                  /\ shown.of[u].tasks \ Moving(u) = AvailableTasks(u, today) \ Moving(u)
                  /\ shown.of[u].completed_tasks \ Moving(u) = CompletedTasks(u, today) \ Moving(u)
                  /\ QuietPage /\ world = "waits" => shown.of[u].points = points[u]
    <2>0. /\ shown.of \in Assignees /\ clicks \in [Completers -> Clicking \cup {Quiet}]
          /\ completions \subseteq Completion /\ today \in 1 .. LastDay
          /\ ListsTrue(shown.of) /\ TablesDated
        BY <1>1 DEF DailyTypeOK, DashTypeOK, IInv, CompletionInv, TypeOK, PagesTrue
    <2>1. /\ shown.of[u].tasks \subseteq Tasks /\ shown.of[u].completed_tasks \subseteq Tasks
          /\ AvailableTasks(u, today) \subseteq Tasks /\ CompletedTasks(u, today) \subseteq Tasks
        <3>1. shown.of[u] \in Lists
            BY <1>1, <2>0 DEF Assignees
        <3>2. QED
            BY <2>0, <3>1 DEF Lists, AvailableTasks, CompletedTasks, Completion
    <2>2. shown.of[u].completed_tasks \subseteq UNION {CompletedTasks(u, day) : day \in 1 .. today}
        <3>1. ASSUME NEW t \in shown.of[u].completed_tasks
              PROVE  t \in UNION {CompletedTasks(u, day) : day \in 1 .. today}
            <4>1. PICK r \in completions : r.user = u /\ r.task = t
                BY <1>1, <2>0, <3>1 DEF ListsTrue, Done
            <4>2. r.day \in 1 .. today
                BY <2>0, CompletionAssumption DEF TablesDated, Completion
            <4>3. t \in CompletedTasks(u, r.day)
                BY <4>1 DEF CompletedTasks
            <4>4. QED
                BY <4>2, <4>3
        <3>2. QED
            BY <3>1
    <2>3. shown.of[u].points =< points[u]
        BY <1>1, <2>0 DEF ListsTrue
    <2>4. \A t : OkClick(u, t) => t \in Moving(u)
        BY DEF OkClick, Quiet
    <2>5. ASSUME world # "shared", shown.date = today
          PROVE  /\ shown.of[u].tasks \ Moving(u) = AvailableTasks(u, today) \ Moving(u)
                 /\ shown.of[u].completed_tasks \ Moving(u) = CompletedTasks(u, today) \ Moving(u)
                 /\ QuietPage /\ world = "waits" => shown.of[u].points = points[u]
        <3>1. /\ \A t \in Tasks : /\ OpenFits(u, t, shown.of[u].tasks)
                                  /\ DoneFits(u, t, shown.of[u].completed_tasks)
              /\ world = "waits" /\ ~daily.open => PointsFit(u, shown.of[u].points)
              /\ ~daily.open
            BY <1>1, <2>0, <2>5 DEF LoneInv, ShownFits, OnePage
        <3>2. \A t \in Tasks : t \notin Moving(u) =>
                 /\ t \in shown.of[u].tasks <=> t \in AvailableTasks(u, today)
                 /\ t \in shown.of[u].completed_tasks <=> t \in CompletedTasks(u, today)
            BY <2>4, <3>1 DEF OpenFits, DoneFits
        <3>3. QuietPage /\ world = "waits" => shown.of[u].points = points[u]
            BY <3>1, QuietFits DEF PointsFit
        <3>4. QED
            BY <2>1, <3>2, <3>3
    <2>6. QED
        BY <2>2, <2>3, <2>5
<1>2. IInv /\ DailyTypeOK /\ PagesTrue /\ LoneInv => PageAgrees
    BY <1>1, Zenon DEF PageAgrees
<1>3. QED
    BY <1>2, PagesTyped, NothingInvented, PagesLone, PTL

\* The balance in the header was the user's, however old the copy it began with.
\* In front of a user alone at the page the list is the tables' but for the
\* completions in flight, and of one who waits for each answer the balance is the
\* tables' from the first answer on that has brought it.
THEOREM DailyPageHonest == DailySpec => []DailyAgrees
<1> DEFINE moving == {clicks[c].task : c \in {d \in Completers : clicks[d] # Quiet}}
<1>1. ASSUME IInv, DailyTypeOK, PagesTrue, LoneInv, daily.open
      PROVE  /\ daily.points =< points[Member]
             /\ world # "shared" /\ daily.date = today =>
                  daily.tasks \ moving = AvailableTasks(Member, today) \ moving
             /\ world = "waits" /\ daily.heard /\ QuietPage => daily.points = points[Member]
    <2>1. daily.tasks \subseteq Tasks /\ AvailableTasks(Member, today) \subseteq Tasks
        BY <1>1 DEF DailyTypeOK, DailyState, AvailableTasks
    <2>2. \A t : OkClick(Member, t) => t \in moving
        BY DEF OkClick, Quiet
    <2>3. ASSUME world # "shared", daily.date = today
          PROVE  daily.tasks \ moving = AvailableTasks(Member, today) \ moving
        <3>1. \A t \in Tasks : OpenFits(Member, t, daily.tasks)
            BY <1>1, <2>3 DEF LoneInv, DailyFits
        <3>2. \A t \in Tasks : t \notin moving => (t \in daily.tasks <=> t \in AvailableTasks(Member, today))
            BY <2>2, <3>1 DEF OpenFits
        <3>3. QED
            BY <2>1, <3>2
    <2>4. ASSUME world = "waits", daily.heard, QuietPage PROVE daily.points = points[Member]
        <3>1. PointsFit(Member, daily.points)
            BY <1>1, <2>4 DEF LoneInv, DailyFits
        <3>2. QED
            BY <2>4, <3>1, QuietFits DEF PointsFit
    <2>5. daily.points =< points[Member]
        BY <1>1 DEF PagesTrue, DailyTrue
    <2>6. QED
        BY <2>3, <2>4, <2>5
<1>2. IInv /\ DailyTypeOK /\ PagesTrue /\ LoneInv => DailyAgrees
    BY <1>1, Zenon DEF DailyAgrees
<1>3. QED
    BY <1>2, PagesTyped, NothingInvented, PagesLone, PTL
=============================================================================
