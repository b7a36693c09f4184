---------------------------- MODULE TaskCompletion ----------------------------
(***************************************************************************)
(* Completing tasks for points, composed with the edits of TaskEditing.    *)
(*                                                                         *)
(* A request that completes a task is a transaction of two statements.     *)
(* CompleteTask is one SQL statement and yet two steps: it reads the task  *)
(* and its assignment in the snapshot taken when it starts, and its INSERT *)
(* may then wait for another transaction that has inserted the same        *)
(* (task, user, day) and not ended.  AddUserPoints waits for the row of    *)
(* the user.  Both waits are Postgres's; the Go code holds no lock.        *)
(***************************************************************************)
EXTENDS TaskEditing, FiniteSetsExt

CONSTANTS
    Completers,  \* request goroutines that may complete a task
    LastDay      \* bound: the model's clock stops on this day

ASSUME CompletionAssumption == LastDay \in Nat \ {0}

VARIABLES
    completions, \* table task_completions; award is not a column: it records
                 \* the points the transaction of the row paid
    points,      \* column users.points
    today,       \* the local date time.Now() gives
    attempt      \* what each completer's request is doing

completionVars == <<completions, points, today, attempt>>
vars == <<editVars, completionVars>>

----------------------------------------------------------------------------
(* Stages of an attempt: "begun" (transaction open, date taken), "found"   *)
(* (the snapshot of CompleteTask has a due task), "inserted" (the INSERT   *)
(* is done), "awarded" (the new balance is written, in the transaction).   *)

NoAttempt == [at |-> "idle"]

Attempting ==
    [at : {"begun", "found", "inserted", "awarded"}, task : Tasks, user : UserIds,
     day : 1 .. LastDay, value : 0 .. MaxInt, total : 0 .. MaxInt]

Completion == [task : Tasks, user : Users, day : 1 .. LastDay, award : 0 .. MaxInt]

SameKey(x, y) == x.task = y.task /\ x.user = y.user /\ x.day = y.day

Completed(x) == \E row \in completions : SameKey(row, x)

HasInserted(c) == attempt[c].at \in {"inserted", "awarded"}

\* Mutant: no unique index, so nothing to wait for.
KeyAlwaysFree(c) == TRUE

\* The unique index makes an INSERT wait for the others of its key.
KeyFree(c) ==
    \A d \in Completers \ {c} : ~(HasInserted(d) /\ SameKey(attempt[d], attempt[c]))

\* Mutant: the balance is computed without holding the user's row.
UserRowAlwaysFree(c) == TRUE

\* Mutant: an INSERT's foreign key locks the user's row against an UPDATE.
UserRowUnreferenced(c) ==
    \A d \in Completers \ {c} : ~(HasInserted(d) /\ attempt[d].user = attempt[c].user)

\* AddUserPoints holds the user's row until its transaction ends.  The foreign
\* keys of an INSERT only take KEY SHARE on it, which does not stop an UPDATE.
UserRowFree(c) ==
    \A d \in Completers \ {c} :
        ~(attempt[d].at = "awarded" /\ attempt[d].user = attempt[c].user)

CompletionInit ==
    /\ completions = {}
    /\ points = [u \in Users |-> 0]
    /\ today = 1
    /\ attempt = [c \in Completers |-> NoAttempt]

\* BeginTx and time.Now() of completeTaskForUser
completeTaskForUser(c, t, u) ==
    /\ attempt[c].at = "idle"
    /\ attempt' = [attempt EXCEPT ![c] =
                     [at |-> "begun", task |-> t, user |-> u, day |-> today,
                      value |-> 0, total |-> 0]]
    /\ UNCHANGED <<completions, points, today>>

completeTask(c, caller, t) == completeTaskForUser(c, t, caller)

completeDashboardTask(c, caller, u, t) ==
    requireAdmin(caller) /\ completeTaskForUser(c, t, u)

\* task_to_complete: without a due task of this user the handler answers 409.
FindTask(c) ==
    LET x == attempt[c] IN
    /\ x.at = "begun"
    /\ attempt' =
         IF tasks[x.task] # NoTask /\ x.user \in assigned[x.task] /\ Due(tasks[x.task], x.day)
           THEN [attempt EXCEPT ![c].at = "found", ![c].value = tasks[x.task].value]
           ELSE [attempt EXCEPT ![c] = NoAttempt]
    /\ UNCHANGED <<completions, points, today>>

\* inserted: ON CONFLICT DO NOTHING returns no row, which is a 409 as well.
InsertCompletion(c) ==
    /\ attempt[c].at = "found"
    /\ KeyFree(c)
    /\ attempt' = IF Completed(attempt[c])
                    THEN [attempt EXCEPT ![c] = NoAttempt]
                    ELSE [attempt EXCEPT ![c].at = "inserted"]
    /\ UNCHANGED <<completions, points, today>>

\* Mutant: the points are read again from the task instead of the completion.
AddUserPointsReread(c) ==
    LET total == points[attempt[c].user] + tasks[attempt[c].task].value IN
    /\ attempt[c].at = "inserted"
    /\ UserRowFree(c)
    /\ attempt' = IF total > MaxInt
                    THEN [attempt EXCEPT ![c] = NoAttempt]
                    ELSE [attempt EXCEPT ![c].at = "awarded", ![c].total = total]
    /\ UNCHANGED <<completions, points, today>>

\* points = points + $2 on the newest balance; past the int column it is an
\* error, and the deferred Rollback takes the completion back too.
AddUserPoints(c) ==
    LET total == points[attempt[c].user] + attempt[c].value IN
    /\ attempt[c].at = "inserted"
    /\ UserRowFree(c)
    /\ attempt' = IF total > MaxInt
                    THEN [attempt EXCEPT ![c] = NoAttempt]
                    ELSE [attempt EXCEPT ![c].at = "awarded", ![c].total = total]
    /\ UNCHANGED <<completions, points, today>>

\* Mutant: the completion is dated when it commits.
CommitCompletionToday(c) ==
    LET x == attempt[c] IN
    /\ x.at = "awarded"
    /\ completions' = completions \cup
         {[task |-> x.task, user |-> x.user, day |-> today, award |-> x.value]}
    /\ points' = [points EXCEPT ![x.user] = x.total]
    /\ attempt' = [attempt EXCEPT ![c] = NoAttempt]
    /\ UNCHANGED today

\* Whether the answer arrives, or Commit reports an error after the server has
\* committed, makes no difference to the tables.
CommitCompletion(c) ==
    LET x == attempt[c] IN
    /\ x.at = "awarded"
    /\ completions' = completions \cup
         {[task |-> x.task, user |-> x.user, day |-> x.day, award |-> x.value]}
    /\ points' = [points EXCEPT ![x.user] = x.total]
    /\ attempt' = [attempt EXCEPT ![c] = NoAttempt]
    /\ UNCHANGED today

\* A statement or the commit fails, the client goes away or the process dies.
AbortCompletion(c) ==
    /\ attempt[c].at # "idle"
    /\ attempt' = [attempt EXCEPT ![c] = NoAttempt]
    /\ UNCHANGED <<completions, points, today>>

NextDay ==
    /\ today < LastDay
    /\ today' = today + 1
    /\ UNCHANGED <<completions, points, attempt>>

CompletionStep(c) ==
    FindTask(c) \/ InsertCompletion(c) \/ AddUserPoints(c) \/ CommitCompletion(c)

CompletionNext ==
    \/ \E c \in Completers :
         \/ \E caller \in Users, t \in Tasks :
              \/ completeTask(c, caller, t)
              \/ \E u \in UserIds : completeDashboardTask(c, caller, u, t)
         \/ CompletionStep(c)
         \/ AbortCompletion(c)
    \/ NextDay

Init == EditInit /\ CompletionInit

Next ==
    \/ EditNext /\ UNCHANGED completionVars
    \/ CompletionNext /\ UNCHANGED editVars

Spec == Init /\ [][Next]_vars

\* The statements run on; a transaction that waits gets its lock in the order
\* of Postgres's queue, hence strong fairness for the two that may wait.
CompletionFairness ==
    \A c \in Completers :
        /\ WF_vars(CompletionStep(c) /\ UNCHANGED editVars)
        /\ SF_vars(InsertCompletion(c) /\ UNCHANGED editVars)
        /\ SF_vars(AddUserPoints(c) /\ UNCHANGED editVars)

FairSpec == Spec /\ CompletionFairness

----------------------------------------------------------------------------
(* Properties *)

\* Tables and requests hold values of their types: no balance that AddUserPoints
\* writes leaves the range of the int column users.points.
TypeOK ==
    /\ EditTypeOK
    /\ completions \subseteq Completion
    /\ points \in [Users -> 0 .. MaxInt]
    /\ today \in 1 .. LastDay
    /\ attempt \in [Completers -> Attempting \cup {NoAttempt}]

\* One payment per task, user and day, whichever of completeTask and
\* completeDashboardTask asks and however often a lost answer makes it retried.
CompletedOncePerDay == \A r, s \in completions : SameKey(r, s) => r = s

\* A request that straddles midnight is dated by the day it was checked for:
\* as long as nobody edits a task, its completions lie on days it is due.
CompletedOnDueDay ==
    Editors = {} =>
        \A r \in completions :
            r.day =< today /\ Due([tasks[r.task] EXCEPT !.active = TRUE], r.day)

\* A balance is what the completions of its user paid: no two AddUserPoints
\* overwrite each other and no award outlives its completion's rollback.
PointsMatchCompletions ==
    \A u \in Users :
        points[u] = MapThenSumSet(LAMBDA r : r.award, {r \in completions : r.user = u})

\* Uncommitted work that the locks keep apart: transactions past their INSERT
\* hold different keys, none of them committed yet, and one that has written a
\* balance is alone on that user and still agrees with the committed one.
LocksHeld ==
    \A c \in Completers :
        /\ attempt[c].at # "idle" /\ attempt[c].at # "begun" => attempt[c].user \in Users
        /\ HasInserted(c) => KeyFree(c) /\ ~Completed(attempt[c])
        /\ attempt[c].at = "awarded" =>
             /\ UserRowFree(c)
             /\ attempt[c].total = points[attempt[c].user] + attempt[c].value

\* A completion is never taken back: no edit, deactivation, abort or later
\* completion removes a row of task_completions or lowers a balance.
NothingTakenBack ==
    [][/\ completions \subseteq completions'
       /\ \A u \in Users : points'[u] >= points[u]]_vars

Ledger == INSTANCE PointsLedger WITH paid <- completions, Days <- 1 .. LastDay

\* The handlers, statements and locks implement the ledger: every step either
\* pays one new completion and its balance at once, or changes neither.
ImplementsLedger == Ledger!LedgerSpec

\* A request that began its transaction answers: waiting for a key and waiting
\* for a user's row never close into a circle.
CompletionsFinish == \A c \in Completers : attempt[c].at # "idle" ~> attempt[c].at = "idle"
=============================================================================
