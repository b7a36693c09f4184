------------------------------ MODULE TaskEditing ------------------------------
(***************************************************************************)
(* The administrator's side of the task store: createTask, updateTask and  *)
(* deleteTask over the tables tasks and task_assignments.  A create or an  *)
(* update is a transaction of several statements run by a request          *)
(* goroutine, an editor; the database is Postgres at READ COMMITTED, so    *)
(* every statement sees what is committed when it starts and an UPDATE     *)
(* waits for the transaction that last wrote the row.                      *)
(***************************************************************************)
EXTENDS TaskRules

CONSTANTS
    Editors,     \* request goroutines that may create or update tasks
    Admins,      \* the users whose is_admin is set
    Seed         \* the request each initial row was stored by, or NoTask

ASSUME SeedAssumption ==
    /\ Admins \subseteq Users
    /\ NoTask \notin RawInputs
    /\ Seed \in [Tasks -> {in \in AcceptedInputs : in.assignees \subseteq Users}
                          \cup {NoTask}]

VARIABLES
    tasks,       \* table tasks, committed rows only
    assigned,    \* table task_assignments: the users of each task
    edit         \* what each editor's request is doing

editVars == <<tasks, assigned, edit>>

----------------------------------------------------------------------------
(* An editor's transaction.  "todo" are the assignees still to insert,     *)
(* "gone" and "added" the assignment rows its transaction has deleted and  *)
(* inserted, which nobody else sees before its commit.                     *)

NoEdit == [at |-> "idle"]

Begun(op, t, in) ==
    [at |-> "begun", op |-> op, task |-> t, input |-> in,
     todo |-> in.assignees, gone |-> {}, added |-> {}]

Editing == [at : {"begun", "written", "assigning"}, op : {"create", "update"},
            task : Tasks, input : AcceptedInputs, todo : SUBSET UserIds,
            gone : SUBSET Users, added : SUBSET Users]

HasWritten(e, t) ==
    /\ edit[e].at \in {"written", "assigning"}
    /\ edit[e].task = t

\* Mutant: the UPDATE does not wait.
RowAlwaysFree(t) == TRUE

\* The row's lock is held by the transaction that wrote it.
RowFree(t) == \A e \in Editors : ~HasWritten(e, t)

requireAdmin(caller) == caller \in Admins

EditInit ==
    /\ tasks = [t \in Tasks |-> IF Seed[t] = NoTask THEN NoTask ELSE RowOf(Seed[t])]
    /\ assigned = [t \in Tasks |-> IF Seed[t] = NoTask THEN {} ELSE Seed[t].assignees]
    /\ edit = [e \in Editors |-> NoEdit]

\* A refused body, an unknown path id or a failed BeginTx leaves no trace.
BeginCreate(e, caller, in) ==
    /\ edit[e].at = "idle"
    /\ requireAdmin(caller)
    /\ parseTaskInput(in) /\ parseAssigneeIDs(in)
    /\ \E t \in Tasks : /\ tasks[t] = NoTask
                        /\ \A f \in Editors :
                             ~(edit[f].at # "idle" /\ edit[f].op = "create" /\ edit[f].task = t)
                        /\ edit' = [edit EXCEPT ![e] = Begun("create", t, in)]
    /\ UNCHANGED <<tasks, assigned>>

BeginUpdate(e, caller, t, in) ==
    /\ edit[e].at = "idle"
    /\ requireAdmin(caller)
    /\ parseTaskInput(in) /\ parseAssigneeIDs(in)
    /\ edit' = [edit EXCEPT ![e] = Begun("update", t, in)]
    /\ UNCHANGED <<tasks, assigned>>

\* INSERT INTO tasks: the row is invisible until commit and cannot conflict.
CreateTask(e) ==
    /\ edit[e].at = "begun" /\ edit[e].op = "create"
    /\ edit' = [edit EXCEPT ![e].at = "assigning"]
    /\ UNCHANGED <<tasks, assigned>>

\* UPDATE tasks: waits for the row; an id without a row answers 404.
UpdateTask(e) ==
    LET t == edit[e].task IN
    /\ edit[e].at = "begun" /\ edit[e].op = "update"
    /\ \/ tasks[t] = NoTask /\ edit' = [edit EXCEPT ![e] = NoEdit]
       \/ tasks[t] # NoTask /\ RowFree(t) /\ edit' = [edit EXCEPT ![e].at = "written"]
    /\ UNCHANGED <<tasks, assigned>>

\* DELETE FROM task_assignments removes the rows committed by now.
DeleteTaskAssignments(e) ==
    /\ edit[e].at = "written"
    /\ edit' = [edit EXCEPT ![e].at = "assigning", ![e].gone = assigned[edit[e].task]]
    /\ UNCHANGED <<tasks, assigned>>

\* Mutant: the handler returns on the error and leaves its transaction open.
AssignTaskNoRollback(e, u) ==
    /\ edit[e].at = "assigning" /\ u \in edit[e].todo
    /\ u \in Users
    /\ edit' = [edit EXCEPT ![e].todo = @ \ {u}, ![e].added = @ \cup {u}]
    /\ UNCHANGED <<tasks, assigned>>

\* One INSERT per assignee; an unknown user violates the foreign key and the
\* handler's deferred Rollback undoes everything.
AssignTask(e, u) ==
    /\ edit[e].at = "assigning" /\ u \in edit[e].todo
    /\ edit' = IF u \in Users
                 THEN [edit EXCEPT ![e].todo = @ \ {u}, ![e].added = @ \cup {u}]
                 ELSE [edit EXCEPT ![e] = NoEdit]
    /\ UNCHANGED <<tasks, assigned>>

CommitEdit(e) ==
    LET x == edit[e] IN
    /\ x.at = "assigning" /\ x.todo = {}
    /\ tasks' = [tasks EXCEPT ![x.task] = RowOf(x.input)]
    /\ assigned' = [assigned EXCEPT ![x.task] = (@ \ x.gone) \cup x.added]
    /\ edit' = [edit EXCEPT ![e] = NoEdit]

\* A statement or the commit fails, the client goes away or the process dies.
AbortEdit(e) ==
    /\ edit[e].at # "idle"
    /\ edit' = [edit EXCEPT ![e] = NoEdit]
    /\ UNCHANGED <<tasks, assigned>>

\* deleteTask: one UPDATE in autocommit, 404 when no row matches.
DeleteTask(caller, t) ==
    /\ requireAdmin(caller)
    /\ tasks[t] # NoTask
    /\ RowFree(t)
    /\ tasks' = [tasks EXCEPT ![t].active = FALSE]
    /\ UNCHANGED <<assigned, edit>>

EditStep(e) ==
    \/ CreateTask(e) \/ UpdateTask(e) \/ DeleteTaskAssignments(e)
    \/ \E u \in UserIds : AssignTask(e, u)
    \/ CommitEdit(e)

EditNext ==
    \/ \E e \in Editors :
         \/ \E caller \in Users, in \in RawInputs :
              \/ BeginCreate(e, caller, in)
              \/ \E t \in Tasks : BeginUpdate(e, caller, t, in)
         \/ EditStep(e)
         \/ AbortEdit(e)
    \/ \E caller \in Users, t \in Tasks : DeleteTask(caller, t)

\* A waiting UPDATE is granted the row in the order of Postgres's lock queue.
EditFairness == \A e \in Editors : WF_editVars(EditStep(e)) /\ SF_editVars(UpdateTask(e))

EditSpec == EditInit /\ [][EditNext]_editVars

FairEditSpec == EditSpec /\ EditFairness
----------------------------------------------------------------------------
(* Properties *)

\* Every table and every transaction holds values of its type; a stored row
\* has passed parseTaskInput.
EditTypeOK ==
    /\ tasks \in [Tasks -> Row \cup {NoTask}]
    /\ assigned \in [Tasks -> SUBSET Users]
    /\ edit \in [Editors -> Editing \cup {NoEdit}]

\* The row an accepted request stores, and what deleteTask may make of it.
StoredBy(in) == {RowOf(in), [RowOf(in) EXCEPT !.active = FALSE]}

\* A task and its assignment list always come from one and the same request:
\* updates that overlap in updateTask, fail half way through assignTaskUsers
\* or race deleteTask never leave the row of one with the users of another.
AssignmentsMatchRow ==
    \A t \in Tasks :
        IF tasks[t] = NoTask
          THEN assigned[t] = {}
          ELSE \E in \in AcceptedInputs : /\ tasks[t] \in StoredBy(in)
                                         /\ assigned[t] = in.assignees

\* What a transaction has seen and done so far still fits the committed tables:
\* the row it creates is its own, the row it updates is there and no other
\* transaction has written it, and its deletions and insertions are exactly
\* those that turn the committed assignments into the requested ones.
Fits(x) ==
    /\ x.todo \subseteq x.input.assignees
    /\ x.op = "create" => tasks[x.task] = NoTask
    /\ x.at = "begun" => x.todo = x.input.assignees /\ x.gone = {} /\ x.added = {}
    /\ x.at = "written" => x.op = "update" /\ x.todo = x.input.assignees /\ x.added = {}
    /\ x.at # "begun" /\ x.op = "update" => tasks[x.task] # NoTask
    /\ x.at = "assigning" => /\ x.gone = assigned[x.task]
                            /\ x.added = x.input.assignees \ x.todo

TransactionsFit ==
    \A e \in Editors :
        edit[e].at # "idle" =>
          /\ Fits(edit[e])
          /\ \A f \in Editors \ {e} :
               edit[f].at # "idle" /\ edit[f].task = edit[e].task =>
                 /\ ~(edit[e].op = "create" /\ edit[f].op = "create")
                 /\ edit[e].at # "begun" => edit[f].at = "begun"

\* Every active row comes due on some day of the week, so no request can store
\* a task that is listed as active and that CompleteTask can never match.
RowsComeDue ==
    \A t \in Tasks :
        tasks[t] # NoTask /\ tasks[t].active => \E day \in 1 .. 7 : Due(tasks[t], day)

\* A request that began its transaction answers, however many updates of the
\* same task wait for each other's row lock.
EditsFinish == \A e \in Editors : edit[e].at # "idle" ~> edit[e].at = "idle"
=============================================================================
