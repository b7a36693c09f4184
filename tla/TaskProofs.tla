------------------------------- MODULE TaskProofs -------------------------------
(***************************************************************************)
(* Proofs about TaskEditing, TaskCompletion and TaskList for any users,    *)
(* tasks, bodies, days and number of requests.  TransactionsFit is what    *)
(* makes AssignmentsMatchRow inductive: it says what an uncommitted        *)
(* transaction will do to the tables.  LocksHeld does the same for the     *)
(* completions: their work can still be committed as it stands.            *)
(***************************************************************************)
EXTENDS TaskCompletion, TaskList, FiniteSetTheorems, WellFoundedInduction, TLAPS

----------------------------------------------------------------------------
(* Editing *)

\* An accepted body is stored as a well-formed row.
LEMMA RowOfTyped ==
    ASSUME NEW in \in AcceptedInputs
    PROVE  RowOf(in) \in Row /\ StoredBy(in) \subseteq Row
<1>1. /\ in \in RawInputs /\ parseTaskInput(in)
      /\ in.value \in 0 .. MaxInt /\ in.active \in BOOLEAN
    BY RulesAssumption DEF AcceptedInputs, parseTaskInput
<1>2. FrequencyKind(in) \in {"daily", "weekly"}
    BY <1>1 DEF parseTaskInput, allowedTaskFrequencies
<1>3. (IF FrequencyKind(in) = "daily" THEN {} ELSE in.days) \in SUBSET (1 .. 7)
    BY <1>1, <1>2 DEF parseTaskInput, DaysOk
<1>4. RowOf(in) \in Row
    BY <1>1, <1>2, <1>3 DEF RowOf, Row
<1>5. [RowOf(in) EXCEPT !.active = FALSE] \in Row
    BY <1>4 DEF Row
<1>6. QED
    BY <1>4, <1>5 DEF StoredBy

\* Deactivating a row keeps it a row stored by the same request.
LEMMA DeactivateStored ==
    ASSUME NEW in \in AcceptedInputs, NEW row \in StoredBy(in)
    PROVE  [row EXCEPT !.active = FALSE] \in StoredBy(in)
    BY DEF StoredBy, RowOf

EditInv == EditTypeOK /\ AssignmentsMatchRow /\ TransactionsFit

LEMMA EditInvInit == EditInit => EditInv
<1> SUFFICES ASSUME EditInit PROVE EditInv
    OBVIOUS
<1> USE SeedAssumption, RulesAssumption DEF EditInit
<1>1. \A t \in Tasks : Seed[t] # NoTask =>
          /\ Seed[t] \in AcceptedInputs /\ Seed[t].assignees \subseteq Users
          /\ RowOf(Seed[t]) \in Row
    BY RowOfTyped
<1>2. EditTypeOK
    BY <1>1 DEF EditTypeOK
<1>3. AssignmentsMatchRow
    BY <1>1 DEF AssignmentsMatchRow, StoredBy
<1>4. TransactionsFit
    BY DEF TransactionsFit, NoEdit
<1>5. QED
    BY <1>2, <1>3, <1>4 DEF EditInv

----------------------------------------------------------------------------
(* Steps that only touch the request of one editor. *)

\* Replacing one idle or fitting transaction by one that fits and does not
\* share its task with another one keeps the invariant.
LEMMA EditorStep ==
    ASSUME EditInv, UNCHANGED <<tasks, assigned>>,
           NEW e \in Editors, NEW x \in Editing,
           edit' = [edit EXCEPT ![e] = x],
           Fits(x),
           \A f \in Editors \ {e} :
               edit[f].at # "idle" /\ edit[f].task = x.task =>
                   /\ ~(x.op = "create" /\ edit[f].op = "create")
                   /\ x.at # "begun" => edit[f].at = "begun"
                   /\ edit[f].at # "begun" => x.at = "begun"
    PROVE  EditInv'
<1> USE DEF EditInv
<1>1. EditTypeOK'
    BY DEF EditTypeOK
<1>2. AssignmentsMatchRow'
    BY DEF AssignmentsMatchRow
<1>3. \A f \in Editors : edit'[f] = IF f = e THEN x ELSE edit[f]
    BY DEF EditTypeOK
<1>4. TransactionsFit'
    <2> SUFFICES ASSUME NEW f \in Editors, edit'[f].at # "idle"
                 PROVE  /\ Fits(edit[f])'
                        /\ \A g \in Editors \ {f} :
                             edit'[g].at # "idle" /\ edit'[g].task = edit'[f].task =>
                               /\ ~(edit'[f].op = "create" /\ edit'[g].op = "create")
                               /\ edit'[f].at # "begun" => edit'[g].at = "begun"
        BY DEF TransactionsFit
    <2>1. Fits(edit[f])'
        <3>1. Fits(IF f = e THEN x ELSE edit[f])
            BY <1>3 DEF TransactionsFit
        <3>2. QED
            BY <3>1, <1>3 DEF Fits
    <2>2. QED
        BY <2>1, <1>3 DEF TransactionsFit
<1>5. QED
    BY <1>1, <1>2, <1>4

\* Ending a transaction without a commit keeps the invariant.
LEMMA EditorEnds ==
    ASSUME EditInv, UNCHANGED <<tasks, assigned>>,
           NEW e \in Editors, edit' = [edit EXCEPT ![e] = NoEdit]
    PROVE  EditInv'
<1> USE DEF EditInv
<1>1. EditTypeOK'
    BY DEF EditTypeOK
<1>2. AssignmentsMatchRow'
    BY DEF AssignmentsMatchRow
<1>3. \A f \in Editors : edit'[f] = IF f = e THEN NoEdit ELSE edit[f]
    BY DEF EditTypeOK
<1>4. TransactionsFit'
    BY <1>3 DEF TransactionsFit, Fits, NoEdit
<1>5. QED
    BY <1>1, <1>2, <1>4

----------------------------------------------------------------------------
(* Steps that write the tables. *)

\* A commit replaces the row and the whole assignment list at once.
LEMMA CommitKeepsInv ==
    ASSUME EditInv, NEW e \in Editors, CommitEdit(e)
    PROVE  EditInv'
<1> DEFINE x == edit[e]
<1> USE DEF EditInv, CommitEdit
<1>1. x \in Editing /\ RowOf(x.input) \in Row
    BY RowOfTyped DEF EditTypeOK, Editing, NoEdit
<1>2. Fits(x) /\ (assigned[x.task] \ x.gone) \cup x.added = x.input.assignees
    BY <1>1 DEF TransactionsFit, Fits
<1>3. /\ tasks' = [tasks EXCEPT ![x.task] = RowOf(x.input)]
      /\ assigned' = [assigned EXCEPT ![x.task] = x.input.assignees]
      /\ x.input.assignees \subseteq Users
    BY <1>1, <1>2 DEF EditTypeOK, Editing
<1>4. EditTypeOK'
    BY <1>1, <1>3 DEF EditTypeOK, Editing
<1>5. AssignmentsMatchRow'
    <2> SUFFICES ASSUME NEW t \in Tasks
                 PROVE  IF tasks'[t] = NoTask
                          THEN assigned'[t] = {}
                          ELSE \E in \in AcceptedInputs : /\ tasks'[t] \in StoredBy(in)
                                                         /\ assigned'[t] = in.assignees
        BY DEF AssignmentsMatchRow
    <2>1. CASE t = x.task
        <3>1. tasks'[t] = RowOf(x.input) /\ assigned'[t] = x.input.assignees
            BY <1>3, <2>1 DEF EditTypeOK
        <3>2. x.input \in AcceptedInputs /\ RowOf(x.input) # NoTask
            BY <1>1, RulesAssumption DEF Editing
        <3>3. QED
            BY <3>1, <3>2 DEF StoredBy
    <2>2. CASE t # x.task
        <3>1. tasks'[t] = tasks[t] /\ assigned'[t] = assigned[t]
            BY <1>3, <2>2 DEF EditTypeOK
        <3>2. QED
            BY <3>1 DEF AssignmentsMatchRow
    <2>3. QED
        BY <2>1, <2>2
<1>6. TransactionsFit'
    <2>1. \A f \in Editors : edit'[f] = IF f = e THEN NoEdit ELSE edit[f]
        BY DEF EditTypeOK
    <2>2. ASSUME NEW f \in Editors \ {e}, edit[f].at # "idle"
          PROVE  Fits(edit[f])'
        <3>1. edit[f] \in Editing /\ Fits(edit[f]) /\ edit'[f] = edit[f]
            BY <2>1, <2>2 DEF EditTypeOK, TransactionsFit, NoEdit
        <3>2. CASE edit[f].task = x.task
            <4>1. x.at = "assigning" /\ x.op \in {"create", "update"}
                BY <1>1 DEF Editing
            <4>2. /\ edit[f].at = "begun"
                  /\ ~(x.op = "create" /\ edit[f].op = "create")
                BY <2>2, <3>2, <4>1 DEF TransactionsFit
            <4>3. edit[f].op # "create"
                BY <1>2, <3>1, <3>2, <4>1, <4>2 DEF Fits
            <4>4. QED
                BY <3>1, <4>2, <4>3 DEF Fits
        <3>3. CASE edit[f].task # x.task
            <4>1. /\ tasks'[edit[f].task] = tasks[edit[f].task]
                  /\ assigned'[edit[f].task] = assigned[edit[f].task]
                BY <1>1, <1>3, <3>1, <3>3 DEF Editing, EditTypeOK
            <4>2. QED
                BY <3>1, <4>1 DEF Fits
        <3>4. QED
            BY <3>2, <3>3
    <2>3. QED
        BY <2>1, <2>2 DEF TransactionsFit, NoEdit
<1>7. QED
    BY <1>4, <1>5, <1>6

\* deleteTask only touches a row no transaction has written.
LEMMA DeleteKeepsInv ==
    ASSUME EditInv, NEW caller \in Users, NEW t \in Tasks, DeleteTask(caller, t)
    PROVE  EditInv'
<1> USE DEF EditInv, DeleteTask
<1>1. /\ tasks[t] \in Row /\ [tasks[t] EXCEPT !.active = FALSE] \in Row
      /\ [tasks[t] EXCEPT !.active = FALSE] # NoTask
    BY RulesAssumption DEF EditTypeOK, Row
<1>2. EditTypeOK'
    BY <1>1 DEF EditTypeOK
<1>3. AssignmentsMatchRow'
    BY <1>1, DeactivateStored DEF AssignmentsMatchRow, EditTypeOK
<1>4. TransactionsFit'
    <2>1. \A s \in Tasks : (tasks'[s] = NoTask) <=> (tasks[s] = NoTask)
        BY <1>1 DEF EditTypeOK
    <2>2. ASSUME NEW e \in Editors, edit[e].at # "idle" PROVE Fits(edit[e])'
        <3>1. edit[e].task \in Tasks /\ Fits(edit[e])
            BY <2>2 DEF EditTypeOK, Editing, NoEdit, TransactionsFit
        <3>2. QED
            BY <2>1, <3>1 DEF Fits
    <2>3. QED
        BY <2>2 DEF TransactionsFit
<1>5. QED
    BY <1>2, <1>3, <1>4

----------------------------------------------------------------------------
(* The theorems *)

LEMMA EditStepKeepsInv == EditInv /\ [EditNext]_editVars => EditInv'
<1> SUFFICES ASSUME EditInv, [EditNext]_editVars PROVE EditInv'
    OBVIOUS
<1> USE DEF EditInv
<1>1. ASSUME NEW e \in Editors, NEW caller \in Users, NEW in \in RawInputs,
             BeginCreate(e, caller, in)
      PROVE  EditInv'
    <2>1. PICK t \in Tasks :
            /\ tasks[t] = NoTask
            /\ \A f \in Editors :
                 ~(edit[f].at # "idle" /\ edit[f].op = "create" /\ edit[f].task = t)
            /\ edit' = [edit EXCEPT ![e] = Begun("create", t, in)]
        BY <1>1 DEF BeginCreate
    <2>2. Begun("create", t, in) \in Editing
        BY <1>1 DEF BeginCreate, Begun, Editing, AcceptedInputs, parseAssigneeIDs
    <2>3. Fits(Begun("create", t, in))
        BY <2>1 DEF Fits, Begun
    <2>4. \A f \in Editors \ {e} : edit[f].at # "idle" /\ edit[f].task = t =>
            edit[f].op # "create" /\ edit[f].at = "begun"
        BY <2>1 DEF TransactionsFit, Fits, EditTypeOK, Editing, NoEdit
    <2>5. PICK x : x = Begun("create", t, in)
        OBVIOUS
    <2>6. x.op = "create" /\ x.at = "begun" /\ x.task = t
        BY <2>5 DEF Begun
    <2>7. UNCHANGED <<tasks, assigned>>
        BY <1>1 DEF BeginCreate
    <2>8. QED
        BY <2>1, <2>2, <2>3, <2>4, <2>5, <2>6, <2>7, EditorStep
<1>2. ASSUME NEW e \in Editors, NEW caller \in Users, NEW in \in RawInputs,
             NEW t \in Tasks, BeginUpdate(e, caller, t, in)
      PROVE  EditInv'
    <2>1. Begun("update", t, in) \in Editing
        BY <1>2 DEF BeginUpdate, Begun, Editing, AcceptedInputs, parseAssigneeIDs
    <2>2. Fits(Begun("update", t, in))
        BY DEF Fits, Begun
    <2>3. QED
        BY <1>2, <2>1, <2>2, EditorStep DEF Begun, BeginUpdate
<1>3. ASSUME NEW e \in Editors, CreateTask(e) PROVE EditInv'
    <2> DEFINE x == [edit[e] EXCEPT !.at = "assigning"]
    <2>1. edit[e] \in Editing /\ Fits(edit[e])
        BY <1>3 DEF CreateTask, EditTypeOK, NoEdit, TransactionsFit
    <2>2. x \in Editing /\ edit' = [edit EXCEPT ![e] = x]
        BY <1>3, <2>1 DEF CreateTask, Editing
    <2>3. tasks[edit[e].task] = NoTask /\ assigned[edit[e].task] = {}
        BY <1>3, <2>1 DEF CreateTask, Fits, AssignmentsMatchRow, Editing
    <2>4. Fits(x)
        BY <1>3, <2>1, <2>3 DEF CreateTask, Fits, Editing
    <2>5. \A f \in Editors \ {e} : edit[f].at # "idle" /\ edit[f].task = x.task =>
            edit[f].op # "create" /\ edit[f].at = "begun"
        BY <1>3, <2>1, <2>3 DEF CreateTask, TransactionsFit, Fits, EditTypeOK, Editing, NoEdit
    <2>6. QED
        BY <1>3, <2>2, <2>4, <2>5, EditorStep DEF CreateTask
<1>4. ASSUME NEW e \in Editors, UpdateTask(e) PROVE EditInv'
    <2> DEFINE x == [edit[e] EXCEPT !.at = "written"]
    <2>1. edit[e] \in Editing /\ Fits(edit[e])
        BY <1>4 DEF UpdateTask, EditTypeOK, NoEdit, TransactionsFit
    <2>2. CASE edit' = [edit EXCEPT ![e] = NoEdit]
        BY <1>4, <2>2, EditorEnds DEF UpdateTask
    <2>3. CASE /\ tasks[edit[e].task] # NoTask /\ RowFree(edit[e].task)
               /\ edit' = [edit EXCEPT ![e].at = "written"]
        <3>1. x \in Editing /\ edit' = [edit EXCEPT ![e] = x]
            BY <2>1, <2>3 DEF Editing
        <3>2. Fits(x)
            BY <1>4, <2>1, <2>3 DEF UpdateTask, Fits, Editing
        <3>3. \A f \in Editors \ {e} : edit[f].at # "idle" /\ edit[f].task = x.task =>
                edit[f].at = "begun"
            BY <2>1, <2>3 DEF RowFree, HasWritten, EditTypeOK, Editing, NoEdit
        <3>4. x.op = "update"
            BY <1>4, <2>1 DEF UpdateTask, Editing
        <3>5. QED
            BY <1>4, <3>1, <3>2, <3>3, <3>4, EditorStep DEF UpdateTask
    <2>4. QED
        BY <1>4, <2>2, <2>3 DEF UpdateTask
<1>5. ASSUME NEW e \in Editors, DeleteTaskAssignments(e) PROVE EditInv'
    <2> DEFINE x == [edit[e] EXCEPT !.at = "assigning", !.gone = assigned[edit[e].task]]
    <2>1. edit[e] \in Editing /\ Fits(edit[e])
        BY <1>5 DEF DeleteTaskAssignments, EditTypeOK, NoEdit, TransactionsFit
    <2>2. x \in Editing /\ edit' = [edit EXCEPT ![e] = x]
        BY <1>5, <2>1 DEF DeleteTaskAssignments, Editing, EditTypeOK
    <2>3. Fits(x)
        BY <1>5, <2>1 DEF DeleteTaskAssignments, Fits, Editing
    <2>4. \A f \in Editors \ {e} : edit[f].at # "idle" /\ edit[f].task = x.task =>
            edit[f].at = "begun"
        BY <1>5, <2>1 DEF DeleteTaskAssignments, TransactionsFit, Editing
    <2>5. x.op = "update"
        BY <1>5, <2>1 DEF DeleteTaskAssignments, Fits, Editing
    <2>6. QED
        BY <1>5, <2>2, <2>3, <2>4, <2>5, EditorStep DEF DeleteTaskAssignments
<1>6. ASSUME NEW e \in Editors, NEW u \in UserIds, AssignTask(e, u) PROVE EditInv'
    <2> DEFINE x == [edit[e] EXCEPT !.todo = @ \ {u}, !.added = @ \cup {u}]
    <2>1. edit[e] \in Editing /\ Fits(edit[e])
        BY <1>6 DEF AssignTask, EditTypeOK, NoEdit, TransactionsFit
    <2>2. CASE u \notin Users
        BY <1>6, <2>2, EditorEnds DEF AssignTask
    <2>3. CASE u \in Users
        <3>1. x \in Editing /\ edit' = [edit EXCEPT ![e] = x]
            BY <1>6, <2>1, <2>3 DEF AssignTask, Editing
        <3>2. Fits(x)
            BY <1>6, <2>1 DEF AssignTask, Fits, Editing
        <3>3. \A f \in Editors \ {e} : edit[f].at # "idle" /\ edit[f].task = x.task =>
                edit[f].at = "begun" /\ ~(x.op = "create" /\ edit[f].op = "create")
            BY <1>6, <2>1 DEF AssignTask, TransactionsFit, Editing
        <3>4. QED
            BY <1>6, <3>1, <3>2, <3>3, EditorStep DEF AssignTask
    <2>4. QED
        BY <2>2, <2>3
<1>7. ASSUME NEW e \in Editors, CommitEdit(e) PROVE EditInv'
    BY <1>7, CommitKeepsInv
<1>8. ASSUME NEW e \in Editors, AbortEdit(e) PROVE EditInv'
    BY <1>8, EditorEnds DEF AbortEdit
<1>9. ASSUME NEW caller \in Users, NEW t \in Tasks, DeleteTask(caller, t) PROVE EditInv'
    BY <1>9, DeleteKeepsInv
<1>10. CASE UNCHANGED editVars
    BY <1>10 DEF editVars, EditTypeOK, AssignmentsMatchRow, TransactionsFit, Fits
<1>11. QED
    BY <1>1, <1>2, <1>3, <1>4, <1>5, <1>6, <1>7, <1>8, <1>9, <1>10 DEF EditNext, EditStep

\* Every table and transaction is well typed, a row and its assignments come
\* from the same request, and open transactions fit what is committed.
THEOREM EditsIsolated == EditSpec => [](EditTypeOK /\ AssignmentsMatchRow /\ TransactionsFit)
<1>1. EditInit => EditInv
    BY EditInvInit
<1>2. EditInv /\ [EditNext]_editVars => EditInv'
    BY EditStepKeepsInv
<1>3. EditInv => EditTypeOK /\ AssignmentsMatchRow /\ TransactionsFit
    BY DEF EditInv
<1>4. QED
    BY <1>1, <1>2, <1>3, PTL DEF EditSpec

\* What parseTaskInput accepts as active is due on one of the first seven days.
LEMMA AcceptedComeDue ==
    ASSUME NEW in \in AcceptedInputs, in.active
    PROVE  \E day \in 1 .. 7 : Due(RowOf(in), day)
<1>1. FrequencyKind(in) \in {"daily", "weekly"} /\ DaysOk(in)
    BY DEF AcceptedInputs, parseTaskInput, allowedTaskFrequencies
<1>2. CASE FrequencyKind(in) = "daily"
    BY <1>2 DEF Due, RowOf
<1>3. CASE FrequencyKind(in) = "weekly"
    <2>1. PICK day \in in.days : day \in 1 .. 7
        BY <1>1, <1>3 DEF DaysOk
    <2>2. IsoDow(day) = day
        BY <2>1 DEF IsoDow
    <2>3. RowOf(in).kind = "weekly" /\ RowOf(in).days = in.days
        BY <1>3 DEF RowOf
    <2>4. RowOf(in).active
        BY DEF RowOf
    <2>5. Due(RowOf(in), day)
        BY <2>1, <2>2, <2>3, <2>4 DEF Due
    <2>6. QED
        BY <2>1, <2>5
<1>4. QED
    BY <1>1, <1>2, <1>3

\* No request stores an active task that never comes due.
THEOREM TasksComeDue == EditSpec => []RowsComeDue
<1>1. AssignmentsMatchRow => RowsComeDue
    <2> SUFFICES ASSUME AssignmentsMatchRow, NEW t \in Tasks,
                        tasks[t] # NoTask, tasks[t].active
                 PROVE  \E day \in 1 .. 7 : Due(tasks[t], day)
        BY DEF RowsComeDue
    <2>1. PICK in \in AcceptedInputs : tasks[t] \in StoredBy(in)
        BY DEF AssignmentsMatchRow
    <2>2. tasks[t] = RowOf(in) /\ in.active
        BY <2>1 DEF StoredBy, RowOf
    <2>3. QED
        BY <2>2, AcceptedComeDue
<1>2. QED
    BY <1>1, EditsIsolated, PTL

----------------------------------------------------------------------------
(* Completion *)

CompletionInv == TypeOK /\ LocksHeld /\ CompletedOncePerDay

LEMMA CompletionInvInit == EditInv /\ CompletionInit => CompletionInv
    BY RulesAssumption, CompletionAssumption
    DEF EditInv, CompletionInit, CompletionInv, TypeOK, LocksHeld, CompletedOncePerDay,
        NoAttempt, HasInserted

\* Lock tests and lookups of the next state, when only one request moved on.
LEMMA AttemptStep ==
    ASSUME CompletionInv, UNCHANGED <<editVars, completions, points, today>>,
           NEW c \in Completers, NEW x \in Attempting,
           attempt' = [attempt EXCEPT ![c] = x],
           x.at # "begun" => x.user \in Users,
           x.at \in {"inserted", "awarded"} =>
               /\ ~Completed(x)
               /\ \A d \in Completers \ {c} : ~(HasInserted(d) /\ SameKey(attempt[d], x)),
           x.at = "awarded" =>
               /\ x.total = points[x.user] + x.value
               /\ \A d \in Completers \ {c} :
                    ~(attempt[d].at = "awarded" /\ attempt[d].user = x.user)
    PROVE  CompletionInv'
<1> USE DEF CompletionInv
<1>1. TypeOK'
    BY DEF TypeOK, EditTypeOK, editVars
<1>2. CompletedOncePerDay'
    BY DEF CompletedOncePerDay
<1>3. \A d \in Completers : attempt'[d] = IF d = c THEN x ELSE attempt[d]
    BY DEF TypeOK
<1>4. LocksHeld'
    <2> SUFFICES ASSUME NEW d \in Completers
                 PROVE  /\ attempt'[d].at # "idle" /\ attempt'[d].at # "begun" =>
                             attempt'[d].user \in Users
                        /\ HasInserted(d)' => KeyFree(d)' /\ ~Completed(attempt[d])'
                        /\ attempt'[d].at = "awarded" =>
                             /\ UserRowFree(d)'
                             /\ attempt'[d].total = points[attempt'[d].user] + attempt'[d].value
        BY DEF LocksHeld
    <2>1. CASE d = c
        BY <1>3, <2>1 DEF HasInserted, KeyFree, UserRowFree, Completed, SameKey
    <2>2. CASE d # c
        <3>1. attempt'[d] = attempt[d]
            BY <1>3, <2>2
        <3>2. HasInserted(d)' => KeyFree(d)' /\ ~Completed(attempt[d])'
            BY <1>3, <2>2, <3>1 DEF LocksHeld, HasInserted, KeyFree, Completed, SameKey
        <3>3. attempt'[d].at = "awarded" => UserRowFree(d)'
            BY <1>3, <2>2, <3>1 DEF LocksHeld, UserRowFree
        <3>4. QED
            BY <3>1, <3>2, <3>3 DEF LocksHeld
    <2>3. QED
        BY <2>1, <2>2
<1>5. QED
    BY <1>1, <1>2, <1>4

\* Ending a request without a commit only releases locks.
LEMMA AttemptEnds ==
    ASSUME CompletionInv, UNCHANGED <<editVars, completions, points, today>>,
           NEW c \in Completers, attempt' = [attempt EXCEPT ![c] = NoAttempt]
    PROVE  CompletionInv'
<1> USE DEF CompletionInv
<1>1. TypeOK'
    BY DEF TypeOK, EditTypeOK, editVars
<1>2. CompletedOncePerDay'
    BY DEF CompletedOncePerDay
<1>3. \A d \in Completers : attempt'[d] = IF d = c THEN NoAttempt ELSE attempt[d]
    BY DEF TypeOK
<1>4. LocksHeld'
    BY <1>3 DEF LocksHeld, HasInserted, KeyFree, UserRowFree, Completed, NoAttempt
<1>5. QED
    BY <1>1, <1>2, <1>4

\* The commit: what LocksHeld says of the request is what the tables need.
LEMMA CommitPays ==
    ASSUME CompletionInv, NEW c \in Completers, CommitCompletion(c), UNCHANGED editVars
    PROVE  /\ CompletionInv'
           /\ Ledger!Pay(attempt[c].task, attempt[c].user, attempt[c].day, attempt[c].value)
<1> DEFINE x == attempt[c]
           row == [task |-> x.task, user |-> x.user, day |-> x.day, award |-> x.value]
<1> USE DEF CompletionInv
<1>1. x \in Attempting /\ x.at = "awarded"
    BY DEF CommitCompletion, TypeOK, NoAttempt
<1>2. /\ x.user \in Users /\ x.total = points[x.user] + x.value
      /\ ~Completed(x) /\ KeyFree(c) /\ UserRowFree(c)
    BY <1>1 DEF LocksHeld, HasInserted
<1>3. /\ completions' = completions \cup {row}
      /\ points' = [points EXCEPT ![x.user] = x.total]
      /\ attempt' = [attempt EXCEPT ![c] = NoAttempt]
      /\ today' = today
    BY DEF CommitCompletion
<1>4. row \in Completion /\ x.total \in 0 .. MaxInt
    BY <1>1, <1>2 DEF Attempting, Completion
<1>5. TypeOK'
    BY <1>2, <1>3, <1>4 DEF TypeOK, EditTypeOK, editVars
<1>6. CompletedOncePerDay'
    <2>1. \A r \in completions : ~SameKey(r, row)
        BY <1>2 DEF Completed, SameKey
    <2>2. \A r \in completions : ~SameKey(row, r)
        BY <2>1 DEF SameKey
    <2>3. QED
        BY <1>3, <2>1, <2>2 DEF CompletedOncePerDay
<1>7. LocksHeld'
    <2>1. \A d \in Completers : attempt'[d] = IF d = c THEN NoAttempt ELSE attempt[d]
        BY <1>3 DEF TypeOK
    <2> SUFFICES ASSUME NEW d \in Completers, d # c
                 PROVE  /\ attempt'[d].at # "idle" /\ attempt'[d].at # "begun" =>
                             attempt'[d].user \in Users
                        /\ HasInserted(d)' => KeyFree(d)' /\ ~Completed(attempt[d])'
                        /\ attempt'[d].at = "awarded" =>
                             /\ UserRowFree(d)'
                             /\ attempt'[d].total = points'[attempt'[d].user] + attempt'[d].value
        BY <2>1 DEF LocksHeld, HasInserted, NoAttempt
    <2>2. attempt'[d] = attempt[d]
        BY <2>1
    <2>3. HasInserted(d)' => KeyFree(d)'
        BY <2>1, <2>2 DEF LocksHeld, HasInserted, KeyFree, NoAttempt
    <2>4. HasInserted(d)' => ~Completed(attempt[d])'
        BY <1>2, <1>3, <2>2 DEF LocksHeld, HasInserted, KeyFree, Completed, SameKey
    <2>5. attempt'[d].at = "awarded" => UserRowFree(d)'
        BY <2>1, <2>2 DEF LocksHeld, UserRowFree, NoAttempt
    <2>6. attempt[d].at = "awarded" => points'[attempt[d].user] = points[attempt[d].user]
        BY <1>2, <1>3 DEF UserRowFree, TypeOK
    <2>7. QED
        BY <2>2, <2>3, <2>4, <2>5, <2>6 DEF LocksHeld
<1>8. Ledger!Pay(x.task, x.user, x.day, x.value)
    <2>1. ~Ledger!Paid(x.task, x.user, x.day)
        BY <1>2 DEF Ledger!Paid, Completed, SameKey
    <2>2. points[x.user] + x.value =< MaxInt
        BY <1>2, <1>4
    <2>3. QED
        BY <1>2, <1>3, <2>1, <2>2 DEF Ledger!Pay, TypeOK
<1>9. QED
    BY <1>5, <1>6, <1>7, <1>8

\* Every other step of a request, and the clock, leaves the ledger alone.
LEMMA OthersKeepInv ==
    ASSUME CompletionInv, UNCHANGED editVars,
           \/ \E c \in Completers : \/ \E t \in Tasks, u \in UserIds : completeTaskForUser(c, t, u)
                                    \/ FindTask(c) \/ InsertCompletion(c)
                                    \/ AddUserPoints(c) \/ AbortCompletion(c)
           \/ NextDay
    PROVE  CompletionInv' /\ UNCHANGED <<completions, points>>
<1> USE DEF CompletionInv
<1>1. ASSUME NEW c \in Completers, NEW t \in Tasks, NEW u \in UserIds,
             completeTaskForUser(c, t, u)
      PROVE  CompletionInv'
    <2> DEFINE x == [at |-> "begun", task |-> t, user |-> u, day |-> today,
                     value |-> 0, total |-> 0]
    <2>1. x \in Attempting
        BY RulesAssumption, CompletionAssumption DEF Attempting, TypeOK
    <2>2. QED
        BY <1>1, <2>1, AttemptStep DEF completeTaskForUser
<1>2. ASSUME NEW c \in Completers, FindTask(c) PROVE CompletionInv'
    <2> DEFINE t == attempt[c].task
               x == [attempt[c] EXCEPT !.at = "found", !.value = tasks[t].value]
    <2>1. attempt[c] \in Attempting
        BY <1>2 DEF FindTask, TypeOK, NoAttempt
    <2>2. CASE attempt' = [attempt EXCEPT ![c] = NoAttempt]
        BY <1>2, <2>2, AttemptEnds DEF FindTask
    <2>3. CASE /\ tasks[t] # NoTask /\ attempt[c].user \in assigned[t]
               /\ attempt' = [attempt EXCEPT ![c].at = "found", ![c].value = tasks[t].value]
        <3>1. t \in Tasks /\ tasks[t] \in Row /\ attempt[c].user \in Users
            BY <2>1, <2>3 DEF TypeOK, EditTypeOK, Attempting
        <3>2. tasks[t].value \in 0 .. MaxInt
            BY <3>1 DEF Row
        <3>3. x \in Attempting /\ attempt' = [attempt EXCEPT ![c] = x]
            BY <2>1, <2>3, <3>2 DEF Attempting
        <3>4. x.at = "found" /\ x.user \in Users
            BY <2>1, <3>1 DEF Attempting
        <3>5. QED
            BY <1>2, <3>3, <3>4, AttemptStep DEF FindTask
    <2>4. QED
        BY <1>2, <2>2, <2>3 DEF FindTask
<1>3. ASSUME NEW c \in Completers, InsertCompletion(c) PROVE CompletionInv'
    <2> DEFINE x == [attempt[c] EXCEPT !.at = "inserted"]
    <2>1. attempt[c] \in Attempting /\ attempt[c].user \in Users
        BY <1>3 DEF InsertCompletion, TypeOK, NoAttempt, LocksHeld
    <2>2. CASE Completed(attempt[c])
        BY <1>3, <2>2, AttemptEnds DEF InsertCompletion
    <2>3. CASE ~Completed(attempt[c])
        <3>1. x \in Attempting /\ attempt' = [attempt EXCEPT ![c] = x]
            BY <1>3, <2>1, <2>3 DEF InsertCompletion, Attempting
        <3>2. x.user \in Users /\ x.at = "inserted"
            BY <2>1 DEF Attempting
        <3>3. ~Completed(x)
            BY <2>1, <2>3 DEF Completed, SameKey, Attempting
        <3>4. \A d \in Completers \ {c} : ~(HasInserted(d) /\ SameKey(attempt[d], x))
            BY <1>3, <2>1 DEF InsertCompletion, KeyFree, SameKey, Attempting
        <3>5. QED
            BY <1>3, <3>1, <3>2, <3>3, <3>4, AttemptStep DEF InsertCompletion
    <2>4. QED
        BY <2>2, <2>3
<1>4. ASSUME NEW c \in Completers, AddUserPoints(c) PROVE CompletionInv'
    <2> DEFINE total == points[attempt[c].user] + attempt[c].value
               x == [attempt[c] EXCEPT !.at = "awarded", !.total = total]
    <2>1. /\ attempt[c] \in Attempting /\ attempt[c].user \in Users
          /\ ~Completed(attempt[c]) /\ KeyFree(c)
        BY <1>4 DEF AddUserPoints, TypeOK, NoAttempt, LocksHeld, HasInserted
    <2>2. CASE total > MaxInt
        BY <1>4, <2>2, AttemptEnds DEF AddUserPoints
    <2>3. CASE ~(total > MaxInt)
        <3>1. total \in 0 .. MaxInt
            BY <2>1, <2>3, RulesAssumption DEF TypeOK, Attempting
        <3>2. x \in Attempting /\ attempt' = [attempt EXCEPT ![c] = x]
            BY <1>4, <2>1, <2>3, <3>1 DEF AddUserPoints, Attempting
        <3>3. x.user \in Users /\ x.at = "awarded" /\ x.total = points[x.user] + x.value
            BY <2>1 DEF Attempting
        <3>4. ~Completed(x)
            BY <2>1 DEF Completed, SameKey, Attempting
        <3>5. \A d \in Completers \ {c} :
                /\ ~(HasInserted(d) /\ SameKey(attempt[d], x))
                /\ ~(attempt[d].at = "awarded" /\ attempt[d].user = x.user)
            BY <1>4, <2>1 DEF AddUserPoints, KeyFree, UserRowFree, SameKey, Attempting
        <3>6. QED
            BY <1>4, <3>2, <3>3, <3>4, <3>5, AttemptStep DEF AddUserPoints
    <2>4. QED
        BY <2>2, <2>3
<1>5. ASSUME NEW c \in Completers, AbortCompletion(c) PROVE CompletionInv'
    BY <1>5, AttemptEnds DEF AbortCompletion
<1>6. ASSUME NextDay PROVE CompletionInv'
    BY <1>6, CompletionAssumption
    DEF NextDay, TypeOK, EditTypeOK, editVars, CompletedOncePerDay, LocksHeld,
        HasInserted, KeyFree, UserRowFree, Completed
<1>7. UNCHANGED <<completions, points>>
    BY DEF completeTaskForUser, FindTask, InsertCompletion, AddUserPoints, AbortCompletion, NextDay
<1>8. QED
    BY <1>1, <1>2, <1>3, <1>4, <1>5, <1>6, <1>7

\* An edit changes what later requests find, and nothing a request has found.
LEMMA EditsKeepInv ==
    ASSUME CompletionInv, EditTypeOK', UNCHANGED completionVars
    PROVE  CompletionInv'
    BY DEF CompletionInv, TypeOK, completionVars, CompletedOncePerDay, LocksHeld,
           HasInserted, KeyFree, UserRowFree, Completed

----------------------------------------------------------------------------
(* The theorems *)

IInv == EditInv /\ CompletionInv

\* A step of the handlers keeps the invariant, and pays one completion or
\* leaves completions and balances alone.
PaysOrStutters ==
    \/ \E c \in Completers :
         /\ Ledger!Pay(attempt[c].task, attempt[c].user, attempt[c].day, attempt[c].value)
         /\ attempt[c] \in Attempting /\ attempt[c].user \in Users
    \/ UNCHANGED <<completions, points>>

LEMMA StepPaysOrStutters == IInv /\ [Next]_vars => IInv' /\ PaysOrStutters
<1> SUFFICES ASSUME IInv, [Next]_vars PROVE IInv' /\ PaysOrStutters
    OBVIOUS
<1> USE DEF PaysOrStutters
<1>1. EditInv /\ CompletionInv
    BY DEF IInv
<1>2. CASE EditNext /\ UNCHANGED completionVars
    <2>1. EditInv' /\ EditTypeOK'
        BY <1>1, <1>2, EditStepKeepsInv DEF EditInv
    <2>2. QED
        BY <1>1, <1>2, <2>1, EditsKeepInv DEF IInv, completionVars
<1>3. CASE CompletionNext /\ UNCHANGED editVars
    <2>1. EditInv'
        BY <1>1, <1>3, EditStepKeepsInv
    <2>2. ASSUME NEW c \in Completers, CommitCompletion(c)
          PROVE  /\ CompletionInv'
                 /\ Ledger!Pay(attempt[c].task, attempt[c].user, attempt[c].day, attempt[c].value)
                 /\ attempt[c] \in Attempting /\ attempt[c].user \in Users
        <3>1. attempt[c] \in Attempting /\ attempt[c].user \in Users
            BY <1>1, <2>2
            DEF CompletionInv, CommitCompletion, TypeOK, LocksHeld, NoAttempt
        <3>2. QED
            BY <1>1, <1>3, <2>2, <3>1, CommitPays
    <2>3. CASE \/ \E c \in Completers :
                    \/ \E t \in Tasks, u \in UserIds : completeTaskForUser(c, t, u)
                    \/ FindTask(c) \/ InsertCompletion(c)
                    \/ AddUserPoints(c) \/ AbortCompletion(c)
               \/ NextDay
        BY <1>1, <1>3, <2>1, <2>3, OthersKeepInv DEF IInv
    <2>4. QED
        BY <1>3, <2>1, <2>2, <2>3, RulesAssumption
        DEF IInv, CompletionNext, CompletionStep, completeTask, completeDashboardTask
<1>4. CASE UNCHANGED vars
    <2>1. UNCHANGED editVars /\ UNCHANGED completionVars /\ UNCHANGED <<completions, points>>
        BY <1>4 DEF vars, completionVars
    <2>2. EditInv'
        BY <1>1, <2>1, EditStepKeepsInv
    <2>3. QED
        BY <1>1, <2>1, <2>2, EditsKeepInv DEF IInv, EditInv
<1>5. QED
    BY <1>2, <1>3, <1>4 DEF Next

LEMMA InductiveInvariant == Spec => []IInv
<1>1. Init => IInv
    BY EditInvInit, CompletionInvInit DEF Init, IInv
<1>2. IInv /\ [Next]_vars => IInv'
    BY StepPaysOrStutters
<1>3. QED
    BY <1>1, <1>2, PTL DEF Spec

\* Tables and requests hold values of their types; no balance overflows.
THEOREM TypeCorrect == Spec => []TypeOK
<1>1. IInv => TypeOK
    BY DEF IInv, CompletionInv
<1>2. QED
    BY <1>1, InductiveInvariant, PTL

\* A user is never paid twice for one task on one day, and transactions that
\* hold locks hold them alone.
THEOREM PaidOnce == Spec => [](CompletedOncePerDay /\ LocksHeld)
<1>1. IInv => CompletedOncePerDay /\ LocksHeld
    BY DEF IInv, CompletionInv
<1>2. QED
    BY <1>1, InductiveInvariant, PTL

LEMMA GrowStep ==
    ASSUME IInv, [Next]_vars
    PROVE  completions \subseteq completions' /\ \A u \in Users : points'[u] >= points[u]
<1>1. points \in [Users -> 0 .. MaxInt]
    BY DEF IInv, CompletionInv, TypeOK
<1>2. ASSUME NEW c \in Completers,
             Ledger!Pay(attempt[c].task, attempt[c].user, attempt[c].day, attempt[c].value),
             attempt[c] \in Attempting, attempt[c].user \in Users
      PROVE  /\ completions \subseteq completions'
             /\ \A u \in Users : points'[u] >= points[u]
    BY <1>1, <1>2, RulesAssumption DEF Ledger!Pay, Attempting
<1>3. CASE UNCHANGED <<completions, points>>
    BY <1>1, <1>3, RulesAssumption
<1>4. QED
    BY <1>2, <1>3, StepPaysOrStutters DEF PaysOrStutters

\* No step of any handler takes back a completion or lowers a balance.
THEOREM Monotonic == Spec => NothingTakenBack
<1>1. IInv /\ [Next]_vars => [/\ completions \subseteq completions'
                             /\ \A u \in Users : points'[u] >= points[u]]_vars
    BY GrowStep
<1>2. QED
    BY <1>1, InductiveInvariant, PTL DEF Spec, NothingTakenBack

\* The task handlers over Postgres implement the ledger of PointsLedger.
THEOREM Refinement == Spec => ImplementsLedger
<1>1. Init => Ledger!LedgerInit
    BY DEF Init, CompletionInit, Ledger!LedgerInit
<1>2. IInv /\ [Next]_vars => [Ledger!LedgerNext]_(Ledger!ledgerVars)
    <2> SUFFICES ASSUME IInv, [Next]_vars
                 PROVE  Ledger!LedgerNext \/ UNCHANGED <<completions, points>>
        BY DEF Ledger!ledgerVars
    <2>1. ASSUME NEW c \in Completers,
                 Ledger!Pay(attempt[c].task, attempt[c].user, attempt[c].day, attempt[c].value),
                 attempt[c] \in Attempting, attempt[c].user \in Users
          PROVE  Ledger!LedgerNext
        BY <2>1 DEF Ledger!LedgerNext, Attempting
    <2>2. QED
        BY <2>1, StepPaysOrStutters DEF PaysOrStutters
<1>3. QED
    BY <1>1, <1>2, InductiveInvariant, PTL DEF Spec, ImplementsLedger, Ledger!LedgerSpec

----------------------------------------------------------------------------
(* Days *)

\* A stored task that is due on a day, whether it is still active or not.
DueOn(t, day) ==
    /\ tasks[t] # NoTask
    /\ tasks[t].kind = "daily" \/ (tasks[t].kind = "weekly" /\ IsoDow(day) \in tasks[t].days)

\* What a request has found, and what a completion says, is never in the future
\* and is about a day the task is due on.
DaysRight ==
    /\ \A c \in Completers :
         attempt[c].at # "idle" =>
            /\ attempt[c].day =< today
            /\ attempt[c].at # "begun" => DueOn(attempt[c].task, attempt[c].day)
    /\ \A r \in completions : r.day =< today /\ DueOn(r.task, r.day)

\* A deactivation leaves a task's days alone.
LEMMA DeactivateKeepsDays ==
    ASSUME TypeOK, NEW caller \in Users, NEW t \in Tasks, DeleteTask(caller, t),
           NEW s \in Tasks, NEW day \in Int, DueOn(s, day)
    PROVE  DueOn(s, day)'
<1>0. tasks \in [Tasks -> Row \cup {NoTask}] /\ tasks[s] # NoTask
    BY DEF TypeOK, EditTypeOK, DueOn
<1>1. /\ tasks[s] \in Row
      /\ tasks' = [tasks EXCEPT ![t] = [tasks[t] EXCEPT !.active = FALSE]]
    BY <1>0 DEF DeleteTask
<1>2. /\ [tasks[s] EXCEPT !.active = FALSE] \in Row
      /\ [tasks[s] EXCEPT !.active = FALSE].kind = tasks[s].kind
      /\ [tasks[s] EXCEPT !.active = FALSE].days = tasks[s].days
    BY <1>1 DEF Row
<1>3. /\ tasks'[s] \in Row /\ tasks'[s] # NoTask
      /\ tasks'[s].kind = tasks[s].kind /\ tasks'[s].days = tasks[s].days
    <2>1. CASE s = t
        BY <1>0, <1>1, <1>2, <2>1, RulesAssumption
    <2>2. CASE s # t
        BY <1>0, <1>1, <2>2
    <2>3. QED
        BY <2>1, <2>2
<1>4. QED
    BY <1>0, <1>3 DEF DueOn

LEMMA DaysStep ==
    ASSUME Editors = {}, IInv, DaysRight, [Next]_vars
    PROVE  DaysRight'
<1>0. TypeOK /\ CompletionInv /\ IInv'
    BY StepPaysOrStutters DEF IInv, CompletionInv
<1>1. CASE EditNext /\ UNCHANGED completionVars
    <2>1. PICK caller \in Users, t \in Tasks : DeleteTask(caller, t)
        BY <1>1 DEF EditNext
    <2>2. \A c \in Completers : attempt[c].at # "idle" =>
             attempt[c].task \in Tasks /\ attempt[c].day \in Int
        BY <1>0, CompletionAssumption DEF TypeOK, Attempting, NoAttempt
    <2>3. \A r \in completions : r.task \in Tasks /\ r.day \in Int
        BY <1>0, CompletionAssumption DEF TypeOK, Completion
    <2>4. \A s \in Tasks, day \in Int : DueOn(s, day) => DueOn(s, day)'
        BY <1>0, <2>1, DeactivateKeepsDays
    <2>5. QED
        BY <1>1, <2>2, <2>3, <2>4 DEF DaysRight, completionVars, DueOn
<1>2. CASE CompletionNext /\ UNCHANGED editVars
    <2>0. \A s, day : DueOn(s, day)' <=> DueOn(s, day)
        BY <1>2 DEF DueOn, editVars
    <2>1. ASSUME NEW c \in Completers, NEW t \in Tasks, NEW u \in UserIds,
                 completeTaskForUser(c, t, u)
          PROVE  DaysRight'
        BY <1>0, <2>0, <2>1 DEF DaysRight, completeTaskForUser, TypeOK
    <2>2. ASSUME NEW c \in Completers, FindTask(c) PROVE DaysRight'
        <3>1. attempt[c] \in Attempting
            BY <1>0, <2>2 DEF FindTask, TypeOK, NoAttempt
        <3>2. Due(tasks[attempt[c].task], attempt[c].day) /\ tasks[attempt[c].task] # NoTask
                 => DueOn(attempt[c].task, attempt[c].day)
            BY DEF DueOn, Due
        <3>3. QED
            BY <1>0, <2>0, <2>2, <3>1, <3>2 DEF DaysRight, FindTask, TypeOK, Attempting, NoAttempt
    <2>3. ASSUME NEW c \in Completers, InsertCompletion(c) \/ AddUserPoints(c) \/ AbortCompletion(c)
          PROVE  DaysRight'
        <3>1. attempt[c] \in Attempting
            BY <1>0, <2>3 DEF InsertCompletion, AddUserPoints, AbortCompletion, TypeOK, NoAttempt
        <3>2. \A d \in Completers :
                 attempt'[d].at # "idle" =>
                    /\ attempt[d].at # "idle" /\ attempt'[d].day = attempt[d].day
                    /\ attempt'[d].task = attempt[d].task
                    /\ attempt'[d].at # "begun" => attempt[d].at # "begun"
            BY <1>0, <2>3, <3>1
            DEF InsertCompletion, AddUserPoints, AbortCompletion, TypeOK, Attempting, NoAttempt
        <3>3. UNCHANGED <<completions, today>>
            BY <2>3 DEF InsertCompletion, AddUserPoints, AbortCompletion
        <3>4. QED
            BY <2>0, <3>2, <3>3 DEF DaysRight
    <2>4. ASSUME NEW c \in Completers, CommitCompletion(c) PROVE DaysRight'
        BY <1>0, <2>0, <2>4 DEF DaysRight, CommitCompletion, TypeOK, NoAttempt
    <2>5. CASE NextDay
        <3>1. \A c \in Completers : attempt[c].at # "idle" => attempt[c].day \in Int
            BY <1>0, CompletionAssumption DEF TypeOK, Attempting, NoAttempt
        <3>2. \A r \in completions : r.day \in Int
            BY <1>0, CompletionAssumption DEF TypeOK, Completion
        <3>3. today \in Int
            BY <1>0, CompletionAssumption DEF TypeOK
        <3>4. QED
            BY <2>0, <2>5, <3>1, <3>2, <3>3 DEF DaysRight, NextDay
    <2>6. QED
        BY <1>2, <2>1, <2>2, <2>3, <2>4, <2>5, RulesAssumption
        DEF CompletionNext, CompletionStep, completeTask, completeDashboardTask
<1>3. CASE UNCHANGED vars
    BY <1>3 DEF vars, editVars, completionVars, DaysRight, DueOn
<1>4. QED
    BY <1>1, <1>2, <1>3 DEF Next

\* As long as tasks are not edited, no completion lies on a day its task was not
\* due on, whatever midnight falls between.
THEOREM DueDaysOnly == Spec => []CompletedOnDueDay
<1>1. CASE Editors = {}
    <2>1. Init => DaysRight
        BY DEF Init, CompletionInit, DaysRight, NoAttempt
    <2>2. IInv /\ DaysRight /\ [Next]_vars => DaysRight'
        BY <1>1, DaysStep
    <2>3. IInv /\ DaysRight => CompletedOnDueDay
        <3> SUFFICES ASSUME IInv, DaysRight, NEW r \in completions
                     PROVE  r.day =< today /\ Due([tasks[r.task] EXCEPT !.active = TRUE], r.day)
            BY DEF CompletedOnDueDay
        <3> DEFINE row == tasks[r.task]
        <3>1. r.day =< today /\ DueOn(r.task, r.day)
            BY DEF DaysRight
        <3>2. row \in Row
            BY <3>1 DEF IInv, CompletionInv, TypeOK, EditTypeOK, Completion, DueOn
        <3>3. /\ [row EXCEPT !.active = TRUE].active
              /\ [row EXCEPT !.active = TRUE].kind = row.kind
              /\ [row EXCEPT !.active = TRUE].days = row.days
            BY <3>2 DEF Row
        <3>4. QED
            BY <3>1, <3>3 DEF DueOn, Due
    <2>4. QED
        BY <2>1, <2>2, <2>3, InductiveInvariant, PTL DEF Spec
<1>2. CASE Editors # {}
    <2>1. CompletedOnDueDay
        BY <1>2 DEF CompletedOnDueDay
    <2>2. QED
        BY <2>1, PTL
<1>3. QED
    BY <1>1, <1>2

----------------------------------------------------------------------------
(* Sums *)

\* A set of numbers has a least one.
LEMMA LeastNat ==
    ASSUME NEW T \in SUBSET Nat, T # {}
    PROVE  \E n \in T : \A m \in T : n =< m
<1>1. IsWellFoundedOn(OpToRel(<, Nat), Nat)
    BY NatLessThanWellFounded
<1>2. PICK n \in T : \A m \in T : <<m, n>> \notin OpToRel(<, Nat)
    BY <1>1, WFMin
<1>3. \A m \in T : ~(m < n)
    BY <1>2 DEF OpToRel
<1>4. QED
    BY <1>3

\* Induction, with the set of those numbers for which the claim holds in place of
\* the claim.
LEMMA Induction ==
    ASSUME NEW G \in SUBSET Nat, 0 \in G, \A n \in G : n + 1 \in G
    PROVE  G = Nat
<1> SUFFICES ASSUME Nat \ G # {} PROVE FALSE
    OBVIOUS
<1>1. PICK n \in Nat \ G : \A m \in Nat \ G : n =< m
    BY LeastNat
<1>2. n - 1 \in G
    BY <1>1
<1>3. QED
    BY <1>1, <1>2

\* Induction on the size of the subsets of a finite set.
LEMMA SubsetInduction ==
    ASSUME NEW S, IsFiniteSet(S), NEW G \in SUBSET SUBSET S,
           \A s \in SUBSET S : (\A x \in s : s \ {x} \in G) => s \in G
    PROVE  G = SUBSET S
<1> DEFINE H == {n \in Nat : \A s \in SUBSET S : Cardinality(s) = n => s \in G}
<1>1. \A s \in SUBSET S : /\ IsFiniteSet(s) /\ Cardinality(s) \in Nat
                          /\ Cardinality(s) = 0 <=> s = {}
                          /\ \A x \in s : Cardinality(s \ {x}) = Cardinality(s) - 1
    BY FS_Subset, FS_CardinalityType, FS_EmptySet, FS_RemoveElement
<1>2. 0 \in H
    BY <1>1
<1>3. ASSUME NEW n \in H PROVE n + 1 \in H
    <2>1. ASSUME NEW s \in SUBSET S, Cardinality(s) = n + 1 PROVE s \in G
        BY <1>1, <1>3, <2>1
    <2>2. QED
        BY <2>1
<1>4. H = Nat
    <2> HIDE DEF H
    <2>1. H \in SUBSET Nat
        BY DEF H
    <2>2. QED
        BY <1>2, <1>3, <2>1, Induction
<1>5. QED
    BY <1>1, <1>4

\* What MapThenSumSet computes, as a condition on a function of the subsets of S.
Picked(s) == CHOOSE x \in s : TRUE

Adds(S, g) ==
    g = [s \in SUBSET S |-> IF s = {} THEN 0 ELSE Picked(s).award + g[s \ {Picked(s)}]]

Total(S) == MapThenSumSet(LAMBDA r : r.award, S)

LEMMA TotalAdds ==
    ASSUME NEW S
    PROVE  Total(S) = (CHOOSE g : Adds(S, g))[S]
BY DEF Total, MapThenSumSet, MapThenFoldSet, Adds, Picked

LEMMA AddsExists ==
    ASSUME NEW S, IsFiniteSet(S)
    PROVE  \E g : Adds(S, g)
<1> DEFINE Once(g) == [s \in SUBSET S |-> IF s = {} THEN 0 ELSE Picked(s).award + g[s \ {Picked(s)}]]
           G == {n \in Nat : \E g : \A s \in SUBSET S : Cardinality(s) =< n => g[s] = Once(g)[s]}
<1>1. \A s \in SUBSET S : /\ IsFiniteSet(s) /\ Cardinality(s) \in Nat
                          /\ Cardinality(s) = 0 <=> s = {}
                          /\ \A x \in s : Cardinality(s \ {x}) = Cardinality(s) - 1
    BY FS_Subset, FS_CardinalityType, FS_EmptySet, FS_RemoveElement
<1>2. \A s : s # {} => Picked(s) \in s
    BY DEF Picked
<1>3. 0 \in G
    <2>1. PICK g : g = [s \in SUBSET S |-> 0]
        OBVIOUS
    <2>2. \A s \in SUBSET S : Cardinality(s) =< 0 => g[s] = Once(g)[s]
        BY <1>1, <2>1
    <2>3. QED
        BY <2>2
<1>4. ASSUME NEW n \in G PROVE n + 1 \in G
    <2>1. PICK g : \A s \in SUBSET S : Cardinality(s) =< n => g[s] = Once(g)[s]
        BY <1>4
    <2>2. PICK h : h = Once(g)
        OBVIOUS
    <2>3. ASSUME NEW s \in SUBSET S, Cardinality(s) =< n + 1 PROVE h[s] = Once(h)[s]
        <3>1. CASE s = {}
            BY <2>2, <3>1
        <3>2. CASE s # {}
            <4>1. PICK t \in SUBSET S : t = s \ {Picked(s)} /\ Cardinality(t) =< n
                <5>1. Picked(s) \in s /\ s \ {Picked(s)} \in SUBSET S /\ n \in Nat
                    BY <1>2, <1>4, <3>2
                <5>2. Cardinality(s \ {Picked(s)}) =< n
                    BY <1>1, <2>3, <5>1
                <5>3. QED
                    BY <5>1, <5>2
            <4>2. g[t] = h[t]
                BY <2>1, <2>2, <4>1
            <4>3. QED
                BY <2>2, <3>2, <4>1, <4>2
        <3>3. QED
            BY <3>1, <3>2
    <2>4. \E f : \A s \in SUBSET S : Cardinality(s) =< n + 1 => f[s] = Once(f)[s]
        <3> HIDE DEF Once
        <3>1. QED
            BY <2>3
    <2>5. QED
        <3>1. n + 1 \in Nat
            BY <1>4
        <3> HIDE DEF Once
        <3>2. QED
            BY <2>4, <3>1
<1>5. Cardinality(S) \in G
    <2>1. G = Nat
        <3> HIDE DEF G
        <3>1. G \in SUBSET Nat
            BY DEF G
        <3>2. QED
            BY <1>3, <1>4, <3>1, Induction
    <2>2. QED
        BY <1>1, <2>1
<1>6. PICK g : \A s \in SUBSET S : Cardinality(s) =< Cardinality(S) => g[s] = Once(g)[s]
    BY <1>5
<1>7. \A s \in SUBSET S : g[s] = Once(g)[s]
    BY <1>6, FS_Subset
<1>8. Adds(S, [s \in SUBSET S |-> g[s]])
    <2>1. PICK h : h = [s \in SUBSET S |-> g[s]]
        OBVIOUS
    <2>2. \A s \in SUBSET S : h[s] = Once(h)[s]
        BY <1>2, <1>7, <2>1
    <2>3. h = Once(h)
        BY <2>1, <2>2
    <2>4. QED
        BY <2>1, <2>3 DEF Adds
<1>9. QED
    BY <1>8

Awards(S) == \A r \in S : r.award \in Int

\* The order in which elements are picked does not matter.
LEMMA AddsAny ==
    ASSUME NEW S, IsFiniteSet(S), Awards(S), NEW g, Adds(S, g)
    PROVE  \A s \in SUBSET S : /\ g[s] \in Int
                               /\ \A x \in s : g[s] = x.award + g[s \ {x}]
<1>1. /\ g[{}] = 0
      /\ \A s \in SUBSET S : s # {} =>
           /\ Picked(s) \in s /\ Picked(s).award \in Int
           /\ g[s] = Picked(s).award + g[s \ {Picked(s)}]
    <2>1. \A s : s # {} => Picked(s) \in s
        BY DEF Picked
    <2>2. QED
        BY <2>1 DEF Adds, Awards
<1>2. \A s \in SUBSET S : g[s] \in Int
    <2> DEFINE G == {s \in SUBSET S : g[s] \in Int}
    <2>1. ASSUME NEW s \in SUBSET S, \A x \in s : s \ {x} \in G PROVE s \in G
        <3>1. CASE s = {}
            BY <1>1, <3>1
        <3>2. CASE s # {}
            <4>1. PICK p \in s : p.award \in Int /\ g[s] = p.award + g[s \ {p}]
                BY <1>1, <3>2
            <4>2. g[s \ {p}] \in Int
                BY <2>1
            <4>3. g[s] \in Int
                BY <4>1, <4>2
            <4>4. QED
                BY <4>3
        <3>3. QED
            BY <3>1, <3>2
    <2>2. G = SUBSET S
        <3> HIDE DEF G
        <3>1. G \in SUBSET SUBSET S
            BY DEF G
        <3>2. QED
            BY <2>1, <3>1, SubsetInduction
    <2>3. QED
        BY <2>2
<1>3. \A s \in SUBSET S : \A x \in s : g[s] = x.award + g[s \ {x}]
    <2> DEFINE G == {s \in SUBSET S : \A x \in s : g[s] = x.award + g[s \ {x}]}
    <2>1. ASSUME NEW s \in SUBSET S, \A x \in s : s \ {x} \in G, NEW x \in s
          PROVE  g[s] = x.award + g[s \ {x}]
        <3>1. PICK p \in s : p = Picked(s) /\ p.award \in Int /\ g[s] = p.award + g[s \ {p}]
            BY <1>1
        <3>2. CASE x = p
            BY <3>1, <3>2
        <3>3. CASE x # p
            <4>1. PICK t \in SUBSET S : t = (s \ {p}) \ {x} /\ t = (s \ {x}) \ {p}
                OBVIOUS
            <4>2. g[s \ {p}] = x.award + g[t]
                BY <2>1, <3>3, <4>1
            <4>3. g[s \ {x}] = p.award + g[t]
                BY <2>1, <3>3, <4>1
            <4>4. g[t] \in Int /\ x.award \in Int
                BY <1>2 DEF Awards
            <4>5. QED
                BY <3>1, <4>2, <4>3, <4>4
        <3>4. QED
            BY <3>2, <3>3
    <2>2. G = SUBSET S
        <3>1. \A s \in SUBSET S : (\A x \in s : s \ {x} \in G) => s \in G
            BY <2>1
        <3> HIDE DEF G
        <3>2. G \in SUBSET SUBSET S
            BY DEF G
        <3>3. QED
            BY <3>1, <3>2, SubsetInduction
    <2>3. QED
        BY <2>2
<1>4. QED
    BY <1>2, <1>3

\* One more element adds its award to the total.
LEMMA TotalWith ==
    ASSUME NEW S, IsFiniteSet(S), NEW x, x \notin S, Awards(S \cup {x})
    PROVE  Total(S \cup {x}) = x.award + Total(S)
<1> DEFINE T == S \cup {x}
<1>1. PICK g : Adds(S, g) /\ Total(S) = g[S]
    BY TotalAdds, AddsExists
<1>2. PICK h : Adds(T, h) /\ Total(T) = h[T]
    <2>1. IsFiniteSet(T)
        BY FS_AddElement
    <2>2. QED
        BY <2>1, TotalAdds, AddsExists
<1>3. \A s \in SUBSET S : h[s] = g[s]
    <2> DEFINE G == {s \in SUBSET S : h[s] = g[s]}
    <2>1. \A s : s # {} => Picked(s) \in s
        BY DEF Picked
    <2>2. ASSUME NEW s \in SUBSET S, \A y \in s : s \ {y} \in G PROVE s \in G
        <3>1. CASE s = {}
            BY <1>1, <1>2, <3>1 DEF Adds
        <3>2. CASE s # {}
            <4>1. PICK p \in s : p = Picked(s)
                BY <2>1, <3>2
            <4>2. h[s \ {p}] = g[s \ {p}]
                BY <2>2
            <4>3. g[s] = p.award + g[s \ {p}] /\ h[s] = p.award + h[s \ {p}]
                BY <1>1, <1>2, <3>2, <4>1 DEF Adds
            <4>4. QED
                BY <4>2, <4>3
        <3>3. QED
            BY <3>1, <3>2
    <2>3. G = SUBSET S
        <3> HIDE DEF G
        <3>1. G \in SUBSET SUBSET S
            BY DEF G
        <3>2. QED
            BY <2>2, <3>1, SubsetInduction
    <2>4. QED
        BY <2>3
<1>4. h[T] = x.award + h[T \ {x}]
    <2>1. IsFiniteSet(T)
        BY FS_AddElement
    <2>2. QED
        BY <1>2, <2>1, AddsAny
<1>5. T \ {x} = S
    OBVIOUS
<1>6. QED
    BY <1>1, <1>2, <1>3, <1>4, <1>5

LEMMA TotalEmpty == Total({}) = 0
<1>1. PICK g : Adds({}, g) /\ Total({}) = g[{}]
    BY TotalAdds, AddsExists, FS_EmptySet
<1>2. QED
    BY <1>1 DEF Adds

RowsOf(u) == {r \in completions : r.user = u}

SumsRight ==
    /\ IsFiniteSet(completions)
    /\ \A u \in Users : points[u] = Total(RowsOf(u))

LEMMA SumsStep == IInv /\ SumsRight /\ [Next]_vars => SumsRight'
<1> SUFFICES ASSUME IInv, SumsRight, [Next]_vars PROVE SumsRight'
    OBVIOUS
<1>1. PaysOrStutters
    BY StepPaysOrStutters
<1>2. CASE UNCHANGED <<completions, points>>
    BY <1>2 DEF SumsRight, RowsOf
<1>3. ASSUME NEW c \in Completers, attempt[c] \in Attempting, attempt[c].user \in Users,
             Ledger!Pay(attempt[c].task, attempt[c].user, attempt[c].day, attempt[c].value)
      PROVE  SumsRight'
    <2>1. PICK v \in Users : v = attempt[c].user
        BY <1>3
    <2>2. PICK row : row = [task |-> attempt[c].task, user |-> attempt[c].user,
                            day |-> attempt[c].day, award |-> attempt[c].value]
        OBVIOUS
    <2>3. /\ row.user = v /\ row.award \in 0 .. MaxInt /\ row \notin completions
          /\ completions' = completions \cup {row}
          /\ points' = [points EXCEPT ![v] = @ + row.award]
        BY <1>3, <2>1, <2>2 DEF Attempting, Ledger!Pay, Ledger!Paid
    <2>4. /\ points \in [Users -> 0 .. MaxInt] /\ completions \subseteq Completion /\ MaxInt \in Nat
        BY RulesAssumption DEF IInv, CompletionInv, TypeOK
    <2>5. IsFiniteSet(completions')
        BY <2>3, FS_AddElement DEF SumsRight
    <2>6. ASSUME NEW u \in Users PROVE points'[u] = Total(RowsOf(u))'
        <3>1. CASE u # v
            <4>1. RowsOf(u)' = RowsOf(u)
                BY <2>3, <3>1 DEF RowsOf
            <4>2. Total(RowsOf(u))' = Total(RowsOf(u))
                BY <4>1
            <4>3. QED
                BY <2>3, <2>4, <3>1, <4>2 DEF SumsRight
        <3>2. CASE u = v
            <4>1. PICK S : S = RowsOf(u)
                OBVIOUS
            <4>2. RowsOf(u)' = S \cup {row} /\ row \notin S
                BY <2>3, <3>2, <4>1 DEF RowsOf
            <4>3. IsFiniteSet(S)
                BY <4>1, FS_Subset DEF SumsRight, RowsOf
            <4>4. Awards(S \cup {row})
                BY <2>3, <2>4, <4>1 DEF Awards, RowsOf, Completion
            <4>5. Total(S \cup {row}) = row.award + Total(S)
                BY <4>2, <4>3, <4>4, TotalWith
            <4>6. Total(RowsOf(u))' = Total(S \cup {row})
                BY <4>2
            <4>7. points[u] = Total(S)
                BY <4>1 DEF SumsRight
            <4>8. QED
                BY <2>3, <2>4, <3>2, <4>5, <4>6, <4>7
        <3>3. QED
            BY <3>1, <3>2
    <2>7. QED
        BY <2>5, <2>6 DEF SumsRight
<1>4. QED
    BY <1>1, <1>2, <1>3 DEF PaysOrStutters

\* Every balance is what the completions of its user paid, however many
\* transactions of however many requests overlap, fail and are repeated.
THEOREM BalancesRight == Spec => []PointsMatchCompletions
<1>1. Init => SumsRight
    <2> SUFFICES ASSUME Init PROVE SumsRight
        OBVIOUS
    <2>1. completions = {} /\ \A u \in Users : points[u] = 0
        BY DEF Init, CompletionInit
    <2>2. \A u : RowsOf(u) = {}
        BY <2>1 DEF RowsOf
    <2>3. QED
        BY <2>1, <2>2, TotalEmpty, FS_EmptySet DEF SumsRight
<1>2. SumsRight => PointsMatchCompletions
    BY DEF SumsRight, PointsMatchCompletions, Total, RowsOf
<1>3. QED
    BY <1>1, <1>2, SumsStep, InductiveInvariant, PTL DEF Spec

----------------------------------------------------------------------------
(* The administrator's list *)

EntryType == [task : Tasks, row : Row]

LoadCalls == [kind : {"load"}, at : {"sent", "answered", "failed"}, rows : Seq(EntryType)]
CreateCalls ==
    [kind : {"create"}, at : {"sent", "failed"}, input : RawInputs]
    \cup [kind : {"create"}, at : {"working", "answered", "failed"}, editor : Editors,
          entry : EntryType]
DeleteCalls == [kind : {"delete"}, at : {"sent", "answered", "failed"}, task : Tasks]

ListTypeOK ==
    /\ list \in Seq(EntryType)
    /\ calls \in [Calls -> LoadCalls \cup CreateCalls \cup DeleteCalls \cup {NoCall}]
    /\ company \in Companies

StoredTasks == {t \in Tasks : tasks[t] # NoTask}

\* The row is stored as shown, but for a deactivation.
ShownRight(entry) ==
    /\ tasks[entry.task] # NoTask
    /\ entry.row \in {tasks[entry.task], [tasks[entry.task] EXCEPT !.active = TRUE]}

Working(k) == k.kind = "create" /\ k.at = "working"

\* What an answer under way will do to the list is right by the tables.
CallFits(k) ==
    /\ k.kind = "load" => \A entry \in ToSet(k.rows) : ShownRight(entry)
    /\ Working(k) => /\ edit[k.editor].at # "idle" /\ edit[k.editor].op = "create"
                     /\ k.entry = [task |-> edit[k.editor].task,
                                   row |-> RowOf(edit[k.editor].input)]
    /\ k.kind = "create" /\ k.at = "answered" => ShownRight(k.entry)
    /\ k.kind = "delete" => /\ tasks[k.task] # NoTask
                            /\ k.at = "answered" => ~tasks[k.task].active

OnlyCreates == \A e \in Editors : edit[e].at # "idle" => edit[e].op = "create"

OneCreate == \A c, d \in Calls : calls[c].kind = "create" /\ calls[d].kind = "create" => c = d

ListHonest ==
    /\ IsFiniteSet(StoredTasks)
    /\ OnlyCreates /\ OneCreate
    /\ \A entry \in ToSet(list) : ShownRight(entry)
    /\ \A c \in Calls : CallFits(calls[c])

\* Rows are all that is stored, each once.
AllOf(rows) == ToSet(rows) = Listed /\ Len(rows) = Cardinality(Listed)

\* A page that is left alone: what its only call leaves is the whole list.
ListWhole ==
    /\ \A c, d \in Calls : calls[c] # NoCall /\ calls[d] # NoCall => c = d
    /\ \A e \in Editors : edit[e].at # "idle" => e \in Employed
    /\ Resting => AllOf(list)
    /\ \A c \in Calls :
         LET k == calls[c] IN
         /\ k # NoCall /\ k.at = "answered" => AllOf(After(k))
         /\ k # NoCall /\ k.at # "answered" /\ k.kind # "load" => AllOf(list)
         /\ k.kind = "load" => k.at # "failed"

ListInv ==
    /\ ListTypeOK
    /\ company = "edits" => list = <<>> /\ \A c \in Calls : calls[c] = NoCall
    /\ company # "edits" => ListHonest
    /\ company = "waits" => ListWhole

\* A finite set put into a sequence.
LEMMA SetInSequence ==
    ASSUME NEW S, IsFiniteSet(S)
    PROVE  /\ SetToSeq(S) \in Seq(S)
           /\ ToSet(SetToSeq(S)) = S
           /\ Len(SetToSeq(S)) = Cardinality(S)
<1> DEFINE n == Cardinality(S)
           f == SetToSeq(S)
<1>1. n \in Nat /\ ExistsBijection(1 .. n, S)
    BY FS_CardinalityType
<1>2. \E g \in [1 .. n -> S] : IsInjective(g)
    BY <1>1 DEF ExistsBijection, Bijection, Injection
<1>3. f \in [1 .. n -> S] /\ IsInjective(f)
    BY <1>2 DEF SetToSeq
<1>4. f \in Surjection(1 .. n, S)
    <2>1. f \in Injection(1 .. n, S)
        BY <1>3 DEF Injection
    <2>2. Cardinality(1 .. n) = n
        BY <1>1, FS_Interval
    <2>3. QED
        BY <2>1, <2>2, FS_Injection
<1>5. ToSet(f) = S
    BY <1>3, <1>4 DEF ToSet, Surjection
<1>6. QED
    BY <1>1, <1>3, <1>5

\* A list of the stored rows has as many entries as there are stored tasks.
LEMMA RowsCount ==
    ASSUME NEW f, f \in [Tasks -> Row \cup {NoTask}],
           NEW S, S = {t \in Tasks : f[t] # NoTask}, IsFiniteSet(S),
           NEW L, L = {[task |-> t, row |-> f[t]] : t \in S}
    PROVE  IsFiniteSet(L) /\ Cardinality(L) = Cardinality(S) /\ L \subseteq EntryType
<1> DEFINE g == [t \in S |-> [task |-> t, row |-> f[t]]]
<1>1. g \in Bijection(S, L)
    <2>1. g \in [S -> L]
        OBVIOUS
    <2>2. g \in Injection(S, L)
        BY <2>1 DEF Injection, IsInjective
    <2>3. g \in Surjection(S, L)
        BY <2>1 DEF Surjection
    <2>4. QED
        BY <2>2, <2>3 DEF Bijection
<1>2. ExistsBijection(S, L)
    BY <1>1 DEF ExistsBijection
<1>3. L \subseteq EntryType
    BY DEF EntryType
<1>4. QED
    BY <1>2, <1>3, FS_Bijection

LEMMA ListedCount ==
    ASSUME IsFiniteSet(StoredTasks), tasks \in [Tasks -> Row \cup {NoTask}]
    PROVE  /\ IsFiniteSet(Listed) /\ Cardinality(Listed) = Cardinality(StoredTasks)
           /\ Listed \subseteq EntryType
<1>1. Listed = {[task |-> t, row |-> tasks[t]] : t \in StoredTasks}
    BY DEF Listed, StoredTasks
<1>2. QED
    BY <1>1, RowsCount DEF StoredTasks

LEMMA ListedCountNext ==
    ASSUME IsFiniteSet(StoredTasks'), tasks' \in [Tasks -> Row \cup {NoTask}]
    PROVE  IsFiniteSet(Listed') /\ Cardinality(Listed') = Cardinality(StoredTasks')
<1>1. Listed' = {[task |-> t, row |-> tasks'[t]] : t \in StoredTasks'}
    BY DEF Listed, StoredTasks
<1>2. QED
    BY <1>1, RowsCount DEF StoredTasks

\* What one statement, or the end, of a transaction that creates a task does.
LEMMA WorkerStep ==
    ASSUME EditInv, NEW e \in Editors, edit[e].at # "idle", edit[e].op = "create",
           EditStep(e) \/ AbortEdit(e)
    PROVE  /\ edit[e] \in Editing
           /\ \/ tasks' = tasks /\ edit' = [edit EXCEPT ![e] = NoEdit]
              \/ /\ tasks' = tasks
                 /\ \E x \in Editing : /\ edit' = [edit EXCEPT ![e] = x]
                                       /\ x.op = "create" /\ x.task = edit[e].task
                                       /\ x.input = edit[e].input
              \/ /\ tasks[edit[e].task] = NoTask
                 /\ tasks' = [tasks EXCEPT ![edit[e].task] = RowOf(edit[e].input)]
                 /\ RowOf(edit[e].input) \in Row
                 /\ edit' = [edit EXCEPT ![e] = NoEdit]
<1> DEFINE y == edit[e]
<1>1. y \in Editing /\ Fits(y)
    BY DEF EditInv, EditTypeOK, TransactionsFit, NoEdit
<1>2. RowOf(y.input) \in Row
    BY <1>1, RowOfTyped DEF Editing
<1>3. CASE CreateTask(e)
    <2>1. /\ edit' = [edit EXCEPT ![e] = [y EXCEPT !.at = "assigning"]]
          /\ [y EXCEPT !.at = "assigning"] \in Editing
          /\ tasks' = tasks
        BY <1>1, <1>3 DEF CreateTask, Editing
    <2>2. QED
        BY <1>1, <2>1 DEF Editing
<1>4. CASE UpdateTask(e)
    BY <1>4 DEF UpdateTask
<1>5. CASE DeleteTaskAssignments(e)
    BY <1>1, <1>5 DEF DeleteTaskAssignments, Fits
<1>6. ASSUME NEW u \in UserIds, AssignTask(e, u)
      PROVE  /\ tasks' = tasks
             /\ \/ edit' = [edit EXCEPT ![e] = NoEdit]
                \/ \E x \in Editing : /\ edit' = [edit EXCEPT ![e] = x]
                                      /\ x.op = "create" /\ x.task = y.task
                                      /\ x.input = y.input
    <2> DEFINE x == [y EXCEPT !.todo = @ \ {u}, !.added = @ \cup {u}]
    <2>1. CASE u \notin Users
        BY <1>6, <2>1 DEF AssignTask
    <2>2. CASE u \in Users
        <3>1. edit' = [edit EXCEPT ![e] = x] /\ tasks' = tasks
            BY <1>6, <2>2 DEF AssignTask
        <3>2. x \in Editing /\ x.op = "create" /\ x.task = y.task /\ x.input = y.input
            BY <1>1, <2>2 DEF Editing
        <3>3. QED
            BY <3>1, <3>2
    <2>3. QED
        BY <2>1, <2>2
<1>7. CASE CommitEdit(e)
    BY <1>1, <1>2, <1>7 DEF CommitEdit, Fits
<1>8. CASE AbortEdit(e)
    BY <1>1, <1>8 DEF AbortEdit
<1>9. QED
    BY <1>1, <1>3, <1>4, <1>5, <1>6, <1>7, <1>8 DEF EditStep

\* Every step around the list is one of TaskEditing.
LEMMA ListStepEdits ==
    ASSUME ListTypeOK, [ListNext]_<<editVars, listVars>>
    PROVE  [EditNext]_editVars
<1>1. ASSUME OtherRequests PROVE EditNext
    BY <1>1 DEF OtherRequests, EditNext
<1>2. ASSUME NEW c \in Calls, NEW e \in Editors, NEW caller \in Users,
             createTask(c, e, caller)
      PROVE  EditNext
    <2>1. calls[c].input \in RawInputs
        BY <1>2 DEF createTask, ListTypeOK, LoadCalls, CreateCalls, DeleteCalls, NoCall
    <2>2. QED
        BY <1>2, <2>1 DEF createTask, EditNext
<1>3. ASSUME NEW c \in Calls, workCreate(c) PROVE EditNext
    <2>1. calls[c].editor \in Editors
        BY <1>3 DEF workCreate, ListTypeOK, LoadCalls, CreateCalls, DeleteCalls, NoCall
    <2>2. QED
        BY <1>3, <2>1 DEF workCreate, EditNext
<1>4. ASSUME NEW c \in Calls, NEW caller \in Users, serveDelete(c, caller) PROVE EditNext
    <2>1. calls[c].task \in Tasks
        BY <1>4 DEF serveDelete, ListTypeOK, LoadCalls, CreateCalls, DeleteCalls, NoCall
    <2>2. QED
        BY <1>4, <2>1 DEF serveDelete, EditNext
<1>5. QED
    BY <1>1, <1>2, <1>3, <1>4
    DEF ListNext, loadAllTasks, listTasks, handleCreateTask, deleteTask, Refuse, Receive

\* A row that others leave or deactivate is still shown right.
LEMMA StillShown ==
    ASSUME NEW entry, entry \in EntryType, ShownRight(entry),
           tasks[entry.task] \in Row,
           tasks'[entry.task] \in {tasks[entry.task],
                                   [tasks[entry.task] EXCEPT !.active = FALSE]}
    PROVE  ShownRight(entry)'
<1> DEFINE row == tasks[entry.task]
<1>1. /\ [row EXCEPT !.active = FALSE] # NoTask
      /\ row.active \in BOOLEAN
      /\ \/ tasks'[entry.task] = row
         \/ tasks'[entry.task] = [row EXCEPT !.active = FALSE]
    BY RulesAssumption DEF Row
<1>2. CASE tasks'[entry.task] = row
    BY <1>2 DEF ShownRight
<1>3. CASE tasks'[entry.task] = [row EXCEPT !.active = FALSE]
    <2>1. CASE entry.row = [row EXCEPT !.active = TRUE]
        <3>1. entry.row = [[row EXCEPT !.active = FALSE] EXCEPT !.active = TRUE]
            BY <2>1 DEF Row
        <3>2. QED
            BY <1>1, <1>3, <3>1 DEF ShownRight
    <2>2. CASE entry.row = row
        <3>1. \/ row = [row EXCEPT !.active = FALSE]
              \/ row = [[row EXCEPT !.active = FALSE] EXCEPT !.active = TRUE]
            BY <1>1 DEF Row
        <3>2. QED
            BY <1>1, <1>3, <2>2, <3>1 DEF ShownRight
    <2>3. QED
        BY <2>1, <2>2 DEF ShownRight
<1>4. QED
    BY <1>1, <1>2, <1>3

\* A step that keeps every stored row, or deactivates it, and whose list and
\* new answers are shown right, keeps the list honest.
LEMMA HonestStep ==
    ASSUME EditInv, EditInv', ListTypeOK, ListTypeOK', ListHonest,
           IsFiniteSet(StoredTasks)', OnlyCreates', OneCreate',
           \A t \in Tasks : tasks[t] # NoTask =>
               tasks'[t] \in {tasks[t], [tasks[t] EXCEPT !.active = FALSE]},
           \A entry \in ToSet(list') : entry \in ToSet(list) \/ ShownRight(entry)',
           \A d \in Calls :
               \/ /\ calls'[d] = calls[d]
                  /\ Working(calls[d]) => edit'[calls[d].editor] = edit[calls[d].editor]
               \/ CallFits(calls[d])'
    PROVE  ListHonest'
<1>1. ASSUME NEW entry \in EntryType, ShownRight(entry)
      PROVE  ShownRight(entry)'
    <2>1. entry.task \in Tasks /\ tasks[entry.task] # NoTask /\ tasks[entry.task] \in Row
        BY <1>1 DEF EntryType, ShownRight, EditInv, EditTypeOK
    <2>2. QED
        BY <1>1, <2>1, StillShown
<1>2. \A entry \in ToSet(list) : ShownRight(entry)'
    BY <1>1 DEF ListHonest, ListTypeOK, ToSet
<1>3. ASSUME NEW d \in Calls, NEW k, k = calls[d],
             Working(k) => edit'[k.editor] = edit[k.editor]
      PROVE  CallFits(k)'
    <2>0. k \in LoadCalls \cup CreateCalls \cup DeleteCalls \cup {NoCall} /\ CallFits(k)
        BY <1>3 DEF ListTypeOK, ListHonest
    <2>1. k.kind = "load" => \A entry \in ToSet(k.rows) : ShownRight(entry)'
        <3>1. k.kind = "load" => k.rows \in Seq(EntryType)
            BY <2>0 DEF LoadCalls, CreateCalls, DeleteCalls, NoCall
        <3>2. QED
            BY <1>1, <2>0, <3>1 DEF CallFits, ToSet
    <2>2. k.kind = "create" /\ k.at = "answered" => ShownRight(k.entry)'
        <3>1. k.kind = "create" /\ k.at = "answered" => k.entry \in EntryType
            BY <2>0 DEF LoadCalls, CreateCalls, DeleteCalls, NoCall
        <3>2. QED
            BY <1>1, <2>0, <3>1 DEF CallFits
    <2>3. k.kind = "delete" => /\ tasks'[k.task] # NoTask
                               /\ k.at = "answered" => ~tasks'[k.task].active
        <3> SUFFICES ASSUME k.kind = "delete" PROVE tasks'[k.task] # NoTask
                               /\ (k.at = "answered" => ~tasks'[k.task].active)
            OBVIOUS
        <3>1. k.task \in Tasks
            BY <2>0 DEF LoadCalls, CreateCalls, DeleteCalls, NoCall
        <3>2. /\ tasks[k.task] \in Row /\ (k.at = "answered" => ~tasks[k.task].active)
              /\ tasks'[k.task] \in {tasks[k.task], [tasks[k.task] EXCEPT !.active = FALSE]}
            BY <2>0, <3>1 DEF CallFits, EditInv, EditTypeOK
        <3>3. /\ [tasks[k.task] EXCEPT !.active = FALSE] # NoTask
              /\ ~[tasks[k.task] EXCEPT !.active = FALSE].active /\ tasks[k.task] # NoTask
            BY <3>2, RulesAssumption DEF Row
        <3>4. QED
            BY <3>2, <3>3
    <2>4. QED
        BY <1>3, <2>0, <2>1, <2>2, <2>3 DEF CallFits, Working
<1>4. \A d \in Calls : CallFits(calls[d])'
    <2> SUFFICES ASSUME NEW d \in Calls PROVE CallFits(calls[d])'
        OBVIOUS
    <2>1. PICK k : k = calls[d]
        OBVIOUS
    <2>2. CASE /\ calls'[d] = calls[d]
               /\ Working(calls[d]) => edit'[calls[d].editor] = edit[calls[d].editor]
        <3>1. CallFits(k)' /\ k = calls'[d]
            BY <1>3, <2>1, <2>2
        <3>2. QED
            BY <3>1
    <2>3. QED
        BY <2>2
<1>5. QED
    BY <1>2, <1>4 DEF ListHonest

\* What a step of call c, which becomes k, must do to keep the invariant.
LEMMA CallStep ==
    ASSUME EditInv, EditInv', ListInv, company # "edits", company' = company,
           NEW c \in Calls,
           NEW k, k \in LoadCalls \cup CreateCalls \cup DeleteCalls \cup {NoCall},
           calls' = [calls EXCEPT ![c] = k], list' \in Seq(EntryType),
           IsFiniteSet(StoredTasks)', OnlyCreates', CallFits(k)',
           k.kind = "create" => \A d \in Calls \ {c} : calls[d].kind # "create",
           \A t \in Tasks : tasks[t] # NoTask =>
               tasks'[t] \in {tasks[t], [tasks[t] EXCEPT !.active = FALSE]},
           \A entry \in ToSet(list') : entry \in ToSet(list) \/ ShownRight(entry)',
           \A d \in Calls \ {c} :
               Working(calls[d]) => edit'[calls[d].editor] = edit[calls[d].editor],
           company = "waits" =>
             /\ \A d \in Calls \ {c} : calls[d] = NoCall
             /\ \A e \in Editors : edit'[e].at # "idle" => Working(k) /\ k.editor = e
             /\ k = NoCall => AllOf(list)'
             /\ k # NoCall /\ k.at = "answered" => AllOf(After(k))'
             /\ k # NoCall /\ k.at # "answered" /\ k.kind # "load" => AllOf(list)'
             /\ k.kind = "load" => k.at # "failed"
    PROVE  ListInv'
<1>1. \A d \in Calls : calls'[d] = IF d = c THEN k ELSE calls[d]
    BY DEF ListInv, ListTypeOK
<1>2. ListTypeOK' /\ ListTypeOK
    BY DEF ListInv, ListTypeOK
<1>3. ListHonest'
    <2>1. OneCreate'
        BY <1>1 DEF OneCreate, ListInv, ListHonest
    <2>2. \A d \in Calls :
               \/ /\ calls'[d] = calls[d]
                  /\ Working(calls[d]) => edit'[calls[d].editor] = edit[calls[d].editor]
               \/ CallFits(calls[d])'
        <3> SUFFICES ASSUME NEW d \in Calls
                     PROVE  \/ /\ calls'[d] = calls[d]
                               /\ Working(calls[d]) => edit'[calls[d].editor] = edit[calls[d].editor]
                            \/ CallFits(calls[d])'
            OBVIOUS
        <3>1. CASE d = c
            BY <1>1, <3>1 DEF CallFits, Working
        <3>2. CASE d # c
            BY <1>1, <3>2
        <3>3. QED
            BY <3>1, <3>2
    <2>3. QED
        BY <1>2, <2>1, <2>2, HonestStep DEF ListInv
<1>4. ASSUME company = "waits" PROVE ListWhole'
    <2>1. \A d \in Calls : d # c => calls'[d] = NoCall
        BY <1>1, <1>4
    <2>2. \A e \in Editors : edit'[e].at # "idle" => e \in Employed'
        BY <1>1, <1>4 DEF Employed, Working
    <2>3. Resting' => AllOf(list)'
        BY <1>1, <1>4 DEF Resting
    <2>4. ASSUME NEW d \in Calls
          PROVE  /\ (calls[d] # NoCall /\ calls[d].at = "answered" => AllOf(After(calls[d])))'
                 /\ (calls[d] # NoCall /\ calls[d].at # "answered" /\ calls[d].kind # "load"
                      => AllOf(list))'
                 /\ (calls[d].kind = "load" => calls[d].at # "failed")'
        <3>1. CASE d = c
            BY <1>1, <1>4, <3>1 DEF AllOf, After
        <3>2. CASE d # c
            BY <2>1, <3>2 DEF NoCall
        <3>3. QED
            BY <3>1, <3>2
    <2>5. QED
        BY <2>1, <2>2, <2>3, <2>4 DEF ListWhole
<1>5. QED
    BY <1>2, <1>3, <1>4 DEF ListInv

\* The same for a step of the page alone, which leaves the tables.
LEMMA PageOnlyStep ==
    ASSUME EditInv, ListInv, company # "edits", UNCHANGED editVars, company' = company,
           NEW c \in Calls, ~Working(calls[c]),
           NEW k, k \in LoadCalls \cup CreateCalls \cup DeleteCalls \cup {NoCall},
           ~Working(k),
           calls' = [calls EXCEPT ![c] = k], list' \in Seq(EntryType), CallFits(k),
           k.kind = "create" => \A d \in Calls \ {c} : calls[d].kind # "create",
           \A entry \in ToSet(list') : ShownRight(entry),
           company = "waits" =>
             /\ \A d \in Calls \ {c} : calls[d] = NoCall
             /\ k = NoCall => AllOf(list')
             /\ k # NoCall /\ k.at = "answered" => list' = list /\ AllOf(After(k))
             /\ k # NoCall /\ k.at # "answered" /\ k.kind # "load" => AllOf(list')
             /\ k.kind = "load" => k.at # "failed"
    PROVE  ListInv'
<1>1. UNCHANGED <<tasks, assigned, edit>>
    BY DEF editVars
<1>2. EditInv'
    BY EditStepKeepsInv DEF editVars
<1>3. IsFiniteSet(StoredTasks)' /\ OnlyCreates' /\ CallFits(k)'
    BY <1>1 DEF ListInv, ListHonest, StoredTasks, OnlyCreates, CallFits, ShownRight
<1>4. \A entry \in ToSet(list') : ShownRight(entry)'
    BY <1>1 DEF ShownRight
<1>5. company = "waits" => \A e \in Editors : edit'[e].at = "idle"
    BY <1>1 DEF ListInv, ListWhole, Employed, Working, NoCall
<1>6. Listed' = Listed
    BY <1>1 DEF Listed
<1>7. company = "waits" =>
             /\ k = NoCall => AllOf(list)'
             /\ k # NoCall /\ k.at = "answered" => AllOf(After(k))'
             /\ k # NoCall /\ k.at # "answered" /\ k.kind # "load" => AllOf(list)'
    BY <1>6 DEF AllOf, After
<1>8. QED
    BY <1>1, <1>2, <1>3, <1>4, <1>5, <1>7, CallStep

\* What the type of a call says of the kinds.
LEMMA CallTypes ==
    ASSUME ListTypeOK, NEW c \in Calls
    PROVE  /\ calls[c].kind \in {"none", "load", "create", "delete"}
           /\ calls[c].kind = "none" <=> calls[c] = NoCall
           /\ calls[c].kind = "load" => calls[c] \in LoadCalls
           /\ calls[c].kind = "create" => calls[c] \in CreateCalls
           /\ calls[c].kind = "delete" => calls[c] \in DeleteCalls
    BY DEF ListTypeOK, LoadCalls, CreateCalls, DeleteCalls, NoCall

\* Nobody else's call is under way on a page that waits.
LEMMA OnlyCall ==
    ASSUME ListInv, NEW c \in Calls, MayCall(c) \/ calls[c].kind # "none"
    PROVE  /\ company # "edits"
           /\ company = "waits" => \A d \in Calls \ {c} : calls[d] = NoCall
    BY DEF ListInv, ListWhole, MayCall, Resting, NoCall

LEMMA LoadKeepsInv ==
    ASSUME EditInv, ListInv, NEW c \in Calls, loadAllTasks(c) \/ listTasks(c)
    PROVE  ListInv'
<1>0. /\ company # "edits" /\ ListTypeOK /\ ListHonest
      /\ company = "waits" => \A d \in Calls \ {c} : calls[d] = NoCall
    BY OnlyCall DEF ListInv, listTasks, loadAllTasks
<1>1. CASE loadAllTasks(c)
    <2>1. Load \in LoadCalls /\ CallFits(Load) /\ ~Working(Load)
        BY DEF Load, LoadCalls, CallFits, ToSet, Working
    <2>2. ~Working(calls[c]) /\ Load.kind = "load" /\ Load.at = "sent"
        BY <1>1 DEF loadAllTasks, MayCall, Working, NoCall, Load
    <2>3. Load # NoCall
        BY <2>2 DEF NoCall
    <2>4. QED
        BY <1>0, <1>1, <2>1, <2>2, <2>3, PageOnlyStep
        DEF loadAllTasks, ListTypeOK, ListHonest
<1>2. CASE listTasks(c)
    <2> DEFINE rows == SetToSeq(Listed)
               k == [calls[c] EXCEPT !.at = "answered", !.rows = rows]
    <2>1. /\ IsFiniteSet(Listed) /\ Listed \subseteq EntryType
        BY <1>0, ListedCount DEF ListHonest, EditInv, EditTypeOK
    <2>2. /\ rows \in Seq(EntryType) /\ AllOf(rows)
        BY <2>1, SetInSequence DEF AllOf
    <2>3. /\ calls[c] \in LoadCalls /\ calls' = [calls EXCEPT ![c] = k]
        BY <1>0, <1>2, CallTypes DEF listTasks
    <2>4. /\ k \in LoadCalls /\ k.kind = "load" /\ k.at = "answered" /\ k.rows = rows
        BY <2>2, <2>3 DEF LoadCalls
    <2>5. \A entry \in Listed : ShownRight(entry)
        BY DEF Listed, ShownRight
    <2>6. CallFits(k) /\ ~Working(k) /\ k # NoCall /\ ~Working(calls[c])
        BY <1>2, <2>2, <2>4, <2>5 DEF CallFits, Working, AllOf, NoCall, listTasks
    <2>7. AllOf(After(k))
        BY <2>2, <2>4 DEF After
    <2>8. UNCHANGED editVars /\ list' = list /\ company' = company
        BY <1>2 DEF listTasks
    <2> HIDE DEF k
    <2>9. QED
        BY <1>0, <2>3, <2>4, <2>6, <2>7, <2>8, PageOnlyStep DEF ListTypeOK, ListHonest
<1>3. QED
    BY <1>1, <1>2

LEMMA AskKeepsInv ==
    ASSUME EditInv, ListInv, NEW c \in Calls,
           \/ \E in \in RawInputs : handleCreateTask(c, in)
           \/ \E t \in Tasks : deleteTask(c, t)
    PROVE  ListInv'
<1>0. /\ MayCall(c) /\ company # "edits" /\ ListTypeOK /\ ListHonest
      /\ company = "waits" => \A d \in Calls \ {c} : calls[d] = NoCall
    BY OnlyCall DEF ListInv, handleCreateTask, deleteTask
<1>1. ~Working(calls[c]) /\ (company = "waits" => AllOf(list))
    BY <1>0 DEF MayCall, Working, NoCall, ListInv, ListWhole
<1>2. ASSUME NEW in \in RawInputs, handleCreateTask(c, in) PROVE ListInv'
    <2> DEFINE k == [kind |-> "create", at |-> "sent", input |-> in]
    <2>1. k \in CreateCalls /\ CallFits(k) /\ ~Working(k) /\ k # NoCall
        BY DEF CreateCalls, CallFits, Working, NoCall
    <2>2. k.kind = "create" /\ k.at = "sent"
        OBVIOUS
    <2>3. /\ calls' = [calls EXCEPT ![c] = k] /\ UNCHANGED editVars /\ list' = list
          /\ company' = company /\ \A d \in Calls : calls[d].kind # "create"
        BY <1>2 DEF handleCreateTask
    <2> HIDE DEF k
    <2>4. QED
        BY <1>0, <1>1, <2>1, <2>2, <2>3, PageOnlyStep DEF ListTypeOK, ListHonest
<1>3. ASSUME NEW t \in Tasks, deleteTask(c, t) PROVE ListInv'
    <2> DEFINE k == [kind |-> "delete", at |-> "sent", task |-> t]
    <2>1. k \in DeleteCalls /\ ~Working(k) /\ k # NoCall
        BY DEF DeleteCalls, Working, NoCall
    <2>2. k.kind = "delete" /\ k.at = "sent" /\ k.task = t
        OBVIOUS
    <2>3. /\ calls' = [calls EXCEPT ![c] = k] /\ UNCHANGED editVars /\ list' = list
          /\ company' = company /\ \E entry \in ToSet(list) : entry.task = t
        BY <1>3 DEF deleteTask
    <2>4. CallFits(k)
        BY <1>0, <2>2, <2>3 DEF CallFits, ListHonest, ShownRight, Working
    <2> HIDE DEF k
    <2>5. QED
        BY <1>0, <1>1, <2>1, <2>2, <2>3, <2>4, PageOnlyStep DEF ListTypeOK, ListHonest
<1>4. QED
    BY <1>2, <1>3

LEMMA RefuseKeepsInv ==
    ASSUME EditInv, ListInv, NEW c \in Calls, Refuse(c)
    PROVE  ListInv'
<1> DEFINE k == [calls[c] EXCEPT !.at = "failed"]
<1>0. /\ company # "edits" /\ ListTypeOK /\ ListHonest
      /\ company = "waits" => \A d \in Calls \ {c} : calls[d] = NoCall
    BY OnlyCall DEF ListInv, Refuse
<1>1. /\ calls[c].kind # "none" /\ calls[c].at \in {"sent", "answered"}
      /\ company = "waits" => calls[c].kind = "create" /\ calls[c].at = "sent"
      /\ calls' = [calls EXCEPT ![c] = k] /\ UNCHANGED editVars /\ list' = list
      /\ company' = company
    BY DEF Refuse
<1>2. /\ k \in LoadCalls \cup CreateCalls \cup DeleteCalls
      /\ k.kind = calls[c].kind /\ k.at = "failed" /\ k # NoCall
    BY <1>0, <1>1, CallTypes DEF LoadCalls, CreateCalls, DeleteCalls, NoCall
<1>3. CallFits(k)
    <2>1. CallFits(calls[c])
        BY <1>0 DEF ListHonest
    <2>2. k.kind = "load" => k.rows = calls[c].rows
        BY <1>0, <1>1, CallTypes DEF LoadCalls
    <2>3. k.kind = "delete" => k.task = calls[c].task
        BY <1>0, <1>1, CallTypes DEF DeleteCalls
    <2> HIDE DEF k
    <2>4. QED
        BY <1>2, <2>1, <2>2, <2>3 DEF CallFits, Working
<1>4. k.kind = "create" => \A d \in Calls \ {c} : calls[d].kind # "create"
    BY <1>0, <1>2 DEF ListHonest, OneCreate
<1>5. ~Working(calls[c]) /\ ~Working(k)
    BY <1>1, <1>2 DEF Working
<1>6. company = "waits" => AllOf(list)
    BY <1>0, <1>1 DEF ListInv, ListWhole, NoCall
<1> HIDE DEF k
<1>7. QED
    BY <1>0, <1>1, <1>2, <1>3, <1>4, <1>5, <1>6, PageOnlyStep DEF ListTypeOK, ListHonest

LEMMA ToSetAppend ==
    ASSUME NEW S, NEW s \in Seq(S), NEW x \in S
    PROVE  /\ Append(s, x) \in Seq(S)
           /\ ToSet(Append(s, x)) = ToSet(s) \cup {x}
           /\ Len(Append(s, x)) = Len(s) + 1
<1> DEFINE a == Append(s, x)
<1>1. /\ a \in Seq(S) /\ Len(a) = Len(s) + 1 /\ Len(s) \in Nat
      /\ a[Len(s) + 1] = x /\ \A i \in 1 .. Len(s) : a[i] = s[i]
      /\ DOMAIN s = 1 .. Len(s) /\ DOMAIN a = 1 .. Len(s) + 1
    OBVIOUS
<1>2. 1 .. Len(s) + 1 = (1 .. Len(s)) \cup {Len(s) + 1}
    BY <1>1
<1> HIDE DEF a
<1>3. ToSet(a) = ToSet(s) \cup {x}
    <2>1. ASSUME NEW y \in ToSet(a) PROVE y \in ToSet(s) \cup {x}
        <3>1. PICK i \in 1 .. Len(s) + 1 : y = a[i]
            BY <1>1 DEF ToSet
        <3>2. QED
            BY <1>1, <1>2, <3>1 DEF ToSet
    <2>2. ASSUME NEW i \in 1 .. Len(s) PROVE s[i] \in ToSet(a)
        BY <1>1, <1>2 DEF ToSet
    <2>3. x \in ToSet(a)
        BY <1>1, <1>2 DEF ToSet
    <2>4. QED
        BY <1>1, <2>1, <2>2, <2>3 DEF ToSet
<1>4. QED
    BY <1>1, <1>3 DEF a

\* The list after an answer shows what the tables hold.
LEMMA AnswerShown ==
    ASSUME EditInv, ListTypeOK, ListHonest, NEW c \in Calls, calls[c].kind # "none",
           calls[c].at = "answered"
    PROVE  /\ After(calls[c]) \in Seq(EntryType)
           /\ \A entry \in ToSet(After(calls[c])) : ShownRight(entry)
<1> DEFINE k == calls[c]
<1>1. CallFits(k) /\ list \in Seq(EntryType) /\ \A entry \in ToSet(list) : ShownRight(entry)
    BY DEF ListHonest, ListTypeOK
<1>2. CASE k.kind = "load"
    <2>1. After(k) = k.rows
        BY <1>2 DEF After
    <2>2. QED
        BY <1>1, <1>2, <2>1, CallTypes DEF CallFits, LoadCalls
<1>3. CASE k.kind = "create"
    <2>1. After(k) = Append(list, k.entry)
        BY <1>3 DEF After
    <2>2. k.entry \in EntryType /\ ShownRight(k.entry)
        BY <1>1, <1>3, CallTypes DEF CallFits, CreateCalls
    <2>3. QED
        BY <1>1, <2>1, <2>2, ToSetAppend
<1>4. CASE k.kind = "delete"
    <2> DEFINE new == [i \in DOMAIN list |->
                         IF list[i].task = k.task
                           THEN [list[i] EXCEPT !.row = [list[i].row EXCEPT !.active = FALSE]]
                           ELSE list[i]]
    <2>1. After(k) = new
        BY <1>4 DEF After
    <2>0. Len(list) \in Nat /\ DOMAIN list = 1 .. Len(list)
        BY <1>1
    <2>2. \A i \in 1 .. Len(list) : list[i] \in EntryType /\ ShownRight(list[i])
        BY <1>1 DEF ToSet
    <2>3. tasks[k.task] # NoTask /\ k.task \in Tasks /\ ~tasks[k.task].active
        BY <1>1, <1>4, CallTypes DEF CallFits, DeleteCalls
    <2>4. ASSUME NEW i \in 1 .. Len(list)
          PROVE  new[i] \in EntryType /\ ShownRight(new[i])
        <3>1. CASE list[i].task = k.task
            <4> DEFINE y == [list[i] EXCEPT !.row = [list[i].row EXCEPT !.active = FALSE]]
            <4>1. new[i] = y
                BY <2>0, <3>1
            <4>2. list[i] \in EntryType /\ ShownRight(list[i]) /\ tasks[k.task] \in Row
                BY <2>2, <2>3 DEF EditInv, EditTypeOK
            <4>3. [list[i].row EXCEPT !.active = FALSE] = tasks[k.task]
                BY <2>3, <3>1, <4>2 DEF ShownRight, Row
            <4>4. y \in EntryType /\ y.task = k.task /\ y.row = tasks[k.task]
                BY <3>1, <4>2, <4>3 DEF EntryType
            <4>5. QED
                BY <2>3, <4>1, <4>4 DEF ShownRight
        <3>2. CASE list[i].task # k.task
            <4>1. new[i] = list[i]
                BY <2>0, <3>2
            <4>2. QED
                BY <2>2, <4>1
        <3>3. QED
            BY <3>1, <3>2
    <2>5. new \in Seq(EntryType) /\ DOMAIN new = 1 .. Len(list)
        <3>1. DOMAIN new = 1 .. Len(list)
            BY <2>0
        <3>2. new = [i \in 1 .. Len(list) |-> new[i]]
            BY <2>0
        <3> HIDE DEF new
        <3>3. new \in [1 .. Len(list) -> EntryType]
            BY <2>4, <3>2
        <3>4. QED
            BY <2>0, <3>1, <3>3
    <2> HIDE DEF new
    <2>6. QED
        BY <2>1, <2>4, <2>5 DEF ToSet
<1>5. QED
    BY <1>2, <1>3, <1>4, CallTypes

LEMMA ReceiveKeepsInv ==
    ASSUME EditInv, ListInv, NEW c \in Calls, Receive(c)
    PROVE  ListInv'
<1>0. /\ company # "edits" /\ ListTypeOK /\ ListHonest
      /\ company = "waits" => \A d \in Calls \ {c} : calls[d] = NoCall
    BY OnlyCall DEF ListInv, Receive
<1>1. /\ calls[c].kind # "none" /\ calls[c] # NoCall /\ calls[c].at \in {"answered", "failed"}
      /\ list' = IF calls[c].at = "answered" THEN After(calls[c]) ELSE list
      /\ calls' = [calls EXCEPT ![c] = NoCall] /\ UNCHANGED editVars /\ company' = company
    BY DEF Receive, NoCall
<1>2. list' \in Seq(EntryType) /\ \A entry \in ToSet(list') : ShownRight(entry)
    BY <1>0, <1>1, AnswerShown DEF ListTypeOK, ListHonest
<1>3. company = "waits" => AllOf(list')
    BY <1>0, <1>1 DEF ListInv, ListWhole
<1>4. CallFits(NoCall) /\ ~Working(NoCall) /\ NoCall.kind = "none" /\ ~Working(calls[c])
    BY <1>1 DEF CallFits, Working, NoCall
<1> HIDE DEF NoCall
<1>5. QED
    BY <1>0, <1>1, <1>2, <1>3, <1>4, PageOnlyStep

\* The transaction begins: its row is nobody else's.
LEMMA CreateKeepsInv ==
    ASSUME EditInv, EditInv', ListInv, NEW c \in Calls, NEW e \in Editors,
           NEW caller \in Users, createTask(c, e, caller)
    PROVE  ListInv'
<1> PICK in : in = calls[c].input
    OBVIOUS
<1>0. /\ company # "edits" /\ ListTypeOK /\ ListHonest
      /\ company = "waits" => \A d \in Calls \ {c} : calls[d] = NoCall
    BY OnlyCall DEF ListInv, createTask
<1>1. /\ calls[c].kind = "create" /\ calls[c].at = "sent" /\ BeginCreate(e, caller, in)
      /\ list' = list /\ company' = company
    BY DEF createTask
<1>2. PICK t \in Tasks : edit' = [edit EXCEPT ![e] = Begun("create", t, in)]
    BY <1>1 DEF BeginCreate
<1>3. /\ in \in AcceptedInputs /\ edit[e].at = "idle" /\ UNCHANGED <<tasks, assigned>>
    BY <1>0, <1>1, CallTypes DEF BeginCreate, CreateCalls, AcceptedInputs
<1>4. /\ edit'[e] = Begun("create", t, in)
      /\ \A f \in Editors \ {e} : edit'[f] = edit[f]
      /\ edit'[e].task = t /\ edit'[e].input = in /\ edit'[e].op = "create"
      /\ edit'[e].at = "begun"
    BY <1>2 DEF Begun, EditInv, EditTypeOK
<1> DEFINE entry == [task |-> t, row |-> RowOf(in)]
           k == [kind |-> "create", at |-> "working", editor |-> e, entry |-> entry]
<1>5. entry \in EntryType
    BY <1>3, RowOfTyped DEF EntryType
<1>6. calls' = [calls EXCEPT ![c] = k] /\ k \in CreateCalls /\ Working(k) /\ k.editor = e
    BY <1>4, <1>5 DEF createTask, CreateCalls, Working
<1>7. CallFits(k)'
    BY <1>4 DEF CallFits, Working
<1>8. OnlyCreates' /\ IsFiniteSet(StoredTasks)'
    BY <1>0, <1>3, <1>4 DEF ListHonest, OnlyCreates, StoredTasks
<1>9. \A d \in Calls \ {c} : calls[d].kind # "create"
    BY <1>0, <1>1 DEF ListHonest, OneCreate
<1>10. company = "waits" =>
          /\ \A f \in Editors : edit'[f].at # "idle" => f = e
          /\ AllOf(list)'
    <2>1. Listed' = Listed
        BY <1>3 DEF Listed
    <2>2. company = "waits" => \A f \in Editors : edit[f].at = "idle"
        BY <1>0, <1>1 DEF ListInv, ListWhole, Employed, NoCall
    <2>3. company = "waits" => AllOf(list)
        BY <1>0, <1>1 DEF ListInv, ListWhole, NoCall
    <2>4. QED
        BY <1>1, <1>4, <2>1, <2>2, <2>3 DEF AllOf
<1>11. k.kind = "create" /\ k.at = "working" /\ k # NoCall
    BY DEF NoCall
<1> HIDE DEF k, entry
<1>12. QED
    BY <1>0, <1>1, <1>3, <1>6, <1>7, <1>8, <1>9, <1>10, <1>11, CallStep
    DEF ListTypeOK, Working

\* A committed create adds one row to what is listed.
LEMMA CommitListed ==
    ASSUME EditInv, NEW t \in Tasks, NEW row \in Row, tasks[t] = NoTask,
           tasks' = [tasks EXCEPT ![t] = row], IsFiniteSet(StoredTasks)
    PROVE  /\ IsFiniteSet(StoredTasks)'
           /\ Listed' = Listed \cup {[task |-> t, row |-> row]}
           /\ Cardinality(Listed)' = Cardinality(Listed) + 1
           /\ IsFiniteSet(Listed)
<1>1. /\ tasks \in [Tasks -> Row \cup {NoTask}] /\ tasks' \in [Tasks -> Row \cup {NoTask}]
      /\ row # NoTask
    BY RulesAssumption DEF EditInv, EditTypeOK
<1>2. /\ tasks'[t] = row /\ \A s \in Tasks \ {t} : tasks'[s] = tasks[s]
    BY <1>1
<1>3. StoredTasks' = StoredTasks \cup {t} /\ t \notin StoredTasks
    BY <1>1, <1>2 DEF StoredTasks
<1>4. /\ IsFiniteSet(StoredTasks') /\ Cardinality(StoredTasks') = Cardinality(StoredTasks) + 1
    BY <1>3, FS_AddElement
<1>5. /\ Cardinality(Listed) = Cardinality(StoredTasks) /\ IsFiniteSet(Listed)
      /\ Cardinality(Listed)' = Cardinality(StoredTasks)'
    BY <1>1, <1>4, ListedCount, ListedCountNext
<1>6. Listed' = Listed \cup {[task |-> t, row |-> row]}
    <2>1. /\ Listed' = {[task |-> s, row |-> tasks'[s]] : s \in StoredTasks'}
          /\ Listed = {[task |-> s, row |-> tasks[s]] : s \in StoredTasks}
        BY DEF Listed, StoredTasks
    <2>2. \A s \in StoredTasks : tasks'[s] = tasks[s]
        BY <1>2, <1>3 DEF StoredTasks
    <2>3. QED
        BY <1>2, <1>3, <2>1, <2>2
<1>7. QED
    BY <1>4, <1>5, <1>6

\* The transaction of a create of the page goes on, commits or is undone.
LEMMA WorkKeepsInv ==
    ASSUME EditInv, EditInv', ListInv, NEW c \in Calls, workCreate(c)
    PROVE  ListInv'
<1>0. /\ company # "edits" /\ ListTypeOK /\ ListHonest
      /\ company = "waits" => \A d \in Calls \ {c} : calls[d] = NoCall
    BY OnlyCall DEF ListInv, workCreate
<1>1. PICK k : k = calls[c]
    OBVIOUS
<1>2. PICK e \in Editors, entry \in EntryType : e = k.editor /\ entry = k.entry
    BY <1>0, <1>1, CallTypes DEF workCreate, CreateCalls
<1>3. /\ k \in CreateCalls /\ k.kind = "create" /\ k.at = "working" /\ Working(k) /\ k # NoCall
      /\ EditStep(e) \/ AbortEdit(e)
      /\ list' = list /\ company' = company
    BY <1>0, <1>1, <1>2, CallTypes DEF workCreate, Working, NoCall
<1>4. PICK y : y = edit[e]
    OBVIOUS
<1>5. y.at # "idle" /\ y.op = "create" /\ entry = [task |-> y.task, row |-> RowOf(y.input)]
    BY <1>0, <1>1, <1>2, <1>3, <1>4 DEF ListHonest, CallFits
<1>6. /\ \A d \in Calls \ {c} : calls[d].kind # "create"
      /\ company = "waits" => AllOf(list) /\ \A f \in Editors \ {e} : edit[f].at = "idle"
    <2>1. \A d \in Calls \ {c} : calls[d].kind # "create"
        BY <1>0, <1>1, <1>3 DEF ListHonest, OneCreate
    <2>2. company = "waits" => AllOf(list)
        BY <1>0, <1>1, <1>3 DEF ListInv, ListWhole
    <2>3. Employed \subseteq {e}
        BY <1>1, <1>2, <2>1 DEF Employed
    <2>4. QED
        BY <2>1, <2>2, <2>3 DEF ListInv, ListWhole
<1>7. edit \in [Editors -> Editing \cup {NoEdit}] /\ tasks \in [Tasks -> Row \cup {NoTask}]
    BY DEF EditInv, EditTypeOK
<1>8. calls' = IF edit'[e] # NoEdit THEN calls
               ELSE [calls EXCEPT ![c] = [k EXCEPT !.at = IF tasks' # tasks THEN "answered"
                                                          ELSE "failed"]]
    BY <1>1, <1>2 DEF workCreate
<1>9. \A d \in Calls \ {c} : Working(calls[d]) => edit'[calls[d].editor] = edit[calls[d].editor]
    BY <1>6 DEF Working
<1>10. \A at \in {"answered", "failed"} :
         LET z == [k EXCEPT !.at = at] IN
         /\ z \in CreateCalls /\ z.kind = "create" /\ z.at = at /\ z.entry = entry
         /\ z # NoCall /\ ~Working(z)
    BY <1>2, <1>3 DEF CreateCalls, Working, NoCall
<1>11. CASE tasks' = tasks /\ edit' = [edit EXCEPT ![e] = NoEdit]
    <2>1. PICK z : z = [k EXCEPT !.at = "failed"]
        OBVIOUS
    <2>2. /\ z \in CreateCalls /\ z.kind = "create" /\ z.at = "failed" /\ z # NoCall
          /\ ~Working(z)
        BY <1>10, <2>1
    <2>3. /\ edit'[e] = NoEdit /\ \A f \in Editors \ {e} : edit'[f] = edit[f]
          /\ NoEdit.at = "idle"
        BY <1>7, <1>11 DEF NoEdit
    <2>4. calls' = [calls EXCEPT ![c] = z]
        BY <1>8, <1>11, <2>1, <2>3
    <2>5. OnlyCreates' /\ IsFiniteSet(StoredTasks)' /\ CallFits(z)'
        BY <1>0, <1>11, <2>2, <2>3 DEF ListHonest, OnlyCreates, StoredTasks, CallFits
    <2>6. company = "waits" => AllOf(list)' /\ \A f \in Editors : edit'[f].at = "idle"
        BY <1>3, <1>6, <1>11, <2>3 DEF AllOf, Listed
    <2>7. QED
        BY <1>0, <1>3, <1>6, <1>9, <1>11, <2>2, <2>4, <2>5, <2>6, CallStep DEF ListTypeOK
<1>12. ASSUME tasks' = tasks, NEW x \in Editing, edit' = [edit EXCEPT ![e] = x],
              x.op = "create", x.task = y.task, x.input = y.input
       PROVE  ListInv'
    <2>1. /\ edit'[e] = x /\ \A f \in Editors \ {e} : edit'[f] = edit[f]
          /\ x # NoEdit /\ x.at # "idle"
        BY <1>7, <1>12 DEF NoEdit, Editing
    <2>2. calls' = [calls EXCEPT ![c] = k]
        BY <1>0, <1>1, <1>8, <2>1 DEF ListTypeOK
    <2>3. OnlyCreates' /\ IsFiniteSet(StoredTasks)'
        BY <1>0, <1>12, <2>1 DEF ListHonest, OnlyCreates, StoredTasks
    <2>4. CallFits(k)'
        BY <1>2, <1>3, <1>5, <1>12, <2>1 DEF CallFits
    <2>5. company = "waits" => AllOf(list)' /\ \A f \in Editors \ {e} : edit'[f].at = "idle"
        BY <1>3, <1>6, <1>12, <2>1 DEF AllOf, Listed
    <2>6. QED
        BY <1>0, <1>2, <1>3, <1>6, <1>9, <1>12, <2>2, <2>3, <2>4, <2>5, CallStep
        DEF ListTypeOK
<1>13. CASE /\ tasks[y.task] = NoTask
            /\ tasks' = [tasks EXCEPT ![y.task] = RowOf(y.input)]
            /\ RowOf(y.input) \in Row
            /\ edit' = [edit EXCEPT ![e] = NoEdit]
    <2>1. PICK z : z = [k EXCEPT !.at = "answered"]
        OBVIOUS
    <2>2. /\ z \in CreateCalls /\ z.kind = "create" /\ z.at = "answered" /\ z # NoCall
          /\ ~Working(z) /\ z.entry = entry
        BY <1>10, <2>1
    <2>3. /\ edit'[e] = NoEdit /\ \A f \in Editors \ {e} : edit'[f] = edit[f]
          /\ NoEdit.at = "idle"
        BY <1>7, <1>13 DEF NoEdit
    <2>4. PICK t \in Tasks, row \in Row : t = y.task /\ row = RowOf(y.input)
        BY <1>2, <1>5, <1>13 DEF EntryType
    <2>5. /\ tasks'[t] = row /\ row # NoTask /\ \A s \in Tasks \ {t} : tasks'[s] = tasks[s]
          /\ tasks[t] = NoTask /\ entry = [task |-> t, row |-> row]
        BY <1>5, <1>7, <1>13, <2>4, RulesAssumption
    <2>6. tasks' # tasks
        BY <2>5
    <2>7. calls' = [calls EXCEPT ![c] = z]
        BY <1>8, <2>1, <2>3, <2>6
    <2>8. /\ IsFiniteSet(StoredTasks)' /\ Listed' = Listed \cup {entry}
          /\ Cardinality(Listed)' = Cardinality(Listed) + 1
        BY <1>0, <1>13, <2>4, <2>5, CommitListed DEF ListHonest
    <2>9. OnlyCreates'
        BY <1>0, <2>3 DEF ListHonest, OnlyCreates
    <2>10. CallFits(z)'
        BY <2>2, <2>5 DEF CallFits, ShownRight
    <2>11. company = "waits" => AllOf(After(z))' /\ \A f \in Editors : edit'[f].at = "idle"
        <3>1. After(z)' = Append(list, entry)
            BY <1>3, <2>2 DEF After
        <3>2. company = "waits" => AllOf(Append(list, entry))'
            BY <1>0, <1>2, <1>3, <1>6, <2>8, ToSetAppend DEF AllOf, ListTypeOK
        <3>3. QED
            BY <1>3, <1>6, <2>3, <3>1, <3>2 DEF AllOf
    <2>12. \A s \in Tasks : tasks[s] # NoTask => tasks'[s] = tasks[s]
        BY <2>5
    <2>13. QED
        BY <1>0, <1>3, <1>6, <1>9, <2>2, <2>7, <2>8, <2>9, <2>10, <2>11, <2>12, CallStep
        DEF ListTypeOK
<1>14. QED
    BY <1>3, <1>4, <1>5, <1>11, <1>12, <1>13, WorkerStep

\* Marking a deactivated row in a list of all rows leaves a list of all rows.
LEMMA MarkListed ==
    ASSUME EditInv, NEW t \in Tasks, tasks[t] # NoTask, IsFiniteSet(StoredTasks),
           tasks' = [tasks EXCEPT ![t] = [tasks[t] EXCEPT !.active = FALSE]],
           list \in Seq(EntryType), AllOf(list), NEW new,
           new = [i \in DOMAIN list |->
                    IF list[i].task = t
                      THEN [list[i] EXCEPT !.row = [list[i].row EXCEPT !.active = FALSE]]
                      ELSE list[i]]
    PROVE  AllOf(new)'
<1>1. /\ tasks \in [Tasks -> Row \cup {NoTask}] /\ tasks' \in [Tasks -> Row \cup {NoTask}]
      /\ tasks'[t] = [tasks[t] EXCEPT !.active = FALSE] /\ tasks'[t] # NoTask
      /\ \A s \in Tasks \ {t} : tasks'[s] = tasks[s]
    <2>1. tasks[t] \in Row /\ tasks \in [Tasks -> Row \cup {NoTask}]
        BY DEF EditInv, EditTypeOK
    <2>2. [tasks[t] EXCEPT !.active = FALSE] \in Row
        BY <2>1 DEF Row
    <2>3. QED
        BY <2>1, <2>2, RulesAssumption
<1>2. StoredTasks' = StoredTasks
    BY <1>1 DEF StoredTasks
<1>3. Cardinality(Listed') = Cardinality(Listed)
    BY <1>1, <1>2, ListedCount, ListedCountNext
<1>4. Len(list) \in Nat /\ DOMAIN list = 1 .. Len(list)
    OBVIOUS
<1>5. DOMAIN new = 1 .. Len(list) /\ Len(new) = Len(list)
    BY <1>4
<1>6. ASSUME NEW i \in 1 .. Len(list)
      PROVE  /\ list[i].task \in StoredTasks
             /\ list[i] = [task |-> list[i].task, row |-> tasks[list[i].task]]
             /\ new[i] = [task |-> list[i].task, row |-> tasks'[list[i].task]]
    <2>1. PICK s \in StoredTasks : list[i] = [task |-> s, row |-> tasks[s]]
        <3>1. list[i] \in Listed
            BY <1>4 DEF AllOf, ToSet
        <3>2. QED
            BY <3>1 DEF Listed, StoredTasks
    <2>2. s \in Tasks
        BY DEF StoredTasks
    <2>3. list[i].task = s /\ list[i].row = tasks[s]
        BY <2>1
    <2>4. new[i] = IF list[i].task = t
                     THEN [list[i] EXCEPT !.row = [list[i].row EXCEPT !.active = FALSE]]
                     ELSE list[i]
        BY <1>4
    <2>5. CASE s = t
        <3>1. new[i] = [list[i] EXCEPT !.row = tasks'[s]]
            BY <1>1, <2>3, <2>4, <2>5
        <3>2. PICK v, w : v = tasks[s] /\ w = tasks'[s]
            OBVIOUS
        <3>3. new[i] = [task |-> s, row |-> w]
            <4>1. new[i] = [[task |-> s, row |-> v] EXCEPT !.row = w]
                BY <2>1, <3>1, <3>2, Zenon
            <4>2. [[task |-> s, row |-> v] EXCEPT !.row = w] = [task |-> s, row |-> w]
                OBVIOUS
            <4>3. QED
                BY <4>1, <4>2, Zenon
        <3>4. QED
            BY <2>1, <2>3, <3>2, <3>3
    <2>6. CASE s # t
        <3>1. new[i] = list[i] /\ tasks'[s] = tasks[s]
            BY <1>1, <2>2, <2>3, <2>4, <2>6
        <3>2. QED
            BY <2>1, <2>3, <3>1
    <2>7. QED
        BY <2>5, <2>6
<1>7. ToSet(new) = Listed'
    <2>1. Listed' = {[task |-> s, row |-> tasks'[s]] : s \in StoredTasks}
        BY <1>2 DEF Listed, StoredTasks
    <2>2. ToSet(new) \subseteq Listed'
        <3>1. ASSUME NEW x \in ToSet(new) PROVE x \in Listed'
            <4>1. PICK i \in 1 .. Len(list) : x = new[i]
                BY <1>5, Zenon DEF ToSet
            <4>2. PICK s \in StoredTasks : x = [task |-> s, row |-> tasks'[s]]
                BY <1>6, <4>1, Zenon
            <4>3. [task |-> s, row |-> tasks'[s]] \in Listed'
                BY <1>2 DEF Listed, StoredTasks
            <4>4. QED
                BY <4>2, <4>3, Zenon
        <3>2. QED
            BY <3>1
    <2>3. ASSUME NEW s \in StoredTasks PROVE [task |-> s, row |-> tasks'[s]] \in ToSet(new)
        <3>1. [task |-> s, row |-> tasks[s]] \in ToSet(list)
            BY DEF AllOf, Listed, StoredTasks
        <3>2. PICK i \in 1 .. Len(list) : list[i] = [task |-> s, row |-> tasks[s]]
            BY <1>4, <3>1 DEF ToSet
        <3>3. list[i].task = s
            BY <3>2
        <3>4. new[i] = [task |-> s, row |-> tasks'[s]]
            BY <1>6, <3>3
        <3>5. QED
            BY <1>5, <3>2, <3>4, Zenon DEF ToSet
    <2>4. QED
        BY <2>1, <2>2, <2>3
<1>8. QED
    BY <1>3, <1>5, <1>7 DEF AllOf

LEMMA DeleteServed ==
    ASSUME EditInv, EditInv', ListInv, NEW c \in Calls, NEW caller \in Users,
           serveDelete(c, caller)
    PROVE  ListInv'
<1>0. /\ company # "edits" /\ ListTypeOK /\ ListHonest
      /\ company = "waits" => \A d \in Calls \ {c} : calls[d] = NoCall
    BY OnlyCall DEF ListInv, serveDelete
<1>1. PICK t \in Tasks : t = calls[c].task
    BY <1>0, CallTypes DEF serveDelete, DeleteCalls
<1>2. PICK z : z = [calls[c] EXCEPT !.at = "answered"]
    OBVIOUS
<1>3. /\ calls[c] \in DeleteCalls /\ calls[c].kind = "delete" /\ calls[c].at = "sent"
      /\ DeleteTask(caller, t)
      /\ calls' = [calls EXCEPT ![c] = z] /\ list' = list /\ company' = company
    BY <1>0, <1>1, <1>2, CallTypes DEF serveDelete
<1>4. /\ z \in DeleteCalls /\ z.kind = "delete" /\ z.at = "answered" /\ z.task = t
      /\ z # NoCall /\ ~Working(z)
    BY <1>1, <1>2, <1>3 DEF DeleteCalls, NoCall, Working
<1>5. /\ tasks[t] # NoTask /\ edit' = edit
      /\ tasks' = [tasks EXCEPT ![t] = [tasks[t] EXCEPT !.active = FALSE]]
    BY <1>3 DEF DeleteTask
<1>6. /\ tasks'[t] = [tasks[t] EXCEPT !.active = FALSE] /\ tasks'[t] # NoTask
      /\ ~tasks'[t].active /\ \A s \in Tasks \ {t} : tasks'[s] = tasks[s]
    <2>1. tasks[t] \in Row /\ tasks \in [Tasks -> Row \cup {NoTask}]
        BY <1>5 DEF EditInv, EditTypeOK
    <2>2. [tasks[t] EXCEPT !.active = FALSE] \in Row /\ ~[tasks[t] EXCEPT !.active = FALSE].active
        BY <2>1 DEF Row
    <2>3. QED
        BY <1>5, <2>1, <2>2, RulesAssumption
<1>7. IsFiniteSet(StoredTasks)' /\ OnlyCreates'
    <2>1. StoredTasks' = StoredTasks
        BY <1>5, <1>6 DEF StoredTasks
    <2>2. QED
        BY <1>0, <1>5, <2>1 DEF ListHonest, OnlyCreates
<1>8. CallFits(z)'
    BY <1>4, <1>6 DEF CallFits
<1>9. company = "waits" => AllOf(After(z))' /\ \A f \in Editors : edit'[f].at = "idle"
    <2> SUFFICES ASSUME company = "waits"
                 PROVE  AllOf(After(z))' /\ \A f \in Editors : edit'[f].at = "idle"
        OBVIOUS
    <2>1. AllOf(list) /\ Employed = {}
        BY <1>0, <1>3 DEF ListInv, ListWhole, Employed, NoCall
    <2>2. \A f \in Editors : edit'[f].at = "idle"
        BY <1>5, <2>1 DEF ListInv, ListWhole
    <2>3. PICK new : new = [i \in DOMAIN list |->
                              IF list[i].task = t
                                THEN [list[i] EXCEPT !.row = [list[i].row EXCEPT !.active = FALSE]]
                                ELSE list[i]]
        OBVIOUS
    <2>4. After(z)' = new
        BY <1>3, <1>4, <2>3 DEF After
    <2>5. AllOf(new)'
        BY <1>0, <1>5, <2>1, <2>3, MarkListed DEF ListTypeOK, ListHonest
    <2>6. QED
        BY <2>2, <2>4, <2>5 DEF AllOf
<1>10. \A s \in Tasks : tasks[s] # NoTask =>
          tasks'[s] \in {tasks[s], [tasks[s] EXCEPT !.active = FALSE]}
    BY <1>6
<1>11. \A d \in Calls \ {c} : Working(calls[d]) => edit'[calls[d].editor] = edit[calls[d].editor]
    BY <1>5
<1>12. QED
    BY <1>0, <1>3, <1>4, <1>7, <1>8, <1>9, <1>10, <1>11, CallStep DEF ListTypeOK

\* Requests of others cross the page's calls.
LEMMA OtherRequestsKeepInv ==
    ASSUME EditInv, EditInv', ListInv, company # "waits", OtherRequests, UNCHANGED listVars
    PROVE  ListInv'
<1>1. UNCHANGED <<list, calls, company>> /\ ListTypeOK /\ ListTypeOK'
    BY DEF listVars, ListInv, ListTypeOK
<1>2. CASE company = "edits"
    BY <1>1, <1>2 DEF ListInv
<1>3. CASE company # "edits"
    <2>0. /\ ListHonest /\ edit \in [Editors -> Editing \cup {NoEdit}]
          /\ tasks \in [Tasks -> Row \cup {NoTask}]
        BY <1>3 DEF ListInv, EditInv, EditTypeOK
    <2>1. ASSUME OnlyCreates', IsFiniteSet(StoredTasks)',
                 \A t \in Tasks : tasks[t] # NoTask =>
                     tasks'[t] \in {tasks[t], [tasks[t] EXCEPT !.active = FALSE]},
                 \A e \in Employed : edit'[e] = edit[e]
          PROVE  ListInv'
        <3>1. OneCreate'
            BY <1>1, <2>0 DEF ListHonest, OneCreate
        <3>2. \A d \in Calls : Working(calls[d]) => calls[d].editor \in Employed
            BY DEF Employed, Working
        <3>3. ListHonest'
            BY <1>1, <2>0, <2>1, <3>1, <3>2, HonestStep
        <3>4. QED
            BY <1>1, <1>3, <3>3 DEF ListInv
    <2>2. ASSUME NEW e \in Editors \ Employed, NEW caller \in Users, NEW in \in RawInputs,
                 BeginCreate(e, caller, in)
          PROVE  ListInv'
        <3>1. PICK t \in Tasks : edit' = [edit EXCEPT ![e] = Begun("create", t, in)]
            BY <2>2 DEF BeginCreate
        <3>2. /\ tasks' = tasks /\ edit'[e].op = "create"
              /\ \A f \in Editors \ {e} : edit'[f] = edit[f]
            BY <2>0, <2>2, <3>1 DEF BeginCreate, Begun
        <3>3. OnlyCreates' /\ IsFiniteSet(StoredTasks)'
            BY <2>0, <3>2 DEF ListHonest, OnlyCreates, StoredTasks
        <3>4. \A f \in Employed : edit'[f] = edit[f]
            <4>1. Employed \subseteq Editors
                BY <1>1, CallTypes DEF Employed, CreateCalls
            <4>2. QED
                BY <3>2, <4>1
        <3>5. QED
            BY <2>1, <3>2, <3>3, <3>4
    <2>3. ASSUME NEW e \in Editors \ Employed, EditStep(e) \/ AbortEdit(e)
          PROVE  ListInv'
        <3>1. edit[e].at # "idle"
            BY <2>3 DEF EditStep, AbortEdit, CreateTask, UpdateTask, DeleteTaskAssignments,
                        AssignTask, CommitEdit
        <3>2. edit[e].op = "create"
            BY <2>0, <3>1 DEF ListHonest, OnlyCreates
        <3>3. \A f \in Employed : edit'[f] = edit[f]
            <4>1. Employed \subseteq Editors \ {e}
                BY <1>1, CallTypes DEF Employed, CreateCalls
            <4>2. \A f \in Editors \ {e} : edit'[f] = edit[f]
                BY <2>0, <2>3, <3>1, <3>2, WorkerStep
            <4>3. QED
                BY <4>1, <4>2
        <3>4. CASE tasks' = tasks /\ edit' = [edit EXCEPT ![e] = NoEdit]
            <4>1. OnlyCreates' /\ IsFiniteSet(StoredTasks)'
                BY <2>0, <3>4 DEF ListHonest, OnlyCreates, StoredTasks, NoEdit
            <4>2. QED
                BY <2>1, <3>3, <3>4, <4>1
        <3>5. ASSUME tasks' = tasks, NEW x \in Editing, edit' = [edit EXCEPT ![e] = x],
                     x.op = "create"
              PROVE  ListInv'
            <4>1. OnlyCreates' /\ IsFiniteSet(StoredTasks)'
                BY <2>0, <3>5 DEF ListHonest, OnlyCreates, StoredTasks
            <4>2. QED
                BY <2>1, <3>3, <3>5, <4>1
        <3>6. CASE /\ tasks[edit[e].task] = NoTask
                   /\ tasks' = [tasks EXCEPT ![edit[e].task] = RowOf(edit[e].input)]
                   /\ RowOf(edit[e].input) \in Row
                   /\ edit' = [edit EXCEPT ![e] = NoEdit]
            <4>1. PICK t \in Tasks, row \in Row :
                     t = edit[e].task /\ row = RowOf(edit[e].input)
                BY <2>0, <3>1, <3>6 DEF Editing, NoEdit
            <4>2. IsFiniteSet(StoredTasks)'
                BY <2>0, <3>6, <4>1, CommitListed DEF ListHonest
            <4>3. OnlyCreates'
                BY <2>0, <3>6 DEF ListHonest, OnlyCreates, NoEdit
            <4>4. \A s \in Tasks : tasks[s] # NoTask => tasks'[s] = tasks[s]
                BY <2>0, <3>6, <4>1
            <4>5. QED
                BY <2>1, <3>3, <4>2, <4>3, <4>4
        <3>7. QED
            BY <2>3, <3>1, <3>2, <3>4, <3>5, <3>6, WorkerStep
    <2>4. ASSUME NEW caller \in Users, NEW t \in Tasks, DeleteTask(caller, t)
          PROVE  ListInv'
        <3>1. /\ tasks[t] # NoTask /\ edit' = edit
              /\ tasks' = [tasks EXCEPT ![t] = [tasks[t] EXCEPT !.active = FALSE]]
            BY <2>4 DEF DeleteTask
        <3>2. [tasks[t] EXCEPT !.active = FALSE] # NoTask
            BY <2>0, <3>1, RulesAssumption DEF Row
        <3>3. \A s \in Tasks : tasks'[s] = IF s = t THEN [tasks[t] EXCEPT !.active = FALSE]
                                           ELSE tasks[s]
            BY <2>0, <3>1
        <3>4. StoredTasks' = StoredTasks
            BY <3>1, <3>2, <3>3 DEF StoredTasks
        <3>5. OnlyCreates' /\ IsFiniteSet(StoredTasks)'
            BY <2>0, <3>1, <3>4 DEF ListHonest, OnlyCreates
        <3>6. QED
            BY <2>1, <3>1, <3>3, <3>5
    <2>5. QED
        BY <1>3, <2>2, <2>3, <2>4 DEF OtherRequests
<1>4. QED
    BY <1>2, <1>3

LEMMA ListInvInit == ListInit => EditInv /\ ListInv
<1> SUFFICES ASSUME ListInit PROVE EditInv /\ ListInv
    OBVIOUS
<1>1. EditInv /\ EditInit /\ list = <<>> /\ company \in Companies
    BY EditInvInit DEF ListInit
<1>2. IsFiniteSet(StoredTasks)
    <2>1. StoredTasks = {t \in Tasks : Seed[t] # NoTask}
        BY <1>1, SeedAssumption, RulesAssumption, RowOfTyped DEF StoredTasks, EditInit
    <2>2. QED
        BY <2>1, ListAssumption
<1>3. CASE company = "edits"
    <2>1. calls = [d \in Calls |-> NoCall]
        BY <1>3 DEF ListInit
    <2>2. ListTypeOK
        BY <1>1, <2>1 DEF ListTypeOK
    <2>3. QED
        BY <1>1, <1>3, <2>1, <2>2 DEF ListInv
<1>4. CASE company # "edits"
    <2>1. PICK c \in Calls : calls = [d \in Calls |-> IF d = c THEN Load ELSE NoCall]
        BY <1>4 DEF ListInit
    <2>2. Load \in LoadCalls /\ Load.kind = "load" /\ Load.at = "sent" /\ Load.rows = <<>>
        BY DEF Load, LoadCalls
    <2>3. NoCall.kind = "none" /\ Load # NoCall
        BY <2>2 DEF NoCall
    <2>4. CallFits(Load) /\ CallFits(NoCall)
        BY <2>2, <2>3 DEF CallFits, ToSet, Working
    <2> HIDE DEF Load, NoCall
    <2>5. ListTypeOK
        BY <1>1, <2>1, <2>2 DEF ListTypeOK
    <2>6. OnlyCreates
        BY <1>1 DEF OnlyCreates, EditInit, NoEdit
    <2>7. ListHonest
        BY <1>1, <1>2, <2>1, <2>2, <2>3, <2>4, <2>6 DEF ListHonest, OneCreate, ToSet
    <2>8. ListWhole
        <3>1. \A e \in Editors : edit[e].at = "idle"
            BY <1>1 DEF EditInit, NoEdit
        <3>2. QED
            BY <2>1, <2>2, <2>3, <3>1 DEF ListWhole, Resting
    <2>9. QED
        BY <1>1, <1>4, <2>5, <2>7, <2>8 DEF ListInv
<1>5. QED
    BY <1>3, <1>4

LEMMA ListInvStep ==
    EditInv /\ ListInv /\ [ListNext]_<<editVars, listVars>> => EditInv' /\ ListInv'
<1> SUFFICES ASSUME EditInv, ListInv, [ListNext]_<<editVars, listVars>>
             PROVE  EditInv' /\ ListInv'
    OBVIOUS
<1>1. EditInv'
    BY ListStepEdits, EditStepKeepsInv DEF ListInv
<1>2. CASE UNCHANGED <<editVars, listVars>>
    <2>1. UNCHANGED <<tasks, edit, list, calls, company>>
        BY <1>2 DEF editVars, listVars
    <2>2. ListTypeOK'
        BY <2>1 DEF ListInv, ListTypeOK
    <2>3. company # "edits" => ListHonest'
        BY <2>1 DEF ListInv, ListHonest, StoredTasks, OnlyCreates, OneCreate, CallFits,
                    Working, ShownRight
    <2>4. company = "waits" => ListWhole'
        <3>1. Employed' = Employed /\ Resting' = Resting /\ Listed' = Listed
            BY <2>1 DEF Employed, Resting, Listed
        <3>2. \A c \in Calls : AllOf(After(calls[c]))' = AllOf(After(calls[c]))
            BY <2>1, <3>1 DEF AllOf, After
        <3>3. AllOf(list)' = AllOf(list)
            BY <2>1, <3>1 DEF AllOf
        <3>4. QED
            BY <2>1, <3>1, <3>2, <3>3 DEF ListInv, ListWhole
    <2>5. QED
        BY <1>1, <2>1, <2>2, <2>3, <2>4 DEF ListInv
<1>3. CASE ListNext
    BY <1>1, <1>3, LoadKeepsInv, AskKeepsInv, CreateKeepsInv, WorkKeepsInv, DeleteServed,
       RefuseKeepsInv, ReceiveKeepsInv, OtherRequestsKeepInv DEF ListNext
<1>4. QED
    BY <1>1, <1>2, <1>3

\* The list a page keeps of the tasks: left alone and at rest it is what is
\* stored, each task once; while others create and deactivate, and answers cross
\* or get lost, it never shows what was rolled back, nor active for inactive.
THEOREM ListRight == ListSpec => []ListAgrees
<1>1. ListInv => ListAgrees
    BY DEF ListInv, ListHonest, ListWhole, ListAgrees, AllOf, ShownRight
<1>2. QED
    BY <1>1, ListInvInit, ListInvStep, PTL DEF ListSpec

\* Whatever the page asks of the server is a step of TaskEditing, so that all
\* that is proved of the editors holds while pages keep lists.
THEOREM ListsEdit == ListSpec => EditSpec
<1>1. ListInit => EditInit
    BY DEF ListInit
<1>2. ListInv /\ [ListNext]_<<editVars, listVars>> => [EditNext]_editVars
    BY ListStepEdits DEF ListInv
<1>3. QED
    BY <1>1, <1>2, ListInvInit, ListInvStep, PTL DEF ListSpec, EditSpec
=============================================================================
