------------------------------- MODULE TaskList -------------------------------
(***************************************************************************)
(* The list of tasks an administrator's page keeps (tasks.js), over the    *)
(* transactions of TaskEditing: loaded as a whole, extended by what it     *)
(* creates, marked by what it deactivates.  A create of the page is the    *)
(* transaction of an editor; a load or a deactivation is one statement.    *)
(* Session, form and drawing are left out, and so is the order of the list.*)
(***************************************************************************)
EXTENDS TaskEditing, FiniteSets, SequencesExt

CONSTANTS
    Calls        \* calls of apiFetch that may be under way

ASSUME ListAssumption == IsFiniteSet({t \in Tasks : Seed[t] # NoTask})

VARIABLES
    list,        \* state.tasks: rows [task, row]
    calls,       \* the calls under way
    company      \* who else edits tasks, see below

listVars == <<list, calls, company>>

\* "waits": nobody else edits, one call at a time, no answer is lost.  "adds":
\* others create and deactivate, calls overlap, answers get lost.  "edits": the
\* page is not open, others update tasks, too.
Companies == {"waits", "adds", "edits"}

NoCall == [kind |-> "none"]

Resting == \A c \in Calls : calls[c] = NoCall
MayCall(c) ==
    /\ company # "edits" /\ calls[c] = NoCall
    /\ company = "waits" => Resting

\* Editors that work for the page.
Employed == {calls[c].editor : c \in {d \in Calls : calls[d].kind = "create" /\ calls[d].at = "working"}}

Load == [kind |-> "load", at |-> "sent", rows |-> <<>>]

\* init loads the list.
ListInit ==
    /\ EditInit
    /\ list = <<>>
    /\ company \in Companies
    /\ IF company = "edits" THEN calls = [d \in Calls |-> NoCall]
       ELSE \E c \in Calls : calls = [d \in Calls |-> IF d = c THEN Load ELSE NoCall]

----------------------------------------------------------------------------
(* loadAllTasks *)

loadAllTasks(c) ==
    /\ MayCall(c)
    /\ calls' = [calls EXCEPT ![c] = Load]
    /\ UNCHANGED <<editVars, list, company>>

\* What ListTasks returns: every committed row, inactive ones too.
Listed == {[task |-> t, row |-> tasks[t]] : t \in {s \in Tasks : tasks[s] # NoTask}}

listTasks(c) ==
    /\ calls[c].kind = "load" /\ calls[c].at = "sent"
    /\ calls' = [calls EXCEPT ![c].at = "answered", ![c].rows = SetToSeq(Listed)]
    /\ UNCHANGED <<editVars, list, company>>

----------------------------------------------------------------------------
(* handleCreateTask *)

\* What readTaskForm lets through.
FormOk(in) == in.title # "" /\ (in.kind = "weekly" => in.days # {})

\* The button is disabled while a create is under way.  (Bound: ids run out.)
handleCreateTask(c, in) ==
    /\ MayCall(c) /\ FormOk(in)
    /\ \E t \in Tasks : tasks[t] = NoTask
    /\ \A d \in Calls : calls[d].kind # "create"
    /\ calls' = [calls EXCEPT ![c] = [kind |-> "create", at |-> "sent", input |-> in]]
    /\ UNCHANGED <<editVars, list, company>>

createTask(c, e, caller) ==
    /\ calls[c].kind = "create" /\ calls[c].at = "sent"
    /\ BeginCreate(e, caller, calls[c].input)
    /\ calls' = [calls EXCEPT ![c] = [kind |-> "create", at |-> "working", editor |-> e,
                                      entry |-> [task |-> edit'[e].task,
                                                 row |-> RowOf(calls[c].input)]]]
    /\ UNCHANGED <<list, company>>

\* The transaction goes on; ended, it is answered.
workCreate(c) ==
    LET e == calls[c].editor IN
    /\ calls[c].kind = "create" /\ calls[c].at = "working"
    /\ EditStep(e) \/ AbortEdit(e)
    /\ calls' = IF edit'[e] # NoEdit THEN calls
                ELSE [calls EXCEPT ![c].at = IF tasks' # tasks THEN "answered" ELSE "failed"]
    /\ UNCHANGED <<list, company>>

----------------------------------------------------------------------------
(* deleteTask *)

\* Only active tasks have the button; it is never disabled.
deleteTask(c, t) ==
    /\ MayCall(c)
    /\ \E entry \in ToSet(list) : entry.task = t /\ entry.row.active
    /\ calls' = [calls EXCEPT ![c] = [kind |-> "delete", at |-> "sent", task |-> t]]
    /\ UNCHANGED <<editVars, list, company>>

serveDelete(c, caller) ==
    /\ calls[c].kind = "delete" /\ calls[c].at = "sent"
    /\ DeleteTask(caller, calls[c].task)
    /\ calls' = [calls EXCEPT ![c].at = "answered"]
    /\ UNCHANGED <<list, company>>

----------------------------------------------------------------------------
(* Answers *)

\* The body is refused; or a request or its answer is lost.
Refuse(c) ==
    /\ calls[c].kind # "none"
    /\ \/ company # "waits" /\ calls[c].at \in {"sent", "answered"}
       \/ calls[c].kind = "create" /\ calls[c].at = "sent" /\ calls[c].input \notin AcceptedInputs
    /\ calls' = [calls EXCEPT ![c].at = "failed"]
    /\ UNCHANGED <<editVars, list, company>>

\* The list after the answer k.
After(k) ==
    CASE k.kind = "load"   -> k.rows
      [] k.kind = "create" -> Append(list, k.entry)
      [] k.kind = "delete" -> [i \in DOMAIN list |->
                                 IF list[i].task = k.task THEN [list[i] EXCEPT !.row.active = FALSE]
                                 ELSE list[i]]

\* Mutant: the catch of handleCreateTask does not keep the task out.
ReceiveAnyway(c) ==
    /\ calls[c].kind # "none" /\ calls[c].at \in {"answered", "failed"}
    /\ list' = IF calls[c].at = "answered" \/ (calls[c].kind = "create" /\ "entry" \in DOMAIN calls[c])
                 THEN After(calls[c]) ELSE list
    /\ calls' = [calls EXCEPT ![c] = NoCall]
    /\ UNCHANGED <<editVars, company>>

\* An error is shown and the list stays.
Receive(c) ==
    /\ calls[c].kind # "none" /\ calls[c].at \in {"answered", "failed"}
    /\ list' = IF calls[c].at = "answered" THEN After(calls[c]) ELSE list
    /\ calls' = [calls EXCEPT ![c] = NoCall]
    /\ UNCHANGED <<editVars, company>>

----------------------------------------------------------------------------
\* Requests that are not this page's.
OtherRequests ==
    \/ \E e \in Editors \ Employed :
         \/ \E caller \in Users, in \in RawInputs :
              \/ BeginCreate(e, caller, in)
              \/ company = "edits" /\ \E t \in Tasks : BeginUpdate(e, caller, t, in)
         \/ EditStep(e)
         \/ AbortEdit(e)
    \/ \E caller \in Users, t \in Tasks : DeleteTask(caller, t)

ListNext ==
    \/ company # "waits" /\ OtherRequests /\ UNCHANGED listVars
    \/ \E c \in Calls :
         \/ loadAllTasks(c) \/ listTasks(c)
         \/ \E in \in RawInputs : handleCreateTask(c, in)
         \/ \E e \in Editors, caller \in Users : createTask(c, e, caller)
         \/ workCreate(c)
         \/ \E t \in Tasks : deleteTask(c, t)
         \/ \E caller \in Users : serveDelete(c, caller)
         \/ Refuse(c) \/ Receive(c)

ListSpec == ListInit /\ [][ListNext]_<<editVars, listVars>>

FairListSpec == ListSpec /\ EditFairness

----------------------------------------------------------------------------
(* Properties *)

\* Left alone and at rest, the list has every stored task once, as it is stored,
\* whatever was refused, rolled back or deactivated since it was loaded.  As
\* long as others only create and deactivate, whatever crosses it shows rows as
\* they are stored, but for an active task that has been deactivated: it never
\* shows a task that was rolled back, nor takes an active one for inactive.
ListAgrees ==
    /\ company = "waits" /\ Resting => ToSet(list) = Listed /\ Len(list) = Cardinality(Listed)
    /\ company # "edits" =>
         \A entry \in ToSet(list) :
            /\ tasks[entry.task] # NoTask
            /\ entry.row \in {tasks[entry.task], [tasks[entry.task] EXCEPT !.active = TRUE]}
=============================================================================
