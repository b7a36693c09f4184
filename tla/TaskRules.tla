------------------------------- MODULE TaskRules -------------------------------
(***************************************************************************)
(* The pure part of the task handlers: what a task body must satisfy to be *)
(* accepted, the row it is stored as, and on which days a row is due.      *)
(* A title is an opaque value; it also tells two request bodies apart.     *)
(***************************************************************************)
EXTENDS Integers

CONSTANTS
    Users,       \* ids of the rows of users (nothing in the API deletes one)
    UserIds,     \* ids a request may name: those of Users and unknown ones
    Tasks,       \* ids available to rows of tasks
    RawInputs,   \* the task bodies requests carry
    BadTitles,   \* titles blank after trimming, or longer than 200
    MaxInt,      \* largest value of the int columns point_value and points
    NoTask       \* stands for "no row"

Row == [title : {in.title : in \in RawInputs}, kind : {"daily", "weekly"},
        days : SUBSET (1 .. 7), value : 0 .. MaxInt, active : BOOLEAN]

ASSUME RulesAssumption ==
    /\ Users \subseteq UserIds
    /\ MaxInt \in Nat
    /\ NoTask \notin Row
    /\ \A in \in RawInputs :
         /\ in.days \subseteq Int
         /\ in.value \in Int /\ in.value =< MaxInt
         /\ in.active \in BOOLEAN

----------------------------------------------------------------------------
(* parseTaskInput and parseAssigneeIDs *)

\* Mutant: as wide as the CHECK constraint of tasks.frequency_kind.
SchemaFrequencies == {"daily", "weekly", "monthly"}

allowedTaskFrequencies == {"daily", "weekly"}

\* A kind left out means daily.
FrequencyKind(in) == IF in.kind = "" THEN "daily" ELSE in.kind

\* Mutant: the loop over the days without the test that there is one.
DaysInRange(in) == FrequencyKind(in) = "weekly" => in.days \subseteq 1 .. 7

\* Days are only looked at for a weekly task: daily ones drop them.
DaysOk(in) ==
    FrequencyKind(in) = "weekly" => in.days # {} /\ in.days \subseteq 1 .. 7

parseTaskInput(in) ==
    /\ in.title \notin BadTitles
    /\ FrequencyKind(in) \in allowedTaskFrequencies
    /\ DaysOk(in)
    /\ in.value >= 0

\* An entry that is not a UUID is outside UserIds; duplicates collapse.
parseAssigneeIDs(in) == in.assignees \subseteq UserIds

AcceptedInputs == {in \in RawInputs : parseTaskInput(in) /\ parseAssigneeIDs(in)}

RowOf(in) ==
    [title  |-> in.title,
     kind   |-> FrequencyKind(in),
     days   |-> IF FrequencyKind(in) = "daily" THEN {} ELSE in.days,
     value  |-> in.value,
     active |-> in.active]

----------------------------------------------------------------------------
(* Days are numbered from 1, a Monday. *)

IsoDow(day) == ((day - 1) % 7) + 1

\* The condition CompleteTask, AvailableTasks and ListAvailableTaskAssignees share.
Due(row, day) ==
    /\ row.active
    /\ \/ row.kind = "daily"
       \/ row.kind = "weekly" /\ IsoDow(day) \in row.days
=============================================================================
