----------------------------- MODULE MCTaskEditing -----------------------------
(* Values for checking TaskEditing and TaskList: bodies of every kind that    *)
(* parseTaskInput tells apart, three of them accepted, one of those naming a  *)
(* user that does not exist.                                                  *)
EXTENDS TaskList, TLC

CONSTANTS u1, u2, u9, bad, t1, t2, e1, e2, c1, c2

Body(title, kind, days, value, users) ==
    [title |-> title, kind |-> kind, days |-> days, value |-> value,
     active |-> TRUE, assignees |-> users]

MCUsers == {u1, u2}
MCUserIds == {u1, u2, u9}
MCAdmins == {u1}
MCTasks == {t1, t2}
MCEditors == {e1, e2}
MCCalls == {c1, c2}
MCBadTitles == {"", "overlong"}

Dishes == Body("dishes", "", {8}, 1, {u1})
Bins == Body("bins", "weekly", {1, 4}, 2, {u2})
Ghost == Body("ghost", "daily", {}, 1, {u2, u9})

MCRawInputs ==
    {Dishes, Bins, Ghost,
     Body("", "daily", {}, 1, {u1}), Body("overlong", "daily", {}, 1, {u1}),
     Body("monthly", "monthly", {}, 1, {u1}), Body("never", "weekly", {}, 1, {u1}),
     Body("someday", "weekly", {8}, 1, {u1}), Body("fine", "daily", {}, -1, {u1}),
     Body("garbled", "daily", {}, 1, {u1, bad})}

MCSeed == (t1 :> Dishes) @@ (t2 :> NoTask)

=============================================================================
