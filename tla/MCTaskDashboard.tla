--------------------------- MODULE MCTaskDashboard ---------------------------
(* Values for checking TaskDashboard and DailyTasks: a user with two tasks that *)
(* are due on day 1 and not on day 2, and an administrator without any.         *)
EXTENDS DailyTasks, TLC

CONSTANTS u1, u2, t1, t2, c1, c2, l1

Body(title, kind, days, value, users) ==
    [title |-> title, kind |-> kind, days |-> days, value |-> value,
     active |-> TRUE, assignees |-> users]

Dishes == Body("dishes", "weekly", {1}, 1, {u1})
Bins == Body("bins", "weekly", {1}, 2, {u1})

MCUsers == {u1, u2}
MCAdmins == {u2}
MCTasks == {t1, t2}
MCNone == {}
MCCompleters == {c1, c2}
MCLoads == {l1}
MCRawInputs == {Dishes, Bins}
MCSeed == (t1 :> Dishes) @@ (t2 :> Bins)

Symmetry == Permutations(Completers)
=============================================================================
