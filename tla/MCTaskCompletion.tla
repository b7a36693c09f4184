--------------------------- MODULE MCTaskCompletion ---------------------------
(* Values for checking TaskCompletion.  A daily task of u1 worth 1 point that  *)
(* edits make worth 2 or take from u1; with MaxInt = 3 the second day's       *)
(* completion may overflow; u1 is an administrator, u9 does not exist.         *)
EXTENDS TaskCompletion, TLC

CONSTANTS u1, u2, u9, t1, e1, c1, c2

Body(title, value, users) ==
    [title |-> title, kind |-> "daily", days |-> {}, value |-> value,
     active |-> TRUE, assignees |-> users]

Dishes == Body("dishes", 1, {u1})
Better == Body("dishes, dearer", 2, {u1})
Nobodys == Body("dishes", 1, {})

MCUsers == {u1, u2}
MCUserIds == {u1, u2, u9}
MCAdmins == {u1}
MCTasks == {t1}
MCEditors == {e1}
MCCompleters == {c1, c2}
MCBadTitles == {""}
MCRawInputs == {Dishes, Better, Nobodys}
MCSeed == t1 :> Dishes
=============================================================================
