----------------------------- MODULE PointsLedger -----------------------------
(***************************************************************************)
(* What the task API promises about points: completing a task on a day     *)
(* pays its user once, and the completion and the payment appear together. *)
(***************************************************************************)
EXTENDS Integers

CONSTANTS Users, Tasks, Days, MaxInt

VARIABLES
    paid,        \* completions that have been paid, with what they paid
    points       \* the balance of each user

ledgerVars == <<paid, points>>

Payment == [task : Tasks, user : Users, day : Days, award : 0 .. MaxInt]

Paid(t, u, d) == \E p \in paid : p.task = t /\ p.user = u /\ p.day = d

LedgerInit ==
    /\ paid = {}
    /\ points = [u \in Users |-> 0]

Pay(t, u, d, award) ==
    /\ ~Paid(t, u, d)
    /\ points[u] + award =< MaxInt
    /\ paid' = paid \cup {[task |-> t, user |-> u, day |-> d, award |-> award]}
    /\ points' = [points EXCEPT ![u] = @ + award]

LedgerNext ==
    \E t \in Tasks, u \in Users, d \in Days, award \in 0 .. MaxInt : Pay(t, u, d, award)

LedgerSpec == LedgerInit /\ [][LedgerNext]_ledgerVars
=============================================================================
