---------------------------- MODULE MCAuthSessions ----------------------------
(* Values for checking AuthSessions: one or two accounts, of which bob's       *)
(* clients wait for their answers, three tokens (a login and two rotations, or *)
(* two logins and a rotation) and two requests at a time.                      *)
EXTENDS AuthSessions, TLC

CONSTANTS ann, bob, t1, t2, t3, r1, r2

OneEmail == {ann}
TwoEmails == {ann, bob}
Bob == {bob}
Nobody == {}
MCHandles == {"a", "b"}
MCPasswords == {"right", "wrong"}
OnePassword == {"right"}
OneHandle == {"a"}
MCTokens == {t1, t2, t3}
MCHandlers == {r1, r2}

TokenSymmetry == Permutations(Tokens) \cup Permutations(Handlers)
=============================================================================
