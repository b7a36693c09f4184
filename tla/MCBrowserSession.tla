--------------------------- MODULE MCBrowserSession ---------------------------
(* Two people, two tabs, two calls at a time: then at most three tokens are   *)
(* held when a fourth is drawn.                                               *)
EXTENDS BrowserSession, TLC

CONSTANTS ann, bob, left, right, c1, c2, t1, t2, t3, t4

Symmetry == Permutations(Users) \cup Permutations(Tokens) \cup Permutations(Tabs)
              \cup Permutations(Calls)
=============================================================================
