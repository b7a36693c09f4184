----------------------------- MODULE MCPostThreads -----------------------------
(* Instances of PostThreads for TLC. *)
EXTENDS PostThreads, TLC

CONSTANTS ann, bob, p1, p2, p3, p4, w1, w2, w3

\* A body of three characters, one of three that fills seven bytes (past the
\* limit of four that stands for 280), and the empty one.
short == [chars |-> 3, bytes |-> 3]
emoji == [chars |-> 3, bytes |-> 7]
empty == [chars |-> 0, bytes |-> 0]

MCBodies == {short, emoji, empty}

Symmetry == Permutations(PostIds) \cup Permutations(Writers) \cup Permutations(Users)
=============================================================================
