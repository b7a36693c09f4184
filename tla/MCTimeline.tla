------------------------------- MODULE MCTimeline -------------------------------
(* Instances of Timeline for TLC. *)
EXTENDS Timeline

CONSTANTS ann, body, c1, c2

Top == [author |-> ann, body |-> body, parent |-> None, root |-> None]
Under(p, top) == [author |-> ann, body |-> body, parent |-> p, root |-> top]

Table(rows) == [p \in PostIds |-> IF p \in DOMAIN rows THEN rows[p] ELSE None]

\* Two posts, with room for two more; a thread with room for one; and four rows.
MCTables ==
    {Table([p \in {1, 3} |-> Top]),
     Table([p \in 1 .. 3 |-> IF p = 2 THEN Under(1, 1) ELSE Top]),
     Table([p \in 1 .. 4 |-> IF p = 3 THEN Under(2, 2) ELSE Top])}

Symmetry == Permutations(Calls)
=============================================================================
