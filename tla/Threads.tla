-------------------------------- MODULE Threads --------------------------------
(***************************************************************************)
(* What the table of posts promises, whatever overlaps: a post, a reply,   *)
(* an edit or a deletion takes effect in one step.  A reply hangs on a     *)
(* post that is there and belongs to its thread; only a post that nothing  *)
(* hangs on goes.  PostThreads implements this; Timeline reads it.         *)
(***************************************************************************)
EXTENDS Naturals

CONSTANTS
    Users,
    PostIds,
    Bodies,
    None

VARIABLE posts

Post == [author : Users, body : Bodies,
         parent : PostIds \cup {None}, root : PostIds \cup {None}]

IsStored(p) == posts[p] # None

TopOf(p) == IF posts[p].root = None THEN p ELSE posts[p].root

\* The two lists of a reader.
Tops == {p \in PostIds : IsStored(p) /\ posts[p].parent = None}
Answers(p) == {q \in PostIds : IsStored(q) /\ posts[q].parent = p}

ThreadsInit == posts = [p \in PostIds |-> None]

Begin(u, b, p) ==
    /\ ~IsStored(p)
    /\ posts' = [posts EXCEPT ![p] = [author |-> u, body |-> b, parent |-> None, root |-> None]]

Answer(u, b, p, q) ==
    /\ IsStored(p) /\ ~IsStored(q)
    /\ posts' = [posts EXCEPT ![q] = [author |-> u, body |-> b, parent |-> p, root |-> TopOf(p)]]

Edit(p, b) ==
    /\ IsStored(p)
    /\ posts' = [posts EXCEPT ![p].body = b]

Delete(p) ==
    /\ IsStored(p)
    /\ \A q \in PostIds : IsStored(q) => p \notin {posts[q].parent, posts[q].root}
    /\ posts' = [posts EXCEPT ![p] = None]

ThreadsNext ==
    \E p \in PostIds :
        \/ Delete(p)
        \/ \E b \in Bodies :
             \/ Edit(p, b)
             \/ \E u \in Users : Begin(u, b, p) \/ \E q \in PostIds : Answer(u, b, p, q)

ThreadsSpec == ThreadsInit /\ [][ThreadsNext]_posts
=============================================================================
