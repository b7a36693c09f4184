------------------------------ MODULE PostThreads ------------------------------
(***************************************************************************)
(* Posts and replies: createPost, createReply, updatePost and deletePost   *)
(* over the table posts, whose parent_post_id and root_post_id refer back  *)
(* to it.  Every handler runs one statement in autocommit, yet a reply and *)
(* a deletion are several steps: the reply reads its parent in a snapshot, *)
(* inserts, and its foreign keys then lock the two posts it hangs on; the  *)
(* deletion locks its row first and looks for references afterwards        *)
(* (NO ACTION).  What the locks stop is Postgres's part (READ COMMITTED).  *)
(***************************************************************************)
EXTENDS Integers

CONSTANTS
    Users,
    PostIds,     \* values gen_random_uuid may draw, never the same one twice
    Bodies,      \* trimmed bodies, as [chars, bytes]
    Writers,     \* request goroutines
    MaxBody,     \* 280
    None         \* no row, no parent

VARIABLES
    posts,       \* table posts: the committed row of each id
    drawn,       \* ids an INSERT has used, committed or not
    write        \* what each writer's statement is doing

postVars == <<posts, drawn, write>>

----------------------------------------------------------------------------
\* The length is that of the Go string: bytes.
parsePostBody(b) == b.bytes \in 1 .. MaxBody

Accepted == {b \in Bodies : parsePostBody(b)}

Post == [author : Users, body : Bodies,
         parent : PostIds \cup {None}, root : PostIds \cup {None}]

ASSUME PostAssumption ==
    /\ MaxBody \in Nat \ {0}
    /\ Bodies \subseteq {b \in [chars : Nat, bytes : Nat] :
                           b.chars =< b.bytes /\ (b.chars = 0 => b.bytes = 0)}
    /\ None \notin PostIds /\ None \notin Post

Idle == [at |-> "idle"]

\* A reply: "read" (parent and root are known), "inserted" (its row is written
\* and the parent locked FOR KEY SHARE), "linked" (the root is locked too).
Reply == [at : {"read", "inserted", "linked"}, author : Users, body : Bodies,
          parent : PostIds, root : PostIds, new : PostIds]

\* A deletion: the row is locked, references are not looked for yet.
Deletion == [at : {"deleting"}, post : PostIds]

Stored(p) == p \in PostIds /\ posts[p] # None

Deleting(p) == \E w \in Writers : write[w].at = "deleting" /\ write[w].post = p

\* FOR KEY SHARE locks of the replies that have not ended.
Shared(p) ==
    \E w \in Writers :
        \/ write[w].at \in {"inserted", "linked"} /\ write[w].parent = p
        \/ write[w].at = "linked" /\ write[w].root = p

RefersTo(q, p) == Stored(q) /\ p \in {posts[q].parent, posts[q].root}

PostInit ==
    /\ posts = [p \in PostIds |-> None]
    /\ drawn = {}
    /\ write = [w \in Writers |-> Idle]

----------------------------------------------------------------------------
createPost(u, b, p) ==
    /\ b \in Accepted
    /\ p \notin drawn
    /\ drawn' = drawn \cup {p}
    /\ posts' = [posts EXCEPT ![p] = [author |-> u, body |-> b, parent |-> None, root |-> None]]
    /\ UNCHANGED write

\* Mutant: the root of a reply is the post it answers.
RootOfParent(p) == p

\* COALESCE(root_post_id, id)
RootOf(p) == IF posts[p].root = None THEN p ELSE posts[p].root

\* The CTE parent: without that row the handler answers 404.
createReply(w, u, b, p, new) ==
    /\ write[w].at = "idle"
    /\ b \in Accepted
    /\ Stored(p)
    /\ new \notin drawn
    /\ drawn' = drawn \cup {new}
    /\ write' = [write EXCEPT ![w] = [at |-> "read", author |-> u, body |-> b, parent |-> p,
                                      root |-> RootOf(p), new |-> new]]
    /\ UNCHANGED posts

\* Mutant: parent_post_id without REFERENCES.
LinkParentUnchecked(w) ==
    /\ write[w].at = "read"
    /\ write' = [write EXCEPT ![w].at = "inserted"]
    /\ UNCHANGED <<posts, drawn>>

\* The INSERT and the first foreign key: a deleted parent is an error (500).
LinkParent(w) ==
    /\ write[w].at = "read"
    /\ ~Deleting(write[w].parent)
    /\ write' = IF Stored(write[w].parent)
                  THEN [write EXCEPT ![w].at = "inserted"]
                  ELSE [write EXCEPT ![w] = Idle]
    /\ UNCHANGED <<posts, drawn>>

LinkRoot(w) ==
    /\ write[w].at = "inserted"
    /\ ~Deleting(write[w].root)
    /\ write' = IF Stored(write[w].root)
                  THEN [write EXCEPT ![w].at = "linked"]
                  ELSE [write EXCEPT ![w] = Idle]
    /\ UNCHANGED <<posts, drawn>>

CommitReply(w) ==
    LET r == write[w] IN
    /\ r.at = "linked"
    /\ posts' = [posts EXCEPT ![r.new] = [author |-> r.author, body |-> r.body,
                                          parent |-> r.parent, root |-> r.root]]
    /\ write' = [write EXCEPT ![w] = Idle]
    /\ UNCHANGED drawn

\* Waits while the row is being deleted, not while replies share it.  For a row
\* that is missing or not the caller's the answer is 404.
updatePost(u, p, b) ==
    /\ b \in Accepted
    /\ Stored(p) /\ posts[p].author = u
    /\ ~Deleting(p)
    /\ posts' = [posts EXCEPT ![p].body = b]
    /\ UNCHANGED <<drawn, write>>

----------------------------------------------------------------------------
\* The DELETE finds the caller's row and locks it; one that matches nothing is
\* answered 204 as well.
deletePost(w, u, p) ==
    /\ write[w].at = "idle"
    /\ Stored(p) /\ posts[p].author = u
    /\ ~Deleting(p) /\ ~Shared(p)
    /\ write' = [write EXCEPT ![w] = [at |-> "deleting", post |-> p]]
    /\ UNCHANGED <<posts, drawn>>

\* Mutant: the references are looked up FOR UPDATE.
RefuseDeleteExclusive(w) ==
    /\ write[w].at = "deleting"
    /\ \E q \in PostIds : RefersTo(q, write[w].post) /\ ~Deleting(q) /\ ~Shared(q)
    /\ write' = [write EXCEPT ![w] = Idle]
    /\ UNCHANGED <<posts, drawn>>

\* A committed reply that nobody is deleting refuses the deletion (500).
RefuseDelete(w) ==
    /\ write[w].at = "deleting"
    /\ \E q \in PostIds : RefersTo(q, write[w].post) /\ ~Deleting(q)
    /\ write' = [write EXCEPT ![w] = Idle]
    /\ UNCHANGED <<posts, drawn>>

\* Mutant: root_post_id and parent_post_id are no foreign keys.
CommitDeleteAlways(w) ==
    /\ write[w].at = "deleting"
    /\ posts' = [posts EXCEPT ![write[w].post] = None]
    /\ write' = [write EXCEPT ![w] = Idle]
    /\ UNCHANGED drawn

\* References that are being deleted themselves are waited for.
CommitDelete(w) ==
    /\ write[w].at = "deleting"
    /\ \A q \in PostIds : ~RefersTo(q, write[w].post)
    /\ posts' = [posts EXCEPT ![write[w].post] = None]
    /\ write' = [write EXCEPT ![w] = Idle]
    /\ UNCHANGED drawn

\* The statement fails or its connection is lost; nothing was committed.
FailWrite(w) ==
    /\ write[w].at # "idle"
    /\ write' = [write EXCEPT ![w] = Idle]
    /\ UNCHANGED <<posts, drawn>>

Linking(w) == LinkParent(w) \/ LinkRoot(w)
Ending(w) == CommitReply(w) \/ RefuseDelete(w) \/ CommitDelete(w)

PostNext ==
    \/ \E u \in Users, p \in PostIds :
         \/ \E b \in Bodies : createPost(u, b, p) \/ updatePost(u, p, b)
         \/ \E w \in Writers :
              \/ deletePost(w, u, p)
              \/ \E b \in Bodies, new \in PostIds : createReply(w, u, b, p, new)
    \/ \E w \in Writers : Linking(w) \/ Ending(w) \/ FailWrite(w)

PostSpec == PostInit /\ [][PostNext]_postVars

\* A statement runs on when it may; whoever waits for a row gets it in the order
\* of the lock queue, hence strong fairness.
FairPostSpec ==
    /\ PostSpec
    /\ \A w \in Writers : SF_postVars(Ending(w)) /\ SF_postVars(Linking(w))

----------------------------------------------------------------------------
(* What the lists show *)

listPosts == {p \in PostIds : Stored(p) /\ posts[p].parent = None}

listPostReplies(p) == {q \in PostIds : Stored(q) /\ posts[q].parent = p}

----------------------------------------------------------------------------
(* Properties *)

\* Rows and requests have their types, and a body the handler lets through in
\* bytes meets the CHECK of the column in characters.
PostTypeOK ==
    /\ posts \in [PostIds -> Post \cup {None}]
    /\ drawn \subseteq PostIds
    /\ write \in [Writers -> Reply \cup Deletion \cup {Idle}]
    /\ \A p \in PostIds : Stored(p) => posts[p].body.chars \in 1 .. MaxBody

\* A thread is whole: a reply hangs on a stored post of the same thread, and the
\* root it names is the stored top of it, whoever deletes what meanwhile.
ThreadsIntact ==
    \A q \in PostIds :
        Stored(q) /\ posts[q].parent # None =>
            /\ Stored(posts[q].parent) /\ Stored(posts[q].root)
            /\ posts[posts[q].root].parent = None
            /\ posts[q].root = RootOf(posts[q].parent)

\* Nothing is hidden: starting at listPosts and following listPostReplies a
\* reader gets to every stored post (no set of posts hangs only on itself).
EveryPostListed ==
    \A S \in SUBSET PostIds :
        S # {} /\ (\A q \in S : Stored(q)) =>
            \E q \in S : q \in listPosts \/ \E p \in PostIds \ S : Stored(p) /\ q \in listPostReplies(p)

\* What a reply in progress hangs on stays: its parent from the first foreign
\* key on, its root from the second.
LinksHeld ==
    \A w \in Writers :
        /\ write[w].at \in {"inserted", "linked"} =>
             Stored(write[w].parent) /\ ~Deleting(write[w].parent) /\ ~Stored(write[w].new)
        /\ write[w].at = "linked" => Stored(write[w].root) /\ ~Deleting(write[w].root)
        /\ write[w].at = "deleting" => Stored(write[w].post)

\* A post keeps its author and its place; it goes only when nothing hangs on it.
PlacesKept ==
    [][\A p \in PostIds :
          Stored(p) =>
            IF posts'[p] = None
              THEN \A q \in PostIds : ~RefersTo(q, p)
              ELSE posts'[p] = [posts[p] EXCEPT !.body = posts'[p].body]]_postVars

Served == INSTANCE Threads

\* The handlers, their snapshots and the locks implement Threads: every post,
\* reply, edit and deletion appears in one step, the reply on a post that is
\* there, in the thread of that post, and the deletion of what nothing hangs on.
ImplementsThreads == Served!ThreadsSpec

\* Replies and deletions that wait for each other's rows all get an answer.
WritesFinish == \A w \in Writers : write[w].at # "idle" ~> write[w].at = "idle"

\* What the handler's message and the schema's CHECK (char_length(body) BETWEEN
\* 1 AND 280) promise: a body of 1 to 280 characters is accepted.
BodiesOfLengthAccepted ==
    \A u \in Users, b \in Bodies, p \in PostIds \ drawn :
        b.chars \in 1 .. MaxBody => ENABLED createPost(u, b, p)
=============================================================================
