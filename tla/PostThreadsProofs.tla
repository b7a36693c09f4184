--------------------------- MODULE PostThreadsProofs ---------------------------
(***************************************************************************)
(* Proofs about PostThreads for any users, posts, bodies and requests.     *)
(* WritesFit is the strengthening: what a reply has read of its thread is  *)
(* still true while its parent is there, and ids are never shared.         *)
(***************************************************************************)
EXTENDS PostThreads, TLAPS

IsReply(r) == r.at \in {"read", "inserted", "linked"}

\* One request against the table.
Fits(r) ==
    /\ IsReply(r) =>
         /\ r.new \in drawn /\ posts[r.new] = None
         /\ r.body.chars \in 1 .. MaxBody
         /\ r.parent \in drawn /\ r.parent # r.new
         /\ posts[r.parent] # None => r.root = RootOf(r.parent)
    /\ r.at \in {"inserted", "linked"} => posts[r.parent] # None
    /\ r.at = "linked" => posts[r.root] # None
    /\ r.at = "deleting" => posts[r.post] # None

\* Two requests against each other.
Apart(q, r) ==
    /\ IsReply(q) /\ IsReply(r) => q.new # r.new /\ q.parent # r.new
    /\ q.at = "deleting" /\ r.at = "deleting" => q.post # r.post
    /\ q.at = "deleting" /\ r.at \in {"inserted", "linked"} => q.post # r.parent
    /\ q.at = "deleting" /\ r.at = "linked" => q.post # r.root

WritesFit ==
    /\ \A w \in Writers : Fits(write[w])
    /\ \A w, v \in Writers : w # v => Apart(write[w], write[v])

\* The rows by themselves.
RowsSound ==
    /\ \A p \in PostIds : Stored(p) => p \in drawn
    /\ \A p \in PostIds : Stored(p) => (posts[p].parent = None <=> posts[p].root = None)
    /\ ThreadsIntact
    /\ EveryPostListed

PostInv == PostTypeOK /\ RowsSound /\ WritesFit

LEMMA PostInvInit == PostInit => PostInv
<1> SUFFICES ASSUME PostInit PROVE PostInv
    OBVIOUS
<1>1. PostTypeOK
    BY DEF PostInit, PostTypeOK, Stored
<1>2. RowsSound
    BY DEF PostInit, RowsSound, ThreadsIntact, EveryPostListed, Stored
<1>3. WritesFit
    BY DEF PostInit, WritesFit, Fits, Apart, IsReply, Idle
<1>4. QED
    BY <1>1, <1>2, <1>3 DEF PostInv

LEMMA NoneIsNoPost == \A row \in Post : row # None
    BY PostAssumption

\* The columns of a stored row, and the top of its thread.
LEMMA RowTyped ==
    ASSUME PostTypeOK, NEW p \in PostIds, posts[p] # None
    PROVE  /\ posts[p] \in Post /\ posts[p].author \in Users /\ posts[p].body \in Bodies
           /\ posts[p].parent \in PostIds \cup {None} /\ posts[p].root \in PostIds \cup {None}
    BY DEF PostTypeOK, Post

LEMMA TopOfThread ==
    ASSUME PostTypeOK, RowsSound, NEW p \in PostIds, posts[p] # None
    PROVE  /\ RootOf(p) \in PostIds /\ posts[RootOf(p)] # None
           /\ posts[RootOf(p)].parent = None
<1>1. CASE posts[p].root = None
    BY <1>1 DEF RowsSound, RootOf, Stored
<1>2. CASE posts[p].root # None
    BY <1>2 DEF RowsSound, ThreadsIntact, RootOf, Stored
<1>3. QED
    BY <1>1, <1>2

----------------------------------------------------------------------------
(* Steps that leave the rows alone. *)

LEMMA RequestStep ==
    ASSUME PostInv, posts' = posts, drawn \subseteq drawn', drawn' \subseteq PostIds,
           NEW w \in Writers, NEW r \in Reply \cup Deletion \cup {Idle},
           write' = [write EXCEPT ![w] = r],
           Fits(r)',
           \A v \in Writers \ {w} : Apart(r, write[v]) /\ Apart(write[v], r)
    PROVE  PostInv'
<1>1. PostTypeOK /\ RowsSound /\ WritesFit
    BY DEF PostInv
<1>2. PostTypeOK'
    BY <1>1 DEF PostTypeOK, Stored
<1>3. RowsSound'
    BY <1>1 DEF RowsSound, ThreadsIntact, EveryPostListed, listPosts, listPostReplies, Stored, RootOf
<1>4. \A v \in Writers : write'[v] = IF v = w THEN r ELSE write[v]
    BY <1>1 DEF PostTypeOK
<1>5. ASSUME NEW v \in Writers PROVE Fits(write[v])'
    <2>1. CASE v = w
        BY <1>4, <2>1
    <2>2. CASE v # w
        BY <1>1, <1>4, <2>2 DEF WritesFit, Fits, IsReply, RootOf
    <2>3. QED
        BY <2>1, <2>2
<1>6. ASSUME NEW v \in Writers, NEW u \in Writers, v # u PROVE Apart(write[v], write[u])'
    <2>1. Apart(IF v = w THEN r ELSE write[v], IF u = w THEN r ELSE write[u])
        BY <1>1, <1>6 DEF WritesFit
    <2>2. QED
        BY <1>4, <2>1 DEF Apart, IsReply
<1>7. QED
    BY <1>2, <1>3, <1>5, <1>6 DEF PostInv, WritesFit

\* A statement that ends without having committed anything.
LEMMA IdleStep ==
    ASSUME PostInv, NEW w \in Writers, write' = [write EXCEPT ![w] = Idle],
           UNCHANGED <<posts, drawn>>
    PROVE  PostInv'
<1>1. Fits(Idle)' /\ \A v \in Writers \ {w} : Apart(Idle, write[v]) /\ Apart(write[v], Idle)
    BY DEF Fits, Apart, IsReply, Idle
<1>2. drawn \subseteq drawn' /\ drawn' \subseteq PostIds
    BY DEF PostInv, PostTypeOK
<1>3. QED
    BY <1>1, <1>2, RequestStep

LEMMA CreateReplyKeepsInv ==
    ASSUME PostInv, NEW w \in Writers, NEW u \in Users, NEW b \in Bodies,
           NEW p \in PostIds, NEW new \in PostIds, createReply(w, u, b, p, new)
    PROVE  PostInv'
<1>1. /\ PostTypeOK /\ RowsSound /\ WritesFit
      /\ posts[p] # None /\ new \notin drawn /\ b \in Accepted
      /\ posts' = posts /\ drawn' = drawn \cup {new}
    BY DEF PostInv, createReply, Stored
<1>2. PICK r \in Reply : /\ r = [at |-> "read", author |-> u, body |-> b, parent |-> p,
                                 root |-> RootOf(p), new |-> new]
                         /\ write' = [write EXCEPT ![w] = r]
    BY <1>1, TopOfThread DEF Reply, createReply
<1>3. b.chars \in 1 .. MaxBody
    BY <1>1, PostAssumption DEF Accepted, parsePostBody
<1>4. posts[new] = None /\ p \in drawn
    BY <1>1 DEF RowsSound, Stored
<1>5. Fits(r)'
    BY <1>1, <1>2, <1>3, <1>4 DEF Fits, IsReply, RootOf
<1>6. ASSUME NEW v \in Writers \ {w} PROVE Apart(r, write[v]) /\ Apart(write[v], r)
    BY <1>1, <1>2, <1>4 DEF WritesFit, Fits, Apart, IsReply
<1>7. drawn \subseteq drawn' /\ drawn' \subseteq PostIds
    BY <1>1 DEF PostTypeOK
<1>8. QED
    BY <1>1, <1>2, <1>5, <1>6, <1>7, RequestStep

\* A reply that got its next foreign key: its parent, or the root.
LEMMA Linked ==
    ASSUME PostInv, NEW w \in Writers, UNCHANGED <<posts, drawn>>,
           \/ /\ write[w].at = "read" /\ Stored(write[w].parent) /\ ~Deleting(write[w].parent)
              /\ write' = [write EXCEPT ![w].at = "inserted"]
           \/ /\ write[w].at = "inserted" /\ Stored(write[w].root) /\ ~Deleting(write[w].root)
              /\ write' = [write EXCEPT ![w].at = "linked"]
    PROVE  PostInv'
<1>1. PostTypeOK /\ WritesFit /\ drawn \subseteq drawn' /\ drawn' \subseteq PostIds
    BY DEF PostInv, PostTypeOK
<1>2. write[w] \in Reply /\ Fits(write[w])
    BY <1>1 DEF PostTypeOK, Deletion, Idle, WritesFit
<1>3. PICK at \in {"inserted", "linked"} :
         /\ write' = [write EXCEPT ![w] = [write[w] EXCEPT !.at = at]]
         /\ at = "inserted" => /\ write[w].at = "read" /\ Stored(write[w].parent)
                               /\ ~Deleting(write[w].parent)
         /\ at = "linked" => /\ write[w].at = "inserted" /\ Stored(write[w].root)
                             /\ ~Deleting(write[w].root)
    OBVIOUS
<1>4. PICK r \in Reply : r = [write[w] EXCEPT !.at = at]
    BY <1>2, <1>3 DEF Reply
<1>5. /\ r.at = at /\ r.new = write[w].new /\ r.parent = write[w].parent
      /\ r.root = write[w].root /\ r.body = write[w].body
    BY <1>2, <1>4 DEF Reply
<1>6. Fits(r)'
    BY <1>2, <1>3, <1>5 DEF Fits, IsReply, Stored, RootOf
<1>7. ASSUME NEW v \in Writers \ {w} PROVE Apart(r, write[v]) /\ Apart(write[v], r)
    <2>1. Apart(write[w], write[v]) /\ Apart(write[v], write[w])
        BY <1>1 DEF WritesFit
    <2>2. QED
        BY <1>3, <1>5, <2>1 DEF Apart, IsReply, Deleting
<1>8. QED
    BY <1>1, <1>3, <1>4, <1>6, <1>7, RequestStep

LEMMA LinkKeepsInv ==
    ASSUME PostInv, NEW w \in Writers, Linking(w)
    PROVE  PostInv'
<1>1. UNCHANGED <<posts, drawn>>
    BY DEF Linking, LinkParent, LinkRoot
<1>2. \/ write' = [write EXCEPT ![w] = Idle]
      \/ /\ write[w].at = "read" /\ Stored(write[w].parent) /\ ~Deleting(write[w].parent)
         /\ write' = [write EXCEPT ![w].at = "inserted"]
      \/ /\ write[w].at = "inserted" /\ Stored(write[w].root) /\ ~Deleting(write[w].root)
         /\ write' = [write EXCEPT ![w].at = "linked"]
    BY DEF Linking, LinkParent, LinkRoot
<1>3. QED
    BY <1>1, <1>2, IdleStep, Linked

LEMMA DeletePostKeepsInv ==
    ASSUME PostInv, NEW w \in Writers, NEW u \in Users, NEW p \in PostIds, deletePost(w, u, p)
    PROVE  PostInv'
<1> DEFINE r == [at |-> "deleting", post |-> p]
<1>1. /\ PostTypeOK /\ WritesFit /\ posts[p] # None /\ ~Deleting(p) /\ ~Shared(p)
      /\ UNCHANGED <<posts, drawn>> /\ write' = [write EXCEPT ![w] = r]
    BY DEF PostInv, deletePost, Stored
<1>2. r \in Deletion /\ drawn \subseteq drawn' /\ drawn' \subseteq PostIds
    BY <1>1 DEF Deletion, PostTypeOK
<1>3. Fits(r)'
    BY <1>1 DEF Fits, IsReply
<1>4. ASSUME NEW v \in Writers \ {w} PROVE Apart(r, write[v]) /\ Apart(write[v], r)
    BY <1>1 DEF Apart, IsReply, Deleting, Shared
<1>5. QED
    BY <1>1, <1>2, <1>3, <1>4, RequestStep

----------------------------------------------------------------------------
(* Steps that write the table. *)

\* EveryPostListed without the lists, in a state and in the next one.
LEMMA Listed ==
    ASSUME EveryPostListed, NEW S \in SUBSET PostIds, S # {}, \A q \in S : posts[q] # None
    PROVE  \E q \in S : \/ posts[q].parent = None
                        \/ posts[q].parent \in PostIds \ S /\ posts[posts[q].parent] # None
<1>1. PICK q \in S : q \in listPosts \/ \E p \in PostIds \ S : Stored(p) /\ q \in listPostReplies(p)
    BY DEF EveryPostListed, Stored
<1>2. QED
    BY <1>1 DEF listPosts, listPostReplies, Stored

LEMMA ListedPrimed ==
    ASSUME \A S \in SUBSET PostIds :
               S # {} /\ (\A q \in S : posts'[q] # None) =>
                   \E q \in S : \/ posts'[q].parent = None
                                \/ posts'[q].parent \in PostIds \ S
                                   /\ posts'[posts'[q].parent] # None
    PROVE  EveryPostListed'
<1>1. ASSUME NEW S \in SUBSET PostIds, S # {}, \A q \in S : Stored(q)'
      PROVE  \E q \in S : \/ (q \in listPosts)'
                          \/ \E p \in PostIds \ S : Stored(p)' /\ (q \in listPostReplies(p))'
    <2>1. \A q \in S : posts'[q] # None
        BY <1>1 DEF Stored
    <2>2. PICK q \in S : \/ posts'[q].parent = None
                         \/ posts'[q].parent \in PostIds \ S /\ posts'[posts'[q].parent] # None
        BY <1>1, <2>1
    <2>3. q \in PostIds /\ posts'[q] # None
        BY <2>1
    <2>4. QED
        BY <2>2, <2>3 DEF listPosts, listPostReplies, Stored
<1>2. QED
    BY <1>1 DEF EveryPostListed

\* A new row, at the top or under a stored post: nothing refers to it yet.
LEMMA NewRow ==
    ASSUME PostTypeOK, RowsSound, NEW p \in PostIds, NEW row \in Post,
           posts[p] = None, posts' = [posts EXCEPT ![p] = row],
           drawn \subseteq drawn', p \in drawn',
           \/ row.parent = None /\ row.root = None
           \/ row.parent \in PostIds /\ posts[row.parent] # None /\ row.root = RootOf(row.parent)
    PROVE  RowsSound'
<1>1. row # None
    BY NoneIsNoPost
<1>2. posts'[p] = row /\ \A q \in PostIds \ {p} : posts'[q] = posts[q]
    BY DEF PostTypeOK
<1>3. \A q \in PostIds : posts[q] # None => q # p /\ posts'[q] = posts[q] /\ RootOf(q)' = RootOf(q)
    BY <1>2 DEF RootOf
<1>4. \A q \in PostIds : posts[q] # None => posts[q].parent # p /\ posts[q].root # p
    BY RowTyped, PostAssumption DEF RowsSound, ThreadsIntact, Stored
<1>5. row.parent # None => /\ posts[row.root] # None /\ row.root \in PostIds
                           /\ posts[row.root].parent = None /\ row.root # None
    BY TopOfThread, PostAssumption
<1>6. \A q \in PostIds : Stored(q)' => q \in drawn'
    BY <1>2 DEF RowsSound, Stored
<1>7. \A q \in PostIds : Stored(q)' => (posts'[q].parent = None <=> posts'[q].root = None)
    BY <1>2, <1>5, PostAssumption DEF RowsSound, Stored
<1>8. ThreadsIntact'
    <2> SUFFICES ASSUME NEW q \in PostIds, posts'[q] # None, posts'[q].parent # None
                 PROVE  /\ Stored(posts[q].parent)' /\ Stored(posts[q].root)'
                        /\ posts'[posts'[q].root].parent = None
                        /\ posts'[q].root = RootOf(posts[q].parent)'
        BY DEF ThreadsIntact, Stored
    <2>1. CASE q = p
        BY <1>2, <1>3, <1>5, <2>1 DEF Stored
    <2>2. CASE q # p
        <3>1. /\ posts'[q] = posts[q]
              /\ Stored(posts[q].parent) /\ Stored(posts[q].root)
              /\ posts[posts[q].root].parent = None
              /\ posts[q].root = RootOf(posts[q].parent)
            BY <1>2, <2>2 DEF RowsSound, ThreadsIntact, Stored
        <3>2. QED
            BY <1>3, <3>1 DEF Stored
    <2>3. QED
        BY <2>1, <2>2
<1>9. EveryPostListed'
    <2> SUFFICES ASSUME NEW S \in SUBSET PostIds, S # {}, \A q \in S : posts'[q] # None
                 PROVE  \E q \in S : \/ posts'[q].parent = None
                                     \/ posts'[q].parent \in PostIds \ S
                                        /\ posts'[posts'[q].parent] # None
        BY ListedPrimed
    <2>1. CASE S = {p}
        BY <1>2, <1>3, <2>1
    <2>2. CASE S # {p}
        <3> DEFINE T == S \ {p}
        <3>1. T # {} /\ T \in SUBSET PostIds /\ \A q \in T : Stored(q)
            BY <1>2, <2>2 DEF Stored
        <3>2. PICK q \in T : \/ posts[q].parent = None
                             \/ posts[q].parent \in PostIds \ T /\ posts[posts[q].parent] # None
            BY <3>1, Listed DEF RowsSound, Stored
        <3>3. posts'[q] = posts[q] /\ posts[q].parent # p
            BY <1>2, <1>4, <3>1 DEF Stored
        <3>4. QED
            BY <1>3, <3>2, <3>3
    <2>3. QED
        BY <2>1, <2>2
<1>10. QED
    BY <1>6, <1>7, <1>8, <1>9 DEF RowsSound

LEMMA CreatePostKeepsInv ==
    ASSUME PostInv, NEW u \in Users, NEW b \in Bodies, NEW p \in PostIds, createPost(u, b, p)
    PROVE  PostInv'
<1>1. /\ PostTypeOK /\ RowsSound /\ WritesFit /\ b \in Accepted /\ p \notin drawn
      /\ drawn' = drawn \cup {p} /\ write' = write
    BY DEF PostInv, createPost
<1>2. PICK row \in Post : /\ row = [author |-> u, body |-> b, parent |-> None, root |-> None]
                          /\ posts' = [posts EXCEPT ![p] = row]
    BY DEF Post, createPost
<1>3. posts[p] = None /\ drawn' \subseteq PostIds
    BY <1>1 DEF RowsSound, PostTypeOK, Stored
<1>4. posts'[p] = row /\ \A q \in PostIds \ {p} : posts'[q] = posts[q]
    BY <1>1, <1>2 DEF PostTypeOK
<1>5. b.chars \in 1 .. MaxBody
    BY <1>1, PostAssumption DEF Accepted, parsePostBody
<1>6. PostTypeOK'
    BY <1>1, <1>2, <1>3, <1>4, <1>5 DEF PostTypeOK, Stored
<1>7. RowsSound'
    BY <1>1, <1>2, <1>3, NewRow
<1>8. WritesFit'
    <2>1. ASSUME NEW w \in Writers PROVE Fits(write[w])'
        <3>1. Fits(write[w]) /\ write[w] \in Reply \cup Deletion \cup {Idle}
            BY <1>1 DEF WritesFit, PostTypeOK
        <3>2. CASE IsReply(write[w])
            <4>1. write[w] \in Reply
                BY <3>1, <3>2 DEF Deletion, Idle, IsReply
            <4>2. /\ write[w].new \in PostIds \ {p} /\ write[w].parent \in PostIds \ {p}
                  /\ write[w].root \in PostIds
                BY <1>1, <3>1, <3>2, <4>1 DEF Fits, Reply
            <4>3. posts[write[w].root] # None => posts'[write[w].root] # None
                BY <1>3, <1>4, <4>2
            <4>4. QED
                BY <1>1, <1>4, <3>1, <3>2, <4>2, <4>3 DEF Fits, IsReply, RootOf
        <3>3. CASE ~IsReply(write[w])
            <4>1. write[w].at = "deleting" => write[w].post \in PostIds
                BY <3>1 DEF Reply, Deletion, Idle
            <4>2. QED
                BY <1>1, <1>3, <1>4, <3>1, <3>3, <4>1 DEF Fits, IsReply
        <3>4. QED
            BY <3>2, <3>3
    <2>2. QED
        BY <1>1, <2>1 DEF WritesFit, Apart, IsReply
<1>9. QED
    BY <1>6, <1>7, <1>8 DEF PostInv

LEMMA CommitReplyKeepsInv ==
    ASSUME PostInv, NEW w \in Writers, CommitReply(w)
    PROVE  PostInv'
<1> DEFINE r == write[w]
<1>1. /\ PostTypeOK /\ RowsSound /\ WritesFit /\ r.at = "linked"
      /\ write' = [write EXCEPT ![w] = Idle] /\ drawn' = drawn
    BY DEF PostInv, CommitReply
<1>2. r \in Reply /\ Fits(r)
    BY <1>1 DEF PostTypeOK, Deletion, Idle, WritesFit
<1>3. /\ r.new \in PostIds /\ r.new \in drawn /\ posts[r.new] = None
      /\ r.parent \in PostIds /\ posts[r.parent] # None /\ r.root = RootOf(r.parent)
      /\ r.body.chars \in 1 .. MaxBody
    BY <1>1, <1>2 DEF Fits, IsReply, Reply
<1>4. PICK row \in Post : /\ row.parent = r.parent /\ row.root = r.root /\ row.body = r.body
                          /\ posts' = [posts EXCEPT ![r.new] = row]
    BY <1>2 DEF Post, Reply, CommitReply
<1>5. PICK p \in PostIds : p = r.new
    BY <1>3
<1>6. posts'[p] = row /\ row # None /\ \A q \in PostIds \ {p} : posts'[q] = posts[q]
    BY <1>1, <1>4, <1>5, NoneIsNoPost DEF PostTypeOK
<1>7. PostTypeOK'
    BY <1>1, <1>3, <1>4, <1>5, <1>6 DEF PostTypeOK, Stored
<1>8. RowsSound'
    BY <1>1, <1>3, <1>4, <1>5, NewRow
<1>9. \A v \in Writers : write'[v] = IF v = w THEN Idle ELSE write[v]
    BY <1>1 DEF PostTypeOK
<1>10. WritesFit'
    <2>1. ASSUME NEW v \in Writers PROVE Fits(write[v])'
        <3>1. CASE v = w
            BY <1>9, <3>1 DEF Fits, IsReply, Idle
        <3>2. CASE v # w
            <4>1. /\ write'[v] = write[v] /\ Fits(write[v]) /\ Apart(r, write[v]) /\ Apart(write[v], r)
                  /\ write[v] \in Reply \cup Deletion \cup {Idle}
                BY <1>1, <1>9, <3>2 DEF WritesFit, PostTypeOK
            <4>2. CASE IsReply(write[v])
                <5>1. write[v] \in Reply
                    BY <4>1, <4>2 DEF Deletion, Idle, IsReply
                <5>2. /\ write[v].new \in PostIds \ {p} /\ write[v].parent \in PostIds \ {p}
                      /\ write[v].root \in PostIds
                    BY <1>1, <1>5, <4>1, <4>2, <5>1 DEF Apart, IsReply, Reply
                <5>3. posts[write[v].root] # None => posts'[write[v].root] # None
                    BY <1>6, <5>2
                <5>4. QED
                    BY <1>1, <1>6, <4>1, <4>2, <5>2, <5>3 DEF Fits, IsReply, RootOf
            <4>3. CASE ~IsReply(write[v])
                <5>1. write[v].at = "deleting" => write[v].post \in PostIds
                    BY <4>1 DEF Reply, Deletion, Idle
                <5>2. QED
                    BY <1>6, <4>1, <4>3, <5>1 DEF Fits, IsReply
            <4>4. QED
                BY <4>2, <4>3
        <3>3. QED
            BY <3>1, <3>2
    <2>2. ASSUME NEW v \in Writers, NEW x \in Writers, v # x PROVE Apart(write[v], write[x])'
        BY <1>1, <1>9, <2>2 DEF WritesFit, Apart, IsReply, Idle
    <2>3. QED
        BY <2>1, <2>2 DEF WritesFit
<1>11. QED
    BY <1>7, <1>8, <1>10 DEF PostInv

\* An edit changes one body and no link.
LEMMA UpdatePostKeepsInv ==
    ASSUME PostInv, NEW u \in Users, NEW p \in PostIds, NEW b \in Bodies, updatePost(u, p, b)
    PROVE  PostInv'
<1>1. /\ PostTypeOK /\ RowsSound /\ WritesFit /\ b \in Accepted /\ posts[p] # None
      /\ drawn' = drawn /\ write' = write
    BY DEF PostInv, updatePost, Stored
<1>2. posts[p] \in Post
    BY <1>1, RowTyped
<1>3. PICK row \in Post : /\ row = [posts[p] EXCEPT !.body = b]
                          /\ posts' = [posts EXCEPT ![p] = row]
    BY <1>2 DEF Post, updatePost
<1>4. /\ row # None /\ row.body = b
      /\ row.parent = posts[p].parent /\ row.root = posts[p].root
    BY <1>2, <1>3, NoneIsNoPost DEF Post
<1>5. posts'[p] = row /\ \A q \in PostIds \ {p} : posts'[q] = posts[q]
    BY <1>1, <1>3 DEF PostTypeOK
<1>6. \A q \in PostIds : /\ (posts'[q] # None) <=> (posts[q] # None)
                         /\ posts'[q].parent = posts[q].parent /\ posts'[q].root = posts[q].root
                         /\ RootOf(q)' = RootOf(q)
    BY <1>1, <1>4, <1>5 DEF RootOf
<1>7. b.chars \in 1 .. MaxBody
    BY <1>1, PostAssumption DEF Accepted, parsePostBody
<1>8. PostTypeOK'
    BY <1>1, <1>3, <1>4, <1>5, <1>7 DEF PostTypeOK, Stored
<1>9. ThreadsIntact'
    <2> SUFFICES ASSUME NEW q \in PostIds, posts'[q] # None, posts'[q].parent # None
                 PROVE  /\ Stored(posts[q].parent)' /\ Stored(posts[q].root)'
                        /\ posts'[posts'[q].root].parent = None
                        /\ posts'[q].root = RootOf(posts[q].parent)'
        BY DEF ThreadsIntact, Stored
    <2>1. /\ Stored(posts[q].parent) /\ Stored(posts[q].root)
          /\ posts[posts[q].root].parent = None
          /\ posts[q].root = RootOf(posts[q].parent)
        BY <1>1, <1>6 DEF RowsSound, ThreadsIntact, Stored
    <2>2. posts'[q].parent = posts[q].parent /\ posts'[q].root = posts[q].root
        BY <1>6
    <2>3. QED
        BY <1>6, <2>1, <2>2 DEF Stored
<1>10. EveryPostListed'
    <2> SUFFICES ASSUME NEW S \in SUBSET PostIds, S # {}, \A q \in S : posts'[q] # None
                 PROVE  \E q \in S : \/ posts'[q].parent = None
                                     \/ posts'[q].parent \in PostIds \ S
                                        /\ posts'[posts'[q].parent] # None
        BY ListedPrimed
    <2>1. \A q \in S : posts[q] # None
        BY <1>6
    <2>2. PICK q \in S : \/ posts[q].parent = None
                         \/ posts[q].parent \in PostIds \ S /\ posts[posts[q].parent] # None
        BY <1>1, <2>1, Listed DEF RowsSound
    <2>3. QED
        BY <1>6, <2>2
<1>11. RowsSound'
    BY <1>1, <1>6, <1>9, <1>10 DEF RowsSound, Stored
<1>12. WritesFit'
    <2>1. ASSUME NEW w \in Writers PROVE Fits(write[w])'
        <3>1. Fits(write[w]) /\ write[w] \in Reply \cup Deletion \cup {Idle}
            BY <1>1 DEF WritesFit, PostTypeOK
        <3>2. IsReply(write[w]) => /\ write[w].new \in PostIds /\ write[w].parent \in PostIds
                                   /\ write[w].root \in PostIds
            BY <3>1 DEF Reply, Deletion, Idle, IsReply
        <3>3. write[w].at = "deleting" => write[w].post \in PostIds
            BY <3>1 DEF Reply, Deletion, Idle
        <3>4. IsReply(write[w]) => RootOf(write[w].parent)' = RootOf(write[w].parent)
            BY <1>1, <1>6, <3>2 DEF RootOf
        <3>5. QED
            BY <1>1, <1>6, <3>1, <3>2, <3>3, <3>4 DEF Fits, IsReply
    <2>2. QED
        BY <1>1, <2>1 DEF WritesFit, Apart, IsReply
<1>13. QED
    BY <1>8, <1>11, <1>12 DEF PostInv

\* A deletion that found no reference takes nothing from anybody.
LEMMA CommitDeleteKeepsInv ==
    ASSUME PostInv, NEW w \in Writers, CommitDelete(w)
    PROVE  PostInv'
<1>1. /\ PostTypeOK /\ RowsSound /\ WritesFit /\ write[w].at = "deleting"
      /\ write' = [write EXCEPT ![w] = Idle] /\ drawn' = drawn
    BY DEF PostInv, CommitDelete
<1>2. write[w] \in Deletion
    BY <1>1 DEF PostTypeOK, Reply, Idle
<1>3. PICK p \in PostIds : p = write[w].post
    BY <1>2 DEF Deletion
<1>4. posts' = [posts EXCEPT ![p] = None] /\ \A q \in PostIds : ~RefersTo(q, p)
    BY <1>3 DEF CommitDelete
<1>5. posts'[p] = None /\ \A q \in PostIds \ {p} : posts'[q] = posts[q]
    BY <1>1, <1>4 DEF PostTypeOK
<1>6. PostTypeOK'
    BY <1>1, <1>4, <1>5 DEF PostTypeOK, Stored
<1>7. \A q \in PostIds : posts'[q] # None =>
          /\ q # p /\ posts'[q] = posts[q] /\ posts[q].parent # p /\ posts[q].root # p
    BY <1>4, <1>5 DEF RefersTo, Stored
<1>8. ThreadsIntact'
    <2> SUFFICES ASSUME NEW q \in PostIds, posts'[q] # None, posts'[q].parent # None
                 PROVE  /\ Stored(posts[q].parent)' /\ Stored(posts[q].root)'
                        /\ posts'[posts'[q].root].parent = None
                        /\ posts'[q].root = RootOf(posts[q].parent)'
        BY DEF ThreadsIntact, Stored
    <2>1. /\ Stored(posts[q].parent) /\ Stored(posts[q].root)
          /\ posts[posts[q].root].parent = None
          /\ posts[q].root = RootOf(posts[q].parent)
        BY <1>1, <1>7 DEF RowsSound, ThreadsIntact, Stored
    <2>2. QED
        BY <1>5, <1>7, <2>1 DEF Stored, RootOf
<1>9. EveryPostListed'
    <2> SUFFICES ASSUME NEW S \in SUBSET PostIds, S # {}, \A q \in S : posts'[q] # None
                 PROVE  \E q \in S : \/ posts'[q].parent = None
                                     \/ posts'[q].parent \in PostIds \ S
                                        /\ posts'[posts'[q].parent] # None
        BY ListedPrimed
    <2>1. \A q \in S : posts[q] # None
        BY <1>7
    <2>2. PICK q \in S : \/ posts[q].parent = None
                         \/ posts[q].parent \in PostIds \ S /\ posts[posts[q].parent] # None
        BY <1>1, <2>1, Listed DEF RowsSound
    <2>3. QED
        BY <1>5, <1>7, <2>2
<1>10. RowsSound'
    BY <1>1, <1>7, <1>8, <1>9 DEF RowsSound, Stored
<1>11. \A v \in Writers : write'[v] = IF v = w THEN Idle ELSE write[v]
    BY <1>1 DEF PostTypeOK
<1>12. WritesFit'
    <2>1. ASSUME NEW v \in Writers PROVE Fits(write[v])'
        <3>1. CASE v = w
            BY <1>11, <3>1 DEF Fits, IsReply, Idle
        <3>2. CASE v # w
            <4>1. /\ write'[v] = write[v] /\ Fits(write[v]) /\ Apart(write[w], write[v])
                  /\ write[v] \in Reply \cup Deletion \cup {Idle}
                BY <1>1, <1>11, <3>2 DEF WritesFit, PostTypeOK
            <4>2. IsReply(write[v]) => /\ write[v].new \in PostIds /\ write[v].parent \in PostIds
                                       /\ write[v].root \in PostIds
                BY <4>1 DEF Reply, Deletion, Idle, IsReply
            <4>3. write[v].at = "deleting" => write[v].post \in PostIds \ {p}
                BY <1>1, <1>3, <4>1 DEF Reply, Deletion, Idle, Apart
            <4>4. /\ write[v].at \in {"inserted", "linked"} => write[v].parent # p
                  /\ write[v].at = "linked" => write[v].root # p
                BY <1>1, <1>3, <4>1 DEF Apart
            <4>5. QED
                BY <1>1, <1>5, <4>1, <4>2, <4>3, <4>4 DEF Fits, IsReply, RootOf
        <3>3. QED
            BY <3>1, <3>2
    <2>2. ASSUME NEW v \in Writers, NEW x \in Writers, v # x PROVE Apart(write[v], write[x])'
        BY <1>1, <1>11, <2>2 DEF WritesFit, Apart, IsReply, Idle
    <2>3. QED
        BY <2>1, <2>2 DEF WritesFit
<1>13. QED
    BY <1>6, <1>10, <1>12 DEF PostInv

----------------------------------------------------------------------------
(* All steps together *)

LEMMA PostInvStep == PostInv /\ [PostNext]_postVars => PostInv'
<1> SUFFICES ASSUME PostInv, [PostNext]_postVars PROVE PostInv'
    OBVIOUS
<1>1. ASSUME NEW w \in Writers, FailWrite(w) \/ RefuseDelete(w) PROVE PostInv'
    BY <1>1, IdleStep DEF FailWrite, RefuseDelete
<1>2. ASSUME NEW w \in Writers, Ending(w) PROVE PostInv'
    BY <1>1, <1>2, CommitReplyKeepsInv, CommitDeleteKeepsInv DEF Ending
<1>3. CASE UNCHANGED postVars
    <2>1. UNCHANGED <<posts, drawn, write>> /\ PostTypeOK /\ RowsSound /\ WritesFit
        BY <1>3 DEF postVars, PostInv
    <2>2. PostTypeOK'
        BY <2>1 DEF PostTypeOK, Stored
    <2>3. RowsSound'
        BY <2>1 DEF RowsSound, ThreadsIntact, EveryPostListed, listPosts, listPostReplies,
                    Stored, RootOf
    <2>4. WritesFit'
        BY <2>1 DEF WritesFit, Fits, Apart, IsReply, RootOf
    <2>5. QED
        BY <2>2, <2>3, <2>4 DEF PostInv
<1>4. QED
    BY <1>1, <1>2, <1>3, CreatePostKeepsInv, UpdatePostKeepsInv, DeletePostKeepsInv,
       CreateReplyKeepsInv, LinkKeepsInv DEF PostNext

LEMMA PostInvAlways == PostSpec => []PostInv
    BY PostInvInit, PostInvStep, PTL DEF PostSpec

\* However replies and deletions overlap, every reply hangs on stored posts of
\* its thread and the lists lead to every post (the foreign keys of posts).
THEOREM ThreadsHold == PostSpec => [](PostTypeOK /\ ThreadsIntact /\ EveryPostListed)
<1>1. PostInv => PostTypeOK /\ ThreadsIntact /\ EveryPostListed
    BY DEF PostInv, RowsSound
<1>2. QED
    BY <1>1, PostInvAlways, PTL

\* No stored post is out of reach of the two lists.
THEOREM NothingHidden == PostSpec => []EveryPostListed
    BY ThreadsHold, PTL

\* What a reply in progress hangs on is neither gone nor being deleted.
THEOREM LinksStay == PostSpec => []LinksHeld
<1>1. ASSUME PostInv PROVE LinksHeld
    <2>1. PostTypeOK /\ WritesFit
        BY <1>1 DEF PostInv
    <2> SUFFICES ASSUME NEW w \in Writers
                 PROVE  /\ write[w].at \in {"inserted", "linked"} =>
                             /\ Stored(write[w].parent) /\ ~Deleting(write[w].parent)
                             /\ ~Stored(write[w].new)
                        /\ write[w].at = "linked" =>
                             Stored(write[w].root) /\ ~Deleting(write[w].root)
                        /\ write[w].at = "deleting" => Stored(write[w].post)
        BY DEF LinksHeld
    <2>2. Fits(write[w]) /\ write[w] \in Reply \cup Deletion \cup {Idle}
        BY <2>1 DEF WritesFit, PostTypeOK
    <2>3. IsReply(write[w]) => /\ write[w].new \in PostIds /\ write[w].parent \in PostIds
                               /\ write[w].root \in PostIds
        BY <2>2 DEF Reply, Deletion, Idle, IsReply
    <2>4. write[w].at = "deleting" => write[w].post \in PostIds
        BY <2>2 DEF Reply, Deletion, Idle
    <2>5. \A v \in Writers : write[v].at = "deleting" =>
              /\ write[w].at \in {"inserted", "linked"} => write[v].post # write[w].parent
              /\ write[w].at = "linked" => write[v].post # write[w].root
        BY <2>1 DEF WritesFit, Apart
    <2>6. QED
        BY <2>2, <2>3, <2>4, <2>5 DEF Fits, IsReply, Stored, Deleting
<1>2. QED
    BY <1>1, PostInvAlways, PTL

\* A post keeps author, parent and root, and goes only when nothing refers to it.
THEOREM PlacesStay == PostSpec => PlacesKept
<1> DEFINE Kept(p) == IF posts'[p] = None
                        THEN \A q \in PostIds : ~RefersTo(q, p)
                        ELSE posts'[p] = [posts[p] EXCEPT !.body = posts'[p].body]
<1>1. ASSUME PostInv, [PostNext]_postVars, NEW p \in PostIds, Stored(p) PROVE Kept(p)
    <2>1. PostTypeOK /\ RowsSound /\ WritesFit /\ posts[p] \in Post /\ posts[p] # None
        BY <1>1, RowTyped DEF PostInv, Stored
    <2>2. ASSUME posts'[p] = posts[p] PROVE Kept(p)
        BY <2>1, <2>2 DEF Post
    <2>3. ASSUME NEW u \in Users, NEW b \in Bodies, NEW x \in PostIds, createPost(u, b, x)
          PROVE  Kept(p)
        BY <2>1, <2>2, <2>3 DEF createPost, RowsSound, PostTypeOK, Stored
    <2>4. ASSUME NEW u \in Users, NEW b \in Bodies, NEW x \in PostIds, updatePost(u, x, b)
          PROVE  Kept(p)
        <3>1. CASE x = p
            <4>1. posts'[p] = [posts[p] EXCEPT !.body = b]
                BY <2>1, <2>4, <3>1 DEF updatePost, PostTypeOK
            <4>2. posts'[p] \in Post /\ posts'[p].body = b
                BY <2>1, <4>1 DEF Post
            <4>3. QED
                BY <4>1, <4>2, NoneIsNoPost
        <3>2. CASE x # p
            BY <2>1, <2>2, <2>4, <3>2 DEF updatePost, PostTypeOK
        <3>3. QED
            BY <3>1, <3>2
    <2>5. ASSUME NEW w \in Writers, CommitReply(w) PROVE Kept(p)
        <3>1. posts[write[w].new] = None
            BY <2>1, <2>5 DEF CommitReply, WritesFit, Fits, IsReply
        <3>2. QED
            BY <2>1, <2>2, <2>5, <3>1 DEF CommitReply, PostTypeOK
    <2>6. ASSUME NEW w \in Writers, CommitDelete(w) PROVE Kept(p)
        BY <2>1, <2>2, <2>6 DEF CommitDelete, PostTypeOK
    <2>7. ASSUME UNCHANGED posts PROVE Kept(p)
        BY <2>2, <2>7
    <2>8. \/ UNCHANGED posts
          \/ \E u \in Users, b \in Bodies, x \in PostIds : createPost(u, b, x) \/ updatePost(u, x, b)
          \/ \E w \in Writers : CommitReply(w) \/ CommitDelete(w)
        BY <1>1 DEF PostNext, postVars, Linking, Ending, LinkParent, LinkRoot, RefuseDelete,
                    FailWrite, createReply, deletePost
    <2>9. QED
        BY <2>3, <2>4, <2>5, <2>6, <2>7, <2>8
<1>2. PostInv /\ [PostNext]_postVars =>
        [\A p \in PostIds : Stored(p) => Kept(p)]_postVars
    BY <1>1
<1>3. QED
    BY <1>2, PostInvAlways, PTL DEF PostSpec, PlacesKept

\* The handlers and their locks implement the posts of Threads: whatever commits
\* is one of its steps, and the steps in between change no row.
THEOREM PostsRefine == PostSpec => ImplementsThreads
<1>1. PostInit => Served!ThreadsInit
    BY DEF PostInit, Served!ThreadsInit
<1>2. ASSUME PostInv, [PostNext]_postVars PROVE [Served!ThreadsNext]_posts
    <2>1. PostTypeOK /\ RowsSound /\ WritesFit
        BY <1>2 DEF PostInv
    <2>2. ASSUME NEW u \in Users, NEW b \in Bodies, NEW p \in PostIds, createPost(u, b, p)
          PROVE  Served!Begin(u, b, p)
        BY <2>1, <2>2 DEF createPost, RowsSound, Stored, Served!Begin, Served!IsStored
    <2>3. ASSUME NEW u \in Users, NEW b \in Bodies, NEW p \in PostIds, updatePost(u, p, b)
          PROVE  Served!Edit(p, b)
        BY <2>3 DEF updatePost, Stored, Served!Edit, Served!IsStored
    <2>4. ASSUME NEW w \in Writers, CommitReply(w) PROVE Served!ThreadsNext
        <3>1. write[w] \in Reply /\ Fits(write[w]) /\ write[w].at = "linked"
            BY <2>1, <2>4 DEF CommitReply, PostTypeOK, Deletion, Idle, WritesFit
        <3>2. /\ write[w].author \in Users /\ write[w].body \in Bodies
              /\ write[w].parent \in PostIds /\ write[w].new \in PostIds
            BY <3>1 DEF Reply
        <3>3. /\ posts[write[w].parent] # None /\ posts[write[w].new] = None
              /\ write[w].root = RootOf(write[w].parent)
            BY <3>1 DEF Fits, IsReply
        <3>4. Served!Answer(write[w].author, write[w].body, write[w].parent, write[w].new)
            BY <2>4, <3>3 DEF CommitReply, RootOf, Served!Answer, Served!IsStored, Served!TopOf
        <3>5. QED
            BY <3>2, <3>4 DEF Served!ThreadsNext
    <2>5. ASSUME NEW w \in Writers, CommitDelete(w) PROVE Served!ThreadsNext
        <3>1. write[w] \in Deletion /\ Fits(write[w]) /\ write[w].at = "deleting"
            BY <2>1, <2>5 DEF CommitDelete, PostTypeOK, Reply, Idle, WritesFit
        <3>2. write[w].post \in PostIds /\ posts[write[w].post] # None
            BY <3>1 DEF Fits, IsReply, Deletion
        <3>3. Served!Delete(write[w].post)
            BY <2>5, <3>2 DEF CommitDelete, RefersTo, Stored, Served!Delete, Served!IsStored
        <3>4. QED
            BY <3>2, <3>3 DEF Served!ThreadsNext
    <2>6. \/ UNCHANGED posts
          \/ \E u \in Users, b \in Bodies, p \in PostIds : createPost(u, b, p) \/ updatePost(u, p, b)
          \/ \E w \in Writers : CommitReply(w) \/ CommitDelete(w)
        BY <1>2 DEF PostNext, postVars, Linking, Ending, LinkParent, LinkRoot, RefuseDelete,
                    FailWrite, createReply, deletePost
    <2>7. QED
        BY <2>2, <2>3, <2>4, <2>5, <2>6 DEF Served!ThreadsNext
<1>3. PostInv /\ [PostNext]_postVars => [Served!ThreadsNext]_posts
    BY <1>2
<1>4. QED
    BY <1>1, <1>3, PostInvAlways, PTL DEF PostSpec, ImplementsThreads, Served!ThreadsSpec
=============================================================================
