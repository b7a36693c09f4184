----------------------------- MODULE TimelineProofs -----------------------------
(***************************************************************************)
(* Proofs about Timeline for any posts, tables, page sizes and number of   *)
(* calls.  A place in the timeline is the number of newer posts: what is   *)
(* on the page and what an answer under way will add are compared with the *)
(* table by the places of their posts, and no step moves a post the wrong  *)
(* way past them.                                                          *)
(***************************************************************************)
EXTENDS Timeline, FiniteSetTheorems, SequenceTheorems, TLAPS

----------------------------------------------------------------------------
(* Orders and pages *)

IsOrder(order) ==
    \A p, q, r \in PostIds :
        /\ <<p, p>> \notin order
        /\ p # q => <<p, q>> \in order \/ <<q, p>> \in order
        /\ <<p, q>> \in order /\ <<q, r>> \in order => <<p, r>> \in order

LEMMA IdsOrdered == IsOrder(NewestFirst) /\ IsOrder(OldestFirst)
    BY TimelineAssumption DEF IsOrder, NewestFirst, OldestFirst

\* In a finite set, each element has a place of its own and each place is taken.
LEMMA OrderedPlaces ==
    ASSUME NEW S, S \subseteq PostIds, IsFiniteSet(S), NEW order, IsOrder(order)
    PROVE  /\ Cardinality(S) \in Nat
           /\ \A p \in PostIds : Cardinality(Before(S, order, p)) \in Nat
           /\ \A p \in S : Cardinality(Before(S, order, p)) < Cardinality(S)
           /\ \A p \in S, q \in PostIds : <<p, q>> \in order =>
                 Cardinality(Before(S, order, p)) < Cardinality(Before(S, order, q))
           /\ Ordered(S, order) \in Seq(S)
           /\ Len(Ordered(S, order)) = Cardinality(S)
           /\ \A i \in 1 .. Cardinality(S) :
                 Cardinality(Before(S, order, Ordered(S, order)[i])) = i - 1
           /\ \A p \in S : Ordered(S, order)[Cardinality(Before(S, order, p)) + 1] = p
<1> DEFINE n == Cardinality(S)
           place(p) == Cardinality(Before(S, order, p))
           o == Ordered(S, order)
<1>1. n \in Nat
    BY FS_CardinalityType
<1>2. \A p \in PostIds : /\ Before(S, order, p) \subseteq S /\ IsFiniteSet(Before(S, order, p))
                         /\ place(p) \in Nat
    <2> SUFFICES ASSUME NEW p \in PostIds
                 PROVE  /\ Before(S, order, p) \subseteq S /\ IsFiniteSet(Before(S, order, p))
                        /\ place(p) \in Nat
        OBVIOUS
    <2>1. Before(S, order, p) \subseteq S
        BY DEF Before
    <2>2. IsFiniteSet(Before(S, order, p))
        BY <2>1, FS_Subset
    <2>3. QED
        BY <2>1, <2>2, FS_CardinalityType
<1>3. ASSUME NEW p \in S, NEW q \in PostIds, <<p, q>> \in order
      PROVE  place(p) < place(q)
    <2>1. Before(S, order, p) \subseteq Before(S, order, q)
        BY <1>3 DEF Before, IsOrder
    <2>2. p \in Before(S, order, q) /\ p \notin Before(S, order, p)
        BY <1>3 DEF Before, IsOrder
    <2>3. place(p) <= place(q) /\ place(p) # place(q)
        BY <1>2, <2>1, <2>2, FS_Subset
    <2>4. QED
        BY <1>2, <2>3
<1>4. ASSUME NEW p \in S PROVE place(p) < n
    <2>1. p \notin Before(S, order, p)
        BY DEF Before, IsOrder
    <2>2. place(p) <= n /\ place(p) # n
        BY <1>2, <2>1, FS_Subset
    <2>3. QED
        BY <1>1, <1>2, <2>2
<1>5. ASSUME NEW p \in S, NEW q \in S, place(p) = place(q) PROVE p = q
    <2>1. p # q => <<p, q>> \in order \/ <<q, p>> \in order
        BY DEF IsOrder
    <2>2. /\ place(p) \in Nat /\ place(q) \in Nat
          /\ <<p, q>> \in order => place(p) < place(q)
          /\ <<q, p>> \in order => place(q) < place(p)
        BY <1>2, <1>3
    <2> HIDE DEF place
    <2>3. QED
        BY <1>5, <2>1, <2>2
<1> DEFINE f == [p \in S |-> place(p) + 1]
<1>6. f \in Surjection(S, 1 .. n)
    <2>1. \A p \in S : place(p) + 1 \in 1 .. n
        BY <1>1, <1>2, <1>4
    <2>2. \A p, q \in S : place(p) = place(q) => p = q
        BY <1>5
    <2> HIDE DEF place
    <2>3. \A p \in S : place(p) \in Nat
        BY <1>2
    <2>4. f \in [S -> 1 .. n] /\ \A p, q \in S : f[p] = f[q] => p = q
        BY <2>1, <2>2, <2>3
    <2>5. f \in Injection(S, 1 .. n)
        BY <2>4 DEF Injection, IsInjective
    <2>6. Cardinality(1 .. n) = n /\ IsFiniteSet(1 .. n)
        BY <1>1, FS_Interval
    <2>7. QED
        BY <2>5, <2>6, FS_Injection
<1>7. ASSUME NEW i \in 1 .. n PROVE \E p \in S : place(p) = i - 1
    <2>1. PICK p \in S : f[p] = i
        BY <1>6 DEF Surjection
    <2>2. place(p) + 1 = i /\ place(p) \in Nat
        BY <1>2, <2>1
    <2>3. QED
        BY <2>2
<1>8. \A i \in 1 .. n : o[i] \in S /\ place(o[i]) = i - 1
    BY <1>7 DEF Ordered
<1>9. DOMAIN o = 1 .. n /\ o = [i \in 1 .. n |-> o[i]]
    BY DEF Ordered
<1>10. ASSUME NEW p \in S PROVE o[place(p) + 1] = p
    <2>1. place(p) + 1 \in 1 .. n
        BY <1>1, <1>2, <1>4
    <2>2. o[place(p) + 1] \in S /\ place(o[place(p) + 1]) = place(p)
        BY <1>2, <1>8, <2>1
    <2>3. QED
        BY <1>5, <2>2
<1> HIDE DEF o
<1>11. o \in Seq(S) /\ Len(o) = n
    <2>1. o \in [1 .. n -> S]
        BY <1>8, <1>9
    <2>2. QED
        BY <1>1, <2>1
<1>12. QED
    BY <1>1, <1>2, <1>3, <1>4, <1>8, <1>10, <1>11 DEF o

\* The rows of a page.
LEMMA PageIs ==
    ASSUME NEW T, NEW rows \in Seq(T), NEW limit \in Nat, NEW from \in Nat
    PROVE  /\ Page(rows, limit, from) \in Seq(T)
           /\ Len(Page(rows, limit, from)) =
                IF from >= Len(rows) THEN 0
                ELSE IF from + limit > Len(rows) THEN Len(rows) - from ELSE limit
           /\ \A i \in 1 .. Len(Page(rows, limit, from)) :
                from + i \in 1 .. Len(rows) /\ Page(rows, limit, from)[i] = rows[from + i]
<1> DEFINE last == IF from + limit > Len(rows) THEN Len(rows) ELSE from + limit
<1>1. last \in Nat /\ Len(rows) \in Nat /\ last <= Len(rows)
    OBVIOUS
<1>2. \A i \in from + 1 .. last : rows[i] \in T
    OBVIOUS
<1>3. /\ SubSeq(rows, from + 1, last) \in Seq(T)
      /\ Len(SubSeq(rows, from + 1, last)) = IF from + 1 <= last THEN last - (from + 1) + 1 ELSE 0
      /\ \A i \in 1 .. last - (from + 1) + 1 :
            SubSeq(rows, from + 1, last)[i] = rows[from + 1 + i - 1]
    BY <1>1, <1>2, SubSeqProperties
<1>4. Page(rows, limit, from) = SubSeq(rows, from + 1, last)
    BY DEF Page
<1> DEFINE page1 == SubSeq(rows, from + 1, last)
<1> HIDE DEF page1
<1>5. last - (from + 1) + 1 = last - from /\ \A i \in Nat : from + 1 + i - 1 = from + i
    BY <1>1
<1>6. /\ Len(page1) = IF from + 1 <= last THEN last - from ELSE 0
      /\ \A i \in 1 .. last - from : page1[i] = rows[from + i]
    BY <1>1, <1>3, <1>5 DEF page1
<1>7. /\ Len(page1) = IF from >= Len(rows) THEN 0
                      ELSE IF from + limit > Len(rows) THEN Len(rows) - from ELSE limit
      /\ \A i \in 1 .. Len(page1) : from + i \in 1 .. Len(rows) /\ page1[i] = rows[from + i]
    BY <1>1, <1>6
<1>8. QED
    BY <1>3, <1>4, <1>7 DEF page1

\* A prefix, row by row.
LEMMA PrefixIs ==
    ASSUME NEW T, NEW s \in Seq(T), NEW t \in Seq(T)
    PROVE  IsPrefix(s, t) <=> Len(s) <= Len(t) /\ \A i \in 1 .. Len(s) : s[i] = t[i]
<1>1. CASE Len(s) <= Len(t)
    <2>1. \A i \in 1 .. Len(s) : t[i] \in T /\ s[i] \in T
        BY <1>1
    <2>2. /\ SubSeq(t, 1, Len(s)) \in Seq(T) /\ Len(SubSeq(t, 1, Len(s))) = Len(s)
          /\ \A i \in 1 .. Len(s) : SubSeq(t, 1, Len(s))[i] = t[i]
        BY <2>1, SubSeqProperties
    <2>3. SubSeq(s, 1, Len(s)) = s
        BY SubSeqFull
    <2>4. SubSeq(t, 1, Len(s)) = s <=> \A i \in 1 .. Len(s) : s[i] = t[i]
        BY <2>2, SeqEqual
    <2>5. QED
        BY <1>1, <2>3, <2>4 DEF IsPrefix
<1>2. CASE ~(Len(s) <= Len(t))
    BY <1>2 DEF IsPrefix
<1>3. QED
    BY <1>1, <1>2

----------------------------------------------------------------------------
(* The lists of the server *)

RowType == [id : PostIds, replies : Nat]

TableOK ==
    /\ posts \in [PostIds -> Post \cup {None}]
    /\ IsFiniteSet({p \in PostIds : posts[p] # None})

\* The place of a post in the timeline.
Rank(p) == Cardinality(Before(Tops, NewestFirst, p))

PostsListed ==
    /\ IsFiniteSet(Tops)
    /\ AllPosts \in Seq(RowType) /\ Len(AllPosts) = Cardinality(Tops)
    /\ \A i \in 1 .. Len(AllPosts) : AllPosts[i].id \in Tops /\ Rank(AllPosts[i].id) = i - 1
    /\ \A p \in PostIds : Rank(p) \in Nat
    /\ \A p \in Tops : /\ Rank(p) < Len(AllPosts)
                       /\ AllPosts[Rank(p) + 1].id = p
    /\ \A p \in Tops, q \in PostIds : p > q => Rank(p) < Rank(q)

RepliesListed ==
    \A p \in PostIds :
        /\ IsFiniteSet(Answers(p))
        /\ AllReplies(p) \in Seq(RowType)
        /\ \A i \in 1 .. Len(AllReplies(p)) : AllReplies(p)[i].id \in Answers(p)

LEMMA AnswersFinite ==
    ASSUME TableOK, NEW p \in PostIds
    PROVE  /\ IsFiniteSet(Answers(p)) /\ Answers(p) \subseteq PostIds
           /\ Row(p) \in RowType /\ Row(p).id = p
<1>1. Answers(p) \subseteq {q \in PostIds : posts[q] # None}
    BY DEF Answers, IsStored
<1>2. IsFiniteSet(Answers(p))
    BY <1>1, FS_Subset DEF TableOK
<1>3. Cardinality(Answers(p)) \in Nat
    BY <1>2, FS_CardinalityType
<1>4. QED
    BY <1>1, <1>2, <1>3 DEF Row, RowType

\* A list of rows for a list of ids.
LEMMA RowsOfIds ==
    ASSUME TableOK, NEW ids, ids \in Seq(PostIds)
    PROVE  /\ Rows(ids) \in Seq(RowType) /\ Len(Rows(ids)) = Len(ids)
           /\ \A i \in 1 .. Len(ids) : Rows(ids)[i] = Row(ids[i]) /\ Rows(ids)[i].id = ids[i]
<1> DEFINE r == Rows(ids)
<1>1. Len(ids) \in Nat /\ DOMAIN ids = 1 .. Len(ids) /\ \A i \in 1 .. Len(ids) : ids[i] \in PostIds
    OBVIOUS
<1>2. r = [i \in 1 .. Len(ids) |-> Row(ids[i])]
    BY <1>1 DEF Rows
<1>3. \A i \in 1 .. Len(ids) : r[i] = Row(ids[i]) /\ r[i] \in RowType /\ r[i].id = ids[i]
    BY <1>1, <1>2, AnswersFinite
<1>4. r \in [1 .. Len(ids) -> RowType]
    BY <1>2, <1>3
<1> HIDE DEF r
<1>5. r \in Seq(RowType) /\ Len(r) = Len(ids)
    BY <1>1, <1>4
<1>6. QED
    BY <1>3, <1>5 DEF r

LEMMA ListsAre == TableOK => PostsListed /\ RepliesListed
<1> SUFFICES ASSUME TableOK PROVE PostsListed /\ RepliesListed
    OBVIOUS
<1>1. Tops \subseteq PostIds /\ IsFiniteSet(Tops)
    <2>1. Tops \subseteq {q \in PostIds : posts[q] # None}
        BY DEF Tops, IsStored
    <2>2. QED
        BY <2>1, FS_Subset DEF TableOK
<1>2. PostsListed
    <2> DEFINE o == Ordered(Tops, NewestFirst)
    <2>1. /\ Cardinality(Tops) \in Nat
          /\ \A p \in PostIds : Rank(p) \in Nat
          /\ \A p \in Tops : Rank(p) < Cardinality(Tops)
          /\ \A p \in Tops, q \in PostIds : <<p, q>> \in NewestFirst => Rank(p) < Rank(q)
          /\ o \in Seq(Tops) /\ Len(o) = Cardinality(Tops)
          /\ \A i \in 1 .. Cardinality(Tops) : Rank(o[i]) = i - 1
          /\ \A p \in Tops : o[Rank(p) + 1] = p
        BY <1>1, IdsOrdered, OrderedPlaces DEF Rank
    <2>2. \A p \in Tops, q \in PostIds : p > q => Rank(p) < Rank(q)
        BY <1>1, <2>1 DEF NewestFirst
    <2> HIDE DEF o
    <2>3. AllPosts = Rows(o) /\ o \in Seq(PostIds)
        BY <1>1, <2>1 DEF AllPosts, o
    <2>4. /\ AllPosts \in Seq(RowType) /\ Len(AllPosts) = Len(o)
          /\ \A i \in 1 .. Len(o) : AllPosts[i].id = o[i] /\ o[i] \in Tops
        <3>1. Rows(o) \in Seq(RowType) /\ Len(Rows(o)) = Len(o)
              /\ \A i \in 1 .. Len(o) : Rows(o)[i].id = o[i]
            BY <2>3, RowsOfIds
        <3>2. \A i \in 1 .. Len(o) : o[i] \in Tops
            BY <2>1
        <3>3. QED
            BY <2>3, <3>1, <3>2
    <2>5. \A p \in Tops : Rank(p) + 1 \in 1 .. Len(o)
        BY <1>1, <2>1
    <2>6. QED
        BY <1>1, <2>1, <2>2, <2>4, <2>5 DEF PostsListed
<1>3. RepliesListed
    <2> SUFFICES ASSUME NEW p \in PostIds
                 PROVE  /\ IsFiniteSet(Answers(p))
                        /\ AllReplies(p) \in Seq(RowType)
                        /\ \A i \in 1 .. Len(AllReplies(p)) : AllReplies(p)[i].id \in Answers(p)
        BY DEF RepliesListed
    <2> DEFINE o == Ordered(Answers(p), OldestFirst)
    <2>1. o \in Seq(Answers(p)) /\ IsFiniteSet(Answers(p)) /\ Answers(p) \subseteq PostIds
        BY AnswersFinite, IdsOrdered, OrderedPlaces
    <2> HIDE DEF o
    <2>2. AllReplies(p) = Rows(o) /\ o \in Seq(PostIds)
        BY <2>1 DEF AllReplies, o
    <2>3. QED
        BY <2>1, <2>2, RowsOfIds
<1>4. QED
    BY <1>2, <1>3

LEMMA ListsAreNext == TableOK' => PostsListed' /\ RepliesListed'
    BY ListsAre, PTL

\* Writing a post puts it into the timeline and into no thread.
LEMMA BeginTable ==
    ASSUME TableOK, NEW u \in Users, NEW b \in Bodies, NEW p \in PostIds, Begin(u, b, p)
    PROVE  /\ TableOK' /\ p \notin Tops /\ Tops' = Tops \cup {p}
           /\ \A q \in PostIds : Answers(q)' = Answers(q)
<1> DEFINE row == [author |-> u, body |-> b, parent |-> None, root |-> None]
<1>1. row \in Post /\ row # None /\ row.parent = None
    BY TimelineAssumption DEF Post
<1>2. /\ posts[p] = None /\ posts' = [posts EXCEPT ![p] = row]
      /\ posts \in [PostIds -> Post \cup {None}]
    BY DEF Begin, IsStored, TableOK
<1> HIDE DEF row
<1>3. \A q \in PostIds : posts'[q] = IF q = p THEN row ELSE posts[q]
    BY <1>2
<1>4. {q \in PostIds : posts'[q] # None} = {q \in PostIds : posts[q] # None} \cup {p}
    BY <1>1, <1>2, <1>3
<1>5. TableOK'
    BY <1>1, <1>2, <1>4, FS_AddElement DEF TableOK
<1>6. p \notin Tops /\ Tops' = Tops \cup {p}
    BY <1>1, <1>2, <1>3 DEF Tops, IsStored
<1>7. ASSUME NEW q \in PostIds PROVE Answers(q)' = Answers(q)
    <2>1. None # q
        BY TimelineAssumption
    <2>2. QED
        BY <1>1, <1>2, <1>3, <2>1 DEF Answers, IsStored
<1>8. QED
    BY <1>5, <1>6, <1>7

\* Writing a reply only adds it to the thread of its post.
LEMMA AnswerTable ==
    ASSUME TableOK, NEW u \in Users, NEW b \in Bodies, NEW p \in PostIds, NEW q \in PostIds,
           Answer(u, b, p, q)
    PROVE  /\ TableOK' /\ Tops' = Tops
           /\ q \notin Answers(p) /\ Answers(p)' = Answers(p) \cup {q}
           /\ \A r \in PostIds \ {p} : Answers(r)' = Answers(r)
<1> DEFINE row == [author |-> u, body |-> b, parent |-> p, root |-> TopOf(p)]
<1>1. posts \in [PostIds -> Post \cup {None}] /\ posts[p] # None /\ posts[q] = None
    BY DEF TableOK, Answer, IsStored
<1>2. TopOf(p) \in PostIds \cup {None}
    BY <1>1 DEF TopOf, Post
<1>3. row \in Post /\ row # None /\ row.parent = p /\ p # None
    BY <1>2, TimelineAssumption DEF Post
<1>4. posts' = [posts EXCEPT ![q] = row]
    BY DEF Answer
<1> HIDE DEF row
<1>5. \A r \in PostIds : posts'[r] = IF r = q THEN row ELSE posts[r]
    BY <1>1, <1>4
<1>6. {r \in PostIds : posts'[r] # None} = {r \in PostIds : posts[r] # None} \cup {q}
    BY <1>1, <1>3, <1>5
<1>7. TableOK'
    BY <1>1, <1>3, <1>4, <1>6, FS_AddElement DEF TableOK
<1>8. Tops' = Tops
    BY <1>1, <1>3, <1>5 DEF Tops, IsStored
<1>9. \A r \in PostIds : Answers(r)' = IF r = p THEN Answers(r) \cup {q} ELSE Answers(r)
    BY <1>1, <1>3, <1>5 DEF Answers, IsStored
<1>10. q \notin Answers(p)
    BY <1>1 DEF Answers, IsStored
<1>11. QED
    BY <1>7, <1>8, <1>9, <1>10

LEMMA DeleteTable ==
    ASSUME TableOK, NEW p \in PostIds, Delete(p)
    PROVE  TableOK' /\ Tops' \subseteq Tops
<1>1. posts \in [PostIds -> Post \cup {None}] /\ posts' = [posts EXCEPT ![p] = None]
    BY DEF TableOK, Delete
<1>2. \A q \in PostIds : posts'[q] = IF q = p THEN None ELSE posts[q]
    BY <1>1
<1>3. {q \in PostIds : posts'[q] # None} \subseteq {q \in PostIds : posts[q] # None}
    BY <1>2
<1>4. TableOK'
    BY <1>1, <1>3, FS_Subset DEF TableOK
<1>5. Tops' \subseteq Tops
    BY <1>2 DEF Tops, IsStored
<1>6. QED
    BY <1>4, <1>5

\* More posts only move a post back.
LEMMA RanksGrow ==
    ASSUME TableOK, TableOK'
    PROVE  /\ Tops \subseteq Tops' => \A p \in PostIds : Rank(p) <= Rank(p)'
           /\ Tops' \subseteq Tops => \A p \in PostIds : Rank(p)' <= Rank(p)
<1>1. IsFiniteSet(Tops) /\ IsFiniteSet(Tops)'
    BY ListsAre, ListsAreNext DEF PostsListed
<1>2. ASSUME NEW S, NEW T, IsFiniteSet(T), S \subseteq T, NEW p \in PostIds
      PROVE  Cardinality(Before(S, NewestFirst, p)) <= Cardinality(Before(T, NewestFirst, p))
    <2>1. Before(S, NewestFirst, p) \subseteq Before(T, NewestFirst, p)
        BY <1>2 DEF Before
    <2>2. IsFiniteSet(Before(T, NewestFirst, p))
        BY <1>2, FS_Subset DEF Before
    <2>3. QED
        BY <2>1, <2>2, FS_Subset
<1>3. QED
    BY <1>1, <1>2 DEF Rank, Before

----------------------------------------------------------------------------
(* Types and calls *)

ReplyState == [expanded : BOOLEAN, loading : BOOLEAN, hasLoaded : BOOLEAN, error : BOOLEAN,
               items : Seq(RowType)]

At == {"sent", "answered", "failed"}
LoadCalls == [kind : {"load"}, reset : BOOLEAN, composer : BOOLEAN, at : At, rows : Seq(RowType)]
ReplyLoads == [kind : {"replies"}, post : PostIds, current : BOOLEAN, at : At,
               rows : Seq(RowType)]
Writes == [kind : {"post"}, at : At] \cup [kind : {"reply"}, post : PostIds, at : At]
CallType == LoadCalls \cup ReplyLoads \cup Writes \cup {NoCall}

TimelineTypeOK ==
    /\ TableOK /\ world \in Worlds /\ shown \in Seq(RowType) /\ offset \in Nat
    /\ hasMore \in BOOLEAN /\ loadingPosts \in BOOLEAN
    /\ replies \in [PostIds -> ReplyState]
    /\ calls \in [Calls -> CallType]
    /\ base \in SUBSET PostIds

Loading(c) == calls[c].kind = "load"
Answered(c) == Loading(c) /\ calls[c].at = "answered"

\* One page is loaded at a time, a reset begins with an empty timeline, and a
\* page that waits has one call, which does not fail.
CallsFit ==
    /\ offset = Len(shown)
    /\ loadingPosts <=> \E c \in Calls : Loading(c)
    /\ \A c, d \in Calls : Loading(c) /\ Loading(d) => c = d
    /\ \A c \in Calls : Loading(c) /\ calls[c].reset => shown = <<>>
    /\ world = "waits" => /\ \A c, d \in Calls : ~Free(c) /\ ~Free(d) => c = d
                          /\ \A c \in Calls : ~Free(c) => calls[c].at # "failed"
    /\ world = "deletes" => \A c \in Calls : calls[c].kind \notin {"post", "reply"}

BaseInv == TimelineTypeOK /\ CallsFit /\ RepliesHonest

\* What the kind of a call says of its type.
LEMMA CallKinds ==
    ASSUME TimelineTypeOK, NEW c \in Calls
    PROVE  /\ calls[c] \in CallType
           /\ calls[c].kind \in {"none", "load", "replies", "post", "reply"}
           /\ Free(c) <=> calls[c] = NoCall
           /\ calls[c].kind = "load" => calls[c] \in LoadCalls
           /\ calls[c].kind = "replies" => calls[c] \in ReplyLoads
           /\ calls[c].kind \in {"post", "reply"} => calls[c] \in Writes
           /\ calls[c].kind = "reply" => calls[c].post \in PostIds
           /\ ~Free(c) => calls[c].at \in At
    BY DEF TimelineTypeOK, CallType, LoadCalls, ReplyLoads, Writes, NoCall, Free

\* An answer under way keeps its kind and place when its thread is dropped.
LEMMA DetachedIs ==
    ASSUME TimelineTypeOK
    PROVE  /\ Detached \in [Calls -> CallType]
           /\ \A d \in Calls : /\ Detached[d].kind = calls[d].kind
                               /\ Detached[d].kind # "none" => Detached[d].at = calls[d].at
                               /\ calls[d].kind # "replies" => Detached[d] = calls[d]
<1>1. ASSUME NEW d \in Calls, calls[d].kind = "replies"
      PROVE  /\ Detached[d] \in ReplyLoads /\ Detached[d].kind = "replies"
             /\ Detached[d].at = calls[d].at
    BY <1>1, CallKinds DEF Detached, ReplyLoads
<1>2. ASSUME NEW d \in Calls, calls[d].kind # "replies" PROVE Detached[d] = calls[d]
    BY <1>2 DEF Detached
<1>3. Detached = [d \in Calls |-> Detached[d]]
    BY DEF Detached
<1>4. \A d \in Calls : Detached[d] \in CallType
    BY <1>1, <1>2, CallKinds DEF CallType
<1>5. QED
    BY <1>1, <1>2, <1>3, <1>4

\* A step of call c, which becomes k.
LEMMA BaseStep ==
    ASSUME BaseInv, NEW c \in Calls, NEW k, k \in CallType, world' = world,
           \/ calls' = [calls EXCEPT ![c] = k]
           \/ calls' = [Detached EXCEPT ![c] = k],
           TableOK', shown' \in Seq(RowType), offset' = Len(shown'), hasMore' \in BOOLEAN,
           loadingPosts' \in BOOLEAN, replies' \in [PostIds -> ReplyState],
           base' \in SUBSET PostIds, RepliesHonest',
           k.kind = "load" => \A d \in Calls \ {c} : ~Loading(d),
           loadingPosts' <=> k.kind = "load" \/ \E d \in Calls \ {c} : Loading(d),
           k.kind = "load" /\ k.reset => shown' = <<>>,
           shown = <<>> => shown' = <<>> \/ Loading(c),
           world = "waits" => /\ \A d \in Calls \ {c} : Free(d)
                              /\ k.kind # "none" => k.at # "failed",
           world = "deletes" => k.kind \notin {"post", "reply"}
    PROVE  BaseInv' /\ calls'[c] = k
<1>1. /\ calls'[c] = k /\ calls' \in [Calls -> CallType]
      /\ \A d \in Calls \ {c} : /\ calls'[d].kind = calls[d].kind
                                /\ calls'[d].kind = "load" => calls'[d] = calls[d]
                                /\ calls'[d].kind # "none" => calls'[d].at = calls[d].at
    BY DetachedIs DEF BaseInv, TimelineTypeOK
<1>2. TimelineTypeOK'
    <2>1. offset' \in Nat
        OBVIOUS
    <2>2. QED
        BY <1>1, <2>1 DEF TimelineTypeOK, BaseInv
<1>3. \A d \in Calls : Loading(d)' <=> IF d = c THEN k.kind = "load" ELSE Loading(d)
    BY <1>1 DEF Loading
<1>4. \A d \in Calls : Loading(d)' /\ calls'[d].reset => shown' = <<>>
    <2> SUFFICES ASSUME NEW d \in Calls, Loading(d)', calls'[d].reset PROVE shown' = <<>>
        OBVIOUS
    <2>1. CASE d = c
        BY <1>1, <1>3, <2>1
    <2>2. CASE d # c
        <3>1. Loading(d) /\ calls[d].reset /\ d \in Calls \ {c}
            BY <1>1, <1>3, <2>2 DEF Loading
        <3>2. shown = <<>> /\ ~Loading(c)
            BY <3>1 DEF BaseInv, CallsFit
        <3>3. QED
            BY <3>2
    <2>3. QED
        BY <2>1, <2>2
<1>5. \A d, e \in Calls : Loading(d)' /\ Loading(e)' => d = e
    BY <1>3 DEF BaseInv, CallsFit
<1>6. loadingPosts' <=> \E d \in Calls : Loading(d)'
    BY <1>3
<1>7. world' = "waits" => /\ \A d, e \in Calls : ~Free(d)' /\ ~Free(e)' => d = e
                          /\ \A d \in Calls : ~Free(d)' => calls'[d].at # "failed"
    BY <1>1 DEF Free
<1>8. world' = "deletes" => \A d \in Calls : calls'[d].kind \notin {"post", "reply"}
    BY <1>1 DEF BaseInv, CallsFit
<1>9. CallsFit'
    BY <1>4, <1>5, <1>6, <1>7, <1>8 DEF CallsFit
<1>10. QED
    BY <1>1, <1>2, <1>9 DEF BaseInv

\* Nobody else's call is under way on a page that waits.
LEMMA OnlyCall ==
    ASSUME BaseInv, NEW c \in Calls, MayCall(c) \/ ~Free(c)
    PROVE  world = "waits" => \A d \in Calls \ {c} : Free(d)
    BY DEF BaseInv, CallsFit, MayCall, Alone

\* A post written or deleted by others.
LEMMA OthersTable ==
    ASSUME TableOK, Others
    PROVE  /\ TableOK' /\ world \in {"creates", "deletes"}
           /\ world = "creates" => Tops \subseteq Tops'
           /\ world = "deletes" => Tops' \subseteq Tops
    BY BeginTable, AnswerTable, DeleteTable DEF Others

LEMMA OthersBase ==
    ASSUME BaseInv, Others
    PROVE  BaseInv'
<1>1. TableOK'
    BY OthersTable DEF BaseInv, TimelineTypeOK
<1>2. UNCHANGED <<world, shown, offset, hasMore, loadingPosts, replies, calls, base>>
    BY DEF Others, page
<1>3. TimelineTypeOK'
    BY <1>1, <1>2 DEF BaseInv, TimelineTypeOK
<1>4. CallsFit' /\ RepliesHonest'
    BY <1>2 DEF BaseInv, CallsFit, Loading, Free, RepliesHonest
<1>5. QED
    BY <1>3, <1>4 DEF BaseInv

\* Steps of a call that leave what the page shows.
LEMMA QuietBase ==
    ASSUME BaseInv, NEW c \in Calls, NEW k, k \in CallType, world' = world,
           UNCHANGED page, calls' = [calls EXCEPT ![c] = k], TableOK',
           base' \in SUBSET PostIds,
           k.kind = "load" <=> Loading(c), k.kind = "load" => k.reset = calls[c].reset,
           world = "waits" => /\ \A d \in Calls \ {c} : Free(d)
                              /\ k.kind # "none" => k.at # "failed",
           world = "deletes" => k.kind \notin {"post", "reply"}
    PROVE  BaseInv' /\ calls'[c] = k
<1>1. /\ shown' = shown /\ offset' = offset /\ hasMore' = hasMore /\ loadingPosts' = loadingPosts
      /\ replies' = replies
    BY DEF page
<1>2. /\ shown' \in Seq(RowType) /\ offset' = Len(shown') /\ hasMore' \in BOOLEAN
      /\ loadingPosts' \in BOOLEAN /\ replies' \in [PostIds -> ReplyState]
      /\ RepliesHonest'
    BY <1>1 DEF BaseInv, TimelineTypeOK, CallsFit, RepliesHonest
<1>3. /\ k.kind = "load" => \A d \in Calls \ {c} : ~Loading(d)
      /\ loadingPosts' <=> k.kind = "load" \/ \E d \in Calls \ {c} : Loading(d)
      /\ k.kind = "load" /\ k.reset => shown' = <<>>
    BY <1>1 DEF BaseInv, CallsFit
<1>4. QED
    BY <1>1, <1>2, <1>3, BaseStep

LEMMA StartLoadBase ==
    ASSUME BaseInv, NEW c \in Calls, ~Loading(c), NEW reset \in BOOLEAN,
           NEW composer \in BOOLEAN, StartLoad(c, reset, composer), UNCHANGED <<posts, world>>,
           world = "waits" => \A d \in Calls \ {c} : Free(d)
    PROVE  /\ BaseInv' /\ calls'[c] = LoadCall(reset, composer)
           /\ \A d \in Calls : ~Loading(d)
<1> DEFINE k == LoadCall(reset, composer)
<1>1. k \in LoadCalls /\ k.kind = "load" /\ k.reset = reset /\ k.at = "sent"
    BY DEF LoadCall, LoadCalls, At
<1>2. \A d \in Calls : ~Loading(d)
    BY DEF StartLoad, MayLoad, BaseInv, CallsFit
<1> HIDE DEF k
<1>3. loadingPosts' = TRUE /\ TableOK' /\ k \in CallType
    BY <1>1 DEF StartLoad, BaseInv, TimelineTypeOK, TableOK, CallType
<1>4. CASE reset
    <2>1. /\ shown' = <<>> /\ offset' = 0 /\ hasMore' = TRUE /\ base' = {}
          /\ replies' = [p \in PostIds |-> NoReplies] /\ calls' = [Detached EXCEPT ![c] = k]
        BY <1>4 DEF StartLoad, k
    <2>2. NoReplies \in ReplyState /\ ~NoReplies.expanded
        BY DEF NoReplies, ReplyState
    <2>3. replies' \in [PostIds -> ReplyState] /\ RepliesHonest'
        BY <2>1, <2>2 DEF RepliesHonest
    <2>4. shown' \in Seq(RowType) /\ offset' = Len(shown') /\ base' \in SUBSET PostIds
        BY <2>1
    <2>5. BaseInv' /\ calls'[c] = k
        BY <1>1, <1>2, <1>3, <2>1, <2>3, <2>4, BaseStep
    <2>6. QED
        BY <1>2, <2>5 DEF k
<1>5. CASE ~reset
    <2>1. /\ calls' = [calls EXCEPT ![c] = k]
          /\ UNCHANGED <<shown, offset, hasMore, replies, base>>
        BY <1>5 DEF StartLoad, k
    <2>2. RepliesHonest'
        BY <2>1 DEF BaseInv, RepliesHonest
    <2>3. /\ shown' \in Seq(RowType) /\ offset' = Len(shown') /\ base' \in SUBSET PostIds
          /\ hasMore' \in BOOLEAN /\ replies' \in [PostIds -> ReplyState]
        BY <2>1 DEF BaseInv, TimelineTypeOK, CallsFit
    <2>4. BaseInv' /\ calls'[c] = k
        BY <1>1, <1>2, <1>3, <1>5, <2>1, <2>2, <2>3, BaseStep
    <2>5. QED
        BY <1>2, <2>4 DEF k
<1>6. QED
    BY <1>4, <1>5

\* What the server answers is a list of rows.
LEMMA AnswersTyped ==
    ASSUME TimelineTypeOK
    PROVE  /\ listPosts(Limit + 1, offset) \in Seq(RowType)
           /\ \A p \in PostIds : listPostReplies(p, RepliesLimit) \in Seq(RowType)
<1>1. /\ AllPosts \in Seq(RowType)
      /\ \A p \in PostIds : AllReplies(p) \in Seq(RowType)
    BY ListsAre DEF TimelineTypeOK, PostsListed, RepliesListed
<1>2. parseLimit(Limit + 1) \in Nat /\ parseLimit(RepliesLimit) \in Nat /\ offset \in Nat
    BY TimelineAssumption DEF parseLimit, TimelineTypeOK
<1>3. QED
    BY <1>1, <1>2, PageIs DEF listPosts, listPostReplies

LEMMA ServeLoadBase ==
    ASSUME BaseInv, NEW c \in Calls, ServeLoad(c)
    PROVE  /\ BaseInv'
           /\ calls'[c] = [calls[c] EXCEPT !.at = "answered", !.rows = listPosts(Limit + 1, offset)]
           /\ calls[c] \in LoadCalls
<1>1. PICK k : k = [calls[c] EXCEPT !.at = "answered", !.rows = listPosts(Limit + 1, offset)]
    OBVIOUS
<1>2. /\ calls[c] \in LoadCalls /\ calls[c].kind = "load" /\ ~Free(c)
      /\ calls' = [calls EXCEPT ![c] = k] /\ UNCHANGED <<posts, world, page>>
    BY <1>1, CallKinds DEF ServeLoad, BaseInv, Free
<1>3. /\ k \in LoadCalls /\ k.kind = "load" /\ k.at = "answered" /\ k.reset = calls[c].reset
    BY <1>1, <1>2, AnswersTyped DEF LoadCalls, BaseInv, At
<1>4. TableOK' /\ base' \in SUBSET PostIds
    BY <1>2 DEF BaseInv, TimelineTypeOK, TableOK, ServeLoad, Tops
<1>5. k \in CallType /\ Loading(c)
    BY <1>2, <1>3 DEF CallType, Loading
<1>6. BaseInv' /\ calls'[c] = k
    BY <1>2, <1>3, <1>4, <1>5, OnlyCall, QuietBase
<1>7. QED
    BY <1>1, <1>2, <1>6

\* The timeline after the answer of a load.
Coming(c) == shown \o Page(calls[c].rows, Limit, 0)

LEMMA ComingIs ==
    ASSUME TimelineTypeOK, NEW c \in Calls, Loading(c)
    PROVE  /\ Page(calls[c].rows, Limit, 0) \in Seq(RowType)
           /\ Coming(c) \in Seq(RowType)
           /\ Len(Coming(c)) = Len(shown) + Len(Page(calls[c].rows, Limit, 0))
           /\ \A i \in 1 .. Len(Coming(c)) :
                Coming(c)[i] = IF i <= Len(shown) THEN shown[i]
                               ELSE Page(calls[c].rows, Limit, 0)[i - Len(shown)]
<1>1. calls[c].rows \in Seq(RowType)
    BY CallKinds DEF Loading, LoadCalls
<1>2. Page(calls[c].rows, Limit, 0) \in Seq(RowType) /\ shown \in Seq(RowType)
    BY <1>1, PageIs, TimelineAssumption DEF TimelineTypeOK
<1>3. QED
    BY <1>2, ConcatProperties DEF Coming

LEMMA EndLoadBase ==
    ASSUME BaseInv, NEW c \in Calls, EndLoad(c)
    PROVE  /\ BaseInv' /\ calls'[c] = NoCall
           /\ calls[c].at = "answered" => shown' = Coming(c)
           /\ calls[c].at # "answered" => shown' = shown
<1>1. /\ Loading(c) /\ ~Free(c) /\ loadingPosts' = FALSE
      /\ calls' = [calls EXCEPT ![c] = NoCall]
      /\ UNCHANGED <<posts, world, replies, base>> /\ TimelineTypeOK /\ CallsFit
    BY DEF EndLoad, Loading, Free, BaseInv
<1>2. /\ Page(calls[c].rows, Limit, 0) \in Seq(RowType) /\ Coming(c) \in Seq(RowType)
      /\ Len(Coming(c)) = Len(shown) + Len(Page(calls[c].rows, Limit, 0))
    BY <1>1, ComingIs
<1>3. ASSUME calls[c].at = "answered"
      PROVE  shown' = Coming(c) /\ offset' = Len(Coming(c)) /\ hasMore' \in BOOLEAN
    <2>1. /\ hasMore' = (Len(calls[c].rows) > Limit)
          /\ shown' = (IF calls[c].reset THEN <<>> ELSE shown) \o Page(calls[c].rows, Limit, 0)
          /\ offset' = offset + Len(Page(calls[c].rows, Limit, 0))
        BY <1>3 DEF EndLoad, NextOffset
    <2>2. (IF calls[c].reset THEN <<>> ELSE shown) = shown
        BY <1>1 DEF CallsFit
    <2>3. hasMore' \in BOOLEAN
        BY <2>1
    <2>4. shown' = Coming(c)
        BY <2>1, <2>2 DEF Coming
    <2>5. offset' = Len(Coming(c))
        BY <1>1, <1>2, <2>1 DEF CallsFit
    <2>6. QED
        BY <2>3, <2>4, <2>5
<1>4. calls[c].at # "answered" => UNCHANGED <<shown, offset>> /\ hasMore' \in BOOLEAN
    BY DEF EndLoad
<1>5. shown' \in Seq(RowType) /\ offset' = Len(shown') /\ hasMore' \in BOOLEAN
    BY <1>1, <1>2, <1>3, <1>4 DEF TimelineTypeOK, CallsFit
<1>6. /\ NoCall \in CallType /\ NoCall.kind = "none"
      /\ \A d \in Calls \ {c} : ~Loading(d)
      /\ world = "waits" => \A d \in Calls \ {c} : Free(d)
    BY <1>1, OnlyCall DEF CallType, NoCall, CallsFit
<1>7. /\ TableOK' /\ replies' \in [PostIds -> ReplyState] /\ base' \in SUBSET PostIds
      /\ RepliesHonest'
    BY <1>1 DEF TimelineTypeOK, TableOK, RepliesHonest, BaseInv
<1> HIDE DEF NoCall
<1>8. BaseInv' /\ calls'[c] = NoCall
    BY <1>1, <1>5, <1>6, <1>7, BaseStep
<1>9. QED
    BY <1>3, <1>4, <1>8

\* Steps of a call that change the threads alone.
LEMMA ThreadBase ==
    ASSUME BaseInv, NEW c \in Calls, ~Loading(c), NEW k, k \in CallType, k.kind # "load",
           UNCHANGED <<posts, world, offset, hasMore, loadingPosts, base>>,
           shown' \in Seq(RowType), Len(shown') = Len(shown),
           calls' = [calls EXCEPT ![c] = k], replies' \in [PostIds -> ReplyState], RepliesHonest',
           world = "waits" => /\ \A d \in Calls \ {c} : Free(d)
                              /\ k.kind # "none" => k.at # "failed",
           k.kind \notin {"post", "reply"}
    PROVE  BaseInv' /\ calls'[c] = k
<1>1. /\ TableOK' /\ offset' = Len(shown') /\ hasMore' \in BOOLEAN /\ loadingPosts' \in BOOLEAN
      /\ base' \in SUBSET PostIds
    BY DEF BaseInv, TimelineTypeOK, TableOK, CallsFit
<1>2. loadingPosts' <=> k.kind = "load" \/ \E d \in Calls \ {c} : Loading(d)
    BY DEF BaseInv, CallsFit
<1>3. shown = <<>> => shown' = <<>>
    BY DEF BaseInv, TimelineTypeOK
<1>4. QED
    BY <1>1, <1>2, <1>3, BaseStep

HonestThreads(all) ==
    \A q \in PostIds : all[q].expanded /\ ~all[q].loading /\ ~all[q].error => all[q].hasLoaded

\* A thread that starts to load.
LEMMA StartRepliesTyped ==
    ASSUME NEW p \in PostIds, NEW all \in [PostIds -> ReplyState], HonestThreads(all),
           NEW x \in ReplyState, x.loading, replies' = [all EXCEPT ![p] = x]
    PROVE  /\ replies' \in [PostIds -> ReplyState] /\ RepliesHonest'
           /\ replies'[p] = x /\ \A q \in PostIds \ {p} : replies'[q] = all[q]
<1>1. /\ replies' \in [PostIds -> ReplyState] /\ replies'[p] = x
      /\ \A q \in PostIds \ {p} : replies'[q] = all[q]
    OBVIOUS
<1>2. RepliesHonest'
    BY <1>1 DEF RepliesHonest, HonestThreads
<1>3. QED
    BY <1>1, <1>2

LEMMA RepliesCallTyped ==
    ASSUME NEW p \in PostIds
    PROVE  /\ RepliesCall(p) \in CallType /\ RepliesCall(p).kind = "replies"
           /\ RepliesCall(p).at = "sent" /\ RepliesCall(p).post = p
<1>1. RepliesCall(p) \in ReplyLoads
    BY DEF RepliesCall, ReplyLoads, At
<1>2. QED
    BY <1>1 DEF RepliesCall, CallType

LEMMA ToggleBase ==
    ASSUME BaseInv, NEW c \in Calls, NEW p \in PostIds, toggleReplies(c, p)
    PROVE  /\ BaseInv' /\ \A d \in Calls \ {c} : calls'[d] = calls[d]
           /\ UNCHANGED <<posts, world, shown, offset, hasMore, loadingPosts, base>>
           /\ \A q \in PostIds : /\ replies'[q].hasLoaded = replies[q].hasLoaded
                                 /\ replies'[q].items = replies[q].items
           /\ calls'[c] = NoCall \/ calls'[c] = RepliesCall(p)
           /\ calls[c] = NoCall
<1>1. PICK r : r = [replies[p] EXCEPT !.expanded = ~replies[p].expanded]
    OBVIOUS
<1>2. /\ replies \in [PostIds -> ReplyState] /\ shown \in Seq(RowType) /\ RepliesHonest
      /\ calls \in [Calls -> CallType] /\ calls[c] = NoCall /\ ~Loading(c)
      /\ world = "waits" => \A d \in Calls \ {c} : Free(d)
    BY CallKinds, OnlyCall
    DEF BaseInv, TimelineTypeOK, toggleReplies, MayCall, Loading, Free
<1>3. /\ r \in ReplyState /\ r.hasLoaded = replies[p].hasLoaded /\ r.items = replies[p].items
    BY <1>1, <1>2 DEF ReplyState
<1>4. UNCHANGED <<posts, world, shown, offset, hasMore, loadingPosts, base>>
    BY DEF toggleReplies
<1>5. CASE r.expanded /\ ~r.hasLoaded
    <2>1. PICK x : x = [r EXCEPT !.loading = TRUE, !.error = FALSE]
        OBVIOUS
    <2>2. /\ x \in ReplyState /\ x.loading
          /\ x.hasLoaded = replies[p].hasLoaded /\ x.items = replies[p].items
        BY <1>3, <2>1 DEF ReplyState
    <2>3. /\ replies' = [replies EXCEPT ![p] = x]
          /\ calls' = [calls EXCEPT ![c] = RepliesCall(p)]
        BY <1>1, <1>5, <2>1 DEF toggleReplies, StartReplies
    <2>4. HonestThreads(replies)
        BY <1>2 DEF RepliesHonest, HonestThreads
    <2>5. /\ replies' \in [PostIds -> ReplyState] /\ RepliesHonest'
          /\ replies'[p] = x /\ \A q \in PostIds \ {p} : replies'[q] = replies[q]
        BY <1>2, <2>2, <2>3, <2>4, StartRepliesTyped
    <2>6. BaseInv' /\ calls'[c] = RepliesCall(p)
        BY <1>2, <1>4, <2>3, <2>5, RepliesCallTyped, ThreadBase
    <2>7. QED
        BY <1>2, <1>4, <2>2, <2>3, <2>5, <2>6
<1>6. CASE ~(r.expanded /\ ~r.hasLoaded)
    <2>1. replies' = [replies EXCEPT ![p] = r] /\ calls' = calls
        BY <1>1, <1>6 DEF toggleReplies
    <2>2. replies'[p] = r /\ \A q \in PostIds \ {p} : replies'[q] = replies[q]
        BY <1>2, <2>1
    <2>3. replies' \in [PostIds -> ReplyState] /\ RepliesHonest'
        BY <1>2, <1>3, <1>6, <2>1, <2>2 DEF RepliesHonest
    <2>4. calls' = [calls EXCEPT ![c] = NoCall] /\ NoCall \in CallType /\ NoCall.kind = "none"
        BY <1>2, <2>1 DEF CallType, NoCall
    <2> HIDE DEF NoCall
    <2>5. BaseInv' /\ calls'[c] = NoCall
        BY <1>2, <1>4, <2>3, <2>4, ThreadBase
    <2>6. QED
        BY <1>2, <1>3, <1>4, <2>1, <2>2, <2>5
<1>7. QED
    BY <1>5, <1>6

LEMMA LoadPostsBase ==
    ASSUME BaseInv, NEW c \in Calls, loadPosts(c)
    PROVE  /\ BaseInv' /\ UNCHANGED <<posts, world>> /\ Free(c)
           /\ \A d \in Calls : ~Loading(d)
           /\ \E reset \in BOOLEAN :
                StartLoad(c, reset, FALSE) /\ calls'[c] = LoadCall(reset, FALSE)
<1>1. PICK reset \in BOOLEAN : StartLoad(c, reset, FALSE)
    BY DEF loadPosts
<1>2. /\ ~Loading(c) /\ Free(c) /\ UNCHANGED <<posts, world>>
      /\ world = "waits" => \A d \in Calls \ {c} : Free(d)
    BY OnlyCall DEF loadPosts, MayCall, Free, Loading
<1>3. /\ BaseInv' /\ calls'[c] = LoadCall(reset, FALSE)
      /\ \A d \in Calls : ~Loading(d)
    BY <1>1, <1>2, StartLoadBase
<1>4. QED
    BY <1>1, <1>2, <1>3

LEMMA ServeRepliesBase ==
    ASSUME BaseInv, NEW c \in Calls, ServeReplies(c)
    PROVE  /\ BaseInv' /\ \A d \in Calls \ {c} : calls'[d] = calls[d]
           /\ calls'[c] = [calls[c] EXCEPT !.at = "answered",
                             !.rows = listPostReplies(calls[c].post, RepliesLimit)]
           /\ calls[c] \in ReplyLoads
<1>1. PICK k : k = [calls[c] EXCEPT !.at = "answered",
                             !.rows = listPostReplies(calls[c].post, RepliesLimit)]
    OBVIOUS
<1>2. /\ calls[c] \in ReplyLoads /\ calls[c].kind = "replies" /\ ~Free(c) /\ ~Loading(c)
      /\ calls' = [calls EXCEPT ![c] = k] /\ UNCHANGED <<posts, world, page, base>>
      /\ calls[c].post \in PostIds
    BY <1>1, CallKinds DEF ServeReplies, BaseInv, Free, Loading, ReplyLoads
<1>3. k \in ReplyLoads /\ k.kind = "replies" /\ k.at = "answered"
    BY <1>1, <1>2, AnswersTyped DEF ReplyLoads, BaseInv, At
<1>4. TableOK' /\ base' \in SUBSET PostIds
    BY <1>2 DEF BaseInv, TimelineTypeOK, TableOK
<1>5. BaseInv' /\ calls'[c] = k
    BY <1>2, <1>3, <1>4, OnlyCall, QuietBase DEF CallType
<1>6. QED
    BY <1>1, <1>2, <1>5

LEMMA EndRepliesBase ==
    ASSUME BaseInv, NEW c \in Calls, EndReplies(c)
    PROVE  /\ BaseInv' /\ calls'[c] = NoCall /\ \A d \in Calls \ {c} : calls'[d] = calls[d]
           /\ UNCHANGED <<posts, world, shown, offset, hasMore, loadingPosts, base>>
           /\ calls[c] \in ReplyLoads /\ calls[c].at # "sent"
           /\ \A q \in PostIds :
                \/ /\ q = calls[c].post /\ calls[c].at = "answered"
                   /\ replies'[q].hasLoaded /\ replies'[q].items = calls[c].rows
                \/ /\ replies'[q].hasLoaded = replies[q].hasLoaded
                   /\ replies'[q].items = replies[q].items
<1>1. /\ calls[c] \in ReplyLoads /\ ~Free(c) /\ ~Loading(c) /\ calls[c].at # "sent"
      /\ calls' = [calls EXCEPT ![c] = NoCall]
      /\ UNCHANGED <<posts, world, shown, offset, hasMore, loadingPosts, base>>
      /\ replies \in [PostIds -> ReplyState] /\ RepliesHonest /\ shown \in Seq(RowType)
      /\ calls \in [Calls -> CallType]
    BY CallKinds DEF EndReplies, BaseInv, Free, Loading, TimelineTypeOK
<1>2. PICK p : p = calls[c].post
    OBVIOUS
<1>3. PICK x : x = IF calls[c].at = "failed"
                     THEN [replies[p] EXCEPT !.loading = FALSE, !.error = TRUE]
                   ELSE [replies[p] EXCEPT !.loading = FALSE, !.hasLoaded = TRUE,
                                           !.items = calls[c].rows]
    OBVIOUS
<1>4. p \in PostIds /\ calls[c].rows \in Seq(RowType) /\ calls[c].at \in {"answered", "failed"}
    BY <1>1, <1>2 DEF ReplyLoads, At
<1>5. /\ x \in ReplyState
      /\ x.expanded /\ ~x.loading /\ ~x.error => x.hasLoaded
      /\ \/ calls[c].at = "answered" /\ x.hasLoaded /\ x.items = calls[c].rows
         \/ x.hasLoaded = replies[p].hasLoaded /\ x.items = replies[p].items
    <2>1. CASE calls[c].at = "failed"
        <3>1. x = [replies[p] EXCEPT !.loading = FALSE, !.error = TRUE]
            BY <1>3, <2>1
        <3>2. QED
            BY <1>1, <1>4, <3>1 DEF ReplyState
    <2>2. CASE calls[c].at # "failed"
        <3>1. x = [replies[p] EXCEPT !.loading = FALSE, !.hasLoaded = TRUE, !.items = calls[c].rows]
            BY <1>3, <2>2
        <3>2. x \in ReplyState /\ x.hasLoaded /\ x.items = calls[c].rows
            BY <1>1, <1>4, <3>1 DEF ReplyState
        <3>3. QED
            BY <1>4, <2>2, <3>2
    <2>3. QED
        BY <2>1, <2>2
<1>6. replies' = replies \/ replies' = [replies EXCEPT ![p] = x]
    BY <1>2, <1>3 DEF EndReplies
<1>7. \A q \in PostIds : replies'[q] = replies[q] \/ (q = p /\ replies'[q] = x)
    BY <1>1, <1>4, <1>6
<1>8. replies' \in [PostIds -> ReplyState]
    BY <1>1, <1>4, <1>5, <1>6
<1>9. RepliesHonest'
    BY <1>1, <1>5, <1>7 DEF RepliesHonest
<1>10. NoCall \in CallType /\ NoCall.kind = "none"
    BY DEF CallType, NoCall
<1>11. shown' \in Seq(RowType) /\ Len(shown') = Len(shown)
    BY <1>1
<1> HIDE DEF NoCall
<1>12. BaseInv' /\ calls'[c] = NoCall
    BY <1>1, <1>8, <1>9, <1>10, <1>11, OnlyCall, ThreadBase
<1>13. QED
    BY <1>1, <1>2, <1>5, <1>7, <1>12

\* A write that is sent.
LEMMA SendBase ==
    ASSUME BaseInv, NEW c \in Calls, SendPost(c) \/ \E p \in PostIds : SendReply(c, p)
    PROVE  /\ BaseInv' /\ calls[c] = NoCall /\ calls'[c].kind \in {"post", "reply"}
           /\ calls'[c].at = "sent" /\ \A d \in Calls \ {c} : calls'[d] = calls[d]
           /\ UNCHANGED <<posts, world, page, base>> /\ world # "deletes"
<1>1. /\ MayCall(c) /\ calls[c] = NoCall /\ ~Loading(c) /\ calls \in [Calls -> CallType]
      /\ UNCHANGED <<posts, world, page, base>> /\ world # "deletes"
    BY CallKinds DEF SendPost, SendReply, MayCall, Free, Loading, BaseInv, TimelineTypeOK
<1>2. PICK k \in Writes : k.at = "sent" /\ calls' = [calls EXCEPT ![c] = k]
    BY DEF SendPost, SendReply, Writes, At
<1>3. k \in CallType /\ k.kind \in {"post", "reply"}
    BY DEF CallType, Writes
<1>4. TableOK' /\ base' \in SUBSET PostIds
    BY <1>1 DEF BaseInv, TimelineTypeOK, TableOK
<1>5. BaseInv' /\ calls'[c] = k
    BY <1>1, <1>2, <1>3, <1>4, OnlyCall, QuietBase
<1>6. QED
    BY <1>1, <1>2, <1>3, <1>5

LEMMA RefuseBase ==
    ASSUME BaseInv, NEW c \in Calls, Refuse(c)
    PROVE  /\ BaseInv' /\ calls'[c].at = "failed" /\ calls'[c].kind = calls[c].kind
           /\ calls[c].at = "sent" /\ ~Free(c)
           /\ \A d \in Calls \ {c} : calls'[d] = calls[d]
           /\ UNCHANGED <<posts, world, page, base>> /\ world # "waits"
<1>1. PICK k : k = [calls[c] EXCEPT !.at = "failed"]
    OBVIOUS
<1>2. /\ ~Free(c) /\ calls[c].at = "sent" /\ world # "waits" /\ calls \in [Calls -> CallType]
      /\ UNCHANGED <<posts, world, page, base>> /\ calls' = [calls EXCEPT ![c] = k]
    BY <1>1 DEF Refuse, Free, BaseInv, TimelineTypeOK
<1>3. calls[c] \in LoadCalls \cup ReplyLoads \cup Writes
    BY <1>2, CallKinds DEF BaseInv, CallType
<1>4. /\ k \in CallType /\ k.at = "failed" /\ k.kind = calls[c].kind
      /\ k.kind = "load" => k.reset = calls[c].reset
    BY <1>1, <1>3 DEF CallType, LoadCalls, ReplyLoads, Writes, At
<1>5. TableOK' /\ base' \in SUBSET PostIds
    BY <1>2 DEF BaseInv, TimelineTypeOK, TableOK
<1>6. world = "deletes" => k.kind \notin {"post", "reply"}
    BY <1>4 DEF BaseInv, CallsFit
<1>7. BaseInv' /\ calls'[c] = k
    BY <1>2, <1>4, <1>5, <1>6, QuietBase DEF Loading
<1>8. QED
    BY <1>2, <1>4, <1>7

LEMMA ServeWriteBase ==
    ASSUME BaseInv, NEW c \in Calls, ServeWrite(c)
    PROVE  /\ BaseInv' /\ calls'[c].at \in {"answered", "failed"}
           /\ calls'[c].kind = calls[c].kind /\ world # "deletes"
           /\ calls[c].kind = "reply" => calls'[c].post = calls[c].post
           /\ calls[c].kind \in {"post", "reply"} /\ calls[c].at = "sent"
           /\ world = "waits" => calls'[c].at = "answered"
           /\ \A d \in Calls \ {c} : calls'[d] = calls[d]
           /\ UNCHANGED <<world, page, base>>
           /\ Tops \subseteq Tops'
           /\ calls[c].kind = "reply" => Tops' = Tops
<1>1. PICK at \in {"answered", "failed"} :
        calls' = [calls EXCEPT ![c].at = at] /\ (world = "waits" => at = "answered")
    BY DEF ServeWrite
<1>2. PICK k : k = [calls[c] EXCEPT !.at = at]
    OBVIOUS
<1>3. /\ calls[c] \in Writes /\ calls[c].kind \in {"post", "reply"} /\ calls[c].at = "sent"
      /\ calls \in [Calls -> CallType] /\ ~Free(c) /\ ~Loading(c) /\ world # "deletes"
      /\ UNCHANGED <<world, page, base>>
      /\ calls[c].kind = "reply" => calls[c].post \in PostIds
    BY CallKinds DEF ServeWrite, BaseInv, TimelineTypeOK, Free, Loading, CallsFit
<1>4. /\ k \in Writes /\ k.at = at /\ k.kind = calls[c].kind
      /\ calls[c].kind = "reply" => k.post = calls[c].post
    BY <1>2, <1>3 DEF Writes, At
<1>5. /\ calls' = [calls EXCEPT ![c] = k]
      /\ base' \in SUBSET PostIds
    <2>1. calls' = [calls EXCEPT ![c] = k]
        BY <1>1, <1>2
    <2>2. QED
        BY <1>3, <2>1 DEF BaseInv, TimelineTypeOK
<1>6. /\ TableOK' /\ Tops \subseteq Tops'
      /\ calls[c].kind = "reply" => Tops' = Tops
    BY <1>3, BeginTable, AnswerTable DEF ServeWrite, BaseInv, TimelineTypeOK
<1>7. BaseInv' /\ calls'[c] = k
    BY <1>1, <1>3, <1>4, <1>5, <1>6, OnlyCall, QuietBase DEF CallType
<1>8. QED
    BY <1>1, <1>3, <1>4, <1>5, <1>6, <1>7

LEMMA EndWriteFailedBase ==
    ASSUME BaseInv, NEW c \in Calls, EndWriteFailed(c)
    PROVE  /\ BaseInv' /\ calls'[c] = NoCall /\ calls[c].kind \in {"post", "reply"}
           /\ calls[c].at = "failed" /\ \A d \in Calls \ {c} : calls'[d] = calls[d]
           /\ UNCHANGED <<posts, world, page, base>>
<1>1. /\ calls[c].kind \in {"post", "reply"} /\ calls[c].at = "failed" /\ ~Loading(c) /\ ~Free(c)
      /\ calls \in [Calls -> CallType] /\ calls' = [calls EXCEPT ![c] = NoCall]
      /\ UNCHANGED <<posts, world, page, base>>
    BY DEF EndWriteFailed, BaseInv, TimelineTypeOK, Loading, Free
<1>2. NoCall \in CallType /\ NoCall.kind = "none"
    BY DEF CallType, NoCall
<1>3. TableOK' /\ base' \in SUBSET PostIds
    BY <1>1 DEF BaseInv, TimelineTypeOK, TableOK
<1> HIDE DEF NoCall
<1>4. BaseInv' /\ calls'[c] = NoCall
    BY <1>1, <1>2, <1>3, OnlyCall, QuietBase
<1>5. QED
    BY <1>1, <1>4

LEMMA EndPostBase ==
    ASSUME BaseInv, NEW c \in Calls, EndPost(c)
    PROVE  /\ BaseInv' /\ UNCHANGED <<posts, world>>
           /\ calls[c].kind = "post" /\ calls[c].at = "answered"
           /\ \/ /\ StartLoad(c, TRUE, TRUE) /\ calls'[c] = LoadCall(TRUE, TRUE)
                 /\ \A d \in Calls : ~Loading(d)
              \/ /\ ~MayLoad(TRUE) /\ UNCHANGED <<page, base>> /\ calls'[c] = NoCall
                 /\ \A d \in Calls \ {c} : calls'[d] = calls[d]
<1>1. /\ calls[c].kind = "post" /\ calls[c].at = "answered" /\ ~Loading(c) /\ ~Free(c)
      /\ calls \in [Calls -> CallType] /\ UNCHANGED <<posts, world>>
      /\ world = "waits" => \A d \in Calls \ {c} : Free(d)
    BY OnlyCall DEF EndPost, BaseInv, TimelineTypeOK, Loading, Free
<1>2. CASE StartLoad(c, TRUE, TRUE)
    BY <1>1, <1>2, StartLoadBase
<1>3. CASE ~MayLoad(TRUE) /\ calls' = [calls EXCEPT ![c] = NoCall] /\ UNCHANGED <<page, base>>
    <2>1. NoCall \in CallType /\ NoCall.kind = "none"
        BY DEF CallType, NoCall
    <2>2. TableOK' /\ base' \in SUBSET PostIds
        BY <1>1, <1>3 DEF BaseInv, TimelineTypeOK, TableOK
    <2> HIDE DEF NoCall
    <2>3. BaseInv' /\ calls'[c] = NoCall
        BY <1>1, <1>3, <2>1, <2>2, QuietBase
    <2>4. QED
        BY <1>1, <1>3, <2>3
<1>4. QED
    BY <1>2, <1>3 DEF EndPost

\* Counting a reply changes no row but the counted one, and no id.
LEMMA IncrementedIs ==
    ASSUME NEW rows \in Seq(RowType), NEW p \in PostIds
    PROVE  /\ Incremented(rows, p) \in Seq(RowType) /\ Len(Incremented(rows, p)) = Len(rows)
           /\ \A i \in 1 .. Len(rows) :
                /\ Incremented(rows, p)[i].id = rows[i].id
                /\ rows[i].id # p => Incremented(rows, p)[i] = rows[i]
                /\ rows[i].id = p /\ (\A j \in 1 .. i - 1 : rows[j].id # p) =>
                     Incremented(rows, p)[i] = [id |-> p, replies |-> rows[i].replies + 1]
           /\ (\A i \in 1 .. Len(rows) : rows[i].id # p) => Incremented(rows, p) = rows
<1> DEFINE new == Incremented(rows, p)
           first(i) == rows[i].id = p /\ (\A j \in 1 .. i - 1 : rows[j].id # p)
<1>1. /\ Len(rows) \in Nat /\ DOMAIN rows = 1 .. Len(rows)
      /\ \A i \in 1 .. Len(rows) : rows[i] \in RowType
    OBVIOUS
<1>2. new = [i \in 1 .. Len(rows) |->
                IF first(i) THEN [rows[i] EXCEPT !.replies = @ + 1] ELSE rows[i]]
    BY <1>1 DEF Incremented
<1>3. \A i \in 1 .. Len(rows) :
        new[i] = IF first(i) THEN [rows[i] EXCEPT !.replies = @ + 1] ELSE rows[i]
    BY <1>2
<1>4. ASSUME NEW r \in RowType
      PROVE  /\ [r EXCEPT !.replies = @ + 1] \in RowType
             /\ [r EXCEPT !.replies = @ + 1] = [id |-> r.id, replies |-> r.replies + 1]
    BY DEF RowType
<1>5. \A i \in 1 .. Len(rows) :
        /\ new[i] \in RowType /\ new[i].id = rows[i].id
        /\ first(i) => new[i] = [id |-> p, replies |-> rows[i].replies + 1]
        /\ ~first(i) => new[i] = rows[i]
    <2> SUFFICES ASSUME NEW i \in 1 .. Len(rows)
                 PROVE  /\ new[i] \in RowType /\ new[i].id = rows[i].id
                        /\ first(i) => new[i] = [id |-> p, replies |-> rows[i].replies + 1]
                        /\ ~first(i) => new[i] = rows[i]
        OBVIOUS
    <2>1. CASE first(i)
        <3>1. rows[i] \in RowType /\ rows[i].id = p
            BY <1>1, <2>1
        <3>2. new[i] = [id |-> rows[i].id, replies |-> rows[i].replies + 1] /\ new[i] \in RowType
            BY <1>3, <1>4, <2>1, <3>1
        <3>3. QED
            BY <2>1, <3>1, <3>2
    <2>2. CASE ~first(i)
        BY <1>1, <1>3, <2>2
    <2>3. QED
        BY <2>1, <2>2
<1>6. new \in [1 .. Len(rows) -> RowType]
    BY <1>2, <1>5
<1>7. (\A i \in 1 .. Len(rows) : ~first(i)) => new = rows
    BY <1>1, <1>2
<1> HIDE DEF new
<1>8. new \in Seq(RowType) /\ Len(new) = Len(rows)
    BY <1>1, <1>6
<1>9. QED
    BY <1>5, <1>7, <1>8 DEF new

\* The row that counts is in the timeline or in the threads.
LEMMA CountedIs ==
    ASSUME TimelineTypeOK, NEW p \in PostIds
    PROVE  /\ CountedShown(p) \in Seq(RowType) /\ Len(CountedShown(p)) = Len(shown)
           /\ \A i \in 1 .. Len(shown) : CountedShown(p)[i].id = shown[i].id
           /\ CountedReplies(p) \in [PostIds -> ReplyState]
           /\ \A q \in PostIds :
                /\ CountedReplies(p)[q].expanded = replies[q].expanded
                /\ CountedReplies(p)[q].loading = replies[q].loading
                /\ CountedReplies(p)[q].error = replies[q].error
                /\ CountedReplies(p)[q].hasLoaded = replies[q].hasLoaded
                /\ InTimeline(p) => CountedReplies(p)[q].items = replies[q].items
                /\ ~InTimeline(p) => CountedReplies(p)[q].items = Incremented(replies[q].items, p)
<1>1. shown \in Seq(RowType) /\ replies \in [PostIds -> ReplyState]
    BY DEF TimelineTypeOK
<1>2. /\ CountedShown(p) \in Seq(RowType) /\ Len(CountedShown(p)) = Len(shown)
      /\ \A i \in 1 .. Len(shown) : CountedShown(p)[i].id = shown[i].id
    BY <1>1, IncrementedIs DEF CountedShown
<1>3. CASE InTimeline(p)
    <2>1. CountedReplies(p) = replies
        BY <1>3 DEF CountedReplies
    <2>2. QED
        BY <1>1, <1>2, <1>3, <2>1
<1>4. CASE ~InTimeline(p)
    <2>1. CountedReplies(p) = [q \in PostIds |-> [replies[q] EXCEPT !.items = Incremented(@, p)]]
        BY <1>4 DEF CountedReplies
    <2>2. ASSUME NEW q \in PostIds
          PROVE  /\ CountedReplies(p)[q] \in ReplyState
                 /\ CountedReplies(p)[q].expanded = replies[q].expanded
                 /\ CountedReplies(p)[q].loading = replies[q].loading
                 /\ CountedReplies(p)[q].error = replies[q].error
                 /\ CountedReplies(p)[q].hasLoaded = replies[q].hasLoaded
                 /\ CountedReplies(p)[q].items = Incremented(replies[q].items, p)
        <3>1. PICK items : items = Incremented(replies[q].items, p)
            OBVIOUS
        <3>2. replies[q] \in ReplyState
            BY <1>1
        <3>3. items \in Seq(RowType)
            BY <3>1, <3>2, IncrementedIs DEF ReplyState
        <3>4. CountedReplies(p)[q] = [replies[q] EXCEPT !.items = items]
            BY <2>1, <3>1
        <3>5. QED
            BY <3>1, <3>2, <3>3, <3>4 DEF ReplyState
    <2>3. CountedReplies(p) \in [PostIds -> ReplyState]
        BY <2>1, <2>2
    <2>4. QED
        BY <1>2, <1>4, <2>2, <2>3
<1>5. QED
    BY <1>3, <1>4

LEMMA EndReplyBase ==
    ASSUME BaseInv, NEW c \in Calls, EndReply(c)
    PROVE  /\ BaseInv' /\ calls[c].kind = "reply" /\ calls[c].at = "answered"
           /\ calls[c].post \in PostIds
           /\ \A d \in Calls \ {c} : calls'[d] = calls[d]
           /\ calls'[c] = RepliesCall(calls[c].post)
           /\ UNCHANGED <<posts, world, offset, hasMore, loadingPosts, base>>
           /\ shown' = CountedShown(calls[c].post)
           /\ ~replies'[calls[c].post].hasLoaded
           /\ \A q \in PostIds \ {calls[c].post} : replies'[q] = CountedReplies(calls[c].post)[q]
<1>1. PICK p : p = calls[c].post
    OBVIOUS
<1>2. PICK all : all = CountedReplies(p)
    OBVIOUS
<1>3. PICK r : r = [all[p] EXCEPT !.expanded = TRUE, !.hasLoaded = FALSE]
    OBVIOUS
<1>4. PICK x : x = [r EXCEPT !.loading = TRUE, !.error = FALSE]
    OBVIOUS
<1>5. /\ calls[c].kind = "reply" /\ calls[c].at = "answered" /\ ~Loading(c) /\ ~Free(c)
      /\ p \in PostIds /\ calls \in [Calls -> CallType] /\ TimelineTypeOK
      /\ UNCHANGED <<posts, world, offset, hasMore, loadingPosts, base>> /\ RepliesHonest
      /\ world = "waits" => \A d \in Calls \ {c} : Free(d)
    BY <1>1, CallKinds, OnlyCall DEF EndReply, BaseInv, TimelineTypeOK, Loading, Free
<1>6. /\ shown' = CountedShown(p) /\ replies' = [all EXCEPT ![p] = x]
      /\ calls' = [calls EXCEPT ![c] = RepliesCall(p)]
    BY <1>1, <1>2, <1>3, <1>4 DEF EndReply, StartReplies
<1>7. /\ shown' \in Seq(RowType) /\ Len(shown') = Len(shown)
      /\ all \in [PostIds -> ReplyState] /\ HonestThreads(all)
    <2>1. /\ CountedShown(p) \in Seq(RowType) /\ Len(CountedShown(p)) = Len(shown)
          /\ CountedReplies(p) \in [PostIds -> ReplyState]
        BY <1>5, CountedIs
    <2>2. HonestThreads(CountedReplies(p))
        BY <1>5, CountedIs DEF RepliesHonest, HonestThreads
    <2>3. QED
        BY <1>2, <1>6, <2>1, <2>2
<1>8. x \in ReplyState /\ x.loading /\ ~x.hasLoaded
    <2>1. r \in ReplyState /\ ~r.hasLoaded
        BY <1>3, <1>5, <1>7 DEF ReplyState
    <2>2. QED
        BY <1>4, <2>1 DEF ReplyState
<1>9. /\ replies' \in [PostIds -> ReplyState] /\ RepliesHonest'
      /\ replies'[p] = x /\ \A q \in PostIds \ {p} : replies'[q] = all[q]
    BY <1>5, <1>6, <1>7, <1>8, StartRepliesTyped
<1>10. BaseInv' /\ calls'[c] = RepliesCall(p)
    <2>1. PICK k : k = RepliesCall(p)
        OBVIOUS
    <2>2. k \in CallType /\ k.kind = "replies" /\ k.at = "sent" /\ calls' = [calls EXCEPT ![c] = k]
        BY <1>5, <1>6, <2>1, RepliesCallTyped
    <2>3. BaseInv' /\ calls'[c] = k
        BY <1>5, <1>7, <1>9, <2>2, ThreadBase
    <2>4. QED
        BY <2>1, <2>3
<1>11. QED
    BY <1>1, <1>2, <1>5, <1>6, <1>8, <1>9, <1>10

LEMMA BaseInvInit == TimelineInit => BaseInv
<1> SUFFICES ASSUME TimelineInit PROVE BaseInv
    OBVIOUS
<1>1. TableOK
    BY TimelineAssumption DEF TimelineInit, TableOK
<1>2. PICK c \in Calls : calls = [d \in Calls |-> IF d = c THEN LoadCall(TRUE, FALSE) ELSE NoCall]
    BY DEF TimelineInit
<1>3. LoadCall(TRUE, FALSE) \in CallType /\ NoCall \in CallType
    BY DEF LoadCall, LoadCalls, At, CallType
<1>4. calls \in [Calls -> CallType]
    BY <1>2, <1>3
<1>5. /\ \A d \in Calls : calls[d] = IF d = c THEN LoadCall(TRUE, FALSE) ELSE NoCall
      /\ LoadCall(TRUE, FALSE).kind = "load" /\ LoadCall(TRUE, FALSE).at = "sent"
      /\ NoCall.kind = "none"
    BY <1>2 DEF LoadCall, NoCall
<1>6. /\ shown = <<>> /\ offset = 0 /\ hasMore = TRUE /\ loadingPosts = TRUE /\ world \in Worlds
      /\ base = {} /\ replies = [p \in PostIds |-> NoReplies]
    BY DEF TimelineInit
<1>7. NoReplies \in ReplyState /\ ~NoReplies.expanded
    BY DEF NoReplies, ReplyState
<1>8. TimelineTypeOK
    BY <1>1, <1>4, <1>6, <1>7 DEF TimelineTypeOK
<1>9. CallsFit
    BY <1>5, <1>6 DEF CallsFit, Loading, Free
<1>10. RepliesHonest
    BY <1>6, <1>7 DEF RepliesHonest
<1>11. QED
    BY <1>8, <1>9, <1>10 DEF BaseInv

LEMMA BaseInvNext == BaseInv /\ [TimelineNext]_timelineVars => BaseInv'
<1> SUFFICES ASSUME BaseInv, [TimelineNext]_timelineVars PROVE BaseInv'
    OBVIOUS
<1>1. CASE Others
    BY <1>1, OthersBase
<1>2. ASSUME NEW c \in Calls,
             \/ loadPosts(c) \/ ServeLoad(c) \/ EndLoad(c) \/ ServeReplies(c) \/ EndReplies(c)
             \/ SendPost(c) \/ ServeWrite(c) \/ Refuse(c) \/ EndPost(c) \/ EndReply(c)
             \/ EndWriteFailed(c)
             \/ \E p \in PostIds : toggleReplies(c, p) \/ SendReply(c, p)
      PROVE  BaseInv'
    BY <1>2, LoadPostsBase, ServeLoadBase, EndLoadBase, ServeRepliesBase, EndRepliesBase,
       SendBase, ServeWriteBase, RefuseBase, EndPostBase, EndReplyBase, EndWriteFailedBase,
       ToggleBase
<1>3. CASE UNCHANGED timelineVars
    BY <1>3 DEF timelineVars, page, BaseInv, TimelineTypeOK, TableOK, CallsFit, RepliesHonest,
                Loading, Free
<1>4. QED
    BY <1>1, <1>2, <1>3 DEF TimelineNext

LEMMA BaseAlways == TimelineSpec => []BaseInv
    BY BaseInvInit, BaseInvNext, PTL DEF TimelineSpec

\* The types of the page, and which calls may be under way beside which: one load
\* of the timeline at most, and it is the one loadingPosts tells of; a page that
\* waits has one call at most (app.js loadPosts).
THEOREM TimelineTyped == TimelineSpec => [](TimelineTypeOK /\ CallsFit)
<1>1. BaseInv => TimelineTypeOK /\ CallsFit
    BY DEF BaseInv
<1>2. QED
    BY <1>1, BaseAlways, PTL

\* A thread that is open, and neither loading nor failed, has been read: however
\* calls cross, loadReplies marks the thread it began (app.js loadReplies,
\* toggleReplies, handleReplySubmit).
THEOREM RepliesRight == TimelineSpec => []RepliesHonest
<1>1. BaseInv => RepliesHonest
    BY DEF BaseInv
<1>2. QED
    BY <1>1, BaseAlways, PTL

----------------------------------------------------------------------------
(* What a step does to the rows that are shown or answered *)

SameIds(s, t) == Len(s) = Len(t) /\ \A i \in 1 .. Len(s) : s[i].id = t[i].id

\* The rows on the page and under way stay, counts aside.
Keeps ==
    /\ SameIds(shown, shown')
    /\ \A d \in Calls : Answered(d)' => Answered(d) /\ SameIds(Coming(d), Coming(d)')

PostAnswered == \E c \in Calls : calls[c].kind = "post" /\ calls[c].at = "answered"

\* The rows of s and then a page of rows.
LEMMA RowsAfter ==
    ASSUME NEW s \in Seq(RowType), NEW rows \in Seq(RowType)
    PROVE  LET page1 == Page(rows, Limit, 0)
               all == s \o page1 IN
           /\ page1 \in Seq(RowType) /\ all \in Seq(RowType)
           /\ Len(all) = Len(s) + Len(page1)
           /\ \A i \in 1 .. Len(all) : all[i] = IF i <= Len(s) THEN s[i] ELSE page1[i - Len(s)]
<1>1. Page(rows, Limit, 0) \in Seq(RowType)
    BY PageIs, TimelineAssumption
<1>2. QED
    BY <1>1, ConcatProperties

LEMMA KeepsIs ==
    ASSUME BaseInv, BaseInv', SameIds(shown, shown'),
           \A d \in Calls : Answered(d)' => Answered(d) /\ calls'[d].rows = calls[d].rows
    PROVE  Keeps
<1> SUFFICES ASSUME NEW d \in Calls, Answered(d)'
             PROVE  Answered(d) /\ SameIds(Coming(d), Coming(d)')
    BY DEF Keeps
<1>1. PICK s, t, rows : s = shown /\ t = shown' /\ rows = calls[d].rows
    OBVIOUS
<1>2. Answered(d) /\ rows = calls'[d].rows
    BY <1>1
<1>3. s \in Seq(RowType) /\ t \in Seq(RowType) /\ rows \in Seq(RowType)
    BY <1>1, <1>2, CallKinds DEF BaseInv, TimelineTypeOK, Answered, Loading, LoadCalls
<1>4. Coming(d) = s \o Page(rows, Limit, 0)
    BY <1>1 DEF Coming
<1>5. Coming(d)' = t \o Page(rows, Limit, 0)
    BY <1>1, <1>2 DEF Coming
<1>6. SameIds(s, t)
    BY <1>1
<1> DEFINE p == Page(rows, Limit, 0)
<1>7. /\ p \in Seq(RowType) /\ Len(s \o p) = Len(s) + Len(p) /\ Len(t \o p) = Len(t) + Len(p)
      /\ \A i \in 1 .. Len(s \o p) : (s \o p)[i] = IF i <= Len(s) THEN s[i] ELSE p[i - Len(s)]
      /\ \A i \in 1 .. Len(t \o p) : (t \o p)[i] = IF i <= Len(t) THEN t[i] ELSE p[i - Len(t)]
    BY <1>3, RowsAfter
<1> HIDE DEF p
<1> DEFINE a == s \o p
           b == t \o p
<1>8. /\ Len(s) \in Nat /\ Len(p) \in Nat /\ Len(t) = Len(s)
      /\ Len(a) = Len(s) + Len(p) /\ Len(b) = Len(s) + Len(p)
      /\ \A i \in 1 .. Len(a) : a[i] = IF i <= Len(s) THEN s[i] ELSE p[i - Len(s)]
      /\ \A i \in 1 .. Len(b) : b[i] = IF i <= Len(s) THEN t[i] ELSE p[i - Len(s)]
      /\ \A i \in 1 .. Len(s) : s[i].id = t[i].id
    BY <1>3, <1>6, <1>7 DEF SameIds
<1> HIDE DEF a, b
<1>9. \A i \in 1 .. Len(a) : a[i].id = b[i].id
    BY <1>8
<1>10. SameIds(a, b)
    BY <1>8, <1>9 DEF SameIds
<1>11. QED
    BY <1>2, <1>4, <1>5, <1>10 DEF a, b, p

\* Rows and the next page after them.
LEMMA PageContinues ==
    ASSUME NEW s \in Seq(RowType), NEW all \in Seq(RowType), NEW rows,
           rows = Page(all, Limit + 1, Len(s))
    PROVE  LET r == s \o Page(rows, Limit, 0) IN
           /\ r \in Seq(RowType) /\ Len(r) >= Len(s)
           /\ \A i \in 1 .. Len(s) : r[i] = s[i]
           /\ \A i \in Len(s) + 1 .. Len(r) : i <= Len(all) /\ r[i] = all[i]
           /\ Len(s) <= Len(all) => Len(r) <= Len(all)
           /\ Len(s) <= Len(all) => (Len(rows) > Limit <=> Len(all) > Len(r))
<1> DEFINE n == Len(s)
<1>1. n \in Nat /\ Limit \in Nat /\ Limit >= 1
    BY TimelineAssumption
<1>2. /\ rows \in Seq(RowType)
      /\ Len(rows) = IF n >= Len(all) THEN 0
                     ELSE IF n + (Limit + 1) > Len(all) THEN Len(all) - n ELSE Limit + 1
      /\ \A i \in 1 .. Len(rows) : n + i \in 1 .. Len(all) /\ rows[i] = all[n + i]
    BY <1>1, PageIs
<1> DEFINE p == Page(rows, Limit, 0)
<1>3. /\ p \in Seq(RowType)
      /\ Len(p) = IF 0 >= Len(rows) THEN 0
                  ELSE IF 0 + Limit > Len(rows) THEN Len(rows) - 0 ELSE Limit
      /\ \A i \in 1 .. Len(p) : 0 + i \in 1 .. Len(rows) /\ p[i] = rows[0 + i]
    BY <1>1, <1>2, PageIs
<1>4. /\ Len(s \o p) = Len(s) + Len(p) /\ s \o p \in Seq(RowType)
      /\ \A i \in 1 .. Len(s \o p) : (s \o p)[i] = IF i <= Len(s) THEN s[i] ELSE p[i - Len(s)]
    BY <1>2, RowsAfter
<1> HIDE DEF p
<1> DEFINE r == s \o p
<1> HIDE DEF r
<1>5. /\ Len(r) = n + Len(p) /\ r \in Seq(RowType) /\ Len(p) \in Nat
      /\ \A i \in 1 .. Len(r) : r[i] = IF i <= n THEN s[i] ELSE p[i - n]
    BY <1>1, <1>3, <1>4 DEF r
<1>6. \A i \in 1 .. n : r[i] = s[i]
    BY <1>1, <1>5
<1>7. ASSUME NEW i \in n + 1 .. Len(r) PROVE i <= Len(all) /\ r[i] = all[i]
    <2>1. i \in 1 .. Len(r) /\ ~(i <= n) /\ i - n \in 1 .. Len(p)
        BY <1>1, <1>5
    <2>2. PICK j : j = i - n
        OBVIOUS
    <2>3. r[i] = p[j] /\ j \in 1 .. Len(p)
        BY <1>5, <2>1, <2>2
    <2>4. 0 + j \in 1 .. Len(rows) /\ p[j] = rows[0 + j] /\ 0 + j = j
        BY <1>3, <2>3
    <2>5. n + j \in 1 .. Len(all) /\ rows[j] = all[n + j]
        BY <1>2, <2>4
    <2>6. n + j = i
        BY <1>1, <2>2
    <2>7. QED
        BY <2>3, <2>4, <2>5, <2>6
<1>8. n <= Len(all) => Len(r) <= Len(all) /\ (Len(rows) > Limit <=> Len(all) > Len(r))
    BY <1>1, <1>2, <1>3, <1>5
<1>9. QED
    BY <1>1, <1>2, <1>5, <1>6, <1>7, <1>8 DEF r, p

\* A page of the posts, with the row that tells whether there are more.
LEMMA ListPostsIs ==
    ASSUME TimelineTypeOK, offset = Len(shown)
    PROVE  /\ AllPosts \in Seq(RowType)
           /\ listPosts(Limit + 1, offset) = Page(AllPosts, Limit + 1, Len(shown))
<1>1. parseLimit(Limit + 1) = Limit + 1
    BY TimelineAssumption DEF parseLimit
<1>2. QED
    BY <1>1, ListsAre DEF listPosts, TimelineTypeOK, PostsListed

\* The server's rows continue those that are shown at their places.
LEMMA ServedIs ==
    ASSUME BaseInv, NEW c \in Calls, ServeLoad(c)
    PROVE  /\ Coming(c)' \in Seq(RowType) /\ Len(Coming(c)') >= Len(shown)
           /\ \A i \in 1 .. Len(shown) : Coming(c)'[i] = shown[i]
           /\ \A i \in Len(shown) + 1 .. Len(Coming(c)') :
                i <= Len(AllPosts) /\ Coming(c)'[i] = AllPosts[i]
<1>1. PICK s, all, rows : s = shown /\ all = AllPosts /\ rows = listPosts(Limit + 1, offset)
    OBVIOUS
<1>2. s \in Seq(RowType) /\ all \in Seq(RowType) /\ rows = Page(all, Limit + 1, Len(s))
    BY <1>1, ListPostsIs DEF BaseInv, TimelineTypeOK, CallsFit
<1>3. calls[c] \in LoadCalls /\ calls'[c] = [calls[c] EXCEPT !.at = "answered", !.rows = rows]
    BY <1>1, ServeLoadBase
<1>4. calls'[c].rows = rows
    BY <1>3 DEF LoadCalls
<1>5. shown' = s
    BY <1>1 DEF ServeLoad, page
<1>6. Coming(c)' = s \o Page(rows, Limit, 0)
    BY <1>4, <1>5 DEF Coming
<1> DEFINE r == s \o Page(rows, Limit, 0)
<1>7. /\ r \in Seq(RowType) /\ Len(r) >= Len(s)
      /\ \A i \in 1 .. Len(s) : r[i] = s[i]
      /\ \A i \in Len(s) + 1 .. Len(r) : i <= Len(all) /\ r[i] = all[i]
    BY <1>2, PageContinues
<1> HIDE DEF r
<1>8. QED
    BY <1>1, <1>6, <1>7 DEF r

\* A load that begins.
Starts(c, reset, composer) ==
    /\ StartLoad(c, reset, composer) /\ UNCHANGED <<posts, world>>
    /\ calls'[c] = LoadCall(reset, composer) /\ \A d \in Calls : ~Loading(d)
    /\ world = "waits" /\ ~reset => ~PostAnswered

\* A step that adds no row and forgets none.
Settled ==
    /\ Keeps /\ UNCHANGED <<world, base>>
    /\ world # "deletes" => Tops \subseteq Tops'
    /\ world # "creates" => PostAnswered' \/ (~PostAnswered /\ Tops' \subseteq Tops)

LEMMA SettledIs ==
    ASSUME BaseInv, BaseInv', NEW c \in Calls, UNCHANGED <<posts, world, base>>,
           SameIds(shown, shown'), \A d \in Calls \ {c} : calls'[d] = calls[d],
           ~Answered(c)',
           calls[c].kind = "post" /\ calls[c].at = "answered" => world = "creates"
    PROVE  Settled
<1>1. Keeps
    BY KeepsIs DEF Answered, Loading
<1>2. Tops' = Tops
    BY DEF Tops, IsStored
<1>3. world # "creates" => PostAnswered' \/ ~PostAnswered
    BY DEF PostAnswered
<1>4. QED
    BY <1>1, <1>2, <1>3 DEF Settled

LEMMA SameShown == BaseInv /\ UNCHANGED shown => SameIds(shown, shown')
    BY DEF SameIds, BaseInv, TimelineTypeOK

LEMMA NoPosts ==
    ASSUME BaseInv
    PROVE  /\ world = "deletes" => ~PostAnswered
           /\ \A c \in Calls : world = "waits" /\ (Alone \/ Loading(c)) => ~PostAnswered
    BY DEF BaseInv, CallsFit, PostAnswered, Alone, Free, Loading

LEMMA OthersSettled ==
    ASSUME BaseInv, BaseInv', Others
    PROVE  Settled
<1>1. UNCHANGED <<world, shown, calls, base>>
    BY DEF Others, page
<1>2. Keeps
    BY <1>1, SameShown, KeepsIs DEF Answered, Loading
<1>3. /\ world \in {"creates", "deletes"}
      /\ world = "creates" => Tops \subseteq Tops'
      /\ world = "deletes" => Tops' \subseteq Tops
    BY OthersTable DEF BaseInv, TimelineTypeOK
<1>4. QED
    BY <1>1, <1>2, <1>3, NoPosts DEF Settled

LEMMA WriteSettled ==
    ASSUME BaseInv, BaseInv', NEW c \in Calls, ServeWrite(c)
    PROVE  Settled
<1>1. /\ calls'[c].at \in {"answered", "failed"} /\ calls'[c].kind = calls[c].kind
      /\ world # "deletes" /\ calls[c].kind \in {"post", "reply"} /\ calls[c].at = "sent"
      /\ world = "waits" => calls'[c].at = "answered"
      /\ \A d \in Calls \ {c} : calls'[d] = calls[d]
      /\ UNCHANGED <<world, shown, base>> /\ Tops \subseteq Tops'
      /\ calls[c].kind = "reply" => Tops' = Tops
    BY ServeWriteBase DEF page
<1>2. Keeps
    BY <1>1, SameShown, KeepsIs DEF Answered, Loading
<1>3. world # "creates" => PostAnswered' \/ (~PostAnswered /\ Tops' \subseteq Tops)
    <2> SUFFICES ASSUME world # "creates", ~PostAnswered'
                 PROVE  ~PostAnswered /\ Tops' \subseteq Tops
        OBVIOUS
    <2>1. world = "waits"
        BY <1>1 DEF BaseInv, TimelineTypeOK, Worlds
    <2>2. calls[c].kind = "reply"
        BY <1>1, <2>1 DEF PostAnswered
    <2>3. ~PostAnswered
        BY <1>1, <2>2 DEF PostAnswered
    <2>4. QED
        BY <1>1, <2>2, <2>3
<1>4. QED
    BY <1>1, <1>2, <1>3 DEF Settled

LEMMA CallSettled ==
    ASSUME BaseInv, BaseInv', NEW c \in Calls,
           \/ ServeReplies(c) \/ EndReplies(c) \/ SendPost(c) \/ Refuse(c) \/ EndReply(c)
           \/ EndWriteFailed(c)
           \/ \E p \in PostIds : toggleReplies(c, p) \/ SendReply(c, p)
    PROVE  Settled
<1>1. CASE ServeReplies(c)
    <2>1. /\ calls[c].kind = "replies" /\ calls'[c] = [calls[c] EXCEPT !.at = "answered",
                             !.rows = listPostReplies(calls[c].post, RepliesLimit)]
          /\ calls[c] \in ReplyLoads
          /\ \A d \in Calls \ {c} : calls'[d] = calls[d]
          /\ UNCHANGED <<posts, world, base>> /\ UNCHANGED shown
        BY <1>1, ServeRepliesBase DEF ServeReplies, page
    <2>2. calls'[c].kind = "replies"
        BY <2>1 DEF ReplyLoads
    <2>3. QED
        BY <2>1, <2>2, SameShown, SettledIs DEF Answered, Loading
<1>2. CASE EndReplies(c)
    <2>1. /\ calls[c] \in ReplyLoads /\ calls'[c] = NoCall
          /\ \A d \in Calls \ {c} : calls'[d] = calls[d]
          /\ UNCHANGED <<posts, world, base>> /\ UNCHANGED shown
        BY <1>2, EndRepliesBase
    <2>2. calls[c].kind # "post" /\ ~Answered(c)'
        BY <2>1 DEF ReplyLoads, Answered, Loading, NoCall
    <2>3. QED
        BY <2>1, <2>2, SameShown, SettledIs
<1>3. CASE SendPost(c) \/ \E p \in PostIds : SendReply(c, p)
    <2>1. /\ calls[c] = NoCall /\ calls'[c].kind \in {"post", "reply"}
          /\ \A d \in Calls \ {c} : calls'[d] = calls[d]
          /\ UNCHANGED <<posts, world, base>> /\ UNCHANGED shown
        BY <1>3, SendBase DEF page
    <2>2. QED
        BY <2>1, SameShown, SettledIs DEF Answered, Loading, NoCall
<1>4. CASE Refuse(c)
    <2>1. /\ calls[c].at = "sent" /\ calls'[c].at = "failed"
          /\ \A d \in Calls \ {c} : calls'[d] = calls[d]
          /\ UNCHANGED <<posts, world, base>> /\ UNCHANGED shown
        BY <1>4, RefuseBase DEF page
    <2>2. QED
        BY <2>1, SameShown, SettledIs DEF Answered
<1>5. CASE EndReply(c)
    <2>1. /\ calls[c].kind = "reply" /\ calls[c].post \in PostIds
          /\ \A d \in Calls \ {c} : calls'[d] = calls[d]
          /\ calls'[c] = RepliesCall(calls[c].post)
          /\ UNCHANGED <<posts, world, base>> /\ shown' = CountedShown(calls[c].post)
        BY <1>5, EndReplyBase
    <2>2. SameIds(shown, shown')
        BY <2>1, CountedIs DEF SameIds, BaseInv
    <2>3. calls'[c].kind = "replies"
        BY <2>1 DEF RepliesCall
    <2>4. QED
        BY <2>1, <2>2, <2>3, SettledIs DEF Answered, Loading
<1>6. CASE EndWriteFailed(c)
    <2>1. /\ calls[c].at = "failed" /\ calls'[c] = NoCall
          /\ \A d \in Calls \ {c} : calls'[d] = calls[d]
          /\ UNCHANGED <<posts, world, base>> /\ UNCHANGED shown
        BY <1>6, EndWriteFailedBase DEF page
    <2>2. QED
        BY <2>1, SameShown, SettledIs DEF Answered, Loading, NoCall
<1>7. ASSUME NEW p \in PostIds, toggleReplies(c, p) PROVE Settled
    <2>1. /\ calls[c] = NoCall /\ (calls'[c] = NoCall \/ calls'[c] = RepliesCall(p))
          /\ \A d \in Calls \ {c} : calls'[d] = calls[d]
          /\ UNCHANGED <<posts, world, base>> /\ UNCHANGED shown
        BY <1>7, ToggleBase
    <2>2. QED
        BY <2>1, SameShown, SettledIs DEF Answered, Loading, NoCall, RepliesCall
<1>8. QED
    BY <1>1, <1>2, <1>3, <1>4, <1>5, <1>6, <1>7

\* Every step serves a page, ends one, begins one, or leaves the rows.
LEMMA StepKinds ==
    ASSUME BaseInv, BaseInv', [TimelineNext]_timelineVars
    PROVE  \/ \E c \in Calls : ServeLoad(c) \/ EndLoad(c)
           \/ \E c \in Calls : \E reset, composer \in BOOLEAN : Starts(c, reset, composer)
           \/ Settled
<1>1. CASE Others
    BY <1>1, OthersSettled
<1>2. ASSUME NEW c \in Calls, loadPosts(c)
      PROVE  \E reset, composer \in BOOLEAN : Starts(c, reset, composer)
    <2>1. world = "waits" => ~PostAnswered
        BY <1>2, NoPosts DEF loadPosts, MayCall
    <2>2. PICK reset \in BOOLEAN : StartLoad(c, reset, FALSE) /\ calls'[c] = LoadCall(reset, FALSE)
        BY <1>2, LoadPostsBase
    <2>3. UNCHANGED <<posts, world>> /\ \A d \in Calls : ~Loading(d)
        BY <1>2, LoadPostsBase
    <2>4. Starts(c, reset, FALSE)
        BY <2>1, <2>2, <2>3 DEF Starts
    <2>5. QED
        BY <2>4
<1>3. ASSUME NEW c \in Calls, EndPost(c)
      PROVE  (\E reset, composer \in BOOLEAN : Starts(c, reset, composer)) \/ Settled
    <2>1. CASE /\ StartLoad(c, TRUE, TRUE) /\ calls'[c] = LoadCall(TRUE, TRUE)
               /\ \A d \in Calls : ~Loading(d)
        <3>1. Starts(c, TRUE, TRUE)
            BY <1>3, <2>1, EndPostBase DEF Starts
        <3>2. QED
            BY <3>1
    <2>2. CASE /\ ~MayLoad(TRUE) /\ UNCHANGED <<page, base>> /\ calls'[c] = NoCall
               /\ \A d \in Calls \ {c} : calls'[d] = calls[d]
        <3>1. UNCHANGED <<posts, world, base>> /\ UNCHANGED shown /\ loadingPosts
              /\ calls[c].kind = "post"
            BY <1>3, <2>2, EndPostBase DEF page, MayLoad, BaseInv, TimelineTypeOK
        <3>2. world # "waits" /\ world # "deletes"
            BY <3>1 DEF BaseInv, CallsFit, Loading, Free
        <3>3. world = "creates"
            BY <3>2 DEF BaseInv, TimelineTypeOK, Worlds
        <3>4. ~Answered(c)'
            BY <2>2 DEF Answered, Loading, NoCall
        <3>5. QED
            BY <2>2, <3>1, <3>3, <3>4, SameShown, SettledIs
    <2>3. QED
        BY <1>3, <2>1, <2>2, EndPostBase
<1>4. ASSUME NEW c \in Calls,
             \/ loadPosts(c) \/ ServeLoad(c) \/ EndLoad(c) \/ ServeReplies(c) \/ EndReplies(c)
             \/ SendPost(c) \/ ServeWrite(c) \/ Refuse(c) \/ EndPost(c) \/ EndReply(c)
             \/ EndWriteFailed(c)
             \/ \E p \in PostIds : toggleReplies(c, p) \/ SendReply(c, p)
      PROVE  \/ ServeLoad(c) \/ EndLoad(c)
             \/ \E reset, composer \in BOOLEAN : Starts(c, reset, composer)
             \/ Settled
    BY <1>2, <1>3, <1>4, WriteSettled, CallSettled
<1>5. CASE UNCHANGED timelineVars
    <2>1. UNCHANGED <<posts, world, shown, calls, base>>
        BY <1>5 DEF timelineVars, page
    <2>2. Keeps
        BY <2>1, SameShown, KeepsIs DEF Answered, Loading
    <2>3. Tops' = Tops /\ PostAnswered' = PostAnswered
        BY <2>1 DEF Tops, IsStored, PostAnswered
    <2>4. QED
        BY <2>1, <2>2, <2>3 DEF Settled
<1>6. QED
    BY <1>1, <1>4, <1>5 DEF TimelineNext

----------------------------------------------------------------------------
(* Nothing is skipped *)

Listed(p, rows) == \E i \in 1 .. Len(rows) : rows[i].id = p

\* A post of the base is among rows, or so far back that it is still to come.
Reaches(rows) == \A p \in base : Listed(p, rows) \/ Rank(p) >= Len(rows)

InReach ==
    world # "deletes" =>
        /\ base \subseteq Tops
        /\ Reaches(shown)
        /\ \A c \in Calls : Answered(c) => Reaches(Coming(c))

LEMMA ReachesKept ==
    ASSUME TableOK, TableOK', Tops \subseteq Tops', base' = base, base \subseteq PostIds,
           NEW s \in Seq(RowType), NEW t \in Seq(RowType), SameIds(s, t), Reaches(s)
    PROVE  Reaches(t)'
<1>1. \A p \in PostIds : Rank(p) \in Nat /\ Rank(p)' \in Nat /\ Rank(p) <= Rank(p)'
    BY RanksGrow, ListsAre, ListsAreNext DEF PostsListed
<1> SUFFICES ASSUME NEW p \in base PROVE Listed(p, t) \/ Rank(p)' >= Len(t)
    BY DEF Reaches
<1>2. Len(s) \in Nat /\ Len(t) = Len(s) /\ \A i \in 1 .. Len(s) : t[i].id = s[i].id
    BY DEF SameIds
<1>3. CASE Listed(p, s)
    BY <1>2, <1>3 DEF Listed
<1>4. CASE Rank(p) >= Len(s)
    BY <1>1, <1>2, <1>4
<1>5. QED
    BY <1>3, <1>4 DEF Reaches

LEMMA ComingTyped == TimelineTypeOK => \A c \in Calls : Loading(c) => Coming(c) \in Seq(RowType)
    BY ComingIs

LEMMA ComingTypedNext ==
    TimelineTypeOK' => \A c \in Calls : Loading(c)' => Coming(c)' \in Seq(RowType)
<1>1. (TimelineTypeOK => \A c \in Calls : Loading(c) => Coming(c) \in Seq(RowType))'
    BY ComingTyped, PTL
<1>2. QED
    BY <1>1

LEMMA SettledReach ==
    ASSUME BaseInv, BaseInv', Settled, InReach
    PROVE  InReach'
<1> SUFFICES ASSUME world # "deletes" PROVE InReach'
    BY DEF InReach, Settled
<1>1. /\ base' = base /\ base \subseteq Tops /\ Tops \subseteq Tops' /\ base \subseteq PostIds
      /\ TableOK /\ TableOK' /\ shown \in Seq(RowType) /\ shown' \in Seq(RowType)
    BY DEF Settled, InReach, BaseInv, TimelineTypeOK
<1>2. PICK s, t : s = shown /\ t = shown'
    OBVIOUS
<1>3. Reaches(s) /\ SameIds(s, t)
    BY <1>2 DEF InReach, Settled, Keeps
<1>4. Reaches(t)'
    BY <1>1, <1>2, <1>3, ReachesKept
<1>5. Reaches(shown)'
    BY <1>2, <1>4 DEF Reaches
<1>6. ASSUME NEW c \in Calls, Answered(c)' PROVE Reaches(Coming(c))'
    <2>1. PICK a, b : a = Coming(c) /\ b = Coming(c)'
        OBVIOUS
    <2>2. Answered(c) /\ SameIds(a, b)
        BY <1>6, <2>1 DEF Settled, Keeps
    <2>3. a \in Seq(RowType) /\ b \in Seq(RowType)
        BY <1>6, <2>1, <2>2, ComingTyped, ComingTypedNext DEF Answered, BaseInv
    <2>4. Reaches(a)
        BY <2>1, <2>2 DEF InReach, Reaches
    <2>5. Reaches(b)'
        BY <1>1, <2>2, <2>3, <2>4, ReachesKept
    <2>6. QED
        BY <2>1, <2>5 DEF Reaches
<1>7. QED
    BY <1>1, <1>5, <1>6 DEF InReach

LEMMA StartsReach ==
    ASSUME BaseInv, NEW c \in Calls, NEW reset \in BOOLEAN, NEW composer \in BOOLEAN,
           Starts(c, reset, composer), InReach
    PROVE  InReach'
<1> SUFFICES ASSUME world # "deletes" PROVE InReach'
    BY DEF InReach, Starts
<1>1. \A d \in Calls : ~Answered(d)'
    <2>1. \A d \in Calls \ {c} : calls'[d].kind = calls[d].kind
        BY DetachedIs DEF Starts, StartLoad, BaseInv, TimelineTypeOK
    <2>2. calls'[c].at = "sent"
        BY DEF Starts, LoadCall
    <2>3. QED
        BY <2>1, <2>2 DEF Starts, Answered, Loading
<1>2. Tops' = Tops /\ \A p : Rank(p)' = Rank(p)
    BY DEF Starts, Tops, IsStored, Rank, Before
<1>3. CASE reset
    BY <1>1, <1>3 DEF Starts, StartLoad, InReach, Reaches
<1>4. CASE ~reset
    <2>1. shown' = shown /\ base' = base
        BY <1>4 DEF Starts, StartLoad
    <2>2. QED
        BY <1>1, <1>2, <2>1 DEF InReach, Reaches
<1>5. QED
    BY <1>3, <1>4

LEMMA ServeReach ==
    ASSUME BaseInv, BaseInv', NEW c \in Calls, ServeLoad(c), InReach
    PROVE  InReach'
<1> SUFFICES ASSUME world # "deletes" PROVE InReach'
    BY DEF InReach, ServeLoad
<1>1. PICK s, r, all : s = shown /\ r = Coming(c)' /\ all = AllPosts
    OBVIOUS
<1>2. /\ s \in Seq(RowType) /\ r \in Seq(RowType) /\ Len(r) >= Len(s) /\ all \in Seq(RowType)
      /\ \A i \in 1 .. Len(s) : r[i] = s[i]
      /\ \A i \in Len(s) + 1 .. Len(r) : i <= Len(all) /\ r[i] = all[i]
    BY <1>1, ServedIs, ListsAre DEF BaseInv, TimelineTypeOK, PostsListed
<1>3. /\ \A p \in PostIds : Rank(p) \in Nat
      /\ \A p \in Tops : Rank(p) < Len(all) /\ all[Rank(p) + 1].id = p
      /\ Tops \subseteq PostIds
    BY <1>1, ListsAre DEF BaseInv, TimelineTypeOK, PostsListed, Tops
<1>4. /\ UNCHANGED <<posts, world, shown>> /\ Tops' = Tops /\ \A p : Rank(p)' = Rank(p)
    BY DEF ServeLoad, page, Tops, IsStored, Rank, Before
<1>5. /\ base' \subseteq Tops
      /\ \A p \in base' : Listed(p, s) \/ Rank(p) >= Len(s)
    <2>1. CASE calls[c].reset
        <3>1. shown = <<>> /\ base' = Tops
            BY <2>1 DEF ServeLoad, BaseInv, CallsFit, Loading
        <3>2. Len(s) = 0
            BY <1>1, <3>1
        <3>3. QED
            BY <1>3, <3>1, <3>2
    <2>2. CASE ~calls[c].reset
        <3>1. base' = base
            BY <2>2 DEF ServeLoad
        <3>2. QED
            BY <1>1, <3>1 DEF InReach, Reaches
    <2>3. QED
        BY <2>1, <2>2
<1>6. Reaches(shown)'
    BY <1>1, <1>4, <1>5 DEF Reaches
<1>7. ASSUME NEW p \in base' PROVE Listed(p, r) \/ Rank(p) >= Len(r)
    <2>1. CASE Listed(p, s)
        BY <1>2, <2>1 DEF Listed
    <2>2. CASE Rank(p) >= Len(s) /\ Rank(p) < Len(r)
        <3>1. p \in Tops /\ Rank(p) \in Nat
            BY <1>3, <1>5
        <3>2. Rank(p) + 1 \in Len(s) + 1 .. Len(r)
            BY <1>2, <2>2, <3>1
        <3>3. r[Rank(p) + 1].id = p /\ Rank(p) + 1 \in 1 .. Len(r)
            BY <1>2, <1>3, <2>2, <3>1, <3>2
        <3>4. QED
            BY <3>3 DEF Listed
    <2>3. QED
        BY <1>2, <1>3, <1>5, <2>1, <2>2
<1>8. Reaches(Coming(c))'
    BY <1>1, <1>4, <1>7 DEF Reaches
<1>9. \A d \in Calls : Answered(d)' => d = c
    <2>1. Loading(c) /\ \A d \in Calls \ {c} : calls'[d] = calls[d]
        BY DEF ServeLoad, Loading, BaseInv, TimelineTypeOK
    <2>2. QED
        BY <2>1 DEF Answered, Loading, BaseInv, CallsFit
<1>10. base' \subseteq Tops'
    BY <1>4, <1>5
<1>11. QED
    BY <1>6, <1>8, <1>9, <1>10 DEF InReach

\* No page is under way after one ended.
LEMMA EndsAll ==
    ASSUME BaseInv, NEW c \in Calls, EndLoad(c)
    PROVE  \A d \in Calls : ~Answered(d)'
<1>1. Loading(c) /\ calls'[c] = NoCall /\ \A d \in Calls \ {c} : calls'[d] = calls[d]
    BY DEF EndLoad, Loading, BaseInv, TimelineTypeOK
<1>2. QED
    BY <1>1 DEF Answered, Loading, BaseInv, CallsFit, NoCall

LEMMA EndReach ==
    ASSUME BaseInv, NEW c \in Calls, EndLoad(c), InReach
    PROVE  InReach'
<1>1. /\ UNCHANGED <<posts, world, base>> /\ Loading(c)
      /\ calls[c].at = "answered" => shown' = Coming(c)
      /\ calls[c].at # "answered" => shown' = shown
    BY EndLoadBase DEF EndLoad, Loading
<1>2. Tops' = Tops /\ \A p : Rank(p)' = Rank(p)
    BY <1>1 DEF Tops, IsStored, Rank, Before
<1>3. world # "deletes" => Reaches(shown)'
    <2>1. CASE calls[c].at = "answered"
        BY <1>1, <1>2, <2>1 DEF InReach, Reaches, Answered
    <2>2. CASE calls[c].at # "answered"
        BY <1>1, <1>2, <2>2 DEF InReach, Reaches
    <2>3. QED
        BY <2>1, <2>2
<1>4. QED
    BY <1>1, <1>2, <1>3, EndsAll DEF InReach

LEMMA InReachInit == TimelineInit => InReach
    BY DEF TimelineInit, InReach, Reaches, Answered, Loading, LoadCall, NoCall

LEMMA InReachNext ==
    BaseInv /\ BaseInv' /\ InReach /\ [TimelineNext]_timelineVars => InReach'
    BY StepKinds, SettledReach, StartsReach, ServeReach, EndReach

\* A post that was there when the timeline was read from its beginning is never
\* lost to the pages that are read by offset later, whoever posts and whatever
\* answer is late or lost, as long as nobody deletes (app.js loadPosts, listPosts).
THEOREM NothingLost == TimelineSpec => []NothingSkipped
<1>1. BaseInv /\ InReach => NothingSkipped
    <2> SUFFICES ASSUME BaseInv, InReach, world # "deletes", NEW p \in base \ Ids(shown)
                 PROVE  \E i \in DOMAIN AllPosts : AllPosts[i].id = p /\ i > offset
        BY DEF NothingSkipped
    <2>1. ~Listed(p, shown)
        BY DEF Listed, Ids, ToSet, BaseInv, TimelineTypeOK
    <2>2. p \in Tops /\ Rank(p) >= Len(shown) /\ offset = Len(shown) /\ shown \in Seq(RowType)
        BY <2>1 DEF InReach, Reaches, BaseInv, TimelineTypeOK, CallsFit
    <2>3. /\ AllPosts \in Seq(RowType) /\ Rank(p) \in Nat /\ Rank(p) < Len(AllPosts)
          /\ AllPosts[Rank(p) + 1].id = p
        BY <2>2, ListsAre DEF BaseInv, TimelineTypeOK, PostsListed, Tops
    <2>4. Rank(p) + 1 \in DOMAIN AllPosts /\ Rank(p) + 1 > offset
        BY <2>2, <2>3
    <2>5. QED
        BY <2>3, <2>4
<1>2. QED
    BY <1>1, BaseAlways, InReachInit, InReachNext, PTL DEF TimelineSpec

----------------------------------------------------------------------------
(* Nothing is shown twice *)

Descending(rows) == \A i, j \in 1 .. Len(rows) : i < j => rows[i].id > rows[j].id

\* No row stands before its place in the table.
Early(rows) == \A i \in 1 .. Len(rows) : Rank(rows[i].id) < i

\* The page reads on behind the rows it has, until its own post moves the table
\* under them: then it reads nothing more before it begins again.
InOrder ==
    world # "creates" =>
        /\ Descending(shown)
        /\ \A c \in Calls : Answered(c) => Descending(Coming(c))
        /\ ~PostAnswered => /\ Early(shown)
                            /\ \A c \in Calls : Answered(c) => Early(Coming(c))

LEMMA RowsTyped ==
    ASSUME NEW s \in Seq(RowType)
    PROVE  /\ Len(s) \in Nat /\ DOMAIN s = 1 .. Len(s)
           /\ \A i \in 1 .. Len(s) :
                s[i] \in RowType /\ s[i].id \in PostIds /\ s[i].replies \in Nat
<1>1. Len(s) \in Nat /\ DOMAIN s = 1 .. Len(s) /\ \A i \in 1 .. Len(s) : s[i] \in RowType
    OBVIOUS
<1>2. QED
    BY <1>1 DEF RowType

LEMMA OrderKept ==
    ASSUME TableOK, TableOK', NEW s \in Seq(RowType), NEW t \in Seq(RowType), SameIds(s, t)
    PROVE  /\ Descending(s) => Descending(t)
           /\ Tops' \subseteq Tops /\ Early(s) => Early(t)'
<1>1. Len(s) \in Nat /\ Len(t) = Len(s) /\ \A i \in 1 .. Len(s) : s[i].id = t[i].id
    BY DEF SameIds
<1>2. \A i \in 1 .. Len(t) : t[i].id \in PostIds
    BY RowsTyped
<1>3. \A p \in PostIds : /\ Rank(p) \in Nat /\ Rank(p)' \in Nat
                         /\ Tops' \subseteq Tops => Rank(p)' <= Rank(p)
    BY RanksGrow, ListsAre, ListsAreNext DEF PostsListed
<1>4. Descending(s) => Descending(t)
    BY <1>1 DEF Descending
<1>5. ASSUME Tops' \subseteq Tops, Early(s), NEW i \in 1 .. Len(t)
      PROVE  Rank(t[i].id)' < i
    <2>1. PICK p \in PostIds : p = t[i].id
        BY <1>2
    <2>2. Rank(p) < i
        BY <1>1, <1>5, <2>1 DEF Early
    <2>3. Rank(p)' < i
        BY <1>3, <1>5, <2>2
    <2>4. QED
        BY <2>1, <2>3
<1>6. QED
    BY <1>4, <1>5 DEF Early

LEMMA SettledOrder ==
    ASSUME BaseInv, BaseInv', Settled, InOrder
    PROVE  InOrder'
<1> SUFFICES ASSUME world # "creates" PROVE InOrder'
    BY DEF InOrder, Settled
<1>1. /\ TableOK /\ TableOK' /\ shown \in Seq(RowType) /\ shown' \in Seq(RowType)
      /\ PostAnswered' \/ (~PostAnswered /\ Tops' \subseteq Tops)
    BY DEF Settled, BaseInv, TimelineTypeOK
<1>2. ASSUME NEW s \in Seq(RowType), NEW t \in Seq(RowType), SameIds(s, t),
             Descending(s), ~PostAnswered => Early(s)
      PROVE  Descending(t) /\ (~PostAnswered' => Early(t)')
    BY <1>1, <1>2, OrderKept
<1>3. Descending(shown') /\ (~PostAnswered' => Early(shown)')
    <2>1. PICK s, t : s = shown /\ t = shown'
        OBVIOUS
    <2>2. /\ s \in Seq(RowType) /\ t \in Seq(RowType) /\ SameIds(s, t)
          /\ Descending(s) /\ (~PostAnswered => Early(s))
        BY <1>1, <2>1 DEF InOrder, Settled, Keeps, Early
    <2>3. Descending(t) /\ (~PostAnswered' => Early(t)')
        BY <1>2, <2>2
    <2>4. QED
        BY <2>1, <2>3 DEF Early
<1>4. ASSUME NEW c \in Calls, Answered(c)'
      PROVE  Descending(Coming(c))' /\ (~PostAnswered' => Early(Coming(c))')
    <2>1. PICK s, t : s = Coming(c) /\ t = Coming(c)'
        OBVIOUS
    <2>2. Answered(c) /\ SameIds(s, t)
        BY <1>4, <2>1 DEF Settled, Keeps
    <2>3. s \in Seq(RowType) /\ t \in Seq(RowType)
        BY <1>4, <2>1, <2>2, ComingTyped, ComingTypedNext DEF Answered, BaseInv
    <2>4. Descending(s) /\ (~PostAnswered => Early(s))
        BY <2>1, <2>2 DEF InOrder, Early
    <2>5. Descending(t) /\ (~PostAnswered' => Early(t)')
        BY <1>2, <2>2, <2>3, <2>4
    <2>6. QED
        BY <2>1, <2>5 DEF Early, Descending
<1>5. QED
    BY <1>3, <1>4 DEF InOrder

LEMMA StartsOrder ==
    ASSUME BaseInv, NEW c \in Calls, NEW reset \in BOOLEAN, NEW composer \in BOOLEAN,
           Starts(c, reset, composer), InOrder
    PROVE  InOrder'
<1> SUFFICES ASSUME world # "creates" PROVE InOrder'
    BY DEF InOrder, Starts
<1>1. \A d \in Calls : ~Answered(d)'
    <2>1. \A d \in Calls \ {c} : calls'[d].kind = calls[d].kind
        BY DetachedIs DEF Starts, StartLoad, BaseInv, TimelineTypeOK
    <2>2. calls'[c].at = "sent"
        BY DEF Starts, LoadCall
    <2>3. QED
        BY <2>1, <2>2 DEF Starts, Answered, Loading
<1>2. \A p : Rank(p)' = Rank(p)
    BY DEF Starts, Tops, IsStored, Rank, Before
<1>3. CASE reset
    <2>1. shown' = <<>>
        BY <1>3 DEF Starts, StartLoad
    <2>2. Descending(shown)' /\ Early(shown)'
        BY <2>1 DEF Descending, Early
    <2>3. QED
        BY <1>1, <2>2 DEF InOrder
<1>4. CASE ~reset
    <2>1. shown' = shown
        BY <1>4 DEF Starts, StartLoad
    <2>2. ~PostAnswered
        BY <1>4, NoPosts DEF Starts, BaseInv, TimelineTypeOK, Worlds
    <2>3. Descending(shown') /\ Early(shown)'
        BY <1>2, <2>1, <2>2 DEF InOrder, Early
    <2>4. QED
        BY <1>1, <2>3 DEF InOrder
<1>5. QED
    BY <1>3, <1>4

\* Rows at their places, after rows not before theirs.
LEMMA PlacesDescend ==
    ASSUME TableOK, NEW s \in Seq(RowType), NEW r \in Seq(RowType), Len(r) >= Len(s),
           \A i \in 1 .. Len(s) : r[i] = s[i],
           \A i \in Len(s) + 1 .. Len(r) : i <= Len(AllPosts) /\ r[i] = AllPosts[i],
           Descending(s), Early(s)
    PROVE  Descending(r) /\ Early(r)
<1>1. /\ \A i \in 1 .. Len(AllPosts) : AllPosts[i].id \in PostIds /\ Rank(AllPosts[i].id) = i - 1
      /\ \A p \in PostIds : Rank(p) \in Nat
      /\ \A p \in Tops, q \in PostIds : p > q => Rank(p) < Rank(q)
      /\ PostIds \subseteq Nat
    BY ListsAre, TimelineAssumption DEF PostsListed, Tops
<1>2. Len(s) \in Nat /\ Len(r) \in Nat /\ \A i \in 1 .. Len(r) : r[i].id \in PostIds
    BY RowsTyped
<1>3. ASSUME NEW i \in Len(s) + 1 .. Len(r) PROVE Rank(r[i].id) = i - 1
    BY <1>1, <1>2, <1>3
<1>4. ASSUME NEW i \in 1 .. Len(r) PROVE Rank(r[i].id) < i
    <2>1. CASE i <= Len(s)
        BY <1>2, <2>1 DEF Early
    <2>2. CASE i > Len(s)
        <3>1. i \in Len(s) + 1 .. Len(r)
            BY <1>2, <2>2
        <3>2. QED
            BY <1>3, <3>1
    <2>3. QED
        BY <1>2, <2>1, <2>2
<1>5. ASSUME NEW p \in PostIds, NEW q \in PostIds, Rank(p) < Rank(q) PROVE p > q
    <2>1. CASE q > p
        <3>1. Before(Tops, NewestFirst, q) \subseteq Before(Tops, NewestFirst, p)
            <4> SUFFICES ASSUME NEW x \in Tops, <<x, q>> \in NewestFirst
                         PROVE  <<x, p>> \in NewestFirst
                BY DEF Before
            <4>1. x \in PostIds /\ x > q
                BY DEF NewestFirst
            <4>2. x > p
                BY <1>1, <2>1, <4>1
            <4>3. QED
                BY <4>1, <4>2 DEF NewestFirst
        <3>2. IsFiniteSet(Before(Tops, NewestFirst, p))
            BY ListsAre, FS_Subset DEF PostsListed, Before
        <3>3. Rank(q) <= Rank(p)
            BY <3>1, <3>2, FS_Subset DEF Rank
        <3>4. QED
            BY <1>1, <1>5, <3>3
    <2>2. CASE q = p
        BY <1>1, <1>5, <2>2
    <2>3. QED
        BY <1>1, <2>1, <2>2
<1>6. ASSUME NEW i \in 1 .. Len(r), NEW j \in 1 .. Len(r), i < j PROVE r[i].id > r[j].id
    <2>1. CASE j <= Len(s)
        BY <1>2, <1>6, <2>1 DEF Descending
    <2>2. CASE j > Len(s)
        <3>1. Rank(r[j].id) = j - 1
            BY <1>2, <1>3, <2>2
        <3>2. Rank(r[i].id) < i /\ Rank(r[i].id) \in Nat
            BY <1>1, <1>2, <1>4
        <3>3. Rank(r[i].id) < Rank(r[j].id)
            BY <1>6, <3>1, <3>2
        <3>4. QED
            BY <1>2, <1>5, <3>3
    <2>3. QED
        BY <1>2, <2>1, <2>2
<1>7. QED
    BY <1>4, <1>6 DEF Descending, Early

LEMMA ServeOrder ==
    ASSUME BaseInv, BaseInv', NEW c \in Calls, ServeLoad(c), InOrder
    PROVE  InOrder'
<1> SUFFICES ASSUME world # "creates" PROVE InOrder'
    BY DEF InOrder, ServeLoad
<1>1. PICK s, r : s = shown /\ r = Coming(c)'
    OBVIOUS
<1>2. /\ s \in Seq(RowType) /\ r \in Seq(RowType) /\ Len(r) >= Len(s) /\ TableOK
      /\ \A i \in 1 .. Len(s) : r[i] = s[i]
      /\ \A i \in Len(s) + 1 .. Len(r) : i <= Len(AllPosts) /\ r[i] = AllPosts[i]
    BY <1>1, ServedIs DEF BaseInv, TimelineTypeOK
<1>3. ~PostAnswered
    BY NoPosts DEF ServeLoad, Loading, BaseInv, TimelineTypeOK, Worlds
<1>4. Descending(s) /\ Early(s)
    BY <1>1, <1>3 DEF InOrder, Early
<1>5. Descending(r) /\ Early(r)
    BY <1>2, <1>4, PlacesDescend
<1>6. UNCHANGED <<posts, world, shown>> /\ \A p : Rank(p)' = Rank(p)
    BY DEF ServeLoad, page, Tops, IsStored, Rank, Before
<1>7. Descending(shown') /\ Early(shown)' /\ Descending(Coming(c))' /\ Early(Coming(c))'
    BY <1>1, <1>4, <1>5, <1>6 DEF Early, Descending
<1>8. \A d \in Calls : Answered(d)' => d = c
    <2>1. Loading(c) /\ \A d \in Calls \ {c} : calls'[d] = calls[d]
        BY DEF ServeLoad, Loading, BaseInv, TimelineTypeOK
    <2>2. QED
        BY <2>1 DEF Answered, Loading, BaseInv, CallsFit
<1>9. QED
    BY <1>7, <1>8 DEF InOrder

LEMMA EndOrder ==
    ASSUME BaseInv, NEW c \in Calls, EndLoad(c), InOrder
    PROVE  InOrder'
<1> SUFFICES ASSUME world # "creates" PROVE InOrder'
    BY DEF InOrder, EndLoad
<1>1. /\ UNCHANGED <<posts, world>> /\ Loading(c)
      /\ calls[c].at = "answered" => shown' = Coming(c)
      /\ calls[c].at # "answered" => shown' = shown
    BY EndLoadBase DEF EndLoad, Loading
<1>2. ~PostAnswered
    BY <1>1, NoPosts DEF BaseInv, TimelineTypeOK, Worlds
<1>3. \A p : Rank(p)' = Rank(p)
    BY <1>1 DEF Tops, IsStored, Rank, Before
<1>4. Descending(shown') /\ Early(shown)'
    <2>1. CASE calls[c].at = "answered"
        BY <1>1, <1>2, <1>3, <2>1 DEF InOrder, Early, Answered
    <2>2. CASE calls[c].at # "answered"
        BY <1>1, <1>2, <1>3, <2>2 DEF InOrder, Early
    <2>3. QED
        BY <2>1, <2>2
<1>5. QED
    BY <1>4, EndsAll DEF InOrder

LEMMA InOrderInit == TimelineInit => InOrder
    BY DEF TimelineInit, InOrder, Descending, Early, Answered, Loading, LoadCall, NoCall

LEMMA InOrderNext ==
    BaseInv /\ BaseInv' /\ InOrder /\ [TimelineNext]_timelineVars => InOrder'
    BY StepKinds, SettledOrder, StartsOrder, ServeOrder, EndOrder

\* A post is never on the page twice while nobody else writes posts: the page's
\* own post makes it begin again before it reads on, and deletions only move
\* posts to places it has passed (app.js loadPosts, handleCreatePost).
THEOREM NoDoubles == TimelineSpec => []NoneTwice
<1>1. BaseInv /\ InOrder => NoneTwice
    <2> SUFFICES ASSUME BaseInv, InOrder, world # "creates",
                        NEW i \in DOMAIN shown, NEW j \in DOMAIN shown, i # j
                 PROVE  shown[i].id # shown[j].id
        BY DEF NoneTwice
    <2>1. /\ i \in 1 .. Len(shown) /\ j \in 1 .. Len(shown)
          /\ shown[i].id \in Nat /\ shown[j].id \in Nat
        BY TimelineAssumption, RowsTyped DEF BaseInv, TimelineTypeOK
    <2>2. /\ i < j => shown[i].id > shown[j].id
          /\ j < i => shown[j].id > shown[i].id
        BY <2>1 DEF InOrder, Descending
    <2>3. QED
        BY <2>1, <2>2
<1>2. QED
    BY <1>1, BaseAlways, InOrderInit, InOrderNext, PTL DEF TimelineSpec

----------------------------------------------------------------------------
(* A page that waits *)

\* How many replies each post has, and a list of rows with them.
Counts == [p \in PostIds |-> Cardinality(Answers(p))]
Counted(ids, counts) == [i \in DOMAIN ids |-> [id |-> ids[i], replies |-> counts[ids[i]]]]

ListsCounted ==
    /\ Counts \in [PostIds -> Nat]
    /\ AllPosts = Counted(Ordered(Tops, NewestFirst), Counts)
    /\ \A p \in PostIds : AllReplies(p) = Counted(Ordered(Answers(p), OldestFirst), Counts)

LEMMA ListsCount == TableOK => ListsCounted
<1> SUFFICES ASSUME TableOK PROVE ListsCounted
    OBVIOUS
<1>1. Counts \in [PostIds -> Nat]
    BY AnswersFinite, FS_CardinalityType DEF Counts
<1>2. ASSUME NEW S, S \subseteq PostIds, IsFiniteSet(S), NEW order, IsOrder(order)
      PROVE  Rows(Ordered(S, order)) = Counted(Ordered(S, order), Counts)
    <2>1. Ordered(S, order) \in Seq(S)
        BY <1>2, OrderedPlaces
    <2>2. PICK ids : ids = Ordered(S, order)
        OBVIOUS
    <2>3. \A i \in DOMAIN ids : ids[i] \in PostIds
        BY <1>2, <2>1, <2>2
    <2>4. \A i \in DOMAIN ids : Row(ids[i]) = [id |-> ids[i], replies |-> Counts[ids[i]]]
        BY <2>3 DEF Row, Counts
    <2>5. Rows(ids) = Counted(ids, Counts)
        BY <2>4 DEF Rows, Counted
    <2>6. QED
        BY <2>2, <2>5
<1>3. Tops \subseteq PostIds /\ IsFiniteSet(Tops)
    BY ListsAre DEF Tops, PostsListed
<1>4. AllPosts = Counted(Ordered(Tops, NewestFirst), Counts)
    BY <1>2, <1>3, IdsOrdered DEF AllPosts
<1>5. \A p \in PostIds : AllReplies(p) = Counted(Ordered(Answers(p), OldestFirst), Counts)
    BY <1>2, AnswersFinite, IdsOrdered DEF AllReplies
<1>6. QED
    BY <1>1, <1>4, <1>5 DEF ListsCounted

LEMMA ListsCountNext == TableOK' => ListsCounted'
    BY ListsCount, PTL

LEMMA SamePosts ==
    ASSUME TableOK, UNCHANGED posts
    PROVE  AllPosts' = AllPosts /\ \A p \in PostIds : AllReplies(p)' = AllReplies(p)
<1>1. TableOK' /\ Tops' = Tops /\ \A p \in PostIds : Answers(p)' = Answers(p)
    BY DEF TableOK, Tops, Answers, IsStored
<1>2. Counts' = Counts
    BY <1>1 DEF Counts
<1>3. ListsCounted /\ ListsCounted'
    BY <1>1, ListsCount, ListsCountNext
<1>4. QED
    BY <1>1, <1>2, <1>3 DEF ListsCounted

\* One more reply of p, in the counts, and in the rows of a list of them.
Bumped(counts, p) == [q \in PostIds |-> IF q = p THEN counts[q] + 1 ELSE counts[q]]

CountsOnce(old, new, p) ==
    /\ old \in Seq(RowType) /\ new \in Seq(RowType) /\ Len(new) = Len(old)
    /\ \A rows \in Seq(RowType) :
         Len(rows) <= Len(old) /\ (\A i \in 1 .. Len(rows) : rows[i] = old[i]) =>
             \A i \in 1 .. Len(rows) : Incremented(rows, p)[i] = new[i]

\* The row that is counted on the page is the row of p in the new list.
LEMMA CountedOnce ==
    ASSUME NEW S, S \subseteq PostIds, IsFiniteSet(S), NEW order, IsOrder(order),
           NEW counts \in [PostIds -> Nat], NEW p \in PostIds
    PROVE  CountsOnce(Counted(Ordered(S, order), counts),
                      Counted(Ordered(S, order), Bumped(counts, p)), p)
<1> DEFINE old == Counted(Ordered(S, order), counts)
           counts2 == Bumped(counts, p)
           new == Counted(Ordered(S, order), counts2)
           place(q) == Cardinality(Before(S, order, q))
<1>1. PICK ids : ids = Ordered(S, order)
    OBVIOUS
<1>2. /\ ids \in Seq(S) /\ Len(ids) = Cardinality(S)
      /\ \A i \in 1 .. Len(ids) : place(ids[i]) = i - 1
    BY <1>1, OrderedPlaces
<1> HIDE DEF place
<1>3. /\ Len(ids) \in Nat /\ DOMAIN ids = 1 .. Len(ids)
      /\ \A i \in 1 .. Len(ids) : ids[i] \in PostIds
      /\ \A i, j \in 1 .. Len(ids) : ids[i] = ids[j] => i = j
    BY <1>2
<1>4. /\ old = [i \in 1 .. Len(ids) |-> [id |-> ids[i], replies |-> counts[ids[i]]]]
      /\ new = [i \in 1 .. Len(ids) |-> [id |-> ids[i], replies |-> counts2[ids[i]]]]
    BY <1>1, <1>3 DEF Counted
<1>5. /\ counts2 \in [PostIds -> Nat]
      /\ \A q \in PostIds : counts2[q] = IF q = p THEN counts[q] + 1 ELSE counts[q]
    BY DEF Bumped
<1> HIDE DEF counts2
<1>6. ASSUME NEW f \in [PostIds -> Nat]
      PROVE  [i \in 1 .. Len(ids) |-> [id |-> ids[i], replies |-> f[ids[i]]]]
                \in [1 .. Len(ids) -> RowType]
    BY <1>3 DEF RowType
<1>7. /\ old \in [1 .. Len(ids) -> RowType] /\ new \in [1 .. Len(ids) -> RowType]
    BY <1>4, <1>5, <1>6
<1>8. \A i \in 1 .. Len(ids) : /\ old[i].id = ids[i]
                               /\ ids[i] # p => new[i] = old[i]
                               /\ ids[i] = p => new[i] = [id |-> p, replies |-> old[i].replies + 1]
    BY <1>3, <1>4, <1>5
<1> HIDE DEF old, new
<1>9. /\ old \in Seq(RowType) /\ new \in Seq(RowType) /\ Len(old) = Len(ids) /\ Len(new) = Len(ids)
    <2>1. ASSUME NEW n \in Nat, NEW f \in [1 .. n -> RowType]
          PROVE  f \in Seq(RowType) /\ Len(f) = n
        OBVIOUS
    <2>2. Len(ids) \in Nat
        BY <1>3
    <2>3. QED
        BY <1>7, <2>1, <2>2
<1>10. ASSUME NEW rows \in Seq(RowType), Len(rows) <= Len(old),
              \A i \in 1 .. Len(rows) : rows[i] = old[i],
              NEW i \in 1 .. Len(rows)
       PROVE  Incremented(rows, p)[i] = new[i]
    <2> DEFINE n == Len(rows)
    <2>1. n \in Nat /\ n <= Len(ids) /\ \A j \in 1 .. n : rows[j] = old[j]
        BY <1>9, <1>10
    <2> HIDE DEF n
    <2>2. \A j \in 1 .. n : j \in 1 .. Len(ids) /\ rows[j].id = ids[j]
        <3> SUFFICES ASSUME NEW j \in 1 .. n
                     PROVE  j \in 1 .. Len(ids) /\ rows[j].id = ids[j]
            OBVIOUS
        <3>1. j \in 1 .. Len(ids)
            BY <1>3, <2>1
        <3>2. rows[j] = old[j] /\ old[j].id = ids[j]
            BY <1>8, <2>1, <3>1
        <3>3. QED
            BY <3>1, <3>2
    <2>3. i \in 1 .. n /\ i \in 1 .. Len(ids) /\ rows[i] = old[i] /\ rows[i].id = ids[i]
        BY <1>10, <2>1, <2>2 DEF n
    <2>4. CASE ids[i] # p
        BY <1>8, <2>3, <2>4, IncrementedIs DEF n
    <2>5. CASE ids[i] = p
        <3>1. \A j \in 1 .. i - 1 : j \in 1 .. n /\ j \in 1 .. Len(ids) /\ j # i
            BY <1>3, <2>1, <2>3
        <3>2. \A j \in 1 .. i - 1 : rows[j].id # p
            BY <1>3, <2>2, <2>3, <2>5, <3>1
        <3>3. Incremented(rows, p)[i] = [id |-> p, replies |-> rows[i].replies + 1]
            BY <2>3, <2>5, <3>2, IncrementedIs DEF n
        <3>4. QED
            BY <1>8, <2>3, <2>5, <3>3
    <2>6. QED
        BY <2>4, <2>5
<1>11. QED
    BY <1>9, <1>10 DEF old, new, counts2, CountsOnce

\* The threads that were read hold the oldest replies.
ThreadsRight(rs) ==
    \A p \in PostIds :
        rs[p].hasLoaded => rs[p].items = Page(AllReplies(p), RepliesLimit, 0)

PageRight == IsPrefix(shown, AllPosts) /\ ThreadsRight(replies)
MoreRight == hasMore <=> Len(AllPosts) > Len(shown)

\* Counting the reply to p will make the page right again, up to its own thread,
\* which is read anew.
ReplyLands(p) ==
    /\ IsPrefix(CountedShown(p), AllPosts)
    /\ \A q \in PostIds \ {p} :
         replies[q].hasLoaded => CountedReplies(p)[q].items = Page(AllReplies(q), RepliesLimit, 0)

\* What the page is while the call k is under way.
CallRight(k) ==
    /\ k.kind \in {"none", "replies", "reply"} => MoreRight
    /\ k.kind \in {"none", "load", "replies"} => PageRight
    /\ k.kind = "post" /\ k.at = "sent" => PageRight /\ MoreRight
    /\ k.kind = "load" /\ k.at = "answered" => k.rows = listPosts(Limit + 1, offset)
    /\ k.kind = "replies" /\ k.at = "answered" => k.rows = listPostReplies(k.post, RepliesLimit)
    /\ k.kind = "reply" /\ k.at = "sent" => PageRight
    /\ k.kind = "reply" /\ k.at = "answered" => ReplyLands(k.post)

WaitRight ==
    world = "waits" => /\ Alone => PageRight /\ MoreRight
                       /\ \A c \in Calls : ~Free(c) => CallRight(calls[c])

\* The server's list of a thread, and what a page of it holds.
LEMMA RepliesPage ==
    ASSUME TableOK, NEW p \in PostIds
    PROVE  /\ AllReplies(p) \in Seq(RowType)
           /\ listPostReplies(p, RepliesLimit) = Page(AllReplies(p), RepliesLimit, 0)
           /\ Page(AllReplies(p), RepliesLimit, 0) \in Seq(RowType)
           /\ \A i \in 1 .. Len(Page(AllReplies(p), RepliesLimit, 0)) :
                Page(AllReplies(p), RepliesLimit, 0)[i].id \in Answers(p)
<1>1. /\ AllReplies(p) \in Seq(RowType)
      /\ \A i \in 1 .. Len(AllReplies(p)) : AllReplies(p)[i].id \in Answers(p)
    BY ListsAre DEF RepliesListed
<1>2. parseLimit(RepliesLimit) = RepliesLimit /\ RepliesLimit \in Nat
    BY TimelineAssumption DEF parseLimit
<1>3. PICK all : all = AllReplies(p)
    OBVIOUS
<1>4. all \in Seq(RowType) /\ 0 \in Nat
    BY <1>1, <1>3
<1> DEFINE first == Page(all, RepliesLimit, 0)
<1>5. /\ first \in Seq(RowType)
      /\ \A i \in 1 .. Len(first) : 0 + i \in 1 .. Len(all) /\ first[i] = all[0 + i]
    BY <1>2, <1>4, PageIs
<1>6. listPostReplies(p, RepliesLimit) = first
    BY <1>2, <1>3 DEF listPostReplies
<1> HIDE DEF first
<1>7. QED
    BY <1>1, <1>3, <1>5, <1>6 DEF first

\* A top level post answers no post.
LEMMA TopsAnswerNone ==
    ASSUME NEW p \in PostIds
    PROVE  Tops \cap Answers(p) = {}
    BY TimelineAssumption DEF Tops, Answers

\* The server writes a reply of a page that is right.
LEMMA ReplyServed ==
    ASSUME BaseInv, BaseInv', NEW p \in PostIds, PageRight, UNCHANGED page,
           NEW u \in Users, NEW b \in Bodies, NEW q0 \in PostIds, Answer(u, b, p, q0)
    PROVE  ReplyLands(p)' /\ Len(AllPosts') = Len(AllPosts)
<1>1. /\ TableOK /\ TableOK' /\ TimelineTypeOK /\ shown \in Seq(RowType)
      /\ replies \in [PostIds -> ReplyState]
    BY DEF BaseInv, TimelineTypeOK
<1>2. /\ Tops' = Tops /\ q0 \notin Answers(p) /\ Answers(p)' = Answers(p) \cup {q0}
      /\ \A r \in PostIds \ {p} : Answers(r)' = Answers(r)
    BY <1>1, AnswerTable
<1>3. UNCHANGED <<shown, replies>>
    BY DEF page
<1>4. Counts' = Bumped(Counts, p)
    <2>1. Cardinality(Answers(p) \cup {q0}) = Cardinality(Answers(p)) + 1
        BY <1>1, <1>2, AnswersFinite, FS_AddElement
    <2>2. \A r \in PostIds : Cardinality(Answers(r)') =
              IF r = p THEN Cardinality(Answers(r)) + 1 ELSE Cardinality(Answers(r))
        BY <1>2, <2>1
    <2>3. QED
        BY <2>2 DEF Counts, Bumped
<1>5. ListsCounted /\ ListsCounted'
    BY <1>1, ListsCount, ListsCountNext
<1>6. PICK old, new, counts, counts2 :
        /\ old = AllPosts /\ new = AllPosts' /\ counts = Counts /\ counts2 = Counts'
    OBVIOUS
<1>7. /\ counts \in [PostIds -> Nat] /\ counts2 = Bumped(counts, p)
      /\ IsFiniteSet(Tops) /\ Tops \subseteq PostIds
      /\ IsOrder(NewestFirst) /\ IsOrder(OldestFirst)
    BY <1>1, <1>4, <1>5, <1>6, ListsAre, IdsOrdered DEF ListsCounted, PostsListed, Tops
<1>8. old = Counted(Ordered(Tops, NewestFirst), counts)
    BY <1>5, <1>6 DEF ListsCounted
<1>9. new = Counted(Ordered(Tops, NewestFirst), counts2)
    BY <1>2, <1>5, <1>6 DEF ListsCounted
<1>10. /\ old \in Seq(RowType) /\ new \in Seq(RowType) /\ Len(new) = Len(old)
       /\ \A rows \in Seq(RowType) :
            Len(rows) <= Len(old) /\ (\A i \in 1 .. Len(rows) : rows[i] = old[i]) =>
                \A i \in 1 .. Len(rows) : Incremented(rows, p)[i] = new[i]
    <2>1. CountsOnce(old, new, p)
        BY <1>7, <1>8, <1>9, CountedOnce
    <2>2. QED
        BY <2>1 DEF CountsOnce
<1>11. Len(shown) <= Len(old) /\ \A i \in 1 .. Len(shown) : shown[i] = old[i]
    BY <1>1, <1>6, <1>10, PrefixIs DEF PageRight
<1>12. CountedShown(p) = Incremented(shown, p)
    <2>1. CASE InTimeline(p)
        BY <2>1 DEF CountedShown
    <2>2. CASE ~InTimeline(p)
        <3>1. \A i \in 1 .. Len(shown) : shown[i].id # p
            BY <1>1, <2>2 DEF InTimeline, ToSet
        <3>2. QED
            BY <1>1, <2>2, <3>1, IncrementedIs DEF CountedShown
    <2>3. QED
        BY <2>1, <2>2
<1>13. IsPrefix(CountedShown(p), new)
    <2>1. /\ Incremented(shown, p) \in Seq(RowType) /\ Len(Incremented(shown, p)) = Len(shown)
          /\ \A i \in 1 .. Len(shown) : Incremented(shown, p)[i] = new[i]
        BY <1>1, <1>10, <1>11, IncrementedIs
    <2>2. QED
        BY <1>10, <1>11, <1>12, <2>1, PrefixIs
<1>14. ASSUME NEW q \in PostIds \ {p}, replies[q].hasLoaded
       PROVE  CountedReplies(p)[q].items = Page(AllReplies(q)', RepliesLimit, 0)
    <2>1. PICK items, old2, new2 :
            items = replies[q].items /\ old2 = AllReplies(q) /\ new2 = AllReplies(q)'
        OBVIOUS
    <2>2. items = Page(old2, RepliesLimit, 0)
        BY <1>14, <2>1 DEF PageRight, ThreadsRight
    <2>3. old2 = Counted(Ordered(Answers(q), OldestFirst), counts)
        BY <1>5, <1>6, <2>1 DEF ListsCounted
    <2>4. new2 = Counted(Ordered(Answers(q), OldestFirst), counts2)
        BY <1>2, <1>5, <1>6, <2>1 DEF ListsCounted
    <2>5. /\ old2 \in Seq(RowType) /\ new2 \in Seq(RowType) /\ Len(new2) = Len(old2)
          /\ \A rows \in Seq(RowType) :
               Len(rows) <= Len(old2) /\ (\A i \in 1 .. Len(rows) : rows[i] = old2[i]) =>
                   \A i \in 1 .. Len(rows) : Incremented(rows, p)[i] = new2[i]
        <3>1. IsFiniteSet(Answers(q)) /\ Answers(q) \subseteq PostIds
            BY <1>1, AnswersFinite
        <3>2. CountsOnce(old2, new2, p)
            BY <1>7, <2>3, <2>4, <3>1, CountedOnce
        <3>3. QED
            BY <3>2 DEF CountsOnce
    <2>6. RepliesLimit \in Nat /\ \A i \in Nat : 0 + i = i
        BY TimelineAssumption
    <2>7. /\ items \in Seq(RowType) /\ Page(new2, RepliesLimit, 0) \in Seq(RowType)
          /\ Len(items) <= Len(old2) /\ Len(Page(new2, RepliesLimit, 0)) = Len(items)
          /\ \A i \in 1 .. Len(items) :
               items[i] = old2[i] /\ Page(new2, RepliesLimit, 0)[i] = new2[i]
        <3>1. /\ items \in Seq(RowType)
              /\ Len(items) = IF 0 >= Len(old2) THEN 0
                   ELSE IF 0 + RepliesLimit > Len(old2) THEN Len(old2) - 0 ELSE RepliesLimit
              /\ \A i \in 1 .. Len(items) : 0 + i \in 1 .. Len(old2) /\ items[i] = old2[0 + i]
            <4>1. old2 \in Seq(RowType) /\ RepliesLimit \in Nat /\ 0 \in Nat
                BY <2>5, <2>6
            <4> DEFINE page1 == Page(old2, RepliesLimit, 0)
            <4>2. /\ page1 \in Seq(RowType)
                  /\ Len(page1) = IF 0 >= Len(old2) THEN 0
                       ELSE IF 0 + RepliesLimit > Len(old2) THEN Len(old2) - 0 ELSE RepliesLimit
                  /\ \A i \in 1 .. Len(page1) :
                       0 + i \in 1 .. Len(old2) /\ page1[i] = old2[0 + i]
                BY <4>1, PageIs
            <4>3. items = page1
                BY <2>2
            <4> HIDE DEF page1
            <4>4. QED
                BY <4>2, <4>3
        <3>2. PICK page2 : page2 = Page(new2, RepliesLimit, 0)
            OBVIOUS
        <3>3. /\ page2 \in Seq(RowType)
              /\ Len(page2) = IF 0 >= Len(new2) THEN 0
                   ELSE IF 0 + RepliesLimit > Len(new2) THEN Len(new2) - 0 ELSE RepliesLimit
              /\ \A i \in 1 .. Len(page2) : 0 + i \in 1 .. Len(new2) /\ page2[i] = new2[0 + i]
            <4>1. new2 \in Seq(RowType) /\ RepliesLimit \in Nat /\ 0 \in Nat
                BY <2>5, <2>6
            <4> DEFINE page1 == Page(new2, RepliesLimit, 0)
            <4>2. /\ page1 \in Seq(RowType)
                  /\ Len(page1) = IF 0 >= Len(new2) THEN 0
                       ELSE IF 0 + RepliesLimit > Len(new2) THEN Len(new2) - 0 ELSE RepliesLimit
                  /\ \A i \in 1 .. Len(page1) :
                       0 + i \in 1 .. Len(new2) /\ page1[i] = new2[0 + i]
                BY <4>1, PageIs
            <4>3. page2 = page1
                BY <3>2
            <4> HIDE DEF page1
            <4>4. QED
                BY <4>2, <4>3
        <3>4. Len(page2) = Len(items) /\ Len(old2) \in Nat /\ Len(items) <= Len(old2)
            BY <2>5, <2>6, <3>1, <3>3
        <3>5. \A i \in 1 .. Len(items) : i \in Nat /\ items[i] = old2[i] /\ page2[i] = new2[i]
            BY <2>6, <3>1, <3>3, <3>4
        <3>6. QED
            BY <3>1, <3>2, <3>3, <3>4, <3>5
    <2>8. /\ Incremented(items, p) \in Seq(RowType) /\ Len(Incremented(items, p)) = Len(items)
          /\ \A i \in 1 .. Len(items) : Incremented(items, p)[i] = new2[i]
          /\ (\A i \in 1 .. Len(items) : items[i].id # p) => Incremented(items, p) = items
        <3>1. items \in Seq(RowType) /\ p \in PostIds
            BY <2>7
        <3>2. \A i \in 1 .. Len(items) : Incremented(items, p)[i] = new2[i]
            BY <2>5, <2>7
        <3>3. /\ Incremented(items, p) \in Seq(RowType)
              /\ Len(Incremented(items, p)) = Len(items)
              /\ (\A i \in 1 .. Len(items) : items[i].id # p) => Incremented(items, p) = items
            BY <3>1, IncrementedIs
        <3>4. QED
            BY <3>2, <3>3
    <2>9. Incremented(items, p) = Page(new2, RepliesLimit, 0)
        BY <2>7, <2>8, SeqEqual
    <2>10. CountedReplies(p)[q].items = Incremented(items, p)
        <3>1. CASE InTimeline(p)
            <4>1. p \in Tops
                <5>1. PICK i \in 1 .. Len(shown) : shown[i].id = p
                    BY <1>1, <3>1 DEF InTimeline, ToSet
                <5>2. old[i].id \in Tops /\ shown[i] = old[i]
                    BY <1>1, <1>6, <1>10, <1>11, ListsAre DEF PostsListed
                <5>3. QED
                    BY <5>1, <5>2
            <4>2. \A i \in 1 .. Len(items) : items[i].id \in Answers(q)
                BY <1>1, <2>1, <2>2, RepliesPage
            <4>3. \A i \in 1 .. Len(items) : items[i].id # p
                BY <4>1, <4>2, TopsAnswerNone
            <4>4. QED
                BY <1>1, <2>1, <2>8, <3>1, <4>3, CountedIs
        <3>2. CASE ~InTimeline(p)
            BY <1>1, <2>1, <3>2, CountedIs
        <3>3. QED
            BY <3>1, <3>2
    <2>11. QED
        BY <2>1, <2>9, <2>10
<1>15. CountedShown(p)' = CountedShown(p) /\ CountedReplies(p)' = CountedReplies(p)
    BY <1>3 DEF CountedShown, CountedReplies, InTimeline
<1>16. ReplyLands(p)'
    BY <1>3, <1>6, <1>13, <1>14, <1>15 DEF ReplyLands
<1>17. QED
    BY <1>6, <1>10, <1>16

\* A step of the only call.
LEMMA WaitStep ==
    ASSUME BaseInv, BaseInv', NEW c \in Calls, NEW k, calls'[c] = k, MayCall(c) \/ ~Free(c),
           \A d \in Calls \ {c} : calls'[d].kind = calls[d].kind,
           world' = world, world = "waits" => CallRight(k)'
    PROVE  WaitRight'
<1> SUFFICES ASSUME world = "waits" PROVE WaitRight'
    BY DEF WaitRight
<1>1. \A d \in Calls \ {c} : Free(d)'
    BY OnlyCall DEF Free
<1>2. ASSUME Alone' PROVE PageRight' /\ MoreRight'
    <2>1. k.kind = "none"
        BY <1>2 DEF Alone, Free
    <2>2. QED
        BY <2>1 DEF CallRight
<1>3. ASSUME NEW d \in Calls, ~Free(d)' PROVE CallRight(calls[d])'
    <2>1. d = c
        BY <1>1, <1>3
    <2>2. QED
        BY <2>1 DEF CallRight, ReplyLands
<1>4. QED
    BY <1>2, <1>3 DEF WaitRight

\* What is right while a call may start, or is under way.
LEMMA RightBefore ==
    ASSUME BaseInv, WaitRight, world = "waits", NEW c \in Calls
    PROVE  /\ MayCall(c) => PageRight /\ MoreRight
           /\ ~Free(c) => CallRight(calls[c]) /\ calls[c].at # "failed"
    BY DEF BaseInv, CallsFit, WaitRight, MayCall

\* Steps that change neither the table nor what the page shows.
LEMMA RightKept ==
    ASSUME BaseInv, UNCHANGED posts, shown' = shown,
           \A q \in PostIds : /\ replies'[q].hasLoaded = replies[q].hasLoaded
                              /\ replies'[q].items = replies[q].items
    PROVE  /\ PageRight => PageRight'
           /\ hasMore' = hasMore /\ MoreRight => MoreRight'
    BY SamePosts DEF BaseInv, TimelineTypeOK, PageRight, MoreRight, ThreadsRight

LEMMA StartsRight ==
    ASSUME BaseInv, BaseInv', NEW c \in Calls, MayCall(c) \/ ~Free(c), NEW reset \in BOOLEAN,
           NEW composer \in BOOLEAN, Starts(c, reset, composer), WaitRight,
           world = "waits" /\ ~reset => PageRight
    PROVE  WaitRight'
<1>1. PICK k : k = LoadCall(reset, composer)
    OBVIOUS
<1>2. calls'[c] = k /\ k.kind = "load" /\ k.at = "sent" /\ world' = world
    BY <1>1 DEF Starts, LoadCall
<1>3. \A d \in Calls \ {c} : calls'[d].kind = calls[d].kind
    BY DetachedIs DEF Starts, StartLoad, BaseInv, TimelineTypeOK
<1>4. world = "waits" => PageRight'
    <2>1. CASE reset
        <3>1. shown' = <<>> /\ \A q \in PostIds : ~replies'[q].hasLoaded
            BY <2>1 DEF Starts, StartLoad, NoReplies
        <3>2. AllPosts' \in Seq(RowType)
            BY ListsAreNext DEF BaseInv, TimelineTypeOK, PostsListed
        <3>3. IsPrefix(shown', AllPosts')
            <4>1. PICK s, t : s = shown' /\ t = AllPosts'
                OBVIOUS
            <4>2. s \in Seq(RowType) /\ t \in Seq(RowType) /\ Len(s) = 0 /\ Len(t) \in Nat
                BY <3>1, <3>2, <4>1
            <4>3. Len(s) <= Len(t) /\ \A i \in 1 .. Len(s) : s[i] = t[i]
                BY <4>2
            <4>4. IsPrefix(s, t)
                BY <4>2, <4>3, PrefixIs
            <4>5. QED
                BY <4>1, <4>4
        <3>4. QED
            BY <3>1, <3>3 DEF PageRight, ThreadsRight
    <2>2. CASE ~reset
        <3>1. UNCHANGED <<posts, shown, replies>>
            BY <2>2 DEF Starts, StartLoad
        <3>2. QED
            BY <2>2, <3>1, RightKept
    <2>3. QED
        BY <2>1, <2>2
<1>5. world = "waits" => CallRight(k)'
    BY <1>2, <1>4 DEF CallRight
<1>6. QED
    BY <1>2, <1>3, <1>5, WaitStep

LEMMA ServeLoadRight ==
    ASSUME BaseInv, BaseInv', NEW c \in Calls, ServeLoad(c), WaitRight
    PROVE  WaitRight'
<1>1. PICK k : k = [calls[c] EXCEPT !.at = "answered", !.rows = listPosts(Limit + 1, offset)]
    OBVIOUS
<1>2. /\ calls'[c] = k /\ calls[c] \in LoadCalls /\ ~Free(c) /\ calls[c].kind = "load"
      /\ \A d \in Calls \ {c} : calls'[d].kind = calls[d].kind
      /\ UNCHANGED <<posts, world, shown, offset, hasMore, replies>>
    BY <1>1, ServeLoadBase DEF ServeLoad, Free, page, BaseInv, TimelineTypeOK
<1>3. k.kind = "load" /\ k.rows = listPosts(Limit + 1, offset)
    BY <1>1, <1>2 DEF LoadCalls
<1>4. listPosts(Limit + 1, offset)' = listPosts(Limit + 1, offset)
    BY <1>2, SamePosts DEF listPosts, BaseInv, TimelineTypeOK
<1>5. world = "waits" => PageRight'
    BY <1>2, RightBefore, RightKept DEF CallRight
<1>6. world = "waits" => CallRight(k)'
    BY <1>3, <1>4, <1>5 DEF CallRight
<1>7. QED
    BY <1>2, <1>6, WaitStep

LEMMA EndLoadRight ==
    ASSUME BaseInv, BaseInv', NEW c \in Calls, EndLoad(c), WaitRight
    PROVE  WaitRight'
<1>1. /\ Loading(c) /\ ~Free(c) /\ calls'[c] = NoCall /\ UNCHANGED <<posts, world, replies>>
      /\ \A d \in Calls \ {c} : calls'[d].kind = calls[d].kind
      /\ calls[c].at = "answered" => shown' = Coming(c)
      /\ calls[c].at \in {"answered", "failed"}
      /\ calls[c].at = "answered" => hasMore' = (Len(calls[c].rows) > Limit)
    BY EndLoadBase DEF EndLoad, Loading, Free, BaseInv, TimelineTypeOK
<1>2. ASSUME world = "waits" PROVE PageRight' /\ MoreRight'
    <2>1. CallRight(calls[c]) /\ calls[c].at = "answered" /\ calls[c].kind = "load"
        BY <1>1, <1>2, RightBefore DEF Loading
    <2>2. PICK s, all, rows : s = shown /\ all = AllPosts /\ rows = calls[c].rows
        OBVIOUS
    <2>3. /\ s \in Seq(RowType) /\ all \in Seq(RowType) /\ rows = Page(all, Limit + 1, Len(s))
          /\ IsPrefix(s, all)
        BY <2>1, <2>2, ListPostsIs DEF CallRight, PageRight, BaseInv, TimelineTypeOK, CallsFit
    <2>4. Len(s) <= Len(all) /\ \A i \in 1 .. Len(s) : s[i] = all[i]
        BY <2>3, PrefixIs
    <2>5. PICK r : r = s \o Page(rows, Limit, 0)
        OBVIOUS
    <2>6. /\ r \in Seq(RowType) /\ Len(r) <= Len(all)
          /\ \A i \in 1 .. Len(s) : r[i] = s[i]
          /\ \A i \in Len(s) + 1 .. Len(r) : r[i] = all[i]
          /\ Len(rows) > Limit <=> Len(all) > Len(r)
        <3> DEFINE r0 == s \o Page(rows, Limit, 0)
        <3>1. /\ r0 \in Seq(RowType)
              /\ \A i \in 1 .. Len(s) : r0[i] = s[i]
              /\ \A i \in Len(s) + 1 .. Len(r0) : i <= Len(all) /\ r0[i] = all[i]
              /\ Len(s) <= Len(all) => Len(r0) <= Len(all)
              /\ Len(s) <= Len(all) => (Len(rows) > Limit <=> Len(all) > Len(r0))
            BY <2>3, PageContinues
        <3>2. r0 = r
            BY <2>5
        <3> HIDE DEF r0
        <3>3. QED
            BY <2>4, <3>1, <3>2
    <2>7. \A i \in 1 .. Len(r) : r[i] = all[i]
        <3>1. Len(s) \in Nat /\ Len(r) \in Nat
            BY <2>3, <2>6
        <3>2. \A i \in 1 .. Len(r) : i \in 1 .. Len(s) \/ i \in Len(s) + 1 .. Len(r)
            BY <3>1
        <3>3. QED
            BY <2>4, <2>6, <3>2
    <2>8. IsPrefix(r, all)
        BY <2>3, <2>6, <2>7, PrefixIs
    <2>9. shown' = r
        BY <1>1, <2>1, <2>2, <2>5 DEF Coming
    <2>10. AllPosts' = all /\ \A p \in PostIds : AllReplies(p)' = AllReplies(p)
        BY <1>1, <2>2, SamePosts DEF BaseInv, TimelineTypeOK
    <2>11. ThreadsRight(replies)'
        BY <1>1, <2>1, <2>10 DEF CallRight, PageRight, ThreadsRight
    <2>12. MoreRight'
        BY <1>1, <2>1, <2>2, <2>6, <2>9, <2>10 DEF MoreRight
    <2>13. QED
        BY <2>8, <2>9, <2>10, <2>11, <2>12 DEF PageRight
<1>3. PICK k : k = NoCall
    OBVIOUS
<1>4. calls'[c] = k /\ (world = "waits" => CallRight(k)')
    BY <1>1, <1>2, <1>3 DEF CallRight, NoCall
<1>5. ~Free(c) /\ world' = world /\ \A d \in Calls \ {c} : calls'[d].kind = calls[d].kind
    BY <1>1
<1>6. QED
    BY <1>4, <1>5, WaitStep

LEMMA ServeRepliesRight ==
    ASSUME BaseInv, BaseInv', NEW c \in Calls, ServeReplies(c), WaitRight
    PROVE  WaitRight'
<1>1. PICK k, p : /\ p = calls[c].post
                  /\ k = [calls[c] EXCEPT !.at = "answered",
                                          !.rows = listPostReplies(p, RepliesLimit)]
    OBVIOUS
<1>2. /\ calls'[c] = k /\ calls[c] \in ReplyLoads /\ ~Free(c) /\ calls[c].kind = "replies"
      /\ \A d \in Calls \ {c} : calls'[d].kind = calls[d].kind
      /\ UNCHANGED <<posts, world, shown, offset, hasMore, replies>>
    BY <1>1, ServeRepliesBase DEF ServeReplies, Free, page
<1>3. /\ k.kind = "replies" /\ k.post = p /\ p \in PostIds
      /\ k.rows = listPostReplies(p, RepliesLimit)
    BY <1>1, <1>2 DEF ReplyLoads
<1>4. listPostReplies(p, RepliesLimit)' = listPostReplies(p, RepliesLimit)
    BY <1>2, <1>3, SamePosts DEF listPostReplies, BaseInv, TimelineTypeOK
<1>5. world = "waits" => PageRight' /\ MoreRight'
    BY <1>2, RightBefore, RightKept DEF CallRight
<1>6. k.rows = listPostReplies(k.post, RepliesLimit)'
    BY <1>3, <1>4
<1>7. world = "waits" => CallRight(k)'
    <2>1. k.kind = "replies"
        BY <1>3
    <2>2. /\ k.kind \notin {"post", "load", "reply"}
          /\ k.kind \in {"none", "replies", "reply"} /\ k.kind \in {"none", "load", "replies"}
        BY <2>1
    <2>3. QED
        BY <1>5, <1>6, <2>2 DEF CallRight
<1>8. QED
    BY <1>2, <1>7, WaitStep

LEMMA EndRepliesRight ==
    ASSUME BaseInv, BaseInv', NEW c \in Calls, EndReplies(c), WaitRight
    PROVE  WaitRight'
<1>1. /\ calls'[c] = NoCall /\ calls[c] \in ReplyLoads /\ ~Free(c) /\ calls[c].kind = "replies"
      /\ \A d \in Calls \ {c} : calls'[d].kind = calls[d].kind /\ calls[c].post \in PostIds
      /\ UNCHANGED <<posts, world, shown, offset, hasMore>> /\ calls[c].at # "sent"
      /\ \A q \in PostIds :
           \/ /\ q = calls[c].post /\ calls[c].at = "answered"
              /\ replies'[q].hasLoaded /\ replies'[q].items = calls[c].rows
           \/ replies'[q].hasLoaded = replies[q].hasLoaded /\ replies'[q].items = replies[q].items
    BY EndRepliesBase DEF EndReplies, Free, ReplyLoads
<1>2. ASSUME world = "waits" PROVE PageRight' /\ MoreRight'
    <2>1. PageRight /\ MoreRight /\ (calls[c].at = "answered" =>
              calls[c].rows = listPostReplies(calls[c].post, RepliesLimit))
        BY <1>1, <1>2, RightBefore DEF CallRight
    <2>2. AllPosts' = AllPosts /\ \A p \in PostIds : AllReplies(p)' = AllReplies(p)
        BY <1>1, SamePosts DEF BaseInv, TimelineTypeOK
    <2>3. ASSUME NEW q \in PostIds, replies'[q].hasLoaded
          PROVE  replies'[q].items = Page(AllReplies(q)', RepliesLimit, 0)
        <3>1. CASE /\ q = calls[c].post /\ calls[c].at = "answered"
                   /\ replies'[q].hasLoaded /\ replies'[q].items = calls[c].rows
            BY <2>1, <2>2, <3>1, RepliesPage DEF BaseInv, TimelineTypeOK
        <3>2. CASE /\ replies'[q].hasLoaded = replies[q].hasLoaded
                   /\ replies'[q].items = replies[q].items
            BY <2>1, <2>2, <2>3, <3>2 DEF PageRight, ThreadsRight
        <3>3. QED
            BY <1>1, <3>1, <3>2
    <2>4. IsPrefix(shown', AllPosts')
        BY <1>1, <2>1, <2>2 DEF PageRight
    <2>5. MoreRight'
        BY <1>1, <2>1, <2>2 DEF MoreRight
    <2>6. QED
        BY <2>3, <2>4, <2>5 DEF PageRight, ThreadsRight
<1>3. PICK k : k = NoCall
    OBVIOUS
<1>4. calls'[c] = k /\ (world = "waits" => CallRight(k)')
    BY <1>1, <1>2, <1>3 DEF CallRight, NoCall
<1>5. ~Free(c) /\ world' = world /\ \A d \in Calls \ {c} : calls'[d].kind = calls[d].kind
    BY <1>1
<1>6. QED
    BY <1>4, <1>5, WaitStep

LEMMA SendRight ==
    ASSUME BaseInv, BaseInv', NEW c \in Calls, SendPost(c) \/ \E p \in PostIds : SendReply(c, p),
           WaitRight
    PROVE  WaitRight'
<1>1. /\ MayCall(c) /\ calls'[c].kind \in {"post", "reply"} /\ calls'[c].at = "sent"
      /\ \A d \in Calls \ {c} : calls'[d].kind = calls[d].kind
      /\ UNCHANGED <<posts, world, shown, offset, hasMore, replies>>
    BY SendBase DEF SendPost, SendReply, page
<1>2. PICK k : k = calls'[c]
    OBVIOUS
<1>3. world = "waits" => PageRight' /\ MoreRight'
    BY <1>1, RightBefore, RightKept
<1>4. world = "waits" => CallRight(k)'
    BY <1>1, <1>2, <1>3 DEF CallRight
<1>5. QED
    BY <1>1, <1>2, <1>4, WaitStep

LEMMA ServeWriteRight ==
    ASSUME BaseInv, BaseInv', NEW c \in Calls, ServeWrite(c), WaitRight
    PROVE  WaitRight'
<1>1. /\ calls'[c].kind = calls[c].kind /\ ~Free(c) /\ calls[c].at = "sent"
      /\ calls[c].kind = "reply" => calls'[c].post = calls[c].post
      /\ calls[c].kind \in {"post", "reply"} /\ UNCHANGED page /\ world' = world
      /\ world = "waits" => calls'[c].at = "answered"
      /\ \A d \in Calls \ {c} : calls'[d].kind = calls[d].kind
    BY ServeWriteBase DEF Free
<1>2. PICK k, p : k = calls'[c] /\ p = calls[c].post
    OBVIOUS
<1>3. CASE calls[c].kind = "reply"
    <2>1. p \in PostIds /\ k.kind = "reply" /\ k.post = p
        BY <1>1, <1>2, <1>3, CallKinds DEF BaseInv
    <2>2. PICK u \in Users, b \in Bodies, q \in PostIds : Answer(u, b, p, q)
        BY <1>2, <1>3 DEF ServeWrite
    <2>3. ASSUME world = "waits" PROVE ReplyLands(p)' /\ MoreRight' /\ k.at = "answered"
        <3>1. PageRight /\ MoreRight
            BY <1>1, <1>3, <2>3, RightBefore DEF CallRight
        <3>2. ReplyLands(p)' /\ Len(AllPosts') = Len(AllPosts)
            BY <1>1, <2>1, <2>2, <3>1, ReplyServed
        <3>3. MoreRight'
            BY <1>1, <3>1, <3>2 DEF MoreRight, page
        <3>4. QED
            BY <1>1, <1>2, <2>3, <3>2, <3>3
    <2>4. world = "waits" => CallRight(k)'
        BY <2>1, <2>3 DEF CallRight
    <2>5. QED
        BY <1>1, <1>2, <2>4, WaitStep
<1>4. CASE calls[c].kind = "post"
    <2>1. world = "waits" => k.kind = "post" /\ k.at = "answered"
        BY <1>1, <1>2, <1>4
    <2>2. world = "waits" => CallRight(k)'
        BY <2>1 DEF CallRight
    <2>3. QED
        BY <1>1, <1>2, <2>2, WaitStep
<1>5. QED
    BY <1>1, <1>3, <1>4

LEMMA EndReplyRight ==
    ASSUME BaseInv, BaseInv', NEW c \in Calls, EndReply(c), WaitRight
    PROVE  WaitRight'
<1>1. PICK k, p : k = calls'[c] /\ p = calls[c].post
    OBVIOUS
<1>2. /\ calls[c].kind = "reply" /\ calls[c].at = "answered" /\ ~Free(c) /\ p \in PostIds
      /\ \A d \in Calls \ {c} : calls'[d].kind = calls[d].kind
      /\ k = RepliesCall(p) /\ UNCHANGED <<posts, world, hasMore>>
      /\ shown' = CountedShown(p) /\ ~replies'[p].hasLoaded
      /\ \A q \in PostIds \ {p} : replies'[q] = CountedReplies(p)[q]
    BY <1>1, EndReplyBase DEF Free
<1>3. ASSUME world = "waits" PROVE PageRight' /\ MoreRight'
    <2>1. ReplyLands(p) /\ MoreRight
        BY <1>1, <1>2, <1>3, RightBefore DEF CallRight
    <2>2. AllPosts' = AllPosts /\ \A q \in PostIds : AllReplies(q)' = AllReplies(q)
        BY <1>2, SamePosts DEF BaseInv, TimelineTypeOK
    <2>3. /\ Len(CountedShown(p)) = Len(shown)
          /\ \A q \in PostIds : CountedReplies(p)[q].hasLoaded = replies[q].hasLoaded
        BY <1>2, CountedIs DEF BaseInv
    <2>4. ASSUME NEW q \in PostIds, replies'[q].hasLoaded
          PROVE  replies'[q].items = Page(AllReplies(q)', RepliesLimit, 0)
        <3>1. q \in PostIds \ {p}
            BY <1>2, <2>4
        <3>2. QED
            BY <1>2, <2>1, <2>2, <2>3, <2>4, <3>1 DEF ReplyLands
    <2>5. IsPrefix(shown', AllPosts')
        BY <1>2, <2>1, <2>2 DEF ReplyLands
    <2>6. MoreRight'
        BY <1>2, <2>1, <2>2, <2>3 DEF MoreRight
    <2>7. QED
        BY <2>4, <2>5, <2>6 DEF PageRight, ThreadsRight
<1>4. k.kind = "replies" /\ k.at = "sent"
    BY <1>2 DEF RepliesCall
<1>5. world = "waits" => CallRight(k)'
    BY <1>3, <1>4 DEF CallRight
<1>6. QED
    BY <1>1, <1>2, <1>5, WaitStep

LEMMA ToggleRight ==
    ASSUME BaseInv, BaseInv', NEW c \in Calls, NEW p \in PostIds, toggleReplies(c, p), WaitRight
    PROVE  WaitRight'
<1>1. PICK k : k = calls'[c]
    OBVIOUS
<1>2. /\ MayCall(c) /\ UNCHANGED <<posts, world, shown, hasMore>>
      /\ \A d \in Calls \ {c} : calls'[d].kind = calls[d].kind
      /\ \A q \in PostIds : /\ replies'[q].hasLoaded = replies[q].hasLoaded
                            /\ replies'[q].items = replies[q].items
      /\ k = NoCall \/ k = RepliesCall(p)
    BY <1>1, ToggleBase DEF toggleReplies
<1>3. world = "waits" => PageRight' /\ MoreRight'
    BY <1>2, RightBefore, RightKept
<1>4. k.kind = "none" \/ (k.kind = "replies" /\ k.at = "sent")
    BY <1>2 DEF NoCall, RepliesCall
<1>5. world = "waits" => CallRight(k)'
    BY <1>3, <1>4 DEF CallRight
<1>6. QED
    BY <1>1, <1>2, <1>5, WaitStep

LEMMA LoadPostsRight ==
    ASSUME BaseInv, BaseInv', NEW c \in Calls, loadPosts(c), WaitRight
    PROVE  WaitRight'
<1>1. PICK reset \in BOOLEAN : StartLoad(c, reset, FALSE) /\ calls'[c] = LoadCall(reset, FALSE)
    BY LoadPostsBase
<1>2. MayCall(c) /\ UNCHANGED <<posts, world>> /\ \A d \in Calls : ~Loading(d)
    BY LoadPostsBase DEF loadPosts
<1>3. world = "waits" => ~PostAnswered /\ PageRight
    BY <1>2, NoPosts, RightBefore DEF MayCall
<1>4. Starts(c, reset, FALSE)
    BY <1>1, <1>2, <1>3 DEF Starts
<1>5. QED
    BY <1>2, <1>3, <1>4, StartsRight

\* After a post the timeline begins again: no other load can be in the way.
LEMMA EndPostRight ==
    ASSUME BaseInv, BaseInv', NEW c \in Calls, EndPost(c), WaitRight
    PROVE  WaitRight'
<1>1. /\ UNCHANGED <<posts, world>> /\ calls[c].kind = "post" /\ ~Free(c)
      /\ \/ /\ StartLoad(c, TRUE, TRUE) /\ calls'[c] = LoadCall(TRUE, TRUE)
            /\ \A d \in Calls : ~Loading(d)
         \/ ~MayLoad(TRUE)
    BY EndPostBase DEF Free
<1>2. CASE ~MayLoad(TRUE)
    <2>1. \E d \in Calls : Loading(d)
        BY <1>2 DEF MayLoad, BaseInv, CallsFit, TimelineTypeOK
    <2>2. world # "waits"
        BY <1>1, <2>1 DEF BaseInv, CallsFit, Loading, Free
    <2>3. QED
        BY <1>1, <2>2 DEF WaitRight
<1>3. CASE /\ StartLoad(c, TRUE, TRUE) /\ calls'[c] = LoadCall(TRUE, TRUE)
           /\ \A d \in Calls : ~Loading(d)
    <2>1. Starts(c, TRUE, TRUE)
        BY <1>1, <1>3 DEF Starts
    <2>2. QED
        BY <1>1, <2>1, StartsRight
<1>4. QED
    BY <1>1, <1>2, <1>3

LEMMA WaitRightInit == TimelineInit => WaitRight
<1> SUFFICES ASSUME TimelineInit, world = "waits" PROVE WaitRight
    BY DEF WaitRight
<1>1. BaseInv
    BY BaseInvInit
<1>2. PICK c \in Calls : calls = [d \in Calls |-> IF d = c THEN LoadCall(TRUE, FALSE) ELSE NoCall]
    BY DEF TimelineInit
<1>3. /\ ~Alone
      /\ \A d \in Calls : ~Free(d) => calls[d].kind = "load" /\ calls[d].at = "sent"
    BY <1>2 DEF Alone, Free, LoadCall, NoCall
<1>4. PageRight
    <2>1. shown = <<>> /\ \A q \in PostIds : ~replies[q].hasLoaded
        BY DEF TimelineInit, NoReplies
    <2>2. AllPosts \in Seq(RowType)
        BY <1>1, ListsAre DEF BaseInv, TimelineTypeOK, PostsListed
    <2>3. PICK s, t : s = shown /\ t = AllPosts
        OBVIOUS
    <2>4. s \in Seq(RowType) /\ t \in Seq(RowType) /\ Len(s) = 0 /\ Len(t) \in Nat
        BY <2>1, <2>2, <2>3
    <2>5. Len(s) <= Len(t) /\ \A i \in 1 .. Len(s) : s[i] = t[i]
        BY <2>4
    <2>6. IsPrefix(s, t)
        BY <2>4, <2>5, PrefixIs
    <2>7. QED
        BY <2>1, <2>3, <2>6 DEF PageRight, ThreadsRight
<1>5. \A d \in Calls : ~Free(d) => CallRight(calls[d])
    BY <1>3, <1>4 DEF CallRight
<1>6. QED
    BY <1>3, <1>5 DEF WaitRight

LEMMA WaitRightNext ==
    BaseInv /\ BaseInv' /\ WaitRight /\ [TimelineNext]_timelineVars => WaitRight'
<1> SUFFICES ASSUME BaseInv, BaseInv', WaitRight, [TimelineNext]_timelineVars PROVE WaitRight'
    OBVIOUS
<1>1. CASE Others
    BY <1>1, OthersTable DEF Others, WaitRight, BaseInv, TimelineTypeOK
<1>2. ASSUME NEW c \in Calls, Refuse(c) PROVE WaitRight'
    BY <1>2 DEF Refuse, WaitRight
<1>3. ASSUME NEW c \in Calls, EndWriteFailed(c) PROVE WaitRight'
    BY <1>3, EndWriteFailedBase, RightBefore DEF WaitRight, EndWriteFailed, Free
<1>4. ASSUME NEW c \in Calls,
             \/ loadPosts(c) \/ ServeLoad(c) \/ EndLoad(c) \/ ServeReplies(c) \/ EndReplies(c)
             \/ SendPost(c) \/ ServeWrite(c) \/ Refuse(c) \/ EndPost(c) \/ EndReply(c)
             \/ EndWriteFailed(c)
             \/ \E p \in PostIds : toggleReplies(c, p) \/ SendReply(c, p)
      PROVE  WaitRight'
    BY <1>2, <1>3, <1>4, LoadPostsRight, ServeLoadRight, EndLoadRight, ServeRepliesRight,
       EndRepliesRight, SendRight, ServeWriteRight, EndPostRight, EndReplyRight, ToggleRight
<1>5. CASE UNCHANGED timelineVars
    <2>1. UNCHANGED <<posts, world, shown, offset, hasMore, replies, calls>>
        BY <1>5 DEF timelineVars, page
    <2>2. AllPosts' = AllPosts /\ \A q \in PostIds : AllReplies(q)' = AllReplies(q)
        BY <2>1, SamePosts DEF BaseInv, TimelineTypeOK
    <2>3. PageRight' = PageRight /\ MoreRight' = MoreRight
        BY <2>1, <2>2 DEF PageRight, MoreRight, ThreadsRight
    <2>4. \A c \in Calls : Free(c)' = Free(c)
        BY <2>1 DEF Free
    <2>5. ASSUME NEW c \in Calls, CallRight(calls[c]), ~Free(c) PROVE CallRight(calls[c])'
        <3>1. PICK k : k = calls[c] /\ k = calls'[c]
            BY <2>1
        <3>2. k.kind = "reply" \/ k.kind = "replies" => k.post \in PostIds
            BY <3>1, CallKinds DEF BaseInv, ReplyLoads
        <3>3. CallRight(k)
            BY <2>5, <3>1 DEF CallRight, ReplyLands
        <3>4. k.kind = "replies" =>
                listPostReplies(k.post, RepliesLimit)' = listPostReplies(k.post, RepliesLimit)
            BY <2>2, <3>2 DEF listPostReplies
        <3>5. listPosts(Limit + 1, offset)' = listPosts(Limit + 1, offset)
            BY <2>1, <2>2 DEF listPosts
        <3>6. k.kind = "reply" /\ ReplyLands(k.post) => ReplyLands(k.post)'
            BY <2>1, <2>2 DEF ReplyLands, CountedShown, CountedReplies, InTimeline
        <3>7. CallRight(k)'
            BY <2>3, <3>3, <3>4, <3>5, <3>6 DEF CallRight
        <3>8. QED
            BY <3>1, <3>7 DEF CallRight, ReplyLands
    <2>6. QED
        BY <2>1, <2>3, <2>4, <2>5 DEF WaitRight, Alone
<1>6. QED
    BY <1>1, <1>4, <1>5 DEF TimelineNext

\* A page that is alone, and waits for each answer, shows between its calls what
\* the table holds: the newest posts with their counts, whether there are more,
\* and the oldest replies of each thread it read (app.js loadPosts, loadReplies,
\* incrementReplyCount, handleCreatePost, handleReplySubmit).
THEOREM TimelineRight == TimelineSpec => []TimelineAgrees
<1>1. BaseInv /\ WaitRight => TimelineAgrees
    BY DEF BaseInv, CallsFit, WaitRight, PageRight, MoreRight, ThreadsRight, TimelineAgrees
<1>2. QED
    BY <1>1, BaseAlways, WaitRightInit, WaitRightNext, PTL DEF TimelineSpec

----------------------------------------------------------------------------
(* The page in front of the table *)

LEMMA ServeThreads == BaseInv /\ [TimelineNext]_timelineVars => [ThreadsNext]_posts
<1> SUFFICES ASSUME BaseInv, TimelineNext PROVE [ThreadsNext]_posts
    BY DEF timelineVars
<1>1. CASE Others
    BY <1>1 DEF Others, ThreadsNext
<1>2. ASSUME NEW c \in Calls, ServeWrite(c) PROVE ThreadsNext
    <2>1. calls[c].kind = "reply" => calls[c].post \in PostIds
        BY CallKinds DEF BaseInv, TimelineTypeOK
    <2>2. PICK u \in Users, b \in Bodies, p \in PostIds :
              IF calls[c].kind = "post" THEN Begin(u, b, p) ELSE Answer(u, b, calls[c].post, p)
        BY <1>2 DEF ServeWrite
    <2>3. QED
        BY <1>2, <2>1, <2>2 DEF ServeWrite, ThreadsNext
<1>3. ASSUME NEW c \in Calls,
             \/ loadPosts(c) \/ ServeLoad(c) \/ EndLoad(c) \/ ServeReplies(c) \/ EndReplies(c)
             \/ SendPost(c) \/ Refuse(c) \/ EndPost(c) \/ EndReply(c) \/ EndWriteFailed(c)
             \/ \E p \in PostIds : toggleReplies(c, p) \/ SendReply(c, p)
      PROVE  UNCHANGED posts
    BY <1>3 DEF loadPosts, ServeLoad, EndLoad, ServeReplies, EndReplies, SendPost, Refuse,
                EndPost, EndReply, EndWriteFailed, toggleReplies, SendReply
<1>4. QED
    BY <1>1, <1>2, <1>3 DEF TimelineNext

\* Whatever the page asks of the server is a step of Threads, which PostThreads
\* implements: what is proved of threads holds while pages read and write them
\* (server.go Routes, app.js handleCreatePost, handleReplySubmit).
THEOREM TimelineServes == TimelineSpec => [][ThreadsNext]_posts
<1>1. BaseInv /\ [TimelineNext]_timelineVars => [ThreadsNext]_posts
    BY ServeThreads
<1>2. QED
    BY <1>1, BaseAlways, PTL DEF TimelineSpec
=============================================================================
