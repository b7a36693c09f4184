-------------------------------- MODULE Timeline --------------------------------
(***************************************************************************)
(* The timeline of app.js over the posts of Threads: pages are read by     *)
(* offset while the table changes, threads open and load their replies,    *)
(* posts and replies are written and read again.  Every fetch is a call    *)
(* that the server serves at one moment and the page hears of at a later   *)
(* one, or never.  The id of a post stands for its place in the order of   *)
(* created_at, which is not the order in which posts appear.  The reply    *)
(* form, the session, scroll position and drawing are left out: whatever   *)
(* the page may do by scrolling it may do here.                            *)
(***************************************************************************)
EXTENDS Threads, SequencesExt

CONSTANTS
    Calls,       \* fetches in progress at one time
    Tables,      \* what posts may hold when the page opens
    Limit,       \* posts of a page, 20
    RepliesLimit,\* replies that are read of a thread, 50
    MaxLimit     \* the most rows a list returns, 100

VARIABLES
    world,       \* who else is there, see below
    shown,       \* state.posts: rows [id, replies]
    offset, hasMore, loadingPosts,
    replies,     \* state.replies
    calls,       \* the fetches in progress
    base         \* history: the top level posts when the last reset was read

page == <<shown, offset, hasMore, loadingPosts, replies>>
timelineVars == <<posts, world, page, calls, base>>

ASSUME TimelineAssumption ==
    /\ PostIds \subseteq Nat /\ None \notin PostIds \cup Post
    /\ \A table \in Tables : /\ table \in [PostIds -> Post \cup {None}]
                            /\ IsFiniteSet({p \in PostIds : table[p] # None})
    /\ Limit \in Nat \ {0} /\ RepliesLimit \in Nat \ {0} /\ MaxLimit \in Nat
    /\ Limit < MaxLimit /\ RepliesLimit =< MaxLimit

\* "waits": the page is alone, makes one call at a time and loses none.
\* "creates": others post and reply, calls overlap, answers get lost.
\* "deletes": others delete, calls overlap, answers get lost, this page only reads.
Worlds == {"waits", "creates", "deletes"}

NoCall == [kind |-> "none"]

\* state.replies[p] before anything happened in the thread of p.
NoReplies == [expanded |-> FALSE, loading |-> FALSE, hasLoaded |-> FALSE, error |-> FALSE,
              items |-> <<>>]

----------------------------------------------------------------------------
(* The lists of the server *)

\* A limit of at most 100 rows.
parseLimit(n) == IF n > MaxLimit THEN MaxLimit ELSE n

Page(rows, limit, from) ==
    LET last == IF from + limit > Len(rows) THEN Len(rows) ELSE from + limit IN
    SubSeq(rows, from + 1, last)

Row(p) == [id |-> p, replies |-> Cardinality(Answers(p))]
Rows(ids) == [i \in DOMAIN ids |-> Row(ids[i])]

NewestFirst == {pq \in PostIds \X PostIds : pq[1] > pq[2]}
OldestFirst == {pq \in PostIds \X PostIds : pq[1] < pq[2]}

\* ORDER BY: so many rows come before the row at place i.
Before(S, order, p) == {q \in S : <<q, p>> \in order}
Ordered(S, order) ==
    [i \in 1 .. Cardinality(S) |->
        CHOOSE p \in S : Cardinality(Before(S, order, p)) = i - 1]

AllPosts == Rows(Ordered(Tops, NewestFirst))
AllReplies(p) == Rows(Ordered(Answers(p), OldestFirst))

listPosts(limit, from) == Page(AllPosts, parseLimit(limit), from)
listPostReplies(p, limit) == Page(AllReplies(p), parseLimit(limit), 0)

----------------------------------------------------------------------------
(* Fetches *)

Free(c) == calls[c].kind = "none"
Alone == \A c \in Calls : Free(c)

\* Whether a user may start another fetch now.
MayCall(c) == Free(c) /\ (world = "waits" => Alone)

LoadCall(reset, composer) ==
    [kind |-> "load", reset |-> reset, composer |-> composer, at |-> "sent", rows |-> <<>>]
RepliesCall(p) == [kind |-> "replies", post |-> p, current |-> TRUE, at |-> "sent", rows |-> <<>>]

\* A reset drops state.replies: fetches in progress keep objects nobody shows.
Detached ==
    [c \in Calls |-> IF calls[c].kind = "replies" THEN [calls[c] EXCEPT !.current = FALSE]
                     ELSE calls[c]]

TimelineInit ==
    /\ posts \in Tables /\ world \in Worlds
    /\ shown = <<>> /\ offset = 0 /\ hasMore = TRUE /\ loadingPosts = TRUE
    /\ replies = [p \in PostIds |-> NoReplies]
    /\ base = {}
    /\ \E c \in Calls : calls = [d \in Calls |-> IF d = c THEN LoadCall(TRUE, FALSE) ELSE NoCall]

----------------------------------------------------------------------------
(* loadPosts *)

\* Mutant: loadPosts does not look whether it is running already.
MayLoadAlways(reset) == reset \/ hasMore

MayLoad(reset) == ~loadingPosts /\ (reset \/ hasMore)

\* loadPosts in slot c, up to its fetch.
StartLoad(c, reset, composer) ==
    /\ MayLoad(reset)
    /\ loadingPosts' = TRUE
    /\ IF reset
         THEN /\ shown' = <<>> /\ offset' = 0 /\ hasMore' = TRUE
              /\ replies' = [p \in PostIds |-> NoReplies]
              /\ calls' = [Detached EXCEPT ![c] = LoadCall(TRUE, composer)]
              /\ base' = {}
         ELSE /\ calls' = [calls EXCEPT ![c] = LoadCall(FALSE, composer)]
              /\ UNCHANGED <<shown, offset, hasMore, replies, base>>

\* Init's, Refresh's and the scroll's call.
loadPosts(c) ==
    /\ MayCall(c)
    /\ \E reset \in BOOLEAN : StartLoad(c, reset, FALSE)
    /\ UNCHANGED <<posts, world>>

ServeLoad(c) ==
    /\ calls[c].kind = "load" /\ calls[c].at = "sent"
    /\ calls' = [calls EXCEPT ![c].at = "answered", ![c].rows = listPosts(Limit + 1, offset)]
    /\ base' = IF calls[c].reset THEN Tops ELSE base
    /\ UNCHANGED <<posts, world, page>>

\* Mutant: the extra row, which only tells that there is more, counts as shown.
NextOffsetAll(rows) == offset + Len(rows)

NextOffset(rows) == offset + Len(Page(rows, Limit, 0))

EndLoad(c) ==
    LET rows == calls[c].rows IN
    /\ calls[c].kind = "load"
    /\ loadingPosts' = FALSE
    /\ calls' = [calls EXCEPT ![c] = NoCall]
    /\ \/ /\ calls[c].at = "answered"
          /\ hasMore' = (Len(rows) > Limit)
          /\ shown' = (IF calls[c].reset THEN <<>> ELSE shown) \o Page(rows, Limit, 0)
          /\ offset' = NextOffset(rows)
       \/ /\ calls[c].at = "failed"
          /\ hasMore' = FALSE
          /\ UNCHANGED <<shown, offset>>
    /\ UNCHANGED <<posts, world, replies, base>>

----------------------------------------------------------------------------
(* Threads of the page *)

\* The rows on the page, those of a thread in a closed one included.
Displayed ==
    ToSet(shown) \cup
    UNION {ToSet(replies[p].items) : p \in {q \in PostIds : replies[q].expanded /\ ~replies[q].loading
                                                              /\ ~replies[q].error}}

\* loadReplies(p) in slot c up to its fetch; all and r are the states of the
\* threads, and of p, that it finds.
StartReplies(c, p, all, r) ==
    /\ replies' = [all EXCEPT ![p] = [r EXCEPT !.loading = TRUE, !.error = FALSE]]
    /\ calls' = [calls EXCEPT ![c] = RepliesCall(p)]

\* The button is disabled while the row counts no reply.
toggleReplies(c, p) ==
    LET r == [replies[p] EXCEPT !.expanded = ~replies[p].expanded] IN
    /\ MayCall(c)
    /\ \E row \in Displayed : row.id = p /\ row.replies > 0
    /\ IF r.expanded /\ ~r.hasLoaded
         THEN StartReplies(c, p, replies, r)
         ELSE replies' = [replies EXCEPT ![p] = r] /\ UNCHANGED calls
    /\ UNCHANGED <<posts, world, shown, offset, hasMore, loadingPosts, base>>

ServeReplies(c) ==
    /\ calls[c].kind = "replies" /\ calls[c].at = "sent"
    /\ calls' = [calls EXCEPT ![c].at = "answered",
                              ![c].rows = listPostReplies(calls[c].post, RepliesLimit)]
    /\ UNCHANGED <<posts, world, page, base>>

EndReplies(c) ==
    LET k == calls[c] IN
    /\ k.kind = "replies" /\ k.at # "sent"
    /\ replies' =
         IF ~k.current THEN replies
         ELSE [replies EXCEPT ![k.post] =
                 IF k.at = "failed" THEN [@ EXCEPT !.loading = FALSE, !.error = TRUE]
                 ELSE [@ EXCEPT !.loading = FALSE, !.hasLoaded = TRUE, !.items = k.rows]]
    /\ calls' = [calls EXCEPT ![c] = NoCall]
    /\ UNCHANGED <<posts, world, shown, offset, hasMore, loadingPosts, base>>

----------------------------------------------------------------------------
(* Writing *)

Unused == {p \in PostIds : ~IsStored(p)}

\* handleCreatePost; the button is disabled until the reload after it has ended.
SendPost(c) ==
    /\ MayCall(c) /\ world # "deletes" /\ Unused # {}
    /\ \A d \in Calls : calls[d].kind # "post" /\ (calls[d].kind = "load" => ~calls[d].composer)
    /\ calls' = [calls EXCEPT ![c] = [kind |-> "post", at |-> "sent"]]
    /\ UNCHANGED <<posts, world, page, base>>

\* handleReplySubmit
SendReply(c, p) ==
    /\ MayCall(c) /\ world # "deletes" /\ Unused # {}
    /\ \E row \in Displayed : row.id = p
    /\ calls' = [calls EXCEPT ![c] = [kind |-> "reply", post |-> p, at |-> "sent"]]
    /\ UNCHANGED <<posts, world, page, base>>

\* The server writes; the answer comes, or is lost.
ServeWrite(c) ==
    /\ calls[c].kind \in {"post", "reply"} /\ calls[c].at = "sent"
    /\ \E u \in Users, b \in Bodies, p \in PostIds :
         IF calls[c].kind = "post" THEN Begin(u, b, p) ELSE Answer(u, b, calls[c].post, p)
    /\ \E at \in IF world = "waits" THEN {"answered"} ELSE {"answered", "failed"} :
         calls' = [calls EXCEPT ![c].at = at]
    /\ UNCHANGED <<world, page, base>>

\* The server refuses, the request never arrives, or what was read is lost.
Refuse(c) ==
    /\ world # "waits"
    /\ calls[c].kind # "none" /\ calls[c].at = "sent"
    /\ calls' = [calls EXCEPT ![c].at = "failed"]
    /\ UNCHANGED <<posts, world, page, base>>

\* After a post the page reads its first page again, unless it is reading one.
EndPost(c) ==
    /\ calls[c].kind = "post" /\ calls[c].at = "answered"
    /\ \/ StartLoad(c, TRUE, TRUE)
       \/ ~MayLoad(TRUE) /\ calls' = [calls EXCEPT ![c] = NoCall] /\ UNCHANGED <<page, base>>
    /\ UNCHANGED <<posts, world>>

Incremented(rows, p) ==
    [i \in DOMAIN rows |->
        IF rows[i].id = p /\ (\A j \in 1 .. i - 1 : rows[j].id # p)
          THEN [rows[i] EXCEPT !.replies = @ + 1] ELSE rows[i]]

InTimeline(p) == \E row \in ToSet(shown) : row.id = p

CountedShown(p) == IF InTimeline(p) THEN Incremented(shown, p) ELSE shown

\* Mutant: the post whose count grows is looked for in the timeline only.
CountedInTimeline(p) == replies

\* incrementReplyCount: the row is in the timeline, else in the one thread that
\* shows it, open or not.
CountedReplies(p) ==
    IF InTimeline(p) THEN replies
    ELSE [q \in PostIds |-> [replies[q] EXCEPT !.items = Incremented(@, p)]]

\* Mutant: the thread is opened and marked, and not read again.
EndReplyWithoutLoad(c) ==
    LET p == calls[c].post IN
    /\ calls[c].kind = "reply" /\ calls[c].at = "answered"
    /\ shown' = CountedShown(p)
    /\ replies' = [CountedReplies(p) EXCEPT ![p].expanded = TRUE, ![p].hasLoaded = FALSE]
    /\ calls' = [calls EXCEPT ![c] = NoCall]
    /\ UNCHANGED <<posts, world, offset, hasMore, loadingPosts, base>>

\* The thread opens and is read again.
EndReply(c) ==
    LET p == calls[c].post
        counted == CountedReplies(p) IN
    /\ calls[c].kind = "reply" /\ calls[c].at = "answered"
    /\ shown' = CountedShown(p)
    /\ StartReplies(c, p, counted, [counted[p] EXCEPT !.expanded = TRUE, !.hasLoaded = FALSE])
    /\ UNCHANGED <<posts, world, offset, hasMore, loadingPosts, base>>

\* An error only writes a line under the form.
EndWriteFailed(c) ==
    /\ calls[c].kind \in {"post", "reply"} /\ calls[c].at = "failed"
    /\ calls' = [calls EXCEPT ![c] = NoCall]
    /\ UNCHANGED <<posts, world, page, base>>

----------------------------------------------------------------------------
(* Other users *)

Others ==
    /\ \/ /\ world = "creates"
          /\ \E u \in Users, b \in Bodies, p \in PostIds :
               Begin(u, b, p) \/ \E q \in PostIds : Answer(u, b, q, p)
       \/ world = "deletes" /\ \E p \in PostIds : Delete(p)
    /\ UNCHANGED <<world, page, calls, base>>

TimelineNext ==
    \/ Others
    \/ \E c \in Calls :
         \/ loadPosts(c) \/ ServeLoad(c) \/ EndLoad(c)
         \/ ServeReplies(c) \/ EndReplies(c)
         \/ SendPost(c) \/ ServeWrite(c) \/ Refuse(c)
         \/ EndPost(c) \/ EndReply(c) \/ EndWriteFailed(c)
         \/ \E p \in PostIds : toggleReplies(c, p) \/ SendReply(c, p)

TimelineSpec == TimelineInit /\ [][TimelineNext]_timelineVars

----------------------------------------------------------------------------
(* Properties *)

Ids(rows) == {row.id : row \in ToSet(rows)}

\* Left alone, and with nothing under way, the page shows what the server has:
\* the newest posts with their reply counts, whether there are more, and of each
\* thread it has read the oldest replies with theirs.
TimelineAgrees ==
    world = "waits" /\ Alone =>
        /\ IsPrefix(shown, AllPosts) /\ offset = Len(shown)
        /\ hasMore <=> Len(AllPosts) > Len(shown)
        /\ \A p \in PostIds :
             replies[p].hasLoaded => replies[p].items = Page(AllReplies(p), RepliesLimit, 0)

\* As long as nobody deletes, a post that was there when the timeline was read
\* first is on the page or still to come: new posts never push it out of reach.
NothingSkipped ==
    world # "deletes" =>
        \A p \in base \ Ids(shown) :
            \E i \in DOMAIN AllPosts : AllPosts[i].id = p /\ i > offset

\* As long as nobody else writes posts, no post is on the page twice.
NoneTwice ==
    world # "creates" => \A i, j \in DOMAIN shown : i # j => shown[i].id # shown[j].id

\* A thread that is open, and neither loading nor showing an error, shows replies
\* that were read: never the empty list it began with, whatever calls crossed.
RepliesHonest ==
    \A p \in PostIds :
        replies[p].expanded /\ ~replies[p].loading /\ ~replies[p].error => replies[p].hasLoaded
=============================================================================
