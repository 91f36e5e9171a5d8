------------------------------- MODULE Reading -------------------------------
(***************************************************************************)
(* What accounts and visitors read, and what they have read.  The board    *)
(* index, the list of an area's topics, the pages of a topic, the place of *)
(* the first unread post and the marker of a reader are computed by        *)
(* different statements, each with its own copy of the visibility rule and *)
(* of the order of threads.  They must agree while posts arrive, are       *)
(* hidden, restored and redacted, while areas and topics are closed and    *)
(* while two requests of one reader mark a topic read.                     *)
(*                                                                         *)
(* A statement is an operator on the state it reads.  A page is read in    *)
(* one snapshot; only marking a topic takes several steps.                 *)
(***************************************************************************)
EXTENDS Naturals, Sequences, FiniteSets, FiniteSetsExt, SequencesExt

CONSTANTS
    Members, Staff,    \* accounts
    Visitor,           \* who has no session
    Areas, Topics, TopicArea, TopicAuthor,
    Slots,             \* slots for the marking requests that run concurrently
    PostPageSize, MaximumPostPage,
    MaxPosts           \* bound

ReadingAssumption ==
    /\ IsFiniteSet(Topics) /\ Cardinality(Topics) <= MaxPosts
    /\ TopicArea \in [Topics -> Areas] /\ TopicAuthor \in [Topics -> Members \cup Staff]
    /\ Visitor \notin Members \cup Staff
    /\ PostPageSize \in Nat \ {0} /\ MaximumPostPage \in Nat /\ MaxPosts \in Nat

VARIABLES
    area,      \* rows of areas, with the accounts their groups let in
    topic,     \* the state of each topic
    posts,     \* rows of posts, in the order of their ids
    marker,    \* topic_reads.last_read_post_number, 0 when there is no row
    call       \* what each marking request is doing

vars == <<area, topic, posts, marker, call>>

Accounts == Members \cup Staff
Readers == Accounts \cup {Visitor}
Visibilities == {"public", "authenticated", "groups"}

AreaRows == [visibility : Visibilities, members : SUBSET Members]
PostRows == [topic : Topics, number : 1..MaxPosts, thread_path : Seq(1..MaxPosts),
             author : Accounts, deleted : BOOLEAN, redacted : BOOLEAN]
Free == [step |-> "free"]
Calls == [step : {"begin", "selected", "upserted", "ok", "refused"}, user : Accounts,
          topic : Topics, next : 1..MaxPosts + 1, selected : 0..MaxPosts, advanced : BOOLEAN,
          seen : SUBSET (1..MaxPosts)]

TypeOK ==
    /\ area \in [Areas -> AreaRows]
    /\ topic \in [Topics -> {"open", "hidden", "deleted"}]
    /\ posts \in Seq(PostRows) /\ Len(posts) <= MaxPosts
    /\ marker \in [Accounts -> [Topics -> 0..MaxPosts]]
    /\ call \in [Slots -> {Free} \cup Calls]

FirstPost(t) == [topic |-> t, number |-> 1, thread_path |-> <<1>>, author |-> TopicAuthor[t],
                 deleted |-> FALSE, redacted |-> FALSE]

Init ==
    /\ area = [a \in Areas |-> [visibility |-> "public", members |-> {}]]
    /\ topic = [t \in Topics |-> "open"]
    /\ posts = [i \in 1..Cardinality(Topics) |-> FirstPost(SetToSeq(Topics)[i])]
    /\ marker = [u \in Accounts |-> [t \in Topics |-> 0]]
    /\ call = [c \in Slots |-> Free]

-----------------------------------------------------------------------------
(* Who sees an area. *)

InGroup(u, a) == area[a].visibility = "groups" /\ u \in area[a].members

\* The predicate of the statements that also serve visitors.
MemberSees(u, a) ==
    \/ u \in Staff
    \/ area[a].visibility = "public"
    \/ u # Visitor /\ area[a].visibility = "authenticated"
    \/ u # Visitor /\ InGroup(u, a)

\* The predicate of the statements for accounts alone.
AuthenticatedSees(u, a) ==
    \/ u \in Staff
    \/ area[a].visibility \in {"public", "authenticated"}
    \/ InGroup(u, a)

\* The policy in memory, which publishing and the pages' controls use.
CanViewArea(u, a) ==
    IF u = Visitor THEN area[a].visibility = "public"
    ELSE u \in Staff \/ area[a].visibility # "groups" \/ u \in area[a].members

TopicShown(u, t) == topic[t] = "open" \/ (topic[t] = "hidden" /\ u \in Staff)

GetVisibleAreaBySlug(u, a) == MemberSees(u, a)
ListVisibleAreas(u) == {a \in Areas : MemberSees(u, a)}

-----------------------------------------------------------------------------
(* Posts in the order of their threads. *)

PostsOf(t) == {p \in DOMAIN posts : posts[p].topic = t}
NextPostNumber(t) == 1 + Cardinality(PostsOf(t))
Path(p) == posts[p].thread_path
IsDescendant(d, p) == d # p /\ posts[d].topic = posts[p].topic /\ IsPrefix(Path(p), Path(d))

\* The order of integer arrays.
PathAtMost(x, y) ==
    \/ IsPrefix(x, y)
    \/ \E i \in DOMAIN x \cap DOMAIN y :
         x[i] < y[i] /\ \A j \in 1..(i - 1) : x[j] = y[j]

\* Mutation of the statement: deleted posts leave no tombstones.
WithoutTombstones(t) == {p \in PostsOf(t) : ~posts[p].deleted}

\* Deleted posts stay as tombstones where something below them is left.
Rooted(t) ==
    {p \in PostsOf(t) : ~posts[p].deleted \/ \E d \in PostsOf(t) : IsDescendant(d, p) /\ ~posts[d].deleted}
ThreadNodes(u, t) == IF u \in Staff THEN PostsOf(t) ELSE Rooted(t)

NodeOrdinal(p, nodes) == Cardinality({q \in nodes : PathAtMost(Path(q), Path(p))})
PageOf(ordinal) == 1 + (ordinal - 1) \div PostPageSize

TopicVisible(u, t) == TopicShown(u, t) /\ MemberSees(u, TopicArea[t])

GetVisibleTopicPostPage(u, t, page) ==
    LET nodes == ThreadNodes(u, t) IN
    IF TopicVisible(u, t) THEN {p \in nodes : PageOf(NodeOrdinal(p, nodes)) = page} ELSE {}

\* A node of a page has its parent before it, and what is redacted is a tombstone.
validVisibleThreadNode(p, nodes) ==
    /\ Len(Path(p)) > 1 => \E q \in nodes : Path(q) = Front(Path(p)) /\ NodeOrdinal(q, nodes) < NodeOrdinal(p, nodes)
    /\ ~posts[p].deleted => ~posts[p].redacted

-----------------------------------------------------------------------------
(* What is unread. *)

Eligible(u, t) ==
    {p \in PostsOf(t) : ~posts[p].deleted /\ ~posts[p].redacted /\ posts[p].author # u}
Numbers(ps) == {posts[p].number : p \in ps}
ReadHead(u, t) == Max({0} \cup Numbers(Eligible(u, t)))

AuthorizedTopic(u, t) == TopicShown(u, t) /\ AuthenticatedSees(u, TopicArea[t])

GetAuthorizedTopicReadState(u, t) ==
    IF ReadHead(u, t) = 0 THEN "read"
    ELSE IF marker[u][t] = 0 THEN "new"
    ELSE IF marker[u][t] < ReadHead(u, t) THEN "unread" ELSE "read"

\* The rows that the pages accept.
validatedTopicReadState(u, t) ==
    ReadHead(u, t) < NextPostNumber(t) /\ marker[u][t] < NextPostNumber(t)

\* A page of a topic as the store returns it.  Only the first page can be empty.
VisibleTopicPostPage(u, t, page) ==
    LET nodes == ThreadNodes(u, t)
        shown == GetVisibleTopicPostPage(u, t, page)
        expected == Min({PostPageSize, Cardinality(nodes) - (page - 1) * PostPageSize})
    IN IF ~TopicVisible(u, t) \/ page > MaximumPostPage \/ (shown = {} /\ page > 1) THEN "no rows"
       ELSE IF Cardinality(shown) = expected /\ \A p \in shown : validVisibleThreadNode(p, nodes)
         THEN "page" ELSE "malformed"

\* An account's page has its read state, from the same snapshot.
LoadVisibleTopicPostPage(u, t, page) ==
    LET found == VisibleTopicPostPage(u, t, page) IN
    IF u = Visitor \/ found # "page" THEN found
    ELSE IF ~AuthorizedTopic(u, t) THEN "no rows"
    ELSE IF validatedTopicReadState(u, t) THEN "page" ELSE "malformed"

NoPost == 0

\* Mutation of the statement: tombstones are not counted for staff either.
FirstUnreadAmongRooted(u, t) ==
    LET above == {p \in Eligible(u, t) : posts[p].number > marker[u][t]} IN
    IF above = {} THEN [post |-> NoPost, ordinal |-> 0]
    ELSE LET p == CHOOSE q \in above : posts[q].number = Min(Numbers(above)) IN
         [post |-> p, ordinal |-> NodeOrdinal(p, Rooted(t))]

GetFirstUnreadTarget(u, t) ==
    LET above == {p \in Eligible(u, t) : posts[p].number > marker[u][t]} IN
    IF above = {} THEN [post |-> NoPost, ordinal |-> 0]
    ELSE LET p == CHOOSE q \in above : posts[q].number = Min(Numbers(above)) IN
         [post |-> p, ordinal |-> NodeOrdinal(p, ThreadNodes(u, t))]

\* The target with its page; beyond the last page the post has a page of its own.
FirstUnread(u, t) ==
    LET target == GetFirstUnreadTarget(u, t) IN
    [post |-> target.post,
     page |-> IF target.post = NoPost \/ target.ordinal > PostPageSize * MaximumPostPage
                THEN 0 ELSE PageOf(target.ordinal),
     valid |-> /\ validatedTopicReadState(u, t)
               /\ IF target.post = NoPost THEN ReadHead(u, t) <= marker[u][t]
                  ELSE posts[target.post].number <= ReadHead(u, t)]

-----------------------------------------------------------------------------
(* The lists. *)

ListVisibleTopicsByAreaSlug(a) ==
    {t \in Topics : TopicArea[t] = a /\ MemberSees(Visitor, a) /\ TopicShown(Visitor, t)}
\* Mutation of the statement: hidden topics are listed for everyone.
ListHiddenTopics(u, a) ==
    {t \in Topics : TopicArea[t] = a /\ AuthenticatedSees(u, a) /\ topic[t] # "deleted"}
ListAuthenticatedVisibleTopicsByAreaSlug(u, a) ==
    {t \in Topics : TopicArea[t] = a /\ AuthenticatedSees(u, a) /\ TopicShown(u, t)}

GetVisibleAreaTopicPage(u, a) ==
    IF ~GetVisibleAreaBySlug(u, a) THEN {}
    ELSE IF u = Visitor THEN ListVisibleTopicsByAreaSlug(a)
    ELSE ListAuthenticatedVisibleTopicsByAreaSlug(u, a)

\* The latest by created_at, then by row.  A row here has no time: posts are in the
\* order of their times, as they are while the clock does not step back.
LatestPost(ps) == IF ps = {} THEN NoPost ELSE Max(ps)

\* Mutation of the statement: the latest post is counted among all posts.
SummaryOverAllPosts(u, a, topics) ==
    LET shown == {p \in DOMAIN posts : posts[p].topic \in topics /\ ~posts[p].deleted}
        latest == LatestPost(shown)
    IN [area |-> a, topic_count |-> Cardinality(topics), post_count |-> Cardinality(shown),
        latest |-> latest,
        ordinal |-> IF latest = NoPost THEN 0 ELSE NodeOrdinal(latest, PostsOf(posts[latest].topic))]

\* One row of the board index; the topics and posts under it are filtered like the area.
SummaryRow(u, a, topics) ==
    LET shown == {p \in DOMAIN posts : posts[p].topic \in topics /\ ~posts[p].deleted}
        latest == LatestPost(shown)
    IN [area |-> a, topic_count |-> Cardinality(topics), post_count |-> Cardinality(shown),
        latest |-> latest,
        ordinal |-> IF latest = NoPost THEN 0 ELSE NodeOrdinal(latest, Rooted(posts[latest].topic))]

ListVisibleAreaSummaries ==
    {SummaryRow(Visitor, a, {t \in Topics : TopicArea[t] = a /\ TopicShown(Visitor, t)}) :
        a \in {b \in Areas : MemberSees(Visitor, b)}}

ListAuthenticatedVisibleAreaSummaries(u) ==
    {SummaryRow(u, a, {t \in Topics : TopicArea[t] = a /\ TopicShown(u, t)}) :
        a \in {b \in Areas : AuthenticatedSees(u, b)}}

UnreadTopicCount(u, a) ==
    Cardinality({t \in Topics : /\ TopicArea[t] = a /\ TopicShown(u, t)
                                /\ ReadHead(u, t) > marker[u][t]})

AreaSummaries(u) ==
    IF u = Visitor THEN ListVisibleAreaSummaries ELSE ListAuthenticatedVisibleAreaSummaries(u)

visibleAreaSummaryFromRow(row) ==
    /\ row.post_count > 0 => row.topic_count > 0
    /\ (row.post_count = 0) <=> (row.latest = NoPost)
    /\ row.latest # NoPost => row.ordinal > 0

\* An account's row of the list of topics has its read state.
authenticatedVisibleAreaTopicFromRow(u, t) == u = Visitor \/ validatedTopicReadState(u, t)

\* The handlers answer with a page or say that there is none, never 503.
topicPostList(u, t, page) == LoadVisibleTopicPostPage(u, t, page) # "malformed"
areaTopicList(u, a) ==
    \A t \in GetVisibleAreaTopicPage(u, a) : authenticatedVisibleAreaTopicFromRow(u, t)
areaIndex(u) ==
    \A row \in AreaSummaries(u) :
        visibleAreaSummaryFromRow(row) /\ (u # Visitor => UnreadTopicCount(u, row.area) <= row.topic_count)
firstUnread(u, t) == AuthorizedTopic(u, t) => FirstUnread(u, t).valid

-----------------------------------------------------------------------------
(* Marking a topic read. *)

StartMark(c, u, t) ==
    /\ call[c].step \in {"free", "ok", "refused"}
    /\ call' = [call EXCEPT ![c] = [step |-> "begin", user |-> u, topic |-> t, next |-> 1,
                                    selected |-> 0, advanced |-> FALSE, seen |-> {}]]
    /\ UNCHANGED <<area, topic, posts, marker>>

\* Mutation of the statement: the boundary is the first unread post.
BoundaryAtFirstUnread(c) ==
    /\ call[c].step = "begin" /\ AuthorizedTopic(call[c].user, call[c].topic)
    /\ LET u == call[c].user  t == call[c].topic  numbers == Numbers(Eligible(u, t)) IN
       call' = [call EXCEPT ![c].step = "selected", ![c].next = NextPostNumber(t),
                            ![c].selected = IF numbers = {} THEN 0 ELSE Min(numbers),
                            ![c].seen = numbers]
    /\ UNCHANGED <<area, topic, posts, marker>>

\* The snapshot of the statement: the head of what the reader may see now.
MarkTopicReadBoundary(c) ==
    /\ call[c].step = "begin" /\ AuthorizedTopic(call[c].user, call[c].topic)
    /\ LET u == call[c].user  t == call[c].topic IN
       call' = [call EXCEPT ![c].step = "selected", ![c].next = NextPostNumber(t),
                            ![c].selected = ReadHead(u, t), ![c].seen = Numbers(Eligible(u, t))]
    /\ UNCHANGED <<area, topic, posts, marker>>

MarkerLocked(c) ==
    \E d \in Slots \ {c} : /\ call[d].step = "upserted" /\ call[d].selected > 0
                           /\ call[d].user = call[c].user /\ call[d].topic = call[c].topic

\* Mutation of the statement: the stored number is not compared.
UpsertAlways(c) ==
    /\ call[c].step = "selected" /\ (call[c].selected > 0 => ~MarkerLocked(c))
    /\ call' = [call EXCEPT ![c].step = "upserted", ![c].advanced = call[c].selected > 0]
    /\ UNCHANGED <<area, topic, posts, marker>>

\* The rest of the statement: ON CONFLICT waits for the row and then compares
\* with what the other request has stored.
UpsertMarker(c) ==
    /\ call[c].step = "selected" /\ (call[c].selected > 0 => ~MarkerLocked(c))
    /\ call' = [call EXCEPT ![c].step = "upserted",
                            ![c].advanced = call[c].selected > marker[call[c].user][call[c].topic]]
    /\ UNCHANGED <<area, topic, posts, marker>>

\* What the transaction itself reads of its marker.
GetTopicReadMarker(c) ==
    IF call[c].advanced THEN call[c].selected ELSE marker[call[c].user][call[c].topic]

\* The marker is compared with the topic as the first statement saw it.
MarkTopicRead(c) ==
    /\ call[c].step = "upserted"
    /\ LET stored == GetTopicReadMarker(c)
           valid == \/ stored = 0 /\ call[c].selected = 0
                    \/ /\ stored > 0 /\ stored < call[c].next
                       /\ call[c].selected > 0 => stored >= call[c].selected
       IN /\ call' = [call EXCEPT ![c].step = IF valid THEN "ok" ELSE "refused"]
          /\ marker' = IF valid THEN [marker EXCEPT ![call[c].user][call[c].topic] = stored] ELSE marker
    /\ UNCHANGED <<area, topic, posts>>

\* A deadline, a lock timeout, a topic that is out of sight, or a process that ends.
Rollback(c) ==
    /\ call[c].step \in {"begin", "selected", "upserted"}
    /\ call' = [call EXCEPT ![c] = Free]
    /\ UNCHANGED <<area, topic, posts, marker>>

-----------------------------------------------------------------------------
(* What the other services change, one transaction each. *)

Reply(u, p) ==
    /\ Len(posts) < MaxPosts /\ ~posts[p].deleted /\ topic[posts[p].topic] = "open"
    /\ LET t == posts[p].topic  number == NextPostNumber(t) IN
       posts' = Append(posts, [topic |-> t, number |-> number, thread_path |-> Append(Path(p), number),
                               author |-> u, deleted |-> FALSE, redacted |-> FALSE])
    /\ UNCHANGED <<area, topic, marker, call>>

\* The author deletes a post, or staff hide or restore it.
ChangePostVisibility(p) ==
    /\ ~posts[p].redacted
    /\ posts' = [posts EXCEPT ![p].deleted = ~posts[p].deleted]
    /\ UNCHANGED <<area, topic, marker, call>>

RedactPost(p) ==
    /\ ~posts[p].deleted /\ ~posts[p].redacted
    /\ posts' = [posts EXCEPT ![p].deleted = TRUE, ![p].redacted = TRUE]
    /\ UNCHANGED <<area, topic, marker, call>>

ChangeTopicState(t, state) ==
    /\ topic[t] \notin {state, "deleted"}
    /\ topic' = [topic EXCEPT ![t] = state]
    /\ UNCHANGED <<area, posts, marker, call>>

ChangeArea(a, visibility, members) ==
    /\ area' = [area EXCEPT ![a] = [visibility |-> visibility, members |-> members]]
    /\ area' # area /\ (visibility # "groups" => members = {})
    /\ UNCHANGED <<topic, posts, marker, call>>

Next ==
    \/ \E c \in Slots :
         \/ \E u \in Accounts, t \in Topics : StartMark(c, u, t)
         \/ MarkTopicReadBoundary(c) \/ UpsertMarker(c) \/ MarkTopicRead(c) \/ Rollback(c)
    \/ \E p \in DOMAIN posts :
         ChangePostVisibility(p) \/ RedactPost(p) \/ \E u \in Accounts : Reply(u, p)
    \/ \E t \in Topics, s \in {"open", "hidden", "deleted"} : ChangeTopicState(t, s)
    \/ \E a \in Areas, v \in Visibilities, m \in SUBSET Members : ChangeArea(a, v, m)

Spec == Init /\ [][Next]_vars

-----------------------------------------------------------------------------
(* Properties. *)

\* The marker of a reader never goes back, in whatever order two of its
\* requests commit.
MarkerOnlyRises ==
    [][\A u \in Accounts, t \in Topics : marker'[u][t] >= marker[u][t]]_vars

\* A marking request that ends has left nothing unread that it could see when
\* it chose its boundary.  It is refused only because a later request of the
\* same reader went further than the topic it had read.
MarksReachWhatTheySaw ==
    \A c \in Slots : call[c].step \in {"ok", "refused"} =>
        LET stored == marker[call[c].user][call[c].topic] IN
        /\ \A n \in call[c].seen : n <= stored
        /\ call[c].step = "refused" => stored >= call[c].next

\* No order of publications, moderation and marking leaves rows that the pages
\* refuse: a marker or a head above the topic's numbers, a reply without its
\* parent, a summary without its latest post.
ReadRowsAreWellFormed ==
    /\ \A u \in Readers :
         /\ areaIndex(u) /\ \A a \in Areas : areaTopicList(u, a)
         /\ \A t \in Topics, page \in 1..MaximumPostPage : topicPostList(u, t, page)
    /\ \A u \in Accounts, t \in Topics : firstUnread(u, t)

\* The first unread post is on the page that the redirect names, and there is
\* one exactly when the topic is shown as new or unread.
FirstUnreadIsOnItsPage ==
    \A u \in Accounts, t \in Topics : AuthorizedTopic(u, t) =>
      LET target == FirstUnread(u, t) IN
      /\ (target.post # NoPost) <=> (GetAuthorizedTopicReadState(u, t) \in {"new", "unread"})
      /\ target.page # 0 => target.post \in GetVisibleTopicPostPage(u, t, target.page)

\* The index, the list of topics and the topics themselves agree on what a
\* reader sees, and all of them with the policy.
ListsAgree ==
    \A u \in Readers :
      /\ {row.area : row \in AreaSummaries(u)} = {a \in Areas : CanViewArea(u, a)}
      /\ ListVisibleAreas(u) = {a \in Areas : CanViewArea(u, a)}
      /\ \A row \in AreaSummaries(u) :
           LET listed == GetVisibleAreaTopicPage(u, row.area) IN
           /\ row.topic_count = Cardinality(listed)
           /\ \A t \in listed : TopicVisible(u, t)
           /\ u # Visitor =>
                UnreadTopicCount(u, row.area) =
                  Cardinality({t \in listed : GetAuthorizedTopicReadState(u, t) # "read"})

\* The latest post that the index names is on the page its link leads to.  For
\* staff, whose pages have the posts that the index leaves out, it need not be.
LatestPostIsOnItsPage ==
    \A u \in Readers \ Staff : \A row \in AreaSummaries(u) : row.latest # NoPost =>
        row.latest \in GetVisibleTopicPostPage(u, posts[row.latest].topic, PageOf(row.ordinal))

=============================================================================
