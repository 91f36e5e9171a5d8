------------------------------ MODULE Discovery ------------------------------
(***************************************************************************)
(* Search and recent activity.  Search orders a bounded window of topics   *)
(* and posts by rank, hides a first post behind its topic and reads every  *)
(* row of its page a second time.  Activity is read page by page: a cursor *)
(* names the last post shown, is signed with a key of the process and is   *)
(* bound to the authority of its reader.  Meanwhile posts come and go,     *)
(* topics close, the reader's authority changes, the database's clock goes *)
(* on or back a little, and the operator replaces the key.                 *)
(*                                                                         *)
(* One reader walks through the activity.  A search is an operator on the  *)
(* snapshot it reads.                                                      *)
(***************************************************************************)
EXTENDS Integers, Sequences, FiniteSets, FiniteSetsExt, SequencesExt

CONSTANTS
    Topics, Authors, MaxWords,
    SearchPageSize, SearchWindow,    \* the window is two pages
    ActivityPageSize,
    Keys, NotBefore, IssueNotAfter,  \* the operator's keys, numbered in the order of their use
    MaximumAge, FutureSkew,
    MaxTime, MaxPosts                \* bounds

DiscoveryAssumption ==
    /\ IsFiniteSet(Topics) /\ Topics \subseteq Nat /\ Authors \subseteq Nat \ {0}
    /\ SearchPageSize \in Nat \ {0} /\ SearchWindow = 2 * SearchPageSize
    /\ ActivityPageSize \in Nat \ {0}
    /\ IsFiniteSet(Keys) /\ Keys # {} /\ Keys \subseteq Nat \ {0}
    /\ NotBefore \in [Keys -> Nat] /\ IssueNotAfter \in [Keys -> Nat]
    /\ MaximumAge \in Nat /\ FutureSkew \in Nat
    /\ MaxWords \in Nat /\ MaxTime \in Nat /\ MaxPosts \in Nat

VARIABLES
    clock, behind,   \* the database's clock; whether it has been put back
    visibility,      \* of the area each topic is in
    topic,           \* rows of topics
    posts,           \* rows of posts, in the order of their ids
    authority,       \* what the reader may see
    ring,            \* the keys the process has loaded
    walk,            \* the reader's walk through the activity
    stayed           \* history: what was listed ever since the walk began

vars == <<clock, behind, visibility, topic, posts, authority, ring, walk, stayed>>
rows == <<visibility, topic, posts>>

Authorities == {"visitor", "member", "grouped", "staff"}
Visibilities == {"public", "authenticated", "groups"}
NoAuthor == 0
NoKey == 0
NoCursor == [post |-> 0]
Absent == [state |-> "absent"]

TopicRows == [state : {"open", "hidden"}, words : 0..MaxWords, at : 0..MaxTime, author : Authors]
PostRows == [topic : Topics, author : Authors, at : 0..MaxTime, updated_at : 0..MaxTime,
             words : 0..MaxWords, state : {"shown", "deleted", "redacted"}]
Cursors == [post : 1..MaxPosts, key : Keys, issued : 0..MaxTime, audience : Authorities]
Walks == [step : {"idle", "asked", "page", "ended", "refused"}, cursor : {NoCursor} \cup Cursors,
          actor : Authorities, shown : Seq(1..MaxPosts)]
NoWalk == [step |-> "idle", cursor |-> NoCursor, actor |-> "visitor", shown |-> <<>>]

TypeOK ==
    /\ clock \in 0..MaxTime /\ behind \in BOOLEAN
    /\ visibility \in [Topics -> Visibilities]
    /\ topic \in [Topics -> {Absent} \cup TopicRows]
    /\ posts \in Seq(PostRows) /\ Len(posts) <= MaxPosts
    /\ authority \in Authorities
    /\ ring \in [active : Keys, previous : Keys \cup {NoKey}]
    /\ walk \in Walks
    /\ stayed \in SUBSET (1..MaxPosts)

Init ==
    /\ clock = 0 /\ behind = FALSE
    /\ visibility = [t \in Topics |-> "public"]
    /\ topic = [t \in Topics |-> Absent] /\ posts = <<>>
    /\ authority \in Authorities
    /\ ring = [active |-> Min(Keys), previous |-> NoKey]
    /\ walk = NoWalk /\ stayed = {}

-----------------------------------------------------------------------------
(* What a reader may see: the predicate that every statement repeats. *)

AreaSeen(who, t) ==
    \/ who = "staff"
    \/ visibility[t] = "public"
    \/ who \in {"member", "grouped"} /\ visibility[t] = "authenticated"
    \/ who = "grouped" /\ visibility[t] = "groups"
TopicSeen(who, t) ==
    /\ topic[t] # Absent /\ AreaSeen(who, t)
    /\ who = "staff" \/ topic[t].state # "hidden"
PostSeen(who, p) == posts[p].state = "shown" /\ TopicSeen(who, posts[p].topic)

FirstPost(t) == Min({p \in DOMAIN posts : posts[p].topic = t})

-----------------------------------------------------------------------------
(* Search.  A request has a word or not, an author or not.  The projection's *)
(* version is that of the release, which a board that serves has completed.  *)

Requests == [word : BOOLEAN, author : {NoAuthor} \cup Authors] \ {[word |-> FALSE, author |-> NoAuthor]}

Matches(row, q) == (q.word => row.words > 0) /\ q.author \in {NoAuthor, row.author}
Hit(kind, id, row) == [kind |-> kind, id |-> id, at |-> row.at, words |-> row.words]

TopicHits(who, q) ==
    {Hit("topic", t, topic[t]) : t \in {s \in Topics : TopicSeen(who, s) /\ Matches(topic[s], q)}}

\* Mutation of the statement: the first post is hidden whatever its topic says.
EveryFirstPost(p, q) == q.word /\ p = FirstPost(posts[p].topic)

\* The first post of a topic that is itself among the results of a word.
BehindItsTopic(p, q) ==
    q.word /\ p = FirstPost(posts[p].topic) /\ Matches(topic[posts[p].topic], q)

PostHits(who, q) ==
    {Hit("post", p, posts[p]) :
        p \in {s \in DOMAIN posts : PostSeen(who, s) /\ Matches(posts[s], q) /\ ~BehindItsTopic(s, q)}}

\* Newest first; of one time the topics, then the larger id.
Newer(x, y) ==
    \/ x.at > y.at
    \/ x.at = y.at /\ x.kind = "topic" /\ y.kind = "post"
    \/ x.at = y.at /\ x.kind = y.kind /\ x.id > y.id
Better(x, y, q) ==
    IF q.word /\ x.words # y.words THEN x.words > y.words ELSE Newer(x, y)

\* The first so many of a set of rows.
FirstOf(hits, size, Precedes(_, _)) ==
    {x \in hits : Cardinality({y \in hits : Precedes(y, x)}) < size}

\* Mutation of the statement: rank chooses the window, too.
BestInWindow(candidates, q) == FirstOf(candidates, SearchWindow, LAMBDA x, y : Better(x, y, q))

\* Rank orders the newest rows, and does not choose them.
Rankable(candidates, q) == FirstOf(candidates, SearchWindow, Newer)

\* Mutation of the second reading: hidden topics are left out for staff, too.
SelectedOpen(who, x, q) ==
    LET t == IF x.kind = "topic" THEN x.id ELSE posts[x.id].topic
        row == IF x.kind = "topic" THEN topic[x.id] ELSE posts[x.id]
    IN topic[t].state # "hidden" /\ AreaSeen(who, t) /\ (q.word => row.words > 0)

\* The second reading of a row, in the same snapshot.
Selected(who, x, q) ==
    IF x.kind = "topic" THEN TopicSeen(who, x.id) /\ (q.word => topic[x.id].words > 0)
    ELSE PostSeen(who, x.id) /\ (q.word => posts[x.id].words > 0)

\* The two pages of an answer.
Search(who, q) ==
    LET candidates == FirstOf(TopicHits(who, q) \cup PostHits(who, q), SearchWindow + 1, Newer)
        rankable == Rankable(candidates, q)
        first == FirstOf(rankable, SearchPageSize, LAMBDA x, y : Better(x, y, q))
    IN [pages |-> <<first, rankable \ first>>,
        has_next |-> Cardinality(candidates) > SearchPageSize,
        beyond_window |-> Cardinality(candidates) > SearchWindow]

\* A second page without rows is not found; a row that changed is an error.
SearchPage(who, q, page) ==
    IF \E x \in page : ~Selected(who, x, q) THEN "unavailable"
    ELSE IF page = {} THEN "nothing"
    ELSE "page"

\* The page of one post.
GetDirectPost(who, p) ==
    IF ~PostSeen(who, p) THEN "not found"
    ELSE IF posts[p].updated_at < posts[p].at THEN "unavailable"
    ELSE "page"

-----------------------------------------------------------------------------
(* Cursors. *)

\* Mutation of issuance: the key's window is not looked at.
IssueAlways == TRUE

\* The process issues cursors with its active key alone, in that key's window.
Issuing == clock >= NotBefore[ring.active] /\ clock <= IssueNotAfter[ring.active]

VerifyCursor(cursor) ==
    /\ cursor.key \in {ring.active, ring.previous}
    /\ cursor.issued >= NotBefore[cursor.key] /\ cursor.issued <= IssueNotAfter[cursor.key]

\* Mutation of the retirement: it does not wait for the age of a cursor.
RetireWithTheWindow(cursor) ==
    /\ cursor.issued <= clock + FutureSkew
    /\ clock - cursor.issued <= MaximumAge
    /\ cursor.key = ring.previous => clock <= IssueNotAfter[cursor.key] + FutureSkew

ValidateTime(cursor) ==
    /\ cursor.issued <= clock + FutureSkew
    /\ clock - cursor.issued <= MaximumAge
    /\ cursor.key = ring.previous => clock <= IssueNotAfter[cursor.key] + MaximumAge + FutureSkew

BindAudience(cursor, who) == cursor.audience = who

-----------------------------------------------------------------------------
(* Activity: a walk through all posts, newest first. *)

Before(p, q) ==   \* (created_at, id) of p is smaller
    posts[p].at < posts[q].at \/ (posts[p].at = posts[q].at /\ p < q)
Listed(who) == {p \in DOMAIN posts : PostSeen(who, p)}

ListRecentActivityInitial(who) == Listed(who)

\* Mutation of the statement: posts of the boundary's time are taken as shown.
AfterItsTime(who, cursor) == {p \in Listed(who) : posts[p].at < posts[cursor.post].at}

ListRecentActivityAfter(who, cursor) == {p \in Listed(who) : Before(p, cursor.post)}

\* The i-th of some posts, newest first.
Newest(left, i) == CHOOSE p \in left : Cardinality({q \in left : Before(p, q)}) = i - 1

\* What is left, newest first, no more than the page and one that tells there is more.
QueryRows(who, cursor) ==
    LET left == IF cursor = NoCursor THEN ListRecentActivityInitial(who)
                ELSE ListRecentActivityAfter(who, cursor)
    IN [i \in 1..Min({Cardinality(left), ActivityPageSize + 1}) |-> Newest(left, i)]

EncodeCursor(p) ==
    [post |-> p, key |-> ring.active, issued |-> clock, audience |-> walk.actor]

\* Mutation of the boundary: it is the row that is not shown.
BoundaryIsTheExtraRow(page) ==
    IF Len(page) > ActivityPageSize THEN EncodeCursor(page[ActivityPageSize + 1]) ELSE NoCursor

\* The last row that is shown, when there is more.
NextCursor(page) ==
    IF Len(page) > ActivityPageSize THEN EncodeCursor(page[ActivityPageSize]) ELSE NoCursor

\* The preflight verifies a cursor before the session is looked up; the reader
\* acts with the authority of that moment until the request ends.
AskPage(cursor) ==
    /\ walk' = IF cursor # NoCursor /\ ~VerifyCursor(cursor) THEN [walk EXCEPT !.step = "refused"]
               ELSE [walk EXCEPT !.step = "asked", !.actor = authority, !.cursor = cursor,
                                 !.shown = IF cursor = NoCursor THEN <<>> ELSE @]
    /\ UNCHANGED <<clock, behind, rows, authority, ring>>

AskFirst == walk.step \in {"idle", "ended", "refused"} /\ AskPage(NoCursor)
AskNext == walk.step = "page" /\ AskPage(walk.cursor)

\* The request that fails is asked again with the same cursor.
Retry == [walk EXCEPT !.step = IF walk.cursor = NoCursor THEN "idle" ELSE "page"]

\* One snapshot: the clock, the checks of the cursor, the page, the next cursor.
RecentActivity ==
    /\ walk.step = "asked"
    /\ LET page == QueryRows(walk.actor, walk.cursor)
           visible == SubSeq(page, 1, Min({Len(page), ActivityPageSize}))
           next == NextCursor(page)
       IN walk' =
            IF ~Issuing THEN Retry
            ELSE IF walk.cursor # NoCursor
                      /\ ~(ValidateTime(walk.cursor) /\ BindAudience(walk.cursor, walk.actor))
              THEN [walk EXCEPT !.step = "refused"]
            ELSE [walk EXCEPT !.step = IF next = NoCursor THEN "ended" ELSE "page",
                              !.cursor = next, !.shown = @ \o visible]
    /\ UNCHANGED <<clock, behind, rows, authority, ring>>

\* A deadline, a busy board, an answer that is lost.
Fail ==
    /\ walk.step = "asked" /\ walk' = Retry
    /\ UNCHANGED <<clock, behind, rows, authority, ring>>

-----------------------------------------------------------------------------
(* Around it.  What the other services write, one transaction each. *)

others == <<authority, ring, walk>>
Latest(t) == Max({clock} \cup {posts[p].at : p \in {q \in DOMAIN posts : posts[q].topic = t}})

Row(t, a, words) ==
    [topic |-> t, author |-> a, at |-> Latest(t), updated_at |-> Latest(t), words |-> words, state |-> "shown"]

PublishTopic(t, a, title, body) ==
    /\ topic[t] = Absent /\ Len(posts) < MaxPosts
    /\ topic' = [topic EXCEPT ![t] = [state |-> "open", words |-> title, at |-> clock, author |-> a]]
    /\ posts' = Append(posts, Row(t, a, body))
    /\ UNCHANGED <<clock, behind, visibility, others>>

Reply(t, a, body) ==
    /\ topic[t] # Absent /\ topic[t].state = "open" /\ Len(posts) < MaxPosts
    /\ posts' = Append(posts, Row(t, a, body))
    /\ UNCHANGED <<clock, behind, visibility, topic, others>>

\* Mutation of the statement: the time of a change is the clock's.
ChangedNow(p) == clock
ChangedAt(p) == Max({clock, posts[p].updated_at})

EditPost(p, body) ==
    /\ posts[p].state = "shown"
    /\ posts' = [posts EXCEPT ![p].words = body, ![p].updated_at = ChangedAt(p)]
    /\ UNCHANGED <<clock, behind, visibility, topic, others>>

\* The author deletes a post, or staff hide or restore it.
ChangePostVisibility(p) ==
    /\ posts[p].state # "redacted"
    /\ posts' = [posts EXCEPT ![p].state = IF @ = "shown" THEN "deleted" ELSE "shown",
                              ![p].updated_at = ChangedAt(p)]
    /\ UNCHANGED <<clock, behind, visibility, topic, others>>

RedactPost(p) ==
    /\ posts[p].state = "shown"
    /\ posts' = [posts EXCEPT ![p].state = "redacted", ![p].words = 0, ![p].updated_at = ChangedAt(p)]
    /\ UNCHANGED <<clock, behind, visibility, topic, others>>

ChangeTopicState(t, state) ==
    /\ topic[t] # Absent /\ topic[t].state # state
    /\ topic' = [topic EXCEPT ![t].state = state]
    /\ UNCHANGED <<clock, behind, visibility, posts, others>>

ChangeArea(t, v) ==
    /\ visibility[t] # v /\ visibility' = [visibility EXCEPT ![t] = v]
    /\ UNCHANGED <<clock, behind, topic, posts, others>>

ChangeAuthority(who) ==
    /\ authority # who /\ authority' = who
    /\ UNCHANGED <<clock, behind, rows, ring, walk>>

Tick ==
    /\ clock < MaxTime /\ clock' = clock + 1
    /\ UNCHANGED <<behind, rows, others>>

\* A correction of the clock, once, no larger than what cursors allow for.
StepBack ==
    /\ ~behind /\ clock >= FutureSkew
    /\ behind' = TRUE /\ clock' = clock - FutureSkew
    /\ UNCHANGED <<rows, others>>

\* The operator replaces the file and restarts the process, which ends the
\* request in flight.  One previous key is kept; it goes when no cursor of its
\* window can be young enough any more.
Restart(active, previous) ==
    /\ ring' = [active |-> active, previous |-> previous]
    /\ walk' = IF walk.step = "asked" THEN Retry ELSE walk
    /\ UNCHANGED <<clock, behind, rows, authority>>
RotateKey == ring.previous = NoKey /\ ring.active + 1 \in Keys /\ Restart(ring.active + 1, ring.active)
RetireKey ==
    /\ ring.previous # NoKey /\ clock > IssueNotAfter[ring.previous] + MaximumAge + FutureSkew
    /\ Restart(ring.active, NoKey)

Step ==
    \/ AskFirst \/ AskNext \/ RecentActivity \/ Fail
    \/ \E t \in Topics, a \in Authors, body \in 0..MaxWords :
         Reply(t, a, body) \/ \E title \in 0..MaxWords : PublishTopic(t, a, title, body)
    \/ \E p \in DOMAIN posts :
         ChangePostVisibility(p) \/ RedactPost(p) \/ \E body \in 0..MaxWords : EditPost(p, body)
    \/ \E t \in Topics :
         (\E s \in {"open", "hidden"} : ChangeTopicState(t, s)) \/ \E v \in Visibilities : ChangeArea(t, v)
    \/ \E who \in Authorities : ChangeAuthority(who)
    \/ Tick \/ StepBack \/ RotateKey \/ RetireKey

\* A walk begins with what its first page is taken from, and keeps what its
\* reader could see ever since.
Remember ==
    IF walk.step = "asked" /\ walk.cursor = NoCursor /\ walk'.step \in {"page", "ended"}
      THEN stayed' = Listed(walk.actor)
    ELSE IF walk.step \in {"page", "asked"} /\ walk.cursor # NoCursor /\ walk'.step # "refused"
      THEN \E who \in {walk.cursor.audience} : stayed' = stayed \cap Listed(who)'
    ELSE stayed' = {}

Next == Step /\ Remember

Spec == Init /\ [][Next]_vars

-----------------------------------------------------------------------------
(* Properties. *)

FoundAs(kind, id, found) == \E x \in found : x.kind = kind /\ x.id = id

\* Search.  Every row of a page passes its second reading, and the first page
\* leads to a second one exactly when that has rows.  The two pages show every
\* post that the reader may see and that matches, a first post by itself or by
\* its topic but not by both; of more results than the window holds they show
\* the newest, whatever their rank.
SearchIsExact ==
    \A who \in Authorities, q \in Requests :
        LET answer == Search(who, q)
            found == answer.pages[1] \cup answer.pages[2]
            hits == {p \in DOMAIN posts : PostSeen(who, p) /\ Matches(posts[p], q)}
        IN /\ \A n \in 1..2 : SearchPage(who, q, answer.pages[n]) # "unavailable"
           /\ (answer.pages[2] # {}) <=> answer.has_next
           /\ \A p \in hits :
                LET t == posts[p].topic IN
                \/ FoundAs("post", p, found)
                \/ p = FirstPost(t) /\ FoundAs("topic", t, found)
                \/ answer.beyond_window /\ \A x \in found : x.at >= posts[p].at
           /\ q.word => \A t \in Topics : FoundAs("topic", t, found) => ~FoundAs("post", FirstPost(t), found)
           /\ answer.beyond_window => Cardinality(found) = SearchWindow

\* Every post that is listed has a page, whatever the clock did between its
\* publication and its changes.
LinksAreServed ==
    \A who \in Authorities : \A p \in Listed(who) : GetDirectPost(who, p) = "page"

\* A walk shows each post once, newest first, and leaves out none that its
\* reader could see all the time, however posts come and go meanwhile.
WalkShowsEverything ==
    /\ \A i \in 2..Len(walk.shown) : Before(walk.shown[i], walk.shown[i - 1])
    /\ walk.step = "page" =>
         {p \in stayed : ~Before(p, walk.cursor.post)} \subseteq ToSet(walk.shown)
    /\ walk.step = "ended" => stayed \subseteq ToSet(walk.shown)

\* A cursor is refused only when the reader's authority changed or when it is
\* too old: neither the replacement of keys nor a correction of the clock
\* breaks a walk.
CursorIsHonoured ==
    [][walk'.step = "refused" /\ walk.step # "refused" =>
        \/ clock - walk.cursor.issued > MaximumAge
        \/ walk.step = "asked" /\ walk.actor # walk.cursor.audience]_vars
=============================================================================
