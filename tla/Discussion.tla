----------------------------- MODULE Discussion -----------------------------
(***************************************************************************)
(* Topics and posts.  Members publish topics and replies, authors edit and *)
(* delete their posts, staff move, lock, hide and redact, and meanwhile    *)
(* accounts are muted, suspended and demoted and areas change their mode.  *)
(*                                                                         *)
(* A call is a record in task.  staff is the role its session had; the     *)
(* steps name the rows it has locked so far: "actor" the user, "target"    *)
(* the user, the topic, the area and the parent, "post" the post.  What a  *)
(* transaction locks last it locks in the step that commits it.            *)
(***************************************************************************)
EXTENDS Naturals, Sequences, FiniteSets

CONSTANTS
    Users, Staff,        \* accounts, and those that begin as moderators
    Areas,
    Slots,               \* slots for calls that run concurrently
    PublicationWindow,   \* length of a publication window
    NewAccountPeriod,    \* age below which an account is new
    NewAccountLimit, PublicationLimit,
    MaximumReplyDepth,
    MaxTime, MaxTopics, MaxPosts, MaxRevision   \* bounds

ASSUME PolicyAssumption ==
    /\ PublicationWindow \in Nat \ {0} /\ NewAccountPeriod \in Nat
    /\ NewAccountLimit \in 1..PublicationLimit /\ PublicationLimit \in Nat
    /\ MaximumReplyDepth \in Nat \ {0} /\ Staff \subseteq Users
ASSUME BoundsAssumption ==
    MaxTime \in Nat /\ MaxTopics \in Nat /\ MaxPosts \in Nat /\ MaxRevision \in Nat \ {0}

VARIABLES
    now,       \* the database's clock, which may step back
    account,   \* roles, and whether a mute or a suspension is in force
    window,    \* users.publication_window_started_at and publication_count
    mode,      \* areas.posting_mode
    topics,    \* rows of topics
    posts,     \* rows of posts
    task       \* what each slot is doing

vars == <<now, account, window, mode, topics, posts, task>>
people == <<account, window>>

Free == [kind |-> "free"]
States == {"open", "locked", "hidden"}   \* nothing makes a topic 'archived'
Modes == {"normal", "read_only", "archived"}
TopicActions == {"lock", "unlock", "hide", "restore"}
Pinning == {"pin", "unpin"}
PostActions == {"hide_post", "restore_post", "redact_post"}
Moderation == TopicActions \cup Pinning \cup PostActions \cup {"move"}

Windows == [start : 0..MaxTime, count : 0..PublicationLimit]
TopicRows == [area : Areas, state : States, latest : 1..MaxPosts, replies : 0..MaxPosts,
              next : 2..MaxPosts + 1, activity : 0..MaxTime, pinned : BOOLEAN]
\* text counts the bodies the post has had; charged is the window the post was
\* admitted to.  Neither is a column.
PostRows == [topic : 1..MaxTopics, number : 1..MaxPosts, parent : 0..MaxPosts,
             depth : 1..MaximumReplyDepth, author : Users, at : 0..MaxTime, charged : 0..MaxTime,
             deleted : BOOLEAN, redacted : BOOLEAN, revision : 1..MaxRevision, text : 1..MaxRevision]
Calls ==
    [kind : {"topic"}, step : {"begin", "actor"}, user : Users, staff : BOOLEAN,
     area : Areas, window : Windows]
    \cup [kind : {"reply"}, step : {"begin", "actor", "target"}, user : Users, staff : BOOLEAN,
          post : 1..MaxPosts, window : Windows]
    \cup [kind : {"edit", "delete"}, step : {"begin", "post"}, user : Users, staff : BOOLEAN,
          post : 1..MaxPosts, revision : 1..MaxRevision, text : 1..MaxRevision]
    \cup [kind : TopicActions \cup Pinning, step : {"begin", "actor"}, user : Users, staff : {TRUE},
          topic : 1..MaxTopics]
    \cup [kind : {"move"}, step : {"begin", "actor"}, user : Users, staff : {TRUE},
          topic : 1..MaxTopics, area : Areas]
    \cup [kind : PostActions, step : {"begin", "actor"}, user : Users, staff : {TRUE},
          post : 1..MaxPosts]

TypeOK ==
    /\ now \in 0..MaxTime
    /\ account \in [Users -> [staff : BOOLEAN, barred : BOOLEAN]]
    /\ window \in [Users -> Windows]
    /\ mode \in [Areas -> Modes]
    /\ topics \in Seq(TopicRows) /\ Len(topics) <= MaxTopics
    /\ posts \in Seq(PostRows) /\ Len(posts) <= MaxPosts
    /\ task \in [Slots -> {Free} \cup Calls]

Init ==
    /\ now = 0
    /\ account = [u \in Users |-> [staff |-> u \in Staff, barred |-> FALSE]]
    /\ window = [u \in Users |-> [start |-> 0, count |-> 0]]
    /\ mode = [a \in Areas |-> "normal"]
    /\ topics = <<>> /\ posts = <<>>
    /\ task = [t \in Slots |-> Free]

TopicOf(t) == IF "topic" \in DOMAIN task[t] THEN task[t].topic ELSE posts[task[t].post].topic
Replying(t) == task[t].kind = "reply" /\ task[t].step = "target"

UserLocked(u) ==
    \E t \in Slots : task[t] # Free /\ task[t].user = u /\ task[t].step \in {"actor", "target"}
TopicLocked(k) == \E t \in Slots : Replying(t) /\ TopicOf(t) = k
AreaShared(a) == \E t \in Slots : Replying(t) /\ topics[TopicOf(t)].area = a
PostShared(p) == \E t \in Slots : Replying(t) /\ task[t].post = p
PostLocked(p) == \E t \in Slots : task[t] # Free /\ task[t].step = "post" /\ task[t].post = p

At(t, kinds, step) == task[t] # Free /\ task[t].kind \in kinds /\ task[t].step = step
Move(t, step) == task' = [task EXCEPT ![t].step = step]
Begin(t, call) == task[t] = Free /\ task' = [task EXCEPT ![t] = call]
End(t) == task' = [task EXCEPT ![t] = Free]

\* An error, a refusal, a lock timeout, a deadlock's victim or a process that
\* stops: nothing of the transaction stays.
Rollback(t) ==
    /\ task[t] # Free
    /\ End(t)
    /\ UNCHANGED <<now, people, mode, topics, posts>>

-----------------------------------------------------------------------------
(* Publishing. *)

StartTopic(t, u, a) ==
    /\ ~account[u].barred
    /\ Begin(t, [kind |-> "topic", step |-> "begin", user |-> u, staff |-> account[u].staff,
                 area |-> a, window |-> window[u]])
    /\ UNCHANGED <<now, people, mode, topics, posts>>

StartReply(t, u, p) ==
    /\ ~account[u].barred
    /\ Begin(t, [kind |-> "reply", step |-> "begin", user |-> u, staff |-> account[u].staff,
                 post |-> p, window |-> window[u]])
    /\ UNCHANGED <<now, people, mode, topics, posts>>

\* Mutation of the transaction: the session of the request is trusted.
TrustSession(t) ==
    /\ At(t, {"topic", "reply"}, "begin")
    /\ ~UserLocked(task[t].user)
    /\ task' = [task EXCEPT ![t].step = "actor", ![t].window = window[task[t].user]]
    /\ UNCHANGED <<now, people, mode, topics, posts>>

\* Mutation of the statement: the row is read without a lock, and the window is
\* the one the request had seen.
ReadActor(t) ==
    /\ At(t, {"topic", "reply"}, "begin")
    /\ ~account[task[t].user].barred /\ account[task[t].user].staff = task[t].staff
    /\ Move(t, "actor")
    /\ UNCHANGED <<now, people, mode, topics, posts>>

\* The statements that lock the actor's row.  The first finds accepted
\* accounts only; a bar stands for a mute, a suspension and for what a
\* suspension makes of the identity.
LockPublicationActor(u) == ~UserLocked(u) /\ ~account[u].barred
LockUserForSuspension(u) == ~UserLocked(u)

\* The account must be active and have the role of the session; the window
\* is the one of the locked row.
lockPublicationActor(t) ==
    LET u == task[t].user IN
    /\ At(t, {"topic", "reply"}, "begin") /\ LockPublicationActor(u)
    /\ account[u].staff = task[t].staff
    /\ task' = [task EXCEPT ![t].step = "actor", ![t].window = window[u]]
    /\ UNCHANGED <<now, people, mode, topics, posts>>

CanCreateTopic(staff, a) == mode[a] = "normal" \/ (mode[a] = "read_only" /\ staff)
CanReply(staff, k) ==
    CanCreateTopic(staff, topics[k].area) /\ (topics[k].state = "open" \/ staff)

\* Mutation of the decision: one publication too many.
AdmitOneMore(w) ==
    LET limit == IF now < NewAccountPeriod THEN NewAccountLimit ELSE PublicationLimit
        elapsed == w.count = 0 \/ w.start + PublicationWindow <= now
    IN IF elapsed THEN {[start |-> now, count |-> 1]}
       ELSE IF w.count > limit THEN {}
       ELSE {[w EXCEPT !.count = @ + 1]}

\* The windows that may replace w, none when the publication is refused.
\* Accounts are as old as the clock.
DecidePublication(w) ==
    LET limit == IF now < NewAccountPeriod THEN NewAccountLimit ELSE PublicationLimit
        elapsed == w.count = 0 \/ w.start + PublicationWindow <= now
        regressed == w.start > now + PublicationWindow
    IN IF elapsed THEN {[start |-> now, count |-> 1]}
       ELSE IF regressed \/ w.count >= limit THEN {}
       ELSE {[w EXCEPT !.count = @ + 1]}

Later(a, b) == IF a > b THEN a ELSE b

NewPost(t, w, k, number, parent, depth, at) ==
    [topic |-> k, number |-> number, parent |-> parent, depth |-> depth,
     author |-> task[t].user, at |-> at, charged |-> w.start,
     deleted |-> FALSE, redacted |-> FALSE, revision |-> 1, text |-> 1]

ReplacePublicationWindow(u, w) == window' = [window EXCEPT ![u] = w]

CreateTopicAndFirstPost(t, w) ==
    /\ posts' = Append(posts, NewPost(t, w, Len(topics) + 1, 1, 0, 1, now))
    /\ topics' = Append(topics, [area |-> task[t].area, state |-> "open", latest |-> Len(posts) + 1,
                                 replies |-> 0, next |-> 2, activity |-> now, pinned |-> FALSE])

\* The area is locked against changes and its mode is asked for.
createTopic(t) ==
    /\ At(t, {"topic"}, "actor")
    /\ Len(topics) < MaxTopics /\ Len(posts) < MaxPosts
    /\ CanCreateTopic(task[t].staff, task[t].area)
    /\ \E w \in DecidePublication(task[t].window) :
         ReplacePublicationWindow(task[t].user, w) /\ CreateTopicAndFirstPost(t, w)
    /\ End(t)
    /\ UNCHANGED <<now, account, mode>>

\* Mutation of the statement: the parent is not looked at again.
LockTopicOnly(t) ==
    /\ At(t, {"reply"}, "actor")
    /\ LET k == posts[task[t].post].topic IN ~TopicLocked(k) /\ CanReply(task[t].staff, k)
    /\ posts[task[t].post].depth < MaximumReplyDepth
    /\ Move(t, "target")
    /\ UNCHANGED <<now, people, mode, topics, posts>>

LockTopicForReply(t) ==
    /\ At(t, {"reply"}, "actor")
    /\ LET p == task[t].post
           k == posts[p].topic
       IN /\ ~TopicLocked(k) /\ ~PostLocked(p)
          /\ ~posts[p].deleted /\ posts[p].depth < MaximumReplyDepth
          /\ CanReply(task[t].staff, k)
    /\ Move(t, "target")
    /\ UNCHANGED <<now, people, mode, topics, posts>>

\* Mutation of the statement: the time is not held back by the topic's activity.
CreateReplyAtClock(t, w) ==
    LET k == TopicOf(t) IN
    /\ posts' = Append(posts, NewPost(t, w, k, topics[k].next, task[t].post,
                                      posts[task[t].post].depth + 1, now))
    /\ topics' = [topics EXCEPT ![k].latest = Len(posts) + 1, ![k].replies = @ + 1,
                                ![k].next = @ + 1, ![k].activity = now]

CreateReplyAndAdvanceTopic(t, w) ==
    LET k == TopicOf(t)
        number == topics[k].next
        at == Later(now, topics[k].activity)
    IN /\ posts' = Append(posts, NewPost(t, w, k, number, task[t].post,
                                         posts[task[t].post].depth + 1, at))
       /\ topics' = [topics EXCEPT ![k].latest = Len(posts) + 1, ![k].replies = number - 1,
                                   ![k].next = number + 1, ![k].activity = at]

createReply(t) ==
    /\ Replying(t) /\ Len(posts) < MaxPosts
    /\ \E w \in DecidePublication(task[t].window) :
         ReplacePublicationWindow(task[t].user, w) /\ CreateReplyAndAdvanceTopic(t, w)
    /\ End(t)
    /\ UNCHANGED <<now, account, mode>>

-----------------------------------------------------------------------------
(* Editing and deleting.  The authority is that of the request. *)

CanViewTopic(staff, k) == topics[k].state # "hidden" \/ staff

\* The form is shown to the author, for a post that is in sight.
GetEditablePost(u, p) ==
    posts[p].author = u /\ ~posts[p].deleted /\ CanViewTopic(account[u].staff, posts[p].topic)

\* It carries the revision the author was shown.
StartChange(t, kind, p) ==
    LET u == posts[p].author IN
    /\ ~account[u].barred /\ GetEditablePost(u, p)
    /\ Begin(t, [kind |-> kind, step |-> "begin", user |-> u, staff |-> account[u].staff,
                 post |-> p, revision |-> posts[p].revision, text |-> posts[p].text])
    /\ UNCHANGED <<now, people, mode, topics, posts>>

\* The statement locks the post and then waits for its topic.
LockPostForEdit(t) ==
    /\ At(t, {"edit", "delete"}, "begin")
    /\ LET p == task[t].post IN ~PostLocked(p) /\ ~PostShared(p) /\ ~posts[p].deleted
    /\ Move(t, "post")
    /\ UNCHANGED <<now, people, mode, topics, posts>>

\* Mutation of the comparison: the revision of the form is not compared.
CanViewPost(t) ==
    ~TopicLocked(TopicOf(t)) /\ CanViewTopic(task[t].staff, TopicOf(t))

\* What both check once they hold the post and share its topic.
CanChangePost(t) ==
    /\ ~TopicLocked(TopicOf(t)) /\ CanViewTopic(task[t].staff, TopicOf(t))
    /\ posts[task[t].post].revision = task[t].revision

UpdatePostRevision(p) ==
    posts' = [posts EXCEPT ![p].revision = @ + 1, ![p].text = @ + 1]

EditPost(t) ==
    /\ At(t, {"edit"}, "post") /\ CanChangePost(t)
    /\ posts[task[t].post].revision < MaxRevision
    /\ UpdatePostRevision(task[t].post)
    /\ End(t)
    /\ UNCHANGED <<now, people, mode, topics>>

SoftDeletePost(p) == posts' = [posts EXCEPT ![p].deleted = TRUE]

DeletePost(t) ==
    /\ At(t, {"delete"}, "post") /\ CanChangePost(t)
    /\ SoftDeletePost(task[t].post)
    /\ End(t)
    /\ UNCHANGED <<now, people, mode, topics>>

-----------------------------------------------------------------------------
(* Moderation. *)

Staffer(u) == account[u].staff /\ ~account[u].barred

StartTopicAction(t, u, kind, k) ==
    /\ Staffer(u)
    /\ Begin(t, [kind |-> kind, step |-> "begin", user |-> u, staff |-> TRUE, topic |-> k])
    /\ UNCHANGED <<now, people, mode, topics, posts>>

StartMove(t, u, k, a) ==
    /\ Staffer(u)
    /\ Begin(t, [kind |-> "move", step |-> "begin", user |-> u, staff |-> TRUE, topic |-> k, area |-> a])
    /\ UNCHANGED <<now, people, mode, topics, posts>>

StartPostAction(t, u, kind, p) ==
    /\ Staffer(u)
    /\ Begin(t, [kind |-> kind, step |-> "begin", user |-> u, staff |-> TRUE, post |-> p])
    /\ UNCHANGED <<now, people, mode, topics, posts>>

\* Every transaction begins with the actor's row, and asks of it what the
\* handler asked of the session.
LockModerator(t) ==
    LET u == task[t].user IN
    /\ At(t, Moderation, "begin") /\ LockUserForSuspension(u) /\ Staffer(u)
    /\ Move(t, "actor")
    /\ UNCHANGED <<now, people, mode, topics, posts>>

LockTopicForModeration(k) == ~TopicLocked(k)

Transition ==
    [lock    |-> <<"open", "locked">>,   unlock  |-> <<"locked", "open">>,
     hide    |-> <<"open", "hidden">>,   restore |-> <<"hidden", "open">>]

ChangeTopicStateAndAudit(k, state) == topics' = [topics EXCEPT ![k].state = state]

changeTopicState(t) ==
    LET k == task[t].topic IN
    /\ At(t, TopicActions, "actor") /\ LockTopicForModeration(k)
    /\ topics[k].state = Transition[task[t].kind][1]
    /\ ChangeTopicStateAndAudit(k, Transition[task[t].kind][2])
    /\ End(t)
    /\ UNCHANGED <<now, people, mode, posts>>

ChangeTopicPinAndAudit(k, pin) == topics' = [topics EXCEPT ![k].pinned = pin]

\* A pin has a time, so that a topic is not pinned twice.
pinTopic(t) ==
    LET k == task[t].topic IN
    /\ At(t, Pinning, "actor") /\ LockTopicForModeration(k)
    /\ topics[k].state # "hidden" /\ topics[k].pinned = (task[t].kind = "unpin")
    /\ ChangeTopicPinAndAudit(k, task[t].kind = "pin")
    /\ End(t)
    /\ UNCHANGED <<now, people, mode, posts>>

MoveTopicAndAudit(k, a) == topics' = [topics EXCEPT ![k].area = a]

\* Both areas are locked, in the order of their ids.
moveTopic(t) ==
    LET k == task[t].topic
        a == task[t].area
    IN
    /\ At(t, {"move"}, "actor") /\ LockTopicForModeration(k)
    /\ topics[k].area # a /\ mode[a] # "archived"
    /\ ~AreaShared(a) /\ ~AreaShared(topics[k].area)
    /\ MoveTopicAndAudit(k, a)
    /\ End(t)
    /\ UNCHANGED <<now, people, mode, posts>>

\* The post is locked and its topic is not.
LockPostForModeration(p) == ~PostLocked(p) /\ ~PostShared(p)

\* Mutation of the check: redacted posts can be restored.
CanHideOrShow(p, hide) == posts[p].deleted = ~hide

CanChangeVisibility(p, hide) == ~posts[p].redacted /\ posts[p].deleted = ~hide

ChangePostVisibilityAndAudit(p, hide) == posts' = [posts EXCEPT ![p].deleted = hide]
RedactPostAndAudit(p) ==
    posts' = [posts EXCEPT ![p].deleted = TRUE, ![p].redacted = TRUE,
                           ![p].revision = @ + 1, ![p].text = @ + 1]

applyPostAction(t) ==
    LET p == task[t].post IN
    /\ At(t, PostActions, "actor") /\ LockPostForModeration(p)
    /\ \/ /\ task[t].kind = "redact_post"
          /\ ~posts[p].deleted /\ ~posts[p].redacted /\ posts[p].revision < MaxRevision
          /\ RedactPostAndAudit(p)
       \/ \E hide \in BOOLEAN :
            /\ task[t].kind = (IF hide THEN "hide_post" ELSE "restore_post")
            /\ CanChangeVisibility(p, hide)
            /\ ChangePostVisibilityAndAudit(p, hide)
    /\ End(t)
    /\ UNCHANGED <<now, people, mode, topics>>

-----------------------------------------------------------------------------
(* Around the discussion: clock, accounts and areas. *)

ClockMoves ==
    /\ now' \in {now + 1} \cup (IF now > 0 THEN {now - 1} ELSE {}) /\ now' <= MaxTime
    /\ UNCHANGED <<people, mode, topics, posts, task>>

\* A mute or a suspension locks the account's row.
Bar(u) ==
    /\ ~account[u].barred /\ ~UserLocked(u)
    /\ account' = [account EXCEPT ![u].barred = TRUE]
    /\ UNCHANGED <<now, window, mode, topics, posts, task>>

\* It ends by itself, or by a reinstatement.
Unbar(u) ==
    /\ account[u].barred
    /\ account' = [account EXCEPT ![u].barred = FALSE]
    /\ UNCHANGED <<now, window, mode, topics, posts, task>>

ChangeRole(u) ==
    /\ ~UserLocked(u)
    /\ account' = [account EXCEPT ![u].staff = ~@]
    /\ UNCHANGED <<now, window, mode, topics, posts, task>>

UpdateArea(a, m) ==
    /\ mode[a] # m /\ ~AreaShared(a)
    /\ mode' = [mode EXCEPT ![a] = m]
    /\ UNCHANGED <<now, people, topics, posts, task>>

-----------------------------------------------------------------------------

Next ==
    \/ ClockMoves
    \/ \E u \in Users : Bar(u) \/ Unbar(u) \/ ChangeRole(u)
    \/ \E a \in Areas, m \in Modes : UpdateArea(a, m)
    \/ \E t \in Slots :
         \/ \E u \in Users, a \in Areas : StartTopic(t, u, a)
         \/ \E u \in Users, p \in DOMAIN posts : StartReply(t, u, p)
         \/ \E kind \in {"edit", "delete"}, p \in DOMAIN posts : StartChange(t, kind, p)
         \/ \E u \in Users, kind \in TopicActions \cup Pinning, k \in DOMAIN topics : StartTopicAction(t, u, kind, k)
         \/ \E u \in Users, k \in DOMAIN topics, a \in Areas : StartMove(t, u, k, a)
         \/ \E u \in Users, kind \in PostActions, p \in DOMAIN posts : StartPostAction(t, u, kind, p)
         \/ lockPublicationActor(t) \/ createTopic(t)
         \/ LockTopicForReply(t) \/ createReply(t)
         \/ LockPostForEdit(t) \/ EditPost(t) \/ DeletePost(t)
         \/ LockModerator(t) \/ changeTopicState(t) \/ pinTopic(t) \/ moveTopic(t) \/ applyPostAction(t)
         \/ Rollback(t)

Spec == Init /\ [][Next]_vars

-----------------------------------------------------------------------------
(* Properties. *)

\* Numbers are given out without gaps or repetitions, whatever is hidden or
\* deleted; the topic's pointers and counters agree with its posts; and no post
\* is older than the one before it, although the clock may step back.
ThreadIsConsistent ==
    \A k \in DOMAIN topics :
      LET thread == {p \in DOMAIN posts : posts[p].topic = k} IN
      /\ {posts[p].number : p \in thread} = 1..Cardinality(thread)
      /\ topics[k].replies = Cardinality(thread) - 1 /\ topics[k].next = Cardinality(thread) + 1
      /\ posts[topics[k].latest].topic = k /\ posts[topics[k].latest].number = Cardinality(thread)
      /\ posts[topics[k].latest].at = topics[k].activity
      /\ \A p, q \in thread : posts[p].number < posts[q].number => posts[p].at <= posts[q].at

\* However many of an account's publications run at once, and also when the
\* clock steps back, one window admits at most the limit, and two windows begin
\* at least one window apart.
WindowLimit ==
    \A p \in DOMAIN posts :
      LET mine == {q \in DOMAIN posts : posts[q].author = posts[p].author} IN
      /\ Cardinality({q \in mine : posts[q].charged = posts[p].charged}) <= PublicationLimit
      /\ \A q \in mine : posts[q].charged > posts[p].charged =>
           posts[q].charged >= posts[p].charged + PublicationWindow

Commits(t) == task[t] # Free /\ task'[t] = Free /\ <<topics, posts>>' # <<topics, posts>>

\* Whoever publishes or moderates is, when it commits, active and in the role
\* of the session, and a moderator is staff.
AuthorityAtCommit ==
    [][\A t \in Slots : Commits(t) /\ task[t].kind \notin {"edit", "delete"} =>
         LET u == account[task[t].user] IN
         ~u.barred /\ u.staff = task[t].staff /\ (task[t].kind \in Moderation => u.staff)]_vars

\* A reply is committed to a topic and an area that still take it, under a
\* parent that is still there, although all three were found before.
RepliesFindTheirPlace ==
    [][\A t \in Slots : Commits(t) /\ task[t].kind = "reply" =>
         /\ ~posts[task[t].post].deleted
         /\ CanReply(account[task[t].user].staff, TopicOf(t))]_vars

\* An edit replaces the body its author was shown.
NoLostEdit ==
    [][\A t \in Slots : Commits(t) /\ task[t].kind = "edit" =>
         posts[task[t].post].text = task[t].text]_vars

\* What is redacted stays out of sight and is never written again.
RedactionIsFinal ==
    [][\A p \in DOMAIN posts : posts[p].redacted => posts'[p] = posts[p]]_vars

=============================================================================
